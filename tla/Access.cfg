SPECIFICATION MCSpec
CONSTANTS
  None = None
  Anyone = Anyone
  u1 = u1
  u2 = u2
  root = root
  Users = {u1, u2, root}
  Admins = {root}
  Clients = {c1, c2}
  TokenUsers = {root}
  TokenClients = {k1, k2}
  MaxTokens = 2
  MaxVersion = 2
  Words = {"in", "x"}
  Name = 1
  Lists <- MCLists
  Labels <- MCLabels
  OtherApps <- MCOtherApps
INVARIANTS ToldIsTrue  SelectorsSplit
 
CHECK_DEADLOCK FALSE
