------------------------------ MODULE MCAccess ------------------------------
(* Instance of Access for TLC. *)
EXTENDS Access, TLC

CONSTANTS u1, u2, root

\* Bound: two tokens, or one token and calls for an application.
Small == Cardinality(Created) < 2 \/ version = 0

MCNext == AccessNext /\ Small'

MCSpec == AccessInit /\ [][MCNext]_allVars

MCLists == {NoMembers, u2 :> "admin", u2 :> "manager", Anyone :> "reader"}

MCLabels == {NoMembers, "in" :> "x"}

MCOtherApps ==
  2 :> [owner |-> u1, transfer |-> None, members |-> u2 :> "manager",
        labels |-> "in" :> "x" @@ "x" :> "in", version |-> 0]
  @@ 3 :> [owner |-> root, transfer |-> None, members |-> Anyone :> "reader",
        labels |-> "x" :> "x", version |-> 0]
  @@ 4 :> [owner |-> root, transfer |-> None, members |-> u1 :> "reader",
        labels |-> "in" :> "in", version |-> 0]

=============================================================================
