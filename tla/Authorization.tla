--------------------------- MODULE Authorization ---------------------------
(***************************************************************************)
(* Who may do what with an application (database-common).                  *)
(*                                                                         *)
(* An application row names its owner and its members, a function from     *)
(* some user ids to roles.  The member Anyone stands for the key "", which *)
(* the documentation offers for sharing with the whole world.  An identity *)
(* is an authenticated user, [id, admin]: admin tells whether the roles of *)
(* the login make it a system administrator.                               *)
(***************************************************************************)
EXTENDS Option

CONSTANTS Users, Anyone

Roles == {"reader", "manager", "admin"}

Permissions == {"read", "write", "admin", "owner"}

Identities == [id : Users, admin : BOOLEAN]

MemberLists == UNION {[M -> Roles] : M \in SUBSET (Users \cup {Anyone})}

NoMembers == [m \in {} |-> "reader"]

\* The roles that carry a permission.
RolesFor(permission) ==
  CASE permission = "owner" -> {}
    [] permission = "admin" -> {"admin"}
    [] permission = "write" -> {"admin", "manager"}
    [] permission = "read"  -> Roles

Authorize(app, who, permission) ==
  \/ who.admin
  \/ app.owner = None
  \/ app.owner = who.id
  \/ /\ who.id \in DOMAIN app.members
     /\ app.members[who.id] \in RolesFor(permission)

\* A faulty variant: the clause for the member list forgets the managers.
AuthReadReaders(app, who) ==
  \/ who.admin
  \/ app.owner = who.id
  \/ \E m \in {who.id, Anyone} \cap DOMAIN app.members : app.members[m] \in {"reader", "admin"}

\* The condition auth_read adds to a select: SQL finds no row whose OWNER is
\* NULL, and every row that has a member for the key "".
AuthRead(app, who) ==
  \/ who.admin
  \/ app.owner = who.id
  \/ \E m \in {who.id, Anyone} \cap DOMAIN app.members : app.members[m] \in Roles

\* The question other services ask the user authorization service.
AuthorizeRequest(app, who, permission) ==
  app # None /\ Authorize(app, who, permission)

=============================================================================
