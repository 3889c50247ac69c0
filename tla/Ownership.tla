----------------------------- MODULE Ownership -----------------------------
(***************************************************************************)
(* Who owns an application and who shares it: the admin API (admin-service,*)
(* implemented by device-management-service/src/service/admin) next to the *)
(* management calls that create, change and delete the application.        *)
(*                                                                         *)
(* app is the committed row of one application.  All calls but the reads   *)
(* take the row with SELECT ... FOR UPDATE in a transaction, check it, may *)
(* ask Keycloak about user names while they hold the lock, write some      *)
(* columns and commit.  A call that waits for the lock has done nothing    *)
(* yet, so it enters call when it gets the lock.  A call that is refused   *)
(* changes nothing: it is a step that does not happen.                     *)
(***************************************************************************)
EXTENDS Authorization, Naturals

CONSTANTS Clients,      \* concurrent callers
          Lists,        \* the member lists clients send
          Labels,       \* the labels clients give an application
          MaxVersion    \* bound: number of resource versions handed out

ASSUME OwnershipAssumption ==
  /\ Lists \subseteq MemberLists
  /\ MaxVersion \in Nat
  /\ None \notin Users \cup Clients

VARIABLES app,      \* the row, or None
          lock,     \* the client whose transaction holds the row lock, or None
          call,     \* the call each client has in progress, or None
          version   \* the newest resource version, versions being unique

vars == <<app, lock, call, version>>

Versions == 0..MaxVersion

Apps == [owner : Users, transfer : Users \cup {None}, members : MemberLists,
         labels : Labels, version : Versions]

Ops == {"transfer", "read_transfer_state", "cancel", "accept", "set_members", "update_app",
        "delete_app"}

\* row: the application as the call read it, with what it wants to write.
Calls == [op : Ops, who : Identities, pc : {"lookup", "commit"}, row : Apps]

ASSUME NoneIsNothing == None \notin Apps \cup Calls

(* Rows, locks and writes *************************************************)

\* A faulty variant: get with Lock::None.
GetUnlocked(c) == call[c] = None /\ app # None /\ UNCHANGED lock

\* get with Lock::ForUpdate, in a new transaction.
GetForUpdate(c) == call[c] = None /\ app # None /\ lock = None /\ lock' = c

\* What the row becomes by the columns an accessor's function writes:
\* update_transfer, set_members, update_data, delete.
Written(row, k) ==
  CASE k.op \in {"transfer", "cancel", "accept"} ->
         [row EXCEPT !.owner = k.row.owner, !.transfer = k.row.transfer]
    [] k.op = "set_members" -> [row EXCEPT !.members = k.row.members]
    [] k.op = "update_app"  -> [row EXCEPT !.labels = k.row.labels, !.version = k.row.version]
    [] k.op = "delete_app"  -> None

\* A call that has passed its checks goes on to ask Keycloak or to commit.
Proceed(c, op, who, pc, row) ==
  call' = [call EXCEPT ![c] = [op |-> op, who |-> who, pc |-> pc, row |-> row]]

(* The operations *********************************************************)

\* An insert waits for a transaction that deletes the row, and fails with
\* a conflict when there is one.
CreateApp(c, who, labels) ==
  /\ call[c] = None /\ app = None /\ lock = None
  /\ version < MaxVersion
  /\ version' = version + 1
  /\ app' = [owner |-> who.id, transfer |-> None, members |-> NoMembers, labels |-> labels,
             version |-> version']
  /\ UNCHANGED <<lock, call>>

UpdateApp(c, who, labels) ==
  /\ GetForUpdate(c)
  /\ Authorize(app, who, "write")
  /\ labels # app.labels
  /\ version < MaxVersion
  /\ version' = version + 1
  /\ Proceed(c, "update_app", who, "commit", [app EXCEPT !.labels = labels, !.version = version'])
  /\ UNCHANGED app

DeleteApp(c, who) ==
  /\ GetForUpdate(c)
  /\ Authorize(app, who, "admin")
  /\ Proceed(c, "delete_app", who, "commit", app)
  /\ UNCHANGED <<app, version>>

\* The offer makes the caller the owner: a system administrator takes the
\* application over by offering it.
Transfer(c, who, new_user) ==
  /\ GetForUpdate(c)
  /\ Authorize(app, who, "owner")
  /\ Proceed(c, "transfer", who, "lookup", [app EXCEPT !.owner = who.id, !.transfer = new_user])
  /\ UNCHANGED <<app, version>>

\* Without an offer the answer is empty, and nobody is asked.
ReadTransferState(c, who) ==
  /\ GetForUpdate(c)
  /\ who.id \in {app.owner, app.transfer}
  /\ app.transfer # None
  /\ Proceed(c, "read_transfer_state", who, "lookup", app)
  /\ UNCHANGED <<app, version>>

Accept(c, who) ==
  /\ GetForUpdate(c)
  /\ app.transfer = who.id
  /\ Proceed(c, "accept", who, "commit", [app EXCEPT !.owner = who.id, !.transfer = None])
  /\ UNCHANGED <<app, version>>

\* The owner withdraws the offer, or the receiver declines it.
Cancel(c, who) ==
  /\ GetForUpdate(c)
  /\ who.id \in {app.owner, app.transfer}
  /\ Proceed(c, "cancel", who, "commit", [app EXCEPT !.transfer = None])
  /\ UNCHANGED <<app, version>>

\* expected: the resource version the client got from get_members with the
\* list it changed, None when it sends none.  The key "" is not looked up.
SetMembers(c, who, members, expected) ==
  /\ GetForUpdate(c)
  /\ expected \in {None, app.version}
  /\ Authorize(app, who, "admin")
  /\ Proceed(c, "set_members", who, IF DOMAIN members \subseteq {Anyone} THEN "commit" ELSE "lookup",
             [app EXCEPT !.members = members])
  /\ UNCHANGED <<app, version>>

(* Keycloak answers, and the end of a call ********************************)

Release(c) ==
  /\ call' = [call EXCEPT ![c] = None]
  /\ lock' = IF lock = c THEN None ELSE lock

\* The transaction of read_transfer_state is dropped, not committed.
LookupDone(c) ==
  /\ call[c] # None /\ call[c].pc = "lookup"
  /\ IF call[c].op = "read_transfer_state" THEN Release(c)
     ELSE call' = [call EXCEPT ![c].pc = "commit"] /\ UNCHANGED lock
  /\ UNCHANGED <<app, version>>

\* An unknown user name, Keycloak or the database failing, the request being
\* dropped: the transaction is rolled back.
Fails(c) ==
  /\ call[c] # None
  /\ Release(c)
  /\ UNCHANGED <<app, version>>

\* An update that finds no row writes nothing.
Commit(c) ==
  /\ call[c] # None /\ call[c].pc = "commit"
  /\ app' = IF app = None THEN None ELSE Written(app, call[c])
  /\ Release(c)
  /\ UNCHANGED version

Init ==
  /\ app = None
  /\ lock = None
  /\ call = [c \in Clients |-> None]
  /\ version = 0

\* A request of client c that reaches the services as who.
Request(c, who) ==
  \/ \E labels \in Labels : CreateApp(c, who, labels) \/ UpdateApp(c, who, labels)
  \/ DeleteApp(c, who)
  \/ \E new_user \in Users : Transfer(c, who, new_user)
  \/ ReadTransferState(c, who)
  \/ Accept(c, who)
  \/ Cancel(c, who)
  \/ \E members \in Lists, expected \in {None} \cup Versions : SetMembers(c, who, members, expected)

Serve(c) == LookupDone(c) \/ Fails(c) \/ Commit(c)

Next == \E c \in Clients : (\E who \in Identities : Request(c, who)) \/ Serve(c)

Spec == Init /\ [][Next]_vars

(* Properties *************************************************************)

\* The row and the calls are well formed, and the row lock is held by the one
\* call that has read the row to write it.
TypeOK ==
  /\ app \in Apps \cup {None}
  /\ lock \in Clients \cup {None}
  /\ call \in [Clients -> Calls \cup {None}]
  /\ version \in Versions
  /\ \A c \in Clients : lock = c <=> call[c] # None

\* What the roles permit, as the guide to application sharing lists it.
Permits(old, new, who) ==
  IF new = None THEN Authorize(old, who, "admin")
  ELSE /\ new.members # old.members => Authorize(old, who, "admin")
       /\ new.labels # old.labels => Authorize(old, who, "write")
       /\ new.owner # old.owner => old.transfer = who.id \/ who.admin
       /\ new.transfer # old.transfer => Authorize(old, who, "owner") \/ old.transfer = who.id

\* An application changes only by a call whose user has the right to that change
\* at the time it is committed: nobody loses an application they were given by
\* an offer of its former owner that was still on its way, and nobody who lost a
\* role, or whose offer was withdrawn, gets to use it.  Between the check and
\* the commit the calls wait for Keycloak.
ChangesArePermitted ==
  [][app # None /\ app' # app =>
       \E c \in Clients : call[c] # None /\ call'[c] = None /\ Permits(app, app', call[c].who)]_vars

=============================================================================
