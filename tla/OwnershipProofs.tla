-------------------------- MODULE OwnershipProofs --------------------------
(***************************************************************************)
(* Proofs about module Ownership: for any users, clients and member lists, *)
(* an application changes only by a call whose user has the right to that  *)
(* change when it is committed.                                            *)
(***************************************************************************)
EXTENDS Ownership, TLAPS

(* A call in progress has passed its checks, and the checks still hold:    *)
(* nobody else can change the row while the call has the lock.             *)
Checked(c) ==
    call[c] # None =>
      /\ app # None
      /\ call[c].op = "read_transfer_state" => call[c].pc = "lookup"
      /\ call[c].op # "read_transfer_state" =>
           Permits(app, Written(app, call[c]), call[c].who)

(* The inductive invariant.                                                *)
OwnershipIInv == TypeOK /\ \A c \in Clients : Checked(c)

-----------------------------------------------------------------------------
(* A new application has no members.                                       *)
LEMMA NoMembersType == NoMembers \in MemberLists
<1>1. NoMembers \in [{} -> Roles]
      BY DEF NoMembers
<1>2. {} \in SUBSET (Users \cup {Anyone})
      OBVIOUS
<1>3. QED
      BY <1>1, <1>2 DEF MemberLists

(* What a call writes into a row leaves a row, or deletes it.              *)
LEMMA WrittenType ==
    ASSUME NEW row \in Apps, NEW k \in Calls, k.op # "read_transfer_state"
    PROVE  Written(row, k) \in Apps \cup {None}
BY DEF Written, Apps, Calls, Ops

(* Only the owner and system administrators have the permission "owner".   *)
LEMMA OwnerPermission ==
    ASSUME NEW row \in Apps, NEW who \in Identities, Authorize(row, who, "owner")
    PROVE  who.admin \/ row.owner = who.id
BY OwnershipAssumption DEF Authorize, RolesFor, Apps

LEMMA OwnershipInit == Init => OwnershipIInv
BY OwnershipAssumption DEF Init, OwnershipIInv, TypeOK, Checked, Versions

(* A call that gets the lock is the only one in progress.                  *)
LEMMA BeginKeeps ==
    ASSUME OwnershipIInv, NEW c \in Clients, GetForUpdate(c), UNCHANGED app,
           version' \in Versions,
           NEW op \in Ops, NEW who \in Identities, NEW pc \in {"lookup", "commit"},
           NEW row \in Apps, Proceed(c, op, who, pc, row),
           op = "read_transfer_state" => pc = "lookup",
           op # "read_transfer_state" =>
             Permits(app, Written(app, [op |-> op, who |-> who, pc |-> pc, row |-> row]), who)
    PROVE  OwnershipIInv'
<1> DEFINE k == [op |-> op, who |-> who, pc |-> pc, row |-> row]
<1>1. k \in Calls /\ k # None
      BY NoneIsNothing DEF Calls
<1>2. call' = [call EXCEPT ![c] = k]
      BY DEF Proceed
<1>3. \A d \in Clients : d # c => call[d] = None /\ call'[d] = None
      BY <1>2, OwnershipAssumption DEF OwnershipIInv, TypeOK, GetForUpdate
<1>4. call'[c] = k
      BY <1>2 DEF OwnershipIInv, TypeOK
<1>5. TypeOK'
      BY <1>1, <1>2, <1>3, <1>4, OwnershipAssumption DEF OwnershipIInv, TypeOK, GetForUpdate
<1>6. Checked(c)'
  <2>1. app' # None
        BY DEF GetForUpdate
  <2>2. /\ call'[c].op = op /\ call'[c].who = who /\ call'[c].pc = pc
        BY <1>4
  <2>3. op # "read_transfer_state" => Permits(app', Written(app', call'[c]), call'[c].who)
        BY <1>4, <2>2
  <2>4. QED
        BY <2>1, <2>2, <2>3 DEF Checked
<1>7. \A d \in Clients : d # c => Checked(d)'
      BY <1>3 DEF Checked
<1>8. QED
      BY <1>5, <1>6, <1>7 DEF OwnershipIInv

-----------------------------------------------------------------------------
(* Every operation checks what Permits asks for the columns it writes.     *)
LEMMA RequestKeeps ==
    ASSUME OwnershipIInv, NEW c \in Clients, NEW who \in Identities, Request(c, who)
    PROVE  OwnershipIInv'
<1> USE DEF OwnershipIInv
<1>0. app # None => app \in Apps
      BY DEF TypeOK
<1>1. ASSUME NEW labels \in Labels, CreateApp(c, who, labels)
      PROVE  OwnershipIInv'
  <2>1. app' \in Apps /\ version' \in Versions
        BY <1>1, NoMembersType, OwnershipAssumption
        DEF CreateApp, Apps, Versions, TypeOK, Identities
  <2>2. \A d \in Clients : call[d] = None
        BY <1>1, OwnershipAssumption DEF CreateApp, TypeOK
  <2>3. QED
        BY <1>1, <2>1, <2>2 DEF CreateApp, TypeOK, Checked
<1>2. ASSUME NEW labels \in Labels, UpdateApp(c, who, labels)
      PROVE  OwnershipIInv'
  <2> DEFINE row == [app EXCEPT !.labels = labels, !.version = version']
  <2>1. app \in Apps /\ version' \in Versions
        BY <1>0, <1>2, OwnershipAssumption DEF UpdateApp, GetForUpdate, TypeOK, Versions
  <2>2. row \in Apps
        BY <2>1 DEF Apps
  <2>3. Permits(app, Written(app, [op |-> "update_app", who |-> who, pc |-> "commit", row |-> row]), who)
        BY <1>2, <2>1, <2>2, NoneIsNothing DEF UpdateApp, Permits, Written, Apps
  <2>4. QED
        BY <1>2, <2>1, <2>2, <2>3, BeginKeeps DEF UpdateApp, Ops
<1>3. CASE DeleteApp(c, who)
  <2>1. app \in Apps /\ version' \in Versions
        BY <1>0, <1>3 DEF DeleteApp, GetForUpdate, TypeOK
  <2>2. Permits(app, Written(app, [op |-> "delete_app", who |-> who, pc |-> "commit", row |-> app]), who)
        BY <1>3 DEF DeleteApp, Permits, Written
  <2>3. QED
        BY <1>3, <2>1, <2>2, BeginKeeps DEF DeleteApp, Ops
<1>4. ASSUME NEW new_user \in Users, Transfer(c, who, new_user)
      PROVE  OwnershipIInv'
  <2> DEFINE row == [app EXCEPT !.owner = who.id, !.transfer = new_user]
  <2>1. app \in Apps /\ version' \in Versions
        BY <1>0, <1>4 DEF Transfer, GetForUpdate, TypeOK
  <2>2. row \in Apps
        BY <2>1 DEF Apps, Identities
  <2>3. who.admin \/ app.owner = who.id
        BY <1>4, <2>1, OwnerPermission DEF Transfer
  <2>4. Permits(app, Written(app, [op |-> "transfer", who |-> who, pc |-> "lookup", row |-> row]), who)
        BY <1>4, <2>1, <2>2, <2>3, NoneIsNothing DEF Transfer, Permits, Written, Apps
  <2>5. QED
        BY <1>4, <2>1, <2>2, <2>4, BeginKeeps DEF Transfer, Ops
<1>5. CASE ReadTransferState(c, who)
  <2>1. app \in Apps /\ version' \in Versions
        BY <1>0, <1>5 DEF ReadTransferState, GetForUpdate, TypeOK
  <2>2. QED
        BY <1>5, <2>1, BeginKeeps DEF ReadTransferState, Ops
<1>6. CASE Accept(c, who)
  <2> DEFINE row == [app EXCEPT !.owner = who.id, !.transfer = None]
  <2>1. app \in Apps /\ version' \in Versions
        BY <1>0, <1>6 DEF Accept, GetForUpdate, TypeOK
  <2>2. row \in Apps
        BY <2>1 DEF Apps, Identities
  <2>3. Permits(app, Written(app, [op |-> "accept", who |-> who, pc |-> "commit", row |-> row]), who)
        BY <1>6, <2>1, <2>2, NoneIsNothing DEF Accept, Permits, Written, Apps
  <2>4. QED
        BY <1>6, <2>1, <2>2, <2>3, BeginKeeps DEF Accept, Ops
<1>7. CASE Cancel(c, who)
  <2> DEFINE row == [app EXCEPT !.transfer = None]
  <2>1. app \in Apps /\ version' \in Versions
        BY <1>0, <1>7 DEF Cancel, GetForUpdate, TypeOK
  <2>2. row \in Apps
        BY <2>1 DEF Apps
  <2>3. Authorize(app, who, "owner") \/ app.transfer = who.id
        BY <1>7 DEF Cancel, Authorize
  <2>4. Permits(app, Written(app, [op |-> "cancel", who |-> who, pc |-> "commit", row |-> row]), who)
        BY <2>1, <2>2, <2>3, NoneIsNothing DEF Permits, Written, Apps
  <2>5. QED
        BY <1>7, <2>1, <2>2, <2>4, BeginKeeps DEF Cancel, Ops
<1>8. ASSUME NEW members \in Lists, NEW expected \in {None} \cup Versions,
             SetMembers(c, who, members, expected)
      PROVE  OwnershipIInv'
  <2> DEFINE row == [app EXCEPT !.members = members]
  <2> DEFINE pc == IF DOMAIN members \subseteq {Anyone} THEN "commit" ELSE "lookup"
  <2>1. app \in Apps /\ version' \in Versions
        BY <1>0, <1>8 DEF SetMembers, GetForUpdate, TypeOK
  <2>2. row \in Apps /\ pc \in {"lookup", "commit"}
        BY <2>1, OwnershipAssumption DEF Apps
  <2>3. Permits(app, Written(app, [op |-> "set_members", who |-> who, pc |-> pc, row |-> row]), who)
        BY <1>8, <2>1, <2>2, NoneIsNothing DEF SetMembers, Permits, Written, Apps
  <2>4. QED
        BY <1>8, <2>1, <2>2, <2>3, BeginKeeps DEF SetMembers, Ops
<1>9. QED
      BY <1>1, <1>2, <1>3, <1>4, <1>5, <1>6, <1>7, <1>8 DEF Request

(* A call that ends gives the lock back, and leaves nobody in progress.    *)
LEMMA ReleaseKeeps ==
    ASSUME OwnershipIInv, NEW c \in Clients, call[c] # None, Release(c),
           app' \in Apps \cup {None}, UNCHANGED version
    PROVE  OwnershipIInv'
<1> USE DEF OwnershipIInv, TypeOK
<1>1. lock = c /\ lock' = None
      BY DEF Release
<1>2. \A d \in Clients : call'[d] = None
      BY <1>1 DEF Release
<1>3. TypeOK'
      BY <1>1, <1>2, OwnershipAssumption DEF Release
<1>4. \A d \in Clients : Checked(d)'
      BY <1>2 DEF Checked
<1>5. QED
      BY <1>3, <1>4

LEMMA ServeKeeps ==
    ASSUME OwnershipIInv, NEW c \in Clients, Serve(c)
    PROVE  OwnershipIInv'
<1> USE DEF OwnershipIInv
<1>0. app' \in Apps \cup {None} /\ UNCHANGED version /\ Release(c) /\ call[c] # None => OwnershipIInv'
      BY ReleaseKeeps
<1>1. CASE LookupDone(c)
  <2>1. CASE call[c].op = "read_transfer_state"
        BY <1>0, <1>1, <2>1 DEF LookupDone, TypeOK
  <2>2. CASE call[c].op # "read_transfer_state"
    <3> DEFINE k == [call[c] EXCEPT !.pc = "commit"]
    <3>1. /\ call' = [call EXCEPT ![c].pc = "commit"] /\ UNCHANGED <<app, lock, version>>
          /\ call[c] \in Calls
          BY <1>1, <2>2 DEF LookupDone, TypeOK
    <3>2. k \in Calls /\ k # None /\ k.op = call[c].op /\ k.who = call[c].who /\ k.row = call[c].row
          BY <3>1, NoneIsNothing DEF Calls
    <3>3. call' = [call EXCEPT ![c] = k] /\ call'[c] = k
          BY <3>1 DEF TypeOK
    <3>4. TypeOK'
          BY <1>1, <3>1, <3>2, <3>3 DEF TypeOK, LookupDone
    <3>5. Written(app, k) = Written(app, call[c])
          BY <3>2 DEF Written
    <3>6. Checked(c)'
          BY <1>1, <2>2, <3>1, <3>2, <3>3, <3>5 DEF Checked, LookupDone
    <3>7. \A d \in Clients : d # c => Checked(d)'
          BY <3>1, <3>3 DEF Checked, TypeOK
    <3>8. QED
          BY <3>4, <3>6, <3>7
  <2>3. QED
        BY <2>1, <2>2
<1>2. CASE Fails(c)
      BY <1>0, <1>2 DEF Fails, TypeOK
<1>3. CASE Commit(c)
  <2>1. call[c] \in Calls /\ call[c].op # "read_transfer_state"
        BY <1>3 DEF Commit, TypeOK, Checked
  <2>2. app' \in Apps \cup {None}
        BY <1>3, <2>1, WrittenType DEF Commit, TypeOK
  <2>3. QED
        BY <1>0, <1>3, <2>2 DEF Commit
<1>4. QED
      BY <1>1, <1>2, <1>3 DEF Serve

LEMMA OwnershipStep == OwnershipIInv /\ [Next]_vars => OwnershipIInv'
<1> SUFFICES ASSUME OwnershipIInv, [Next]_vars PROVE OwnershipIInv'
    OBVIOUS
<1>1. CASE Next
      BY <1>1, RequestKeeps, ServeKeeps DEF Next
<1>2. CASE UNCHANGED vars
      BY <1>2 DEF vars, OwnershipIInv, TypeOK, Checked
<1>3. QED
      BY <1>1, <1>2

(* The row, the lock and the calls keep their types, and the row lock is   *)
(* held by the one call that is in progress.                               *)
THEOREM OwnershipTypeCorrect == Spec => []TypeOK
<1>1. OwnershipIInv => TypeOK
      BY DEF OwnershipIInv
<1>2. QED
      BY <1>1, OwnershipInit, OwnershipStep, PTL DEF Spec

(* No step but the commit of a call changes an existing application.       *)
LEMMA PermittedStep ==
    OwnershipIInv /\ [Next]_vars =>
      [app # None /\ app' # app =>
         \E c \in Clients : call[c] # None /\ call'[c] = None /\ Permits(app, app', call[c].who)]_vars
<1> SUFFICES ASSUME OwnershipIInv, Next, app # None, app' # app
             PROVE  \E c \in Clients :
                      call[c] # None /\ call'[c] = None /\ Permits(app, app', call[c].who)
    BY DEF vars
<1>1. PICK c \in Clients : (\E who \in Identities : Request(c, who)) \/ Serve(c)
      BY DEF Next
<1>2. Commit(c)
      BY <1>1 DEF Request, CreateApp, UpdateApp, DeleteApp, Transfer, ReadTransferState, Accept,
                  Cancel, SetMembers, Serve, LookupDone, Fails
<1>3. call[c].op # "read_transfer_state" /\ app' = Written(app, call[c]) /\ call[c] # None
      BY <1>2 DEF Commit, OwnershipIInv, Checked
<1>4. Permits(app, app', call[c].who)
      BY <1>3 DEF OwnershipIInv, Checked
<1>5. call'[c] = None
      BY <1>2 DEF Commit, Release, OwnershipIInv, TypeOK
<1>6. QED
      BY <1>3, <1>4, <1>5

(* An application changes only by a call whose user has the right to that  *)
(* change at the time it is committed: what a handler of the admin or the  *)
(* management API checks still holds after it has waited for Keycloak,     *)
(* because it has read the row for update.                                 *)
THEOREM OnlyPermittedChanges == Spec => ChangesArePermitted
<1>1. QED
      BY OwnershipInit, OwnershipStep, PermittedStep, PTL DEF Spec, ChangesArePermitted

=============================================================================
