--------------------------- MODULE RegistryProofs ---------------------------
(***************************************************************************)
(* Proofs about module Registry: for any applications, devices and clients *)
(* that write with the version they have read, a deletion waits for all    *)
(* finalizers, a version identifies its content, and resources only move   *)
(* forward.                                                                *)
(***************************************************************************)
EXTENDS Registry, TLAPS

(* Uids are numbered as they are given out.                                *)
Numbered(uid, kind, n) == uid[1] = kind /\ uid[2] \in 1 .. n
UidsAreOld ==
    /\ \A a \in Apps : apps[a] # Absent => Numbered(apps[a].uid, "app", created.app)
    /\ \A id \in Ids : devices[id] # Absent => Numbered(devices[id].uid, "device", created.device)
    /\ \A c \in Clients : copies[c] # NoCopy =>
          IF copies[c].name = NoDevice THEN Numbered(copies[c].uid, "app", created.app)
          ELSE Numbered(copies[c].uid, "device", created.device)

(* A copy is of an earlier revision than the row, or of the same content.  *)
Behind(copy, row) ==
    row # Absent /\ copy.uid = row.uid =>
        /\ copy.rev <= row.rev
        /\ copy.rev = row.rev => copy.fin = row.fin /\ copy.spec = row.spec
RowIn(copy, as, ds) == IF copy.name = NoDevice THEN as[copy.app] ELSE ds[<<copy.app, copy.name>>]
RowOf(copy) == RowIn(copy, apps, devices)
CopiesAreBehind == \A c \in Clients : copies[c] # NoCopy => Behind(copies[c], RowOf(copies[c]))

(* The inductive invariant.                                                *)
RegistryIInv == TablesTypeOK /\ UidsAreOld /\ CopiesAreBehind /\ DeletionWaits

(* What a client may write.                                                *)
Contents == [fin : SUBSET Finalizers, spec : Specs]

-----------------------------------------------------------------------------
(* Writing a row.                                                          *)

LEMMA NewRowOK ==
    ASSUME NEW uid \in Uids, NEW fin \in SUBSET Finalizers, NEW spec \in Specs
    PROVE  /\ NewRow(uid, fin, spec) \in Rows
           /\ NewRow(uid, fin, spec).uid = uid
           /\ ~NewRow(uid, fin, spec).deleted
BY DEF NewRow, Rows

(* Changing one column of a row.                                           *)
LEMMA RevEdit ==
    ASSUME NEW row \in Rows, NEW x \in Nat
    PROVE  LET r == [row EXCEPT !.rev = x]
           IN /\ r \in Rows /\ r.rev = x
              /\ r.uid = row.uid /\ r.gen = row.gen /\ r.deleted = row.deleted /\ r.fin = row.fin /\ r.spec = row.spec
BY DEF Rows

LEMMA GenEdit ==
    ASSUME NEW row \in Rows, NEW x \in Nat
    PROVE  LET r == [row EXCEPT !.gen = x]
           IN /\ r \in Rows /\ r.gen = x
              /\ r.uid = row.uid /\ r.rev = row.rev /\ r.deleted = row.deleted /\ r.fin = row.fin /\ r.spec = row.spec
BY DEF Rows

LEMMA DeletedEdit ==
    ASSUME NEW row \in Rows, NEW x \in BOOLEAN
    PROVE  LET r == [row EXCEPT !.deleted = x]
           IN /\ r \in Rows /\ r.deleted = x
              /\ r.uid = row.uid /\ r.rev = row.rev /\ r.gen = row.gen /\ r.fin = row.fin /\ r.spec = row.spec
BY DEF Rows

LEMMA FinEdit ==
    ASSUME NEW row \in Rows, NEW x \in SUBSET Finalizers
    PROVE  LET r == [row EXCEPT !.fin = x]
           IN /\ r \in Rows /\ r.fin = x
              /\ r.uid = row.uid /\ r.rev = row.rev /\ r.gen = row.gen /\ r.deleted = row.deleted /\ r.spec = row.spec
BY DEF Rows

LEMMA SpecEdit ==
    ASSUME NEW row \in Rows, NEW x \in Specs
    PROVE  LET r == [row EXCEPT !.spec = x]
           IN /\ r \in Rows /\ r.spec = x
              /\ r.uid = row.uid /\ r.rev = row.rev /\ r.gen = row.gen /\ r.deleted = row.deleted /\ r.fin = row.fin
BY DEF Rows

LEMMA AdvanceFromOK ==
    ASSUME NEW row \in Rows, NEW new \in Contents
    PROVE  LET r == AdvanceFrom(row, new)
           IN /\ r \in Rows
              /\ r.uid = row.uid /\ r.rev = row.rev + 1 /\ r.deleted = row.deleted
              /\ r.fin = new.fin /\ r.spec = new.spec
              /\ r.gen = row.gen + (IF r.spec # row.spec THEN 1 ELSE 0)
<1>1. ".spec" \in DiffPaths(row, new) <=> row.spec # new.spec
      BY DEF DiffPaths
<1> DEFINE g == IF ".spec" \in DiffPaths(row, new) THEN row.gen + 1 ELSE row.gen
<1>2. g \in Nat
      BY DEF Rows
<1>3. AdvanceFrom(row, new) = [row EXCEPT !.rev = row.rev + 1, !.gen = g, !.fin = new.fin, !.spec = new.spec]
      BY DEF AdvanceFrom
<1> HIDE DEF g
<1>4. LET r == AdvanceFrom(row, new)
      IN /\ r \in Rows
         /\ r.uid = row.uid /\ r.rev = row.rev + 1 /\ r.deleted = row.deleted
         /\ r.fin = new.fin /\ r.spec = new.spec /\ r.gen = g
  <2> DEFINE r1 == [row EXCEPT !.rev = row.rev + 1]
             r2 == [r1 EXCEPT !.gen = g]
             r3 == [r2 EXCEPT !.fin = new.fin]
             r4 == [r3 EXCEPT !.spec = new.spec]
  <2>1. row.rev + 1 \in Nat /\ new.fin \in SUBSET Finalizers /\ new.spec \in Specs
        BY DEF Rows, Contents
  <2>2. AdvanceFrom(row, new) = r4
        BY <1>3
  <2>3. /\ r1 \in Rows /\ r1.rev = row.rev + 1
        /\ r1.uid = row.uid /\ r1.deleted = row.deleted
        BY <2>1, RevEdit
  <2> HIDE DEF r1
  <2>4. /\ r2 \in Rows /\ r2.rev = row.rev + 1 /\ r2.gen = g
        /\ r2.uid = row.uid /\ r2.deleted = row.deleted
        BY <1>2, <2>3, GenEdit
  <2> HIDE DEF r2
  <2>5. /\ r3 \in Rows /\ r3.rev = row.rev + 1 /\ r3.gen = g /\ r3.fin = new.fin
        /\ r3.uid = row.uid /\ r3.deleted = row.deleted
        BY <2>1, <2>4, FinEdit
  <2> HIDE DEF r3
  <2>6. /\ r4 \in Rows /\ r4.rev = row.rev + 1 /\ r4.gen = g /\ r4.fin = new.fin
        /\ r4.spec = new.spec /\ r4.uid = row.uid /\ r4.deleted = row.deleted
        BY <2>1, <2>5, SpecEdit
  <2>7. QED
        BY <2>2, <2>6
<1>5. QED
      BY <1>1, <1>4 DEF g, Rows

LEMMA UpdatedOK ==
    ASSUME NEW row \in Rows, NEW new \in Contents, Waiting(row)
    PROVE  LET r == Updated(row, new)
           IN /\ r = Absent <=> Finalized(row, new)
              /\ Waiting(r) /\ Forward(row, r)
              /\ r # Absent => /\ r \in Rows /\ r.uid = row.uid /\ r.deleted = row.deleted
                               /\ r.fin = new.fin
<1>1. CASE Finalized(row, new)
      BY <1>1 DEF Updated, Waiting, Forward
<1>2. CASE ~Finalized(row, new) /\ DiffPaths(row, new) = {}
  <2>1. row.fin = new.fin
        BY <1>2 DEF DiffPaths
  <2>2. Updated(row, new) = row /\ row # Absent
        BY <1>2, RegistryAssumption DEF Updated
  <2>3. QED
        BY <1>2, <2>1, <2>2 DEF Forward
<1>3. CASE ~Finalized(row, new) /\ DiffPaths(row, new) # {}
  <2>1. Updated(row, new) = AdvanceFrom(row, new)
        BY <1>3 DEF Updated
  <2>2. AdvanceFrom(row, new) # Absent
        BY AdvanceFromOK, RegistryAssumption
  <2>3. QED
        BY <1>3, <2>1, <2>2, AdvanceFromOK DEF Forward, Waiting, Finalized
<1>4. QED
      BY <1>1, <1>2, <1>3

LEMMA SoftDeletedOK ==
    ASSUME NEW row \in Rows
    PROVE  LET r == SoftDeleted(row)
           IN /\ r = Absent <=> row.fin = {}
              /\ Waiting(r)
              /\ r # Absent => /\ r \in Rows /\ r.uid = row.uid /\ r.deleted
                               /\ r.fin = row.fin /\ r.rev = row.rev + 1
                               /\ r.gen = row.gen /\ r.spec = row.spec
<1>1. CASE row.fin = {}
      BY <1>1 DEF SoftDeleted, Waiting
<1>2. CASE row.fin # {}
  <2> DEFINE r == [row EXCEPT !.rev = row.rev + 1, !.deleted = TRUE]
  <2>1. SoftDeleted(row) = r
        BY <1>2 DEF SoftDeleted
  <2>2. /\ r \in Rows /\ r.uid = row.uid /\ r.deleted /\ r.fin = row.fin
        /\ r.rev = row.rev + 1 /\ r.gen = row.gen /\ r.spec = row.spec
    <3> DEFINE r1 == [row EXCEPT !.rev = row.rev + 1]
    <3>1. row.rev + 1 \in Nat
          BY DEF Rows
    <3>2. /\ r1 \in Rows /\ r1.uid = row.uid /\ r1.fin = row.fin
          /\ r1.rev = row.rev + 1 /\ r1.gen = row.gen /\ r1.spec = row.spec
          BY <3>1, RevEdit
    <3>3. r = [r1 EXCEPT !.deleted = TRUE]
          OBVIOUS
    <3> HIDE DEF r, r1
    <3>4. QED
          BY <3>2, <3>3, DeletedEdit
  <2>3. QED
        BY <1>2, <2>1, <2>2, RegistryAssumption DEF Waiting
<1>3. QED
      BY <1>1, <1>2

-----------------------------------------------------------------------------
(* What a transaction does to the tables.                                  *)

NewUid(old, new, kind, n, n2) ==
    old = Absent /\ new # Absent => new.uid = <<kind, n + 1>> /\ n2 = n + 1
Holds ==
    \A c \in Clients :
        /\ \A a \in Apps : Held(c, apps[a]) => Held(c, apps'[a]) \/ LetsGo(c, a, NoDevice)
        /\ \A id \in Ids : Held(c, devices[id]) =>
              Held(c, devices'[id]) \/ LetsGo(c, id[1], id[2])
TablesStep ==
    /\ apps' \in [Apps -> Rows \cup {Absent}]
    /\ devices' \in [Ids -> Rows \cup {Absent}]
    /\ created' \in [app : 0 .. MaxApps, device : 0 .. MaxDevices]
    /\ created.app <= created'.app /\ created.device <= created'.device
    /\ \A a \in Apps : /\ Forward(apps[a], apps'[a])
                       /\ NewUid(apps[a], apps'[a], "app", created.app, created'.app)
    /\ \A id \in Ids :
          /\ Forward(devices[id], devices'[id])
          /\ NewUid(devices[id], devices'[id], "device", created.device, created'.device)
    /\ DeletionWaits'
    /\ Holds

LEMMA CreatedType ==
    ASSUME TablesTypeOK
    PROVE  /\ created.app \in Nat /\ created.device \in Nat
           /\ created.app <= MaxApps /\ created.device <= MaxDevices
           /\ created.app < MaxApps =>
                /\ [created EXCEPT !.app = @ + 1] \in [app : 0 .. MaxApps, device : 0 .. MaxDevices]
                /\ [created EXCEPT !.app = @ + 1].app = created.app + 1
                /\ [created EXCEPT !.app = @ + 1].device = created.device
                /\ <<"app", created.app + 1>> \in Uids
           /\ created.device < MaxDevices =>
                /\ [created EXCEPT !.device = @ + 1] \in [app : 0 .. MaxApps, device : 0 .. MaxDevices]
                /\ [created EXCEPT !.device = @ + 1].device = created.device + 1
                /\ [created EXCEPT !.device = @ + 1].app = created.app
                /\ <<"device", created.device + 1>> \in Uids
BY RegistryAssumption DEF TablesTypeOK, Uids

LEMMA ForwardSame == \A row : Forward(row, row)
BY DEF Forward

LEMMA CreateAppStep ==
    ASSUME RegistryIInv, NEW a \in Apps, NEW fin \in SUBSET Clients, NEW spec \in Specs,
           CreateApp(a, fin, spec)
    PROVE  TablesStep
<1> USE DEF RegistryIInv
<1> DEFINE uid == <<"app", created.app + 1>>
           row == NewRow(uid, fin, spec)
<1>1. uid \in Uids
      BY CreatedType DEF CreateApp
<1>2. row \in Rows /\ row.uid = uid /\ ~row.deleted
      BY <1>1, NewRowOK DEF Finalizers
<1>3. /\ apps[a] = Absent
      /\ apps' = [apps EXCEPT ![a] = row]
      /\ created' = [created EXCEPT !.app = @ + 1]
      /\ UNCHANGED devices
      BY DEF CreateApp
<1>4. /\ created' \in [app : 0 .. MaxApps, device : 0 .. MaxDevices]
      /\ created'.app = created.app + 1 /\ created'.device = created.device
      BY <1>3, CreatedType DEF CreateApp
<1> HIDE DEF row
<1>5. apps'[a] = row /\ \A b \in Apps \ {a} : apps'[b] = apps[b]
      BY <1>3 DEF TablesTypeOK
<1>6. DeletionWaits'
      BY <1>2, <1>3, <1>5 DEF DeletionWaits, Waiting, Ids
<1>7. Holds
      BY <1>3, <1>5 DEF Holds, Held
<1>8. QED
      BY <1>2, <1>3, <1>4, <1>5, <1>6, <1>7, ForwardSame, CreatedType
      DEF TablesStep, TablesTypeOK, Forward, NewUid

LEMMA CreateDeviceStep ==
    ASSUME RegistryIInv, NEW a \in Apps, NEW n \in Names, NEW fin \in SUBSET Clients,
           NEW spec \in Specs, CreateDevice(a, n, fin, spec)
    PROVE  TablesStep
<1> USE DEF RegistryIInv
<1> DEFINE uid == <<"device", created.device + 1>>
           row == NewRow(uid, fin, spec)
           id  == <<a, n>>
<1>1. uid \in Uids /\ id \in Ids
      BY CreatedType DEF CreateDevice, Ids
<1>2. row \in Rows /\ row.uid = uid /\ ~row.deleted
      BY <1>1, NewRowOK DEF Finalizers
<1>3. /\ devices[id] = Absent /\ apps[a] # Absent /\ ~apps[a].deleted
      /\ devices' = [devices EXCEPT ![id] = row]
      /\ created' = [created EXCEPT !.device = @ + 1]
      /\ UNCHANGED apps
      BY DEF CreateDevice
<1>4. /\ created' \in [app : 0 .. MaxApps, device : 0 .. MaxDevices]
      /\ created'.device = created.device + 1 /\ created'.app = created.app
      BY <1>3, CreatedType DEF CreateDevice
<1>5. id[1] = a
      OBVIOUS
<1> HIDE DEF row, id
<1>6. devices'[id] = row /\ \A j \in Ids \ {id} : devices'[j] = devices[j]
      BY <1>1, <1>3 DEF TablesTypeOK
<1>7. DeletionWaits'
      BY <1>2, <1>3, <1>5, <1>6 DEF DeletionWaits, Waiting
<1>8. Holds
      BY <1>3, <1>6 DEF Holds, Held
<1>9. /\ apps' \in [Apps -> Rows \cup {Absent}]
      /\ devices' \in [Ids -> Rows \cup {Absent}]
      BY <1>2, <1>3 DEF TablesTypeOK
<1>10. \A b \in Apps : /\ Forward(apps[b], apps'[b])
                       /\ NewUid(apps[b], apps'[b], "app", created.app, created'.app)
       BY <1>3, ForwardSame DEF NewUid
<1>11. \A j \in Ids :
          /\ Forward(devices[j], devices'[j])
          /\ NewUid(devices[j], devices'[j], "device", created.device, created'.device)
       BY <1>2, <1>3, <1>4, <1>6, ForwardSame DEF Forward, NewUid
<1>12. created.app <= created'.app /\ created.device <= created'.device
       BY <1>4, CreatedType
<1>13. QED
       BY <1>4, <1>7, <1>8, <1>9, <1>10, <1>11, <1>12 DEF TablesStep

LEMMA DeleteDeviceStep ==
    ASSUME RegistryIInv, NEW a \in Apps, NEW n \in Names, DeleteDevice(a, n)
    PROVE  TablesStep
<1> USE DEF RegistryIInv
<1> DEFINE id  == <<a, n>>
           old == devices[id]
           new == SoftDeleted(old)
<1>1. id \in Ids /\ id[1] = a
      BY DEF Ids
<1>2. /\ old # Absent /\ ~old.deleted
      /\ devices' = [devices EXCEPT ![id] = new]
      /\ UNCHANGED <<apps, created>>
      BY DEF DeleteDevice
<1>3. old \in Rows
      BY <1>1, <1>2 DEF TablesTypeOK
<1> HIDE DEF id
<1>4. devices'[id] = new /\ \A j \in Ids \ {id} : devices'[j] = devices[j]
      BY <1>1, <1>2 DEF TablesTypeOK
<1>5. Forward(old, new) /\ (new # Absent => new \in Rows) /\ Waiting(new)
      BY <1>2, <1>3, SoftDeletedOK DEF Forward, Rows
<1>6. \A c \in Clients : Held(c, old) => Held(c, new)
      BY <1>3, SoftDeletedOK DEF Held
<1> HIDE DEF old, new
<1>7. DeletionWaits'
      BY <1>1, <1>2, <1>4, <1>5 DEF DeletionWaits, old
<1>8. Holds
      BY <1>2, <1>4, <1>6 DEF Holds, old
<1>9. QED
      BY <1>1, <1>2, <1>4, <1>5, <1>7, <1>8, ForwardSame, CreatedType
      DEF TablesStep, TablesTypeOK, NewUid, old

LEMMA DeleteAppStep ==
    ASSUME RegistryIInv, NEW a \in Apps, DeleteApp(a)
    PROVE  TablesStep
<1> USE DEF RegistryIInv
<1> DEFINE remaining == {id \in DevicesOf(devices, a) : devices[id].fin # {}}
           added == {f \in {"has-devices"} : remaining # {}}
           old == apps[a]
           row == [old EXCEPT !.fin = old.fin \cup added]
           new == SoftDeleted(row)
<1>1. /\ old # Absent /\ ~old.deleted
      /\ apps' = [apps EXCEPT ![a] = new]
      /\ devices' = [id \in Ids |-> IF id[1] = a /\ id \notin remaining
                                    THEN Absent ELSE devices[id]]
      /\ UNCHANGED created
      BY DEF DeleteApp
<1>2. old \in Rows /\ old.fin \in SUBSET Finalizers
      BY <1>1 DEF TablesTypeOK, Rows
<1>3. old.fin \cup added \in SUBSET Finalizers
      BY <1>2 DEF Finalizers
<1>4. /\ row \in Rows /\ row.fin = old.fin \cup added
      /\ row.uid = old.uid /\ row.rev = old.rev /\ row.gen = old.gen /\ row.spec = old.spec
      BY <1>2, <1>3, FinEdit
<1>5. remaining # {} => "has-devices" \in added
      OBVIOUS
<1> HIDE DEF old, row, added
<1>6. /\ new = Absent => remaining = {} /\ old.fin = {}
      /\ new # Absent => /\ new \in Rows /\ new.deleted /\ new.fin = old.fin \cup added
      /\ Forward(old, new) /\ Waiting(new)
  <2>1. /\ new = Absent => row.fin = {}
        /\ new # Absent => /\ new \in Rows /\ new.deleted /\ new.fin = row.fin
                           /\ new.uid = row.uid /\ new.rev = row.rev + 1
                           /\ new.gen = row.gen /\ new.spec = row.spec
        /\ Waiting(new)
        BY <1>4, SoftDeletedOK
  <2> HIDE DEF new
  <2>2. Forward(old, new)
        BY <1>2, <1>4, <2>1 DEF Forward, Rows
  <2>3. QED
        BY <1>4, <1>5, <2>1, <2>2
<1> HIDE DEF new
<1>7. apps'[a] = new /\ \A b \in Apps \ {a} : apps'[b] = apps[b]
      BY <1>1 DEF TablesTypeOK
<1>8. \A id \in Ids : \/ devices'[id] = Absent /\ id[1] = a /\ id \notin remaining
                      \/ devices'[id] = devices[id] /\ (id[1] = a => id \in remaining)
      BY <1>1
<1>9. DeletionWaits'
  <2>1. \A b \in Apps : Waiting(apps'[b])
        BY <1>6, <1>7 DEF DeletionWaits
  <2>2. ASSUME NEW id \in Ids
        PROVE  /\ Waiting(devices'[id])
               /\ devices'[id] # Absent =>
                    /\ apps'[id[1]] # Absent
                    /\ apps'[id[1]].deleted => "has-devices" \in apps'[id[1]].fin
    <3>1. CASE devices'[id] = Absent
          BY <3>1 DEF Waiting
    <3>2. CASE devices'[id] # Absent /\ id[1] = a
          BY <1>5, <1>6, <1>7, <1>8, <3>2 DEF DeletionWaits
    <3>3. CASE devices'[id] # Absent /\ id[1] # a
          BY <1>7, <1>8, <3>3 DEF DeletionWaits, Ids
    <3>4. QED
          BY <3>1, <3>2, <3>3
  <2>3. QED
        BY <2>1, <2>2 DEF DeletionWaits, Waiting
<1>10. Holds
  <2>1. \A c \in Clients : Held(c, old) => Held(c, new)
        BY <1>6 DEF Held
  <2>2. \A c \in Clients, id \in Ids : Held(c, devices[id]) => Held(c, devices'[id])
        BY <1>8 DEF Held, DevicesOf
  <2>3. QED
        BY <1>7, <2>1, <2>2 DEF Holds, old
<1>11. /\ apps' \in [Apps -> Rows \cup {Absent}]
       /\ devices' \in [Ids -> Rows \cup {Absent}]
       BY <1>1, <1>6 DEF TablesTypeOK
<1>12. \A b \in Apps : /\ Forward(apps[b], apps'[b])
                       /\ NewUid(apps[b], apps'[b], "app", created.app, created'.app)
       BY <1>1, <1>6, <1>7, ForwardSame DEF NewUid, old
<1>13. \A id \in Ids :
          /\ Forward(devices[id], devices'[id])
          /\ NewUid(devices[id], devices'[id], "device", created.device, created'.device)
       BY <1>8, ForwardSame DEF NewUid, Forward
<1>14. QED
       BY <1>1, <1>9, <1>10, <1>11, <1>12, <1>13, CreatedType DEF TablesStep, TablesTypeOK

(* With the version it has read, a client writes back what is stored, but  *)
(* for its own finalizer.                                                  *)
LEMMA WriteKeepsOthers ==
    ASSUME RegistryIInv, ~Blind, NEW c \in Clients, copies[c] # NoCopy,
           NEW new \in Edits(c), NEW expected \in Expectations(c),
           NEW row \in Rows, row = RowOf(copies[c]), CheckVersions(row, expected)
    PROVE  /\ new \in Contents
           /\ \A f \in Finalizers \ {c} : f \in new.fin <=> f \in row.fin
<1>1. copies[c] \in Copies
      BY DEF RegistryIInv, TablesTypeOK
<1>2. copies[c].fin \in SUBSET Finalizers /\ c \in Finalizers
      BY <1>1 DEF Copies, Finalizers
<1>3. new \in Contents
      BY <1>2 DEF Edits, Contents
<1>4. expected = copies[c]
      BY DEF Expectations
<1>5. copies[c].uid = row.uid /\ copies[c].rev = row.rev
      BY <1>4 DEF CheckVersions
<1>6. copies[c].fin = row.fin
      BY <1>5, RegistryAssumption DEF RegistryIInv, CopiesAreBehind, Behind
<1>7. new.fin = row.fin \cup {c} \/ new.fin = row.fin \ {c}
      BY <1>6 DEF Edits
<1>8. QED
      BY <1>3, <1>7

LEMMA UpdateAppStep ==
    ASSUME RegistryIInv, ~Blind, NEW c \in Clients, copies[c] # NoCopy,
           NEW new \in Edits(c), NEW expected \in Expectations(c), UpdateApp(c, new, expected)
    PROVE  TablesStep
<1> USE DEF RegistryIInv
<1> DEFINE a   == copies[c].app
           old == apps[a]
           row == Updated(old, new)
<1>0. a \in Apps /\ copies[c].name = NoDevice
      BY DEF TablesTypeOK, Copies, UpdateApp
<1>1. /\ old # Absent /\ CheckVersions(old, expected)
      /\ apps' = [apps EXCEPT ![a] = row]
      /\ devices' = Cascade(a, row, devices)
      /\ copies'[c] = NoCopy
      /\ UNCHANGED created
      BY DEF UpdateApp, TablesTypeOK
<1>2. old \in Rows /\ old = RowOf(copies[c]) /\ Waiting(old)
      BY <1>0, <1>1 DEF TablesTypeOK, RowOf, RowIn, DeletionWaits
<1>3. new \in Contents /\ \A f \in Finalizers \ {c} : f \in new.fin <=> f \in old.fin
      BY <1>1, <1>2, WriteKeepsOthers
<1>4. /\ row = Absent <=> Finalized(old, new)
      /\ Waiting(row) /\ Forward(old, row)
      /\ row # Absent => row \in Rows /\ row.deleted = old.deleted /\ row.fin = new.fin
      BY <1>2, <1>3, UpdatedOK
<1>5. "has-devices" \in Finalizers \ {c}
      BY RegistryAssumption DEF Finalizers
<1>6. row = Absent => \A id \in Ids : id[1] = a => devices[id] = Absent
      BY <1>3, <1>4, <1>5 DEF DeletionWaits, Finalized
<1>7. devices' = devices
  <2>1. CASE row = Absent
        BY <1>1, <1>6, <2>1 DEF Cascade, TablesTypeOK
  <2>2. CASE row # Absent
        BY <1>1, <2>2 DEF Cascade
  <2>3. QED
        BY <2>1, <2>2
<1> HIDE DEF row
<1>8. apps'[a] = row /\ \A b \in Apps \ {a} : apps'[b] = apps[b]
      BY <1>0, <1>1 DEF TablesTypeOK
<1>9. DeletionWaits'
  <2>1. \A b \in Apps : Waiting(apps'[b])
        BY <1>4, <1>8 DEF DeletionWaits
  <2>2. ASSUME NEW id \in Ids, devices[id] # Absent
        PROVE  /\ apps'[id[1]] # Absent
               /\ apps'[id[1]].deleted => "has-devices" \in apps'[id[1]].fin
    <3>1. CASE id[1] = a
          BY <1>3, <1>4, <1>5, <1>6, <1>8, <2>2, <3>1 DEF DeletionWaits
    <3>2. CASE id[1] # a
          BY <1>8, <2>2, <3>2 DEF DeletionWaits, Ids
    <3>3. QED
          BY <3>1, <3>2
  <2>3. QED
        BY <1>7, <2>1, <2>2 DEF DeletionWaits, Waiting
<1>10. Holds
  <2>1. \A d \in Clients \ {c} : Held(d, old) => Held(d, row)
        BY <1>3, <1>4 DEF Held, Finalized, Finalizers
  <2>2. LetsGo(c, a, NoDevice)
        BY <1>0, <1>1 DEF LetsGo
  <2>3. QED
        BY <1>7, <1>8, <2>1, <2>2 DEF Holds
<1>11. apps' \in [Apps -> Rows \cup {Absent}] /\ devices' \in [Ids -> Rows \cup {Absent}]
       BY <1>1, <1>4, <1>7 DEF TablesTypeOK
<1>12. \A b \in Apps : /\ Forward(apps[b], apps'[b])
                       /\ NewUid(apps[b], apps'[b], "app", created.app, created'.app)
       BY <1>1, <1>4, <1>8, ForwardSame DEF NewUid
<1>13. \A id \in Ids :
          /\ Forward(devices[id], devices'[id])
          /\ NewUid(devices[id], devices'[id], "device", created.device, created'.device)
       BY <1>7, ForwardSame DEF NewUid
<1>14. QED
       BY <1>1, <1>9, <1>10, <1>11, <1>12, <1>13, CreatedType DEF TablesStep, TablesTypeOK

LEMMA UpdateDeviceStep ==
    ASSUME RegistryIInv, ~Blind, NEW c \in Clients, copies[c] # NoCopy,
           NEW new \in Edits(c), NEW expected \in Expectations(c), UpdateDevice(c, new, expected)
    PROVE  TablesStep
<1> USE DEF RegistryIInv
<1> DEFINE a   == copies[c].app
           n   == copies[c].name
           id  == <<a, n>>
           old == devices[id]
           row == Updated(old, new)
           table == [devices EXCEPT ![id] = row]
           app == CheckCleanApp(apps[a], a, table)
<1>0. a \in Apps /\ n \in Names /\ n # NoDevice
      BY DEF TablesTypeOK, Copies, UpdateDevice
<1>1. /\ old # Absent /\ apps[a] # Absent /\ CheckVersions(old, expected)
      /\ devices' = table
      /\ copies'[c] = NoCopy
      /\ UNCHANGED created
      /\ IF Finalized(old, new) THEN apps' = [apps EXCEPT ![a] = app] ELSE apps' = apps
      BY DEF UpdateDevice, TablesTypeOK
<1>2. id \in Ids /\ id[1] = a /\ id[2] = n
      BY <1>0 DEF Ids
<1>3. old = RowOf(copies[c])
      BY <1>0 DEF RowOf, RowIn
<1> HIDE DEF id
<1>4. old \in Rows /\ Waiting(old)
      BY <1>1, <1>2 DEF TablesTypeOK, DeletionWaits
<1>5. new \in Contents /\ \A f \in Finalizers \ {c} : f \in new.fin <=> f \in old.fin
      BY <1>1, <1>3, <1>4, WriteKeepsOthers
<1>6. /\ row = Absent <=> Finalized(old, new)
      /\ Waiting(row) /\ Forward(old, row)
      /\ row # Absent => row \in Rows /\ row.fin = new.fin
      BY <1>4, <1>5, UpdatedOK
<1>7. \A d \in Clients \ {c} : Held(d, old) => Held(d, row)
      BY <1>5, <1>6 DEF Held, Finalized, Finalizers
<1> HIDE DEF row
<1>8. /\ table \in [Ids -> Rows \cup {Absent}]
      /\ table[id] = row /\ \A j \in Ids \ {id} : table[j] = devices[j]
      BY <1>2, <1>6 DEF TablesTypeOK
<1> HIDE DEF table
(* The application, when it gets rid of its finalizer for devices.         *)
<1>9. apps[a] \in Rows /\ Waiting(apps[a])
      BY <1>0, <1>1 DEF TablesTypeOK, DeletionWaits
<1>10. \/ app = apps[a]
       \/ /\ \A j \in Ids : j[1] = a => table[j] = Absent
          /\ Waiting(app) /\ Forward(apps[a], app)
          /\ app # Absent => app \in Rows
          /\ \A d \in Clients : Held(d, apps[a]) => Held(d, app)
  <2>1. CASE ~apps[a].deleted \/ DevicesOf(table, a) # {}
        BY <1>1, <2>1 DEF CheckCleanApp
  <2>2. CASE apps[a].deleted /\ DevicesOf(table, a) = {}
    <3> DEFINE cleaned == [fin |-> apps[a].fin \ {"has-devices"}, spec |-> apps[a].spec]
    <3>1. cleaned \in Contents
          BY <1>9 DEF Rows, Contents
    <3>2. app = Updated(apps[a], cleaned)
          BY <1>1, <2>2 DEF CheckCleanApp
    <3>3. /\ app = Absent <=> Finalized(apps[a], cleaned)
          /\ Waiting(app) /\ Forward(apps[a], app)
          /\ app # Absent => app \in Rows /\ app.fin = cleaned.fin
          BY <1>9, <3>1, <3>2, UpdatedOK
    <3> HIDE DEF app
    <3>4. \A d \in Clients : Held(d, apps[a]) => Held(d, app)
          BY <3>3, RegistryAssumption DEF Held, Finalized
    <3>5. \A j \in Ids : j[1] = a => table[j] = Absent
          BY <2>2 DEF DevicesOf
    <3>6. QED
          BY <3>3, <3>4, <3>5
  <2>3. QED
        BY <2>1, <2>2
<1> HIDE DEF app
<1>11. /\ \A b \in Apps \ {a} : apps'[b] = apps[b]
       /\ apps'[a] = apps[a] \/ apps'[a] = app
       BY <1>0, <1>1 DEF TablesTypeOK
<1>12. DeletionWaits'
  <2>1. \A b \in Apps : Waiting(apps'[b])
        BY <1>9, <1>10, <1>11 DEF DeletionWaits
  <2>2. \A j \in Ids : Waiting(devices'[j]) /\ (devices'[j] # Absent => devices[j] # Absent)
        BY <1>1, <1>6, <1>8 DEF DeletionWaits
  <2>3. ASSUME NEW j \in Ids, devices'[j] # Absent
        PROVE  apps'[j[1]] = apps[j[1]]
        BY <1>1, <1>10, <1>11, <2>3 DEF Ids
  <2>4. QED
        BY <2>1, <2>2, <2>3 DEF DeletionWaits, Waiting
<1>13. Holds
  <2>1. LetsGo(c, a, n)
        BY <1>1 DEF LetsGo
  <2>2. \A d \in Clients, b \in Apps : Held(d, apps[b]) => Held(d, apps'[b])
        BY <1>10, <1>11
  <2>3. \A d \in Clients, j \in Ids :
           Held(d, devices[j]) => Held(d, devices'[j]) \/ LetsGo(d, j[1], j[2])
        BY <1>1, <1>2, <1>7, <1>8, <2>1
  <2>4. QED
        BY <2>2, <2>3 DEF Holds
<1>14. /\ apps' \in [Apps -> Rows \cup {Absent}]
       /\ devices' \in [Ids -> Rows \cup {Absent}]
       BY <1>1, <1>8, <1>9, <1>10 DEF TablesTypeOK
<1>15. \A b \in Apps : /\ Forward(apps[b], apps'[b])
                       /\ NewUid(apps[b], apps'[b], "app", created.app, created'.app)
       BY <1>1, <1>10, <1>11, ForwardSame DEF NewUid
<1>16. \A j \in Ids :
          /\ Forward(devices[j], devices'[j])
          /\ NewUid(devices[j], devices'[j], "device", created.device, created'.device)
       BY <1>1, <1>6, <1>8, ForwardSame DEF NewUid
<1>17. QED
       BY <1>1, <1>12, <1>13, <1>14, <1>15, <1>16, CreatedType DEF TablesStep, TablesTypeOK

-----------------------------------------------------------------------------
(* Every transaction is such a step, and what clients have read of it      *)
(* stays behind it.                                                        *)

CopiesStep ==
    \A c \in Clients :
        \/ copies'[c] = NoCopy \/ copies'[c] = copies[c]
        \/ /\ UNCHANGED <<apps, devices, created>>
           /\ copies'[c] \in Copies
           /\ RowOf(copies'[c]) # Absent
           /\ copies'[c].uid = RowOf(copies'[c]).uid /\ copies'[c].rev = RowOf(copies'[c]).rev
           /\ copies'[c].fin = RowOf(copies'[c]).fin /\ copies'[c].spec = RowOf(copies'[c]).spec

LEMMA ReadStep ==
    ASSUME RegistryIInv, NEW c \in Clients, NEW a \in Apps, NEW n \in Names \cup {NoDevice},
           Read(c, a, n)
    PROVE  TablesStep /\ CopiesStep /\ copies' \in [Clients -> Copies \cup {NoCopy}]
<1> USE DEF RegistryIInv
<1> DEFINE row == IF n = NoDevice THEN apps[a] ELSE devices[<<a, n>>]
           copy == [app |-> a, name |-> n, uid |-> row.uid, rev |-> row.rev,
                    fin |-> row.fin, spec |-> row.spec]
<1>1. /\ row # Absent
      /\ copies' = [copies EXCEPT ![c] = copy]
      /\ UNCHANGED <<apps, devices, created>>
      BY DEF Read
<1>2. row \in Rows
      BY <1>1 DEF TablesTypeOK, Ids
<1>3. RowOf(copy) = row
      BY DEF RowOf, RowIn
<1> HIDE DEF row
<1>4. copy \in Copies
      BY <1>2 DEF Copies, Rows
<1>5. copies' \in [Clients -> Copies \cup {NoCopy}]
      BY <1>1, <1>4 DEF TablesTypeOK
<1>6. copies'[c] = copy /\ \A d \in Clients \ {c} : copies'[d] = copies[d]
      BY <1>1 DEF TablesTypeOK
<1>7. /\ copy.uid = row.uid /\ copy.rev = row.rev /\ copy.fin = row.fin /\ copy.spec = row.spec
      OBVIOUS
<1> HIDE DEF copy
<1>8. CopiesStep
      BY <1>1, <1>3, <1>4, <1>6, <1>7 DEF CopiesStep
<1>9. TablesStep
  <2>1. DeletionWaits'
        BY <1>1 DEF DeletionWaits, Waiting
  <2>2. Holds
        BY <1>1 DEF Holds
  <2>3. QED
        BY <1>1, <2>1, <2>2, ForwardSame, CreatedType DEF TablesStep, TablesTypeOK, NewUid
<1>10. QED
       BY <1>5, <1>8, <1>9

LEMMA NextStep ==
    ASSUME RegistryIInv, ~Blind, RegistryNext
    PROVE  TablesStep /\ CopiesStep /\ copies' \in [Clients -> Copies \cup {NoCopy}]
<1>1. ASSUME TablesStep, UNCHANGED copies
      PROVE  TablesStep /\ CopiesStep /\ copies' \in [Clients -> Copies \cup {NoCopy}]
      BY <1>1 DEF RegistryIInv, TablesTypeOK, CopiesStep
<1>2. ASSUME NEW a \in Apps, NEW fin \in SUBSET Clients, NEW spec \in Specs, CreateApp(a, fin, spec)
      PROVE  TablesStep /\ UNCHANGED copies
      BY <1>2, CreateAppStep DEF CreateApp
<1>3. ASSUME NEW a \in Apps, DeleteApp(a)
      PROVE  TablesStep /\ UNCHANGED copies
      BY <1>3, DeleteAppStep DEF DeleteApp
<1>4. ASSUME NEW a \in Apps, NEW n \in Names, NEW fin \in SUBSET Clients, NEW spec \in Specs,
             CreateDevice(a, n, fin, spec)
      PROVE  TablesStep /\ UNCHANGED copies
      BY <1>4, CreateDeviceStep DEF CreateDevice
<1>5. ASSUME NEW a \in Apps, NEW n \in Names, DeleteDevice(a, n)
      PROVE  TablesStep /\ UNCHANGED copies
      BY <1>5, DeleteDeviceStep DEF DeleteDevice
<1>6. ASSUME NEW c \in Clients, Writes(c)
      PROVE  TablesStep /\ CopiesStep /\ copies' \in [Clients -> Copies \cup {NoCopy}]
  <2>1. PICK new \in Edits(c), expected \in Expectations(c) :
           UpdateApp(c, new, expected) \/ UpdateDevice(c, new, expected)
        BY <1>6 DEF Writes
  <2>2. copies[c] # NoCopy
        BY <1>6 DEF Writes
  <2>3. TablesStep
        BY <2>1, <2>2, UpdateAppStep, UpdateDeviceStep
  <2>4. copies' = [copies EXCEPT ![c] = NoCopy]
        BY <2>1 DEF UpdateApp, UpdateDevice
  <2>5. QED
        BY <2>3, <2>4 DEF RegistryIInv, TablesTypeOK, CopiesStep
<1>7. QED
      BY <1>1, <1>2, <1>3, <1>4, <1>5, <1>6, ReadStep DEF RegistryNext

LEMMA StepKeepsOrder ==
    ASSUME RegistryIInv, TablesStep, CopiesStep, copies' \in [Clients -> Copies \cup {NoCopy}]
    PROVE  RegistryIInv'
<1> USE DEF RegistryIInv
<1>1. TablesTypeOK'
      BY DEF TablesStep, TablesTypeOK
<1>2. created.app \in Nat /\ created'.app \in Nat /\ created.device \in Nat /\ created'.device \in Nat
      BY <1>1, CreatedType DEF TablesTypeOK
<1>3. \A uid, kind : /\ Numbered(uid, kind, created.app) => Numbered(uid, kind, created'.app)
                     /\ Numbered(uid, kind, created.device) => Numbered(uid, kind, created'.device)
      BY <1>2 DEF Numbered, TablesStep
<1>4. ASSUME NEW c \in Clients, copies'[c] # NoCopy
      PROVE  IF copies'[c].name = NoDevice THEN Numbered(copies'[c].uid, "app", created'.app)
             ELSE Numbered(copies'[c].uid, "device", created'.device)
  <2>1. CASE copies'[c] = copies[c]
        BY <1>3, <1>4, <2>1 DEF UidsAreOld
  <2>2. CASE copies'[c] # copies[c]
    <3>1. /\ copies'[c] \in Copies /\ created' = created
          /\ RowOf(copies'[c]) # Absent /\ copies'[c].uid = RowOf(copies'[c]).uid
          BY <1>4, <2>2 DEF CopiesStep
    <3>2. copies'[c].name = NoDevice => copies'[c].app \in Apps
          BY <3>1 DEF Copies
    <3>3. copies'[c].name # NoDevice => <<copies'[c].app, copies'[c].name>> \in Ids
          BY <3>1 DEF Copies, Ids
    <3>4. QED
          BY <3>1, <3>2, <3>3 DEF RowOf, RowIn, UidsAreOld
  <2>3. QED
        BY <2>1, <2>2
<1>5. UidsAreOld'
  <2>1. ASSUME NEW a \in Apps, apps'[a] # Absent
        PROVE  Numbered(apps'[a].uid, "app", created'.app)
    <3>1. CASE apps[a] = Absent
          BY <1>2, <2>1, <3>1 DEF TablesStep, NewUid, Numbered
    <3>2. CASE apps[a] # Absent
      <4>1. apps'[a].uid = apps[a].uid
            BY <2>1, <3>2 DEF TablesStep, Forward
      <4>2. QED
            BY <1>3, <3>2, <4>1 DEF UidsAreOld
    <3>3. QED
          BY <3>1, <3>2
  <2>2. ASSUME NEW id \in Ids, devices'[id] # Absent
        PROVE  Numbered(devices'[id].uid, "device", created'.device)
    <3>1. CASE devices[id] = Absent
          BY <1>2, <2>2, <3>1 DEF TablesStep, NewUid, Numbered
    <3>2. CASE devices[id] # Absent
      <4>1. devices'[id].uid = devices[id].uid
            BY <2>2, <3>2 DEF TablesStep, Forward
      <4>2. QED
            BY <1>3, <3>2, <4>1 DEF UidsAreOld
    <3>3. QED
          BY <3>1, <3>2
  <2>3. QED
        BY <1>4, <2>1, <2>2 DEF UidsAreOld
<1>6. ASSUME NEW c \in Clients, copies'[c] # NoCopy
      PROVE  Behind(copies'[c], RowIn(copies'[c], apps', devices'))
  <2>1. copies'[c] \in Copies
        BY <1>6
  <2>2. CASE copies'[c] = copies[c]
    <3> DEFINE copy == copies[c]
    <3>1. copy.rev \in Nat
          BY <2>1, <2>2 DEF Copies
    <3>2. Behind(copy, RowOf(copy))
          BY <1>6, <2>2 DEF CopiesAreBehind
    <3>3. CASE copy.name = NoDevice
      <4> DEFINE old == apps[copy.app]
                 new == apps'[copy.app]
      <4>1. /\ copy.app \in Apps
            /\ old \in Rows \cup {Absent}
            BY <2>1, <2>2 DEF Copies, TablesTypeOK
      <4>2. /\ Forward(old, new) /\ Behind(copy, old)
            /\ NewUid(old, new, "app", created.app, created'.app)
            /\ Numbered(copy.uid, "app", created.app)
            BY <1>6, <2>2, <3>2, <3>3, <4>1 DEF TablesStep, RowOf, RowIn, UidsAreOld
      <4> HIDE DEF old, new
      <4>3. Behind(copy, new)
            BY <1>2, <3>1, <4>1, <4>2 DEF Behind, Forward, NewUid, Numbered, Rows
      <4>4. QED
            BY <2>2, <3>3, <4>3 DEF RowIn, new
    <3>4. CASE copy.name # NoDevice
      <4> DEFINE old == devices[<<copy.app, copy.name>>]
                 new == devices'[<<copy.app, copy.name>>]
      <4>1. /\ <<copy.app, copy.name>> \in Ids
            /\ old \in Rows \cup {Absent}
            BY <2>1, <2>2, <3>4 DEF Copies, TablesTypeOK, Ids
      <4>2. /\ Forward(old, new) /\ Behind(copy, old)
            /\ NewUid(old, new, "device", created.device, created'.device)
            /\ Numbered(copy.uid, "device", created.device)
            BY <1>6, <2>2, <3>2, <3>4, <4>1 DEF TablesStep, RowOf, RowIn, UidsAreOld
      <4> HIDE DEF old, new
      <4>3. Behind(copy, new)
            BY <1>2, <3>1, <4>1, <4>2 DEF Behind, Forward, NewUid, Numbered, Rows
      <4>4. QED
            BY <2>2, <3>4, <4>3 DEF RowIn, new
    <3>5. QED
          BY <3>3, <3>4
  <2>3. CASE copies'[c] # copies[c]
    <3>1. /\ UNCHANGED <<apps, devices>>
          /\ copies'[c].rev = RowOf(copies'[c]).rev /\ copies'[c].rev \in Nat
          /\ copies'[c].fin = RowOf(copies'[c]).fin /\ copies'[c].spec = RowOf(copies'[c]).spec
          BY <1>6, <2>1, <2>3 DEF CopiesStep, Copies
    <3>2. RowIn(copies'[c], apps', devices') = RowOf(copies'[c])
          BY <3>1 DEF RowOf, RowIn
    <3>3. QED
          BY <3>1, <3>2 DEF Behind
  <2>4. QED
        BY <2>2, <2>3
<1>7. CopiesAreBehind'
      BY <1>6 DEF CopiesAreBehind, RowOf, RowIn
<1>8. QED
      BY <1>1, <1>5, <1>7 DEF TablesStep

LEMMA RegistryInvInit == RegistryInit => RegistryIInv
BY RegistryAssumption DEF RegistryInit, RegistryIInv, TablesTypeOK, UidsAreOld, CopiesAreBehind,
   DeletionWaits, Waiting

LEMMA RegistryInvNext ==
    ASSUME ~Blind
    PROVE  RegistryIInv /\ [RegistryNext]_registryVars => RegistryIInv'
<1> SUFFICES ASSUME RegistryIInv, [RegistryNext]_registryVars PROVE RegistryIInv'
    OBVIOUS
<1>1. CASE RegistryNext
      BY <1>1, NextStep, StepKeepsOrder
<1>2. CASE UNCHANGED registryVars
      BY <1>2 DEF registryVars, RegistryIInv, TablesTypeOK, UidsAreOld, CopiesAreBehind, RowOf, RowIn,
         DeletionWaits, Waiting
<1>3. QED
      BY <1>1, <1>2

-----------------------------------------------------------------------------
(* Clients that write with the version they have read (~Blind).            *)

(* A deletion waits for all finalizers, and that of an application for its *)
(* devices, whatever the order of the transactions.                        *)
THEOREM DeletionsWait ==
    ASSUME ~Blind
    PROVE  RegistrySpec => []DeletionWaits
<1>1. RegistryIInv /\ [RegistryNext]_registryVars => RegistryIInv'
      BY RegistryInvNext
<1>2. RegistryIInv => DeletionWaits
      BY DEF RegistryIInv
<1>3. QED
      BY RegistryInvInit, <1>1, <1>2, PTL DEF RegistrySpec

(* A version that is still the current one means that everything else that *)
(* was read is current as well.                                            *)
THEOREM VersionsIdentify ==
    ASSUME ~Blind
    PROVE  RegistrySpec => []VersionIdentifiesContent
<1>1. RegistryIInv /\ [RegistryNext]_registryVars => RegistryIInv'
      BY RegistryInvNext
<1>2. RegistryIInv => VersionIdentifiesContent
      BY DEF RegistryIInv, CopiesAreBehind, Behind, RowOf, RowIn, VersionIdentifiesContent, Current
<1>3. QED
      BY RegistryInvInit, <1>1, <1>2, PTL DEF RegistrySpec

(* Only a client itself takes its finalizer off, and the resource stays    *)
(* until it does.                                                          *)
THEOREM FinalizersAreKept ==
    ASSUME ~Blind
    PROVE  RegistrySpec => FinalizersHold
<1>1. RegistryIInv /\ [RegistryNext]_registryVars => RegistryIInv'
      BY RegistryInvNext
<1>2. RegistryIInv /\ [RegistryNext]_registryVars => [Holds]_registryVars
      BY NextStep DEF TablesStep
<1>3. QED
      BY RegistryInvInit, <1>1, <1>2, PTL DEF RegistrySpec, FinalizersHold, Holds

(* Stored resources move forward: revision, generation, deletion mark.     *)
THEOREM OnlyForward ==
    ASSUME ~Blind
    PROVE  RegistrySpec => ResourcesMoveForward
<1> DEFINE Moves == /\ \A a \in Apps : Forward(apps[a], apps'[a])
                    /\ \A id \in Ids : Forward(devices[id], devices'[id])
<1>1. RegistryIInv /\ [RegistryNext]_registryVars => RegistryIInv'
      BY RegistryInvNext
<1>2. RegistryIInv /\ [RegistryNext]_registryVars => [Moves]_registryVars
      BY NextStep DEF TablesStep
<1>3. QED
      BY RegistryInvInit, <1>1, <1>2, PTL DEF RegistrySpec, ResourcesMoveForward

=============================================================================
