------------------------------ MODULE Registry ------------------------------
(***************************************************************************)
(* The device registry: applications, devices and the management           *)
(* operations on them (PostgresManagementService).                         *)
(*                                                                         *)
(* Every operation is one database transaction that locks the rows it      *)
(* decides upon, and is one action here. "emitted" is the argument of its  *)
(* send_to_outbox: the changed paths, with the uid and the revision the    *)
(* events carry.                                                           *)
(*                                                                         *)
(* The clients of the registry (users and operators) are read-modify-write *)
(* processes: a client keeps the copy it has read, and later writes it     *)
(* back with its own finalizer added or removed and the .spec changed.     *)
(* The resource version, a random value replaced with every write, is      *)
(* represented by (uid, revision), which changes exactly when it does.     *)
(* Labels, annotations, .status and aliases are left out: labels and       *)
(* annotations change the path .metadata just as finalizers do, and        *)
(* .status is, like .metadata, a path that leaves the generation alone.    *)
(***************************************************************************)
EXTENDS Naturals

CONSTANTS
    Apps,           \* names of applications
    Names,          \* names of devices
    Clients,        \* the clients; each owns the finalizer of its name
    Specs,          \* the values of .spec
    Absent,         \* there is no such row
    NoDevice,       \* the device of an event on the application itself
    NoCopy,         \* the client holds no copy
    Blind,          \* do clients also write without an expected version?
    MaxApps,        \* bound: number of applications ever created
    MaxDevices,     \* bound: number of devices ever created
    MaxRevision     \* bound: revision of a resource

VARIABLES
    apps,       \* the table APPLICATIONS: name -> row
    devices,    \* the table DEVICES: (application, name) -> row
    copies,     \* client -> what it has read
    created,    \* how many applications and devices were created
    emitted     \* the events of the last transaction

registryVars == <<apps, devices, copies, created, emitted>>

Finalizers == Clients \cup {"has-devices"}
Ids == Apps \X Names
Uids == {<<"nil", 0>>} \cup ({"app"} \X (1 .. MaxApps))
           \cup ({"device", "event"} \X (1 .. MaxDevices))
Paths == {".", ".metadata", ".spec"}
EventKeys == Apps \X (Names \cup {NoDevice}) \X Paths

Rows == [uid : Uids, rev : Nat, gen : Nat, deleted : BOOLEAN,
         fin : SUBSET Finalizers, spec : Specs]
Copies == [app : Apps, name : Names \cup {NoDevice}, uid : Uids, rev : Nat,
           fin : SUBSET Finalizers, spec : Specs]
Emissions == [keys : SUBSET EventKeys, uid : Uids, rev : Nat]

ASSUME RegistryAssumption ==
    /\ Absent \notin Rows /\ NoCopy \notin Copies /\ NoDevice \notin Names
    /\ "has-devices" \notin Clients
    /\ MaxApps \in Nat /\ MaxDevices \in Nat /\ MaxRevision \in Nat

Nil == <<"nil", 0>>     \* Uuid::nil()
NoEvents == [keys |-> {}, uid |-> Nil, rev |-> 0]

DevicesOf(table, a) == {id \in Ids : id[1] = a /\ table[id] # Absent}

-----------------------------------------------------------------------------
(* Writing a row.                                                          *)

NewRow(uid, fin, spec) ==
    [uid |-> uid, rev |-> 0, gen |-> 0, deleted |-> FALSE,
     fin |-> fin, spec |-> spec]

(* The paths that differ between the stored and the new state.             *)
DiffPaths(row, new) ==
    {p \in {".metadata", ".spec"} : \/ p = ".metadata" /\ row.fin # new.fin
                                    \/ p = ".spec" /\ row.spec # new.spec}

(* A faulty variant: the generation follows every change.                  *)
AdvanceFromAny(row, new) ==
    [row EXCEPT !.rev = @ + 1, !.gen = @ + 1, !.fin = new.fin, !.spec = new.spec]

(* A write always advances the revision, and the generation with .spec.    *)
AdvanceFrom(row, new) ==
    [row EXCEPT !.rev = @ + 1,
                !.gen = IF ".spec" \in DiffPaths(row, new) THEN @ + 1 ELSE @,
                !.fin = new.fin,
                !.spec = new.spec]

(* Does this write remove the last finalizer of a soft-deleted resource?   *)
Finalized(row, new) == row.deleted /\ new.fin = {}

Updated(row, new) ==
    IF Finalized(row, new) THEN Absent
    ELSE IF DiffPaths(row, new) = {} THEN row
    ELSE AdvanceFrom(row, new)

Bounded(row) == row # Absent => row.rev <= MaxRevision

(* A faulty variant: the revision is not advanced.                         *)
SoftDeletedSameRevision(row) ==
    IF row.fin = {} THEN Absent ELSE [row EXCEPT !.deleted = TRUE]

(* The row delete_app and delete_device leave behind.                      *)
SoftDeleted(row) ==
    IF row.fin = {} THEN Absent
    ELSE [row EXCEPT !.rev = @ + 1, !.deleted = TRUE]

DeletedPath(row) == IF row.fin = {} THEN "." ELSE ".metadata"

(* A faulty variant: the resource version is not compared.                 *)
CheckUid(row, expected) == expected # NoCopy => expected.uid = row.uid

(* The expected uid and resource version, when there are any, match.       *)
CheckVersions(row, expected) ==
    expected # NoCopy => expected.uid = row.uid /\ expected.rev = row.rev

Event(a, n, paths, uid, rev) ==
    IF paths = {} THEN NoEvents
    ELSE [keys |-> {a} \X {n} \X paths, uid |-> uid, rev |-> rev]

(* Deleting the row of an application deletes its devices (ON DELETE       *)
(* CASCADE).                                                               *)
Cascade(a, row, table) ==
    IF row = Absent
    THEN [id \in Ids |-> IF id[1] = a THEN Absent ELSE table[id]]
    ELSE table

-----------------------------------------------------------------------------
(* The clients' side.                                                      *)

Read(c, a, n) ==
    /\ LET row == IF n = NoDevice THEN apps[a] ELSE devices[<<a, n>>]
       IN /\ row # Absent
          /\ copies' = [copies EXCEPT ![c] =
                [app |-> a, name |-> n, uid |-> row.uid, rev |-> row.rev,
                 fin |-> row.fin, spec |-> row.spec]]
    /\ emitted' = NoEvents
    /\ UNCHANGED <<apps, devices, created>>

(* What a client may write back, and the version it may expect.            *)
Edits(c) == [fin : {copies[c].fin \cup {c}, copies[c].fin \ {c}}, spec : Specs]
Expectations(c) == {copies[c]} \cup IF Blind THEN {NoCopy} ELSE {}

-----------------------------------------------------------------------------
(* Applications.                                                           *)

CreateApp(a, fin, spec) ==
    /\ created.app < MaxApps
    /\ apps[a] = Absent
    /\ LET uid == <<"app", created.app + 1>>
       IN /\ apps' = [apps EXCEPT ![a] = NewRow(uid, fin, spec)]
          /\ emitted' = Event(a, NoDevice, {"."}, uid, 0)
    /\ created' = [created EXCEPT !.app = @ + 1]
    /\ UNCHANGED <<devices, copies>>

(* app_to_entity gives the new state the nil uid, which the events carry.  *)
UpdateApp(c, new, expected) ==
    LET a == copies[c].app
        row == apps[a]
    IN /\ copies[c].name = NoDevice
       /\ row # Absent
       /\ Bounded(Updated(row, new))
       /\ CheckVersions(row, expected)
       /\ apps' = [apps EXCEPT ![a] = Updated(row, new)]
       /\ devices' = Cascade(a, Updated(row, new), devices)
       /\ emitted' = IF Finalized(row, new) THEN NoEvents
                     ELSE Event(a, NoDevice, DiffPaths(row, new), Nil, row.rev + 1)
       /\ copies' = [copies EXCEPT ![c] = NoCopy]
       /\ UNCHANGED created

(* Devices without finalizers go at once, without an event; if others are  *)
(* left the application has to wait for them.                              *)
DeleteApp(a) ==
    /\ apps[a] # Absent
    /\ ~apps[a].deleted
    /\ apps[a].rev < MaxRevision
    /\ LET remaining == {id \in DevicesOf(devices, a) : devices[id].fin # {}}
           row == [apps[a] EXCEPT !.fin = @ \cup {f \in {"has-devices"} : remaining # {}}]
       IN /\ apps' = [apps EXCEPT ![a] = SoftDeleted(row)]
          /\ devices' = [id \in Ids |-> IF id[1] = a /\ id \notin remaining
                                        THEN Absent ELSE devices[id]]
          /\ emitted' = Event(a, NoDevice, {DeletedPath(row)}, row.uid, row.rev + 1)
    /\ UNCHANGED <<copies, created>>

(* Called when a device was deleted: the row of its application, given the *)
(* table of devices that is left. The events of the update are dropped.    *)
CheckCleanApp(row, a, table) ==
    IF row = Absent THEN Absent
    ELSE IF ~row.deleted \/ DevicesOf(table, a) # {} THEN row
    ELSE Updated(row, [fin |-> row.fin \ {"has-devices"}, spec |-> row.spec])

-----------------------------------------------------------------------------
(* Devices.                                                                *)

(* A faulty variant: the deletion mark of the application is ignored.      *)
CreateDeviceAnyway(a, n, fin, spec) ==
    /\ created.device < MaxDevices
    /\ apps[a] # Absent
    /\ devices[<<a, n>>] = Absent
    /\ devices' = [devices EXCEPT ![<<a, n>>] =
                      NewRow(<<"device", created.device + 1>>, fin, spec)]
    /\ emitted' = Event(a, n, {"."}, <<"event", created.device + 1>>, 0)
    /\ created' = [created EXCEPT !.device = @ + 1]
    /\ UNCHANGED <<apps, copies>>

(* The uid assigned to the new device is used for the event only; the row  *)
(* gets the default value of the column.                                   *)
CreateDevice(a, n, fin, spec) ==
    /\ created.device < MaxDevices
    /\ apps[a] # Absent
    /\ ~apps[a].deleted
    /\ devices[<<a, n>>] = Absent
    /\ devices' = [devices EXCEPT ![<<a, n>>] =
                      NewRow(<<"device", created.device + 1>>, fin, spec)]
    /\ emitted' = Event(a, n, {"."}, <<"event", created.device + 1>>, 0)
    /\ created' = [created EXCEPT !.device = @ + 1]
    /\ UNCHANGED <<apps, copies>>

UpdateDevice(c, new, expected) ==
    LET a == copies[c].app
        n == copies[c].name
        row == devices[<<a, n>>]
        table == [devices EXCEPT ![<<a, n>>] = Updated(row, new)]
    IN /\ n # NoDevice
       /\ apps[a] # Absent
       /\ row # Absent
       /\ Bounded(Updated(row, new))
       /\ CheckVersions(row, expected)
       /\ IF Finalized(row, new)
          THEN /\ Bounded(CheckCleanApp(apps[a], a, table))
               /\ apps' = [apps EXCEPT ![a] = CheckCleanApp(@, a, table)]
               /\ emitted' = NoEvents
          ELSE /\ emitted' = Event(a, n, DiffPaths(row, new), row.uid, row.rev + 1)
               /\ UNCHANGED apps
       /\ devices' = table
       /\ copies' = [copies EXCEPT ![c] = NoCopy]
       /\ UNCHANGED created

DeleteDevice(a, n) ==
    LET row == devices[<<a, n>>]
    IN /\ row # Absent
       /\ ~row.deleted
       /\ apps[a] # Absent
       /\ row.rev < MaxRevision
       /\ devices' = [devices EXCEPT ![<<a, n>>] = SoftDeleted(row)]
       /\ emitted' = Event(a, n, {DeletedPath(row)}, row.uid, row.rev + 1)
       /\ UNCHANGED <<apps, copies, created>>

-----------------------------------------------------------------------------
RegistryInit ==
    /\ apps = [a \in Apps |-> Absent]
    /\ devices = [id \in Ids |-> Absent]
    /\ copies = [c \in Clients |-> NoCopy]
    /\ created = [app |-> 0, device |-> 0]
    /\ emitted = NoEvents

Writes(c) ==
    /\ copies[c] # NoCopy
    /\ \E new \in Edits(c), expected \in Expectations(c) :
          UpdateApp(c, new, expected) \/ UpdateDevice(c, new, expected)

RegistryNext ==
    \/ \E a \in Apps, fin \in SUBSET Clients, spec \in Specs : CreateApp(a, fin, spec)
    \/ \E a \in Apps : DeleteApp(a)
    \/ \E a \in Apps, n \in Names, fin \in SUBSET Clients, spec \in Specs :
          CreateDevice(a, n, fin, spec)
    \/ \E a \in Apps, n \in Names : DeleteDevice(a, n)
    \/ \E c \in Clients, a \in Apps, n \in Names \cup {NoDevice} : Read(c, a, n)
    \/ \E c \in Clients : Writes(c)

RegistrySpec == RegistryInit /\ [][RegistryNext]_registryVars

-----------------------------------------------------------------------------
(* Properties.                                                             *)

TablesTypeOK ==
    /\ apps \in [Apps -> Rows \cup {Absent}]
    /\ devices \in [Ids -> Rows \cup {Absent}]
    /\ copies \in [Clients -> Copies \cup {NoCopy}]
    /\ created \in [app : 0 .. MaxApps, device : 0 .. MaxDevices]
RegistryTypeOK == TablesTypeOK /\ emitted \in Emissions

(* A soft-deleted resource waits for some finalizer. A device exists only  *)
(* in an application, and one that is being deleted holds "has-devices"    *)
(* for as long as any device is left: neither a new device nor a write     *)
(* with an old copy of the application gets around it.                     *)
Waiting(row) == row # Absent /\ row.deleted => row.fin # {}
DeletionWaits ==
    /\ \A a \in Apps : Waiting(apps[a])
    /\ \A id \in Ids :
          /\ Waiting(devices[id])
          /\ devices[id] # Absent =>
               /\ apps[id[1]] # Absent
               /\ apps[id[1]].deleted => "has-devices" \in apps[id[1]].fin

(* Optimistic locking is sound: if the version a client has read is still  *)
(* the current one then so is everything else it has read, whichever       *)
(* operation wrote in between (check_clean_app and the deletions included).*)
Current(c, row) ==
    row # Absent /\ copies[c].uid = row.uid /\ copies[c].rev = row.rev
        => copies[c].fin = row.fin /\ copies[c].spec = row.spec
VersionIdentifiesContent ==
    \A c \in Clients : copies[c] # NoCopy =>
        IF copies[c].name = NoDevice
        THEN Current(c, apps[copies[c].app])
        ELSE Current(c, devices[<<copies[c].app, copies[c].name>>])

(* A client that put its finalizer on a resource is the only one to take   *)
(* it off, and the resource stays until it does: not even deleting the     *)
(* application takes the device away.                                      *)
Held(c, row) == row # Absent /\ c \in row.fin
LetsGo(c, a, n) == /\ copies[c] # NoCopy /\ copies'[c] = NoCopy
                   /\ copies[c].app = a /\ copies[c].name = n
FinalizersHold ==
    [][\A c \in Clients :
          /\ \A a \in Apps : Held(c, apps[a]) =>
                Held(c, apps'[a]) \/ LetsGo(c, a, NoDevice)
          /\ \A id \in Ids : Held(c, devices[id]) =>
                Held(c, devices'[id]) \/ LetsGo(c, id[1], id[2])
      ]_registryVars

(* A stored resource only moves forward: its revision grows with every     *)
(* change, its generation exactly with .spec, it stays the same resource,  *)
(* and one that is soft-deleted is never revived.                          *)
Forward(old, new) ==
    old = Absent \/ new = Absent \/ new = old \/
        /\ new.uid = old.uid
        /\ new.rev = old.rev + 1
        /\ new.gen = old.gen + (IF new.spec # old.spec THEN 1 ELSE 0)
        /\ old.deleted => new.deleted
ResourcesMoveForward ==
    [][/\ \A a \in Apps : Forward(apps[a], apps'[a])
       /\ \A id \in Ids : Forward(devices[id], devices'[id])]_registryVars

=============================================================================
