--------------------------- MODULE RegistryOutbox ---------------------------
(***************************************************************************)
(* The registry together with its outbox. A transaction that changes a     *)
(* resource writes the outbox rows of its events (send_to_outbox, before   *)
(* t.commit()) and leaves the handler with the events to send; meanwhile   *)
(* the pipeline of module Outbox runs.                                     *)
(***************************************************************************)
EXTENDS Registry

CONSTANTS
    MaxInflight,    \* bound: number of handlers that are sending
    MaxTopic        \* bound: number of events from the committed offset on

VARIABLES outbox, changes, last, unsent, inflight, resending, topic, position

outboxVars == <<outbox, changes, last, unsent, inflight, resending, topic, position>>
allVars == <<registryVars, outboxVars>>

(* The events of a transaction are about one resource: either the resource *)
(* as a whole, or some of its paths.                                       *)
O == INSTANCE Outbox WITH
        Keys <- EventKeys,
        KeySets <- {{a} \X {n} \X P : a \in Apps, n \in Names \cup {NoDevice},
                       P \in {{"."}} \cup ((SUBSET {".metadata", ".spec"}) \ {{}})},
        NoRow <- Absent,
        MaxRev <- MaxRevision

Init == RegistryInit /\ O!OutboxInit

(* A faulty variant: the outbox rows are not written.                      *)
TransactionWithoutRows ==
    /\ RegistryNext
    /\ IF emitted'.keys = {}
       THEN UNCHANGED outboxVars
       ELSE /\ inflight' = inflight \cup {emitted'}
            /\ UNCHANGED <<outbox, changes, last, unsent, resending, topic, position>>

(* A transaction commits, with the outbox rows of its events.              *)
Transaction ==
    /\ RegistryNext
    /\ IF emitted'.keys = {}
       THEN UNCHANGED outboxVars
       ELSE O!Commit(emitted'.keys, emitted'.uid, emitted'.rev)

(* A step of the pipeline; no transaction is emitting events.              *)
PipelineStep ==
    /\ O!Pipeline
    /\ emitted' = NoEvents
    /\ UNCHANGED <<apps, devices, copies, created>>

Next == Transaction \/ PipelineStep

Spec == Init /\ [][Next]_allVars

-----------------------------------------------------------------------------
(* Properties.                                                             *)

(* The registry is a writer the outbox is made for: every change it        *)
(* commits is newer than all earlier ones of its key and uid, so that the  *)
(* table never mistakes it for one it already knows.                       *)
RefinesOutbox == O!OutboxSpec

=============================================================================
