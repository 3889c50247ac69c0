---------------------------- MODULE DittoOperator ---------------------------
(***************************************************************************)
(* ditto-registry-operator: an application with the label "ditto" gets     *)
(* connections and a policy in Eclipse Ditto ("dittoApp"), a device with   *)
(* that label a thing ("dittoDevice").                                     *)
(*                                                                         *)
(* The Ditto section of an application with spec 1 has an exporter, with   *)
(* spec 2 it has none; the third one cannot be parsed, or its exporter     *)
(* names a topic that Ditto cannot use.                                    *)
(***************************************************************************)
EXTENDS Reconciler

CONSTANT AppGeneration      \* the generation of the application of a device

Exporter(spec) == spec = 1

(* is_temporary tells the two apart; an answer that reports an error in    *)
(* its body is permanent.                                                  *)
DittoErrors == {"Temporary", "Permanent"}

(* A step of a constructor, or of a deconstruction, that calls Ditto.      *)
DittoCall(c, new) ==
    /\ At("construct", c)
    /\ \/ ext' = new /\ ProgressDone(draft) /\ UNCHANGED <<seen, faults>>
       \/ FailedCall(new) /\ \E e \in DittoErrors : ProgressFailed(e)
    /\ UntouchedByCall

(* recover of the device controller takes the generation of the            *)
(* application for that of the device.                                     *)
RecoverDitto(r) ==
    IF kind = "dittoApp" THEN Recover(r)
    ELSE FinishReady(r, r.conds, "Failed", AppGeneration)

DittoUndo(c, new) ==
    /\ At("deconstruct", c)
    /\ \/ /\ ext' = new
          /\ IF Len(plan) > 1 THEN Proceed(draft)
             ELSE Store([ClearStatus(draft) EXCEPT !.fin = FALSE], "Complete")
          /\ UNCHANGED <<seen, faults>>
       \/ /\ FailedCall(new)
          /\ \E e \in DittoErrors : Store(RecoverDitto(copy), AfterError(e))
    /\ UntouchedByCall

-----------------------------------------------------------------------------
(* Applications.                                                           *)

DittoAppEval ==
    /\ kind = "dittoApp"
    /\ app # Absent
    /\ Get(app.want,
           <<<<"HasFinalizer", "HasFinalizer">>,
             <<"CreateApplication", "create inbound">>,
             <<"CreateApplication", "create outbound">>,
             <<"CreatePolicy", "create policy">>>>,
           <<<<"", "delete inbound">>, <<"", "delete outbound">>, <<"", "block">>,
             <<"", "purge">>, <<"", "unblock">>, <<"", "delete policy">>>>)

(* What is wrong with a section shows when it is parsed, or when the       *)
(* outbound connection is defined.                                         *)
DittoSpecFails(c) ==
    /\ At("construct", c)
    /\ draft.spec = Bad
    /\ ProgressFailed("Permanent")
    /\ UNCHANGED <<ext, seen, faults>>
    /\ UntouchedByCall

BadDittoSpec == DittoSpecFails("create inbound")
BadOutboundTarget == DittoSpecFails("create outbound")

(* A connection follows the section: ingress options, exporter targets.    *)
InboundConnection(spec) == spec
OutboundConnection(spec) == IF Exporter(spec) THEN spec ELSE Absent

(* create_connection modifies a connection, or creates a missing one.      *)
CreateConnection(c, definition) == Set(c, definition)
DeleteConnection(c) == Drop({c})

CreateInbound ==
    DittoCall("create inbound", CreateConnection("inbound", InboundConnection(draft.spec)))

(* Without an exporter the outbound connection is deleted.                 *)
CreateOutbound ==
    /\ At("construct", "create outbound")
    /\ draft.spec # Bad
    /\ DittoCall("create outbound",
                 IF Exporter(draft.spec)
                 THEN CreateConnection("outbound", OutboundConnection(draft.spec))
                 ELSE DeleteConnection("outbound"))

CreatePolicy == DittoCall("create policy", Set("policy", 1))

DeleteInbound == DittoUndo("delete inbound", DeleteConnection("inbound"))
DeleteOutbound == DittoUndo("delete outbound", DeleteConnection("outbound"))

(* The namespace is blocked while everything in it is purged.              *)
BlockNamespace == DittoUndo("block", Set("blocked", 1))
PurgeNamespace == DittoUndo("purge", Drop({"policy"}))
UnblockNamespace == DittoUndo("unblock", Drop({"blocked"}))
DeletePolicy == DittoUndo("delete policy", Drop({"policy"}))

-----------------------------------------------------------------------------
(* Devices.                                                                *)

DittoDeviceEval ==
    /\ kind = "dittoDevice"
    /\ app # Absent
    /\ Get(app.want,
           <<<<"HasFinalizer", "HasFinalizer">>, <<"CreateThing", "create thing">>>>,
           <<<<"", "delete thing">>>>)

CreateThing == DittoCall("create thing", Set("thing", 1))
DeleteThing == DittoUndo("delete thing", Drop({"thing"}))

DittoNext ==
    \/ DittoAppEval \/ BadDittoSpec \/ BadOutboundTarget \/ CreateInbound \/ CreateOutbound \/ CreatePolicy
    \/ DeleteInbound \/ DeleteOutbound \/ BlockNamespace \/ PurgeNamespace
    \/ UnblockNamespace \/ DeletePolicy
    \/ DittoDeviceEval \/ CreateThing \/ DeleteThing

=============================================================================
