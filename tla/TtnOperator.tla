----------------------------- MODULE TtnOperator ----------------------------
(***************************************************************************)
(* ttn-operator: applications ("ttnApp") and devices ("ttnDevice") are     *)
(* mirrored to The Things Network. It does not use the Progressor: what is *)
(* to be called follows from what was read, any error ends the attempt,    *)
(* and recover stores the resource that was read, marked as failed.        *)
(*                                                                         *)
(* The section of an application with spec i asks for the TTN application  *)
(* i. The operator also keeps a gateway device in the application itself,  *)
(* which lives and dies with it in the registry.                           *)
(***************************************************************************)
EXTENDS Reconciler

(* What the device controller reads of the application: the id its section *)
(* asks for, and the id in its status, if it has one.                      *)
Parents ==
    [spec : {Absent, 1, 2, Bad}, status : {"none", "noid", "known"}]

RecoverTtn(r) == [r EXCEPT !.recon = "Failed", !.obs = r.gen]

GiveUp == <<<<"", "give up">>>>
TryAgain == <<<<"", "try again">>>>
Calls(cs) == [i \in DOMAIN cs |-> <<"", cs[i]>>]

TtnFails ==
    /\ kind \in {"ttnApp", "ttnDevice"}
    /\ \E e \in {"Temporary", "Permanent"} :
          /\ plan = (IF e = "Permanent" THEN GiveUp ELSE TryAgain)
          /\ Store(RecoverTtn(copy), AfterError(e))
    /\ UNCHANGED <<ext, seen, faults>>
    /\ UntouchedByCall

(* The finalizer alone is stored at first.                                 *)
TtnFinalizer ==
    /\ At("construct", "finalizer")
    /\ Store(WithFinalizer(draft), "RetryNow")
    /\ UNCHANGED <<ext, seen, faults>>
    /\ UntouchedByCall

(* default_error: errors of the server are temporary, all others are not.  *)
TtnErrors == {"Temporary", "Permanent"}

(* A call to TTN: r is the draft once it succeeds.                         *)
TtnCall(new, r) ==
    /\ \/ /\ ext' = new
          /\ IF Len(plan) > 1 THEN Proceed(r) ELSE Store(r, "Complete")
          /\ UNCHANGED <<seen, faults>>
       \/ /\ FailedCall(new)
          /\ \E e \in TtnErrors : Store(RecoverTtn(copy), AfterError(e))
    /\ UntouchedByCall

-----------------------------------------------------------------------------
(* Applications.                                                           *)

TheApp(i) == IF i = 1 THEN "app1" ELSE "app2"
TheHook(i) == IF i = 1 THEN "hook1" ELSE "hook2"

(* ensure_stable_app_id                                                    *)
StableId(defined, current) == current \in {Absent, defined}

AppConstruct ==
    IF ~app.fin THEN Calls(<<"finalizer">>)
    ELSE IF ~StableId(app.spec, app.id) THEN GiveUp
    ELSE Calls(<<"ensure gateway", "ensure app", "ensure hook">>)

(* Without a known id there is nothing to delete; with one, the section    *)
(* has to tell how to reach TTN.                                           *)
AppDeconstruct ==
    IF app.id = Absent THEN Calls(<<"release app">>)
    ELSE IF ~app.want THEN GiveUp
    ELSE Calls(<<"delete app", "release app">>)

TtnAppEval ==
    /\ kind = "ttnApp"
    /\ app # Absent
    /\ IF app.want /\ app.spec = Bad
       THEN Get(TRUE, GiveUp, GiveUp)
       ELSE Get(app.want, AppConstruct, AppDeconstruct)

(* The gateway device is in the registry, whose errors are temporary.      *)
EnsureGateway ==
    /\ At("construct", "ensure gateway")
    /\ \/ Proceed(draft) /\ UNCHANGED <<ext, seen, faults>>
       \/ FailedCall(ext) /\ Store(RecoverTtn(copy), "RetryNow")
    /\ UntouchedByCall

(* The content of a TTN application names the application of the registry, *)
(* so that creating and updating it come to the same.                      *)
GetApp(i) == ext[TheApp(i)] # Absent
CreateApp(i) == Set(TheApp(i), 1)
UpdateApp(i) == Set(TheApp(i), 1)

EnsureApp ==
    /\ At("construct", "ensure app")
    /\ TtnCall(IF GetApp(draft.spec) THEN UpdateApp(draft.spec) ELSE CreateApp(draft.spec),
               draft)

GetWebhook(i) == ext[TheHook(i)] # Absent
CreateWebhook(i) == Set(TheHook(i), 1)
UpdateWebhook(i) == Set(TheHook(i), 1)

EnsureHook ==
    /\ At("construct", "ensure hook")
    /\ TtnCall(IF GetWebhook(draft.spec) THEN UpdateWebhook(draft.spec)
               ELSE CreateWebhook(draft.spec),
               [draft EXCEPT !.id = draft.spec, !.recon = "True", !.obs = copy.gen])

(* The webhook goes with its application.                                  *)
TtnDeleteApp ==
    /\ At("deconstruct", "delete app")
    /\ TtnCall(Drop({TheApp(draft.id), TheHook(draft.id)}), draft)

ReleaseApp ==
    /\ At("deconstruct", "release app")
    /\ Store([draft EXCEPT !.fin = FALSE], "Complete")
    /\ UNCHANGED <<ext, seen, faults>>
    /\ UntouchedByCall

-----------------------------------------------------------------------------
(* Devices. Their application has to be known to TTN under a stable id:    *)
(* the one of its status, else its name, which is 1.                       *)

DeviceConstruct ==
    IF ~app.fin THEN Calls(<<"finalizer">>)
    ELSE IF parent.spec = Absent THEN GiveUp
    ELSE IF parent.status = "none" THEN TryAgain
    ELSE IF parent.spec # 1 THEN GiveUp
    ELSE IF ~app.gw THEN Calls(<<"gateway selector">>)
    ELSE Calls(<<"ensure device">>)

DeleteDevice == <<"delete ns", "delete js", "delete as", "delete core">>

DeviceDeconstruct ==
    IF parent.status # "known" THEN Calls(<<"release device">>)
    ELSE IF parent.spec = Absent THEN GiveUp
    ELSE Calls(Append(DeleteDevice, "release device"))

TtnDeviceEval ==
    /\ kind = "ttnDevice"
    /\ app # Absent
    /\ IF parent.spec = Bad \/ (app.want /\ app.spec = Bad)
       THEN Get(TRUE, GiveUp, GiveUp)
       ELSE Get(app.want, DeviceConstruct, DeviceDeconstruct)

GatewaySelector ==
    /\ At("construct", "gateway selector")
    /\ Store([draft EXCEPT !.gw = TRUE], "RetryNow")
    /\ UNCHANGED <<ext, seen, faults>>
    /\ UntouchedByCall

SetNsJsAs == <<"put ns", "put js", "put as">>
CreateDevice == Calls(<<"post core">> \o SetNsJsAs)
UpdateDevice == Calls(<<"put core">> \o SetNsJsAs)
GetDevice == ext["core"] # Absent

EnsureDevice ==
    /\ At("construct", "ensure device")
    /\ \/ /\ plan' = IF GetDevice THEN UpdateDevice ELSE CreateDevice
          /\ UNCHANGED <<ext, seen, faults, phase, draft, copy, outcome>>
       \/ /\ FailedCall(ext)
          /\ \E e \in TtnErrors : Store(RecoverTtn(copy), AfterError(e))
    /\ UntouchedByCall

PostCore ==
    /\ At("construct", "post core")
    /\ TtnCall(Set("core", draft.spec), draft)

PutDevice ==
    \E o \in {"core", "ns", "js", "as"} :
       /\ At("construct", "put " \o o)
       /\ TtnCall(Set(o, draft.spec),
                  IF o = "as" THEN [draft EXCEPT !.recon = "True", !.obs = copy.gen]
                  ELSE draft)

DeleteDeviceJson ==
    \E o \in {"core", "ns", "js", "as"} :
       /\ At("deconstruct", "delete " \o o)
       /\ TtnCall(Drop({o}), draft)

ReleaseDevice ==
    /\ At("deconstruct", "release device")
    /\ Store([ClearStatus(draft) EXCEPT !.gw = FALSE, !.fin = FALSE], "Complete")
    /\ UNCHANGED <<ext, seen, faults>>
    /\ UntouchedByCall

(* Users and the application controller change the application as well;    *)
(* the device controller hears nothing of it.                              *)
ParentChanges ==
    /\ kind = "ttnDevice"
    /\ Edit
    /\ parent' \in Parents \ {parent}
    /\ UNCHANGED <<kind, app, ext, ready, inbox, queue, phase, source, attemptVars,
                   stale, retries, faults>>

TtnNext ==
    \/ TtnFails \/ TtnFinalizer
    \/ TtnAppEval \/ EnsureGateway \/ EnsureApp \/ EnsureHook
    \/ TtnDeleteApp \/ ReleaseApp
    \/ TtnDeviceEval \/ GatewaySelector \/ EnsureDevice \/ PostCore \/ PutDevice
    \/ DeleteDeviceJson \/ ReleaseDevice

=============================================================================
