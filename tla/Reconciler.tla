----------------------------- MODULE Reconciler -----------------------------
(***************************************************************************)
(* The controller that all operators share (operator-common): it reads a   *)
(* resource from the registry, brings the outside world in line with it,   *)
(* and writes the outcome back.                                            *)
(*                                                                         *)
(* One resource is followed. Events about it and the work queue lead to    *)
(* the same InnerBaseController, whose mutex makes attempts take turns.    *)
(* Between two steps of an attempt anything else may happen: users edit or *)
(* delete the resource, an external call fails, with or without effect,    *)
(* and the process crashes and finds its unacknowledged work again. The    *)
(* operators proper are in the modules that extend this one; "kind" says   *)
(* which of them is running.                                               *)
(*                                                                         *)
(* The registry accepts a write only if the resource was not written since *)
(* it was read (VersionIdentifiesContent of Registry): "stale" is that     *)
(* comparison. The work queue keeps its promise of WorkQueue: an entry     *)
(* survives a crash and is fetched again; delays are left out.             *)
(***************************************************************************)
EXTENDS Naturals, Sequences, TLC

CONSTANTS
    Kinds,          \* the operators considered
    Bad,            \* the content of a section that cannot be parsed
    Absent,         \* there is no such resource, object or value
    MaxEdits,       \* bound: changes by users
    MaxFaults,      \* bound: failures and crashes
    MaxRetries      \* InnerBaseController::MAX_RETRIES

VARIABLES
    kind,       \* the operator
    app,        \* the resource in the registry
    parent,     \* for an operator on devices: what it reads of the application
    ext,        \* the external objects of the resource: name -> content
    ready,      \* the external objects that report to be ready
    inbox,      \* is there an unhandled event about the resource?
    queue,      \* is the resource in the work queue?
    phase,      \* what the controller is doing
    source,     \* where the key it works on came from
    plan,       \* the steps still to be run: (condition, call)
    seen,       \* external objects found, or found ready, in this attempt
    copy,       \* the resource as it was read
    draft,      \* the resource as it will be stored
    stale,      \* was the resource written since it was read?
    outcome,    \* what follows when it is stored
    retries,    \* local retries so far
    edits,      \* changes made by users
    faults      \* failures and crashes

attemptVars == <<plan, seen, copy, draft, outcome>>
worldVars == <<kind, parent, edits>>
reconcilerVars == <<kind, app, parent, ext, ready, inbox, queue, phase, source,
                    attemptVars, stale, retries, edits, faults>>

Specs == {1, 2, Bad}
AllKinds == {"topic", "strimzi", "knative", "ttnApp", "ttnDevice",
             "dittoApp", "dittoDevice"}
ByLabel == {"dittoApp", "dittoDevice"}  \* requested by a label
Always == {"topic", "strimzi"}          \* requested for every application

Objects(k) ==
    CASE k = "topic" -> {"topic"}
      [] k = "strimzi" -> {"topic", "user", "secret"}
      [] k = "knative" -> {"deployment"}
      [] k = "ttnApp" -> {"app1", "app2", "hook1", "hook2"}
      [] k = "ttnDevice" -> {"core", "ns", "js", "as"}
      [] k = "dittoApp" -> {"inbound", "outbound", "policy", "blocked"}
      [] k = "dittoDevice" -> {"thing"}

Conditions ==
    {"HasFinalizer", "CreateTopics", "TopicsReady", "CreateUser", "UserReady",
     "CreateDeployment", "SourceReady", "CreateApplication", "CreatePolicy",
     "CreateThing"}

AllConditions ==
    UNION {[cs -> {"True", "False", "Unknown"}] : cs \in SUBSET Conditions}

Resources ==
    [want : BOOLEAN, spec : Specs, gen : 1 .. MaxEdits + 2, deleted : BOOLEAN,
     fin : BOOLEAN, gw : BOOLEAN, obs : Nat,
     recon : {"Unset", "True", "Progressing", "Failed"}, conds : AllConditions,
     ready : {"Unset", "True", "False"}, id : {Absent, 1, 2}]

-----------------------------------------------------------------------------
(* Conditions, and the status section made of them.                        *)

EvalReady(conds) ==
    IF \A c \in DOMAIN conds : conds[c] = "True" THEN "True" ELSE "False"

FinishReady(r, conds, recon, gen) ==
    [r EXCEPT !.conds = conds, !.recon = recon, !.obs = gen,
              !.ready = EvalReady(conds)]

ClearStatus(r) ==
    [r EXCEPT !.conds = <<>>, !.recon = "Unset", !.obs = 0, !.ready = "Unset",
              !.id = Absent]

Rest == {Tail(plan)[i][1] : i \in DOMAIN Tail(plan)} \ {Head(plan)[1]}

(* The conditions when the current step ends with v and the rest is        *)
(* skipped, or has failed.                                                 *)
Skipping(v) ==
    (Head(plan)[1] :> v) @@ [c \in Rest |-> "Unknown"] @@ draft.conds

-----------------------------------------------------------------------------
(* Ends of an attempt. Each leaves what to store and how to go on.         *)

Store(r, o) ==
    /\ phase' = "store"
    /\ draft' = r
    /\ outcome' = o
    /\ plan' = <<>>
    /\ UNCHANGED copy

(* Permanent errors are final, temporary ones are tried again.             *)
AfterError(e) == IF e = "Permanent" THEN "Complete" ELSE "RetryNow"

(* Progressor::run and run_with: the last step done, a step that wants to  *)
(* be tried again, a step that failed.                                     *)
ProgressDone(r) ==
    LET more == Len(plan) > 1
        inside == more /\ plan[2][1] = plan[1][1]
        conds == IF inside THEN r.conds ELSE (Head(plan)[1] :> "True") @@ r.conds
    IN IF more
       THEN /\ plan' = Tail(plan)
            /\ draft' = [r EXCEPT !.conds = conds]
            /\ UNCHANGED <<phase, copy, outcome>>
       ELSE /\ Store(FinishReady(r, conds, "True", copy.gen), "Complete")

ProgressRetry(r, o) ==
    Store(FinishReady(r, Skipping("False"), "Progressing", copy.gen), o)

ProgressFailed(e) ==
    Store(FinishReady(copy, Skipping("Unknown"), "Failed", copy.gen), AfterError(e))

(* The steps of deconstruct, and of the operators without a Progressor,    *)
(* just follow each other; an error leads to recover.                      *)
Proceed(r) ==
    /\ plan' = Tail(plan)
    /\ draft' = r
    /\ UNCHANGED <<phase, copy, outcome>>

(* The recover of the operators that use a Progressor.                     *)
Recover(r) == FinishReady(r, r.conds, "Failed", r.gen)

-----------------------------------------------------------------------------
(* External calls.                                                         *)

At(p, c) == phase = p /\ plan # <<>> /\ Head(plan)[2] = c

Fault == faults < MaxFaults /\ faults' = faults + 1

Set(o, v) == [ext EXCEPT ![o] = v]
Drop(os) == [o \in DOMAIN ext |-> IF o \in os THEN Absent ELSE ext[o]]

(* A failed call may have been carried out all the same.                   *)
FailedCall(new) == Fault /\ ext' \in {ext, new} /\ UNCHANGED seen

UntouchedByCall ==
    UNCHANGED <<app, ready, inbox, queue, source, stale, retries, worldVars>>

-----------------------------------------------------------------------------
(* The controller.                                                         *)

Reset ==
    /\ plan' = <<>> /\ seen' = {} /\ copy' = Absent /\ draft' = Absent
    /\ outcome' = "Complete"
    /\ stale' = FALSE

(* FnEventProcessor and the handler of the work queue, behind the mutex.   *)
Take(s) ==
    /\ phase = "idle"
    /\ \/ s = "event" /\ inbox /\ inbox' = FALSE /\ UNCHANGED queue
       \/ s = "queue" /\ queue /\ queue' = FALSE /\ UNCHANGED inbox
    /\ phase' = "get"
    /\ source' = s
    /\ retries' = 0
    /\ UNCHANGED <<app, ext, ready, attemptVars, stale, faults, worldVars>>

(* A faulty variant: what does not come to an end locally is forgotten.   *)
FollowUpNoQueue(o) ==
    /\ phase' = IF o = "RetryNow" /\ retries < MaxRetries THEN "get" ELSE "idle"
    /\ retries' = IF phase' = "get" THEN retries + 1 ELSE 0
    /\ source' = IF phase' = "get" THEN source ELSE Absent
    /\ queue' = (queue \/ o = "RetryLater")
    /\ Reset

(* InnerBaseController::process after one attempt.                         *)
FollowUp(o) ==
    /\ phase' = IF o = "RetryNow" /\ retries < MaxRetries THEN "get" ELSE "idle"
    /\ retries' = IF phase' = "get" THEN retries + 1 ELSE 0
    /\ source' = IF phase' = "get" THEN source ELSE Absent
    /\ queue' = (queue \/ (o # "Complete" /\ phase' = "idle"))
    /\ Reset

(* ControllerOperation::process: read, and decide by eval_by_finalizer.    *)
ReconcileState(requested, r) ==
    IF ~requested /\ ~r.fin THEN "ignore"
    ELSE IF requested /\ ~r.deleted THEN "construct"
    ELSE "deconstruct"

Get(requested, constructing, deconstructing) ==
    /\ phase = "get"
    /\ app # Absent
    /\ copy' = app
    /\ draft' = app
    /\ LET state == ReconcileState(requested, app)
       IN /\ phase' = IF state = "ignore" THEN "store" ELSE state
          /\ plan' = CASE state = "ignore" -> <<>>
                       [] state = "construct" -> constructing
                       [] state = "deconstruct" -> deconstructing
    /\ outcome' = "Complete"
    /\ stale' = FALSE
    /\ seen' = {}
    /\ UNCHANGED <<app, ext, ready, inbox, queue, source, retries, faults, worldVars>>

GetNone ==
    /\ phase = "get"
    /\ app = Absent
    /\ FollowUp("Complete")
    /\ UNCHANGED <<app, ext, ready, inbox, faults, worldVars>>

GetFails ==
    /\ phase = "get"
    /\ Fault
    /\ FollowUp("RetryNow")
    /\ UNCHANGED <<app, ext, ready, inbox, worldVars>>

(* HasFinalizer: the finalizer is stored before anything else is done.     *)
WithFinalizer(r) == [r EXCEPT !.fin = TRUE]

HasFinalizer ==
    /\ At("construct", "HasFinalizer")
    /\ IF draft.fin THEN ProgressDone(draft)
       ELSE ProgressRetry(WithFinalizer(draft), "RetryNow")
    /\ UNCHANGED <<ext, seen, faults>>
    /\ UntouchedByCall

(* What the registry makes of the draft, and whether that is an event this *)
(* operator listens to.                                                    *)
Written(r) ==
    IF r.deleted /\ ~r.fin THEN Absent
    ELSE [r EXCEPT !.gen = IF r.gw # app.gw THEN @ + 1 ELSE @]
Announced(r) == r.fin # app.fin \/ r.gw # app.gw

Write(r) ==
    /\ app' = Written(r)
    /\ inbox' = (inbox \/ Announced(r))

(* A faulty variant: what was read is written without comparing versions.  *)
UpdateBlindly ==
    /\ phase = "store"
    /\ app # Absent
    /\ \/ /\ draft = copy
          /\ FollowUp(outcome)
          /\ UNCHANGED <<app, inbox, faults>>
       \/ /\ draft # copy
          /\ Write(draft)
          /\ FollowUp(outcome)
          /\ UNCHANGED faults
    /\ UNCHANGED <<ext, ready, worldVars>>

UpdateIf ==
    /\ phase = "store"
    /\ \/ /\ draft = copy
          /\ FollowUp(outcome)
          /\ UNCHANGED <<app, inbox, faults>>
       \/ /\ draft # copy
          /\ ~stale
          /\ Write(draft)
          /\ FollowUp(outcome)
          /\ UNCHANGED faults
       \/ /\ draft # copy
          /\ stale
          /\ FollowUp("RetryNow")
          /\ UNCHANGED <<app, inbox, faults>>
       \/ /\ draft # copy
          /\ Fault
          /\ UNCHANGED <<app, inbox>> \/ (~stale /\ Write(draft))
          /\ FollowUp("RetryNow")
    /\ UNCHANGED <<ext, ready, worldVars>>

(* The process dies; what was taken and not acknowledged is found again.   *)
Crash ==
    /\ phase # "idle"
    /\ Fault
    /\ inbox' = (inbox \/ source = "event")
    /\ queue' = (queue \/ source = "queue")
    /\ phase' = "idle"
    /\ source' = Absent
    /\ retries' = 0
    /\ Reset
    /\ UNCHANGED <<app, ext, ready, worldVars>>

-----------------------------------------------------------------------------
(* The users. Which paths an operator listens to is its is_relevant.       *)

IsRelevant(path) ==
    CASE path = "." -> TRUE
      [] path = ".metadata" -> TRUE
      [] path = ".spec" -> kind # "topic"

Edit == edits < MaxEdits /\ edits' = edits + 1

Changed(new, path) ==
    /\ app' = new
    /\ inbox' = (inbox \/ IsRelevant(path))
    /\ stale' = (copy # Absent)
    /\ UNCHANGED <<kind, parent, ext, ready, queue, phase, source, attemptVars,
                   retries, faults>>

NewResource(want, spec) ==
    [want |-> want, spec |-> spec, gen |-> 1, deleted |-> FALSE, fin |-> FALSE,
     gw |-> FALSE, obs |-> 0, recon |-> "Unset", conds |-> <<>>,
     ready |-> "Unset", id |-> Absent]

UserCreates(spec) ==
    /\ app = Absent
    /\ Edit
    /\ Changed(NewResource(TRUE, spec), ".")

(* The section, or the label, that requests the operator's service.        *)
UserRequests ==
    /\ app # Absent
    /\ kind \notin Always
    /\ Edit
    /\ IF kind \in ByLabel
       THEN Changed([app EXCEPT !.want = ~@], ".metadata")
       ELSE Changed([app EXCEPT !.want = ~@, !.gen = @ + 1], ".spec")

UserConfigures(spec) ==
    /\ app # Absent
    /\ spec # app.spec
    /\ Edit
    /\ Changed([app EXCEPT !.spec = spec, !.gen = @ + 1], ".spec")

UserDeletes ==
    /\ app # Absent
    /\ ~app.deleted
    /\ Edit
    /\ IF app.fin THEN Changed([app EXCEPT !.deleted = TRUE], ".metadata")
       ELSE Changed(Absent, ".")

Users ==
    \/ \E spec \in Specs : UserCreates(spec) \/ UserConfigures(spec)
    \/ UserRequests
    \/ UserDeletes

ReconcilerInit ==
    /\ kind \in Kinds
    /\ app = Absent
    /\ ext = [o \in Objects(kind) |-> Absent]
    /\ ready = {}
    /\ inbox = FALSE
    /\ queue = FALSE
    /\ phase = "idle"
    /\ source = Absent
    /\ plan = <<>>
    /\ seen = {}
    /\ copy = Absent
    /\ draft = Absent
    /\ stale = FALSE
    /\ outcome = "Complete"
    /\ retries = 0
    /\ edits = 0
    /\ faults = 0

Controller ==
    \/ \E s \in {"event", "queue"} : Take(s)
    \/ GetNone
    \/ GetFails
    \/ HasFinalizer
    \/ UpdateIf

=============================================================================
