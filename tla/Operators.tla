------------------------------ MODULE Operators -----------------------------
(***************************************************************************)
(* The operators of the system on the controller they share, with the      *)
(* users, Kubernetes and crashes around them.                              *)
(***************************************************************************)
EXTENDS KnativeOperator, TtnOperator, DittoOperator

Init ==
    /\ ReconcilerInit
    /\ parent = [spec |-> 1, status |-> "none"]

Operator == Controller \/ TopicNext \/ StrimziNext \/ KnativeNext \/ TtnNext \/ DittoNext

Next == Operator \/ Users \/ ParentChanges \/ Kubernetes \/ DeploymentGone \/ Crash

Spec == Init /\ [][Next]_reconcilerVars

(* The controller is a task that is always run, and its mutex is granted   *)
(* in turn to events and to the work queue. Kubernetes makes ready what it *)
(* was given, and removes what it was told to.                             *)
FairSpec ==
    /\ Spec
    /\ WF_reconcilerVars(Operator)
    /\ \A s \in {"event", "queue"} : SF_reconcilerVars(Take(s))
    /\ \A o \in {"topic", "user", "secret", "deployment"} :
          WF_reconcilerVars(o \in DOMAIN ext /\ BecomesReady(o))
    /\ WF_reconcilerVars(DeploymentGone)

-----------------------------------------------------------------------------
(* What an operator owes a resource: the external objects of its service.  *)

Owed ==
    CASE kind = "topic" -> "topic" :> 1
      [] kind = "strimzi" ->
           [topic |-> 1, user |-> app.spec,
            secret |-> IF Password(app.spec) THEN 1 ELSE Absent]
      [] kind = "knative" -> "deployment" :> app.spec
      [] kind = "ttnApp" -> (TheApp(app.spec) :> 1) @@ (TheHook(app.spec) :> 1)
      [] kind = "ttnDevice" -> [o \in DOMAIN ext |-> app.spec]
      [] kind = "dittoApp" ->
           [inbound |-> app.spec, policy |-> 1,
            outbound |-> IF Exporter(app.spec) THEN app.spec ELSE Absent]
      [] kind = "dittoDevice" -> "thing" :> 1

AtRest == phase = "idle" /\ ~inbox /\ ~queue
Requested == app # Absent /\ app.want /\ ~app.deleted
Observed == kind \in {"topic", "dittoDevice"} \/ app.obs = app.gen

(* Every piece of state has a value of its kind: resources, conditions,    *)
(* external objects, the plan and the retries.                             *)
OperatorsTypeOK ==
    /\ kind \in Kinds
    /\ app = Absent \/ app \in Resources
    /\ parent \in Parents
    /\ DOMAIN ext = Objects(kind)
    /\ ready \subseteq DOMAIN ext
    /\ inbox \in BOOLEAN /\ queue \in BOOLEAN /\ stale \in BOOLEAN
    /\ phase \in {"idle", "get", "construct", "deconstruct", "store"}
    /\ source \in {"event", "queue", Absent}
    /\ copy = Absent \/ copy \in Resources
    /\ draft = Absent \/ draft \in Resources
    /\ outcome \in {"Complete", "RetryNow", "RetryLater"}
    /\ retries \in 0 .. MaxRetries

Guarded == (\E o \in DOMAIN ext : ext[o] # Absent) => app # Absent /\ app.fin

(* "First set the finalizer, then perform all necessary operations; at     *)
(* last, remove the finalizer": whatever crashes, fails or is edited in    *)
(* between, an external object only exists while a resource that carries   *)
(* the operator's finalizer is stored, so that nothing is left behind. The *)
(* ttn-operator does not keep to this: it deletes what its status names.   *)
FinalizerGuards == kind \notin {"ttnApp", "ttnDevice"} => Guarded

(* A resource that is reported as reconciled in its present generation,    *)
(* with nothing left to do about it, has its external objects as its       *)
(* present section wants them. What Kubernetes loses the knative-operator  *)
(* is not told of.                                                         *)
ReconciledIsTrue ==
    Requested /\ app.recon = "True" /\ app.obs = app.gen /\ AtRest =>
       \A o \in DOMAIN Owed :
          ext[o] = Owed[o] \/ (kind = "knative" /\ ext[o] \in {Absent, Terminating})

(* The status that the controller writes belongs to what it read: a write  *)
(* never takes back what a user changed since.                             *)
UsersAreHeard ==
    [][app # Absent /\ app' # Absent /\ edits' = edits =>
         /\ app'.want = app.want /\ app'.spec = app.spec
         /\ app'.deleted = app.deleted /\ app'.gen >= app.gen]_reconcilerVars

(* Users are answered: when they and the failures rest, a requested        *)
(* resource is reconciled or reported as failed, and one that is no longer *)
(* wanted has been released, and so been deleted, or is reported as        *)
(* failed. Failing once is no excuse: a temporary error is tried again.    *)
Answered ==
    <>[](app # Absent =>
           \/ app.recon = "Failed" /\ Observed
           \/ Requested /\ app.recon = "True" /\ Observed
           \/ ~Requested /\ ~app.fin /\ ~app.deleted)

=============================================================================
