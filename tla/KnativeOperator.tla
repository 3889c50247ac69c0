-------------------------- MODULE KnativeOperator ---------------------------
(***************************************************************************)
(* knative-operator: a deployment of the event source for each application *)
(* that has an enabled section for it.                                     *)
(***************************************************************************)
EXTENDS KafkaOperators

CONSTANT Terminating        \* a deployment that Kubernetes is about to remove

(* A section that cannot be parsed counts as a request.                    *)
KnativeEval ==
    /\ kind = "knative"
    /\ app # Absent
    /\ Get(app.want,
           <<<<"HasFinalizer", "HasFinalizer">>,
             <<"CreateDeployment", "apply deployment">>,
             <<"SourceReady", "source ready">>>>,
           <<<<"", "remove deployment">>>>)

CreateDeployment ==
    /\ At("construct", "apply deployment")
    /\ IF draft.spec = Bad
       THEN ProgressFailed("Permanent") /\ UNCHANGED <<ext, seen, faults>>
       ELSE Apply("deployment",
                  IF ext["deployment"] = Terminating THEN Terminating ELSE draft.spec)
    /\ UntouchedByCall

SourceReady ==
    /\ At("construct", "source ready")
    /\ IF "deployment" \in seen THEN ProgressDone(draft)
       ELSE ProgressRetry(draft, "RetryLater")
    /\ UNCHANGED <<ext, seen, faults>>
    /\ UntouchedByCall

(* The deployment is found gone, or it is told to go and looked for again  *)
(* later.                                                                  *)
RemoveDeployment ==
    /\ At("deconstruct", "remove deployment")
    /\ \/ /\ ext["deployment"] = Absent
          /\ Store([ClearStatus(draft) EXCEPT !.fin = FALSE], "Complete")
          /\ UNCHANGED <<ext, faults>>
       \/ /\ ext["deployment"] # Absent
          /\ ext' = Set("deployment", Terminating)
          /\ Store(draft, "RetryLater")
          /\ UNCHANGED faults
       \/ /\ ext["deployment"] # Absent
          /\ FailedCall(Set("deployment", Terminating))
          /\ Store(Recover(copy), "Complete")
    /\ UNCHANGED seen
    /\ UntouchedByCall

DeploymentGone ==
    /\ kind = "knative"
    /\ ext["deployment"] = Terminating
    /\ ext' = Drop({"deployment"})
    /\ ready' = {}
    /\ UNCHANGED <<app, inbox, queue, phase, source, attemptVars, stale, retries,
                   faults, worldVars>>

KnativeNext == KnativeEval \/ CreateDeployment \/ SourceReady \/ RemoveDeployment

=============================================================================
