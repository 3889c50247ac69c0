--------------------------- MODULE KafkaOperators ---------------------------
(***************************************************************************)
(* The two operators that give every application its Kafka topic:          *)
(* topic-admin-operator ("topic") talks to the broker,                     *)
(* topic-strimzi-operator ("strimzi") creates KafkaTopic, KafkaUser and    *)
(* Secret resources, waits for Strimzi to make them ready, and follows     *)
(* their changes by watchers.                                              *)
(*                                                                         *)
(* A configuration with spec 1 contains a password for the user, the       *)
(* others do not.                                                          *)
(***************************************************************************)
EXTENDS Reconciler

-----------------------------------------------------------------------------
(* topic-admin-operator                                                    *)

TopicEval ==
    /\ kind = "topic"
    /\ app # Absent
    /\ Get(TRUE,
           <<<<"HasFinalizer", "HasFinalizer">>, <<"CreateTopics", "create topic">>>>,
           <<<<"", "delete topic">>>>)

(* A topic that exists already is as good as a new one.                    *)
CreateTopic ==
    /\ At("construct", "create topic")
    /\ \/ ext' = Set("topic", 1) /\ ProgressDone(draft) /\ UNCHANGED <<seen, faults>>
       \/ FailedCall(Set("topic", 1))
          /\ \E e \in {"Temporary", "Permanent"} : ProgressFailed(e)
    /\ UntouchedByCall

(* A faulty variant: the finalizer goes although the topic may be left.    *)
DeleteTopicOrNot ==
    /\ At("deconstruct", "delete topic")
    /\ \/ /\ ext' = Drop({"topic"})
          /\ Store([draft EXCEPT !.fin = FALSE], "Complete")
          /\ UNCHANGED <<seen, faults>>
       \/ /\ FailedCall(Drop({"topic"}))
          /\ Store([draft EXCEPT !.fin = FALSE], "Complete")
    /\ UntouchedByCall

DeleteTopic ==
    /\ At("deconstruct", "delete topic")
    /\ \/ /\ ext' = Drop({"topic"})
          /\ Store([draft EXCEPT !.fin = FALSE], "Complete")
          /\ UNCHANGED <<seen, faults>>
       \/ /\ FailedCall(Drop({"topic"}))
          /\ \E e \in {"Temporary", "Permanent"} : Store(Recover(copy), AfterError(e))
    /\ UntouchedByCall

TopicNext == TopicEval \/ CreateTopic \/ DeleteTopic

-----------------------------------------------------------------------------
(* topic-strimzi-operator. Every error of the Kubernetes API is permanent. *)

Password(spec) == spec = 1

StrimziEval ==
    /\ kind = "strimzi"
    /\ app # Absent
    /\ Get(TRUE,
           <<<<"HasFinalizer", "HasFinalizer">>, <<"CreateTopics", "apply topic">>,
             <<"TopicsReady", "topic ready">>, <<"CreateUser", "apply user">>,
             <<"CreateUser", "apply secret">>, <<"UserReady", "user ready">>>>,
           <<<<"", "remove topic">>, <<"", "remove user">>, <<"", "remove secret">>>>)

(* create_or_update_by returns the resource with the status it has.        *)
Apply(o, v) ==
    \/ /\ ext' = Set(o, v)
       /\ ProgressDone(draft)
       /\ seen' = seen \cup ({o} \cap ready)
       /\ UNCHANGED faults
    \/ FailedCall(Set(o, v)) /\ ProgressFailed("Permanent")

EnsureKafkaTopic ==
    /\ At("construct", "apply topic")
    /\ Apply("topic", 1)
    /\ UntouchedByCall

TopicReady ==
    /\ At("construct", "topic ready")
    /\ IF "topic" \in seen THEN ProgressDone(draft)
       ELSE ProgressRetry(draft, "RetryLater")
    /\ UNCHANGED <<ext, seen, faults>>
    /\ UntouchedByCall

EnsureKafkaUser ==
    /\ At("construct", "apply user")
    /\ Apply("user", draft.spec)
    /\ UntouchedByCall

(* Without a configured password the secret is removed.                    *)
EnsurePassword ==
    /\ At("construct", "apply secret")
    /\ Apply("secret", IF Password(draft.spec) THEN 1 ELSE Absent)
    /\ UntouchedByCall

(* Reading the user's secret may fail as well; then there is no user yet.  *)
UserReady ==
    /\ At("construct", "user ready")
    /\ \/ /\ IF "user" \in seen THEN ProgressDone([draft EXCEPT !.id = 1])
             ELSE ProgressRetry([draft EXCEPT !.id = Absent], "RetryLater")
          /\ UNCHANGED faults
       \/ Fault /\ ProgressRetry([draft EXCEPT !.id = Absent], "RetryLater")
    /\ UNCHANGED <<ext, seen>>
    /\ UntouchedByCall

(* The finalizer is removed when the last deletion is accepted.            *)
Remove(o) ==
    /\ At("deconstruct", "remove " \o o)
    /\ \/ /\ ext' = Drop({o})
          /\ IF Len(plan) > 1 THEN Proceed(draft)
             ELSE Store([draft EXCEPT !.fin = FALSE], "Complete")
          /\ UNCHANGED <<seen, faults>>
       \/ FailedCall(Drop({o})) /\ Store(Recover(copy), "Complete")
    /\ UntouchedByCall

StrimziDeconstruct == \E o \in {"topic", "user", "secret"} : Remove(o)

StrimziNext ==
    \/ StrimziEval \/ EnsureKafkaTopic \/ TopicReady \/ EnsureKafkaUser
    \/ EnsurePassword \/ UserReady \/ StrimziDeconstruct

-----------------------------------------------------------------------------
(* Kubernetes: resources become ready, or go away. The watchers of the     *)
(* topic-strimzi-operator hear of both, as the resources are annotated     *)
(* with the application's name; the label by which the knative-operator    *)
(* selects what to watch is on the pods of its deployments only.           *)

Watched == kind = "strimzi"

BecomesReady(o) ==
    /\ kind \in {"strimzi", "knative"}
    /\ ext[o] # Absent
    /\ o \notin ready
    /\ ready' = ready \cup {o}
    /\ inbox' = (inbox \/ Watched)
    /\ UNCHANGED <<app, ext, queue, phase, source, attemptVars, stale, retries,
                   faults, worldVars>>

(* A faulty variant: there is no watcher.                                *)
VanishesUnseen(o) ==
    /\ kind \in {"strimzi", "knative"}
    /\ ext[o] # Absent
    /\ Fault
    /\ ext' = Drop({o})
    /\ ready' = ready \ {o}
    /\ UNCHANGED <<app, inbox, queue, phase, source, attemptVars, stale, retries,
                   worldVars>>

Vanishes(o) ==
    /\ kind \in {"strimzi", "knative"}
    /\ ext[o] # Absent
    /\ Fault
    /\ ext' = Drop({o})
    /\ ready' = ready \ {o}
    /\ inbox' = (inbox \/ Watched)
    /\ UNCHANGED <<app, queue, phase, source, attemptVars, stale, retries, worldVars>>

Kubernetes == \E o \in DOMAIN ext : BecomesReady(o) \/ Vanishes(o)

=============================================================================
