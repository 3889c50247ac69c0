---------------------------- MODULE EventStream -----------------------------
(***************************************************************************)
(* The streams of the events of an application (event-common/stream): each *)
(* is a Kafka consumer in a group. The offset that a stream has stored is  *)
(* committed from time to time; with AutoAck it is stored when an event is *)
(* returned, with CustomAck when the event is acknowledged.                *)
(***************************************************************************)
EXTENDS Naturals, FiniteSets, Sequences, Option

CONSTANTS
  Log,         \* the events of the topic, in the order they are produced
  Groups,      \* the named consumer groups
  Streams,     \* the names of the streams
  MaxFaults    \* bound on the errors of Kafka, and on the crashes

VARIABLES
  produced,    \* the number of events produced so far
  committed,   \* the offset committed by each group
  assigned,    \* the stream that each group's partition is assigned to
  rebalance,   \* the groups that rebalance, as a member joined
  stream,      \* the streams
  faults,
  from,        \* where a group began to read (history)
  delivered    \* the events that were sent to a client of a group (history)

groupVars == <<committed, assigned, rebalance, from>>
kafkaVars == <<produced, groupVars, stream, faults, delivered>>

(* Without a name, a stream gets a group of its own. *)
AllGroups == Groups \cup Streams

StreamInit ==
    /\ produced = 0 /\ faults = 0
    /\ committed = [g \in AllGroups |-> None]
    /\ assigned = [g \in AllGroups |-> None]
    /\ rebalance = [g \in AllGroups |-> FALSE]
    /\ from = [g \in AllGroups |-> None]
    /\ stream = [s \in Streams |-> None]
    /\ delivered = [g \in AllGroups |-> {}]

-----------------------------------------------------------------------------
(* What an event holds: its data, and whether that parses as JSON, and as  *)
(* UTF-8.                                                                  *)

(* DeclaredContentType::detect *)
Detect(type) ==
    CASE type \in {"application/json", "text/json", "x+json"} -> "Json"
      [] type = "text/plain" -> "String"
      [] OTHER -> "Other"

MakeJson(data) ==
    IF data.kind \in {"String", "Binary"} /\ data.json
    THEN [data EXCEPT !.kind = "Json"] ELSE data

MakeString(data) ==
    IF data.kind = "Json" \/ (data.kind = "Binary" /\ data.utf8)
    THEN [data EXCEPT !.kind = "String"] ELSE data

FixupDataType(event) ==
    LET declared == Detect(event.type)
    IN  CASE event.data = None \/ declared = "Other" -> event
          [] event.data # None /\ declared = "Json" -> [event EXCEPT !.data = MakeJson(@)]
          [] event.data # None /\ declared = "String" -> [event EXCEPT !.data = MakeString(@)]

-----------------------------------------------------------------------------
Running(s) == stream[s] # None
Owns(s) == Running(s) /\ assigned[stream[s].group] = s
Holding(s) == Running(s) /\ stream[s].handle # None

(* EventStream::new *)
GroupOf(s, name) == IF name = None THEN s ELSE name

NewStream(s, name, mode) ==
    LET g == GroupOf(s, name)
    IN  /\ ~Running(s)
        /\ stream' = [stream EXCEPT ![s] =
                        [group |-> g, mode |-> mode, pos |-> 0, stored |-> None,
                         handle |-> None]]
        /\ rebalance' = [rebalance EXCEPT ![g] = assigned[g] # None]
        /\ UNCHANGED <<produced, committed, assigned, from, faults, delivered>>

(* poll_next: an event that cannot be parsed is an error. *)
PollNext(s) ==
    /\ Owns(s) /\ ~Holding(s) /\ stream[s].pos < produced
    /\ LET at == stream[s].pos + 1
       IN  stream' = [stream EXCEPT
              ![s].pos = at,
              ![s].stored = IF stream[s].mode = "AutoAck" THEN at ELSE @,
              ![s].handle = [ok |-> Log[at].parses, at |-> at, event |-> FixupDataType(Log[at])]]
    /\ UNCHANGED <<produced, groupVars, faults, delivered>>

(* poll_next: an error of Kafka. *)
PollFails(s) ==
    /\ Owns(s) /\ ~Holding(s) /\ faults < MaxFaults
    /\ faults' = faults + 1
    /\ stream' = [stream EXCEPT ![s].handle = [ok |-> FALSE, at |-> 0, event |-> None]]
    /\ UNCHANGED <<produced, groupVars, delivered>>

(* The event was sent: with CustomAck it is acknowledged. Kafka ignores    *)
(* the offset of a partition that the stream has lost.                     *)
Sent(s) ==
    LET h == stream[s].handle
    IN  /\ delivered' = [delivered EXCEPT ![stream[s].group] = @ \cup {h.at}]
        /\ stream' = [stream EXCEPT
              ![s].stored = IF stream[s].mode = "CustomAck" /\ Owns(s) THEN h.at ELSE @,
              ![s].handle = None]
        /\ UNCHANGED <<produced, groupVars, faults>>

(* The stream is dropped, its consumer closed. It may be too late for the  *)
(* last commit.                                                            *)
WithStored(s) ==
    IF Owns(s) /\ stream[s].stored # None
    THEN [committed EXCEPT ![stream[s].group] = stream[s].stored] ELSE committed

DropStreams(S) ==
    /\ stream' = [s \in Streams |-> IF s \in S THEN None ELSE stream[s]]
    /\ assigned' = [g \in AllGroups |-> IF assigned[g] \in S THEN None ELSE assigned[g]]
    /\ \/ committed' = committed
       \/ \E s \in S : committed' = WithStored(s)
    /\ UNCHANGED <<produced, rebalance, from, faults, delivered>>

-----------------------------------------------------------------------------
(* Kafka. *)

Produce ==
    /\ produced < Len(Log)
    /\ produced' = produced + 1
    /\ UNCHANGED <<groupVars, stream, faults, delivered>>

(* Without a committed offset, a group reads what is yet to come. *)
Assign(g) ==
    /\ assigned[g] = None
    /\ \E s \in Streams :
         /\ Running(s) /\ stream[s].group = g
         /\ LET start == IF committed[g] = None THEN produced ELSE committed[g]
            IN  /\ stream' = [stream EXCEPT ![s].pos = start, ![s].stored = None]
                /\ from' = [from EXCEPT ![g] = IF committed[g] = None THEN start ELSE @]
         /\ assigned' = [assigned EXCEPT ![g] = s]
    /\ rebalance' = [rebalance EXCEPT ![g] = FALSE]
    /\ UNCHANGED <<produced, committed, faults, delivered>>

(* The group rebalances: the partition is revoked, with a last commit if   *)
(* the stream is still there to do it.                                     *)
Revoke(g) ==
    /\ rebalance[g] /\ assigned[g] # None
    /\ committed' \in {committed, WithStored(assigned[g])}
    /\ assigned' = [assigned EXCEPT ![g] = None]
    /\ rebalance' = [rebalance EXCEPT ![g] = FALSE]
    /\ UNCHANGED <<produced, from, stream, faults, delivered>>

(* enable.auto.commit *)
Commit(s) ==
    /\ Owns(s) /\ stream[s].stored \notin {None, committed[stream[s].group]}
    /\ committed' = WithStored(s)
    /\ UNCHANGED <<produced, assigned, rebalance, from, stream, faults, delivered>>

KafkaStep == \/ \E g \in AllGroups : Assign(g) \/ Revoke(g)
             \/ \E s \in Streams : Commit(s)

-----------------------------------------------------------------------------
StreamTypeOK ==
    /\ produced \in 0..Len(Log) /\ faults \in 0..MaxFaults
    /\ \A g \in AllGroups :
         /\ committed[g] \in {None} \cup 0..produced
         /\ assigned[g] \in {None} \cup {s \in Streams : Running(s) /\ stream[s].group = g}
         /\ delivered[g] \subseteq 1..produced
    /\ \A s \in Streams : Running(s) => stream[s].pos \in 0..produced

=============================================================================
