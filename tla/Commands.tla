------------------------------ MODULE Commands ------------------------------
(***************************************************************************)
(* The dispatching of commands inside a protocol endpoint                  *)
(* (endpoint-common/src/command), with its two kinds of subscribers: an    *)
(* HTTP or CoAP request that waits for one command (wait_for_command), and *)
(* an MQTT session's inbox, whose task forwards every command.             *)
(*                                                                         *)
(* One task reads the command topic and calls Commands::send.  It holds    *)
(* the mutex of the map it walks through while it waits for room in a      *)
(* subscriber's channel.  Nobody else holds a mutex across an await.       *)
(***************************************************************************)
EXTENDS Naturals, Sequences, SequencesExt

CONSTANTS
  Subscribers,  \* the subscribing tasks
  Waiters,      \* those that are HTTP or CoAP requests; the others are inboxes
  Filter,       \* the CommandFilter each of them subscribes with
  Accepts,      \* the command names that pass each one's CommandNameFilter
  NoDevice,     \* CommandFilter.device is None
  Addresses,    \* the command addresses: gateway and device
  Names,        \* the command names
  Capacity,     \* of a subscriber's channel
  MaxCommands   \* bound on the number of commands read from the topic

ASSUME WaitersAssumption == Waiters \subseteq Subscribers
ASSUME CapacityAssumption == Capacity \in Nat \ {0}

Maps == {"devices", "wildcards"}

VARIABLES
  read,        \* the number of commands read so far
  dispatcher,  \* the task in Commands::send
  registered,  \* map -> the subscribers that have an entry in it
  channel,     \* subscriber -> the commands waiting in its channel
  task,        \* subscriber -> where its task is
  delivered,   \* subscriber -> the commands it has received (history)
  audience     \* those who must get the current command (history)

vars == <<read, dispatcher, registered, channel, task, delivered, audience>>

Command == [n : 1..MaxCommands, address : Addresses, name : Names]

\* The receiver of a channel lives from subscribe until its task ends.
Receiving(s) == task[s] \in {"waiting", "leaving", "draining"}

TypeOK ==
  /\ read \in 0..MaxCommands
  /\ dispatcher.pc \in Maps \cup {"idle"}
  /\ dispatcher.todo \in Seq(Subscribers)
  /\ read > 0 => dispatcher.cmd \in Command
  /\ registered \in [Maps -> SUBSET Subscribers]
  /\ \A s \in Subscribers : /\ channel[s] \in Seq(Command)
                            /\ Len(channel[s]) <= Capacity
                            /\ delivered[s] \in Seq(Command)
  /\ task \in [Subscribers -> {"out", "waiting", "leaving", "draining", "gone"}]
  /\ audience \subseteq Subscribers

Init ==
  /\ read = 0
  /\ dispatcher = [pc |-> "idle", cmd |-> <<>>, todo |-> <<>>]
  /\ registered = [m \in Maps |-> {}]
  /\ channel = [s \in Subscribers |-> <<>>]
  /\ task = [s \in Subscribers |-> "out"]
  /\ delivered = [s \in Subscribers |-> <<>>]
  /\ audience = {}

-----------------------------------------------------------------------------
(* The two maps. *)

\* subscribe: a filter for the gateway itself becomes a filter for everything
\* that goes through the gateway.
CleanFilter(s) ==
  IF Filter[s].device = Filter[s].gateway
  THEN [Filter[s] EXCEPT !.device = NoDevice]
  ELSE Filter[s]

MapOf(s) == IF CleanFilter(s).device = NoDevice THEN "wildcards" ELSE "devices"

\* A faulty variant: the wildcards are looked up in both maps.
TargetsInBoth(m, address) ==
  {s \in registered["devices"] \cup registered[m] :
     /\ CleanFilter(s).gateway = address.gateway
     /\ CleanFilter(s).device \in {NoDevice, address.device}}

\* The entries that map m holds for the address of a command.
Targets(m, address) ==
  {s \in registered[m] :
     /\ CleanFilter(s).gateway = address.gateway
     /\ m = "devices" => CleanFilter(s).device = address.device}

\* The mutex of a map is taken for the length of one step, by everyone but the
\* dispatcher.
Unlocked(m) == dispatcher.pc # m

-----------------------------------------------------------------------------
(* The dispatcher: Commands::send and dispatch_command. *)

\* The next command; the devices map is locked.
Read ==
  /\ dispatcher.pc = "idle" /\ read < MaxCommands
  /\ \E address \in Addresses, name \in Names :
       LET cmd == [n |-> read + 1, address |-> address, name |-> name]
       IN  /\ \E order \in SetToSeqs(Targets("devices", address)) :
                dispatcher' = [pc |-> "devices", cmd |-> cmd, todo |-> order]
           /\ audience' = {s \in Targets("devices", address)
                                   \cup Targets("wildcards", address) :
                             name \in Accepts[s] /\ Receiving(s)}
  /\ read' = read + 1
  /\ UNCHANGED <<registered, channel, task, delivered>>

\* A faulty variant: a full channel is skipped.
TrySend ==
  /\ dispatcher.todo # <<>>
  /\ LET s == Head(dispatcher.todo)
     IN  channel' = IF /\ dispatcher.cmd.name \in Accepts[s] /\ Receiving(s)
                       /\ Len(channel[s]) < Capacity
                    THEN [channel EXCEPT ![s] = Append(@, dispatcher.cmd)]
                    ELSE channel
  /\ dispatcher' = [dispatcher EXCEPT !.todo = Tail(@)]
  /\ UNCHANGED <<read, registered, task, delivered, audience>>

\* One target of the list; the dispatcher waits while the channel is full.  A
\* channel without receiver takes nothing, which is only logged.
Send ==
  /\ dispatcher.todo # <<>>
  /\ LET s == Head(dispatcher.todo)
     IN  \/ /\ dispatcher.cmd.name \notin Accepts[s] \/ ~Receiving(s)
            /\ UNCHANGED channel
         \/ /\ dispatcher.cmd.name \in Accepts[s] /\ Receiving(s)
            /\ Len(channel[s]) < Capacity
            /\ channel' = [channel EXCEPT ![s] = Append(@, dispatcher.cmd)]
  /\ dispatcher' = [dispatcher EXCEPT !.todo = Tail(@)]
  /\ UNCHANGED <<read, registered, task, delivered, audience>>

\* The devices map is unlocked, the wildcards map is locked.
SendToWildcards ==
  /\ dispatcher.pc = "devices" /\ dispatcher.todo = <<>>
  /\ \E order \in SetToSeqs(Targets("wildcards", dispatcher.cmd.address)) :
       dispatcher' = [dispatcher EXCEPT !.pc = "wildcards", !.todo = order]
  /\ UNCHANGED <<read, registered, channel, task, delivered, audience>>

SendDone ==
  /\ dispatcher.pc = "wildcards" /\ dispatcher.todo = <<>>
  /\ dispatcher' = [dispatcher EXCEPT !.pc = "idle"]
  /\ UNCHANGED <<read, registered, channel, task, delivered, audience>>

-----------------------------------------------------------------------------
(* The subscribers. *)

Subscribe(s) ==
  /\ task[s] = "out" /\ Unlocked(MapOf(s))
  /\ registered' = [registered EXCEPT ![MapOf(s)] = @ \cup {s}]
  /\ task' = [task EXCEPT ![s] = "waiting"]
  /\ UNCHANGED <<read, dispatcher, channel, delivered, audience>>

Take(s) ==
  /\ channel[s] # <<>>
  /\ channel' = [channel EXCEPT ![s] = Tail(@)]
  /\ delivered' = [delivered EXCEPT ![s] = Append(@, Head(channel[s]))]

\* The request has its command, or its time is up: it goes on to unsubscribe.
WaiterReceives(s) ==
  /\ s \in Waiters /\ task[s] = "waiting"
  /\ Take(s)
  /\ task' = [task EXCEPT ![s] = "leaving"]
  /\ UNCHANGED <<read, dispatcher, registered, audience>>

WaiterTimeout(s) ==
  /\ s \in Waiters /\ task[s] = "waiting" /\ channel[s] = <<>>
  /\ task' = [task EXCEPT ![s] = "leaving"]
  /\ UNCHANGED <<read, dispatcher, registered, channel, delivered, audience>>

\* The client goes away while the request waits: the request's task is dropped
\* where it stands, its entry stays in the map.
WaiterDropped(s) ==
  /\ s \in Waiters /\ task[s] \in {"waiting", "leaving"}
  /\ task' = [task EXCEPT ![s] = "gone"]
  /\ channel' = [channel EXCEPT ![s] = <<>>]
  /\ audience' = audience \ {s}
  /\ UNCHANGED <<read, dispatcher, registered, delivered>>

\* A faulty variant: the inbox task needs the mutex of the map.
InboxReceivesLocked(s) ==
  /\ s \notin Waiters /\ Receiving(s) /\ Unlocked(MapOf(s))
  /\ Take(s)
  /\ UNCHANGED <<read, dispatcher, registered, task, audience>>

\* The inbox task forwards a command to the client.
InboxReceives(s) ==
  /\ s \notin Waiters /\ Receiving(s)
  /\ Take(s)
  /\ UNCHANGED <<read, dispatcher, registered, task, audience>>

\* unsubscribe, by a request that is done or by a session that closes its inbox.
\* A request's channel is dropped with what is in it; an inbox's task forwards
\* what is left.
Unsubscribe(s) ==
  /\ Unlocked(MapOf(s))
  /\ \/ /\ s \in Waiters /\ task[s] = "leaving"
        /\ task' = [task EXCEPT ![s] = "out"]
        /\ channel' = [channel EXCEPT ![s] = <<>>]
     \/ /\ s \notin Waiters /\ task[s] = "waiting"
        /\ task' = [task EXCEPT ![s] = "draining"]
        /\ UNCHANGED channel
  /\ registered' = [registered EXCEPT ![MapOf(s)] = @ \ {s}]
  /\ audience' = audience \ {s}
  /\ UNCHANGED <<read, dispatcher, delivered>>

\* The inbox task ends: nobody can send to it and the channel is empty.
InboxEnds(s) ==
  /\ task[s] = "draining" /\ channel[s] = <<>>
  /\ task' = [task EXCEPT ![s] = "out"]
  /\ UNCHANGED <<read, dispatcher, registered, channel, delivered, audience>>

-----------------------------------------------------------------------------
SubscriberNext(s) ==
  \/ Subscribe(s) \/ Unsubscribe(s)
  \/ WaiterReceives(s) \/ WaiterTimeout(s) \/ WaiterDropped(s)
  \/ InboxReceives(s) \/ InboxEnds(s)

DispatcherNext == Read \/ Send \/ SendToWildcards \/ SendDone

Next == DispatcherNext \/ \E s \in Subscribers : SubscriberNext(s)

Spec == Init /\ [][Next]_vars

\* The tasks are scheduled; the mutexes are handed out in order.
Fairness ==
  /\ WF_vars(Send) /\ WF_vars(SendToWildcards) /\ WF_vars(SendDone)
  /\ \A s \in Subscribers :
       /\ WF_vars(WaiterReceives(s)) /\ WF_vars(WaiterTimeout(s))
       /\ WF_vars(InboxReceives(s)) /\ WF_vars(InboxEnds(s))
       /\ SF_vars(task[s] = "leaving" /\ Unsubscribe(s))

FairSpec == Spec /\ Fairness

-----------------------------------------------------------------------------
\* Is the command for this subscriber: it goes through its gateway, passes its
\* name filter, and is for its device, when that is one behind the gateway?
Matches(s, cmd) ==
  /\ cmd.address.gateway = Filter[s].gateway
  /\ cmd.name \in Accepts[s]
  /\ Filter[s].device \notin {NoDevice, Filter[s].gateway}
       => cmd.address.device = Filter[s].device

\* A subscriber gets no commands but those for it, every one at most once and in
\* the order of the topic, however it unsubscribes and subscribes again in
\* between.
EachOnceInOrder ==
  \A s \in Subscribers :
    LET got == delivered[s] \o channel[s]
    IN  /\ \A i \in 1..Len(got) : Matches(s, got[i])
        /\ \A i, j \in 1..Len(got) : i < j => got[i].n < got[j].n

\* When the dispatcher is done with a command, every subscriber that was there
\* when it began, and has stayed, has the command: in its hands or in its
\* channel.  The two maps are locked one after the other, not together.
AudienceServed ==
  dispatcher.pc = "idle" =>
    \A s \in audience :
      \E i \in 1..Len(delivered[s] \o channel[s]) :
        (delivered[s] \o channel[s])[i] = dispatcher.cmd

\* The dispatcher gets done with every command, unless it waits for room in the
\* channel of a request that has its command and is about to unsubscribe: no
\* inbox and no request that still waits, leaves or is dropped holds it up.
OnlyLeaversBlock ==
  dispatcher.pc # "idle" ~>
    \/ dispatcher.pc = "idle"
    \/ /\ dispatcher.todo # <<>>
       /\ Head(dispatcher.todo) \in Waiters
       /\ task[Head(dispatcher.todo)] = "leaving"

\* The dispatcher gets done with every command: no subscriber makes it wait for
\* ever, with a mutex in its hands.
DispatcherNeverStuck == dispatcher.pc # "idle" ~> dispatcher.pc = "idle"
=============================================================================
