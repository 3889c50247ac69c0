--------------------------- MODULE MCDeviceState ---------------------------
(* Instances of DeviceState for TLC: two connections and two processes. *)
EXTENDS DeviceState

CONSTANTS s1, s2, t1, t2

(* Symmetry is of no use with liveness. Instead, as the connections are    *)
(* alike and so are the processes: the first connection is with the first  *)
(* process, and is the first one of it to start, and a process without a   *)
(* connection does nothing.                                                *)
Ordered ==
  /\ conn[t1].session = s1
  /\ conn[t2].session = s1 /\ conn[t2].pc # "idle" => conn[t1].pc # "idle"
  /\ session[s2] # "none" => conn[t2].session = s2

MCInit == Init /\ Ordered
MCNext == Next /\ Ordered'
MCSpec == MCInit /\ [][MCNext]_vars /\ Fairness
=============================================================================
