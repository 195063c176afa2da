---------------------------- MODULE RequestReply ----------------------------
(***************************************************************************)
(* What the request/response correlation of messagix promises its callers, *)
(* without channels, maps, locks and goroutines: a request takes a packet  *)
(* ID for good, is sent once, is acknowledged at most once and answered at *)
(* most once, in this order, each by a message about a request that was    *)
(* sent with its ID; and it may end without either at any time.            *)
(* ResponseHandler implements it.                                          *)
(***************************************************************************)
CONSTANTS Calls, PacketIDs

VARIABLES id,     \* per call: the packet ID of its request, 0 before
          phase,  \* per call: how far its request is
          got     \* per call: what it got, as <<call, "pkt" or "req">>
vars == <<id, phase, got>>

Phases == {"idle", "asking", "sent", "acked", "over"}

Init ==
  /\ id = [c \in Calls |-> 0]
  /\ phase = [c \in Calls |-> "idle"]
  /\ got = [c \in Calls |-> {}]

Move(c, from, to) == phase[c] = from /\ phase' = [phase EXCEPT ![c] = to]

(* The calls whose requests have been tried, with the ID of call c.        *)
Answering(c) ==
  {d \in Calls : id[d] = id[c] /\ phase[d] \notin {"idle", "asking"}}

Ask(c) ==
  /\ Move(c, "idle", "asking")
  /\ \E i \in PacketIDs : id' = [id EXCEPT ![c] = i]
  /\ UNCHANGED got

Send(c) == Move(c, "asking", "sent") /\ UNCHANGED <<id, got>>

Acknowledge(c) ==
  /\ Move(c, "sent", "acked")
  /\ \E d \in Answering(c) : got' = [got EXCEPT ![c] = @ \cup {<<d, "pkt">>}]
  /\ UNCHANGED id

Answer(c) ==
  /\ Move(c, "acked", "over")
  /\ \E d \in Answering(c) : got' = [got EXCEPT ![c] = @ \cup {<<d, "req">>}]
  /\ UNCHANGED id

(* Done, or an error: not sent, no acknowledgement or no answer in time.   *)
End(c) ==
  /\ \E from \in {"asking", "sent", "acked"} : Move(c, from, "over")
  /\ UNCHANGED <<id, got>>

Next == \E c \in Calls :
  Ask(c) \/ Send(c) \/ Acknowledge(c) \/ Answer(c) \/ End(c)

Spec == Init /\ [][Next]_vars
=============================================================================
