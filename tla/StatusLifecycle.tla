--------------------------- MODULE StatusLifecycle ---------------------------
(***************************************************************************)
(* What the rest of the program may believe about the status of a channel: *)
(* it is "connecting" before it is anything else, it is "connected" or     *)
(* "denied" only after "connecting", it is lost by going "disconnected",   *)
(* and "denied" is final.                                                  *)
(***************************************************************************)
CONSTANT Channels
VARIABLE status

Init == status = [c \in Channels |-> "none"]

Becomes(c, from, to) == status[c] \in from /\ status' = [status EXCEPT ![c] = to]

Dial(c) == Becomes(c, {"none", "disconnected"}, "connecting")
Connect(c) == Becomes(c, {"connecting"}, "connected")
Deny(c) == Becomes(c, {"connecting"}, "denied")
Lose(c) == Becomes(c, {"connecting", "connected"}, "disconnected")

Next == \E c \in Channels : Dial(c) \/ Connect(c) \/ Deny(c) \/ Lose(c)

Spec == Init /\ [][Next]_status
=============================================================================
