---------------------------- MODULE MegaphoneFeed ----------------------------
(***************************************************************************)
(* What the message store promises to its subscribers, without threads,    *)
(* clocks, records, retransmits or queues: one log of messages for all     *)
(* channels, in which a message may once be promoted to "global", and      *)
(* subscribers who hear of a message once, and once of its promotion.      *)
(* Nothing is promised of the order in which a subscriber hears of two     *)
(* messages, or of a message and of its promotion.                         *)
(***************************************************************************)
EXTENDS Naturals, Sequences

CONSTANTS Channels, Texts, Queues

VARIABLES
    log,        \* the messages ever stored, in the order of their numbers
    subscribed, \* the subscribers
    since,      \* subscriber -> the first message it is promised (0: not come yet)
    heard,      \* subscriber -> messages it was told of
    told        \* subscriber -> promotions it was told of

vars == <<log, subscribed, since, heard, told>>

Init ==
    /\ log = << >>
    /\ subscribed = {}
    /\ since = [q \in Queues |-> 0]
    /\ heard = [q \in Queues |-> {}]
    /\ told = [q \in Queues |-> {}]

Publish(c, x) ==
    /\ log' = Append(log, [channel_id |-> c, text |-> x, scope |-> "server"])
    /\ UNCHANGED <<subscribed, since, heard, told>>

Promote(i) ==
    /\ log[i].scope = "server"
    /\ log' = [log EXCEPT ![i].scope = "global"]
    /\ UNCHANGED <<subscribed, since, heard, told>>

Subscribe(q) ==
    /\ since[q] = 0
    /\ since' = [since EXCEPT ![q] = Len(log) + 1]
    /\ subscribed' = subscribed \cup {q}
    /\ UNCHANGED <<log, heard, told>>

Unsubscribe(q) ==
    /\ q \in subscribed
    /\ subscribed' = subscribed \ {q}
    /\ UNCHANGED <<log, since, heard, told>>

\* A subscriber that has left may still be told what was on its way.
Hear(q, i) ==
    /\ since[q] # 0
    /\ i \notin heard[q]
    /\ heard' = [heard EXCEPT ![q] = @ \cup {i}]
    /\ UNCHANGED <<log, subscribed, since, told>>

Tell(q, i) ==
    /\ since[q] # 0
    /\ log[i].scope = "global"
    /\ i \notin told[q]
    /\ told' = [told EXCEPT ![q] = @ \cup {i}]
    /\ UNCHANGED <<log, subscribed, since, heard>>

Next ==
    \/ \E c \in Channels, x \in Texts : Publish(c, x)
    \/ \E i \in DOMAIN log : Promote(i)
    \/ \E q \in Queues : Subscribe(q) \/ Unsubscribe(q)
    \/ \E q \in Queues, i \in DOMAIN log : Hear(q, i) \/ Tell(q, i)

Spec == Init /\ [][Next]_vars

\* Every message stored while a subscriber is there reaches it, unless it leaves.
EventuallyHeard(i) ==
    \A q \in Queues :
        (q \in subscribed /\ i \in DOMAIN log /\ since[q] <= i)
            ~> (i \in heard[q] \/ q \notin subscribed)
=============================================================================
