------------------------------ MODULE StoreFeed ------------------------------
(***************************************************************************)
(* MessageStore implements MegaphoneFeed: the log is what was ever stored, *)
(* and a subscriber has heard what was put into its queue.                 *)
(***************************************************************************)
EXTENDS MessageStore

LogOf == [i \in DOMAIN heap |-> [channel_id |-> heap[i].channel_id,
                                 text |-> heap[i].text, scope |-> heap[i].scope]]
About(q, type) ==
    {i \in DOMAIN heap : \E k \in DOMAIN inbox[q] :
        inbox[q][k].type = type /\ inbox[q][k].seq = heap[i].seq}

Feed == INSTANCE MegaphoneFeed WITH
    log <- LogOf,
    subscribed <- sseQueues,
    heard <- [q \in Queues |-> About(q, "new")],
    told <- [q \in Queues |-> About(q, "update")]

\* Every step of the store's threads is a step of the feed or changes nothing
\* the feed knows of (store.py:59-127, 168-179, 223-232).
ImplementsFeed == Feed!Spec

\* Every message stored while a subscriber is registered is eventually put
\* into its queue, unless the subscriber is removed first: no thread leaves
\* add() without having told everyone (store.py:116-117, 223-232).
EveryMessageReaches == \A i \in 1..MaxCalls : Feed!EventuallyHeard(i)
=============================================================================
