----------------------------- MODULE MonitorPage -----------------------------
(***************************************************************************)
(* The page of src/megaphone/web/megaphone-monitor.js in server mode, on   *)
(* top of MessageStore and of the SSE handlers of webserver.py.            *)
(*                                                                         *)
(* _connectServer opens an EventSource and fetches /api/messages; the two  *)
(* are requests of their own, handled by threads of their own.  The page   *)
(* of index.html calls it twice: attributeChangedCallback runs when the    *)
(* parser sets mode="server", connectedCallback when the element is in the *)
(* document.  Streams are these EventSources.  A broken stream is opened   *)
(* again by the browser, with a new queue and without a new fetch.         *)
(*                                                                         *)
(* The page runs one callback at a time: an event, or a whole response.    *)
(***************************************************************************)
EXTENDS MessageStore

CONSTANTS
    Streams,    \* the EventSources of the page
    maxBuffer,  \* _maxBuffer
    Limit,      \* the limit of /api/messages
    MaxRestarts \* bound: how often the server is started again

ASSUME PageAssumption == maxBuffer \in Nat \ {0} /\ Limit \in Nat \ {0} /\ MaxRestarts \in Nat

VARIABLES
    stream,     \* EventSource -> the queue of its handler, or Closed
    taken,      \* queue -> how many of its events the page has handled
    fetch,      \* EventSource -> its request of /api/messages
    page,       \* the page: see NewPage
    restarts    \* how often the server has been started again

pageVars == <<stream, taken, fetch, page, restarts>>
allVars == <<vars, pageVars>>

Closed == "closed"
NoReply == [state |-> "sent", len |-> 0, life |-> 0, refs |-> << >>, body |-> << >>]
Failed == [NoReply EXCEPT !.state = "failed"]
NewPage ==
    [objs |-> << >>,                                \* message objects; a "ref" is an index
     messages |-> << >>,                            \* _messages
     bySeq |-> [k \in {} |-> 0],                    \* _bySeq
     channelMsgs |-> [c \in Channels |-> << >>],    \* _channelMsgs
     gone |-> {},       \* history: numbers that were shifted out or cleared
     unknown |-> {}]    \* history: numbers whose update found no message

-----------------------------------------------------------------------------
(* The page's own operations *)

\* push and shift.
Bounded(list) == IF Len(list) > maxBuffer THEN Tail(list) ELSE list

\* The number of the message that a full list is about to drop.
Dropped(p) == IF Len(p.messages) = maxBuffer THEN {p.objs[Head(p.messages)].seq} ELSE {}

\* Mutant: the index keeps what the list has dropped.
Indexed_Kept(p, seqno, ref) == Entry(p.bySeq, seqno, ref)
\* The index gets the new message and forgets what leaves the message list.
Indexed(p, seqno, ref) ==
    LET index == Entry(p.bySeq, seqno, ref)
    IN  [k \in DOMAIN index \ Dropped(p) |-> index[k]]

\* Mutant: a known number gets the new object.
Known_Replaced(p, m) == [p EXCEPT !.objs[p.bySeq[m.seq]] = m]
\* Nothing for a number the index has.
Known(p, m) == p

\* addMessage: the message list and the list of the channel hold the same object
\* and are bounded one by one.
AddMessage(p, m) ==
    LET ref == Len(p.objs) + 1 IN
    IF m.seq \in DOMAIN p.bySeq THEN Known(p, m)
    ELSE [p EXCEPT !.objs = Append(@, m),
                   !.messages = Bounded(Append(@, ref)),
                   !.bySeq = Indexed(p, m.seq, ref),
                   !.channelMsgs[m.channel_id] = Bounded(Append(@, ref)),
                   !.gone = @ \cup Dropped(p)]

\* _markGlobal: nothing for a number the index does not have.
MarkGlobal(p, seqno) ==
    IF seqno \in DOMAIN p.bySeq
    THEN [p EXCEPT !.objs[p.bySeq[seqno]].scope = "global"]
    ELSE [p EXCEPT !.unknown = @ \cup {seqno}]

\* clearMessages.
Cleared(p) ==
    [p EXCEPT !.messages = << >>, !.bySeq = NewPage.bySeq,
              !.channelMsgs = NewPage.channelMsgs, !.gone = @ \cup DOMAIN p.bySeq]

-----------------------------------------------------------------------------
InitPage ==
    /\ Init
    /\ stream = [s \in Streams |-> Closed]
    /\ taken = [q \in Queues |-> 0]
    /\ fetch = [s \in Streams |-> NoReply]
    /\ page = NewPage
    /\ restarts = 0

\* _serve_sse: the headers are sent before the queue is registered, so for
\* the browser the stream may be open a while before this step.
Register(s, q) ==
    /\ stream[s] = Closed
    /\ AddQueue(q)
    /\ stream' = [stream EXCEPT ![s] = q]
    /\ UNCHANGED <<taken, fetch, page, restarts>>

\* The stream breaks: what the page has not handled is lost, and the browser
\* will open a new one.
Break(s) ==
    /\ stream[s] # Closed
    /\ stream' = [stream EXCEPT ![s] = Closed]
    /\ UNCHANGED <<vars, taken, fetch, page, restarts>>

\* The handler finds out when a write fails, at the latest at a keepalive.
HandlerEnds(q) ==
    /\ \A s \in Streams : stream[s] # q
    /\ RemoveQueue(q)
    /\ UNCHANGED pageVars

\* What the page makes of a message of the store: the text, and the life of the
\* server that sent it (history), tell two messages of one number apart.
Object(i, scope) == [seq |-> heap[i].seq, channel_id |-> heap[i].channel_id,
                     text |-> heap[i].text, scope |-> scope, life |-> restarts]

\* A message is added, an update marks its message.
Applied(e) ==
    LET i == CHOOSE r \in Refs : heap[r].seq = e.seq IN
    IF e.type = "update" THEN MarkGlobal(page, e.seq) ELSE AddMessage(page, Object(i, e.scope))
\* Mutant: events are ignored until the response has arrived.
Received_AfterFetch(s, e) == IF fetch[s].state = "done" THEN Applied(e) ELSE page
Received(s, e) == Applied(e)

\* onmessage, one event.
OnMessage(s) ==
    LET q == stream[s] IN
    /\ q # Closed
    /\ taken[q] < Len(inbox[q])
    /\ taken' = [taken EXCEPT ![q] = @ + 1]
    /\ page' = Received(s, inbox[q][taken[q] + 1])
    /\ UNCHANGED <<vars, stream, fetch, restarts>>

-----------------------------------------------------------------------------
(* fetch('/api/messages') *)

\* Messages sorted by number.
Sorted(S) ==
    CHOOSE list \in [1..Cardinality(S) -> S] :
        \A i, j \in DOMAIN list : i < j => heap[list[i]].seq < heap[list[j]].seq

\* get_recent(limit): all deques, sorted by number, the last ones.
\* (Mutant: the oldest ones.)
Recent_Oldest ==
    LET all == Sorted(Stored)
    IN  SubSeq(all, 1, IF Len(all) > Limit THEN Limit ELSE Len(all))
Recent ==
    LET all == Sorted(Stored)
    IN  SubSeq(all, IF Len(all) > Limit THEN Len(all) - Limit + 1 ELSE 1, Len(all))

\* The handler collects the messages under the lock,
FetchRecent(s) ==
    /\ fetch[s].state = "sent"
    /\ fetch' = [fetch EXCEPT ![s] = [state |-> "recent", len |-> Len(heap), life |-> restarts,
                                      refs |-> Recent, body |-> << >>]]
    /\ UNCHANGED <<vars, stream, taken, page, restarts>>

\* and dumps them, as they are by then, without it.
FetchDump(s) ==
    LET refs == fetch[s].refs IN
    /\ fetch[s].state = "recent"
    /\ fetch' = [fetch EXCEPT ![s].state = "dumped", ![s].refs = << >>,
                              ![s].body = [k \in DOMAIN refs |-> Object(refs[k], heap[refs[k]].scope)]]
    /\ UNCHANGED <<vars, stream, taken, page, restarts>>

\* forEach(addMessage): the page after the first n messages of the response.
Adding(first, body) ==
    LET after[n \in 0..Len(body)] ==
            IF n = 0 THEN first ELSE AddMessage(after[n - 1], body[n])
    IN  after
\* Mutant: the response replaces what is on the page.
Merged_Replaces(body) == Adding(Cleared([page EXCEPT !.bySeq = NewPage.bySeq]), body)[Len(body)]
Merged(body) == Adding(page, body)[Len(body)]

\* The response: one callback adds all its messages.
FetchArrives(s) ==
    /\ fetch[s].state = "dumped"
    /\ page' = Merged(fetch[s].body)
    /\ fetch' = [fetch EXCEPT ![s].state = "done", ![s].body = << >>]
    /\ UNCHANGED <<vars, stream, taken, restarts>>

\* Or the request fails, and is not repeated.
FetchFails(s) ==
    /\ fetch[s].state \in {"sent", "recent", "dumped"}
    /\ fetch' = [fetch EXCEPT ![s] = Failed]
    /\ UNCHANGED <<vars, stream, taken, page, restarts>>

\* The server dies and is started again: it loads a file that has the first k
\* messages, and of their promotions those that had been made when it was
\* written.  The page stays open: its streams break, its requests fail, unless
\* the response has been received.
Restart(k, promoted) ==
    LET Kept(numbers) == {n \in numbers : n <= k}
        Of(c) == Sorted({i \in 1..k : heap[i].channel_id = c})
        Newest(list) == SubSeq(list, Len(list) - MAX_MESSAGES_PER_CHANNEL + 1, Len(list))
    IN
    /\ restarts < MaxRestarts
    /\ restarts' = restarts + 1
    /\ heap' = [i \in 1..k |-> [heap[i] EXCEPT !.scope = IF i \in promoted THEN @ ELSE "server"]]
    /\ seq' = k
    /\ messages' = [c \in Channels |-> IF Len(Of(c)) <= MAX_MESSAGES_PER_CHANNEL
                                        THEN Of(c) ELSE Newest(Of(c))]
    /\ dedup' = [x \in {} |-> 0] /\ seenIds' = [id \in {} |-> 0]
    /\ lastSighting' = [id \in {} |-> 0] /\ lastHeard' = [x \in {} |-> 0]
    /\ sseQueues' = {} /\ inbox' = [q \in Queues |-> << >>] /\ since' = [q \in Queues |-> 0]
    /\ pc' = [t \in Threads |-> "idle"] /\ call' = [t \in Threads |-> NoCall]
    /\ note' = [t \in Threads |-> NoNote] /\ targets' = [t \in Threads |-> {}]
    /\ stream' = [s \in Streams |-> Closed] /\ taken' = [q \in Queues |-> 0]
    /\ fetch' = [s \in Streams |-> IF fetch[s].state \in {"sent", "recent"}
                                   THEN Failed ELSE fetch[s]]
    /\ page' = [page EXCEPT !.gone = Kept(@), !.unknown = Kept(@)]
    /\ UNCHANGED <<clock, calls>>

\* The user's button.
ClearMessages ==
    /\ page.messages # << >>
    /\ page' = Cleared(page)
    /\ UNCHANGED <<vars, stream, taken, fetch, restarts>>

-----------------------------------------------------------------------------
\* A step of the store in which no subscriber comes or goes.
StoreStep ==
    /\ \/ Tick
       \/ \E t \in Threads, c \in Channels, id \in MsgIds, x \in Texts : CallAdd(t, c, id, x)
       \/ \E t \in Threads : Continue(t)
    /\ UNCHANGED pageVars

NextPage ==
    \/ StoreStep
    \/ \E s \in Streams, q \in Queues : Register(s, q)
    \/ \E s \in Streams : Break(s) \/ OnMessage(s)
    \/ \E q \in Queues : HandlerEnds(q)
    \/ \E s \in Streams : FetchRecent(s) \/ FetchDump(s) \/ FetchArrives(s) \/ FetchFails(s)
    \/ ClearMessages
    \/ \E k \in 0..Len(heap) :
          \E promoted \in SUBSET {i \in 1..k : heap[i].scope = "global"} : Restart(k, promoted)

SpecPage == InitPage /\ [][NextPage]_allVars

\* Threads inside add() go on, the browser opens a stream that is closed while
\* there is a queue left in the model, and handles the events it has received.
FairPage ==
    /\ SpecPage
    /\ \A t \in Threads : WF_allVars(Continue(t) /\ UNCHANGED pageVars)
    /\ \A s \in Streams : WF_allVars(\E q \in Queues : Register(s, q))
    /\ \A s \in Streams : WF_allVars(OnMessage(s))

-----------------------------------------------------------------------------
(* Properties *)

OnPage(seqno) == seqno \in DOMAIN page.bySeq
SeqsOf(list) == {page.objs[list[k]].seq : k \in DOMAIN list}

\* The types of the page, with the bounds of the buffers (js:1211-1218); part of
\* PageIndex.
PageTypeOK ==
    LET Obj == [seq : Nat, channel_id : Channels, text : Texts, scope : Scopes,
                life : 0..restarts]
        Lists == Seq(DOMAIN page.objs)
    IN
    /\ stream \in [Streams -> Queues \cup {Closed}]
    /\ taken \in [Queues -> Nat]
    /\ page.objs \in Seq(Obj)
    /\ page.messages \in Lists /\ Len(page.messages) <= maxBuffer
    /\ \A c \in Channels : page.channelMsgs[c] \in Lists /\ Len(page.channelMsgs[c]) <= maxBuffer
    /\ \A s \in Streams : fetch[s].body \in Seq(Obj)

\* The index and the message list hold the same objects, so that an update
\* reaches the object that is shown and a number is shown once, with two
\* streams, two responses, a clear and a full buffer in any order
\* (js:1206-1214, 1307-1310).
PageIndex ==
    /\ PageTypeOK
    /\ DOMAIN page.bySeq = SeqsOf(page.messages)
    /\ \A k \in DOMAIN page.messages :
          page.bySeq[page.objs[page.messages[k]].seq] = page.messages[k]

\* No order of events and responses makes a page show a message as global that
\* the store has not so, as far as this life of the server has sent it ...
NeverAhead ==
    \A k \in DOMAIN page.objs :
        LET o == page.objs[k] IN
        o.scope = "global" /\ o.life = restarts =>
            \E i \in Refs : Object(i, "global") = o /\ heap[i].scope = "global"

\* ... and an update that an open stream has brought is visible, unless it found
\* no message, or the message has been dropped since (js:1063-1070, 1596-1598).
ScopeFollows ==
    /\ NeverAhead
    /\ \A s \in Streams : stream[s] # Closed =>
          \A k \in 1..taken[stream[s]] :
              LET e == inbox[stream[s]][k] IN
              /\ e.type = "update" /\ OnPage(e.seq)
              /\ e.seq \notin page.unknown \cup page.gone
              => page.objs[page.bySeq[e.seq]].scope = "global"

\* Nothing is on its way to the page any more.
Handled(s) == stream[s] # Closed /\ taken[stream[s]] = Len(inbox[stream[s]])
Settled == Quiet /\ \A s \in Streams : Handled(s) /\ fetch[s].state \in {"done", "failed"}

\* When nothing is on its way, the page has every message stored since one of
\* its open streams was registered, unless the buffer or the user dropped it
\* (webserver.py:112-118, js:1058-1071).
SeesAllSinceOpen ==
    Settled => \A s \in Streams : \A i \in Refs :
        i >= since[stream[s]] => OnPage(heap[i].seq) \/ heap[i].seq \in page.gone

\* If the queue was registered before the response was collected, from the same
\* life of the server, the response and the stream overlap and leave no gap: the
\* page has every message from the Limit newest of that moment on.  (The other
\* way round messages fall between the two, and so they do when the server has
\* been started again with fewer messages than the response had; js:1045-1079.)
CompleteAfterOverlap ==
    Settled => \A s \in Streams : \A i \in Refs :
        /\ fetch[s].state = "done" /\ fetch[s].life = restarts
        /\ since[stream[s]] <= fetch[s].len + 1
        /\ i > fetch[s].len - Limit
        => OnPage(heap[i].seq) \/ heap[i].seq \in page.gone

\* get_recent(limit) returns the newest messages of all channels together, in
\* the order of their numbers, although each deque is bounded by itself
\* (store.py:181-196): that needs limit <= MAX_MESSAGES_PER_CHANNEL.
RecentIsNewest ==
    \A s \in Streams : fetch[s].state = "recent" =>
        LET n == fetch[s].len
            first == IF n > Limit THEN n - Limit + 1 ELSE 1
        IN  fetch[s].refs = [k \in 1..(n - first + 1) |-> first + k - 1]

\* A message stored while a stream is open is shown in the end, with its own
\* text, unless the stream breaks first or the message has been dropped; or the
\* page has its number from an earlier life of the server, which has given it
\* again (js:1206; store.py:270-272).
Taken(i) == OnPage(heap[i].seq) /\ page.objs[page.bySeq[heap[i].seq]].life < restarts
IsShown(i) ==
    /\ OnPage(heap[i].seq)
    /\ LET o == page.objs[page.bySeq[heap[i].seq]]
       IN  o.channel_id = heap[i].channel_id /\ o.text = heap[i].text
Shown(i) == i \in Refs /\ (IsShown(i) \/ Taken(i) \/ heap[i].seq \in page.gone)
EventuallyShown ==
    \A s \in Streams, q \in Queues, i \in 1..MaxCalls :
        (stream[s] = q /\ i \in Refs /\ since[q] <= i) ~> (stream[s] # q \/ Shown(i))

-----------------------------------------------------------------------------
(* What comments and tests say *)

\* "Global monotonically increasing sequence." (store.py:43): a number that the
\* page knows names the message that the store has under it.
ShowsWhatIsStored ==
    \A i \in Refs : OnPage(heap[i].seq) => IsShown(i)

\* "Calling addMessage twice with same seq produces one entry"
\* (tests/test_dom.py:304): no list of the page has two objects of one number.
OneEntryPerNumber ==
    \A c \in Channels : \A j, k \in DOMAIN page.channelMsgs[c] :
        j # k => page.objs[page.channelMsgs[c][j]].seq # page.objs[page.channelMsgs[c][k]].seq
=============================================================================
