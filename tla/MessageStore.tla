---------------------------- MODULE MessageStore ----------------------------
(***************************************************************************)
(* The in-memory message store of src/megaphone/store.py: class            *)
(* MessageStore, without its JSON file (module PersistentStore) and        *)
(* without its status and population boards (module StatusBoard).          *)
(*                                                                         *)
(* add() is called by one thread per channel.  It reads the clock first    *)
(* and takes the lock afterwards, decides under the lock what the message  *)
(* is (a retransmit, one more channel of a known text, or a new message),  *)
(* and tells the SSE subscribers after it has released the lock: it dumps  *)
(* the notification to JSON, copies the list of queues under the lock, and *)
(* puts the text into the queues one at a time.  Every "with self.lock"    *)
(* block contains no blocking call and is one step; everything between two *)
(* of them is a step of its own.                                           *)
(***************************************************************************)
EXTENDS Integers, Sequences, FiniteSets

CONSTANTS
    Threads,        \* the threads that call add()
    Channels,       \* channel ids
    Texts,          \* (sender, message) pairs: the text_key of add()
    MsgIds,         \* the msg_id of a megaphone packet
    Queues,         \* SSE queues the web server may register
    MSG_ID_TTL, GLOBAL_DEDUP_WINDOW, MAX_MESSAGES_PER_CHANNEL,
    MaxClock,       \* bound: the clock stops here
    MaxCalls        \* bound: number of calls of add()

ASSUME WindowsAssumption ==
    /\ MSG_ID_TTL \in Nat \ {0}
    /\ GLOBAL_DEDUP_WINDOW \in Nat \ {0}
ASSUME CapacityAssumption == MAX_MESSAGES_PER_CHANNEL \in Nat \ {0}
ASSUME BoundsAssumption == MaxClock \in Nat /\ MaxCalls \in Nat

VARIABLES
    clock,          \* time.time(), in ticks
    calls,          \* number of calls of add() so far
    heap,           \* the stored message dicts, in creation order; a "ref" is an index
    messages,       \* channel -> deque of refs
    seq,            \* self._seq
    dedup,          \* text -> [msg (a ref), channels, expire, is_global]
    seenIds,        \* <<channel, msg_id>> -> expire
    sseQueues,      \* registered queues (self.sse_queues)
    inbox,          \* queue -> every event ever put into it, in order
    pc,             \* thread -> where it is in add()
    call,           \* thread -> the arguments and local "now" of its call
    note,           \* thread -> what it has to tell the subscribers
    targets,        \* thread -> queues it has still to put the text into
    lastSighting,   \* history: id -> when it was last seen, see Noted
    lastHeard,      \* history: text -> when it last passed the first pass, see Noted
    since           \* history: queue -> the first ref stored after its registration

callVars == <<pc, call, note, targets>>
memVars == <<heap, messages, seq, dedup, seenIds>>
sseVars == <<sseQueues, inbox, since>>
history == <<lastSighting, lastHeard>>
vars == <<clock, calls, memVars, sseVars, callVars, history>>

Refs == 1..Len(heap)
Ids == Channels \X MsgIds
Scopes == {"server", "global"}
PCs == {"idle", "lock", "dump", "snapshot", "put", "save"}
NoCall == [channel_id |-> 0, msg_id |-> 0, text |-> 0, now |-> 0]
NoNote == [type |-> "none", ref |-> 0, scope |-> "none"]

(***************************************************************************)
(* Helpers.                                                                *)
(***************************************************************************)
\* A dict with one more (or one changed) entry, and a dict without its
\* expired entries.
Entry(dict, key, value) ==
    [k \in DOMAIN dict \cup {key} |-> IF k = key THEN value ELSE dict[k]]
\* (Mutant: nothing is pruned.)
LiveRecs_NeverPruned(now) == dedup
LiveRecs(now) ==
    [k \in {t \in DOMAIN dedup : dedup[t].expire > now} |-> dedup[k]]
LiveIds(now) ==
    [k \in {i \in DOMAIN seenIds : seenIds[i] > now} |-> seenIds[k]]

\* Mutant: a deque without maxlen.
Pushed_NoMaxlen(deque, ref) == Append(deque, ref)

\* deque(maxlen = MAX_MESSAGES_PER_CHANNEL): an append drops the oldest.
Pushed(deque, ref) ==
    IF Len(deque) < MAX_MESSAGES_PER_CHANNEL
    THEN Append(deque, ref)
    ELSE Append(Tail(deque), ref)

\* The thread's locals.
IdKey(t) == <<call[t].channel_id, call[t].msg_id>>
TextKey(t) == call[t].text
Now(t) == call[t].now

\* History: the latest reading of the clock that any call made for the key,
\* whatever order the calls got the lock in, and how long the last of them to
\* get the lock had waited for it.
Noted(h, key, t) ==
    Entry(h, key,
          [at |-> IF key \in DOMAIN h /\ h[key].at > Now(t) THEN h[key].at ELSE Now(t),
           late |-> clock - Now(t)])

\* Where add() goes next; when it returns its locals are gone.
Goto(t, label) == pc' = [pc EXCEPT ![t] = label]
Return(t) ==
    /\ Goto(t, "idle")
    /\ call' = [call EXCEPT ![t] = NoCall]
    /\ note' = [note EXCEPT ![t] = NoNote]

-----------------------------------------------------------------------------
Init ==
    /\ clock = 0 /\ calls = 0
    /\ heap = << >> /\ seq = 0
    /\ messages = [c \in Channels |-> << >>]
    /\ dedup = [k \in {} |-> 0] /\ seenIds = [k \in {} |-> 0]
    /\ sseQueues = {}
    /\ inbox = [q \in Queues |-> << >>]
    /\ since = [q \in Queues |-> 0]
    /\ pc = [t \in Threads |-> "idle"]
    /\ call = [t \in Threads |-> NoCall]
    /\ note = [t \in Threads |-> NoNote]
    /\ targets = [t \in Threads |-> {}]
    /\ lastSighting = [k \in {} |-> 0] /\ lastHeard = [k \in {} |-> 0]

Tick ==
    /\ clock < MaxClock
    /\ clock' = clock + 1
    /\ UNCHANGED <<calls, memVars, sseVars, callVars, history>>

-----------------------------------------------------------------------------
(* add() *)

\* now = time.time() and the two keys, before the lock.
CallAdd(t, c, id, text) ==
    /\ pc[t] = "idle"
    /\ calls < MaxCalls
    /\ calls' = calls + 1
    /\ call' = [call EXCEPT ![t] = [channel_id |-> c, msg_id |-> id,
                                    text |-> text, now |-> clock]]
    /\ Goto(t, "lock")
    /\ UNCHANGED <<clock, memVars, sseVars, note, targets, history>>

\* Mutant: a retransmit does not renew the entry of its id.
AddRetransmit_NotRenewed(t) ==
    /\ pc[t] = "lock"
    /\ IdKey(t) \in DOMAIN LiveIds(Now(t))
    /\ dedup' = LiveRecs(Now(t))
    /\ seenIds' = LiveIds(Now(t))
    /\ lastSighting' = Noted(lastSighting, IdKey(t), t)
    /\ Return(t)
    /\ UNCHANGED <<clock, calls, heap, messages, seq, sseVars, targets, lastHeard>>

\* 1st pass: the id was seen on this channel and has not expired.  The entry
\* lives on for another TTL and the message is dropped.
AddRetransmit(t) ==
    /\ pc[t] = "lock"
    /\ IdKey(t) \in DOMAIN LiveIds(Now(t))
    /\ dedup' = LiveRecs(Now(t))
    /\ seenIds' = Entry(LiveIds(Now(t)), IdKey(t), Now(t) + MSG_ID_TTL)
    /\ lastSighting' = Noted(lastSighting, IdKey(t), t)
    /\ Return(t)
    /\ UNCHANGED <<clock, calls, heap, messages, seq, sseVars, targets, lastHeard>>

\* What every call does that passes the first pass.
PassFirst(t) ==
    /\ pc[t] = "lock"
    /\ IdKey(t) \notin DOMAIN LiveIds(Now(t))
    /\ seenIds' = Entry(LiveIds(Now(t)), IdKey(t), Now(t) + MSG_ID_TTL)
    /\ lastSighting' = Noted(lastSighting, IdKey(t), t)
    /\ lastHeard' = Noted(lastHeard, TextKey(t), t)
    /\ UNCHANGED <<clock, calls, sseVars, targets>>

\* 2nd pass: a live record of the same text that has not this channel yet.
HeardElsewhere(t) ==
    /\ TextKey(t) \in DOMAIN LiveRecs(Now(t))
    /\ call[t].channel_id \notin dedup[TextKey(t)].channels

\* Mutants: the record is not marked; its expiry stays where it was.
Widened_NotMarked(t) ==
    LET rec == dedup[TextKey(t)] IN
    Entry(LiveRecs(Now(t)), TextKey(t),
          [rec EXCEPT !.channels = @ \cup {call[t].channel_id},
                      !.expire = Now(t) + GLOBAL_DEDUP_WINDOW])
Widened_NotProlonged(t) ==
    LET rec == dedup[TextKey(t)] IN
    Entry(LiveRecs(Now(t)), TextKey(t),
          [rec EXCEPT !.channels = @ \cup {call[t].channel_id}, !.is_global = TRUE])

\* The record gets the channel and a new expiry; it is global from now on.
Widened(t) ==
    LET rec == dedup[TextKey(t)] IN
    Entry(LiveRecs(Now(t)), TextKey(t),
          [msg |-> rec.msg,
           channels |-> rec.channels \cup {call[t].channel_id},
           expire |-> Now(t) + GLOBAL_DEDUP_WINDOW,
           is_global |-> TRUE])

\* Mutants: the promotion is told as a new message; the stored message keeps
\* its scope.
AddPromote_ToldAsNew(t) ==
    /\ PassFirst(t) /\ HeardElsewhere(t) /\ ~dedup[TextKey(t)].is_global
    /\ dedup' = Widened(t)
    /\ heap' = [heap EXCEPT ![dedup[TextKey(t)].msg].scope = "global"]
    /\ note' = [note EXCEPT ![t] = [type |-> "new", ref |-> dedup[TextKey(t)].msg,
                                    scope |-> "none"]]
    /\ Goto(t, "dump")
    /\ UNCHANGED <<messages, seq, call>>
AddPromote_ScopeKept(t) ==
    /\ PassFirst(t) /\ HeardElsewhere(t) /\ ~dedup[TextKey(t)].is_global
    /\ dedup' = Widened(t)
    /\ note' = [note EXCEPT ![t] = [type |-> "update", ref |-> dedup[TextKey(t)].msg,
                                    scope |-> "none"]]
    /\ Goto(t, "dump")
    /\ UNCHANGED <<heap, messages, seq, call>>

\* The second channel: the message becomes global and the subscribers are told.
AddPromote(t) ==
    /\ PassFirst(t)
    /\ HeardElsewhere(t)
    /\ ~dedup[TextKey(t)].is_global
    /\ dedup' = Widened(t)
    /\ heap' = [heap EXCEPT ![dedup[TextKey(t)].msg].scope = "global"]
    /\ note' = [note EXCEPT ![t] = [type |-> "update",
                                    ref |-> dedup[TextKey(t)].msg,
                                    scope |-> "none"]]
    /\ Goto(t, "dump")
    /\ UNCHANGED <<messages, seq, call>>

\* A third channel, and later ones: nothing to tell.
AddRepeat(t) ==
    /\ PassFirst(t)
    /\ HeardElsewhere(t)
    /\ dedup[TextKey(t)].is_global
    /\ dedup' = Widened(t)
    /\ Return(t)
    /\ UNCHANGED <<heap, messages, seq>>

\* Otherwise the message is stored with the next sequence number, and a new
\* record replaces whatever record the text had.
AddNew(t) ==
    LET c == call[t].channel_id
        ref == Len(heap) + 1
    IN
    /\ PassFirst(t)
    /\ ~HeardElsewhere(t)
    /\ seq' = seq + 1
    /\ heap' = Append(heap, [seq |-> seq + 1, channel_id |-> c,
                             text |-> TextKey(t), scope |-> "server",
                             time |-> Now(t)])
    /\ messages' = [messages EXCEPT ![c] = Pushed(@, ref)]
    /\ dedup' = Entry(LiveRecs(Now(t)), TextKey(t),
                      [msg |-> ref, channels |-> {c},
                       expire |-> Now(t) + GLOBAL_DEDUP_WINDOW,
                       is_global |-> FALSE])
    /\ note' = [note EXCEPT ![t] = [type |-> "new", ref |-> ref,
                                    scope |-> "none"]]
    /\ Goto(t, "dump")
    /\ UNCHANGED call

\* Mutant: a new message that is global by now is left to its update.
Dump_SkipsGlobal(t) ==
    /\ pc[t] = "dump"
    /\ IF note[t].type = "new" /\ heap[note[t].ref].scope = "global"
       THEN Return(t)
       ELSE /\ note' = [note EXCEPT ![t].scope = IF note[t].type = "update" THEN "global"
                                                ELSE "server"]
            /\ Goto(t, "snapshot")
            /\ UNCHANGED call
    /\ UNCHANGED <<clock, calls, memVars, sseVars, targets, history>>

\* _notify, json.dumps: a new message is the stored dict itself, so its text
\* shows the scope the message has at this moment; an update says "global".
Dump(t) ==
    /\ pc[t] = "dump"
    /\ note' = [note EXCEPT ![t].scope =
                    IF note[t].type = "update" THEN "global"
                    ELSE heap[note[t].ref].scope]
    /\ Goto(t, "snapshot")
    /\ UNCHANGED <<clock, calls, memVars, sseVars, call, targets, history>>

\* _notify, the copy of the list of queues under the lock.
Snapshot(t) ==
    /\ pc[t] = "snapshot"
    /\ targets' = [targets EXCEPT ![t] = sseQueues]
    /\ Goto(t, "put")
    /\ UNCHANGED <<clock, calls, memVars, sseVars, call, note, history>>

\* _notify, one put_nowait.  The order of the list is left open.
Event(t) == [type |-> note[t].type, seq |-> heap[note[t].ref].seq,
             scope |-> note[t].scope]
\* Mutant: the loop ends with its first queue.
Put_FirstOnly(t, q) ==
    /\ pc[t] = "put" /\ q \in targets[t]
    /\ inbox' = [inbox EXCEPT ![q] = Append(@, Event(t))]
    /\ targets' = [targets EXCEPT ![t] = {}]
    /\ UNCHANGED <<clock, calls, memVars, sseQueues, since, pc, call, note, history>>
Put(t, q) ==
    /\ pc[t] = "put"
    /\ q \in targets[t]
    /\ inbox' = [inbox EXCEPT ![q] = Append(@, Event(t))]
    /\ targets' = [targets EXCEPT ![t] = @ \ {q}]
    /\ UNCHANGED <<clock, calls, memVars, sseQueues, since, pc, call, note, history>>

\* _notify returns: after a new message add() may go on to write the file,
\* after an update it returns.
PutDone(t) ==
    /\ pc[t] = "put"
    /\ targets[t] = {}
    /\ IF note[t].type = "new"
       THEN Goto(t, "save") /\ UNCHANGED <<call, note>>
       ELSE Return(t)
    /\ UNCHANGED <<clock, calls, memVars, sseVars, targets, history>>

\* The throttled write of the file changes nothing in memory; PersistentStore
\* says what it does.
Save(t) ==
    /\ pc[t] = "save"
    /\ Return(t)
    /\ UNCHANGED <<clock, calls, memVars, sseVars, targets, history>>

-----------------------------------------------------------------------------
(* add_queue() and remove_queue(), called by the SSE handlers of the web    *)
(* server; a handler makes a new Queue, so a queue is registered only once. *)
AddQueue(q) ==
    /\ since[q] = 0
    /\ sseQueues' = sseQueues \cup {q}
    /\ since' = [since EXCEPT ![q] = 1 + Len(heap)]
    /\ UNCHANGED <<clock, calls, memVars, inbox, callVars, history>>

RemoveQueue(q) ==
    /\ q \in sseQueues
    /\ sseQueues' = sseQueues \ {q}
    /\ UNCHANGED <<clock, calls, memVars, inbox, since, callVars, history>>

\* get_recent() and get_all_messages(): the stored messages by sequence number.
Stored == UNION {{messages[c][i] : i \in DOMAIN messages[c]} : c \in Channels}

-----------------------------------------------------------------------------
Locked(t) == AddRetransmit(t) \/ AddPromote(t) \/ AddRepeat(t) \/ AddNew(t)

Continue(t) ==
    \/ Locked(t) \/ Dump(t) \/ Snapshot(t)
    \/ \E q \in Queues : Put(t, q)
    \/ PutDone(t) \/ Save(t)

Next ==
    \/ Tick
    \/ \E t \in Threads, c \in Channels, id \in MsgIds, x \in Texts : CallAdd(t, c, id, x)
    \/ \E t \in Threads : Continue(t)
    \/ \E q \in Queues : AddQueue(q) \/ RemoveQueue(q)

\* A thread that is inside add() is scheduled again; nothing makes a message
\* arrive or a browser connect.
Spec == Init /\ [][Next]_vars /\ \A t \in Threads : WF_vars(Continue(t))

-----------------------------------------------------------------------------
(* Type invariant and safety properties *)

Msg == [seq : Nat, channel_id : Channels, text : Texts, scope : Scopes, time : Nat]
Rec == [msg : Nat, channels : SUBSET Channels, expire : Nat, is_global : BOOLEAN]
Call == [channel_id : Channels, msg_id : MsgIds, text : Texts, now : Nat]
Note == [type : {"new", "update"}, ref : Nat, scope : {"none"} \cup Scopes]
Sighting == [at : Nat, late : Nat]
Events == [type : {"new", "update"}, seq : Nat, scope : Scopes]
IsDict(f, K, V) == DOMAIN f \subseteq K /\ f \in [DOMAIN f -> V]

\* The types of the variables; part of DequesKeepNewest.
TypeOK ==
    /\ clock \in Nat /\ calls \in Nat /\ seq \in Nat
    /\ heap \in Seq(Msg)
    /\ messages \in [Channels -> Seq(Nat)]
    /\ IsDict(dedup, Texts, Rec)
    /\ IsDict(seenIds, Ids, Nat)
    /\ sseQueues \in SUBSET Queues
    /\ inbox \in [Queues -> Seq(Events)]
    /\ pc \in [Threads -> PCs]
    /\ call \in [Threads -> Call \cup {NoCall}]
    /\ note \in [Threads -> Note \cup {NoNote}]
    /\ targets \in [Threads -> SUBSET Queues]
    /\ IsDict(lastSighting, Ids, Sighting)
    /\ IsDict(lastHeard, Texts, Sighting)
    /\ since \in [Queues -> Nat]

\* seq is "Global monotonically increasing" (store.py:43): no two messages of
\* any channel share a number, later messages have larger ones, and the
\* counter is never behind a stored message.
SeqIncreasing ==
    /\ \A i, j \in Refs : i < j => heap[i].seq < heap[j].seq
    /\ \A i \in Refs : heap[i].seq <= seq

\* A channel's deque holds the newest messages of that channel, oldest first,
\* whatever threads appended them: get_recent(channel) is sorted without a
\* sort (store.py:189-190) and nothing newer than a kept message is missing.
DequesKeepNewest ==
    /\ TypeOK
    /\ \A c \in Channels :
        LET d == messages[c] IN
        /\ Len(d) <= MAX_MESSAGES_PER_CHANNEL
        /\ \A i, j \in DOMAIN d : i < j => d[i] < d[j]
        /\ \A i \in DOMAIN d : d[i] \in Refs /\ heap[d[i]].channel_id = c
        /\ \A r \in Refs :
              heap[r].channel_id = c =>
                  \/ \E i \in DOMAIN d : d[i] = r
                  \/ Len(d) = MAX_MESSAGES_PER_CHANNEL /\ r < d[1]

\* A live dedup record and the stored message it points to tell the same
\* story: same text, the message's own channel among the record's channels,
\* and "global" in the record, in the message and in the number of channels
\* together (store.py:84-113).
DedupConsistent ==
    \A x \in DOMAIN dedup :
        LET rec == dedup[x] IN
        /\ rec.msg \in Refs
        /\ heap[rec.msg].text = x
        /\ heap[rec.msg].channel_id \in rec.channels
        /\ rec.is_global <=> heap[rec.msg].scope = "global"
        /\ rec.is_global <=> rec.channels # {heap[rec.msg].channel_id}

\* "same msg_id within this window = retransmit" (config.py:40), as far as the
\* code gets: the entry of an id expires at most MSG_ID_TTL after the latest
\* time the id was seen, and earlier than that by no more than the time the
\* last caller had waited for the lock with its reading of the clock
\* (store.py:64 before 65); and an entry is gone only when the clock has really
\* passed that point, although the thread that pruned it may have read the
\* clock long before.
Remembered(s, window, known, expire) ==
    \/ known /\ expire >= s.at + window - s.late /\ expire <= s.at + window
    \/ ~known /\ clock >= s.at + window - s.late
RetransmitWindow ==
    \A id \in DOMAIN lastSighting :
        Remembered(lastSighting[id], MSG_ID_TTL, id \in DOMAIN seenIds, seenIds[id])

\* The same for the text of a message and GLOBAL_DEDUP_WINDOW (config.py:43):
\* what another channel delivers within the window finds the record, but for
\* the time the last caller had waited for the lock.
GlobalWindow ==
    \A x \in DOMAIN lastHeard :
        Remembered(lastHeard[x], GLOBAL_DEDUP_WINDOW, x \in DOMAIN dedup, dedup[x].expire)

\* The two windows as config.py:40 and 43 state them, without the waiting.
FullWindows ==
    /\ \A id \in DOMAIN lastSighting :
          \/ id \in DOMAIN seenIds /\ seenIds[id] >= lastSighting[id].at + MSG_ID_TTL
          \/ clock >= lastSighting[id].at + MSG_ID_TTL
    /\ \A x \in DOMAIN lastHeard :
          \/ x \in DOMAIN dedup /\ dedup[x].expire >= lastHeard[x].at + GLOBAL_DEDUP_WINDOW
          \/ clock >= lastHeard[x].at + GLOBAL_DEDUP_WINDOW

\* A stored message never changes but for its scope, its scope only goes from
\* "server" to "global", and only because a call brought the same text from
\* another channel before the window of the message had closed
\* (store.py:83-95): no false promotion and no demotion.
Earned(i) ==
    \E t \in Threads :
        /\ pc[t] = "lock"
        /\ call[t].text = heap[i].text
        /\ call[t].channel_id # heap[i].channel_id
        /\ call[t].now < heap[i].time + GLOBAL_DEDUP_WINDOW
PromotionEarned ==
    [][\A i \in Refs :
          \/ heap'[i] = heap[i]
          \/ /\ heap'[i] = [heap[i] EXCEPT !.scope = "global"]
             /\ Earned(i)]_vars

\* What a subscriber has in its queue about a message.
Heard(q, type, s) == {k \in DOMAIN inbox[q] : inbox[q][k].type = type /\ inbox[q][k].seq = s}

\* No queue gets an announcement twice, or one of a message that does not
\* exist, or an update of a message that is not global (store.py:116-126).
AnnouncedOnce ==
    \A q \in Queues : \A k \in DOMAIN inbox[q] :
        LET e == inbox[q][k] IN
        /\ \E i \in Refs : heap[i].seq = e.seq /\ (e.scope = "global" => heap[i].scope = "global")
        /\ Heard(q, e.type, e.seq) = {k}

\* Once no call of add() is under way, a queue that is still registered holds
\* the announcement of every message stored since it was registered, whoever
\* stored it and however often subscribers came and went meanwhile; and it
\* was told, one way or the other, of every message that is global by now.
Quiet == \A t \in Threads : pc[t] \in {"idle", "save"}
NoSubscriberMissed ==
    Quiet => \A q \in sseQueues : \A i \in Refs :
        i >= since[q] =>
            /\ Heard(q, "new", heap[i].seq) # {}
            /\ heap[i].scope = "global" =>
                  \E k \in DOMAIN inbox[q] :
                      inbox[q][k].seq = heap[i].seq /\ inbox[q][k].scope = "global"

\* "Same text on 2+ channels -> global promotion" (tests/test_store.py:9): two
\* stored messages of one text that different channels delivered less than
\* GLOBAL_DEDUP_WINDOW apart are both global.
TwoChannelsAreGlobal ==
    \A i, j \in Refs :
        /\ heap[i].text = heap[j].text
        /\ heap[i].channel_id # heap[j].channel_id
        /\ i < j
        /\ heap[j].time < heap[i].time + GLOBAL_DEDUP_WINDOW
        => heap[i].scope = "global"

-----------------------------------------------------------------------------
(* What the page makes of its queue: js:1596-1600 and 1204-1220.  An update  *)
(* of a message the page does not know yet is dropped.                       *)
ScopeOnPage(q, s) ==
    LET new == CHOOSE k \in Heard(q, "new", s) : TRUE IN
    IF \E k \in Heard(q, "update", s) : k > new THEN "global" ELSE inbox[q][new].scope

\* The docstring "Thread-safe store for received megaphone messages and SSE
\* subscribers" (store.py:33): when all threads are done, a subscriber that
\* was there before a message was stored shows it with the scope the store has.
SubscriberSeesScope ==
    Quiet => \A q \in sseQueues : \A i \in Refs :
        i >= since[q] => ScopeOnPage(q, heap[i].seq) = heap[i].scope

=============================================================================
