--------------------------- MODULE PersistentStore ---------------------------
(***************************************************************************)
(* The JSON file of the message store: _save_persisted, _load_persisted,   *)
(* flush and the throttle in add() (src/megaphone/store.py), with threads  *)
(* that save at the same time, a process that stops or is killed at any    *)
(* step, and restarts.                                                     *)
(*                                                                         *)
(* Only calls of add() that store a message are modelled (MessageStore has *)
(* the others; none of them writes the file), and a message is its number, *)
(* its channel and a birth id that tells messages apart across restarts.   *)
(* _save_persisted does not take the lock: it copies the deques one        *)
(* channel after the other, truncates the file, and writes.                *)
(***************************************************************************)
EXTENDS Integers, Sequences, FiniteSets, Functions

CONSTANTS
    Threads,            \* threads that call add()
    Main,               \* the main thread: flush() at shutdown
    Channels,
    MAX_MESSAGES_PER_CHANNEL, MAX_PERSISTED, PERSIST_INTERVAL,
    DiskMayFail,        \* may open() or a write raise OSError?
    MaxClock, MaxBorn, MaxStops     \* bounds: clock, messages, process ends

ASSUME CapacityAssumption == MAX_MESSAGES_PER_CHANNEL \in Nat \ {0} /\ MAX_PERSISTED \in Nat
ASSUME IntervalAssumption == PERSIST_INTERVAL \in Nat
ASSUME MainAssumption == Main \notin Threads
ASSUME BoundsAssumption == MaxClock \in Nat /\ MaxBorn \in Nat /\ MaxStops \in Nat

VARIABLES
    clock,
    up,         \* is the process running?
    refused,    \* did the last start of the process end in an exception?
    stops,      \* number of process ends so far
    keys,       \* the keys of self.messages in insertion order
    messages,   \* channel -> deque of messages
    seq,        \* self._seq
    lastSave,   \* self._last_save
    file,       \* the file: absent, whole (a list) or broken
    pc,         \* thread -> where it is
    now,        \* thread -> its local "now"
    copy,       \* thread -> progress of its _save_persisted
    born,       \* number of messages ever stored; the next birth id
    stored,     \* history: every message ever stored
    durable,    \* history: messages some whole file has held
    lastOpen    \* history: when add() last began to write the file

vars == <<clock, up, refused, stops, keys, messages, seq, lastSave, file, pc, now, copy,
          born, stored, durable, lastOpen>>

All == Threads \cup {Main}
Never == -PERSIST_INTERVAL
NoCopy == [size |-> 0, done |-> 0, got |-> {}, base |-> {}, shared |-> FALSE]
Absent == [state |-> "absent", msgs |-> << >>, len |-> 0, base |-> {}]
Truncated == [state |-> "broken", msgs |-> << >>, len |-> 0, base |-> {}]

InMemory == UNION {Range(messages[c]) : c \in Channels}
LastOf(s, n) == IF n > 0 /\ Len(s) > n THEN SubSeq(s, Len(s) - n + 1, Len(s)) ELSE s
\* deque.append with maxlen.
Pushed(deque, m) == LastOf(Append(deque, m), MAX_MESSAGES_PER_CHANNEL)
Goto(t, label) == pc' = [pc EXCEPT ![t] = label]

\* A finite set of integers, in increasing order.
Ordered(P) == CHOOSE s \in [1..Cardinality(P) -> P] :
                  \A i, j \in DOMAIN s : i < j => s[i] < s[j]
\* all_messages.sort(key=lambda m: m["seq"]).
InOrder(S) ==
    LET numbers == Ordered({m.seq : m \in S})
    IN  [k \in DOMAIN numbers |-> CHOOSE m \in S : m.seq = numbers[k]]

-----------------------------------------------------------------------------
\* The process starts without a file; time.time() is far beyond 0, the initial
\* _last_save, so the first message is always saved.
Init ==
    /\ clock = 0 /\ up = TRUE /\ refused = FALSE /\ stops = 0
    /\ keys = << >> /\ messages = [c \in Channels |-> << >>]
    /\ seq = 0 /\ lastSave = Never /\ file = Absent
    /\ pc = [t \in All |-> "idle"]
    /\ now = [t \in All |-> 0]
    /\ copy = [t \in All |-> NoCopy]
    /\ born = 0 /\ stored = {} /\ durable = {} /\ lastOpen = Never

Tick ==
    /\ clock < MaxClock
    /\ clock' = clock + 1
    /\ UNCHANGED <<up, refused, stops, keys, messages, seq, lastSave, file, pc, now, copy,
                   born, stored, durable, lastOpen>>

\* add(): "now" is read before the lock is taken.
CallAdd(t) ==
    /\ up /\ pc[t] = "idle" /\ born < MaxBorn
    /\ now' = [now EXCEPT ![t] = clock]
    /\ Goto(t, "lock")
    /\ UNCHANGED <<clock, up, refused, stops, keys, messages, seq, lastSave, file, copy,
                   born, stored, durable, lastOpen>>

\* add(), under the lock: the next number, and the deque of the channel, which
\* the defaultdict makes at the channel's first message.
StoreNew(t, c) ==
    LET m == [seq |-> seq + 1, channel_id |-> c, born |-> born + 1] IN
    /\ pc[t] = "lock" /\ born < MaxBorn
    /\ seq' = seq + 1
    /\ born' = born + 1
    /\ messages' = [messages EXCEPT ![c] = Pushed(@, m)]
    /\ keys' = IF c \in Range(keys) THEN keys ELSE Append(keys, c)
    /\ stored' = stored \cup {m}
    /\ Goto(t, "throttle")
    /\ UNCHANGED <<clock, up, refused, stops, lastSave, file, now, copy, durable, lastOpen>>

\* add(), after the notification: save at most once per PERSIST_INTERVAL.
Begin(t) == copy' = [copy EXCEPT ![t] = [size |-> Len(keys), done |-> 0,
                                         got |-> {}, base |-> InMemory,
                                         shared |-> FALSE]]
Throttle(t) ==
    /\ pc[t] = "throttle"
    /\ IF now[t] - lastSave >= PERSIST_INTERVAL
       THEN Goto(t, "copy") /\ Begin(t)
       ELSE Goto(t, "idle") /\ UNCHANGED copy
    /\ UNCHANGED <<clock, up, refused, stops, keys, messages, seq, lastSave, file, now,
                   born, stored, durable, lastOpen>>

\* flush() in the main thread: Ctrl+C while it sleeps.
Flush ==
    /\ up /\ pc[Main] = "idle"
    /\ Goto(Main, "copy") /\ Begin(Main)
    /\ UNCHANGED <<clock, up, refused, stops, keys, messages, seq, lastSave, file, now,
                   born, stored, durable, lastOpen>>

-----------------------------------------------------------------------------
(* _save_persisted *)

Returned(t) == Goto(t, IF t = Main THEN "flushed" ELSE "idle")

\* Mutant: the list is replaced where it should be extended.
CopyChannel_Replaces(t) ==
    /\ pc[t] = "copy"
    /\ Len(keys) = copy[t].size /\ copy[t].done < copy[t].size
    /\ copy' = [copy EXCEPT ![t].done = @ + 1,
                            ![t].got = Range(messages[keys[copy[t].done + 1]])]
    /\ UNCHANGED <<clock, up, refused, stops, keys, messages, seq, lastSave, file, pc, now,
                   born, stored, durable, lastOpen>>

\* One step of the loop over self.messages.values().  The iterator sees that
\* the dict has a new key: RuntimeError, which nobody catches in add().
CopyChannel(t) ==
    /\ pc[t] = "copy"
    /\ Len(keys) = copy[t].size /\ copy[t].done < copy[t].size
    /\ copy' = [copy EXCEPT ![t].done = @ + 1,
                            ![t].got = @ \cup Range(messages[keys[copy[t].done + 1]])]
    /\ UNCHANGED <<clock, up, refused, stops, keys, messages, seq, lastSave, file, pc, now,
                   born, stored, durable, lastOpen>>

CopyRaises(t) ==
    /\ pc[t] = "copy"
    /\ Len(keys) # copy[t].size
    /\ copy' = [copy EXCEPT ![t] = NoCopy]
    /\ Returned(t)
    /\ UNCHANGED <<clock, up, refused, stops, keys, messages, seq, lastSave, file, now,
                   born, stored, durable, lastOpen>>

\* open("w") truncates the file, also under the hands of another writer.
Writing == {t \in All : pc[t] = "write"}
OpenFile(t) ==
    /\ pc[t] = "copy"
    /\ Len(keys) = copy[t].size /\ copy[t].done = copy[t].size
    /\ file' = Truncated
    /\ lastOpen' = IF t = Main THEN lastOpen ELSE clock
    /\ copy' = [u \in All |->
                   [copy[u] EXCEPT !.shared = @ \/ u \in Writing \/ (u = t /\ Writing # {})]]
    /\ Goto(t, "write")
    /\ UNCHANGED <<clock, up, refused, stops, keys, messages, seq, lastSave, now,
                   born, stored, durable>>

Broken == [file EXCEPT !.state = "broken", !.msgs = << >>, !.base = {}]

\* The buffer fills up and the first part of the text is written.
WriteSome(t) ==
    /\ pc[t] = "write"
    /\ copy[t].got # {} /\ file.len = 0
    /\ file' = [Broken EXCEPT !.len = 1]
    /\ UNCHANGED <<clock, up, refused, stops, keys, messages, seq, lastSave, pc, now, copy,
                   born, stored, durable, lastOpen>>

Content(t) == LastOf(InOrder(copy[t].got), MAX_PERSISTED)

\* json.dump and close.  Two writers have offsets of their own: what the later
\* one writes covers what the earlier one wrote, and if it is shorter the rest
\* of the other's text stays behind it.
WriteFile(t) ==
    LET mine == Content(t) IN
    /\ pc[t] = "write"
    /\ file' = IF Len(mine) >= file.len
               THEN [state |-> "whole", msgs |-> mine, len |-> Len(mine), base |-> copy[t].base]
               ELSE Broken
    /\ durable' = durable \cup Range(file'.msgs)
    /\ Goto(t, "saved")
    /\ UNCHANGED <<clock, up, refused, stops, keys, messages, seq, lastSave, now, copy,
                   born, stored, lastOpen>>

\* Or their buffers reached the file in turns.
WriteMixed(t) ==
    /\ pc[t] = "write"
    /\ copy[t].shared
    /\ file' = Broken
    /\ Goto(t, "saved")
    /\ UNCHANGED <<clock, up, refused, stops, keys, messages, seq, lastSave, now, copy,
                   born, stored, durable, lastOpen>>

\* OSError: before the file is touched, or with part of the text written.
OpenFails(t) ==
    /\ DiskMayFail
    /\ pc[t] = "copy"
    /\ Len(keys) = copy[t].size /\ copy[t].done = copy[t].size
    /\ Goto(t, "saved")
    /\ UNCHANGED <<clock, up, refused, stops, keys, messages, seq, lastSave, file, now, copy,
                   born, stored, durable, lastOpen>>
WriteFails(t) ==
    /\ DiskMayFail
    /\ pc[t] = "write"
    /\ file' = Broken
    /\ Goto(t, "saved")
    /\ UNCHANGED <<clock, up, refused, stops, keys, messages, seq, lastSave, now, copy,
                   born, stored, durable, lastOpen>>

\* _last_save = now, in add() the "now" of the call, whether or not the file
\* could be written.
Saved(t) ==
    /\ pc[t] = "saved"
    /\ lastSave' = IF t = Main THEN clock ELSE now[t]
    /\ copy' = [copy EXCEPT ![t] = NoCopy]
    /\ Returned(t)
    /\ UNCHANGED <<clock, up, refused, stops, keys, messages, seq, file, now,
                   born, stored, durable, lastOpen>>

-----------------------------------------------------------------------------
(* The end of the process, and its restart *)

\* The daemon threads end where they are, with what they have not written.
Stop ==
    /\ up /\ stops < MaxStops
    /\ up' = FALSE /\ refused' = FALSE
    /\ stops' = stops + 1
    /\ pc' = [t \in All |-> "idle"]
    /\ copy' = [t \in All |-> NoCopy]
    /\ now' = [t \in All |-> 0]
    /\ UNCHANGED <<clock, keys, messages, seq, lastSave, file, born, stored,
                   durable, lastOpen>>
\* main() returns after flush().
Exit == pc[Main] = "flushed" /\ Stop
\* The process is killed, the machine goes down.
Crash == pc[Main] # "flushed" /\ Stop

\* __init__ and _load_persisted: the messages of the file in its order, the
\* counter at the largest number.  A file that is absent, empty or not JSON
\* gives an empty store.
FirstKeys(ms) ==
    LET first == Ordered({i \in DOMAIN ms :
                             \A j \in 1..(i - 1) : ms[j].channel_id # ms[i].channel_id})
    IN  [k \in DOMAIN first |-> ms[first[k]].channel_id]
OfChannel(ms, c) ==
    LET own == Ordered({i \in DOMAIN ms : ms[i].channel_id = c})
    IN  LastOf([k \in DOMAIN own |-> ms[own[k]]], MAX_MESSAGES_PER_CHANNEL)
\* Mutant: the counter starts at 0 again.
Restart_CounterLost ==
    /\ ~up
    /\ up' = TRUE /\ refused' = FALSE
    /\ messages' = [c \in Channels |-> OfChannel(file.msgs, c)]
    /\ keys' = FirstKeys(file.msgs)
    /\ seq' = 0
    /\ lastSave' = Never
    /\ UNCHANGED <<clock, stops, file, pc, now, copy, born, stored, durable, lastOpen>>
Restart ==
    /\ ~up
    /\ up' = TRUE /\ refused' = FALSE
    /\ messages' = [c \in Channels |-> OfChannel(file.msgs, c)]
    /\ keys' = FirstKeys(file.msgs)
    /\ seq' = IF file.msgs = << >> THEN 0 ELSE file.msgs[Len(file.msgs)].seq
    /\ lastSave' = Never
    /\ UNCHANGED <<clock, stops, file, pc, now, copy, born, stored, durable, lastOpen>>

\* A text that was cut, or mixed, inside a UTF-8 sequence raises
\* UnicodeDecodeError, which _load_persisted does not catch: the import of the
\* module fails and the process ends.
RestartRaises ==
    /\ ~up /\ ~refused
    /\ file.state = "broken" /\ file.len > 0
    /\ refused' = TRUE
    /\ UNCHANGED <<clock, up, stops, keys, messages, seq, lastSave, file, pc, now, copy,
                   born, stored, durable, lastOpen>>

Save(t) ==
    \/ CopyChannel(t) \/ CopyRaises(t) \/ OpenFile(t) \/ OpenFails(t)
    \/ WriteSome(t) \/ WriteFile(t) \/ WriteMixed(t) \/ WriteFails(t) \/ Saved(t)

Next ==
    \/ Tick
    \/ \E t \in Threads : CallAdd(t) \/ Throttle(t) \/ \E c \in Channels : StoreNew(t, c)
    \/ \E t \in All : Save(t)
    \/ Flush \/ Exit \/ Crash \/ Restart \/ RestartRaises

Spec == Init /\ [][Next]_vars

-----------------------------------------------------------------------------
(* Properties *)

Msg == [seq : 1..MaxBorn, channel_id : Channels, born : 1..MaxBorn]

\* The types of the variables; part of NumbersAhead.
TypeOK ==
    /\ clock \in 0..MaxClock /\ up \in BOOLEAN /\ refused \in BOOLEAN /\ stops \in 0..MaxStops
    /\ keys \in Seq(Channels) /\ messages \in [Channels -> Seq(Msg)]
    /\ seq \in Nat /\ lastSave \in Int
    /\ file.state \in {"absent", "whole", "broken"} /\ file.msgs \in Seq(Msg) /\ file.len \in Nat
    /\ pc \in [All -> {"idle", "lock", "throttle", "copy", "write", "saved", "flushed"}]
    /\ now \in [All -> Nat] /\ born \in 0..MaxBorn
    /\ stored \subseteq Msg /\ durable \subseteq stored
    /\ \A t \in All : copy[t].got \subseteq Msg /\ copy[t].done <= copy[t].size

Increasing(ms) == \A i, j \in DOMAIN ms : i < j => ms[i].seq < ms[j].seq

\* Whatever mixture of saves, crashes and restarts went before: in memory the
\* numbers of a channel increase, no two channels share a number, the counter
\* is not behind, and every channel with messages is a key (store.py:258-272,
\* the load relies on the order of the file).
NumbersAhead ==
    /\ TypeOK
    /\ \A c \in Channels : Increasing(messages[c])
    /\ \A m \in InMemory : m.seq <= seq /\ m.channel_id \in Range(keys)
    /\ \A m, n \in InMemory : m.seq = n.seq => m = n

\* Newer messages of a channel have pushed a message out of its deque.
PushedOut(m) ==
    Cardinality({n \in stored : n.channel_id = m.channel_id /\ n.born > m.born})
        >= MAX_MESSAGES_PER_CHANNEL

\* A whole file lists stored messages in the order of their numbers, and holds
\* every message that was in memory when its writer began to copy, although
\* the copy takes no lock and other threads may be writing the same file: the
\* copy is never torn behind its own beginning (store.py:279-302).
WholeFileIsComplete ==
    file.state = "whole" =>
        /\ Increasing(file.msgs)
        /\ Range(file.msgs) \subseteq stored
        /\ \A m \in file.base : m \in Range(file.msgs) \/ PushedOut(m)

-----------------------------------------------------------------------------
(* What comments say of the file *)

\* "Persisted message file (JSON). Survives server restarts." (config.py:49):
\* a message that a completed save put into the file is in memory after a
\* restart, unless newer messages have pushed it out.
SurvivesRestart ==
    up => \A m \in durable : m \in InMemory \/ PushedOut(m)

\* The same comment: the process can be started again (store.py:276-277 means
\* to go on with an empty store when the file cannot be loaded).
StartsAgain == ~refused

\* "flush() on shutdown persists the tail." (store.py:119-120): when the
\* process has ended after flush(), the file holds every stored message.
FlushPersistsTail ==
    [][Exit => \A m \in InMemory : m \in Range(file.msgs)]_vars

\* "Save at most once per PERSIST_INTERVAL" (store.py:119): between two writes
\* of the file by add() lie PERSIST_INTERVAL seconds.
OncePerInterval ==
    [][\A t \in Threads : OpenFile(t) => clock - lastOpen >= PERSIST_INTERVAL]_vars

\* "Global monotonically increasing sequence." (store.py:43): no number is
\* ever given to two messages.
NumbersUnique == \A m, n \in stored : m.seq = n.seq => m = n
=============================================================================
