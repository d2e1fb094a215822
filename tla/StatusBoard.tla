----------------------------- MODULE StatusBoard -----------------------------
(***************************************************************************)
(* The two boards of the store, channel_status and channel_population, and *)
(* what a page makes of them: set_status and set_populations of store.py,  *)
(* the poller of population.py, /api/channels of webserver.py, and addTab, *)
(* updateStatus and _updatePopulation of megaphone-monitor.js.             *)
(*                                                                         *)
(* A status, or a number of users, is the number of times it has changed,  *)
(* 0 for "never set": what matters is which of two is newer.  One thread   *)
(* sets the status of a channel (its ChannelConnection; in passive mode a  *)
(* game, and all games set the same one) and one, the poller, all          *)
(* populations; each changes the board under the lock and notifies after   *)
(* it.  The page connects twice, once as its mode is set and once as it is *)
(* put into the document: two streams and two requests, whose events and   *)
(* responses change the same tabs.                                         *)
(***************************************************************************)
EXTENDS Integers, Sequences, FiniteSets, TLC

CONSTANTS
    Connected,          \* channels whose status is set: every one with a
                        \* ChannelConnection, or that a game of passive mode is on
    Listed,             \* channels of channel_ko.php
    EXCLUDED_CHANNELS,
    Channels,           \* these, and channels of persisted messages
    Streams,            \* the EventSources of the page, each with a fetch
    MaxChanges, MaxMessages, MaxBreaks      \* bounds

ASSUME ChannelsAssumption == Connected \cup Listed \subseteq Channels

VARIABLES
    board,              \* channel_status and channel_population
    untold,             \* changed, but _notify has not been called
    stream, queue,      \* the page's EventSources and their queues
    fetch, response,    \* the fetches of /api/channels
    shown, tabs,        \* _channelStatus, _channelPopulation; _channelMap
    messages,           \* channels that messages of the page are from
    changes, stored, breaks,            \* counters for the bounds
    fell,               \* history: items set back, see ShownIsCurrent
    watched             \* history: the streams open since the snapshot of a fetch

writers == <<board, untold, changes>>
net == <<stream, queue, fetch, response, breaks>>
page == <<shown, tabs, messages>>
history == <<fell, watched>>
vars == <<writers, net, page, stored, history>>

Items == [kind : {"status"}, channel : Connected] \cup [kind : {"population"}, channel : Listed]
Zero == [i \in Items |-> 0]
Status(c) == [kind |-> "status", channel |-> c]
Population(c) == [kind |-> "population", channel |-> c]
Populations == {Population(c) : c \in Listed}

Init ==
    /\ board = Zero /\ untold = {}
    /\ stream = [s \in Streams |-> "closed"] /\ queue = [s \in Streams |-> << >>]
    /\ fetch = [f \in Streams |-> "asked"] /\ response = [f \in Streams |-> Zero]
    /\ shown = Zero /\ tabs = {} /\ messages = {}
    /\ changes = 0 /\ stored = 0 /\ breaks = 0
    /\ fell = {} /\ watched = [f \in Streams |-> {}]

-----------------------------------------------------------------------------
(* The store and its writers *)

Change(S) ==
    /\ changes < MaxChanges
    /\ changes' = changes + 1
    /\ board' = [i \in Items |-> IF i \in S THEN board[i] + 1 ELSE board[i]]
    /\ untold' = untold \cup S
    /\ UNCHANGED <<net, page, stored, history>>
\* The first half of set_status; its caller is not back before the second.
SetStatus(c) == Status(c) \notin untold /\ Change({Status(c)})

\* Mutant: the excluded channels are let through.
populations_from_list_All(good) == good
\* `good` are the channels whose entry has an id and a number of users.
populations_from_list(good) == good \ EXCLUDED_CHANNELS
\* run() of the poller, and main before it: the list is fetched and given to
\* set_populations.  Here is its first half; any of the channels may have
\* changed.  A list that cannot be fetched, is none or is empty changes nothing.
SetPopulations ==
    /\ untold \cap Populations = {}
    /\ \E good \in SUBSET Listed :
          \E changed \in SUBSET populations_from_list(good) \ {{}} :
              Change({Population(c) : c \in changed})

\* _notify puts the event into the queues that are registered.
Put(e) == queue' = [s \in Streams |->
                       IF stream[s] = "open" THEN Append(queue[s], e) ELSE queue[s]]

\* Mutant: the page is not told of populations.
Notify_StatusOnly(i) ==
    /\ i \in untold
    /\ untold' = untold \ {i}
    /\ IF i.kind = "status" THEN Put([item |-> i, value |-> board[i]]) ELSE UNCHANGED queue
    /\ UNCHANGED <<board, changes, stream, fetch, response, breaks, page, stored, history>>
\* The second half.  The value is a local: only the same thread changes it.
Notify(i) ==
    /\ i \in untold
    /\ untold' = untold \ {i}
    /\ Put([item |-> i, value |-> board[i]])
    /\ UNCHANGED <<board, changes, stream, fetch, response, breaks, page, stored, history>>

\* add() of a message that a connection has received.
Store(c) ==
    /\ board[Status(c)] > 0 /\ stored < MaxMessages
    /\ stored' = stored + 1
    /\ Put([message |-> c])
    /\ UNCHANGED <<writers, stream, fetch, response, breaks, page, history>>

-----------------------------------------------------------------------------
(* The web server *)

Register(s) ==
    /\ stream[s] = "closed"
    /\ stream' = [stream EXCEPT ![s] = "open"] /\ queue' = [queue EXCEPT ![s] = << >>]
    /\ UNCHANGED <<writers, fetch, response, breaks, page, stored, history>>
\* A stream breaks, with what is in its queue; the browser opens a new one.
Waiting(s) == {i \in Items : \E k \in DOMAIN queue[s] :
                                "item" \in DOMAIN queue[s][k] /\ queue[s][k].item = i}
Break(s) ==
    /\ stream[s] = "open" /\ breaks < MaxBreaks
    /\ breaks' = breaks + 1
    /\ stream' = [stream EXCEPT ![s] = "closed"] /\ queue' = [queue EXCEPT ![s] = << >>]
    /\ fell' = fell \cup Waiting(s)
    /\ watched' = [f \in Streams |-> watched[f] \ {s}]
    /\ UNCHANGED <<writers, fetch, response, page, stored>>

\* /api/channels: get_status_snapshot, then get_population_snapshot.
Snapshot(f, kind) == [i \in Items |-> IF i.kind = kind THEN board[i] ELSE response[f][i]]
StatusSnapshot(f) ==
    /\ fetch[f] = "asked"
    /\ fetch' = [fetch EXCEPT ![f] = "statuses"]
    /\ response' = [response EXCEPT ![f] = Snapshot(f, "status")]
    /\ watched' = [watched EXCEPT ![f] = {s \in Streams : stream[s] = "open"}]
    /\ UNCHANGED <<writers, stream, queue, breaks, page, stored, fell>>
PopulationSnapshot(f) ==
    /\ fetch[f] = "statuses"
    /\ fetch' = [fetch EXCEPT ![f] = "answered"]
    /\ response' = [response EXCEPT ![f] = Snapshot(f, "population")]
    /\ UNCHANGED <<writers, stream, queue, breaks, page, stored, history>>

-----------------------------------------------------------------------------
(* The page *)

\* Mutant: a population does not make a tab.
OnEvent_NoTab(s) ==
    LET e == Head(queue[s]) IN
    /\ queue[s] # << >> /\ "item" \in DOMAIN e
    /\ queue' = [queue EXCEPT ![s] = Tail(@)]
    /\ tabs' = IF e.item.kind = "status" THEN tabs \cup {e.item.channel} ELSE tabs
    /\ shown' = [shown EXCEPT ![e.item] = e.value]
    /\ fell' = fell \ {e.item}
    /\ UNCHANGED <<writers, stream, fetch, response, breaks, messages, stored, watched>>
\* onmessage: a tab if there is none yet, then the value.
OnEvent(s) ==
    LET e == Head(queue[s]) IN
    /\ queue[s] # << >> /\ "item" \in DOMAIN e
    /\ queue' = [queue EXCEPT ![s] = Tail(@)]
    /\ tabs' = tabs \cup {e.item.channel}
    /\ shown' = [shown EXCEPT ![e.item] = e.value]
    /\ fell' = fell \ {e.item}
    /\ UNCHANGED <<writers, stream, fetch, response, breaks, messages, stored, watched>>
OnMessage(s) ==
    LET e == Head(queue[s]) IN
    /\ queue[s] # << >> /\ "message" \in DOMAIN e
    /\ queue' = [queue EXCEPT ![s] = Tail(@)]
    /\ messages' = messages \cup {e.message}
    /\ UNCHANGED <<writers, stream, fetch, response, breaks, shown, tabs, stored, history>>
\* /api/messages brings messages of any channel that was ever heard.
OldMessages ==
    /\ messages = {}
    /\ messages' \in SUBSET Channels
    /\ UNCHANGED <<writers, net, shown, tabs, stored, history>>

\* A response is handled like events, and may be older than they were.
ChannelsArrive(f) ==
    LET given == {i \in Items : response[f][i] > 0} IN
    /\ fetch[f] = "answered"
    /\ fetch' = [fetch EXCEPT ![f] = "over"]
    /\ tabs' = tabs \cup {i.channel : i \in given}
    /\ shown' = [i \in Items |-> IF i \in given THEN response[f][i] ELSE shown[i]]
    /\ fell' = fell \cup {i \in given : response[f][i] < shown[i]}
    /\ UNCHANGED <<writers, stream, queue, response, breaks, messages, stored, watched>>
ChannelsFail(f) ==
    /\ fetch[f] \in {"asked", "statuses", "answered"}
    /\ fetch' = [fetch EXCEPT ![f] = "over"]
    /\ watched' = [watched EXCEPT ![f] = {}]
    /\ UNCHANGED <<writers, stream, queue, response, breaks, page, stored, fell>>

Next ==
    \/ \E c \in Connected : SetStatus(c) \/ Store(c)
    \/ SetPopulations \/ \E i \in Items : Notify(i)
    \/ OldMessages
    \/ \E s \in Streams :
          \/ Register(s) \/ Break(s) \/ StatusSnapshot(s) \/ PopulationSnapshot(s)
          \/ OnEvent(s) \/ OnMessage(s) \/ ChannelsArrive(s) \/ ChannelsFail(s)

Spec == Init /\ [][Next]_vars

\* The streams, and the fetch that goes with each, are alike.
Perms == Permutations(Streams)

-----------------------------------------------------------------------------
(* Properties *)

\* The types of the variables; part of TabForEach.
Events == [item : Items, value : Nat] \cup [message : Connected]
TypeOK ==
    /\ board \in [Items -> Nat] /\ shown \in [Items -> Nat]
    /\ response \in [Streams -> [Items -> Nat]]
    /\ untold \subseteq Items /\ fell \subseteq Items
    /\ stream \in [Streams -> {"closed", "open"}]
    /\ fetch \in [Streams -> {"asked", "statuses", "answered", "over"}]
    /\ watched \in [Streams -> SUBSET Streams]
    /\ tabs \subseteq Channels /\ messages \subseteq Channels
    /\ queue \in [Streams -> Seq(Events)]

Quiet ==
    /\ untold = {}
    /\ \A s \in Streams : stream[s] = "open" /\ queue[s] = << >> /\ fetch[s] = "over"
\* A stream has been open since before the snapshot of a response that arrived.
Overlap == \E f \in Streams : watched[f] # {}

\* What a page shows when nothing is on its way is what the boards say, if one of
\* its streams was registered before one of the snapshots was taken and has not
\* broken since; except for an item that was set back and that no event has
\* corrected since (fell): by a response that was older than what the page had, or
\* by a stream that broke before the newer events in its queue came
\* (store.py:129-161, webserver.py:57-72, megaphone-monitor.js:1045-1087).
ShownIsCurrent ==
    Quiet /\ Overlap => \A i \in Items \ fell : shown[i] = board[i]

\* ... and then every channel that has a status or a population has its tab,
\* stale or not, so that the tab "all", which hides messages of channels without
\* one, shows the messages of every connected channel.  An excluded channel never
\* gets one from a list, by whatever way the list comes: only if a connection to
\* it was made, by main from a list that came late or in passive mode, and has set
\* a status, which is what its tab then shows
\* (megaphone-monitor.js:1244-1270, 1465-1469; population.py:43-44; app.py:192;
\* multi_cdp.py:158).
TabForEach ==
    /\ TypeOK
    /\ \A c \in tabs \cap EXCLUDED_CHANNELS : c \in Connected /\ board[Status(c)] > 0
    /\ Quiet /\ Overlap => \A i \in Items : board[i] > 0 => i.channel \in tabs

-----------------------------------------------------------------------------
(* What a test says *)

\* "'전체' tab shows messages from all channels." (tests/test_dom.py:203): also
\* of channels that are not connected and not listed any more.
Visible == {c \in messages : tabs # {} => c \in tabs}
AllTabShowsAll == Quiet /\ Overlap => Visible = messages
=============================================================================
