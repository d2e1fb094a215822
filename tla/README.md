# A TLA+ model of the megaphone monitor

The program collects the "megaphone" messages of the game Mafia42 from several
channels, recognises retransmits and messages that were sent to all channels,
keeps them in memory and in a JSON file, and shows them live on a web page. It
has two modes. In the *direct* mode (`megaphone_server.py`) it captures a token
from the running game and opens a connection of its own to each channel server;
in the *passive* mode (`cdp_megaphone_monitor.py`) it reads along on the
debugging ports of one or more game instances.

This directory holds a model of it: modules for its parts, TLC configurations
that check them on small instances, and proofs, checked by TLAPS, of what
matters most about ten of its parts. Paths of source files are relative to the
repository; `js` is `megaphone/web/megaphone-monitor.js`.

To check a module run `tlc -config X.cfg M` here, and `tlapm M_proofs` for the
proofs. The community modules (`Functions`, `SequencesExt`, `FiniteSetsExt`) and
the modules of TLAPS have to be in the library path.

## 1. Inventory

### Parts, their state, their operations

| part | source | state | operations |
|---|---|---|---|
| message store | `megaphone/store.py` | deques per channel, `_seq`, `_dedup`, `_seen_ids`, SSE queues, one lock | `add`, `_prune`, `_notify`, `add_queue`, `remove_queue`, `get_recent`, `get_all_messages` |
| message file | `megaphone/store.py` | `megaphone_messages.json`, `_last_save` | `_save_persisted`, `_load_persisted`, `flush`, the throttle of `add` |
| status and population boards | `megaphone/store.py`, `population.py` | `channel_status`, `channel_population` | `set_status`, `set_populations`, snapshots, the poller |
| channel connection | `megaphone/channel.py`, `protocol.py` | socket, `running`, `connected_at`, back-off | `run`, `_connect_and_listen`, `recv_until`, `_listen`, heartbeats |
| passive CDP monitor | `megaphone/multi_cdp.py`, `cdp_megaphone_monitor.py` | clients, `_running`, `_connected`, `_current_channel` | `start`, `stop`, `_monitor_loop`, `_read_frames` |
| CDP capture | `megaphone/cdp.py` | token, channel list, API address, pending bodies | `extract_token_and_channels_cdp` |
| start-up and shutdown | `megaphone/app.py`, `tokens.py`, `config.py` | selection, tokens, connections, `megaphone_config.json` | `main`, `load_config`, `save_config`, `decide_selected_channels`, `resolve_channel_tokens`, the signal handler |
| web server | `megaphone/webserver.py` | one thread and one queue per SSE stream | `_serve_sse`, `/api/messages`, `/api/channels`, exports |
| page | `js` | messages, index by number, tabs, statuses, filters, simulation | `onmessage`, the two fetches, `addMessage`, `_markGlobal`, `addTab`, `clearMessages`, the simulation |

### How they interact

- Every channel connection, or every CDP client, is a thread of its own that
  calls `store.add` and `store.set_status`. The poller is one more thread, which
  calls `set_populations`. The store has one lock. It holds the lock while it
  looks at its tables and changes them, and not while it reads the clock, dumps
  JSON, puts into queues or writes the file.
- Every SSE stream is a thread of the web server with a queue that it registers
  with the store. Every other request is a thread too. They meet the writers only
  in the store.
- The page opens a stream and fetches `/api/messages` and `/api/channels`, all of it
  twice: requests in threads of their own, whose results it handles in any order,
  one callback at a time.
- The clients of the passive mode each keep one game's current channel, and meet in
  the store: several games hear one global megaphone, each in its own channel.
- The capture thread of the direct mode shares three variables with `main`, which
  waits for it for a limited time and then goes on without it.
- The game, its server and the browser are outside the repository. They are
  modelled by what the code expects of them and by what may go wrong.

### What is hard, and what makes each part correct

- *Store.* Threads that read the clock, wait for the lock and act on the old
  reading; two notifications of one message from two threads; subscribers that
  come and go between two puts. Correct: a retransmit is recognised for its
  window, but for the time a call waited for the lock, a message is promoted exactly for
  a second channel within the window, deques hold the newest messages, every
  subscriber hears of every message once.
- *File.* It is written without the lock, by several threads at once, with a
  truncation before the write; the process may be killed anywhere. Correct: what
  is loaded keeps numbers in order and unique, a whole file is complete.
- *Boards and page.* Snapshots, events, reconnects and responses are unordered.
  Correct: when nothing is on its way, the page shows what the store says; a
  message is shown once, with its scope, also when the server restarts under it.
- *Test mode of the page.* Timers that outlive the click that should end them, and
  a speed that is a select and an attribute. Correct: no interval that a stop does not
  clear, and every mark on the message it was meant for. The first holds only of a
  simulation that is left alone while it connects its channels.
- *Connections.* The server may refuse, deny, be silent, answer late, interpose
  other packets and drop the socket, and a shutdown may come at any point.
  Correct: the board tells the truth, a denial is final, a lost session is
  noticed and re-established, threads end.
- *Passive monitor.* The channel of a message is inferred from an earlier event, and
  the socket that brings the events may time out, break and be opened again.
  Correct: a message is stored under the channel it was sent on, once for all the
  games that heard it, and is "global" when two channels heard it.
- *Capture and start.* Events in any order, a timeout that is not the one meant,
  a thread that outlives the wait for it, files that were cut, lists with entries that
  nobody has looked at, a write that is killed half way, signals. Correct: one whole switch is
  enough, `main` reaches one of its ends, only what was selected is connected, and
  the next run finds what this one has captured.

The full list of what is hard to test, with its lines and the properties aimed at
each, is in `PROJECT.json` under `hazards`.

## 2. Modules

| module | what it models | composed with |
|---|---|---|
| `MessageStore` | the in-memory store and its notifications (`store.py:35-127, 168-179, 216-232`) | |
| `MegaphoneFeed` | abstract: what the store promises a subscriber | |
| `StoreFeed` | the store implements the feed | `MessageStore`, `MegaphoneFeed` |
| `PersistentStore` | the file: throttle, save, flush, load, crash and restart | |
| `MonitorPage` | SSE handlers, `/api/messages`, the page's streams and buffers, restarts of the server under an open page | extends `MessageStore` |
| `Simulation` | the test mode of the page: its timers, its interval, its marks | extends `MonitorPage` |
| `StatusBoard` | the two boards, the poller, `/api/channels`, tabs and what the page shows of them | |
| `ChannelConnection` | one thread per channel against a game server | `StatusLifecycle` |
| `StatusLifecycle` | abstract: what the rest may believe of a channel's status | |
| `ListenLoop` | the heartbeat and the replies of the listen loop, with time | |
| `Settings` | configuration file, tokens.json, command line, port: what `main` reads | |
| `AppMain` | `main()` of the direct mode, the capture thread, `save_config`, the signals | extends `Settings` |
| `CdpCapture` | the capture of token, channel list and address | |
| `MultiCDP` | one client per debugging port: events, channels of messages | |
| `PassiveMonitor` | the main program of the passive mode, its clients and the store they share | extends `MultiCDP`, instance of `MessageStore` |
| `X_proofs` | theorems of module `X`: `MessageStore` (with `StoreFeed`), `PersistentStore`, `ChannelConnection` (with `ListenLoop`), `AppMain`, `CdpCapture`, `StatusBoard`, `PassiveMonitor`, `Simulation` (with `MonitorPage`) | extends `X` |
| `MC...` | constants and symmetry sets for TLC | |

`MessageStore` is under four modules: the feed and the page extend it, the
passive monitor has an instance of it, and the test mode uses it through the page. A thread is a
value of `pc`, which names the place in the code where another thread may step in; everything a thread does between two such places is
one action. A history variable (marked so at its declaration) never occurs in a
guard of the program's actions. A definition called `X_Something` with a comment
"Mutant:" is the definition `X` with a plausible mistake in it. It is used by no
specification: putting it in the place of `X` must make a property fail, which is
how we test that the property says something about the code.

### How the modules correspond to the code

**MessageStore.** `CallAdd` is the entry of `add` up to the reading of the clock:
the lock comes later, and `Tick` may happen in between. The locked section is one
of four actions: `AddRetransmit` (the id is known, line 75), `AddPromote` (another
channel has delivered the text, lines 83-101), `AddRepeat` (a third channel after
the promotion), `AddNew` (lines 102-114). Each prunes with the thread's own, possibly
old, `now`. After it come `Dump` (JSON of the message object *as it is then*),
`Snapshot` (the copy of the list of queues, under the lock), one `Put` per queue in
the order the thread happens to reach them, and `Save`. A stored message is an
entry of `heap`, and deques and dedup records point to it, because the code
mutates the dict that all of them share. A queue keeps everything ever put into
it; how far the reader is, is a number of the reader (`taken` in `MonitorPage`).

**PersistentStore.** A saving thread copies one deque after the other without the
lock (`CopyChannel`), truncates the file (`OpenFile`), and writes it, perhaps in
pieces (`WriteSome`, `WriteFile`). Two writers have two offsets, so that the
shorter text may leave the tail of the longer one (`WriteMixed`). `Crash` keeps the
file as it is, `Restart` loads it, and `RestartRaises` is the load that raises
something nobody catches. `CopyRaises` is the dictionary that grows under the iteration.

**MonitorPage.** `Register` and `HandlerEnds` are the two ends of `_serve_sse`;
`FetchRecent` and `FetchDump` are the two halves of `/api/messages` (collected
under the lock, dumped after it); `OnMessage`, `FetchArrives`, `ClearMessages` and
`Break` are the callbacks. `index.html` makes the element call `_connectServer`
twice (`attributeChangedCallback`, then `connectedCallback`), so that one run has two
streams and two fetches. `Restart` ends the server with an open page: streams break,
responses are lost, queues are gone, and the new server starts with the first
`k` messages, with a promotion or without it (the file may be older than the
memory was). Every message and every response has a `life`, the run of the server it
comes from. `Sorted` is the sort of `get_recent`, `Adding` the loop over a response, as a
recursive function of the number of messages it has been through.

**Simulation.** A started chain of `connectNext` is an entry of `sim.connecting`,
an interval that is alive is in `sim.timers`, a timeout that will mark a message
is in `sim.marks`. They fire when they want to. `Toggle` is the button, `SelectSpeed`
the select, which replaces an interval that is there, `SpeedAttribute` the attribute,
which sets one also while the channels are still being connected. `Detach` and
`Attach` are the two ends of the element's life in the document. The history
variables count the stops (`early`) and the attribute changes (`raced`) that came
while channels were being connected: each may leave one interval behind. `mode` tells
the two pages apart, which share the element and its buffers.

**StatusBoard.** A status or a population is the number of its changes: only newer
and older matter. Setting and telling are two steps, the two snapshots of
`/api/channels` are two more, and the page's handlers are one each. A run of the
poller is `SetPopulations`, of any part of the list, without the excluded channels.
The page has two streams and two fetches (`Streams`). `Connected` is any set of
channels: a list that came late (app.py:131) and a game of the passive mode
(multi_cdp.py:158) give a status to an excluded channel too. `watched` is a history
variable, the streams that have been open since a fetch took its snapshot, and so is
`fell`, the items that were set back.

**ChannelConnection.** The places of a thread are those where it waits: the
dialling, the two `recv_until` (which read frame by frame, and time out), the
listen loop, the sleep. The server's answers (`Accept`, `SendInitData`) and what
it may do wrong (`Deny`, `StaySilent`, `Interpose`, `Drop`) are actions of their own.
`Accept` closes the connection that had the token's session before, as
README.md:160 of the repository says. `Deny` may also come after `AUTH_OK`: the second
`recv_until` returns it and its caller drops it. The connection keeps the status
it has and waits for more, which is why `ConnectedHasSession` asks for the session or for a denial in that phase (`HasSession`).

**ListenLoop.** The same loop with time, which passes only while `recv` waits.

**Settings and AppMain.** A file is a record of its state (absent, whole, garbled,
cut inside a character, of another type, with a token that is no text) and of the
settings `main` uses. A run starts with any file that an earlier one or the user may
have left. An entry of a channel list is its id, or `Text` if it has none that is an
integer, which `Normalize` raises for (app.py:183-185); `hostless` are the channels
that are listed without a host, which `PrintChannels` and `Connect` raise for.
`EntryRaises` is what every later loop does with such an entry of a late list, and
a late list whose ids are texts is `{Text}`: no text is in a set of integers. One action
per statement of `main` that reads or writes what the capture thread shares with it, or the
disk: `SaveList` is the `open("w")` that truncates, `WritePart` and `Write` are what follows, and a
signal may come between them. The capture thread assigns the token and the list
separately, at any time, also after `main` has stopped waiting; a list may lack its
address, which only the start of the poller looks at.

**CdpCapture.** One action per branch of the event loop. The game's switch has
three parts in an order that only requires the question before the answer. Time
passes (`Tick`) whenever the socket is empty, so that `TimesOut` may come before the
answer to a body request (`owed`); that counts as a body that was lost (`failed`).

**MultiCDP and PassiveMonitor.** The debugging port reports what happens after
`Network.enable`, in order. `synced` is a history variable: has this debugging socket told of a channel?
A `Megaphone` may also come over the socket of the channel the game has left (`left`):
such a frame is late, and the code files it under the new channel. A time-out and the
closing of the socket are two steps (`TimedOut`, `CloseSocket`): what the game does in
between is reported to a socket that nobody reads again.
`MultiCDP` has the thread of a client and the games; `PassiveMonitor` adds the main
program (`Probe`, `from_port_range`, `remove_client`, `Start`, `Interrupt`) and the store:
`ReadAndAdd` is a frame that a thread reads and takes to `store.add`, whose
steps (`Add`) interleave with those of the other games' threads.

## 3. Runs

`INVARIANT`s and `PROPERTY`s of each run are in its `.cfg`; what each of them says
is in the comment above its definition.

| run | configuration | instance | states | what it shows |
|---|---|---|---|---|
| store_dedup | `MessageStoreDedup.cfg` | 2 threads, 3 channels, 1 text, 2 ids, 4 calls, clock 0..3 | 2 371 000 | old clock readings, three kinds of repeats and pruning in every order keep deques and records right, and both windows but for the time a call waited |
| store_feed | `StoreFeed.cfg` | 2 threads, 2 channels, 2 texts, 2 subscribers, 2 calls | 186 000 | the store implements `MegaphoneFeed`; nobody hears twice or is missed; everything arrives |
| persistent_store | `PersistentStore.cfg` | 2 savers and `flush`, 3 messages, failing disk, one end of the process | 2 632 000 | what memory and a whole file always hold |
| page_two_streams | `MonitorPage.cfg` | server mode: 2 streams, 2 fetches, 2 messages; test mode: 4 clicks or attribute changes, 5 messages | 2 018 000 | what the page shows when nothing is on its way; that the simulation leaves no interval behind without a reason and marks its own messages |
| page_full_buffer | `MonitorPageFull.cfg` | 1 stream, buffers of 1, 3 calls, 1 restart of the server, fairness | 1 037 000 | index, lists and scopes while messages are shifted out and numbers given again; what is shown in the end |
| status_board | `StatusBoard.cfg` | 2 streams, 2 fetches; a listed channel, an excluded and connected one, an excluded and listed one; 2 changes, 1 break | 5 432 000 | the page's boards are current, tabs exist, an excluded channel has one only by a connection |
| listen_loop | `ListenLoop.cfg` | half seconds, interval 6, timeout 2 | 342 | the heartbeat is in time |
| conn_own_tokens | `ChannelConnection.cfg` | 2 channels, own tokens, 2 faults | 63 000 | the status is true, sessions are exclusive, the life cycle holds, connections come back, threads end |
| app_main | `AppMain.cfg` | 3 channels, one of them excluded, one the core channel; every file of four lists and one selection, one channel without a host or none | 4 074 000 | every combination of arguments, files and captures, with a disk that fails |
| passive_monitor | `PassiveMonitor.cfg` | 2 games at 3 ports, 2 moves, 1 megaphone, 1 fault | 895 000 | messages get their channel and are stored once, moves are followed, threads end |
| cdp_capture | `CdpCapture.cfg` | timeout 2, 2 requests, 2 events in the socket | 497 000 | one whole switch is enough; silence ends the wait |
| ctrl_c_exits | `CtrlCExits.cfg` | 2 channels | | *violated*: see section 7 |

### Why these bounds are enough

- *Threads, queues, streams, connections:* two. Every hazard of the list is
  between two of them, or between one and its environment. `store_dedup` has three
  channels because a third is needed for a repeat after the promotion, and one text
  because texts do not interact.
- *Calls of `add`:* four with the clock: new, promotion, repeat after the
  window, retransmit. Two with subscribers, as many as have something to tell at
  once in two threads: two messages, or one and its promotion. A third call would
  bring a message beside a message and its promotion, which is more than TLC checks in
  some minutes with the liveness property; the safety properties and the refinement of
  that run are proved for any number (section 5).
- *Clock:* `MSG_ID_TTL = 3`, `GLOBAL_DEDUP_WINDOW = 2` and a clock up to 3 keep
  their order (300 s and 8 s in `config.py`), let an entry expire, and let a thread hold a reading
  from before the expiry. In the other runs the clock stands still because nothing
  they ask depends on it.
- *Capacities:* deques and buffers of one or two overflow within three messages.
- *Faults:* two in `conn_own_tokens` (one may hide the other), one elsewhere. One
  restart is enough for two lives of a number.
- *Files:* the lists of `app_main` are those that differ in what `main` asks of them: the
  core channel alone, only the excluded one, all three, and one with an entry that has no
  integer as its id. One selection, with an excluded channel in it. The channel that is
  neither may be listed without a host.
- *Boards:* each channel differs from the others in whether it is connected, listed and
  excluded. Two changes are what it takes for a response, or the slower stream, to bring
  an older value than the page has.
- *Passive monitor:* with two moves and one megaphone a game has left a channel when a late
  frame comes over its socket. With one fault either a socket breaks or a game quits.
- *Test mode:* every second message is a global one instead of every fifteenth, so
  that the third and the fifth of five messages have marks that may be due at once. Four
  clicks are two starts and two stops, or a start, a stop and two changes of the attribute.
- In `passive_monitor` the clock of the store stands still, as the copies of one megaphone
  come within a window; what the windows do is in `store_dedup`.
  Two games do not show every case of `ScopeIsTrue`: a third copy after a second message
  takes three. The theorem of section 5 is for any number.
- *Symmetry* is used for threads, queues, ids and the like in the runs without
  liveness properties, and never for those with one.
- Liveness in `passive_monitor` and `conn_own_tokens` speaks of games and servers whose
  moves and faults come to an end, which the bounds `MaxMoves` and `MaxFaults` say.
- In `ListenLoop` the interval is three times the timeout; the theorems hold for
  every interval and timeout.

## 4. Fairness

Nothing is assumed of users, games and servers except where it is said here.

- *Store:* a thread inside `add` goes on (`WF(Continue(t))`): `add` blocks only for
  the lock, which is held for finite computations, and puts into unbounded queues.
  Nothing makes a message arrive or a browser connect.
- *Page* (`FairPage`): the same, and the browser opens a closed stream again
  while the model has a queue left, and delivers events that have arrived. A
  fetch need not ever be answered, and the server need not restart.
- *Connections:* a thread that can go on does, since every wait of the code has a
  timeout; the server answers what it has not decided to leave unanswered
  (`WF(Accept \/ SendInitData)`). `EventuallyConnected` says that the channel
  settles once the bounded faults are over.
- *Passive monitor:* `main` goes on (`WF(Main)`) and so does every client thread, inside
  `store.add` or outside it (`WF(Thread(p))`): `recv` has a timeout, and the sleeps end.
- *Start:* `main` goes on; nothing is assumed of the capture thread.
- *Capture:* the thread reads what has come, the browser answers `getResponseBody`,
  and time passes while the socket is empty.

All of it is weak fairness of the steps a thread takes by itself. No property needs
strong fairness.

## 5. Proofs

TLAPS checks the theorems for every value of the constants that satisfies the
`ASSUME`s of the modules: windows, capacities, limits and tries are natural
numbers, not zero where a zero makes no sense, `RECONNECT_MIN <= RECONNECT_MAX`.

**MessageStore_proofs.** The type invariant is not inductive: a thread that leaves
the locked section uses locals that must be valid by then, and a dedup record must
point to a stored message. `TypeInv` adds both (`LocalsOK`). On top of it:

- `TypeCorrect`: `TypeOK`.
- `SeqCorrect`: numbers increase over all channels, and the counter is not behind.
  It is inductive together with `TypeInv`.
- `DedupCorrect`: record and message agree. Its invariant (`DedupInv`) is proved
  record by record, since a promotion changes the message of one record and must
  leave all others alone: two records never share a message, as they differ in text.
- `RetransmitCorrect`, `GlobalCorrect`: the entry of a key expires one window after the
  *latest* reading of the clock that any call made for it, less at most the time the last
  caller had waited for the lock; and it is missing only when the *clock* has passed that
  point. The history keeps the two apart: a late caller sets the code's expiry back, but
  not the latest reading (`Noted`), so that what it takes from the window is seen. The
  argument: a reading is never later than the clock when the lock is got (`LocalsOK`), so
  that the expiry is behind by no more than that difference, and what a thread prunes with
  its own `now` has expired for everybody, although the readings are not in the order of
  the lock sections. The full windows of config.py:40 and 43 are not kept (`FullWindows`,
  section 7).
- `PromotionCorrect`: a stored message changes only by a promotion that a call
  from another channel has earned within the window. It needs one more fact,
  `FreshExpiry`: the record of a message that is not global expires one window
  after the message was stored.
- `DequesCorrect`: deques hold the newest messages of their channel. Needs `SeqExact`:
  message number `i` is entry `i` of the heap, so that "newest" is a comparison of
  positions.
- `AnnouncedCorrect`, `NobodyMissed`: `TellInv` says that at any time one thread at
  most is to announce a message, and one to tell of its promotion, and that what it
  has already put is not among its `targets` any more; `Coverage` that a registered
  queue has the event, or is among the targets of a thread that has not yet put it,
  or that thread has not taken its snapshot yet.
- `FeedCorrect`: the refinement. `Init` maps to the `Init` of `MegaphoneFeed`; storing
  is `Publish`, a promotion is `Promote`, a put is `Hear` or `Tell`, a queue that comes
  or goes is `Subscribe` or `Unsubscribe`, and every other step is a stutter. That a
  put is a step of the feed, which lets a subscriber hear of a message once, is
  `TellInv` again.

**PersistentStore_proofs.** A message is known by its birth, as numbers are given
again after a crash. `NumbersAhead` is not inductive: what a thread is about to
write decides what the next process loads. The invariant says of all that a process
holds, in its deques *and* in the copies being saved, that number and birth order it
alike (`HeldInv`), of every list in the file that it is in order (`FileOK`), and of a
copy (`CopyOK`) that a message it has not got was pushed out or is in a deque that
the loop will still come to. The argument for the last: a full deque loses its oldest
message, and then all that it holds is newer and was stored, which is what
`PushedOut` counts (`PushedCorrect`). It gives `NumbersCorrect`, and `CompleteCorrect`
for `MAX_PERSISTED = 0`, the default (config.py:53); with a limit the file is of
course not complete. Sorting and loading are definitions by `CHOOSE` and
comprehension (`Ordered`, `InOrder`, `FirstKeys`, `OfChannel`); that a finite set of
integers can be listed in order is proved by counting (`OrderedExists`), not by
induction.

**ChannelConnection_proofs.** `IInv` adds to `TypeOK` what `pc` tells of the
status at *every* place of a thread (`Told`); `StatusTruth` alone does not say
what the status is when the loop starts again. It gives `StatusCorrect`,
`DeniedCorrect` and `LifecycleCorrect`: `ImplementsLifecycle` is proved step by step, every
action being a step of `StatusLifecycle` or a stutter. `BackoffCorrect` needs
types only. `SessionCorrect` has an invariant of its own, which also speaks of
the answers that are still in the socket and of the place where they are read:
a thread that has an `AUTH_OK` on its way over an open socket holds the session.
A thread that was denied after it had been accepted is the one exception, which
the property names; nothing is assumed of the server.

The theorems of the listen loop are at the end of the same module. `HeartbeatInTime` is not inductive: one has to know how
old the heartbeat was when `recv` was called. `NotOverdue` says
`age <= HEARTBEAT_INTERVAL + waited` at every moment. It gives `HeartbeatCorrect`.
`AnswersCorrect` (requests are answered before the next frame is read) is inductive
with the types; no run needs to check it.

**AppMain_proofs.** `IInv` has a part for each thing that the capture thread and
`main` share: what the thread may have assigned by then (`CaptureInv`), that it
assigns no other token once `main` has one to go on with (`TokenInv`), that the
file holds what `main` has in its settings from the moment it has been written
(`FileInv`), what the selection and the tokens of the command line leave
(`ChoiceInv`), and, as long as no list came late, at which statement the list, the
tokens and the connections stand for the same channels (`ListInv`).
`NextRunKnows` holds however late the capture is, so that `ListInv` must be the only
part under `~late`. `CrashInv` lists what may have raised (`Causes`): a
bad token, a bad entry, which was saved before it was looked at, a list that is empty
after the exclusion and a missing host, or a late list. That there is nothing else takes
the rest: after `Normalize` a list that is not late has integers only, and no filter
leaves a channel without a token in it.

**CdpCapture_proofs.** `ListHasAddress` speaks of the moment the list is there. Its invariant
(`AskedFirst`) says of every answer that is still in the socket that its question stands
before it or has been read; `SocketInv` bounds what is asked for, by counting the
answers that have not been read. The exception is in the property: a question asked
before the thread listened (`missed`). It is why `AppMain` lets a list lack its address.
That recv may give up on a request changes nothing here: the thread has ended then.

**StatusBoard_proofs.** `ShownIsCurrent` speaks of quiet moments and is far from
inductive. `BoundInv`: nothing that is on its way is newer than the boards.
`QueueInv`: the last event about an item in a page's queue is its present value,
unless a thread has still to tell of it. `CurrentInv`: an item for which
there is no such event is shown as it is, or is still in the response, or was set back
(`fell`), on a page with a stream that has been open since the snapshot (`watched`). When
the queues are empty and the responses have come, they give the property. `TabInv` is
the same for tabs, which nothing takes away, so that it needs no exception. That an
excluded channel gets a tab only by a connection rests on `BoundInv`: no list brings a
population of one on the boards, and whatever is shown comes from the boards. Nothing is
assumed of which channels are connected.

**PassiveMonitor_proofs.** A frame's channel is decided by the events that the
socket had to tell before it, so the invariant follows the backlog:
`Right(ev, cur, syn, k, c)` says that after the first `k - 1` events the client
will take the channel to be `c`, unless it cannot know. `BacklogInv` says so of
every frame that waits in a socket, with the channel the game was in when it
came, and of the next one. No client runs before `start()` (`MainInv`), one that is
not reading has no backlog (`SocketInv`), and the channel of a synchronised one is
"connected" on the board (`BoardInv`). `FramesCorrect` follows, for frames that are not
late. `FollowedCorrect` shows `MoveIsFollowed`: after its backlog a client that reads is
in the channel of its game. It is `Right` for the place after the last event. A client between a time-out and the closing of its socket has
events that it will not read, and the next socket has reported nothing yet, which is why
the property speaks of a client that reads and a socket that has told of a move.
The second half of the module is about the store that the clients share.
`PassiveMonitor` has an instance of `MessageStore`, and the proofs one of
`MessageStore_proofs`, so that the types and the dedup records need no second proof.
`MemInv` adds what each table says of the copies that have come: every copy is in
the table of ids, or a thread is about to look for it (`ArrivedInv`); the channels of
a record are those of copies (`RecordInv`), and of all of them as long as there is one
message (`SeenInv`); a second message, and a global one, have their two copies
(`HeapInv`). `FrameInv` says that the frames of a megaphone are alike. They give
`MegaphoneCorrect`, whose argument is that a copy is stored a second time only if its
channel is in the record and its id is not in the table, which takes two channels
with one number; and `ScopeCorrect`.

**Simulation_proofs.** `IInv` accounts for every interval (`HandInv`): those that are
alive and those that a chain of timeouts will still set are, together, no more than one
for a simulation that runs and one for each stop and each attribute change that came
while channels were being connected. It says of each planned mark
that it will find a message it was meant for, or none, or two runs of the
simulation have crossed (`MarkInv`), which also bounds the numbers that the page's
buffers hold in test mode (`TestPage`). The rest of the module is about `MonitorPage`, which
extends the store, so that what `MessageStore_proofs` shows of the store holds under the
page; a restart needs a proof of its own that it leaves a store for which all of that
holds (`RestartStore`). `MonitorInv` adds three parts. `PageInv`: the index and the list match, and
what the page says of a message of the server's present life is so in the store.
`FetchInv`: the same of a response on its way; the newest messages of the store at its
collection are in it, or on the page once it has been handled. `StreamInv`: each event an
open stream has brought is on the page, or was dropped, or was an update of nothing.
The five properties follow: `IndexCorrect`, `ScopeCorrect`, `RecentNewest`, `SeesAllCorrect`
and `OverlapCorrect`, and `ShowsUntilRestart`, which says that the violation of
`ShowsWhatIsStored` (section 7) takes a restart.
What they rest on are three lemmas about the operators. `AddKeeps`: one message added
to a page keeps the match, and all that was there is still there or counted as dropped.
`MergeKeeps`: so does a whole response; the loop is a function on `0..Len(body)`, and
induction over its argument needs no operator, only a set of numbers that has 0 and
successors (`SetInduction`). `RecentCorrect`: the sort exists, is the increasing list, and its
last messages are the newest of the store; a deque that dropped a message is full
of newer ones, so this assumes `Limit <= MAX_MESSAGES_PER_CHANNEL` (100 in
webserver.py:54, 200 in config.py:47).
`OverlapCorrect` makes the same assumption. Without it the newest of one channel are not among
what the deques hold.

*Only model-checked:*

- The liveness properties: no tool used here proves them. What is safe in
  `EveryMessageReaches` is `FeedCorrect` and `NobodyMissed`.
- The violations of section 7.

Every invariant that a run checks is proved, and so are the action properties and
both refinements. The inductive invariants of the store, the file, the boards, the start, the
capture, the page and the passive monitor's store were checked with TLC, on the instances of
section 3 or similar ones, before they were proved. Two attempts changed a property.
`ScopeIsTrue` used to speak of every message of a text, which the instance with two games
satisfies and one with three does not (see the end of section 7). `CompleteAfterOverlap`
used to speak of any response: one that was collected before a restart says nothing of the
numbers that the new server gives, as an instance with the stream and a restart shows, so
that it now asks for a response from the same life.

## 6. Not modelled

- Bytes: the packet layout, JSON, XML of the channel list, CSV and HTML. Pure
  conversion without state, which the tests cover well. What matters of it
  (a frame has a type or not, a file can be parsed or not) is a choice in the models.
- The highlighting, paging, exports and styles of the page; `get_all_messages`, the
  CSV and JSON exports and static files of the web server: they only read.
- The configuration values that `apply_config_defaults` merges and no module reads
  (`heartbeat_interval`, `reconnect_min`, `capture_timeout`, `persist_file`).
- The HTTP request of the poller: its result is an input.
- A `channels` setting in the configuration that is no list of objects, with which `main`
  ends as with a bad entry.
- The removal of the page's element from the document in server mode, which closes one of
  its two streams and leaves the other; a change of its `channels` or `mode` attribute
  while it runs.
- `get_status` of the passive monitor and the printed status lines.
- What the game server does beyond the answers the code waits for.
- Container, workflows and launch scripts.

## 7. Statements of comments, documents and tests that do not hold

While translating, we met statements that the code does not satisfy. Each is a
definition in the module and has a configuration with which TLC shows a
counterexample, in seconds. `CtrlCExits` is also among the runs of section 3.

| statement | where it is made | module, configuration | what happens |
|---|---|---|---|
| `CtrlCExits` | app.py:254 "Press Ctrl+C to exit" | `AppMain`, `CtrlCExits.cfg` | the signal handler replaces Python's own and returns; the main loop goes on for ever |
| `SubscriberSeesScope` | store.py:33 "Thread-safe store" | `MCMessageStore`, `LostPromotion.cfg` | the update of a promotion is put before the announcement, whose text was dumped before the promotion; the page drops the update |
| `TwoChannelsAreGlobal` | tests/test_store.py:9 | `MCMessageStore`, `DedupStatements.cfg` | a repeat on a channel of the record replaces the record; the first message is never promoted |
| `FullWindows` | config.py:40, 43 | `MCMessageStore`, `DedupStatements.cfg` without the other statement | a call that waited for the lock sets the expiry back with its old reading of the clock, and the entry ends before a window has passed since the latest sighting |
| `SurvivesRestart` | config.py:49 | `MCPersistentStore`, `SurvivesRestart.cfg` | killed between truncation and write |
| `StartsAgain` | config.py:49 | `MCPersistentStore`, `StartsAgain.cfg` | a file cut inside a character raises `UnicodeDecodeError`, which is not caught |
| `FlushPersistsTail` | store.py:119 | `MCPersistentStore`, `FlushPersistsTail.cfg` | a message stored while `flush` copies or writes |
| `OncePerInterval` | store.py:119 | `MCPersistentStore`, `OncePerInterval.cfg` | two threads pass the throttle before either sets it |
| `NumbersUnique` | store.py:43 | `MCPersistentStore`, `NumbersUnique.cfg` | the file lags behind, and a number is given again after a crash |
| `OneEntryPerNumber` | tests/test_dom.py:304 | `MCMonitorPage`, `OneEntryPerNumber.cfg` | a message that the buffer has dropped is still in the list of its channel when a late copy comes |
| `ShowsWhatIsStored` | store.py:43 | `MCMonitorPage`, `ShowsWhatIsStored.cfg` | the server restarts with fewer messages and gives their numbers again; the open page takes the new messages for old ones |
| `StopIsStop` | js:1363-1365 | `MCSimulation`, `StopIsStop.cfg` | a stop while the channels are being connected: the chain of timeouts starts the interval after it |
| `AllTabShowsAll` | tests/test_dom.py:203 | `StatusBoard`, `AllTabShowsAll.cfg` | messages of channels without a tab are hidden as soon as a tab exists |
| `HeartbeatAlways` | channel.py:208 | `ListenLoop`, `HeartbeatAlways.cfg` | frames of less than eight bytes jump over the check |
| `BackoffResets` | channel.py:119 | `MCChannelConnection`, `BackoffResets.cfg` | the reset is on a path that ends the loop |
| `DenialStops` | tests/test_channel.py:215 | `MCChannelConnection`, `DenialStops.cfg` | a denial in the second `recv_until` is returned and dropped |
| `EventuallyConnected` | README.md:91, 160 | `MCChannelConnection`, `SharedToken.cfg` | two channels with the one captured token close each other's session for ever |
| `ExcludedNeverConnected` | tests/test_app.py:133 | `AppMain`, `ExcludedNeverConnected.cfg` | a capture that ends late assigns the unfiltered list |
| `FollowsTheGame` | README.md:84 | `PassiveMonitor`, `FollowsTheGame.cfg` | a move before `Network.enable`, or between a time-out and the closing of the socket, is never reported |
| `GivesUp` | config.py:30 | `CdpCapture`, `GivesUp.cfg` | the timeout is that of one `recv`, and every event starts it again |

Smaller observations, without a model of their own: `config.py:155` merges
settings that `channel.py`, `cdp.py` and `store.py` do not read; the filter button
of the page calls `toggle` on a `Set` (js:1263); the status of a
channel that the game has left stays "connected" (multi_cdp.py:156); a debugging
client that sleeps after an error counts as connected (multi_cdp.py:137); ports are
probed once (cdp_megaphone_monitor.py:69); three games that hear one megaphone, two of
them in channels without a host in the configuration, have it stored twice, the second
time as "server" (store.py:97-113, as for `TwoChannelsAreGlobal`).

## 8. Plan

The order was: store, file, page, connections, boards, listen loop, start,
passive monitor, capture; then the files and settings of the start, the composition
of the passive monitor with the store, the page across a restart, and the test
mode. Of the proofs, the store came first, because every other part
relies on its numbers and records; then the connections, the start, the boards,
the passive monitor, the test mode, the file, and last the page and the capture. What is left
is no invariant without a proof, but:

- `AppMain` with `CdpCapture`, in place of a capture that yields anything.
- `ChannelConnection` with `StatusBoard`.
- An abstract specification of the file (what a reader may find), implemented by
  `PersistentStore`.
