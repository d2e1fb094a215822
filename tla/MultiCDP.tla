------------------------------ MODULE MultiCDP ------------------------------
(***************************************************************************)
(* CDPClient of megaphone/multi_cdp.py: a thread that reads the events of  *)
(* the debugging port of one game instance.  What channel a message belongs *)
(* to is not in the message but is what the last webSocketCreated said.    *)
(* Module PassiveMonitor adds the main program and the message store.      *)
(*                                                                         *)
(* The game instances (they start, quit and move between channels) and     *)
(* their debugging ports are external: a port sends, in order, an event    *)
(* for every socket the game opens and every frame it receives, but only   *)
(* of what happens after Network.enable.                                   *)
(***************************************************************************)
EXTENDS Integers, Sequences, FiniteSets

CONSTANTS
    Ports,              \* debugging ports of game instances
    Channels,           \* channels of the game
    Known,              \* those whose host is in megaphone_config.json
    Default,            \* what ws_url_to_channel_id gives for the others: 0
    MaxMoves, MaxFrames, MaxFaults      \* bounds: what the games do

ASSUME ChannelAssumption == Known \subseteq Channels /\ "lobby" \notin Channels
ASSUME BoundsAssumption == MaxMoves \in Nat /\ MaxFrames \in Nat /\ MaxFaults \in Nat

VARIABLES
    pc,                 \* where _monitor_loop of the port's client is
    running, connected, current,        \* fields of CDPClient
    status,             \* store.channel_status
    stored,             \* history: the calls of store.add, and the truth
    events,             \* events the thread has not read
    wire,               \* the CDP socket: "none", "open", "broken"
    synced,             \* has this CDP socket told of a channel socket yet?
    up, where, left,    \* the game: does it run, in which channel, out of which?
    moves, heard, faults                \* counters for the bounds

client == <<pc, running, connected, current>>
board == <<status, stored>>
cdp == <<events, wire, synced>>
game == <<up, where, left, moves, heard, faults>>
clientVars == <<client, board, cdp, game>>

Ids == Known \cup {Default}
PCs == {"none", "connect", "pause", "check", "recv", "errsleep", "closing", "ended"}
\* A megaphone that is not global is sent to the games in one channel.  The
\* copies of a global one have an id in each channel.  A late frame comes over
\* the socket of a channel that the game has left.
Frames == [kind : {"frame"}, channel : Channels, text : 1..MaxFrames, global : BOOLEAN,
           late : BOOLEAN]
Events == [kind : {"created"}, channel : Channels] \cup Frames
          \cup [kind : {"other", "malformed"}]

ws_url_to_channel_id(ch) == IF ch \in Known THEN ch ELSE Default
Goto(p, label) == pc' = [pc EXCEPT ![p] = label]

ClientInit ==
    /\ pc = [p \in Ports |-> "none"]
    /\ running = [p \in Ports |-> FALSE]
    /\ connected = [p \in Ports |-> FALSE]
    /\ current = [p \in Ports |-> Default]
    /\ status = [c \in Ids |-> "none"]
    /\ stored = {}
    /\ events = [p \in Ports |-> << >>]
    /\ wire = [p \in Ports |-> "none"]
    /\ synced = [p \in Ports |-> FALSE]
    /\ up \in [Ports -> BOOLEAN]
    /\ where = [p \in Ports |-> "lobby"] /\ left = [p \in Ports |-> "lobby"]
    /\ moves = 0 /\ heard = 0 /\ faults = 0

-----------------------------------------------------------------------------
(* CDPClient.start and stop, called by the main thread *)

start(ps) ==
    /\ running' = [p \in Ports |-> running[p] \/ p \in ps]
    /\ pc' = [p \in Ports |-> IF p \in ps /\ ~running[p] THEN "connect" ELSE pc[p]]
    /\ UNCHANGED <<connected, current, board, cdp, game>>
stop(ps) ==
    /\ running' = [p \in Ports |-> running[p] /\ p \notin ps]
    /\ UNCHANGED <<pc, connected, current, board, cdp, game>>

-----------------------------------------------------------------------------
(* CDPClient._monitor_loop *)

LoopEnds(p) ==
    /\ pc[p] = "connect" /\ ~running[p]
    /\ Goto(p, "ended")
    /\ UNCHANGED <<running, connected, current, board, cdp, game>>

\* _connect: only what happens from now on is reported, and _current_channel
\* is what it was.
Connect(p) ==
    /\ pc[p] = "connect" /\ running[p] /\ up[p]
    /\ connected' = [connected EXCEPT ![p] = TRUE]
    /\ wire' = [wire EXCEPT ![p] = "open"]
    /\ events' = [events EXCEPT ![p] = << >>]
    /\ synced' = [synced EXCEPT ![p] = FALSE]
    /\ Goto(p, "check")
    /\ UNCHANGED <<running, current, board, game>>
\* Mutant: the attempts go on until one succeeds.
ConnectFails_Retries(p) ==
    /\ pc[p] = "connect" /\ ~up[p]
    /\ connected' = [connected EXCEPT ![p] = FALSE]
    /\ Goto(p, "pause")
    /\ UNCHANGED <<running, current, board, cdp, game>>
ConnectFails(p) ==
    /\ pc[p] = "connect" /\ running[p] /\ ~up[p]
    /\ connected' = [connected EXCEPT ![p] = FALSE]
    /\ Goto(p, "pause")
    /\ UNCHANGED <<running, current, board, cdp, game>>
PauseOver(p) ==
    /\ pc[p] = "pause"
    /\ Goto(p, "connect")
    /\ UNCHANGED <<running, connected, current, board, cdp, game>>

\* The finally block, and the loop again.
Closed(p) ==
    /\ connected' = [connected EXCEPT ![p] = FALSE]
    /\ wire' = [wire EXCEPT ![p] = "none"]
    /\ events' = [events EXCEPT ![p] = << >>]
    /\ Goto(p, "connect")
    /\ UNCHANGED <<running, current, board, synced, game>>

\* No event for 60 seconds.  What comes before the socket is closed is lost.
TimedOut(p) ==
    /\ pc[p] = "recv" /\ wire[p] = "open" /\ events[p] = << >>
    /\ Goto(p, "closing")
    /\ UNCHANGED <<running, connected, current, board, cdp, game>>
\* Mutant: after a time-out the same socket is read again, without its events.
CloseSocket_Skips(p) ==
    /\ pc[p] = "closing"
    /\ events' = [events EXCEPT ![p] = << >>]
    /\ Goto(p, IF wire[p] = "open" THEN "check" ELSE "errsleep")
    /\ UNCHANGED <<running, connected, current, board, wire, synced, game>>
CloseSocket(p) == pc[p] = "closing" /\ Closed(p)

\* The socket is gone: the sleep comes before the finally block, so that the
\* client still counts as connected.
Error(p) ==
    /\ pc[p] = "recv" /\ wire[p] = "broken" /\ events[p] = << >>
    /\ Goto(p, "errsleep")
    /\ UNCHANGED <<running, connected, current, board, cdp, game>>
ErrSleepOver(p) == pc[p] = "errsleep" /\ Closed(p)

-----------------------------------------------------------------------------
(* CDPClient._read_frames *)

\* while self._running, which is read before the blocking recv.
Check(p) ==
    /\ pc[p] = "check" /\ running[p]
    /\ Goto(p, "recv")
    /\ UNCHANGED <<running, connected, current, board, cdp, game>>
ReadEnds(p) ==
    /\ pc[p] = "check" /\ ~running[p]
    /\ Goto(p, "closing")
    /\ UNCHANGED <<running, connected, current, board, cdp, game>>

Reads(p, kind) ==
    /\ pc[p] = "recv" /\ events[p] # << >> /\ Head(events[p]).kind = kind
    /\ events' = [events EXCEPT ![p] = Tail(@)]
    /\ Goto(p, "check")
    /\ UNCHANGED <<running, connected, wire, game>>

\* Mutant: the board is not told of the new channel.
ReadCreated_NotShown(p) ==
    LET id == ws_url_to_channel_id(Head(events[p]).channel) IN
    /\ Reads(p, "created")
    /\ current' = [current EXCEPT ![p] = id]
    /\ synced' = [synced EXCEPT ![p] = TRUE]
    /\ UNCHANGED board
\* Mutant: only the board is told of the new channel.
ReadCreated_NotFollowed(p) ==
    /\ Reads(p, "created")
    /\ status' = [status EXCEPT ![ws_url_to_channel_id(Head(events[p]).channel)] = "connected"]
    /\ synced' = [synced EXCEPT ![p] = TRUE]
    /\ UNCHANGED <<current, stored>>
\* Network.webSocketCreated for a channel server.
ReadCreated(p) ==
    LET id == ws_url_to_channel_id(Head(events[p]).channel) IN
    /\ Reads(p, "created")
    /\ current' = [current EXCEPT ![p] = id]
    /\ status' = [status EXCEPT ![id] = "connected"]
    /\ synced' = [synced EXCEPT ![p] = TRUE]
    /\ UNCHANGED stored

\* Network.webSocketFrameReceived with a megaphone: the call of store.add.  The
\* requestId, which tells the game's sockets apart, is not looked at.
ReadFrame(p) ==
    LET e == Head(events[p]) IN
    /\ Reads(p, "frame")
    /\ stored' = stored \cup {[port |-> p, id |-> current[p],
                               sure |-> synced[p] /\ ~e.late, frame |-> e]}
    /\ UNCHANGED <<current, status, synced>>

\* parse_megaphone_payload gives None, or the frame is short, no base64 or
\* another packet; or it is an event of another kind.
ReadMalformed(p) == Reads(p, "malformed") /\ UNCHANGED <<current, board, synced>>
ReadOther(p) == Reads(p, "other") /\ UNCHANGED <<current, board, synced>>

-----------------------------------------------------------------------------
(* The game instances *)

Reported(p, e) == IF wire[p] = "open" THEN [events EXCEPT ![p] = Append(@, e)] ELSE events

\* The game enters a channel: it opens a socket to the channel's server.  That of
\* the channel it leaves may be closed before or later.
Move(p, c) ==
    /\ up[p] /\ where[p] # c /\ moves < MaxMoves
    /\ moves' = moves + 1
    /\ where' = [where EXCEPT ![p] = c]
    /\ left' = [left EXCEPT ![p] = where[p]]
    /\ events' = Reported(p, [kind |-> "created", channel |-> c])
    /\ UNCHANGED <<client, board, wire, synced, up, heard, faults>>
\* A megaphone, to all games that are in one of the channels, and to those that
\* still have the socket of one.
Then(ev, yes, e) == IF yes THEN Append(ev, e) ELSE ev
Megaphone(to, global, lag) ==
    LET at == {p \in Ports : where[p] \in to}
        frame(c, late) == [kind |-> "frame", channel |-> c, text |-> heard + 1,
                           global |-> global, late |-> late]
    IN
    /\ \A p \in lag : left[p] \in to
    /\ at \cup lag # {} /\ heard < MaxFrames
    /\ heard' = heard + 1
    /\ events' = [p \in Ports |->
          LET old == Then(events[p], p \in lag /\ wire[p] = "open", frame(left[p], TRUE))
          IN  Then(old, p \in at /\ wire[p] = "open", frame(where[p], FALSE))]
    /\ UNCHANGED <<client, board, wire, synced, up, where, left, moves, faults>>
\* Anything else the page does or receives.
Noise(p, kind) ==
    /\ up[p] /\ wire[p] = "open" /\ events[p] = << >> /\ heard < MaxFrames
    /\ heard' = heard + 1
    /\ events' = Reported(p, [kind |-> kind])
    /\ UNCHANGED <<client, board, wire, synced, up, where, left, moves, faults>>
\* The debugging connection breaks while the game runs on.
Break(p) ==
    /\ wire[p] = "open" /\ faults < MaxFaults
    /\ faults' = faults + 1
    /\ wire' = [wire EXCEPT ![p] = "broken"]
    /\ UNCHANGED <<client, board, events, synced, up, where, left, moves, heard>>
Quit(p) ==
    /\ up[p] /\ faults < MaxFaults
    /\ faults' = faults + 1
    /\ up' = [up EXCEPT ![p] = FALSE]
    /\ where' = [where EXCEPT ![p] = "lobby"] /\ left' = [left EXCEPT ![p] = "lobby"]
    /\ wire' = [wire EXCEPT ![p] = IF @ = "open" THEN "broken" ELSE @]
    /\ UNCHANGED <<client, board, events, synced, moves, heard>>
Launch(p) ==
    /\ ~up[p]
    /\ up' = [up EXCEPT ![p] = TRUE]
    /\ UNCHANGED <<client, board, cdp, where, left, moves, heard, faults>>

-----------------------------------------------------------------------------
\* Every step of the thread but the call of store.add.
ClientStep(p) ==
    \/ LoopEnds(p) \/ Connect(p) \/ ConnectFails(p) \/ PauseOver(p)
    \/ TimedOut(p) \/ CloseSocket(p) \/ Error(p) \/ ErrSleepOver(p)
    \/ Check(p) \/ ReadEnds(p) \/ ReadCreated(p) \/ ReadMalformed(p) \/ ReadOther(p)
\* What the games of ps do; the others are left alone.
GameStep(ps) ==
    \/ \E lag \in SUBSET ps :
          \/ \E c \in Channels : Megaphone({c}, FALSE, lag)
          \/ Megaphone(Channels, TRUE, lag)
    \/ \E p \in ps :
          \/ Break(p) \/ Quit(p) \/ Launch(p)
          \/ \E kind \in {"other", "malformed"} : Noise(p, kind)
          \/ \E c \in Channels : Move(p, c)

-----------------------------------------------------------------------------
(* Properties *)

\* The types of the variables; part of SyncedFramesRight.
TypeOK ==
    /\ pc \in [Ports -> PCs]
    /\ {running, connected, synced, up} \subseteq [Ports -> BOOLEAN]
    /\ current \in [Ports -> Ids] /\ status \in [Ids -> {"none", "connected"}]
    /\ stored \subseteq [port : Ports, id : Ids, sure : BOOLEAN, frame : Frames]
    /\ events \in [Ports -> Seq(Events)]
    /\ wire \in [Ports -> {"none", "open", "broken"}]
    /\ where \in [Ports -> Channels \cup {"lobby"}]
    /\ moves \in 0..MaxMoves /\ heard \in 0..MaxFrames /\ faults \in 0..MaxFaults

\* However many events wait in the socket while the game moves on, a message is
\* stored under the channel it was sent on, and that channel is shown as
\* connected, once the debugging socket it came over has told of a channel; unless
\* it is late (multi_cdp.py:152-177).
SyncedFramesRight ==
    /\ TypeOK
    /\ \A r \in stored : r.sure =>
          r.id = ws_url_to_channel_id(r.frame.channel) /\ status[r.id] = "connected"

\* What the client will have made of the moves that wait in its socket.
Created(p) == {i \in DOMAIN events[p] : events[p][i].kind = "created"}
Takes(p, id) ==
    /\ Created(p) = {} /\ synced[p] => current[p] = id
    /\ \A i \in Created(p) :
          (\A j \in Created(p) : j <= i) => ws_url_to_channel_id(events[p][i].channel) = id

\* While the client reads, the channel that it will take its game to be in when it
\* has read what waits in the socket is the game's, if this socket has reported a
\* move at all: no time-out, lost socket, restart of the game or late frame makes
\* it miss one and read on (multi_cdp.py:125-160).
MoveIsFollowed == \A p \in Ports :
    pc[p] \in {"check", "recv"} /\ wire[p] = "open" /\ where[p] # "lobby" =>
        Takes(p, ws_url_to_channel_id(where[p]))

-----------------------------------------------------------------------------
(* What README.md says *)

\* "When the game changes its channel, the monitor follows it automatically"
\* (README.md:84, in Korean): in the end the monitor's channel is the game's,
\* as long as it watches the game.
InStep(p) == where[p] = "lobby" \/ current[p] = ws_url_to_channel_id(where[p])
FollowsTheGame == \A p \in Ports : <>[](pc[p] \in {"check", "recv"} => InStep(p))
=============================================================================
