------------------------------ MODULE Simulation ------------------------------
(***************************************************************************)
(* The test mode of the page (web/test_dummy.html): messages are made up   *)
(* by timers instead of coming from the server.  The same element serves   *)
(* both pages; `mode` is its attribute, which nothing changes later.  The  *)
(* buffers and the index are those of MonitorPage.                         *)
(*                                                                         *)
(* A timer that has been set fires at some later point: the delays (300 ms *)
(* between two channels, 800 ms before a message is marked, the speed of   *)
(* the interval) are of the same size as the time between two clicks.      *)
(* The tabs and statuses that the simulation gives to its channels are     *)
(* left out: see StatusBoard for what they do.  The speed is both a select *)
(* of the page and an attribute of the element, and a script may take the  *)
(* element out of the document and put it back.                            *)
(***************************************************************************)
EXTENDS MonitorPage

CONSTANTS
    GlobalEvery,    \* every how many messages one is global: 15
    MaxTicks,       \* bound: messages that are made up
    MaxClicks       \* bound: clicks on the start button and changes of the attribute

ASSUME SimulationAssumption ==
    GlobalEvery \in Nat \ {0} /\ MaxTicks \in Nat /\ MaxClicks \in Nat

VARIABLES
    mode,           \* _mode: "server" or "test"
    sim             \* the simulation: see NewSim

monitorVars == <<allVars, mode, sim>>

None == 0
NewSim ==
    [seq |-> 0,                     \* _simSeq
     running |-> FALSE,             \* _simRunning
     speed |-> TRUE,                \* is _simSpeed not 0?
     interval |-> None,             \* _simInterval
     timers |-> {},                 \* the intervals that are alive
     connecting |-> [n \in {} |-> 0],   \* start -> connectIdx of its connectNext
     marks |-> {},                  \* the timeouts that will mark a message
     ticks |-> 0, clicks |-> 0,     \* counters for the bounds
     meant |-> {},                  \* history: the objects of global messages
     early |-> 0,                   \* history: stops while still connecting
     raced |-> 0,                   \* history: changes of the attribute meanwhile
     crossed |-> FALSE]             \* history: cleared while a mark was due?

InitMonitor == InitPage /\ mode \in {"server", "test"} /\ sim = NewSim

-----------------------------------------------------------------------------
\* A new interval, under a handle that no living one has.
Fresh == CHOOSE n \in 1..Cardinality(sim.timers) + 1 : n \notin sim.timers

\* connectNext of one start: one channel after the other, each with a timeout
\* for the next; after the last, the interval.
ConnectNext(s, n) ==
    IF s.connecting[n] < Cardinality(Channels)
    THEN [s EXCEPT !.connecting[n] = @ + 1]
    ELSE [s EXCEPT !.interval = Fresh, !.timers = @ \cup {Fresh},
                   !.connecting = [k \in DOMAIN @ \ {n} |-> @[k]]]

\* clearInterval, and the handle is forgotten; clearInterval and setInterval.
Stopped(s) == [s EXCEPT !.timers = @ \ {s.interval}, !.interval = None]
Replaced(s) == [s EXCEPT !.interval = Fresh,
                         !.timers = (@ \ {s.interval}) \cup {Fresh}]
Connecting(s) == s.connecting # << >>
One(b) == IF b THEN 1 ELSE 0

\* A click on the start button: _toggleSimulation.
Toggle ==
    /\ sim.clicks < MaxClicks
    /\ LET s == [sim EXCEPT !.running = ~@, !.clicks = @ + 1]
           started == [s EXCEPT !.connecting = Entry(@, s.clicks, 0)]
       IN  sim' = IF s.running THEN ConnectNext(started, s.clicks)
                   ELSE [Stopped(s) EXCEPT !.early = @ + One(Connecting(s))]
    /\ UNCHANGED page
ChannelConnects ==
    /\ \E n \in DOMAIN sim.connecting : sim' = ConnectNext(sim, n)
    /\ UNCHANGED page

\* Mutant: the new interval is set beside the old one.
SelectSpeed_Adds ==
    \E v \in BOOLEAN :
        LET s == [sim EXCEPT !.speed = v] IN
        /\ sim' = IF s.running /\ s.interval # None
                  THEN [s EXCEPT !.interval = Fresh, !.timers = @ \cup {Fresh}]
                  ELSE s
        /\ UNCHANGED page
\* The selection of a speed: a running interval is replaced.
SelectSpeed ==
    \E v \in BOOLEAN :
        LET s == [sim EXCEPT !.speed = v] IN
        /\ sim' = IF s.running /\ s.interval # None THEN Replaced(s) ELSE s
        /\ UNCHANGED page

\* The attribute "speed" is set: the interval is replaced, or set where there
\* is none yet, whenever the button says "stop".
SpeedAttribute ==
    /\ sim.clicks < MaxClicks
    /\ \E v \in BOOLEAN :
          LET s == [sim EXCEPT !.speed = v, !.clicks = @ + 1,
                               !.raced = @ + One(sim.running /\ Connecting(sim))]
          IN  sim' = IF s.running THEN Replaced(s) ELSE s
    /\ UNCHANGED page

\* disconnectedCallback clears the interval and nothing else; connectedCallback
\* reads the attribute again.
Detach == sim' = Stopped(sim) /\ UNCHANGED page
Attach == (\E v \in BOOLEAN : sim' = [sim EXCEPT !.speed = v]) /\ UNCHANGED page

\* _simTick of any living interval: a message of some channel, and after every
\* GlobalEvery of them one that a timeout will mark.
SimTick ==
    LET global == sim.seq > 0 /\ sim.seq % GlobalEvery = 0 IN
    /\ sim.timers # {} /\ sim.speed /\ sim.ticks < MaxTicks
    /\ \E c \in Channels, x \in Texts :
          page' = AddMessage(page, [seq |-> sim.seq + 1, channel_id |-> c, text |-> x,
                                    scope |-> "server", life |-> restarts])
    /\ sim' = [sim EXCEPT
          !.seq = @ + 1, !.ticks = @ + 1,
          !.marks = IF global THEN @ \cup {[seq |-> sim.seq + 1, at |-> sim.ticks]} ELSE @,
          !.meant = IF global THEN @ \cup {Len(page.objs) + 1} ELSE @]

\* Mutant: the timeout reads the number when it fires.
Marks_Latest(m) == sim.seq
\* The number is a constant of the closure.
Marks(m) == m.seq
MarkTimeout ==
    \E m \in sim.marks :
        /\ page' = MarkGlobal(page, Marks(m))
        /\ sim' = [sim EXCEPT !.marks = @ \ {m}]

\* clearMessages also starts the numbers again, and leaves the timers alone.
ClearTest ==
    /\ page.messages # << >>
    /\ page' = Cleared(page)
    /\ sim' = [sim EXCEPT !.seq = 0, !.crossed = @ \/ sim.marks # {}]

TestStep ==
    \/ Toggle \/ ChannelConnects
    \/ SelectSpeed \/ SpeedAttribute \/ Detach \/ Attach
    \/ SimTick \/ MarkTimeout \/ ClearTest

NextMonitor ==
    /\ UNCHANGED mode
    /\ \/ mode = "server" /\ NextPage /\ UNCHANGED sim
       \/ mode = "test" /\ TestStep /\ UNCHANGED <<vars, stream, taken, fetch, restarts>>

SpecMonitor == InitMonitor /\ [][NextMonitor]_monitorVars

-----------------------------------------------------------------------------
(* Properties *)

\* The stop clears one interval, the one whose handle the element has.  Starts,
\* stops, changes of the speed in both ways and removals of the element in any
\* order leave no others alive than those that a stop or a change of the
\* attribute while the channels were still being connected has left behind,
\* one for each (js:143-163, 1019-1025, 1105-1140); a simulation that is stopped
\* has no more than these, alive or still to come.
Orphans == sim.timers \ {sim.interval}
OrphansAccounted ==
    /\ sim.interval = None \/ sim.interval \in sim.timers
    /\ Cardinality(Orphans) <= sim.early + sim.raced
    /\ ~sim.running =>
          Cardinality(sim.timers) + Cardinality(DOMAIN sim.connecting) <= sim.early + sim.raced

\* A timeout marks the message it was set for, however many messages, starts and
\* stops come before it fires; unless the numbers were started again meanwhile
\* (js:1161-1183, 1312).
MarksItsOwn ==
    mode = "test" /\ ~sim.crossed =>
        \A k \in DOMAIN page.objs : page.objs[k].scope = "global" => k \in sim.meant

SimulationInHand == OrphansAccounted /\ MarksItsOwn

-----------------------------------------------------------------------------
(* What a test says *)

\* "Stop simulation (test mode)." (js:1363-1365): a simulation that was stopped
\* makes no more messages.
StopIsStop == sim.running \/ sim.timers = {}
=============================================================================
