------------------------------ MODULE ListenLoop ------------------------------
(***************************************************************************)
(* ChannelConnection._listen with time: each recv waits for a frame for at *)
(* most one second, and after it a heartbeat is sent if the last one is    *)
(* more than HEARTBEAT_INTERVAL old.  Time passes only while the thread    *)
(* waits.  A frame of less than eight bytes has no type (parse_packet).    *)
(***************************************************************************)
EXTENDS Integers

CONSTANTS
    HEARTBEAT_INTERVAL, RecvTimeout,    \* in the same unit of time
    MaxAge,                             \* bound on the age of the heartbeat
    MaxOwed                             \* bound on the requests of the server

ASSUME TimeAssumption == HEARTBEAT_INTERVAL \in Nat /\ RecvTimeout \in Nat \ {0}

VARIABLES
    age,            \* time since the last heartbeat: now - last_hb
    waited,         \* time since recv was called
    frame,          \* the frame that has arrived, if any
    owed,           \* requests of the server (ping, initial data) not answered
    short           \* history: a short frame since the last heartbeat?

loopVars == <<age, waited, frame, owed, short>>

Requests == {"ping", "init_data"}
Kinds == Requests \cup {"megaphone", "unhandled", "short"}

\* The first heartbeat is sent before the loop.
InitLoop == age = 0 /\ waited = 0 /\ frame = "none" /\ owed = 0 /\ short = FALSE

\* recv waits.
Tick ==
    /\ frame = "none" /\ waited < RecvTimeout /\ age < MaxAge
    /\ age' = age + 1 /\ waited' = waited + 1
    /\ UNCHANGED <<frame, owed, short>>

\* The server sends a frame.
Arrive(kind) ==
    /\ frame = "none"
    /\ kind \in Requests => owed < MaxOwed
    /\ frame' = kind
    /\ owed' = IF kind \in Requests THEN owed + 1 ELSE owed
    /\ UNCHANGED <<age, waited, short>>

\* The last statement of the loop, and the next recv.
SendHeartbeat == age' = 0 /\ short' = FALSE
Heartbeat ==
    IF age > HEARTBEAT_INTERVAL THEN SendHeartbeat ELSE UNCHANGED <<age, short>>

Answers(kind) == IF kind \in Requests THEN 1 ELSE 0

\* Mutant: a frame that was handled goes straight to the next recv.
Handle_NoHeartbeat ==
    /\ frame \notin {"none", "short"}
    /\ owed' = owed - Answers(frame)
    /\ frame' = "none" /\ waited' = 0
    /\ UNCHANGED <<age, short>>
\* A frame with a type: its reply, if it asks for one, then the heartbeat.
Handle ==
    /\ frame \notin {"none", "short"}
    /\ owed' = owed - Answers(frame)
    /\ frame' = "none" /\ waited' = 0
    /\ Heartbeat
\* `continue`: the heartbeat is not looked at.
HandleShort ==
    /\ frame = "short"
    /\ frame' = "none" /\ waited' = 0
    /\ short' = TRUE
    /\ UNCHANGED <<age, owed>>
\* WebSocketTimeoutException.
RecvTimesOut ==
    /\ frame = "none" /\ waited = RecvTimeout
    /\ waited' = 0
    /\ Heartbeat
    /\ UNCHANGED <<frame, owed>>

NextLoop == Tick \/ Handle \/ HandleShort \/ RecvTimesOut \/ \E kind \in Kinds : Arrive(kind)

SpecLoop == InitLoop /\ [][NextLoop]_loopVars

-----------------------------------------------------------------------------
(* Properties *)

\* The types of the variables.
LoopTypeOK ==
    /\ age \in Nat /\ waited \in 0..RecvTimeout
    /\ frame \in Kinds \cup {"none"} /\ owed \in Nat /\ short \in BOOLEAN

\* A heartbeat is late by one recv at most, however the frames of the server
\* and the timeouts fall, as long as no frame is short (channel.py:206-250).
HeartbeatInTime == ~short => age <= HEARTBEAT_INTERVAL + RecvTimeout

\* Before the thread waits again, it has answered all the server asked for
\* (channel.py:231-234).
AllAnswered == owed = IF frame \in Requests THEN 1 ELSE 0

-----------------------------------------------------------------------------
(* What a comment says *)

\* "Allow periodic heartbeat check." (channel.py:208): the timeout of one second
\* on recv makes the check happen every second, whatever the server sends.
HeartbeatAlways == age <= HEARTBEAT_INTERVAL + RecvTimeout
=============================================================================
