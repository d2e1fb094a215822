-------------------------- MODULE ChannelConnection --------------------------
(***************************************************************************)
(* The threads of src/megaphone/channel.py, one per channel, against the   *)
(* game server, which is not part of the repository and is modelled by     *)
(* what the code and README.md expect of it: it accepts or denies a token, *)
(* allows one session per token and closes the session a token had before, *)
(* and may refuse, stay silent or drop a connection.                       *)
(*                                                                         *)
(* Time is not modelled here (module ListenLoop does that for the listen   *)
(* loop): a timeout is something that may happen when no frame has come.   *)
(***************************************************************************)
EXTENDS Integers, Sequences, FiniteSets

CONSTANTS
    Channels,                       \* one ChannelConnection each
    TokenOf,                        \* channel -> auth_token
    RECONNECT_MIN, RECONNECT_MAX,
    AuthTries, InitTries,           \* max_tries of the two recv_until
    MaxFaults                       \* bound: what the server may do wrong

ASSUME BackoffAssumption ==
    /\ RECONNECT_MIN \in Nat \ {0} /\ RECONNECT_MAX \in Nat
    /\ RECONNECT_MIN <= RECONNECT_MAX
ASSUME TriesAssumption == AuthTries \in Nat \ {0} /\ InitTries \in Nat \ {0}

VARIABLES
    pc,             \* where the thread is
    running,        \* self.running
    backoff,        \* the local of run()
    connectedAt,    \* is self.connected_at set?
    tries,          \* the loop of recv_until
    status,         \* store.channel_status
    sock,           \* self.ws: none, open, or closed by the other side
    frames,         \* frames of the socket that the thread has not read
    pending,        \* which answer the server owes to this socket; "denied": it
                    \* has denied after it had accepted
    holder,         \* server: token -> the channel whose session it is
    faults          \* number of faults so far

thread == <<pc, running, backoff, connectedAt, tries>>
server == <<holder, faults>>
wire == <<sock, frames, pending>>
vars == <<thread, status, wire, server>>

PCs == {"loop", "dial", "auth", "post", "init", "play", "listen", "failed", "sleep", "ended"}
Statuses == {"none", "connecting", "connected", "disconnected", "denied"}
Frames == {"auth_ok", "denied", "init_data", "megaphone", "other"}
Tokens == {TokenOf[c] : c \in Channels}
Nobody == "nobody"

Goto(c, label) == pc' = [pc EXCEPT ![c] = label]
SetStatus(c, value) == status' = [status EXCEPT ![c] = value]
Twice(n) == IF 2 * n < RECONNECT_MAX THEN 2 * n ELSE RECONNECT_MAX

Init ==
    /\ pc = [c \in Channels |-> "loop"]
    /\ running = [c \in Channels |-> TRUE]
    /\ backoff = [c \in Channels |-> RECONNECT_MIN]
    /\ connectedAt = [c \in Channels |-> FALSE]
    /\ tries = [c \in Channels |-> 0]
    /\ status = [c \in Channels |-> "none"]
    /\ sock = [c \in Channels |-> "none"]
    /\ frames = [c \in Channels |-> << >>]
    /\ pending = [c \in Channels |-> "none"]
    /\ holder = [k \in Tokens |-> Nobody]
    /\ faults = 0

-----------------------------------------------------------------------------
(* run() *)

\* Mutant: the board is not told that the channel is connecting.
Loop_NotTold(c) ==
    /\ pc[c] = "loop" /\ running[c]
    /\ connectedAt' = [connectedAt EXCEPT ![c] = FALSE]
    /\ Goto(c, "dial")
    /\ UNCHANGED <<running, backoff, tries, status, wire, server>>
\* while self.running: the top of the loop, and the first statement of
\* _connect_and_listen.
Loop(c) ==
    /\ pc[c] = "loop"
    /\ IF running[c]
       THEN /\ connectedAt' = [connectedAt EXCEPT ![c] = FALSE]
            /\ SetStatus(c, "connecting")
            /\ Goto(c, "dial")
       ELSE Goto(c, "ended") /\ UNCHANGED <<connectedAt, status>>
    /\ UNCHANGED <<running, backoff, tries, wire, server>>

\* Mutant: the lost connection is not told.
Failed_NotTold(c) ==
    /\ pc[c] = "failed"
    /\ Goto(c, IF running[c] THEN "sleep" ELSE "ended")
    /\ UNCHANGED <<running, backoff, connectedAt, tries, status, wire, server>>
\* An exception of _connect_and_listen has been logged: stop if that was
\* asked for, else tell the status and go to sleep.
Failed(c) ==
    /\ pc[c] = "failed"
    /\ IF running[c]
       THEN /\ SetStatus(c, "disconnected")
            /\ Goto(c, "sleep")
       ELSE Goto(c, "ended") /\ UNCHANGED status
    /\ UNCHANGED <<running, backoff, connectedAt, tries, wire, server>>

\* time.sleep(backoff) is over; the next one is twice as long.
Wake(c) ==
    /\ pc[c] = "sleep"
    /\ backoff' = [backoff EXCEPT ![c] = Twice(@)]
    /\ Goto(c, "loop")
    /\ UNCHANGED <<running, connectedAt, tries, status, wire, server>>

\* Any exception inside _connect_and_listen.
Raise(c) == Goto(c, "failed") /\ UNCHANGED <<running, backoff, connectedAt, tries, status>>

-----------------------------------------------------------------------------
(* _connect_and_listen *)

\* send_pkt: a packet leaves as long as the other side has not closed.
CanSend(c) == sock[c] = "open"

\* The socket is open and the burst of hello and auth is sent; the old socket
\* is dropped only now.
Dial(c) ==
    /\ pc[c] = "dial"
    /\ sock' = [sock EXCEPT ![c] = "open"]
    /\ frames' = [frames EXCEPT ![c] = << >>]
    /\ pending' = [pending EXCEPT ![c] = "auth"]
    /\ tries' = [tries EXCEPT ![c] = AuthTries]
    /\ Goto(c, "auth")
    /\ UNCHANGED <<running, backoff, connectedAt, status, server>>

\* The server does not take the connection.
Refused(c) ==
    /\ pc[c] = "dial" /\ faults < MaxFaults
    /\ faults' = faults + 1
    /\ Raise(c)
    /\ UNCHANGED <<wire, holder>>

\* One frame, or one timeout, of recv_until.
Got(c, kinds) == frames[c] # << >> /\ Head(frames[c]) \in kinds
Read(c) == frames' = [frames EXCEPT ![c] = Tail(@)] /\ UNCHANGED <<sock, pending>>
Waiting(c) == pc[c] \in {"auth", "init"} /\ tries[c] > 0
Target(c) == IF pc[c] = "auth" THEN "auth_ok" ELSE "init_data"
Skip(c) ==
    /\ Waiting(c)
    /\ Got(c, Frames \ {Target(c), "denied"})
    /\ tries' = [tries EXCEPT ![c] = @ - 1]
    /\ Read(c)
    /\ UNCHANGED <<pc, running, backoff, connectedAt, status, server>>
\* Mutant: a timeout does not use up a try.
Timeout_Forever(c) ==
    /\ Waiting(c)
    /\ frames[c] = << >> /\ sock[c] = "open" /\ pending[c] = "none"
    /\ UNCHANGED vars
\* An answer that the server still owes may also come too late.
Timeout(c) ==
    /\ Waiting(c)
    /\ frames[c] = << >> /\ sock[c] = "open"
    /\ \/ pending[c] \in {"none", "denied"} /\ UNCHANGED faults
       \/ pending[c] \in {"auth", "init"} /\ faults < MaxFaults /\ faults' = faults + 1
    /\ tries' = [tries EXCEPT ![c] = @ - 1]
    /\ UNCHANGED <<pc, running, backoff, connectedAt, status, wire, holder>>

AuthOk(c) ==
    /\ pc[c] = "auth" /\ Waiting(c)
    /\ Got(c, {"auth_ok"})
    /\ Read(c)
    /\ Goto(c, "post")
    /\ UNCHANGED <<running, backoff, connectedAt, tries, status, server>>

\* Denied: the status, the socket, the end of the thread.
AuthDenied(c) ==
    /\ pc[c] = "auth" /\ Waiting(c)
    /\ Got(c, {"denied"})
    /\ SetStatus(c, "denied")
    /\ sock' = [sock EXCEPT ![c] = "none"]
    /\ frames' = [frames EXCEPT ![c] = << >>]
    /\ running' = [running EXCEPT ![c] = FALSE]
    /\ backoff' = [backoff EXCEPT ![c] = RECONNECT_MIN]
    /\ Goto(c, "ended")
    /\ UNCHANGED <<connectedAt, tries, pending, server>>

\* Mutant: no answer is taken for an answer.
NoAnswer_GoesOn(c) ==
    /\ pc[c] = "auth" /\ tries[c] = 0
    /\ Goto(c, "post")
    /\ UNCHANGED <<running, backoff, connectedAt, tries, status, wire, server>>
\* ConnectionError("No auth response").
NoAnswer(c) ==
    /\ pc[c] = "auth" /\ tries[c] = 0
    /\ Raise(c)
    /\ UNCHANGED <<wire, server>>

\* Two packets, and the server is to send its initial data.
PostAuth(c) ==
    /\ pc[c] = "post" /\ CanSend(c)
    /\ pending' = [pending EXCEPT ![c] = "init"]
    /\ tries' = [tries EXCEPT ![c] = InitTries]
    /\ Goto(c, "init")
    /\ UNCHANGED <<running, backoff, connectedAt, status, sock, frames, server>>

\* recv_until returns; what it returns is not looked at.
InitOver(c) ==
    /\ pc[c] = "init"
    /\ \/ tries[c] > 0 /\ Got(c, {"init_data", "denied"}) /\ Read(c)
       \/ tries[c] = 0 /\ UNCHANGED wire
    /\ Goto(c, "play")
    /\ UNCHANGED <<running, backoff, connectedAt, tries, status, server>>

\* The init sequence is sent: connected.
Connected(c) ==
    /\ pc[c] = "play" /\ CanSend(c)
    /\ SetStatus(c, "connected")
    /\ connectedAt' = [connectedAt EXCEPT ![c] = TRUE]
    /\ Goto(c, "listen")
    /\ UNCHANGED <<running, backoff, tries, wire, server>>

-----------------------------------------------------------------------------
(* _listen *)

\* One frame of any type; only its reading matters here.
Listen(c) ==
    /\ pc[c] = "listen" /\ running[c]
    /\ frames[c] # << >>
    /\ Read(c)
    /\ UNCHANGED <<thread, status, server>>

\* store.add may raise (RuntimeError of _save_persisted): the connection is
\* given up like any other.
AddRaises(c) ==
    /\ pc[c] = "listen" /\ running[c] /\ faults < MaxFaults
    /\ Got(c, {"megaphone"})
    /\ Read(c)
    /\ faults' = faults + 1
    /\ Raise(c)
    /\ UNCHANGED holder

\* The loop sees that running is False; run() resets its backoff and breaks.
ListenEnds(c) ==
    /\ pc[c] = "listen" /\ ~running[c]
    /\ backoff' = [backoff EXCEPT ![c] = RECONNECT_MIN]
    /\ Goto(c, "ended")
    /\ UNCHANGED <<running, connectedAt, tries, status, wire, server>>

\* Mutant: the listen loop swallows the error.
Broken_Swallowed(c) ==
    /\ sock[c] = "closed"
    /\ \/ pc[c] \in {"auth", "init"} /\ tries[c] > 0 /\ frames[c] = << >>
       \/ pc[c] \in {"post", "play"}
    /\ Raise(c)
    /\ UNCHANGED <<wire, server>>
\* A recv or a send on a socket that the other side has closed.  Frames that
\* came before the close are read first; a send fails at once.
Broken(c) ==
    /\ sock[c] = "closed"
    /\ \/ pc[c] \in {"auth", "init"} /\ tries[c] > 0 /\ frames[c] = << >>
       \/ pc[c] \in {"post", "play"}
       \/ pc[c] = "listen"
    /\ Raise(c)
    /\ UNCHANGED <<wire, server>>

\* main() at shutdown.
Shutdown ==
    /\ \E c \in Channels : running[c]
    /\ running' = [c \in Channels |-> FALSE]
    /\ UNCHANGED <<pc, backoff, connectedAt, tries, status, wire, server>>

-----------------------------------------------------------------------------
(* The game server *)

Owes(c, kind) == pending[c] = kind /\ sock[c] = "open"
Answer(c, kind) ==
    /\ frames' = [frames EXCEPT ![c] = Append(@, kind)]
    /\ pending' = [pending EXCEPT ![c] = "none"]

\* The token is good: its session is this connection's now, and the connection
\* that had it is closed.  The thread may have given the socket up by then.
Accept(c) ==
    LET k == TokenOf[c] IN
    /\ Owes(c, "auth")
    /\ Answer(c, "auth_ok")
    /\ holder' = [holder EXCEPT ![k] = c]
    /\ sock' = [d \in Channels |-> IF d = holder[k] /\ d # c /\ sock[d] = "open"
                                   THEN "closed" ELSE sock[d]]
    /\ UNCHANGED <<thread, status, faults>>
SendInitData(c) ==
    /\ Owes(c, "init")
    /\ Answer(c, "init_data")
    /\ UNCHANGED <<thread, status, sock, server>>

\* Faults: a denial where an answer is owed, silence, a packet nobody asked
\* for during the handshake, a dropped connection.
Deny(c) ==
    /\ Owes(c, "auth") \/ Owes(c, "init")
    /\ faults < MaxFaults
    /\ faults' = faults + 1
    /\ frames' = [frames EXCEPT ![c] = Append(@, "denied")]
    /\ pending' = [pending EXCEPT ![c] = IF @ = "auth" THEN "none" ELSE "denied"]
    /\ holder' = [k \in Tokens |-> IF holder[k] = c THEN Nobody ELSE holder[k]]
    /\ UNCHANGED <<thread, status, sock>>
StaySilent(c) ==
    /\ Owes(c, "auth") \/ Owes(c, "init")
    /\ faults < MaxFaults
    /\ faults' = faults + 1
    /\ pending' = [pending EXCEPT ![c] = "none"]
    /\ UNCHANGED <<thread, status, sock, frames, holder>>
Interpose(c) ==
    /\ pc[c] \in {"auth", "init"} /\ sock[c] = "open"
    /\ faults < MaxFaults /\ frames[c] = << >>
    /\ faults' = faults + 1
    /\ frames' = [frames EXCEPT ![c] = << "megaphone" >>]
    /\ UNCHANGED <<thread, status, sock, pending, holder>>
Drop(c) ==
    /\ sock[c] = "open" /\ faults < MaxFaults
    /\ faults' = faults + 1
    /\ sock' = [sock EXCEPT ![c] = "closed"]
    /\ UNCHANGED <<thread, status, frames, pending, holder>>

\* In a session the server sends what it likes.
Send(c, kind) ==
    /\ pc[c] = "listen" /\ sock[c] = "open" /\ frames[c] = << >>
    /\ frames' = [frames EXCEPT ![c] = << kind >>]
    /\ UNCHANGED <<thread, status, sock, pending, server>>

-----------------------------------------------------------------------------
ThreadStep(c) ==
    \/ Loop(c) \/ Failed(c) \/ Wake(c) \/ Dial(c) \/ Refused(c)
    \/ Skip(c) \/ Timeout(c) \/ AuthOk(c) \/ AuthDenied(c) \/ NoAnswer(c)
    \/ PostAuth(c) \/ InitOver(c) \/ Connected(c)
    \/ Listen(c) \/ AddRaises(c) \/ ListenEnds(c) \/ Broken(c)

ServerStep(c) ==
    \/ Accept(c) \/ SendInitData(c) \/ Deny(c) \/ StaySilent(c) \/ Interpose(c) \/ Drop(c)
    \/ \E kind \in {"megaphone", "other", "denied"} : Send(c, kind)

Next == Shutdown \/ \E c \in Channels : ThreadStep(c) \/ ServerStep(c)

\* A thread that can go on does (every wait of the code has a timeout), and the
\* server answers what it has not decided to leave unanswered.
Fairness ==
    \A c \in Channels :
        /\ WF_vars(ThreadStep(c))
        /\ WF_vars(Accept(c) \/ SendInitData(c))

Spec == Init /\ [][Next]_vars /\ Fairness

-----------------------------------------------------------------------------
(* Properties *)

\* The types of the variables; part of StatusTruth.
TypeOK ==
    /\ pc \in [Channels -> PCs]
    /\ running \in [Channels -> BOOLEAN] /\ connectedAt \in [Channels -> BOOLEAN]
    /\ backoff \in [Channels -> Nat] /\ tries \in [Channels -> Nat]
    /\ status \in [Channels -> Statuses]
    /\ sock \in [Channels -> {"none", "open", "closed"}]
    /\ frames \in [Channels -> Seq(Frames)]
    /\ pending \in [Channels -> {"none", "auth", "init", "denied"}]
    /\ holder \in [Tokens -> Channels \cup {Nobody}]
    /\ faults \in Nat

\* The board and the thread agree, whatever the server and the shutdown do
\* meanwhile: "connected" is shown from the end of the handshake until the
\* thread has told that it lost the connection, "connecting" during the whole
\* handshake, "denied" only by a thread that has ended (channel.py:112-198).
StatusTruth ==
    /\ TypeOK
    /\ \A c \in Channels :
        /\ pc[c] = "listen" => status[c] = "connected"
        /\ status[c] = "connected" => connectedAt[c] /\ pc[c] \in {"listen", "failed", "ended"}
        /\ pc[c] \in {"dial", "auth", "post", "init", "play"} =>
              status[c] = "connecting" /\ ~connectedAt[c]
        /\ pc[c] = "sleep" => status[c] = "disconnected"
        /\ status[c] = "denied" => pc[c] = "ended" /\ ~running[c]

\* A thread that shows "connected" on an open socket was given the session of
\* its token, and nobody else has it; unless the server denied it after it had
\* accepted: that answer is read and not looked at (channel.py:171-198).
HasSession(c) == holder[TokenOf[c]] = c \/ pending[c] = "denied"
ConnectedHasSession ==
    \A c \in Channels : pc[c] = "listen" /\ sock[c] = "open" => HasSession(c)

\* The waiting time stays between RECONNECT_MIN and RECONNECT_MAX, also when
\* doubling jumps over the maximum (config.py:36-38, channel.py:114, 128).
BackoffInRange ==
    \A c \in Channels : backoff[c] \in RECONNECT_MIN..RECONNECT_MAX

\* A denied channel stays denied: its thread has ended, dials no more, and
\* nothing overwrites the status (channel.py:172-178, 122-124).
DeniedIsFinal ==
    [][\A c \in Channels : status[c] = "denied" =>
          status'[c] = "denied" /\ pc'[c] = "ended"]_vars

\* The statuses a channel goes through are those of StatusLifecycle.
Lifecycle == INSTANCE StatusLifecycle
ImplementsLifecycle == Lifecycle!Spec

\* Once the server does nothing wrong any more, every channel becomes and
\* stays connected, in the session of its token, unless it was denied or the
\* program is shutting down: no sequence of refusals, silences, late answers
\* and drops leaves a thread stuck or a lost session unnoticed
\* (channel.py:112-128).
Settled(c) ==
    \/ status[c] = "denied"
    \/ status[c] = "connected" /\ sock[c] = "open" /\ HasSession(c)
EventuallyConnected ==
    \A c \in Channels : <>[](Settled(c) \/ ~running[c])

\* A thread that is told to stop ends, wherever it is: in a handshake, asleep,
\* or listening (channel.py:115, 123-124, 212).
ShutdownEnds ==
    \A c \in Channels : ~running[c] ~> pc[c] = "ended"

-----------------------------------------------------------------------------
(* What comments, tests and README.md say *)

\* "Reset backoff after successful connect." (channel.py:119): the first sleep
\* after a connection that was established is RECONNECT_MIN long.
BackoffResets ==
    \A c \in Channels : pc[c] = "sleep" /\ connectedAt[c] => backoff[c] = RECONNECT_MIN

\* "auth denial sets status='denied' and closes socket." (tests/test_channel.py:215):
\* a thread that has read a denial does not go on to listen.
DenialStops ==
    [][\A c \in Channels :
          pc[c] = "init" /\ Got(c, {"denied"}) /\ frames'[c] # frames[c] => pc'[c] # "play"]_vars
=============================================================================
