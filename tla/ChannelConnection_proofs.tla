----------------------- MODULE ChannelConnection_proofs -----------------------
(***************************************************************************)
(* The theorems of ChannelConnection, for any number of channels, any      *)
(* tokens, tries and faults, and any back-off limits; and those of its     *)
(* listen loop with time, module ListenLoop.                               *)
(***************************************************************************)
EXTENDS ChannelConnection, ListenLoop, TLAPS

\* Where the thread is tells more of the status than StatusTruth says: this is
\* what the refinement needs.
Told(c) ==
    /\ pc[c] = "loop" => status[c] \in {"none", "disconnected"}
    /\ pc[c] = "failed" => status[c] \in {"connecting", "connected"}
    /\ pc[c] = "listen" => status[c] = "connected"
    /\ status[c] = "connected" => connectedAt[c] /\ pc[c] \in {"listen", "failed", "ended"}
    /\ pc[c] \in {"dial", "auth", "post", "init", "play"} =>
          status[c] = "connecting" /\ ~connectedAt[c]
    /\ pc[c] = "sleep" => status[c] = "disconnected"
    /\ status[c] = "denied" => pc[c] = "ended" /\ ~running[c]

IInv == TypeOK /\ \A c \in Channels : Told(c)

-----------------------------------------------------------------------------
(* Types *)

\* The initial state is well typed.
LEMMA TypeInit == Init => TypeOK
BY BackoffAssumption DEF Init, TypeOK, PCs, Statuses, Frames

\* The threads keep the types.
LEMMA TypeThread ==
    ASSUME TypeOK, NEW c \in Channels, ThreadStep(c) PROVE TypeOK'
<1> USE DEF TypeOK, Goto, SetStatus, Raise, Read, thread, server, wire
<1>1. CASE Loop(c)
    BY <1>1 DEF Loop, PCs, Statuses
<1>2. CASE Failed(c)
    BY <1>2 DEF Failed, PCs, Statuses
<1>3. CASE Wake(c)
  <2>1. Twice(backoff[c]) \in Nat
    BY BackoffAssumption DEF Twice
  <2> QED
    BY <1>3, <2>1 DEF Wake, PCs
<1>4. CASE Dial(c)
    BY <1>4, TriesAssumption DEF Dial, PCs
<1>5. CASE Refused(c)
    BY <1>5 DEF Refused, PCs
<1>6. CASE Skip(c)
    BY <1>6 DEF Skip, Waiting, Got
<1>7. CASE Timeout(c)
    BY <1>7 DEF Timeout, Waiting
<1>8. CASE AuthOk(c)
    BY <1>8 DEF AuthOk, Got, PCs
<1>9. CASE AuthDenied(c)
    BY <1>9, BackoffAssumption DEF AuthDenied, PCs, Statuses
<1>10. CASE NoAnswer(c)
    BY <1>10 DEF NoAnswer, PCs
<1>11. CASE PostAuth(c)
    BY <1>11, TriesAssumption DEF PostAuth, PCs
<1>12. CASE InitOver(c)
  <2>1. CASE Got(c, {"init_data", "denied"}) /\ Read(c)
    BY <1>12, <2>1 DEF InitOver, Got, PCs
  <2>2. CASE UNCHANGED wire
    BY <1>12, <2>2 DEF InitOver, PCs
  <2> QED
    BY <1>12, <2>1, <2>2 DEF InitOver
<1>13. CASE Connected(c)
    BY <1>13 DEF Connected, PCs, Statuses
<1>14. CASE Listen(c)
    BY <1>14 DEF Listen
<1>15. CASE AddRaises(c)
    BY <1>15 DEF AddRaises, Got, PCs
<1>16. CASE ListenEnds(c)
    BY <1>16, BackoffAssumption DEF ListenEnds, PCs
<1>17. CASE Broken(c)
    BY <1>17 DEF Broken, PCs
<1> QED
    BY <1>1, <1>2, <1>3, <1>4, <1>5, <1>6, <1>7, <1>8, <1>9, <1>10, <1>11, <1>12,
       <1>13, <1>14, <1>15, <1>16, <1>17 DEF ThreadStep

\* The server keeps the types.
LEMMA TypeServer ==
    ASSUME TypeOK, NEW c \in Channels, ServerStep(c) PROVE TypeOK'
<1> USE DEF TypeOK, thread, server, wire
<1>1. CASE Accept(c)
    BY <1>1 DEF Accept, Answer, Tokens, Frames
<1>2. CASE SendInitData(c)
    BY <1>2 DEF SendInitData, Answer, Frames
<1>3. CASE Deny(c)
    BY <1>3 DEF Deny, Frames
<1>4. CASE StaySilent(c)
    BY <1>4 DEF StaySilent
<1>5. CASE Interpose(c)
    BY <1>5 DEF Interpose, Frames
<1>6. CASE Drop(c)
    BY <1>6 DEF Drop
<1>7. ASSUME NEW kind \in {"megaphone", "other", "denied"}, Send(c, kind) PROVE TypeOK'
    BY <1>7 DEF Send, Frames
<1> QED
    BY <1>1, <1>2, <1>3, <1>4, <1>5, <1>6, <1>7 DEF ServerStep

\* Every step keeps the types.
LEMMA TypeStep == TypeOK /\ [Next]_vars => TypeOK'
<1> SUFFICES ASSUME TypeOK, [Next]_vars PROVE TypeOK'
    OBVIOUS
<1>1. CASE Shutdown
    BY <1>1 DEF Shutdown, TypeOK, server, wire
<1>2. CASE UNCHANGED vars
    BY <1>2 DEF vars, TypeOK, thread, server, wire
<1> QED
    BY <1>1, <1>2, TypeThread, TypeServer DEF Next

\* Every reachable state is well typed.
THEOREM TypeCorrect == Spec => []TypeOK
BY TypeInit, TypeStep, PTL DEF Spec

-----------------------------------------------------------------------------
(* The status *)

\* A thread changes nothing of what belongs to another channel.
LEMMA OthersKept ==
    ASSUME TypeOK, NEW c \in Channels, NEW d \in Channels, d # c, ThreadStep(c)
    PROVE  /\ pc'[d] = pc[d] /\ status'[d] = status[d]
           /\ running'[d] = running[d] /\ connectedAt'[d] = connectedAt[d]
<1> USE DEF TypeOK, Goto, SetStatus, Raise, thread
<1>1. CASE Loop(c) \/ Failed(c) \/ Wake(c) \/ Dial(c) \/ Refused(c)
    BY <1>1 DEF Loop, Failed, Wake, Dial, Refused
<1>2. CASE Skip(c) \/ Timeout(c) \/ AuthOk(c) \/ AuthDenied(c) \/ NoAnswer(c)
    BY <1>2 DEF Skip, Timeout, AuthOk, AuthDenied, NoAnswer, vars
<1>3. CASE PostAuth(c) \/ InitOver(c) \/ Connected(c)
    BY <1>3 DEF PostAuth, InitOver, Connected
<1>4. CASE Listen(c) \/ AddRaises(c) \/ ListenEnds(c) \/ Broken(c)
    BY <1>4 DEF Listen, AddRaises, ListenEnds, Broken
<1> QED
    BY <1>1, <1>2, <1>3, <1>4 DEF ThreadStep

\* What a thread tells of itself stays true.
LEMMA ToldStep ==
    ASSUME TypeOK, NEW c \in Channels, Told(c), ThreadStep(c) PROVE Told(c)'
<1> USE DEF TypeOK, Told, Goto, SetStatus, Raise, thread
<1>1. CASE Loop(c)
    BY <1>1 DEF Loop
<1>2. CASE Failed(c)
    BY <1>2 DEF Failed
<1>3. CASE Wake(c) \/ Dial(c) \/ Refused(c)
    BY <1>3 DEF Wake, Dial, Refused
<1>4. CASE Skip(c) \/ Timeout(c) \/ AuthOk(c) \/ NoAnswer(c)
    BY <1>4 DEF Skip, Timeout, AuthOk, NoAnswer
<1>5. CASE AuthDenied(c)
    BY <1>5 DEF AuthDenied
<1>6. CASE PostAuth(c) \/ InitOver(c)
    BY <1>6 DEF PostAuth, InitOver
<1>7. CASE Connected(c)
    BY <1>7 DEF Connected
<1>8. CASE Listen(c) \/ AddRaises(c) \/ ListenEnds(c)
    BY <1>8 DEF Listen, AddRaises, ListenEnds
<1>9. CASE Broken(c)
    BY <1>9 DEF Broken
<1> QED
    BY <1>1, <1>2, <1>3, <1>4, <1>5, <1>6, <1>7, <1>8, <1>9 DEF ThreadStep

\* The invariant holds at first and is kept by every step.
LEMMA StatusInit == Init => IInv
<1> SUFFICES ASSUME Init PROVE IInv
    OBVIOUS
<1>1. TypeOK
    BY TypeInit
<1>2. ASSUME NEW c \in Channels PROVE Told(c)
    BY DEF Init, Told
<1> QED
    BY <1>1, <1>2 DEF IInv

LEMMA StatusStep == IInv /\ [Next]_vars => IInv'
<1> SUFFICES ASSUME IInv, [Next]_vars PROVE IInv'
    OBVIOUS
<1> USE DEF IInv
<1>1. TypeOK'
    BY TypeStep
<1> SUFFICES ASSUME NEW d \in Channels PROVE Told(d)'
    BY <1>1
<1>2. CASE Shutdown
    BY <1>2 DEF Shutdown, Told, TypeOK
<1>3. ASSUME NEW c \in Channels, ThreadStep(c) PROVE Told(d)'
  <2>1. CASE c = d
    BY <1>3, <2>1, ToldStep
  <2>2. CASE c # d
    BY <1>3, <2>2, OthersKept DEF Told
  <2> QED
    BY <2>1, <2>2
<1>4. ASSUME NEW c \in Channels, ServerStep(c) PROVE Told(d)'
  <2>1. UNCHANGED <<thread, status>>
    BY <1>4 DEF ServerStep, Accept, SendInitData, Deny, StaySilent, Interpose, Drop, Send
  <2> QED
    BY <2>1 DEF thread, Told
<1>5. CASE UNCHANGED vars
    BY <1>5 DEF vars, thread, Told
<1> QED
    BY <1>2, <1>3, <1>4, <1>5 DEF Next

LEMMA IInvCorrect == Spec => []IInv
BY StatusInit, StatusStep, PTL DEF Spec

\* The board and the thread agree (channel.py:112-198).
THEOREM StatusCorrect == Spec => []StatusTruth
<1>1. IInv => StatusTruth
    BY DEF IInv, Told, StatusTruth
<1> QED
    BY <1>1, IInvCorrect, PTL

\* Nothing follows a denial (channel.py:172-178, 122-124).
THEOREM DeniedCorrect == Spec => DeniedIsFinal
<1> DEFINE Final == \A c \in Channels : status[c] = "denied" =>
                        status'[c] = "denied" /\ pc'[c] = "ended"
<1>1. IInv /\ [Next]_vars => [Final]_vars
  <2> SUFFICES ASSUME IInv, Next, NEW d \in Channels, status[d] = "denied"
               PROVE  status'[d] = "denied" /\ pc'[d] = "ended"
    OBVIOUS
  <2>1. pc[d] = "ended"
    BY DEF IInv, Told
  <2>2. CASE Shutdown
    BY <2>1, <2>2 DEF Shutdown
  <2>3. ASSUME NEW c \in Channels, ThreadStep(c) PROVE pc'[d] = pc[d] /\ status'[d] = status[d]
    <3>1. pc[c] # "ended"
      BY <2>3 DEF ThreadStep, Loop, Failed, Wake, Dial, Refused, Skip, Waiting, Timeout, AuthOk,
           AuthDenied, NoAnswer, PostAuth, InitOver, Connected, Listen, AddRaises, ListenEnds, Broken
    <3> QED
      BY <2>1, <2>3, <3>1, OthersKept DEF IInv
  <2>4. ASSUME NEW c \in Channels, ServerStep(c) PROVE UNCHANGED <<pc, status>>
    BY <2>4 DEF ServerStep, Accept, SendInitData, Deny, StaySilent, Interpose, Drop, Send, thread
  <2> QED
    BY <2>1, <2>2, <2>3, <2>4 DEF Next
<1> QED
    BY <1>1, IInvCorrect, PTL DEF Spec, DeniedIsFinal

\* The waiting time stays within its limits (config.py:36-38, channel.py:114, 128).
THEOREM BackoffCorrect == Spec => []BackoffInRange
<1>1. Init => BackoffInRange
    BY BackoffAssumption DEF Init, BackoffInRange
<1>2. IInv /\ BackoffInRange /\ [Next]_vars => BackoffInRange'
  <2> SUFFICES ASSUME IInv, BackoffInRange, [Next]_vars, NEW d \in Channels
               PROVE  backoff'[d] \in RECONNECT_MIN..RECONNECT_MAX
    BY DEF BackoffInRange
  <2> USE BackoffAssumption DEF BackoffInRange, TypeOK, IInv
  <2>1. CASE UNCHANGED backoff
    BY <2>1
  <2>2. ASSUME NEW c \in Channels, Wake(c) PROVE backoff'[d] \in RECONNECT_MIN..RECONNECT_MAX
    <3>1. Twice(backoff[c]) \in RECONNECT_MIN..RECONNECT_MAX
      BY DEF Twice
    <3> QED
      BY <2>2, <3>1 DEF Wake
  <2>3. ASSUME NEW c \in Channels, AuthDenied(c) \/ ListenEnds(c)
        PROVE  backoff'[d] \in RECONNECT_MIN..RECONNECT_MAX
    <3>1. backoff' = [backoff EXCEPT ![c] = RECONNECT_MIN]
      BY <2>3 DEF AuthDenied, ListenEnds
    <3> QED
      BY <3>1
  <2>4. ASSUME NEW c \in Channels, ThreadStep(c)
        PROVE  Wake(c) \/ AuthDenied(c) \/ ListenEnds(c) \/ UNCHANGED backoff
    BY <2>4 DEF ThreadStep, Loop, Failed, Dial, Refused, Skip, Timeout, AuthOk, NoAnswer,
         PostAuth, InitOver, Connected, Listen, AddRaises, Broken, Raise, thread
  <2>5. ASSUME NEW c \in Channels, ServerStep(c) PROVE UNCHANGED backoff
    BY <2>5 DEF ServerStep, Accept, SendInitData, Deny, StaySilent, Interpose, Drop, Send, thread
  <2> QED
    BY <2>1, <2>2, <2>3, <2>4, <2>5 DEF Next, Shutdown, vars, thread
<1> QED
    BY <1>1, <1>2, IInvCorrect, PTL DEF Spec

-----------------------------------------------------------------------------
(* The refinement *)

\* A step of a thread is a step of the lifecycle or leaves the status alone.
LEMMA LifecycleStep ==
    ASSUME TypeOK, NEW c \in Channels, Told(c), ThreadStep(c)
    PROVE  Lifecycle!Next \/ UNCHANGED status
<1> USE DEF Told, Goto, SetStatus, Raise, thread, Lifecycle!Becomes
<1>1. CASE Loop(c)
    BY <1>1 DEF Loop, Lifecycle!Next, Lifecycle!Dial
<1>2. CASE Failed(c)
    BY <1>2 DEF Failed, Lifecycle!Next, Lifecycle!Lose
<1>3. CASE AuthDenied(c)
    BY <1>3 DEF AuthDenied, Lifecycle!Next, Lifecycle!Deny
<1>4. CASE Connected(c)
    BY <1>4 DEF Connected, Lifecycle!Next, Lifecycle!Connect
<1>5. CASE ~(Loop(c) \/ Failed(c) \/ AuthDenied(c) \/ Connected(c))
    BY <1>5 DEF ThreadStep, Wake, Dial, Refused, Skip, Timeout, AuthOk, NoAnswer,
         PostAuth, InitOver, Listen, AddRaises, ListenEnds, Broken
<1> QED
    BY <1>1, <1>2, <1>3, <1>4, <1>5

\* The threads implement the lifecycle (channel.py:112-198).
THEOREM LifecycleCorrect == Spec => ImplementsLifecycle
<1>1. Init => Lifecycle!Init
    BY DEF Init, Lifecycle!Init
<1>2. IInv /\ [Next]_vars => [Lifecycle!Next]_status
  <2> SUFFICES ASSUME IInv, [Next]_vars PROVE Lifecycle!Next \/ UNCHANGED status
    OBVIOUS
  <2>1. ASSUME NEW c \in Channels, ThreadStep(c) PROVE Lifecycle!Next \/ UNCHANGED status
    BY <2>1, LifecycleStep DEF IInv
  <2>2. ASSUME NEW c \in Channels, ServerStep(c) PROVE UNCHANGED status
    BY <2>2 DEF ServerStep, Accept, SendInitData, Deny, StaySilent, Interpose, Drop, Send
  <2> QED
    BY <2>1, <2>2 DEF Next, Shutdown, vars
<1> QED
    BY <1>1, <1>2, IInvCorrect, PTL DEF Spec, ImplementsLifecycle, Lifecycle!Spec

-----------------------------------------------------------------------------
(* The session *)

\* A connection that has been accepted has the session of its token, unless it
\* was denied afterwards, and no answer to its auth is on the way any more.
Accepted(c) ==
    /\ sock[c] = "open"
    /\ \/ pc[c] \in {"post", "init", "play", "listen"}
       \/ \E i \in 1..Len(frames[c]) : frames[c][i] = "auth_ok"
Session(c) ==
    /\ Accepted(c) => HasSession(c) /\ pending[c] # "auth"
    /\ pc[c] \in {"auth", "post"} => pending[c] \in {"auth", "none"}

\* The threads keep it.
LEMMA SessionThread ==
    ASSUME TypeOK, NEW c \in Channels, NEW d \in Channels, Session(d), ThreadStep(c)
    PROVE  Session(d)'
<1> USE DEF TypeOK, Session, HasSession, Accepted, Goto, Raise, Read, thread, server, wire
<1>1. CASE Loop(c)
    BY <1>1 DEF Loop
<1>2. CASE Failed(c)
    BY <1>2 DEF Failed
<1>3. CASE Wake(c) \/ Refused(c) \/ NoAnswer(c) \/ ListenEnds(c)
    BY <1>3 DEF Wake, Refused, NoAnswer, ListenEnds
<1>4. CASE Dial(c)
    BY <1>4 DEF Dial
<1>5. CASE Skip(c)
    BY <1>5 DEF Skip, Got
<1>6. CASE Timeout(c)
    BY <1>6 DEF Timeout, vars
<1>7. CASE AuthOk(c)
    BY <1>7 DEF AuthOk, Got
<1>8. CASE AuthDenied(c)
    BY <1>8 DEF AuthDenied
<1>9. CASE PostAuth(c)
    BY <1>9 DEF PostAuth
<1>10. CASE InitOver(c)
    BY <1>10 DEF InitOver, Got
<1>11. CASE Connected(c)
    BY <1>11 DEF Connected
<1>12. CASE Listen(c)
    BY <1>12 DEF Listen, Got
<1>13. CASE AddRaises(c)
    BY <1>13 DEF AddRaises, Got
<1>14. CASE Broken(c)
    BY <1>14 DEF Broken
<1> QED
    BY <1>1, <1>2, <1>3, <1>4, <1>5, <1>6, <1>7, <1>8, <1>9, <1>10, <1>11, <1>12, <1>13,
       <1>14
    DEF ThreadStep

\* So does the server.
LEMMA SessionServer ==
    ASSUME TypeOK, NEW c \in Channels, NEW d \in Channels,
           Session(c), Session(d), ServerStep(c)
    PROVE  Session(d)'
<1> USE DEF TypeOK, Session, HasSession, Accepted, Owes, Answer, thread, server, Tokens
<1>1. CASE Accept(c)
    BY <1>1 DEF Accept
<1>2. CASE SendInitData(c)
    BY <1>2 DEF SendInitData
<1>3. CASE Deny(c)
    BY <1>3 DEF Deny
<1>4. CASE StaySilent(c)
    BY <1>4 DEF StaySilent
<1>5. CASE Interpose(c)
    BY <1>5 DEF Interpose
<1>6. CASE Drop(c)
    BY <1>6 DEF Drop
<1>7. ASSUME NEW kind \in {"megaphone", "other", "denied"}, Send(c, kind) PROVE Session(d)'
    BY <1>7 DEF Send
<1> QED
    BY <1>1, <1>2, <1>3, <1>4, <1>5, <1>6, <1>7 DEF ServerStep

\* A thread that shows "connected" on an open socket has the session of its
\* token, however the channels share tokens (channel.py:171-198).
THEOREM SessionCorrect == Spec => []ConnectedHasSession
<1> DEFINE Sessions == \A c \in Channels : Session(c)
<1>1. Init => Sessions
    BY DEF Init, Session, Accepted
<1>2. IInv /\ Sessions /\ [Next]_vars => Sessions'
  <2> SUFFICES ASSUME IInv, Sessions, [Next]_vars, NEW d \in Channels PROVE Session(d)'
    OBVIOUS
  <2>1. ASSUME NEW c \in Channels, ThreadStep(c) PROVE Session(d)'
    BY <2>1, SessionThread DEF IInv
  <2>2. ASSUME NEW c \in Channels, ServerStep(c) PROVE Session(d)'
    BY <2>2, SessionServer DEF IInv
  <2>3. CASE Shutdown \/ UNCHANGED vars
    BY <2>3 DEF Shutdown, vars, thread, server, wire, Session, HasSession, Accepted
  <2> QED
    BY <2>1, <2>2, <2>3 DEF Next
<1>3. IInv /\ Sessions => ConnectedHasSession
    BY DEF Session, Accepted, ConnectedHasSession
<1> HIDE DEF Sessions
<1> QED
    BY <1>1, <1>2, <1>3, IInvCorrect, PTL DEF Spec

-----------------------------------------------------------------------------
(* The listen loop with time, whatever the server sends, for every interval  *)
(* and every timeout.                                                        *)

\* Why the heartbeat is in time: when recv was called, it was not overdue.
NotOverdue == ~short => age <= HEARTBEAT_INTERVAL + waited

LoopInv == LoopTypeOK /\ AllAnswered /\ NotOverdue

USE TimeAssumption

\* The invariant holds at first.
LEMMA LoopInit == InitLoop => LoopInv
<1> SUFFICES ASSUME InitLoop PROVE LoopInv
    OBVIOUS
<1>1. LoopTypeOK
  <2>1. short \in BOOLEAN
    BY DEF InitLoop
  <2> QED
    BY <2>1 DEF InitLoop, LoopTypeOK, Kinds, Requests
<1>2. AllAnswered
    BY DEF InitLoop, AllAnswered, Requests
<1>3. NotOverdue
    BY DEF InitLoop, NotOverdue
<1> QED
    BY <1>1, <1>2, <1>3 DEF LoopInv

\* Every step keeps the types and the count of unanswered requests.
LEMMA AnsweredStep == LoopInv /\ [NextLoop]_loopVars => LoopTypeOK' /\ AllAnswered'
<1> SUFFICES ASSUME LoopInv, [NextLoop]_loopVars PROVE LoopTypeOK' /\ AllAnswered'
    OBVIOUS
<1> USE DEF LoopInv, LoopTypeOK, AllAnswered, Kinds, Requests
<1>1. CASE Tick
    BY <1>1 DEF Tick
<1>2. ASSUME NEW kind \in Kinds, Arrive(kind) PROVE LoopTypeOK' /\ AllAnswered'
    BY <1>2 DEF Arrive
<1>3. CASE Handle
  <2>1. age' \in Nat
    BY <1>3 DEF Handle, Heartbeat, SendHeartbeat
  <2>2. short' \in BOOLEAN
    BY <1>3, Zenon DEF Handle, Heartbeat, SendHeartbeat
  <2> QED
    BY <1>3, <2>1, <2>2 DEF Handle, Answers
<1>4. CASE HandleShort
    BY <1>4 DEF HandleShort
<1>5. CASE RecvTimesOut
  <2>1. age' \in Nat
    BY <1>5 DEF RecvTimesOut, Heartbeat, SendHeartbeat
  <2>2. short' \in BOOLEAN
    BY <1>5, Zenon DEF RecvTimesOut, Heartbeat, SendHeartbeat
  <2> QED
    BY <1>5, <2>1, <2>2 DEF RecvTimesOut
<1>6. CASE UNCHANGED loopVars
    BY <1>6 DEF loopVars
<1> QED
    BY <1>1, <1>2, <1>3, <1>4, <1>5, <1>6 DEF NextLoop

\* Every step keeps the heartbeat from being overdue.
LEMMA NotOverdueStep == LoopInv /\ [NextLoop]_loopVars => NotOverdue'
<1> SUFFICES ASSUME LoopInv, [NextLoop]_loopVars PROVE NotOverdue'
    OBVIOUS
<1> USE DEF LoopInv, LoopTypeOK, NotOverdue
<1>1. CASE Tick
    BY <1>1 DEF Tick
<1>2. ASSUME NEW kind \in Kinds, Arrive(kind) PROVE NotOverdue'
    BY <1>2 DEF Arrive
<1>3. CASE Handle
    BY <1>3 DEF Handle, Heartbeat, SendHeartbeat
<1>4. CASE HandleShort
    BY <1>4 DEF HandleShort
<1>5. CASE RecvTimesOut
    BY <1>5 DEF RecvTimesOut, Heartbeat, SendHeartbeat
<1>6. CASE UNCHANGED loopVars
    BY <1>6 DEF loopVars
<1> QED
    BY <1>1, <1>2, <1>3, <1>4, <1>5, <1>6 DEF NextLoop

\* All of it is an invariant of the loop.
LEMMA LoopInvCorrect == SpecLoop => []LoopInv
<1>1. LoopInv /\ [NextLoop]_loopVars => LoopInv'
    BY AnsweredStep, NotOverdueStep DEF LoopInv
<1> QED
    BY <1>1, LoopInit, PTL DEF SpecLoop

\* The variables keep their types, whatever the server sends and when.
THEOREM LoopTypeCorrect == SpecLoop => []LoopTypeOK
<1>1. LoopInv => LoopTypeOK
    BY DEF LoopInv
<1> QED
    BY <1>1, LoopInvCorrect, PTL

\* The heartbeat is late by one recv at most as long as no frame is short
\* (channel.py:206-250).
THEOREM HeartbeatCorrect == SpecLoop => []HeartbeatInTime
<1>1. LoopInv => HeartbeatInTime
    BY DEF LoopInv, LoopTypeOK, NotOverdue, HeartbeatInTime
<1> QED
    BY <1>1, LoopInvCorrect, PTL

\* Every request of the server is answered before the next recv
\* (channel.py:231-234).
THEOREM AnswersCorrect == SpecLoop => []AllAnswered
<1>1. LoopInv => AllAnswered
    BY DEF LoopInv
<1> QED
    BY <1>1, LoopInvCorrect, PTL
=============================================================================
