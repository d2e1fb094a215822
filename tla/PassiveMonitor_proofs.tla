------------------------ MODULE PassiveMonitor_proofs ------------------------
(***************************************************************************)
(* Theorems of PassiveMonitor, for any number of ports, any channels and   *)
(* any bounds: what the clients make of the events of the games, whatever  *)
(* the main program and the store do in between, and what the store makes  *)
(* of the copies of a megaphone that they bring.                           *)
(***************************************************************************)
EXTENDS PassiveMonitor, FiniteSetTheorems, SequenceTheorems, TLAPS

\* The client's backlog is ev, its channel cur.  What it will take the channel
\* to be when it has read the first k-1 events is c, unless it cannot know.
Right(ev, cur, syn, k, c) ==
    /\ \A j \in 1..(k - 1) :
          /\ ev[j].kind = "created"
          /\ \A l \in (j + 1)..(k - 1) : ev[l].kind # "created"
          => ev[j].channel = c
    /\ syn /\ (\A l \in 1..(k - 1) : ev[l].kind # "created")
          => cur = ws_url_to_channel_id(c)

\* Every frame of a backlog that is not late is right, and so will be the next one.
PortRight(ev, cur, syn, w, at) ==
    /\ \A k \in 1..Len(ev) : ev[k].kind = "frame" /\ ~ev[k].late =>
          Right(ev, cur, syn, k, ev[k].channel)
    /\ w = "open" /\ at # "lobby" => Right(ev, cur, syn, Len(ev) + 1, at)
BacklogInv == \A p \in Ports :
    PortRight(events[p], current[p], synced[p], wire[p], where[p])

\* A client that is not reading has no backlog, and none grows on a lost socket.
SocketInv == \A p \in Ports :
    /\ pc[p] \in {"none", "connect", "pause", "ended"} => wire[p] = "none" /\ events[p] = << >>
    /\ pc[p] = "errsleep" => wire[p] = "broken" /\ events[p] = << >>

\* No client runs before start().
MainInv == main \in {"monitor", "stopped"} \/ \A p \in Ports : pc[p] = "none"

BoardInv ==
    /\ \A p \in Ports : synced[p] => status[current[p]] = "connected"
    /\ \A r \in stored : r.sure =>
          r.id = ws_url_to_channel_id(r.frame.channel) /\ status[r.id] = "connected"

IInv == TypeOK /\ MainInv /\ SocketInv /\ BacklogInv /\ BoardInv

-----------------------------------------------------------------------------
(* Backlogs *)

LEMMA RightAppend ==
    ASSUME NEW ev \in Seq(Events), NEW e \in Events, NEW cur, NEW syn, NEW c,
           NEW k \in 1..(Len(ev) + 1)
    PROVE  Right(Append(ev, e), cur, syn, k, c) <=> Right(ev, cur, syn, k, c)
  <1>1. \A j \in 1..(k - 1) : Append(ev, e)[j] = ev[j]
    OBVIOUS
  <1>2. \A j \in 1..(k - 1) : \A l \in (j + 1)..(k - 1) : l \in 1..(k - 1)
    OBVIOUS
  <1> QED BY <1>1, <1>2 DEF Right

\* What the client will know after an event, from what it will know before it.
LEMMA RightAfter ==
    ASSUME NEW ev \in Seq(Events), NEW e \in Events, NEW cur, NEW syn, NEW c,
           \/ e.kind = "created" /\ e.channel = c
           \/ e.kind # "created" /\ Right(ev, cur, syn, Len(ev) + 1, c)
    PROVE  Right(Append(ev, e), cur, syn, Len(ev) + 2, c)
  <1> DEFINE new == Append(ev, e)
             n == Len(ev) + 1
  <1>1. n \in Nat /\ n > 0 /\ new[n] = e /\ \A j \in 1..(n - 1) : new[j] = ev[j]
    OBVIOUS
  <1>2. (Len(ev) + 2) - 1 = n
    OBVIOUS
  <1> HIDE DEF new, n
  <1>3. ASSUME NEW j \in 1..n, new[j].kind = "created",
               \A l \in (j + 1)..n : new[l].kind # "created"
        PROVE  new[j].channel = c
    <2>1. CASE j = n
      <3>1. e.kind = "created"
        BY <1>1, <1>3, <2>1
      <3> QED BY <1>1, <2>1, <3>1
    <2>2. CASE j # n
      <3>1. j \in 1..(n - 1) /\ n \in (j + 1)..n
        BY <1>1, <2>2
      <3>2. e.kind # "created" /\ Right(ev, cur, syn, n, c)
        BY <1>1, <1>3, <3>1 DEF n
      <3>3. \A l \in (j + 1)..(n - 1) : l \in 1..(n - 1) /\ l \in (j + 1)..n
        BY <1>1
      <3>4. ev[j].kind = "created" /\ \A l \in (j + 1)..(n - 1) : ev[l].kind # "created"
        BY <1>1, <1>3, <3>1, <3>3
      <3> QED BY <1>1, <3>1, <3>2, <3>4 DEF Right
    <2> QED BY <2>1, <2>2
  <1>4. ASSUME syn, \A l \in 1..n : new[l].kind # "created"
        PROVE  cur = ws_url_to_channel_id(c)
    <2>1. e.kind # "created" /\ Right(ev, cur, syn, n, c)
      <3>1. n \in 1..n
        BY <1>1
      <3>2. e.kind # "created"
        BY <1>1, <1>4, <3>1
      <3> QED BY <3>2 DEF n
    <2>2. \A l \in 1..(n - 1) : ev[l].kind # "created"
      BY <1>1, <1>4
    <2> QED BY <1>4, <2>1, <2>2 DEF Right
  <1> QED BY <1>2, <1>3, <1>4 DEF Right, new

\* Reading the head leaves what the client will know later.
LEMMA RightTail ==
    ASSUME NEW ev \in Seq(Events), ev # << >>, NEW cur, NEW syn, NEW c,
           NEW cur2, NEW syn2, NEW k \in 1..Len(ev), Right(ev, cur, syn, k + 1, c),
           \/ ev[1].kind = "created" /\ cur2 = ws_url_to_channel_id(ev[1].channel)
           \/ ev[1].kind # "created" /\ cur2 = cur /\ syn2 = syn
    PROVE  Right(Tail(ev), cur2, syn2, k, c)
  <1> DEFINE new == Tail(ev)
  <1>1. \A j \in 1..(k - 1) : new[j] = ev[j + 1] /\ j + 1 \in 1..k
    OBVIOUS
  <1>2. (k + 1) - 1 = k /\ k \in Nat /\ k > 0
    OBVIOUS
  <1> HIDE DEF new
  <1>3. ASSUME NEW j \in 1..(k - 1), new[j].kind = "created",
               \A l \in (j + 1)..(k - 1) : new[l].kind # "created"
        PROVE  new[j].channel = c
    <2>1. ASSUME NEW l \in ((j + 1) + 1)..k PROVE ev[l].kind # "created"
      <3>1. l - 1 \in (j + 1)..(k - 1) /\ l - 1 \in 1..(k - 1) /\ (l - 1) + 1 = l
        BY <1>2
      <3> QED BY <1>1, <1>3, <3>1
    <2> QED BY <1>1, <1>2, <1>3, <2>1 DEF Right
  <1>4. ASSUME syn2, \A l \in 1..(k - 1) : new[l].kind # "created"
        PROVE  cur2 = ws_url_to_channel_id(c)
    <2>1. \A l \in (1 + 1)..k : ev[l].kind # "created"
      <3>1. ASSUME NEW l \in (1 + 1)..k PROVE ev[l].kind # "created"
        <4>1. l - 1 \in 1..(k - 1) /\ (l - 1) + 1 = l
          BY <1>2
        <4> QED BY <1>1, <1>4, <4>1
      <3> QED BY <3>1
    <2>2. CASE ev[1].kind = "created"
      <3>1. 1 \in 1..k
        BY <1>2
      <3>2. ev[1].channel = c
        BY <1>2, <2>1, <2>2, <3>1 DEF Right
      <3> QED BY <2>2, <3>2
    <2>3. CASE ev[1].kind # "created"
      <3>1. \A l \in 1..k : l = 1 \/ l \in (1 + 1)..k
        BY <1>2
      <3> QED BY <1>2, <1>4, <2>1, <2>3, <3>1 DEF Right
    <2> QED BY <2>2, <2>3
  <1> QED BY <1>3, <1>4 DEF Right, new

\* A port reports an event of its game...
LEMMA PortAppend ==
    ASSUME NEW ev \in Seq(Events), NEW e \in Events, NEW cur, NEW syn, NEW w, NEW at, NEW to,
           PortRight(ev, cur, syn, "open", at),
           e.kind = "frame" /\ ~e.late => at # "lobby" /\ e.channel = at,
           e.kind = "created" => e.channel = to,
           e.kind # "created" => to = at
    PROVE  PortRight(Append(ev, e), cur, syn, w, to)
  <1> DEFINE new == Append(ev, e)
             n == Len(ev)
  <1>1. n \in Nat /\ Len(new) = n + 1 /\ new[n + 1] = e /\ \A k \in 1..n : new[k] = ev[k]
    OBVIOUS
  <1>2. \A k \in 1..(n + 1) : \A c : Right(new, cur, syn, k, c) <=> Right(ev, cur, syn, k, c)
    BY RightAppend
  <1>3. Right(ev, cur, syn, n + 1, at) \/ at = "lobby"
    BY DEF PortRight
  <1>4. at # "lobby" \/ e.kind = "created" => Right(new, cur, syn, n + 2, to)
    BY <1>3, RightAfter
  <1>5. (n + 1) + 1 = n + 2
    BY <1>1
  <1> HIDE DEF new, n
  <1>6. ASSUME NEW k \in 1..(n + 1), new[k].kind = "frame", ~new[k].late
        PROVE  Right(new, cur, syn, k, new[k].channel)
    <2>1. CASE k = n + 1
      BY <1>1, <1>2, <1>3, <1>6, <2>1
    <2>2. CASE k # n + 1
      <3>1. k \in 1..n
        BY <1>1, <2>2
      <3>2. Right(ev, cur, syn, k, ev[k].channel)
        BY <1>1, <1>6, <3>1 DEF PortRight, n
      <3> QED BY <1>1, <1>2, <3>1, <3>2
    <2> QED BY <2>1, <2>2
  <1>7. w = "open" /\ to # "lobby" => Right(new, cur, syn, n + 2, to)
    BY <1>4
  <1> QED BY <1>1, <1>5, <1>6, <1>7 DEF PortRight, new

\* ... and its client reads one.
LEMMA PortTail ==
    ASSUME NEW ev \in Seq(Events), ev # << >>, NEW cur, NEW syn, NEW cur2, NEW syn2,
           NEW w, NEW at, PortRight(ev, cur, syn, w, at),
           \/ ev[1].kind = "created" /\ cur2 = ws_url_to_channel_id(ev[1].channel)
           \/ ev[1].kind # "created" /\ cur2 = cur /\ syn2 = syn
    PROVE  PortRight(Tail(ev), cur2, syn2, w, at)
  <1>1. /\ Len(ev) \in Nat /\ Len(ev) > 0 /\ Len(Tail(ev)) = Len(ev) - 1
        /\ \A k \in 1..(Len(ev) - 1) : Tail(ev)[k] = ev[k + 1] /\ k + 1 \in 1..Len(ev)
    OBVIOUS
  <1>2. ASSUME NEW k \in 1..(Len(ev) - 1), Tail(ev)[k].kind = "frame", ~Tail(ev)[k].late
        PROVE  Right(Tail(ev), cur2, syn2, k, Tail(ev)[k].channel)
    <2>1. k \in 1..Len(ev) /\ Right(ev, cur, syn, k + 1, ev[k + 1].channel)
      BY <1>1, <1>2 DEF PortRight
    <2> QED BY <1>1, <2>1, RightTail
  <1>3. ASSUME w = "open", at # "lobby"
        PROVE  Right(Tail(ev), cur2, syn2, (Len(ev) - 1) + 1, at)
    <2>1. Len(ev) \in 1..Len(ev) /\ (Len(ev) - 1) + 1 = Len(ev)
      BY <1>1
    <2>2. Right(ev, cur, syn, Len(ev) + 1, at)
      BY <1>3 DEF PortRight
    <2>3. Right(Tail(ev), cur2, syn2, Len(ev), at)
      BY <2>1, <2>2, RightTail
    <2> QED BY <2>1, <2>3
  <1> QED BY <1>1, <1>2, <1>3 DEF PortRight

\* A socket that is lost, a game that is quit.
LEMMA PortLost ==
    ASSUME NEW ev, NEW cur, NEW syn, NEW w, NEW at, NEW w2, NEW at2,
           PortRight(ev, cur, syn, w, at),
           w2 # "open" \/ at2 = "lobby" \/ (w2 = w /\ at2 = at)
    PROVE  PortRight(ev, cur, syn, w2, at2)
  BY DEF PortRight

\* A new debugging socket.
LEMMA PortFresh ==
    ASSUME NEW cur, NEW syn, NEW w, NEW at, ~syn \/ w # "open"
    PROVE  PortRight(<< >>, cur, syn, w, at)
  BY DEF PortRight, Right

-----------------------------------------------------------------------------
(* The steps *)

\* What a step of the main program, the store or the user may do to the clients.
MainStep == UNCHANGED clientVars \/ (main = "start" /\ start(clients)) \/ stop(clients)

LEMMA Steps ==
    ASSUME [Next]_vars
    PROVE  \/ MainStep
           \/ \E p \in Ports : ClientStep(p) \/ ReadFrame(p)
           \/ \E ps \in SUBSET Ports : GameStep(ps)
  <1>1. CASE UNCHANGED vars
    BY <1>1 DEF vars, MainStep
  <1>2. CASE Main \/ Interrupt
    BY <1>2 DEF Main, Interrupt, Probe, Probed, from_port_range, remove_client, Start, MainStep
  <1>3. ASSUME NEW p \in Ports, Thread(p)
        PROVE  MainStep \/ ClientStep(p) \/ ReadFrame(p)
    BY <1>3 DEF Thread, Add, ReadAndAdd, MainStep
  <1>4. CASE GameStep(Watched)
    <2>1. Watched \in SUBSET Ports
      BY DEF Watched
    <2> QED BY <1>4, <2>1
  <1> QED BY <1>1, <1>2, <1>3, <1>4 DEF Next

\* What is known of an event at the head of a backlog.
LEMMA HeadEvent ==
    ASSUME TypeOK, NEW p \in Ports, events[p] # << >>
    PROVE  /\ Head(events[p]) = events[p][1] /\ events[p][1] \in Events
           /\ Tail(events[p]) \in Seq(Events)
           /\ events[p][1].kind = "frame" => events[p][1] \in Frames
           /\ events[p][1].kind = "created" => events[p][1].channel \in Channels
  <1>1. events[p] \in Seq(Events)
    BY DEF TypeOK
  <1>2. Head(events[p]) = events[p][1] /\ events[p][1] \in Events /\ Tail(events[p]) \in Seq(Events)
    BY <1>1
  <1> QED BY <1>2 DEF Events, Frames

LEMMA EventKinds ==
    /\ \A c \in Channels : [kind |-> "created", channel |-> c] \in Events
    /\ \A k \in {"other", "malformed"} : [kind |-> k] \in Events
    /\ Frames \subseteq Events /\ \A e \in Frames : e.kind = "frame"
  BY DEF Events, Frames

\* What a megaphone appends to the backlog of a port: the late copy, and the other.
LateCopy(e, p, to, g, lag) ==
    /\ p \in lag /\ wire[p] = "open" /\ left[p] \in to
    /\ e \in Frames /\ e.late /\ e.channel = left[p] /\ e.text = heard + 1 /\ e.global = g
NewCopy(e, p, to, g) ==
    /\ where[p] \in to /\ wire[p] = "open"
    /\ e \in Frames /\ e.channel = where[p] /\ e.text = heard + 1 /\ e.global = g
LEMMA MegaphoneAt ==
    ASSUME TypeOK, NEW to \in SUBSET Channels, NEW g \in BOOLEAN, NEW lag \in SUBSET Ports,
           Megaphone(to, g, lag), NEW p \in Ports
    PROVE  \E old : /\ \/ old = events[p]
                       \/ \E e : LateCopy(e, p, to, g, lag) /\ old = Append(events[p], e)
                    /\ \/ events'[p] = old
                       \/ \E e : NewCopy(e, p, to, g) /\ events'[p] = Append(old, e)
  <1>1. heard + 1 \in 1..MaxFrames /\ (\A q \in lag : left[q] \in to)
    BY BoundsAssumption DEF Megaphone, TypeOK
  <1>2. p \in {q \in Ports : where[q] \in to} <=> where[p] \in to
    OBVIOUS
  <1> DEFINE yes1 == p \in lag /\ wire[p] = "open"
             yes2 == p \in {q \in Ports : where[q] \in to} /\ wire[p] = "open"
             f1 == [kind |-> "frame", channel |-> left[p], text |-> heard + 1, global |-> g,
                    late |-> TRUE]
             f2 == [kind |-> "frame", channel |-> where[p], text |-> heard + 1, global |-> g,
                    late |-> FALSE]
             old == Then(events[p], yes1, f1)
  <1>3. events'[p] = Then(old, yes2, f2)
    BY DEF Megaphone
  <1>4. yes1 => LateCopy(f1, p, to, g, lag)
    <2>1. yes1 => f1 \in Frames
      BY <1>1 DEF Frames
    <2> QED BY <1>1, <2>1 DEF LateCopy
  <1>5. yes2 => NewCopy(f2, p, to, g)
    <2>1. yes2 => f2 \in Frames
      BY <1>1, <1>2 DEF Frames
    <2> QED BY <1>2, <2>1 DEF NewCopy
  <1> HIDE DEF f1, f2
  <1>6. old = events[p] \/ \E e : LateCopy(e, p, to, g, lag) /\ old = Append(events[p], e)
    BY <1>4 DEF Then
  <1>7. events'[p] = old \/ \E e : NewCopy(e, p, to, g) /\ events'[p] = Append(old, e)
    BY <1>3, <1>5 DEF Then
  <1> HIDE DEF old
  <1> QED BY <1>6, <1>7

\* The types.
LEMMA TypeStep == TypeOK /\ [Next]_vars => TypeOK'
  <1> SUFFICES ASSUME TypeOK, [Next]_vars PROVE TypeOK'
    OBVIOUS
  <1> USE DEF client, board, cdp, game, clientVars, PCs
  <1>i. \A c \in Channels : ws_url_to_channel_id(c) \in Ids
    BY DEF Ids, ws_url_to_channel_id
  <1>1. CASE MainStep
    <2>1. CASE UNCHANGED clientVars
      BY <2>1 DEF TypeOK
    <2>2. CASE start(clients)
      <3>1. running' \in [Ports -> BOOLEAN] /\ pc' \in [Ports -> PCs]
        BY <2>2 DEF start, TypeOK
      <3> QED BY <2>2, <3>1 DEF start, TypeOK
    <2>3. CASE stop(clients)
      <3>1. running' \in [Ports -> BOOLEAN]
        BY <2>3 DEF stop, TypeOK
      <3> QED BY <2>3, <3>1 DEF stop, TypeOK
    <2> QED BY <1>1, <2>1, <2>2, <2>3 DEF MainStep
  <1>2. ASSUME NEW p \in Ports, LoopEnds(p) \/ Connect(p) \/ ConnectFails(p) \/ PauseOver(p)
                                  \/ TimedOut(p) \/ CloseSocket(p) \/ Error(p) \/ ErrSleepOver(p)
                                  \/ Check(p) \/ ReadEnds(p)
        PROVE  TypeOK'
    <2>1. << >> \in Seq(Events)
      OBVIOUS
    <2>2. CASE LoopEnds(p) \/ PauseOver(p) \/ TimedOut(p) \/ Error(p) \/ Check(p)
                 \/ ReadEnds(p)
      <3>1. UNCHANGED <<running, connected, current, board, cdp, game>>
        BY <2>2 DEF LoopEnds, PauseOver, TimedOut, Error, Check, ReadEnds
      <3>2. pc' \in [Ports -> PCs]
        BY <2>2 DEF LoopEnds, PauseOver, TimedOut, Error, Check, ReadEnds, Goto, TypeOK
      <3> QED BY <3>1, <3>2 DEF TypeOK
    <2>3. CASE Connect(p)
      BY <2>1, <2>3 DEF Connect, Goto, TypeOK
    <2>4. CASE ConnectFails(p)
      BY <2>4 DEF ConnectFails, Goto, TypeOK
    <2>5. CASE CloseSocket(p) \/ ErrSleepOver(p)
      <3>1. Closed(p)
        BY <2>5 DEF CloseSocket, ErrSleepOver
      <3> QED BY <2>1, <3>1 DEF Closed, Goto, TypeOK
    <2> QED BY <1>2, <2>2, <2>3, <2>4, <2>5
  <1>3. ASSUME NEW p \in Ports, NEW k, Reads(p, k)
        PROVE  /\ events[p] # << >> /\ Head(events[p]) = events[p][1] /\ events[p][1].kind = k
               /\ events' \in [Ports -> Seq(Events)] /\ pc' \in [Ports -> PCs]
               /\ UNCHANGED <<running, connected, wire, game>>
    BY <1>3, HeadEvent DEF Reads, Goto, TypeOK
  <1>4. ASSUME NEW p \in Ports, ReadCreated(p) \/ ReadMalformed(p) \/ ReadOther(p)
        PROVE  TypeOK'
    <2>1. CASE ReadCreated(p)
      <3>1. Reads(p, "created")
        BY <2>1 DEF ReadCreated
      <3>2. ws_url_to_channel_id(Head(events[p]).channel) \in Ids
        BY <1>3, <1>i, <3>1, HeadEvent
      <3> QED BY <1>3, <2>1, <3>1, <3>2 DEF ReadCreated, TypeOK
    <2>2. CASE ReadMalformed(p)
      BY <1>3, <2>2 DEF ReadMalformed, TypeOK
    <2>3. CASE ReadOther(p)
      BY <1>3, <2>3 DEF ReadOther, TypeOK
    <2> QED BY <1>4, <2>1, <2>2, <2>3
  <1>5. ASSUME NEW p \in Ports, ReadFrame(p)
        PROVE  TypeOK'
    <2>1. Reads(p, "frame")
      BY <1>5 DEF ReadFrame
    <2>2. Head(events[p]) \in Frames /\ current[p] \in Ids /\ synced[p] \in BOOLEAN
      BY <1>3, <2>1, HeadEvent DEF TypeOK
    <2> DEFINE e == Head(events[p])
               sure == synced[p] /\ ~e.late
               new == [port |-> p, id |-> current[p], sure |-> sure, frame |-> e]
    <2>4. stored' = stored \cup {new}
      BY <1>5 DEF ReadFrame
    <2>5. sure \in BOOLEAN
      OBVIOUS
    <2>6. stored \subseteq [port : Ports, id : Ids, sure : BOOLEAN, frame : Frames]
      BY DEF TypeOK
    <2> HIDE DEF e, sure
    <2>3. e \in Frames
      BY <2>2 DEF e
    <2>8. new \in [port : Ports, id : Ids, sure : BOOLEAN, frame : Frames]
      BY <2>2, <2>3, <2>5
    <2> HIDE DEF new
    <2>7. stored' \subseteq [port : Ports, id : Ids, sure : BOOLEAN, frame : Frames]
      BY <2>4, <2>6, <2>8
    <2> QED BY <1>3, <1>5, <2>1, <2>7 DEF ReadFrame, TypeOK
  <1>6. ASSUME NEW p \in Ports, NEW c \in Channels, Move(p, c)
        PROVE  TypeOK'
    <2>1. events' \in [Ports -> Seq(Events)]
      BY <1>6, EventKinds DEF Move, Reported, TypeOK
    <2> QED BY <1>6, <2>1, BoundsAssumption DEF Move, TypeOK
  <1>7. ASSUME NEW p \in Ports, NEW k \in {"other", "malformed"}, Noise(p, k)
        PROVE  TypeOK'
    <2>1. events' \in [Ports -> Seq(Events)]
      BY <1>7, EventKinds DEF Noise, Reported, TypeOK
    <2> QED BY <1>7, <2>1, BoundsAssumption DEF Noise, TypeOK
  <1>8. ASSUME NEW to \in SUBSET Channels, NEW g \in BOOLEAN, NEW lag \in SUBSET Ports,
               Megaphone(to, g, lag)
        PROVE  TypeOK'
    <2>1. heard + 1 \in 1..MaxFrames /\ heard' = heard + 1
      BY <1>8, BoundsAssumption DEF Megaphone, TypeOK
    <2>2. events' \in [Ports -> Seq(Events)]
      <3>2. ASSUME NEW p \in Ports PROVE events'[p] \in Seq(Events)
        <4>1. PICK old : /\ old = events[p] \/ \E e \in Events : old = Append(events[p], e)
                         /\ events'[p] = old \/ \E e \in Events : events'[p] = Append(old, e)
          <5>1. PICK old : /\ old = events[p] \/ \E e : LateCopy(e, p, to, g, lag) /\ old = Append(events[p], e)
                           /\ events'[p] = old \/ \E e : NewCopy(e, p, to, g) /\ events'[p] = Append(old, e)
            BY <1>8, MegaphoneAt
          <5> QED BY <5>1, EventKinds DEF LateCopy, NewCopy
        <4>2. events[p] \in Seq(Events)
          BY DEF TypeOK
        <4>3. old \in Seq(Events)
          BY <4>1, <4>2
        <4> QED BY <4>1, <4>3
      <3>3. \E F : events' = [p \in Ports |-> F[p]]
        <4>1. PICK F : F = events'
          OBVIOUS
        <4>2. events' = [p \in Ports |-> events'[p]]
          BY <1>8 DEF Megaphone
        <4> QED BY <4>1, <4>2
      <3> QED BY <3>2, <3>3
    <2>3. UNCHANGED <<client, board, wire, synced, up, where, left, moves, faults>>
      BY <1>8 DEF Megaphone
    <2> QED BY <2>1, <2>2, <2>3 DEF TypeOK
  <1>9. ASSUME NEW p \in Ports, Break(p) \/ Quit(p) \/ Launch(p)
        PROVE  TypeOK'
    <2>1. CASE Break(p)
      BY <2>1, BoundsAssumption DEF Break, TypeOK
    <2>2. CASE Quit(p)
      BY <2>2, BoundsAssumption DEF Quit, TypeOK
    <2>3. CASE Launch(p)
      BY <2>3 DEF Launch, TypeOK
    <2> QED BY <1>9, <2>1, <2>2, <2>3
  <1>10. ASSUME NEW ps \in SUBSET Ports, GameStep(ps)
         PROVE  TypeOK'
    BY <1>6, <1>7, <1>8, <1>9, <1>10 DEF GameStep
  <1> QED BY <1>1, <1>2, <1>4, <1>5, <1>10, Steps DEF ClientStep

\* Before start() every thread is where it was, and so is its socket.
LEMMA MainInvStep == MainInv /\ [Next]_vars => MainInv'
  <1> SUFFICES ASSUME MainInv, [Next]_vars PROVE MainInv'
    OBVIOUS
  <1> USE DEF client, board, cdp, game, clientVars
  <1>1. CASE main \in {"monitor", "stopped"}
    <2>1. main' \in {"monitor", "stopped"}
      BY <1>1 DEF Next, Main, Interrupt, Probe, Probed, from_port_range, remove_client, Start,
            Thread, Add, ReadAndAdd, vars, mainVars
    <2> QED BY <2>1 DEF MainInv
  <1>2. CASE \A p \in Ports : pc[p] = "none"
    <2>1. ASSUME NEW p \in Ports, ClientStep(p) \/ ReadFrame(p)
          PROVE  FALSE
      <3>1. pc[p] # "none"
        BY <2>1 DEF ClientStep, LoopEnds, Connect, ConnectFails, PauseOver, TimedOut, CloseSocket, Error, ErrSleepOver,
              Check, ReadEnds, ReadCreated, ReadMalformed, ReadOther, ReadFrame, Reads
      <3> QED BY <1>2, <3>1
    <2>2. CASE Start
      BY <2>2 DEF Start, MainInv
    <2>3. CASE ~Start
      <3>1. pc' = pc
        <4>1. CASE Main \/ Interrupt \/ UNCHANGED vars
          BY <2>3, <4>1 DEF Main, Interrupt, stop, Probe, Probed, from_port_range, remove_client, vars
        <4>2. ASSUME NEW p \in Ports, Thread(p)
              PROVE  pc' = pc
          BY <2>1, <4>2 DEF Thread, Add, ReadAndAdd
        <4>3. CASE GameStep(Watched)
          BY <4>3 DEF GameStep, Megaphone, Break, Quit, Launch, Noise, Move
        <4> QED BY <4>1, <4>2, <4>3 DEF Next
      <3> QED BY <1>2, <3>1 DEF MainInv
    <2> QED BY <2>2, <2>3
  <1> QED BY <1>1, <1>2 DEF MainInv

\* The sockets.
LEMMA SocketStep == TypeOK /\ MainInv /\ SocketInv /\ [Next]_vars => SocketInv'
  <1> SUFFICES ASSUME TypeOK, MainInv, SocketInv, [Next]_vars PROVE SocketInv'
    OBVIOUS
  <1> USE DEF client, board, cdp, game, clientVars
  <1>t. pc \in [Ports -> PCs] /\ events \in [Ports -> Seq(Events)]
        /\ wire \in [Ports -> {"none", "open", "broken"}]
    BY DEF TypeOK
  <1>1. CASE MainStep
    <2>1. CASE main = "start" /\ start(clients)
      <3>1. /\ \A p \in Ports : wire[p] = "none" /\ events[p] = << >> /\ pc[p] = "none"
            /\ UNCHANGED <<wire, events>>
        BY <2>1 DEF MainInv, SocketInv, start
      <3>2. \A p \in Ports : pc'[p] \in {"none", "connect"}
        BY <2>1, <3>1 DEF start
      <3> QED BY <3>1, <3>2 DEF SocketInv
    <2>2. CASE UNCHANGED clientVars \/ stop(clients)
      BY <2>2 DEF stop, SocketInv
    <2> QED BY <1>1, <2>1, <2>2 DEF MainStep
  <1>2. ASSUME NEW p \in Ports, LoopEnds(p) \/ ConnectFails(p) \/ PauseOver(p)
        PROVE  SocketInv'
    BY <1>2, <1>t DEF LoopEnds, ConnectFails, PauseOver, Goto, SocketInv
  <1>3. ASSUME NEW p \in Ports, Connect(p) \/ TimedOut(p) \/ Error(p) \/ Check(p)
                                  \/ ReadEnds(p)
        PROVE  SocketInv'
    BY <1>3, <1>t DEF Connect, TimedOut, Error, Check, ReadEnds, Goto, SocketInv
  <1>4. ASSUME NEW p \in Ports, Closed(p)
        PROVE  SocketInv'
    BY <1>4, <1>t DEF Closed, Goto, SocketInv
  <1>5. ASSUME NEW p \in Ports, NEW k, Reads(p, k)
        PROVE  SocketInv'
    BY <1>5, <1>t DEF Reads, Goto, SocketInv
  <1>6. ASSUME NEW p \in Ports, ClientStep(p) \/ ReadFrame(p)
        PROVE  SocketInv'
    BY <1>2, <1>3, <1>4, <1>5, <1>6 DEF ClientStep, CloseSocket, ErrSleepOver, ReadCreated,
        ReadFrame, ReadMalformed, ReadOther
  <1>7. ASSUME NEW p \in Ports, NEW e, events' = Reported(p, e), UNCHANGED <<pc, wire>>
        PROVE  SocketInv'
    BY <1>7, <1>t DEF Reported, SocketInv
  <1>8. ASSUME NEW to, NEW g, NEW lag, Megaphone(to, g, lag)
        PROVE  SocketInv'
    BY <1>8, <1>t DEF Megaphone, Then, SocketInv
  <1>9. ASSUME NEW p \in Ports, Break(p) \/ Quit(p) \/ Launch(p)
        PROVE  SocketInv'
    BY <1>9, <1>t DEF Break, Quit, Launch, SocketInv
  <1>10. ASSUME NEW ps \in SUBSET Ports, GameStep(ps)
         PROVE  SocketInv'
    BY <1>7, <1>8, <1>9, <1>10 DEF GameStep, Move, Noise
  <1> QED BY <1>1, <1>6, <1>10, Steps

\* The backlogs.
LEMMA BacklogStep == TypeOK /\ SocketInv /\ BacklogInv /\ [Next]_vars => BacklogInv'
  <1> SUFFICES ASSUME TypeOK, SocketInv, BacklogInv, [Next]_vars PROVE BacklogInv'
    OBVIOUS
  <1> USE DEF client, board, cdp, game, clientVars
  <1>t. /\ events \in [Ports -> Seq(Events)] /\ current \in [Ports -> Ids]
        /\ wire \in [Ports -> {"none", "open", "broken"}]
        /\ where \in [Ports -> Channels \cup {"lobby"}]
        /\ synced \in [Ports -> BOOLEAN]
    BY DEF TypeOK
  <1>r. \A p \in Ports : PortRight(events[p], current[p], synced[p], wire[p], where[p])
    BY DEF BacklogInv
  <1>1. ASSUME UNCHANGED <<events, current, synced, wire, where>>
        PROVE  BacklogInv'
    BY <1>1, <1>r DEF BacklogInv
  <1>2. ASSUME NEW p \in Ports, Connect(p) \/ Closed(p)
        PROVE  BacklogInv'
    <2>1. /\ events' = [events EXCEPT ![p] = << >>]
          /\ UNCHANGED <<current, where>>
          /\ \/ wire' = [wire EXCEPT ![p] = "none"] /\ synced' = synced
             \/ wire' = [wire EXCEPT ![p] = "open"] /\ synced' = [synced EXCEPT ![p] = FALSE]
      BY <1>2 DEF Connect, Closed
    <2>2. PortRight(events'[p], current'[p], synced'[p], wire'[p], where'[p])
      <3>1. events'[p] = << >> /\ (~synced'[p] \/ wire'[p] # "open")
        BY <1>t, <2>1
      <3> QED BY <3>1, PortFresh
    <2>3. ASSUME NEW q \in Ports \ {p}
          PROVE  PortRight(events'[q], current'[q], synced'[q], wire'[q], where'[q])
      BY <1>t, <1>r, <2>1
    <2> QED BY <2>2, <2>3 DEF BacklogInv
  <1>3. ASSUME NEW p \in Ports, NEW k, Reads(p, k), k # "created", UNCHANGED <<current, synced>>
        PROVE  BacklogInv'
    <2>1. /\ events[p] # << >> /\ events[p][1].kind # "created"
          /\ events' = [events EXCEPT ![p] = Tail(@)] /\ UNCHANGED <<wire, where>>
      BY <1>3, HeadEvent DEF Reads
    <2>2. PortRight(Tail(events[p]), current[p], synced[p], wire[p], where[p])
      BY <1>t, <1>r, <2>1, PortTail
    <2> QED BY <1>t, <1>r, <1>3, <2>1, <2>2 DEF BacklogInv
  <1>4. ASSUME NEW p \in Ports, ReadCreated(p)
        PROVE  BacklogInv'
    <2>1. /\ events[p] # << >> /\ Head(events[p]).kind = "created"
          /\ events' = [events EXCEPT ![p] = Tail(@)] /\ UNCHANGED <<wire, where>>
          /\ current' = [current EXCEPT ![p] = ws_url_to_channel_id(Head(events[p]).channel)]
          /\ synced' = [synced EXCEPT ![p] = TRUE]
      BY <1>4 DEF ReadCreated, Reads
    <2>2. /\ events[p][1].kind = "created"
          /\ Head(events[p]) = events[p][1]
      BY <2>1, HeadEvent
    <2>3. PortRight(Tail(events[p]), current'[p], synced'[p], wire[p], where[p])
      BY <1>t, <1>r, <2>1, <2>2, PortTail
    <2> QED BY <1>t, <1>r, <2>1, <2>3 DEF BacklogInv
  <1>5. ASSUME NEW p \in Ports, ClientStep(p) \/ ReadFrame(p)
        PROVE  BacklogInv'
    <2>1. CASE LoopEnds(p) \/ ConnectFails(p) \/ PauseOver(p) \/ TimedOut(p) \/ Error(p)
                 \/ Check(p) \/ ReadEnds(p)
      BY <1>1, <2>1 DEF LoopEnds, ConnectFails, PauseOver, TimedOut, Error, Check, ReadEnds
    <2>2. CASE CloseSocket(p) \/ ErrSleepOver(p) \/ Connect(p)
      BY <1>2, <2>2 DEF CloseSocket, ErrSleepOver
    <2>3. CASE ReadFrame(p) \/ ReadMalformed(p) \/ ReadOther(p)
      BY <1>3, <2>3 DEF ReadFrame, ReadMalformed, ReadOther
    <2> QED BY <1>4, <1>5, <2>1, <2>2, <2>3 DEF ClientStep
  <1>6. ASSUME NEW p \in Ports, NEW c \in Channels, Move(p, c)
        PROVE  BacklogInv'
    <2> DEFINE e == [kind |-> "created", channel |-> c]
    <2>1. /\ events' = Reported(p, e) /\ where' = [where EXCEPT ![p] = c]
          /\ UNCHANGED <<current, synced, wire>>
      BY <1>6 DEF Move
    <2>2. e \in Events /\ e.kind = "created" /\ e.channel = c
      BY EventKinds
    <2> HIDE DEF e
    <2>3. CASE wire[p] = "open"
      <3>1. PortRight(Append(events[p], e), current[p], synced[p], wire[p], c)
        BY <1>t, <1>r, <2>2, <2>3, PortAppend
      <3> QED BY <1>t, <1>r, <2>1, <2>3, <3>1 DEF BacklogInv, Reported
    <2>4. CASE wire[p] # "open"
      <3>1. PortRight(events[p], current[p], synced[p], wire[p], c)
        BY <1>r, <2>4, PortLost
      <3> QED BY <1>t, <1>r, <2>1, <2>4, <3>1 DEF BacklogInv, Reported
    <2> QED BY <2>3, <2>4
  <1>7. ASSUME NEW p \in Ports, NEW k \in {"other", "malformed"}, Noise(p, k)
        PROVE  BacklogInv'
    <2> DEFINE e == [kind |-> k]
    <2>1. /\ events' = Reported(p, e) /\ wire[p] = "open"
          /\ UNCHANGED <<current, synced, wire, where>>
      BY <1>7 DEF Noise
    <2>2. e \in Events /\ e.kind # "created" /\ e.kind # "frame"
      BY EventKinds
    <2> HIDE DEF e
    <2>3. PortRight(Append(events[p], e), current[p], synced[p], wire[p], where[p])
      BY <1>t, <1>r, <2>1, <2>2, PortAppend
    <2> QED BY <1>t, <1>r, <2>1, <2>3 DEF BacklogInv, Reported
  <1>8. ASSUME NEW to \in SUBSET Channels, NEW g \in BOOLEAN, NEW lag \in SUBSET Ports,
               Megaphone(to, g, lag)
        PROVE  BacklogInv'
    <2>1. UNCHANGED <<current, synced, wire, where>>
      BY <1>8 DEF Megaphone
    <2>3. ASSUME NEW p \in Ports
          PROVE  PortRight(events'[p], current[p], synced[p], wire[p], where[p])
      <3>1. PICK old : /\ old = events[p] \/ \E e : LateCopy(e, p, to, g, lag) /\ old = Append(events[p], e)
                       /\ events'[p] = old \/ \E e : NewCopy(e, p, to, g) /\ events'[p] = Append(old, e)
        BY <1>8, MegaphoneAt
      <3>2. PortRight(old, current[p], synced[p], wire[p], where[p]) /\ old \in Seq(Events)
        <4>1. CASE old = events[p]
          BY <1>t, <1>r, <4>1
        <4>2. ASSUME NEW e, LateCopy(e, p, to, g, lag), old = Append(events[p], e)
              PROVE  PortRight(old, current[p], synced[p], wire[p], where[p]) /\ old \in Seq(Events)
          <5>1. e \in Events /\ e.kind = "frame" /\ e.late /\ wire[p] = "open"
            BY <4>2, EventKinds DEF LateCopy
          <5> QED BY <1>t, <1>r, <4>2, <5>1, PortAppend
        <4> QED BY <3>1, <4>1, <4>2
      <3>3. ASSUME NEW e, NewCopy(e, p, to, g), events'[p] = Append(old, e)
            PROVE  PortRight(events'[p], current[p], synced[p], wire[p], where[p])
        <4>1. /\ e \in Events /\ e.kind = "frame" /\ wire[p] = "open"
              /\ where[p] # "lobby" /\ e.channel = where[p]
          BY <3>3, EventKinds, ChannelAssumption DEF NewCopy
        <4> QED BY <3>2, <3>3, <4>1, PortAppend
      <3> QED BY <3>1, <3>2, <3>3
    <2> QED BY <2>1, <2>3 DEF BacklogInv
  <1>9. ASSUME NEW p \in Ports, Break(p) \/ Quit(p) \/ Launch(p)
        PROVE  BacklogInv'
    <2>1. /\ UNCHANGED <<events, current, synced>>
          /\ \A q \in Ports : wire'[q] # "open" \/ where'[q] = "lobby"
                              \/ (wire'[q] = wire[q] /\ where'[q] = where[q])
      BY <1>t, <1>9 DEF Break, Quit, Launch
    <2>2. ASSUME NEW q \in Ports
          PROVE  PortRight(events[q], current[q], synced[q], wire'[q], where'[q])
      BY <1>r, <2>1, PortLost
    <2> QED BY <2>1, <2>2 DEF BacklogInv
  <1>10. ASSUME NEW ps \in SUBSET Ports, GameStep(ps)
         PROVE  BacklogInv'
    BY <1>6, <1>7, <1>8, <1>9, <1>10 DEF GameStep
  <1>11. CASE MainStep
    BY <1>1, <1>11 DEF MainStep, start, stop
  <1> QED BY <1>5, <1>10, <1>11, Steps

\* The board and the calls of add().
LEMMA BoardStep == IInv /\ [Next]_vars => BoardInv'
  <1> SUFFICES ASSUME TypeOK, BacklogInv, BoardInv, [Next]_vars PROVE BoardInv'
    BY DEF IInv
  <1> USE DEF client, board, cdp, game, clientVars
  <1>t. /\ status \in [Ids -> {"none", "connected"}] /\ current \in [Ports -> Ids]
        /\ synced \in [Ports -> BOOLEAN]
        /\ stored \subseteq [port : Ports, id : Ids, sure : BOOLEAN, frame : Frames]
    BY DEF TypeOK
  <1>1. ASSUME UNCHANGED <<current, synced, board>>
        PROVE  BoardInv'
    BY <1>1 DEF BoardInv
  <1>2. ASSUME NEW p \in Ports, Connect(p)
        PROVE  BoardInv'
    <2>1. UNCHANGED <<current, board>> /\ synced' = [synced EXCEPT ![p] = FALSE]
      BY <1>2 DEF Connect
    <2> QED BY <1>t, <2>1 DEF BoardInv
  <1>3. ASSUME NEW p \in Ports, ReadCreated(p)
        PROVE  BoardInv'
    <2>1. PICK id : id = ws_url_to_channel_id(Head(events[p]).channel)
      OBVIOUS
    <2>2. /\ current' = [current EXCEPT ![p] = id]
          /\ status' = [status EXCEPT ![id] = "connected"]
          /\ synced' = [synced EXCEPT ![p] = TRUE] /\ stored' = stored
      BY <1>3, <2>1 DEF ReadCreated
    <2>3. id \in Ids
      <3>1. Head(events[p]).channel \in Channels
        BY <1>3, HeadEvent DEF ReadCreated, Reads
      <3> QED BY <2>1, <3>1 DEF ws_url_to_channel_id, Ids
    <2>4. \A c \in Ids : status[c] = "connected" => status'[c] = "connected"
      BY <1>t, <2>2
    <2>5. ASSUME NEW q \in Ports, synced'[q] PROVE status'[current'[q]] = "connected"
      BY <1>t, <2>2, <2>3, <2>4, <2>5 DEF BoardInv
    <2>6. ASSUME NEW r \in stored, r.sure
          PROVE  r.id = ws_url_to_channel_id(r.frame.channel) /\ status'[r.id] = "connected"
      BY <1>t, <2>4, <2>6 DEF BoardInv
    <2> QED BY <2>2, <2>5, <2>6 DEF BoardInv
  <1>4. ASSUME NEW p \in Ports, ReadFrame(p)
        PROVE  BoardInv'
    <2> DEFINE new == [port |-> p, id |-> current[p], sure |-> synced[p] /\ ~Head(events[p]).late,
                       frame |-> Head(events[p])]
    <2>1. /\ events[p] # << >> /\ events[p] \in Seq(Events) /\ Head(events[p]) = events[p][1]
          /\ events[p][1].kind = "frame" /\ stored' = stored \cup {new}
          /\ UNCHANGED <<current, status, synced>>
      BY <1>4, HeadEvent DEF ReadFrame, Reads, TypeOK
    <2>2. ~events[p][1].late => Right(events[p], current[p], synced[p], 1, events[p][1].channel)
      <3>1. 1 \in 1..Len(events[p])
        BY <2>1
      <3> QED BY <2>1, <3>1 DEF BacklogInv, PortRight
    <2>3. ASSUME new.sure
          PROVE  new.id = ws_url_to_channel_id(new.frame.channel) /\ status[new.id] = "connected"
      <3>1. \A l \in 1..(1 - 1) : FALSE
        OBVIOUS
      <3> QED BY <2>1, <2>2, <2>3, <3>1 DEF Right, BoardInv
    <2> HIDE DEF new
    <2> QED BY <2>1, <2>3 DEF BoardInv
  <1>5. ASSUME NEW p \in Ports, ClientStep(p) \/ ReadFrame(p)
        PROVE  BoardInv'
    <2>1. CASE LoopEnds(p) \/ ConnectFails(p) \/ PauseOver(p) \/ TimedOut(p) \/ Error(p)
                 \/ Check(p) \/ ReadEnds(p)
               \/ CloseSocket(p) \/ ErrSleepOver(p)
      BY <1>1, <2>1 DEF LoopEnds, ConnectFails, PauseOver, Error, Check, TimedOut, ErrSleepOver,
            CloseSocket, ReadEnds, Closed
    <2>2. CASE ReadMalformed(p) \/ ReadOther(p)
      BY <1>1, <2>2 DEF ReadMalformed, ReadOther
    <2> QED BY <1>2, <1>3, <1>4, <1>5, <2>1, <2>2 DEF ClientStep
  <1>6. CASE MainStep
    BY <1>1, <1>6 DEF MainStep, start, stop
  <1>7. ASSUME NEW ps \in SUBSET Ports, GameStep(ps)
        PROVE  BoardInv'
    BY <1>1, <1>7 DEF GameStep, Megaphone, Break, Quit, Launch, Noise, Move
  <1> QED BY <1>5, <1>6, <1>7, Steps

LEMMA InvInit == Init => IInv
  <1> SUFFICES ASSUME ClientInit PROVE IInv
    BY DEF Init
  <1>1. TypeOK
    <2>1. << >> \in Seq(Events)
      OBVIOUS
    <2> QED BY <2>1, BoundsAssumption DEF ClientInit, TypeOK, PCs, Ids
  <1>2. BacklogInv
    <2>1. ASSUME NEW p \in Ports
          PROVE  events[p] = << >> /\ synced[p] = FALSE
      BY DEF ClientInit
    <2> QED BY <2>1, PortFresh DEF BacklogInv
  <1>3. SocketInv
    BY DEF ClientInit, SocketInv
  <1> QED BY <1>1, <1>2, <1>3 DEF ClientInit, BoardInv, MainInv, IInv

-----------------------------------------------------------------------------
(* The theorems about the clients *)

\* Between what a game does and what its client makes of it there may be any
\* backlog: what the client will take the channel to be at each frame of it is
\* the channel of the frame, or the client knows of no channel yet
\* (multi_cdp.py:125-177).
THEOREM InvCorrect == Spec => []IInv
  <1>1. IInv /\ [Next]_vars => IInv'
    BY TypeStep, MainInvStep, SocketStep, BacklogStep, BoardStep DEF IInv
  <1> QED BY InvInit, <1>1, PTL DEF Spec

\* A message is stored under the channel it was sent on, and that channel is
\* shown as connected, once the debugging socket it came over has told of a
\* channel, unless it is late (multi_cdp.py:152-177).
THEOREM FramesCorrect == Spec => []SyncedFramesRight
  <1>1. IInv => SyncedFramesRight
    BY DEF IInv, BoardInv, SyncedFramesRight
  <1> QED BY <1>1, InvCorrect, PTL

\* While a client reads, the channel that it will take its game to be in when it
\* has read its backlog is the game's, if its socket has told of one, whatever
\* time-outs, lost sockets, restarts of games and late frames there were
\* (multi_cdp.py:125-160).
THEOREM FollowedCorrect == Spec => []MoveIsFollowed
  <1>1. IInv => MoveIsFollowed
    <2> SUFFICES ASSUME IInv, NEW p \in Ports, wire[p] = "open", where[p] # "lobby"
                 PROVE  Takes(p, ws_url_to_channel_id(where[p]))
      BY DEF MoveIsFollowed
    <2>1. events[p] \in Seq(Events) /\ Len(events[p]) \in Nat /\ DOMAIN events[p] = 1..Len(events[p])
      BY DEF IInv, TypeOK
    <2>2. Right(events[p], current[p], synced[p], Len(events[p]) + 1, where[p])
      BY DEF IInv, BacklogInv, PortRight
    <2>3. (Len(events[p]) + 1) - 1 = Len(events[p])
      BY <2>1
    <2>4. ASSUME Created(p) = {}, synced[p]
          PROVE  current[p] = ws_url_to_channel_id(where[p])
      BY <2>1, <2>2, <2>3, <2>4 DEF Right, Created
    <2>5. ASSUME NEW i \in Created(p), \A j \in Created(p) : j <= i
          PROVE  events[p][i].channel = where[p]
      <3>1. i \in 1..Len(events[p]) /\ events[p][i].kind = "created"
        BY <2>1 DEF Created
      <3>2. ASSUME NEW l \in (i + 1)..Len(events[p]) PROVE events[p][l].kind # "created"
        <4>1. l \in 1..Len(events[p]) /\ ~(l <= i)
          BY <2>1, <3>1
        <4> QED BY <2>1, <2>5, <4>1 DEF Created
      <3> QED BY <2>2, <2>3, <3>1, <3>2 DEF Right
    <2> QED BY <2>4, <2>5 DEF Takes
  <1> QED BY <1>1, InvCorrect, PTL

-----------------------------------------------------------------------------
(* The store: what is proved of it in MessageStore_proofs holds of the      *)
(* instance that the clients share                                          *)

Proved == INSTANCE MessageStore_proofs WITH
    Threads <- Ports, Channels <- Ids, Texts <- 1..MaxFrames,
    MsgIds <- (1..MaxFrames) \X Channels, Queues <- {},
    MSG_ID_TTL <- 1, GLOBAL_DEDUP_WINDOW <- 1, MAX_MESSAGES_PER_CHANNEL <- 1 + MaxFrames,
    MaxClock <- 0, MaxCalls <- 2 * MaxFrames * Cardinality(Ports),
    clock <- 0, pc <- adding, sseQueues <- {}, inbox <- << >>, since <- << >>

\* The bound on the calls is a number.
LEMMA MaxCallsNat == 2 * MaxFrames * Cardinality(Ports) \in Nat
  <1>1. IsFiniteSet(Ports)
    <2>1. IsFiniteSet(CDP_PORT_START..CDP_PORT_END)
      BY PortAssumption, FS_Interval
    <2> QED BY <2>1, PortAssumption, FS_Subset
  <1>2. Cardinality(Ports) \in Nat
    BY <1>1, FS_CardinalityType
  <1>3. 2 * MaxFrames \in Nat
    BY BoundsAssumption
  <1> QED BY <1>2, <1>3

\* PassiveMonitor has an instance of MessageStore, and this module one of its
\* theorems: they have the same definitions.
LEMMA SameTypes == Proved!TypeOK <=> Store!TypeOK
  BY DEF Proved!TypeOK, Store!TypeOK, Proved!IsDict, Store!IsDict, Proved!Msg, Store!Msg,
      Proved!Rec, Store!Rec, Proved!Call, Store!Call, Proved!Note, Store!Note,
      Proved!Events, Store!Events, Proved!Scopes, Store!Scopes, Proved!Ids, Store!Ids,
      Proved!PCs, Store!PCs, Proved!NoCall, Store!NoCall, Proved!NoNote, Store!NoNote,
      Proved!Sighting, Store!Sighting

LEMMA SameInit == Store!Init => Proved!Init
  BY DEF Store!Init, Proved!Init, Store!NoCall, Proved!NoCall, Store!NoNote, Proved!NoNote

LEMMA SameCall ==
    ASSUME NEW p \in Ports, NEW c \in Ids, NEW id \in (1..MaxFrames) \X Channels,
           NEW x \in 1..MaxFrames, Store!CallAdd(p, c, id, x)
    PROVE  Proved!Next
  <1>1. Proved!CallAdd(p, c, id, x)
    BY DEF Store!CallAdd, Proved!CallAdd, Store!Goto, Proved!Goto, Store!memVars, Proved!memVars,
        Store!sseVars, Proved!sseVars, Store!history, Proved!history
  <1> QED BY <1>1 DEF Proved!Next

LEMMA SameContinue ==
    ASSUME NEW p \in Ports, Store!Continue(p)
    PROVE  Proved!Next
  <1> USE DEF Store!Goto, Proved!Goto, Store!Return, Proved!Return, Store!NoCall, Proved!NoCall,
        Store!NoNote, Proved!NoNote,
        Store!memVars, Proved!memVars, Store!sseVars, Proved!sseVars, Store!history, Proved!history,
        Store!IdKey, Proved!IdKey, Store!TextKey, Proved!TextKey, Store!Now, Proved!Now, Store!Noted, Proved!Noted,
        Store!Entry, Proved!Entry, Store!LiveRecs, Proved!LiveRecs, Store!LiveIds, Proved!LiveIds,
        Store!PassFirst, Proved!PassFirst, Store!HeardElsewhere, Proved!HeardElsewhere,
        Store!Widened, Proved!Widened
  <1>1. CASE Store!AddRetransmit(p)
    BY <1>1 DEF Store!AddRetransmit, Proved!AddRetransmit, Proved!Locked, Proved!Continue, Proved!Next
  <1>2. CASE Store!AddPromote(p)
    BY <1>2 DEF Store!AddPromote, Proved!AddPromote, Proved!Locked, Proved!Continue, Proved!Next
  <1>3. CASE Store!AddRepeat(p)
    BY <1>3 DEF Store!AddRepeat, Proved!AddRepeat, Proved!Locked, Proved!Continue, Proved!Next
  <1>4. CASE Store!AddNew(p)
    BY <1>4 DEF Store!AddNew, Proved!AddNew, Store!Pushed, Proved!Pushed,
        Proved!Locked, Proved!Continue, Proved!Next
  <1>5. CASE Store!Dump(p)
    BY <1>5 DEF Store!Dump, Proved!Dump, Proved!Continue, Proved!Next
  <1>6. CASE Store!Snapshot(p)
    BY <1>6 DEF Store!Snapshot, Proved!Snapshot, Proved!Continue, Proved!Next
  <1>7. CASE Store!PutDone(p)
    BY <1>7 DEF Store!PutDone, Proved!PutDone, Proved!Continue, Proved!Next
  <1>8. CASE Store!Save(p)
    BY <1>8 DEF Store!Save, Proved!Save, Proved!Continue, Proved!Next
  <1> QED BY <1>1, <1>2, <1>3, <1>4, <1>5, <1>6, <1>7, <1>8 DEF Store!Continue, Store!Locked

\* The store does what module MessageStore says.
LEMMA StoreStep ==
    ASSUME TypeOK, [Next]_vars
    PROVE  [Proved!Next]_(Proved!vars)
  <1>1. CASE UNCHANGED storeVars
    BY <1>1 DEF storeVars, Proved!vars, Proved!memVars, Proved!sseVars, Proved!callVars, Proved!history
  <1>2. ASSUME NEW p \in Ports, Add(p)
        PROVE  Proved!Next
    BY <1>2, SameContinue DEF Add
  <1>3. ASSUME NEW p \in Ports, ReadAndAdd(p)
        PROVE  Proved!Next
    <2>1. Head(events[p]) \in Frames /\ current[p] \in Ids
      BY <1>3, HeadEvent DEF ReadAndAdd, ReadFrame, Reads, TypeOK
    <2>2. /\ Head(events[p]).text \in 1..MaxFrames
          /\ <<Head(events[p]).text, Head(events[p]).channel>> \in (1..MaxFrames) \X Channels
      BY <2>1 DEF Frames
    <2> QED BY <1>3, <2>1, <2>2, SameCall DEF ReadAndAdd
  <1>4. UNCHANGED storeVars \/ \E p \in Ports : Add(p) \/ ReadAndAdd(p)
    BY DEF Next, vars, Main, Interrupt, Probe, Probed, from_port_range, remove_client, Start, Thread
  <1> QED BY <1>1, <1>2, <1>3, <1>4

-----------------------------------------------------------------------------
(* What the store makes of the copies of a megaphone *)

\* The id that add() gives a copy; there is one message of a text at most; and
\* the copies of a text came from two channels that the monitor cannot tell apart.
Key(r) == <<r.id, <<r.frame.text, r.frame.channel>>>>
Alone(x) == \A i, j \in Store!Refs : heap[i].text = x /\ heap[j].text = x => i = j
Unsure(x) == \E r, q \in Copies(x) : r.frame.channel # q.frame.channel /\ ~ToldApart(r, q)
\* Nothing expires, as the clock stands still.
AliveInv ==
    /\ \A x \in DOMAIN dedup : dedup[x].expire > 0
    /\ \A k \in DOMAIN seenIds : seenIds[k] > 0
\* A frame that has been handled, or will be.  The frames of a megaphone are
\* alike, but for the channels of a global one.
Sent(e) ==
    \/ \E r \in stored : r.frame = e
    \/ \E p \in Ports : \E k \in DOMAIN events[p] : events[p][k] = e /\ e.kind = "frame"
FrameInv == \A e \in Frames : Sent(e) =>
    /\ e.text <= heard
    /\ \A f \in Frames : Sent(f) /\ f.text = e.text =>
          f.global = e.global /\ (e.global \/ f.channel = e.channel)
\* A thread in the store brings a copy, and a copy has been seen, or a thread is
\* about to look.
CallInv == \A p \in Ports : adding[p] # "idle" =>
    \E r \in stored : Store!IdKey(p) = Key(r) /\ Store!TextKey(p) = r.frame.text
ArrivedInv == \A r \in stored :
    Key(r) \in DOMAIN seenIds \/ \E p \in Ports : adding[p] = "lock" /\ Store!IdKey(p) = Key(r)
\* As long as there is one message of a text, all channels of the copies are in
\* its record; what is in the record is the channel of a copy.
SeenInv == \A k \in DOMAIN seenIds : LET x == k[2][1] IN
    /\ x \in DOMAIN dedup
    /\ Alone(x) => k[1] \in dedup[x].channels
RecordInv == \A x \in DOMAIN dedup : \A c \in dedup[x].channels :
    \E r \in Copies(x) : r.id = c /\ Key(r) \in DOMAIN seenIds
\* A message has a record; two copies with different ids have made it global; and
\* there is no other one of the text, unless copies could not be told apart.
HeapInv == \A i \in Store!Refs :
    /\ heap[i].text \in DOMAIN dedup
    /\ heap[i].scope = "global" => \E r, q \in Copies(heap[i].text) : r.id # q.id
    /\ Alone(heap[i].text) \/ Unsure(heap[i].text)

\* What is proved of every store.
StoreInv == Proved!TypeInv /\ Proved!DedupInv

LEMMA StoreInit == Store!Init => StoreInv
  BY SameInit, MaxCallsNat, BoundsAssumption, Proved!StoreInvInit DEF StoreInv, Proved!StoreInv

LEMMA StoreInvStep == TypeOK /\ StoreInv /\ [Next]_vars => StoreInv'
  BY StoreStep, MaxCallsNat, BoundsAssumption, Proved!TypeStep, Proved!DedupStep DEF StoreInv

\* The state of the store, as far as these proofs need it.
LEMMA StoreTypes ==
    ASSUME StoreInv
    PROVE  /\ Store!TypeOK
           /\ Len(heap) \in Nat /\ Store!Refs = 1..Len(heap)
           /\ DOMAIN heap = 1..Len(heap)
           /\ \A i \in Store!Refs : heap[i].text \in 1..MaxFrames
           /\ dedup \in [DOMAIN dedup -> [msg : Nat, channels : SUBSET Ids, expire : Nat,
                                         is_global : BOOLEAN]]
           /\ seenIds \in [DOMAIN seenIds -> Nat]
           /\ DOMAIN seenIds \subseteq Ids \X ((1..MaxFrames) \X Channels)
           /\ adding \in [Ports -> Store!PCs] /\ DOMAIN call = Ports
           /\ Store!DedupConsistent
           /\ \A p \in Ports : adding[p] # "idle" => call[p].now = 0
  <1>1. Store!TypeOK
    BY SameTypes DEF StoreInv, Proved!TypeInv
  <1>2. Len(heap) \in Nat /\ Store!Refs = 1..Len(heap) /\ DOMAIN heap = 1..Len(heap)
        /\ \A i \in Store!Refs : heap[i] \in Store!Msg
    BY <1>1 DEF Store!TypeOK, Store!Refs
  <1>3. \A i \in Store!Refs : heap[i].text \in 1..MaxFrames
    BY <1>2 DEF Store!Msg
  <1>4. Store!DedupConsistent
    <2>1. Proved!DedupConsistent
      BY DEF StoreInv, Proved!DedupInv
    <2> QED BY <2>1 DEF Proved!DedupConsistent, Store!DedupConsistent, Proved!Refs, Store!Refs
  <1>5. \A p \in Ports : adding[p] # "idle" => call[p].now = 0
    <2>1. \A p \in Ports : adding[p] # "idle" => call[p] \in Proved!Call /\ call[p].now <= 0
      BY DEF StoreInv, Proved!TypeInv, Proved!LocalsOK
    <2> QED BY <2>1 DEF Proved!Call
  <1> QED BY <1>1, <1>2, <1>3, <1>4, <1>5 DEF Store!TypeOK, Store!IsDict, Store!Rec, Store!Ids

\* What the locked section of add() may make of the call of a port.
Text(p) == Store!TextKey(p)
Channel(p) == call[p].channel_id
Dropped(p) ==
    /\ Store!IdKey(p) \in DOMAIN seenIds /\ DOMAIN seenIds' = DOMAIN seenIds
    /\ UNCHANGED <<dedup, heap>>
Others(p) ==
    /\ Store!IdKey(p) \notin DOMAIN seenIds
    /\ DOMAIN seenIds' = DOMAIN seenIds \cup {Store!IdKey(p)}
    /\ DOMAIN dedup' = DOMAIN dedup \cup {Text(p)}
    /\ \A x \in DOMAIN dedup \ {Text(p)} : dedup'[x] = dedup[x]
Widens(p) ==
    /\ Others(p)
    /\ Text(p) \in DOMAIN dedup /\ Channel(p) \notin dedup[Text(p)].channels
    /\ dedup'[Text(p)].channels = dedup[Text(p)].channels \cup {Channel(p)}
    /\ Len(heap') = Len(heap)
    /\ \A i \in 1..Len(heap) : /\ heap'[i].text = heap[i].text
                               /\ i # dedup[Text(p)].msg => heap'[i].scope = heap[i].scope
Keeps(p) ==
    /\ Others(p)
    /\ Text(p) \in DOMAIN dedup => Channel(p) \in dedup[Text(p)].channels
    /\ dedup'[Text(p)].channels = {Channel(p)}
    /\ Len(heap') = Len(heap) + 1
    /\ \A i \in 1..Len(heap) : heap'[i] = heap[i]
    /\ heap'[Len(heap) + 1].text = Text(p) /\ heap'[Len(heap) + 1].scope = "server"

\* As the clock stands still, nothing is pruned.
LEMMA NothingPruned ==
    ASSUME StoreInv, AliveInv
    PROVE  Store!LiveRecs(0) = dedup /\ Store!LiveIds(0) = seenIds
  <1>1. {x \in DOMAIN dedup : dedup[x].expire > 0} = DOMAIN dedup
        /\ {k \in DOMAIN seenIds : seenIds[k] > 0} = DOMAIN seenIds
    BY DEF AliveInv
  <1> QED BY <1>1, StoreTypes DEF Store!LiveRecs, Store!LiveIds

LEMMA LockedEffect ==
    ASSUME StoreInv, AliveInv, NEW p \in Ports, Store!Locked(p)
    PROVE  /\ adding[p] = "lock" /\ adding'[p] # "lock"
           /\ adding'[p] # "idle" => call'[p] = call[p]
           /\ \A q \in Ports \ {p} : adding'[q] = adding[q] /\ call'[q] = call[q]
           /\ Dropped(p) \/ Widens(p) \/ Keeps(p)
           /\ AliveInv'
  <1> USE DEF Store!IdKey, Text, Channel, Store!TextKey, Store!Now
  <1>t. /\ adding \in [Ports -> Store!PCs] /\ DOMAIN call = Ports /\ Len(heap) \in Nat
        /\ heap \in Seq(Store!Msg)
    BY StoreTypes DEF Store!TypeOK
  <1>1. adding[p] = "lock" /\ call[p].now = 0
    <2>1. adding[p] = "lock"
      BY DEF Store!Locked, Store!AddRetransmit, Store!AddPromote, Store!AddRepeat, Store!AddNew,
          Store!PassFirst
    <2> QED BY <2>1, StoreTypes
  <1>2. CASE Store!AddRetransmit(p)
    <2>1. /\ call[p].now = 0 /\ dedup' = dedup /\ heap' = heap /\ Store!IdKey(p) \in DOMAIN seenIds
          /\ seenIds' = Store!Entry(seenIds, Store!IdKey(p), 0 + 1)
          /\ adding' = [adding EXCEPT ![p] = "idle"]
          /\ call' = [call EXCEPT ![p] = Store!NoCall]
      BY <1>1, <1>2, NothingPruned DEF Store!AddRetransmit, Store!Return, Store!Goto
    <2>2. Dropped(p)
      BY <2>1 DEF Dropped, Store!Entry
    <2>3. AliveInv'
      BY <2>1 DEF AliveInv, Store!Entry
    <2> QED BY <1>1, <1>t, <2>1, <2>2, <2>3
  <1>3. ASSUME Store!PassFirst(p)
        PROVE  /\ Store!IdKey(p) \notin DOMAIN seenIds
               /\ DOMAIN seenIds' = DOMAIN seenIds \cup {Store!IdKey(p)}
               /\ \A k \in DOMAIN seenIds' : seenIds'[k] > 0
    <2>1. /\ Store!IdKey(p) \notin DOMAIN seenIds
          /\ seenIds' = Store!Entry(seenIds, Store!IdKey(p), 0 + 1)
      BY <1>1, <1>3, NothingPruned DEF Store!PassFirst
    <2> QED BY <2>1 DEF AliveInv, Store!Entry
  <1>4. CASE Store!AddPromote(p) \/ Store!AddRepeat(p)
    <2> DEFINE rec == dedup[Text(p)]
               new == [msg |-> rec.msg, channels |-> rec.channels \cup {Channel(p)},
                       expire |-> 0 + 1, is_global |-> TRUE]
    <2>1. /\ Store!PassFirst(p) /\ Text(p) \in DOMAIN dedup /\ Channel(p) \notin rec.channels
          /\ dedup' = Store!Entry(dedup, Text(p), new)
      BY <1>1, <1>4, NothingPruned DEF Store!AddPromote, Store!AddRepeat, Store!HeardElsewhere, Store!Widened
    <2>2. /\ DOMAIN dedup' = DOMAIN dedup \cup {Text(p)}
          /\ dedup'[Text(p)].channels = rec.channels \cup {Channel(p)} /\ dedup'[Text(p)].expire = 1
          /\ \A x \in DOMAIN dedup \ {Text(p)} : dedup'[x] = dedup[x]
      BY <2>1 DEF Store!Entry
    <2>3. /\ Len(heap') = Len(heap)
          /\ \A i \in 1..Len(heap) : /\ heap'[i].text = heap[i].text
                                     /\ i # rec.msg => heap'[i].scope = heap[i].scope
      <3>1. CASE heap' = heap
        BY <3>1
      <3>2. CASE heap' = [heap EXCEPT ![rec.msg].scope = "global"]
        <4>1. \A i \in 1..Len(heap) : heap[i] \in Store!Msg
          BY <1>t
        <4>2. DOMAIN heap' = DOMAIN heap /\ Len(heap') = Len(heap)
          BY <1>t, <3>2
        <4>3. \A i \in 1..Len(heap) : heap'[i] = IF i = rec.msg THEN [heap[i] EXCEPT !.scope = "global"]
                                                 ELSE heap[i]
          BY <1>t, <3>2
        <4> QED BY <4>1, <4>2, <4>3 DEF Store!Msg
      <3> QED BY <1>4, <3>1, <3>2 DEF Store!AddPromote, Store!AddRepeat
    <2>4. Widens(p) /\ AliveInv'
      <3> HIDE DEF Text, Channel, new
      <3>1. Others(p)
        BY <1>3, <2>1, <2>2 DEF Others
      <3>2. \A x \in DOMAIN dedup' : dedup'[x].expire > 0
        <4>1. \A x \in DOMAIN dedup' : x = Text(p) \/ x \in DOMAIN dedup \ {Text(p)}
          BY <2>2
        <4> QED BY <2>2, <4>1 DEF AliveInv
      <3>3. Widens(p)
        BY <2>1, <2>2, <2>3, <3>1 DEF Widens
      <3> QED BY <1>3, <2>1, <3>2, <3>3 DEF AliveInv
    <2>5. \/ call' = call /\ adding' = [adding EXCEPT ![p] = "dump"]
          \/ call' = [call EXCEPT ![p] = Store!NoCall] /\ adding' = [adding EXCEPT ![p] = "idle"]
      BY <1>4 DEF Store!AddPromote, Store!AddRepeat, Store!Return, Store!Goto
    <2> QED BY <1>1, <1>t, <2>4, <2>5
  <1>5. CASE Store!AddNew(p)
    <2> DEFINE msg == [seq |-> seq + 1, channel_id |-> Channel(p), text |-> Text(p),
                       scope |-> "server", time |-> 0]
               new == [msg |-> Len(heap) + 1, channels |-> {Channel(p)}, expire |-> 0 + 1,
                       is_global |-> FALSE]
    <2>1. /\ Store!PassFirst(p) /\ (Text(p) \in DOMAIN dedup => Channel(p) \in dedup[Text(p)].channels)
          /\ heap' = Append(heap, msg)
          /\ dedup' = Store!Entry(dedup, Text(p), new)
          /\ call' = call /\ adding' = [adding EXCEPT ![p] = "dump"]
      BY <1>1, <1>5, NothingPruned DEF Store!AddNew, Store!HeardElsewhere, Store!Goto
    <2>2. /\ DOMAIN dedup' = DOMAIN dedup \cup {Text(p)}
          /\ dedup'[Text(p)].channels = {Channel(p)} /\ dedup'[Text(p)].expire = 1
          /\ \A x \in DOMAIN dedup \ {Text(p)} : dedup'[x] = dedup[x]
      BY <2>1 DEF Store!Entry
    <2>3. /\ Len(heap') = Len(heap) + 1 /\ heap'[Len(heap) + 1] = msg
          /\ heap'[Len(heap) + 1].text = Text(p) /\ heap'[Len(heap) + 1].scope = "server"
          /\ \A i \in 1..Len(heap) : heap'[i] = heap[i]
      BY <1>t, <2>1
    <2>4. Keeps(p) /\ AliveInv'
      <3> HIDE DEF Text, Channel, new, msg
      <3>1. Others(p)
        BY <1>3, <2>1, <2>2 DEF Others
      <3>2. \A x \in DOMAIN dedup' : dedup'[x].expire > 0
        <4>1. \A x \in DOMAIN dedup' : x = Text(p) \/ x \in DOMAIN dedup \ {Text(p)}
          BY <2>2
        <4> QED BY <2>2, <4>1 DEF AliveInv
      <3>3. Keeps(p)
        BY <2>1, <2>2, <2>3, <3>1 DEF Keeps
      <3> QED BY <1>3, <2>1, <3>2, <3>3 DEF AliveInv
    <2> QED BY <1>1, <1>t, <2>1, <2>4
  <1> QED BY <1>2, <1>4, <1>5 DEF Store!Locked

\* The store and the calls, together.
MemInv == AliveInv /\ CallInv /\ ArrivedInv /\ SeenInv /\ RecordInv /\ HeapInv

\* A copy that is not recognised although its channel has been heard: the two
\* cannot be told apart.
LEMMA KeepsUnsure ==
    ASSUME BoardInv, CallInv, RecordInv, NEW p \in Ports, adding[p] = "lock", Keeps(p),
           Text(p) \in DOMAIN dedup
    PROVE  Unsure(Text(p))
  <1>1. PICK q \in stored : Store!IdKey(p) = Key(q) /\ Text(p) = q.frame.text
    BY DEF CallInv, Text
  <1>2. q.id = Channel(p)
    BY <1>1 DEF Store!IdKey, Key, Channel
  <1>3. PICK r \in Copies(Text(p)) : r.id = Channel(p) /\ Key(r) \in DOMAIN seenIds
    BY DEF RecordInv, Keeps
  <1>4. r \in stored /\ q \in Copies(Text(p)) /\ r.frame.text = q.frame.text
    BY <1>1 DEF Copies
  <1>5. r.frame.channel # q.frame.channel
    <2>1. Key(r) # Key(q)
      BY <1>1, <1>3 DEF Keeps, Others
    <2> QED BY <1>2, <1>3, <1>4, <2>1 DEF Key
  <1>6. ~ToldApart(r, q)
    BY <1>2, <1>3, <1>4 DEF ToldApart, BoardInv
  <1> QED BY <1>4, <1>5, <1>6 DEF Unsure

\* The locked section.
LEMMA LockedStep ==
    ASSUME StoreInv, BoardInv, MemInv, NEW p \in Ports, Store!Locked(p), stored' = stored
    PROVE  MemInv'
  <1>x. PICK x, c, k : x = Text(p) /\ c = Channel(p) /\ k = Store!IdKey(p)
    OBVIOUS
  <1>e. /\ adding[p] = "lock" /\ adding'[p] # "lock"
        /\ adding'[p] # "idle" => call'[p] = call[p]
        /\ \A q \in Ports \ {p} : adding'[q] = adding[q] /\ call'[q] = call[q]
        /\ Dropped(p) \/ Widens(p) \/ Keeps(p)
        /\ AliveInv'
    BY LockedEffect DEF MemInv
  <1>m. CallInv /\ ArrivedInv /\ SeenInv /\ RecordInv /\ HeapInv
    BY DEF MemInv
  <1>t. /\ Len(heap) \in Nat /\ Store!Refs = 1..Len(heap) /\ Store!Refs' = 1..Len(heap')
        /\ \A y \in DOMAIN dedup : /\ dedup[y].msg \in 1..Len(heap) /\ heap[dedup[y].msg].text = y
                                   /\ heap[dedup[y].msg].channel_id \in dedup[y].channels
    BY StoreTypes DEF Store!Refs, Store!DedupConsistent
  <1>q. PICK q \in stored : k = Key(q) /\ x = q.frame.text
    BY <1>e, <1>m, <1>x DEF CallInv, Text
  <1>k. q.id = c /\ k[1] = c /\ k[2][1] = x /\ q \in Copies(x)
    <2>1. k[1] = c
      BY <1>x DEF Store!IdKey, Channel
    <2>2. k[1] = q.id /\ k[2][1] = q.frame.text
      BY <1>q DEF Key
    <2> QED BY <1>q, <2>1, <2>2 DEF Copies
  <1>s. \A y : Copies(y)' = Copies(y) /\ (Unsure(y)' <=> Unsure(y))
    BY DEF Copies, Unsure, ToldApart
  <1>1. CallInv'
    <2>1. ASSUME NEW q2 \in Ports, adding'[q2] # "idle"
          PROVE  adding[q2] # "idle" /\ call'[q2] = call[q2]
      BY <1>e, <2>1
    <2> QED BY <1>m, <2>1 DEF CallInv, Store!IdKey, Store!TextKey, Key
  <1>2. ArrivedInv'
    <2>1. k \in DOMAIN seenIds' /\ DOMAIN seenIds \subseteq DOMAIN seenIds'
      BY <1>e, <1>x DEF Dropped, Widens, Keeps, Others
    <2>2. ASSUME NEW r \in stored PROVE Key(r) \in DOMAIN seenIds' \/ \E q2 \in Ports :
                 adding'[q2] = "lock" /\ Store!IdKey(q2)' = Key(r)
      <3>1. CASE Key(r) \in DOMAIN seenIds
        BY <2>1, <3>1
      <3>2. ASSUME NEW q2 \in Ports, adding[q2] = "lock", Store!IdKey(q2) = Key(r)
            PROVE  Key(r) \in DOMAIN seenIds' \/ (adding'[q2] = "lock" /\ Store!IdKey(q2)' = Key(r))
        <4>1. CASE q2 = p
          BY <1>x, <2>1, <3>2, <4>1
        <4>2. CASE q2 # p
          <5>1. adding'[q2] = "lock" /\ call'[q2] = call[q2]
            BY <1>e, <3>2, <4>2
          <5> QED BY <3>2, <5>1 DEF Store!IdKey
        <4> QED BY <4>1, <4>2
      <3> QED BY <1>m, <3>1, <3>2 DEF ArrivedInv
    <2> QED BY <2>2 DEF ArrivedInv, Key
  <1>3. CASE Dropped(p)
    <2>1. UNCHANGED <<dedup, heap>> /\ DOMAIN seenIds' = DOMAIN seenIds
      BY <1>3 DEF Dropped
    <2>2. \A y : Alone(y)' <=> Alone(y)
      BY <2>1 DEF Alone, Store!Refs
    <2>3. SeenInv'
      BY <1>m, <2>1, <2>2 DEF SeenInv
    <2>4. RecordInv'
      BY <1>m, <1>s, <2>1 DEF RecordInv, Key
    <2>5. HeapInv'
      BY <1>m, <1>s, <1>t, <2>1, <2>2 DEF HeapInv
    <2> QED BY <1>e, <1>1, <1>2, <2>3, <2>4, <2>5 DEF MemInv
  <1>4. CASE Widens(p)
    <2>1. /\ DOMAIN seenIds' = DOMAIN seenIds \cup {k} /\ x \in DOMAIN dedup /\ c \notin dedup[x].channels
          /\ DOMAIN dedup' = DOMAIN dedup \cup {x} /\ DOMAIN dedup' = DOMAIN dedup
          /\ dedup'[x].channels = dedup[x].channels \cup {c}
          /\ \A y \in DOMAIN dedup \ {x} : dedup'[y] = dedup[y]
          /\ Len(heap') = Len(heap)
          /\ \A i \in 1..Len(heap) : /\ heap'[i].text = heap[i].text
                                     /\ i # dedup[x].msg => heap'[i].scope = heap[i].scope
      BY <1>4, <1>x DEF Widens, Others
    <2>2. \A y : Alone(y)' <=> Alone(y)
      BY <1>t, <2>1 DEF Alone
    <2>3. SeenInv'
      BY <1>m, <1>k, <2>1, <2>2 DEF SeenInv
    <2>4. RecordInv'
      <3>1. ASSUME NEW y \in DOMAIN dedup', NEW d \in dedup'[y].channels
            PROVE  \E r \in Copies(y) : r.id = d /\ Key(r) \in DOMAIN seenIds'
        <4>1. CASE y = x /\ d = c
          BY <1>q, <1>k, <2>1, <4>1
        <4>2. CASE ~(y = x /\ d = c)
          <5>1. y \in DOMAIN dedup /\ d \in dedup[y].channels
            BY <2>1, <3>1, <4>2
          <5> QED BY <1>m, <2>1, <5>1 DEF RecordInv
        <4> QED BY <4>1, <4>2
      <3> QED BY <1>s, <3>1 DEF RecordInv, Key
    <2>5. HeapInv'
      <3>1. ASSUME NEW i \in 1..Len(heap), heap'[i].scope = "global"
            PROVE  \E r, r2 \in Copies(heap[i].text) : r.id # r2.id
        <4>1. CASE i = dedup[x].msg
          <5>1. PICK r \in Copies(x) : r.id = heap[i].channel_id
            BY <1>m, <1>t, <2>1, <4>1 DEF RecordInv
          <5>2. r.id # q.id /\ heap[i].text = x
            BY <1>t, <1>k, <2>1, <4>1, <5>1
          <5> QED BY <1>k, <5>1, <5>2
        <4>2. CASE i # dedup[x].msg
          BY <1>m, <1>t, <2>1, <3>1, <4>2 DEF HeapInv
        <4> QED BY <4>1, <4>2
      <3> QED BY <1>m, <1>s, <1>t, <2>1, <2>2, <3>1 DEF HeapInv
    <2> QED BY <1>e, <1>1, <1>2, <2>3, <2>4, <2>5 DEF MemInv
  <1>5. CASE Keeps(p)
    <2>1. /\ DOMAIN seenIds' = DOMAIN seenIds \cup {k}
          /\ DOMAIN dedup' = DOMAIN dedup \cup {x}
          /\ dedup'[x].channels = {c}
          /\ \A y \in DOMAIN dedup \ {x} : dedup'[y] = dedup[y]
          /\ Len(heap') = Len(heap) + 1
          /\ \A i \in 1..Len(heap) : heap'[i] = heap[i]
          /\ heap'[Len(heap) + 1].text = x /\ heap'[Len(heap) + 1].scope = "server"
      BY <1>5, <1>x DEF Keeps, Others
    <2>u. x \in DOMAIN dedup => Unsure(x)
      BY <1>e, <1>m, <1>x, <1>5, KeepsUnsure
    <2>2. 1..Len(heap') = 1..Len(heap) \cup {Len(heap) + 1}
      BY <1>t, <2>1
    <2>3. \A y : Alone(y)' => Alone(y)
      BY <1>t, <2>1, <2>2 DEF Alone
    <2>4. ASSUME NEW y, y # x PROVE Alone(y)' <=> Alone(y)
      BY <1>t, <2>1, <2>2, <2>4 DEF Alone
    <2>5. x \in DOMAIN dedup => ~Alone(x)'
      <3>1. ASSUME x \in DOMAIN dedup PROVE ~Alone(x)'
        <4>1. PICK m \in 1..Len(heap) : heap[m].text = x
          BY <1>t, <3>1
        <4>2. m # Len(heap) + 1 /\ m \in 1..Len(heap') /\ Len(heap) + 1 \in 1..Len(heap')
          BY <1>t, <2>2
        <4> QED BY <1>t, <2>1, <4>1, <4>2 DEF Alone
      <3> QED BY <3>1
    <2>6. SeenInv'
      <3>1. ASSUME NEW k2 \in DOMAIN seenIds'
            PROVE  /\ k2[2][1] \in DOMAIN dedup'
                   /\ Alone(k2[2][1])' => k2[1] \in dedup'[k2[2][1]].channels
        <4>1. CASE k2 = k
          BY <1>k, <2>1, <4>1
        <4>2. CASE k2 # k
          <5>1. k2[2][1] \in DOMAIN dedup /\ (Alone(k2[2][1]) => k2[1] \in dedup[k2[2][1]].channels)
            BY <1>m, <2>1, <4>2 DEF SeenInv
          <5> QED BY <2>1, <2>3, <2>5, <5>1
        <4> QED BY <4>1, <4>2
      <3> QED BY <3>1 DEF SeenInv
    <2>7. RecordInv'
      <3>1. ASSUME NEW y \in DOMAIN dedup', NEW d \in dedup'[y].channels
            PROVE  \E r \in Copies(y) : r.id = d /\ Key(r) \in DOMAIN seenIds'
        <4>1. CASE y = x
          BY <1>q, <1>k, <2>1, <3>1, <4>1
        <4>2. CASE y # x
          BY <1>m, <2>1, <3>1, <4>2 DEF RecordInv
        <4> QED BY <4>1, <4>2
      <3> QED BY <1>s, <3>1 DEF RecordInv, Key
    <2>8. HeapInv'
      <3>1. ASSUME NEW i \in 1..Len(heap'), NEW y, y = heap'[i].text
            PROVE  /\ y \in DOMAIN dedup'
                   /\ heap'[i].scope = "global" => \E r, r2 \in Copies(y) : r.id # r2.id
                   /\ Alone(y)' \/ Unsure(y)
        <4>1. CASE i = Len(heap) + 1
          <5>1. x \notin DOMAIN dedup => Alone(x)'
            <6>1. x \notin DOMAIN dedup => \A j \in 1..Len(heap) : heap[j].text # x
              BY <1>m, <1>t DEF HeapInv
            <6> QED BY <1>t, <2>1, <2>2, <6>1 DEF Alone
          <5> QED BY <2>1, <2>u, <3>1, <4>1, <5>1
        <4>2. CASE i # Len(heap) + 1
          <5>1. i \in 1..Len(heap) /\ heap'[i] = heap[i] /\ y = heap[i].text
            BY <2>1, <2>2, <3>1, <4>2
          <5>2. /\ y \in DOMAIN dedup
                /\ heap[i].scope = "global" => \E r, r2 \in Copies(y) : r.id # r2.id
                /\ Alone(y) \/ Unsure(y)
            BY <1>m, <1>t, <5>1 DEF HeapInv
          <5> QED BY <2>1, <2>4, <2>u, <5>1, <5>2
        <4> QED BY <4>1, <4>2
      <3> QED BY <1>s, <1>t, <3>1 DEF HeapInv
    <2> QED BY <1>e, <1>1, <1>2, <2>6, <2>7, <2>8 DEF MemInv
  <1> QED BY <1>e, <1>3, <1>4, <1>5

\* Every other step leaves what the store holds.
LEMMA RestStep ==
    ASSUME MemInv, UNCHANGED <<heap, dedup, seenIds>>, stored \subseteq stored',
           \A p \in Ports : adding[p] = "lock" => adding'[p] = "lock" /\ call'[p] = call[p],
           \A p \in Ports : adding'[p] # "idle" =>
               \/ adding[p] # "idle" /\ call'[p] = call[p]
               \/ \E r \in stored' : Store!IdKey(p)' = Key(r) /\ Store!TextKey(p)' = r.frame.text,
           \A r \in stored' \ stored : \E p \in Ports : adding'[p] = "lock" /\ Store!IdKey(p)' = Key(r)
    PROVE  MemInv'
  <1>m. CallInv /\ ArrivedInv /\ SeenInv /\ RecordInv /\ HeapInv
    BY DEF MemInv
  <1>s. \A y : Copies(y) \subseteq Copies(y)' /\ (Unsure(y) => Unsure(y)')
    <2>1. \A y : Copies(y) \subseteq Copies(y)'
      BY DEF Copies
    <2> QED BY <2>1 DEF Unsure, ToldApart
  <1>a. \A y : Alone(y)' <=> Alone(y)
    BY DEF Alone, Store!Refs
  <1>1. AliveInv'
    BY DEF MemInv, AliveInv
  <1>2. CallInv'
    BY <1>m DEF CallInv, Store!IdKey, Store!TextKey, Key
  <1>3. ArrivedInv'
    <2>1. ASSUME NEW r \in stored
          PROVE  Key(r) \in DOMAIN seenIds \/ \E p \in Ports : adding'[p] = "lock" /\ Store!IdKey(p)' = Key(r)
      BY <1>m DEF ArrivedInv, Store!IdKey
    <2> QED BY <2>1 DEF ArrivedInv, Key
  <1>4. SeenInv'
    BY <1>m, <1>a DEF SeenInv
  <1>5. RecordInv'
    BY <1>m, <1>s DEF RecordInv, Key
  <1>6. HeapInv'
    <2>1. ASSUME NEW i \in Store!Refs, heap[i].scope = "global"
          PROVE  \E r, q \in Copies(heap[i].text)' : r.id # q.id
      BY <1>m, <1>s, <2>1 DEF HeapInv
    <2> QED BY <1>m, <1>s, <1>a, <2>1 DEF HeapInv, Store!Refs
  <1> QED BY <1>1, <1>2, <1>3, <1>4, <1>5, <1>6 DEF MemInv

\* All steps.
LEMMA MemStep ==
    ASSUME TypeOK, StoreInv, BoardInv, MemInv, [Next]_vars
    PROVE  MemInv'
  <1> USE DEF client, board, cdp, game, clientVars
  <1>t. adding \in [Ports -> Store!PCs] /\ DOMAIN call = Ports
    BY StoreTypes
  <1>1. ASSUME UNCHANGED <<storeVars, stored>>
        PROVE  MemInv'
    BY <1>1, RestStep DEF storeVars
  <1>2. ASSUME NEW p \in Ports, Add(p)
        PROVE  MemInv'
    <2>1. stored' = stored
      BY <1>2 DEF Add
    <2>2. CASE Store!Locked(p)
      BY <2>1, <2>2, LockedStep
    <2>3. CASE ~Store!Locked(p)
      <3>1. Store!Dump(p) \/ Store!Snapshot(p) \/ Store!PutDone(p) \/ Store!Save(p)
        BY <1>2, <2>3 DEF Add, Store!Continue
      <3>2. UNCHANGED <<heap, dedup, seenIds>> /\ adding[p] \notin {"lock", "idle"}
        BY <3>1 DEF Store!Dump, Store!Snapshot, Store!PutDone, Store!Save, Store!memVars
      <3>3. \/ call' = call /\ \E l : adding' = [adding EXCEPT ![p] = l]
            \/ call' = [call EXCEPT ![p] = Store!NoCall] /\ adding' = [adding EXCEPT ![p] = "idle"]
        BY <3>1 DEF Store!Dump, Store!Snapshot, Store!PutDone, Store!Save, Store!Goto, Store!Return
      <3>4. /\ \A q \in Ports : adding[q] = "lock" => adding'[q] = "lock" /\ call'[q] = call[q]
            /\ \A q \in Ports : adding'[q] # "idle" => adding[q] # "idle" /\ call'[q] = call[q]
        BY <1>t, <3>2, <3>3
      <3> QED BY <2>1, <3>2, <3>4, RestStep
    <2> QED BY <2>2, <2>3
  <1>3. ASSUME NEW p \in Ports, ReadAndAdd(p)
        PROVE  MemInv'
    <2> DEFINE e == Head(events[p])
               r == [port |-> p, id |-> current[p], sure |-> synced[p] /\ ~e.late, frame |-> e]
    <2>1. /\ stored' = stored \cup {r} /\ UNCHANGED <<heap, dedup, seenIds>>
          /\ adding[p] = "idle" /\ adding' = [adding EXCEPT ![p] = "lock"]
          /\ call' = [call EXCEPT ![p] = [channel_id |-> current[p], msg_id |-> <<e.text, e.channel>>,
                                          text |-> e.text, now |-> 0]]
      BY <1>3 DEF ReadAndAdd, ReadFrame, Store!CallAdd, Store!Goto, Store!memVars
    <2>2. /\ adding'[p] = "lock" /\ Store!IdKey(p)' = Key(r) /\ Store!TextKey(p)' = r.frame.text
          /\ r \in stored'
      BY <1>t, <2>1 DEF Store!IdKey, Store!TextKey, Key
    <2>3. \A q \in Ports \ {p} : adding'[q] = adding[q] /\ call'[q] = call[q]
      BY <1>t, <2>1
    <2> HIDE DEF e, r
    <2>4. \A q \in stored' \ stored : \E q2 \in Ports : adding'[q2] = "lock" /\ Store!IdKey(q2)' = Key(q)
      BY <2>1, <2>2
    <2>5. \A q \in Ports : adding[q] = "lock" => adding'[q] = "lock" /\ call'[q] = call[q]
      BY <2>1, <2>3
    <2>6. \A q \in Ports : adding'[q] # "idle" =>
               \/ adding[q] # "idle" /\ call'[q] = call[q]
               \/ \E r2 \in stored' : Store!IdKey(q)' = Key(r2) /\ Store!TextKey(q)' = r2.frame.text
      BY <2>2, <2>3
    <2> QED BY <2>1, <2>4, <2>5, <2>6, RestStep
  <1>4. ASSUME NEW p \in Ports, ClientStep(p)
        PROVE  stored' = stored
    BY <1>4 DEF ClientStep, LoopEnds, Connect, ConnectFails, PauseOver, TimedOut, CloseSocket, Error, ErrSleepOver,
        Check, ReadEnds, Closed, ReadCreated, ReadMalformed, ReadOther
  <1>5. CASE Main \/ Interrupt \/ UNCHANGED vars
    BY <1>1, <1>5 DEF Main, Interrupt, Probe, Probed, from_port_range, remove_client, Start, start, stop, vars
  <1>6. CASE GameStep(Watched) /\ UNCHANGED <<mainVars, storeVars>>
    BY <1>1, <1>6 DEF GameStep, Megaphone, Break, Quit, Launch, Noise, Move
  <1>7. ASSUME NEW p \in Ports, Thread(p)
        PROVE  MemInv'
    BY <1>1, <1>2, <1>3, <1>4, <1>7 DEF Thread
  <1> QED BY <1>5, <1>6, <1>7 DEF Next

-----------------------------------------------------------------------------
(* The frames of a megaphone *)

\* A megaphone sends its own frames only.
LEMMA MegaphoneSent ==
    ASSUME TypeOK, NEW e \in Frames, Sent(e)', NEW to \in SUBSET Channels, NEW g \in BOOLEAN,
           NEW lag \in SUBSET Ports, Megaphone(to, g, lag)
    PROVE  Sent(e) \/ (e.text = heard + 1 /\ e.global = g /\ e.channel \in to)
  <1>t. events \in [Ports -> Seq(Events)] /\ e.kind = "frame"
    BY DEF TypeOK, Frames
  <1>2. ASSUME NEW q \in Ports, NEW k \in DOMAIN events'[q], events'[q][k] = e, ~Sent(e)
        PROVE  e.text = heard + 1 /\ e.global = g /\ e.channel \in to
    <2>1. PICK old : /\ old = events[q] \/ \E f : LateCopy(f, q, to, g, lag) /\ old = Append(events[q], f)
                     /\ events'[q] = old \/ \E f : NewCopy(f, q, to, g) /\ events'[q] = Append(old, f)
      BY MegaphoneAt
    <2>2. events[q] \in Seq(Events) /\ ~(k \in DOMAIN events[q] /\ events[q][k] = e)
      BY <1>t, <1>2 DEF Sent
    <2>3. ASSUME NEW s \in Seq(Events), NEW f \in Events, k \in DOMAIN Append(s, f), Append(s, f)[k] = e
          PROVE  e = f \/ (k \in DOMAIN s /\ s[k] = e)
      BY <2>3
    <2>4. old \in Seq(Events)
      BY <2>1, <2>2, EventKinds DEF LateCopy
    <2>5. (\E f : NewCopy(f, q, to, g) /\ e = f) \/ (k \in DOMAIN old /\ old[k] = e)
      BY <1>2, <2>1, <2>3, <2>4, EventKinds DEF NewCopy
    <2>6. (\E f : LateCopy(f, q, to, g, lag) /\ e = f) \/ ~(k \in DOMAIN old /\ old[k] = e)
      BY <2>1, <2>2, <2>3, EventKinds DEF LateCopy
    <2> QED BY <2>5, <2>6 DEF NewCopy, LateCopy
  <1>3. stored' = stored
    BY DEF Megaphone, board
  <1> QED BY <1>2, <1>3 DEF Sent

\* Every other step sends none.
ToSome == \E to \in SUBSET Channels, g \in BOOLEAN, lag \in SUBSET Ports :
              Megaphone(to, g, lag) /\ (g \/ \E c : to = {c})
LEMMA SentStep ==
    ASSUME TypeOK, [Next]_vars, ~ToSome, NEW e \in Frames, Sent(e)'
    PROVE  Sent(e)
  <1> USE DEF client, board, cdp, game, clientVars
  <1>t. events \in [Ports -> Seq(Events)] /\ e.kind = "frame"
    BY DEF TypeOK, Frames
  <1>1. ASSUME UNCHANGED <<stored, events>>
        PROVE  Sent(e)
    BY <1>1 DEF Sent
  <1>2. ASSUME NEW p \in Ports, UNCHANGED stored, events' = [events EXCEPT ![p] = << >>]
        PROVE  Sent(e)
    BY <1>t, <1>2 DEF Sent
  <1>3. ASSUME NEW p \in Ports, events[p] # << >>, events' = [events EXCEPT ![p] = Tail(@)],
               \A r \in stored' \ stored : r.frame = Head(events[p])
        PROVE  Sent(e)
    <2>1. CASE \E r \in stored' : r.frame = e
      <3>1. 1 \in DOMAIN events[p] /\ events[p][1] = Head(events[p])
        BY <1>t, <1>3
      <3> QED BY <1>t, <1>3, <2>1, <3>1 DEF Sent
    <2>2. ASSUME NEW q \in Ports, NEW k \in DOMAIN events'[q], events'[q][k] = e
          PROVE  Sent(e)
      <3>1. CASE q = p
        <4>1. k \in DOMAIN Tail(events[p]) /\ Tail(events[p])[k] = e
          BY <1>t, <1>3, <2>2, <3>1
        <4>2. k + 1 \in DOMAIN events[p] /\ events[p][k + 1] = e
          BY <1>t, <1>3, <4>1
        <4> QED BY <1>t, <4>2 DEF Sent
      <3>2. CASE q # p
        BY <1>t, <1>3, <2>2, <3>2 DEF Sent
      <3> QED BY <3>1, <3>2
    <2> QED BY <2>1, <2>2 DEF Sent
  <1>4. ASSUME NEW p \in Ports, ClientStep(p) \/ ReadFrame(p)
        PROVE  Sent(e)
    <2>1. CASE LoopEnds(p) \/ ConnectFails(p) \/ PauseOver(p) \/ TimedOut(p) \/ Error(p)
                 \/ Check(p) \/ ReadEnds(p)
      BY <1>1, <2>1 DEF LoopEnds, ConnectFails, PauseOver, TimedOut, Error, Check, ReadEnds
    <2>2. CASE CloseSocket(p) \/ ErrSleepOver(p) \/ Connect(p)
      BY <1>2, <2>2 DEF CloseSocket, ErrSleepOver, Closed, Connect
    <2>3. CASE ReadFrame(p) \/ ReadMalformed(p) \/ ReadOther(p) \/ ReadCreated(p)
      <3>1. events[p] # << >> /\ events' = [events EXCEPT ![p] = Tail(@)]
        BY <2>3 DEF ReadFrame, ReadMalformed, ReadOther, ReadCreated, Reads
      <3>2. \A r \in stored' \ stored : r.frame = Head(events[p])
        BY <2>3 DEF ReadFrame, ReadMalformed, ReadOther, ReadCreated
      <3> QED BY <1>3, <3>1, <3>2
    <2> QED BY <1>4, <2>1, <2>2, <2>3 DEF ClientStep
  <1>5. ASSUME NEW p \in Ports, NEW f \in Events, f.kind # "frame", events' = Reported(p, f),
               UNCHANGED stored
        PROVE  Sent(e)
    <2>1. ASSUME NEW q \in Ports, NEW k \in DOMAIN events'[q], events'[q][k] = e
          PROVE  k \in DOMAIN events[q] /\ events[q][k] = e
      <3>1. events'[q] = events[q] \/ events'[q] = Append(events[q], f)
        BY <1>t, <1>5 DEF Reported
      <3>2. f # e
        BY <1>t, <1>5
      <3>3. CASE events'[q] = Append(events[q], f)
        <4>1. k \in DOMAIN events[q] \/ events'[q][k] = f
          BY <1>t, <2>1, <3>3
        <4> QED BY <1>t, <2>1, <3>2, <3>3, <4>1
      <3> QED BY <2>1, <3>1, <3>3
    <2> QED BY <1>t, <1>5, <2>1 DEF Sent
  <1>7. CASE MainStep
    BY <1>1, <1>7 DEF MainStep, start, stop
  <1>8. ASSUME NEW ps \in SUBSET Ports, GameStep(ps)
        PROVE  Sent(e)
    <2>1. ASSUME NEW p \in ps, Break(p) \/ Quit(p) \/ Launch(p)
          PROVE  Sent(e)
      BY <1>1, <2>1 DEF Break, Quit, Launch
    <2>2. ASSUME NEW p \in ps, NEW k \in {"other", "malformed"}, Noise(p, k)
          PROVE  Sent(e)
      BY <1>5, <2>2, EventKinds DEF Noise
    <2>3. ASSUME NEW p \in ps, NEW c \in Channels, Move(p, c)
          PROVE  Sent(e)
      BY <1>5, <2>3, EventKinds DEF Move
    <2>4. \A lag \in SUBSET Ports : /\ ~(\E c \in Channels : Megaphone({c}, FALSE, lag))
                                    /\ ~Megaphone(Channels, TRUE, lag)
      BY DEF ToSome
    <2> QED BY <1>8, <2>1, <2>2, <2>3, <2>4 DEF GameStep
  <1> QED BY <1>4, <1>7, <1>8, Steps

LEMMA HeardStep ==
    ASSUME TypeOK, [Next]_vars
    PROVE  heard' \in {heard, heard + 1}
  <1> USE DEF client, board, cdp, game, clientVars
  <1>1. ASSUME NEW p \in Ports, ClientStep(p) \/ ReadFrame(p)
        PROVE  heard' = heard
    BY <1>1 DEF ClientStep, LoopEnds, Connect, ConnectFails, PauseOver, TimedOut, CloseSocket, Error, ErrSleepOver,
        Check, ReadEnds, Closed, ReadCreated, ReadMalformed, ReadOther, ReadFrame, Reads
  <1>2. CASE MainStep
    BY <1>2 DEF MainStep, start, stop
  <1>3. ASSUME NEW ps \in SUBSET Ports, GameStep(ps)
        PROVE  heard' \in {heard, heard + 1}
    BY <1>3 DEF GameStep, Megaphone, Break, Quit, Launch, Noise, Move
  <1> QED BY <1>1, <1>2, <1>3, Steps

LEMMA FrameStep ==
    ASSUME TypeOK, FrameInv, [Next]_vars
    PROVE  FrameInv'
  <1>t. heard \in Nat /\ \A e \in Frames : e.text \in Nat
    BY DEF TypeOK, Frames
  <1>h. heard' \in {heard, heard + 1}
    BY HeardStep
  <1>1. CASE ToSome
    <2>1. PICK to \in SUBSET Channels, g \in BOOLEAN, lag \in SUBSET Ports :
              Megaphone(to, g, lag) /\ (g \/ \E c : to = {c})
      BY <1>1 DEF ToSome
    <2>2. heard' = heard + 1
      BY <2>1 DEF Megaphone
    <2>3. \A e \in Frames : Sent(e)' =>
              Sent(e) \/ (e.text = heard + 1 /\ e.global = g /\ e.channel \in to)
      BY <2>1, MegaphoneSent
    <2>4. ASSUME NEW e \in Frames, Sent(e)', NEW f \in Frames, Sent(f)', f.text = e.text
          PROVE  f.global = e.global /\ (e.global \/ f.channel = e.channel)
      <3>1. CASE Sent(e) /\ Sent(f)
        BY <2>4, <3>1 DEF FrameInv
      <3>2. CASE ~Sent(e) /\ ~Sent(f)
        BY <2>1, <2>3, <2>4, <3>2
      <3>3. CASE Sent(e) /\ ~Sent(f)
        BY <1>t, <2>3, <2>4, <3>3 DEF FrameInv
      <3>4. CASE ~Sent(e) /\ Sent(f)
        BY <1>t, <2>3, <2>4, <3>4 DEF FrameInv
      <3> QED BY <3>1, <3>2, <3>3, <3>4
    <2>5. \A e \in Frames : Sent(e)' => e.text <= heard'
      BY <1>t, <2>2, <2>3 DEF FrameInv
    <2> QED BY <2>4, <2>5 DEF FrameInv
  <1>2. CASE ~ToSome
    <2>1. \A e \in Frames : Sent(e)' => Sent(e)
      BY <1>2, SentStep
    <2>2. \A e \in Frames : Sent(e)' => e.text <= heard'
      BY <1>t, <1>h, <2>1 DEF FrameInv
    <2>3. \A e, f \in Frames : Sent(e)' /\ Sent(f)' /\ f.text = e.text =>
              f.global = e.global /\ (e.global \/ f.channel = e.channel)
      BY <2>1 DEF FrameInv
    <2> QED BY <2>2, <2>3 DEF FrameInv
  <1> QED BY <1>1, <1>2

-----------------------------------------------------------------------------
(* The theorems about the store *)

Places == {"detect", "create", "remove", "start", "monitor", "stopped"}
WholeInv == IInv /\ main \in Places /\ StoreInv /\ MemInv /\ FrameInv

LEMMA WholeInit == Init => WholeInv
  <1> SUFFICES ASSUME Init PROVE WholeInv
    OBVIOUS
  <1>1. stored = {} /\ (\A p \in Ports : events[p] = << >>)
    BY DEF Init, ClientInit
  <1>2. /\ heap = << >> /\ dedup = [k \in {} |-> 0] /\ seenIds = [k \in {} |-> 0]
        /\ adding = [t \in Ports |-> "idle"]
    BY DEF Init, Store!Init
  <1>3. MemInv
    BY <1>1, <1>2 DEF MemInv, AliveInv, CallInv, ArrivedInv, SeenInv, RecordInv, HeapInv, Store!Refs
  <1>4. FrameInv
    BY <1>1 DEF FrameInv, Sent
  <1> QED BY <1>3, <1>4, InvInit, StoreInit DEF WholeInv, Init, Places

\* The clients, the store and what is proved of both hold together.
THEOREM WholeCorrect == Spec => []WholeInv
  <1>1. WholeInv /\ [Next]_vars => WholeInv'
    <2>1. IInv /\ [Next]_vars => IInv'
      BY TypeStep, MainInvStep, SocketStep, BacklogStep, BoardStep DEF IInv
    <2>2. main \in Places /\ [Next]_vars => main' \in Places
      BY DEF Places, Next, Main, Interrupt, Probe, Probed, from_port_range, remove_client, Start,
          Thread, Add, ReadAndAdd, vars, mainVars
    <2> QED BY <2>1, <2>2, StoreInvStep, MemStep, FrameStep DEF WholeInv, IInv
  <1> QED BY WholeInit, <1>1, PTL DEF Spec

\* One message is stored for a megaphone, however many game instances hear it and
\* in whatever order their threads get to the store, unless copies came from two
\* channels that the monitor could not tell apart
\* (multi_cdp.py:48-55, 175-177, store.py:68-114).
THEOREM MegaphoneCorrect == Spec => []OnePerMegaphone
  <1>1. WholeInv => OnePerMegaphone
    <2> SUFFICES ASSUME WholeInv PROVE OnePerMegaphone
      OBVIOUS
    <2>1. TypesOK
      BY StoreTypes DEF WholeInv, TypesOK, Places
    <2>2. ASSUME NEW text \in 1..MaxFrames, Cardinality(Kept(text)) > 1
          PROVE  Unsure(text)
      <3>1. PICK i \in Kept(text) : \E j \in Kept(text) : i # j
        <4>1. ASSUME \A i, j \in Kept(text) : i = j
              PROVE  FALSE
          <5>1. CASE Kept(text) = {}
            BY <2>2, <5>1, FS_EmptySet
          <5>2. ASSUME NEW i \in Kept(text)
                PROVE  FALSE
            <6>1. Kept(text) = {i}
              BY <4>1
            <6>2. Cardinality({i}) = 1
              BY FS_Singleton
            <6> QED BY <2>2, <6>1, <6>2
          <5> QED BY <5>1, <5>2
        <4> QED BY <4>1
      <3>2. i \in Store!Refs /\ heap[i].text = text /\ ~Alone(text)
        BY <3>1 DEF Kept, Alone
      <3> QED BY <3>2 DEF WholeInv, MemInv, HeapInv
    <2> QED BY <2>1, <2>2 DEF OnePerMegaphone, Unsure
  <1> QED BY <1>1, WholeCorrect, PTL

\* The scope of the one message of a megaphone is that of the megaphone, as far as
\* the monitor knows the channels of the games (multi_cdp.py:152-177, store.py:83-95).
THEOREM ScopeCorrect == Spec => []ScopeIsTrue
  <1>1. WholeInv => ScopeIsTrue
    <2> SUFFICES ASSUME WholeInv, \A p \in Ports : adding[p] = "idle",
                        NEW text \in 1..MaxFrames, NEW i \in Kept(text)
                 PROVE  /\ Kept(text) = {i} /\ (\E r, q \in Copies(text) : ToldApart(r, q)) =>
                               heap[i].scope = "global"
                        /\ heap[i].scope = "global" =>
                               \E r \in Copies(text) : r.frame.global \/ ~r.sure
      BY DEF ScopeIsTrue
    <2>t. /\ i \in Store!Refs /\ heap[i].text = text
          /\ IInv /\ BoardInv /\ TypeOK /\ FrameInv /\ ArrivedInv /\ SeenInv /\ HeapInv
          /\ \A r \in stored : r.frame \in Frames
      BY DEF Kept, WholeInv, MemInv, IInv, TypeOK
    <2>1. ASSUME Kept(text) = {i}, NEW r \in Copies(text), NEW q \in Copies(text), ToldApart(r, q)
          PROVE  heap[i].scope = "global"
      <3>1. Alone(text)
        BY <2>1 DEF Alone, Kept
      <3>2. ASSUME NEW s \in Copies(text)
            PROVE  text \in DOMAIN dedup /\ s.id \in dedup[text].channels
        <4>1. s \in stored /\ s.frame.text = text
          BY DEF Copies
        <4>2. Key(s) \in DOMAIN seenIds
          BY <2>t, <4>1 DEF ArrivedInv
        <4>3. Key(s)[1] = s.id /\ Key(s)[2][1] = text
          BY <4>1 DEF Key
        <4> QED BY <2>t, <3>1, <4>2, <4>3 DEF SeenInv
      <3>3. r.id # q.id
        BY <2>t, <2>1 DEF Copies, ToldApart, BoardInv
      <3>4. dedup[text].msg = i
        BY <2>1, <3>2, StoreTypes DEF WholeInv, Kept, Store!DedupConsistent
      <3>5. dedup[text].channels # {heap[i].channel_id}
        BY <3>2, <3>3
      <3>6. Store!DedupConsistent
        BY StoreTypes DEF WholeInv
      <3> QED BY <3>2, <3>4, <3>5, <3>6 DEF Store!DedupConsistent
    <2>2. ASSUME heap[i].scope = "global", \A r \in Copies(text) : ~r.frame.global /\ r.sure
          PROVE  FALSE
      <3>1. PICK r, q \in Copies(text) : r.id # q.id
        BY <2>t, <2>2 DEF HeapInv
      <3>2. r \in stored /\ q \in stored /\ r.frame.text = q.frame.text /\ Sent(r.frame) /\ Sent(q.frame)
        BY DEF Copies, Sent
      <3>3. r.frame.channel = q.frame.channel
        BY <2>t, <2>2, <3>2 DEF FrameInv
      <3>4. r.id = ws_url_to_channel_id(r.frame.channel) /\ q.id = ws_url_to_channel_id(q.frame.channel)
        BY <2>t, <2>2, <3>2 DEF BoardInv
      <3> QED BY <3>1, <3>3, <3>4
    <2> QED BY <2>1, <2>2
  <1> QED BY <1>1, WholeCorrect, PTL
=============================================================================
