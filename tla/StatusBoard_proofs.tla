-------------------------- MODULE StatusBoard_proofs --------------------------
(***************************************************************************)
(* Theorems of StatusBoard, for any sets of channels, any number of        *)
(* streams and any bounds.                                                 *)
(***************************************************************************)
EXTENDS StatusBoard, SequenceTheorems, TLAPS

\* The places in a queue of the events about one item.
IsAbout(e, i) == "item" \in DOMAIN e /\ e.item = i
About(q, i) == {k \in DOMAIN q : IsAbout(q[k], i)}

\* The last event about an item, if there is one, brings the value v; all bring
\* values that are set, and no newer one than v.
EndsIn(q, i, v) == About(q, i) = {} \/ \E k \in About(q, i) : /\ q[k].value = v
                                                              /\ \A l \in About(q, i) : l <= k
Within(q, i, v) == \A k \in About(q, i) : q[k].value <= v /\ q[k].value > 0

\* Nothing runs ahead of the boards, no list brings an excluded channel on them,
\* and one that the page has a tab of has a status.
Bounded(i) ==
    /\ shown[i] <= board[i]
    /\ \A s \in Streams : response[s][i] <= board[i] /\ Within(queue[s], i, board[i])
    /\ board[i] > 0 /\ i.channel \in EXCLUDED_CHANNELS => i.kind = "status"
HasStatus(c) == c \in Connected /\ board[Status(c)] > 0
BoundInv ==
    /\ TypeOK
    /\ \A i \in Items : Bounded(i)
    /\ \A i \in untold : board[i] > 0
    /\ \A c \in tabs \cap EXCLUDED_CHANNELS : HasStatus(c)
    /\ \A s \in Streams : stream[s] = "closed" => queue[s] = << >>
    /\ \A f \in Streams : \A s \in watched[f] : stream[s] = "open"

\* An event with a value that is not the board's any more is followed by another
\* one, or by one that is about to be put.
QueueInv == \A s \in Streams, i \in Items : i \in untold \/ EndsIn(queue[s], i, board[i])

\* The snapshot of a response has already been taken, as far as this item goes.
Snapped(f, i) == fetch[f] \in {"answered", "over"} \/ (fetch[f] = "statuses" /\ i.kind = "status")

\* If a stream has been open since the snapshot, there is an event to come about
\* every item it has passed, or its present value has arrived or is in the
\* response; or the item was set back.
Current(f, i) ==
    \/ i \in untold \/ \E s \in Streams : About(queue[s], i) # {}
    \/ shown[i] = board[i]
    \/ fetch[f] # "over" /\ response[f][i] = board[i]
    \/ i \in fell
CurrentInv ==
    \A f \in Streams, i \in Items : watched[f] # {} /\ Snapped(f, i) => Current(f, i)

\* That stream, or the response, still brings the tab, unless it is there.
Tabbed(f, s, i) ==
    \/ i \in untold \/ About(queue[s], i) # {} \/ i.channel \in tabs
    \/ fetch[f] # "over" /\ response[f][i] > 0
TabInv ==
    \A f \in Streams, i \in Items : \A s \in watched[f] :
        Snapped(f, i) /\ board[i] > 0 => Tabbed(f, s, i)

-----------------------------------------------------------------------------
(* Items, events and queues *)

LEMMA ItemTypes ==
    /\ \A c \in Connected : /\ Status(c) \in Items /\ Status(c).channel = c
                            /\ Status(c).kind = "status"
    /\ \A c \in Listed : /\ Population(c) \in Items /\ Population(c).channel = c
                         /\ Population(c).kind = "population"
    /\ Populations \subseteq Items
    /\ \A i \in Items : /\ i.channel \in Channels
                        /\ i.kind = "status" => i.channel \in Connected /\ i = Status(i.channel)
  BY ChannelsAssumption DEF Items, Status, Population, Populations

LEMMA EventTypes ==
    ASSUME NEW e \in Events
    PROVE  /\ "item" \in DOMAIN e => e.item \in Items /\ e.value \in Nat
           /\ "message" \in DOMAIN e => e.message \in Connected /\ "item" \notin DOMAIN e
  <1>1. CASE e \in [item : Items, value : Nat]
    BY <1>1
  <1>2. CASE e \in [message : Connected]
    BY <1>2
  <1> QED BY <1>1, <1>2 DEF Events

LEMMA ItemEvent ==
    ASSUME NEW i \in Items, NEW v \in Nat
    PROVE  /\ [item |-> i, value |-> v] \in Events /\ [item |-> i, value |-> v].value = v
           /\ \A j : IsAbout([item |-> i, value |-> v], j) <=> j = i
  BY DEF Events, IsAbout

LEMMA MessageEvent ==
    ASSUME NEW c \in Connected
    PROVE  [message |-> c] \in Events /\ \A j : ~IsAbout([message |-> c], j)
  BY DEF Events, IsAbout

LEMMA EmptyQueue ==
    ASSUME NEW i, NEW v
    PROVE  About(<< >>, i) = {} /\ EndsIn(<< >>, i, v) /\ Within(<< >>, i, v)
  BY DEF About, EndsIn, Within

\* An event that is put at the end.
LEMMA Appended ==
    ASSUME NEW q \in Seq(Events), NEW e \in Events, NEW i \in Items
    PROVE  LET r == Append(q, e) IN
           /\ r \in Seq(Events)
           /\ About(q, i) # {} => About(r, i) # {}
           /\ IsAbout(e, i) => About(r, i) # {} /\ EndsIn(r, i, e.value)
           /\ ~IsAbout(e, i) => \A v : EndsIn(q, i, v) => EndsIn(r, i, v)
           /\ \A v : Within(q, i, v) /\ (IsAbout(e, i) => e.value <= v /\ e.value > 0)
                        => Within(r, i, v)
  <1> DEFINE r == Append(q, e)
             n == Len(q)
  <1>1. /\ r \in Seq(Events) /\ n \in Nat /\ DOMAIN q = 1..n /\ DOMAIN r = 1..(n + 1)
        /\ \A k \in 1..n : r[k] = q[k]
        /\ r[n + 1] = e
    OBVIOUS
  <1> HIDE DEF r, n
  <1>2. About(r, i) = IF IsAbout(e, i) THEN About(q, i) \cup {n + 1} ELSE About(q, i)
    BY <1>1 DEF About
  <1>3. \A k \in About(q, i) : k \in 1..n /\ r[k] = q[k] /\ k <= n + 1
    BY <1>1 DEF About
  <1>4. ASSUME IsAbout(e, i)
        PROVE  About(r, i) # {} /\ EndsIn(r, i, e.value)
    <2>1. /\ n + 1 \in About(r, i) /\ r[n + 1].value = e.value
          /\ \A l \in About(r, i) : l <= n + 1
      BY <1>1, <1>2, <1>3, <1>4
    <2> QED BY <2>1 DEF EndsIn
  <1>5. ASSUME ~IsAbout(e, i), NEW v, EndsIn(q, i, v)
        PROVE  EndsIn(r, i, v)
    BY <1>2, <1>3, <1>5 DEF EndsIn
  <1>6. ASSUME NEW v, Within(q, i, v), IsAbout(e, i) => e.value <= v /\ e.value > 0
        PROVE  Within(r, i, v)
    BY <1>1, <1>2, <1>3, <1>6 DEF Within
  <1> QED BY <1>1, <1>2, <1>4, <1>5, <1>6 DEF r

\* The event at the front is taken.
LEMMA Taken ==
    ASSUME NEW q \in Seq(Events), q # << >>, NEW i \in Items
    PROVE  /\ Tail(q) \in Seq(Events) /\ Head(q) \in Events
           /\ \A v : EndsIn(q, i, v) => EndsIn(Tail(q), i, v)
           /\ \A v : Within(q, i, v) => Within(Tail(q), i, v)
           /\ \A v : Within(q, i, v) /\ IsAbout(Head(q), i) => Head(q).value <= v /\ Head(q).value > 0
           /\ ~IsAbout(Head(q), i) /\ About(q, i) # {} => About(Tail(q), i) # {}
           /\ \A v : IsAbout(Head(q), i) /\ About(Tail(q), i) = {} /\ EndsIn(q, i, v)
                        => Head(q).value = v
  <1> DEFINE r == Tail(q)
             n == Len(q)
  <1>1. /\ r \in Seq(Events) /\ n \in Nat /\ n > 0 /\ DOMAIN q = 1..n /\ DOMAIN r = 1..(n - 1)
        /\ \A k \in 1..(n - 1) : r[k] = q[k + 1]
        /\ Head(q) = q[1] /\ q[1] \in Events
    OBVIOUS
  <1> HIDE DEF r, n
  <1>2. \A k \in About(r, i) : /\ k \in 1..(n - 1) /\ k + 1 \in About(q, i)
                               /\ r[k] = q[k + 1]
    <2> SUFFICES ASSUME NEW k \in About(r, i)
                 PROVE  k \in 1..(n - 1) /\ k + 1 \in About(q, i) /\ r[k] = q[k + 1]
      OBVIOUS
    <2>1. k \in 1..(n - 1) /\ r[k] = q[k + 1] /\ k + 1 \in 1..n
      BY <1>1 DEF About
    <2> QED BY <1>1, <2>1 DEF About
  <1>3. \A k \in About(q, i) : /\ k \in 1..n
                               /\ k # 1 => k - 1 \in About(r, i) /\ r[k - 1] = q[k]
    <2> SUFFICES ASSUME NEW k \in About(q, i)
                 PROVE  k \in 1..n /\ (k # 1 => k - 1 \in About(r, i) /\ r[k - 1] = q[k])
      OBVIOUS
    <2>1. k \in 1..n
      BY <1>1 DEF About
    <2>2. ASSUME k # 1 PROVE k - 1 \in About(r, i) /\ r[k - 1] = q[k]
      <3>1. k - 1 \in 1..(n - 1) /\ (k - 1) + 1 = k
        BY <1>1, <2>1, <2>2
      <3>2. r[k - 1] = q[k]
        BY <1>1, <3>1
      <3> QED BY <1>1, <3>1, <3>2 DEF About
    <2> QED BY <2>1, <2>2
  <1>4. ASSUME NEW v, EndsIn(q, i, v) PROVE EndsIn(r, i, v)
    <2>1. CASE About(q, i) = {}
      BY <1>2, <2>1 DEF EndsIn
    <2>2. ASSUME NEW k \in About(q, i), q[k].value = v, \A l \in About(q, i) : l <= k
          PROVE  EndsIn(r, i, v)
      <3>1. CASE k = 1
        <4>1. ASSUME NEW l \in About(r, i) PROVE FALSE
          <5>1. l \in 1..(n - 1) /\ l + 1 <= 1
            BY <1>2, <2>2, <3>1
          <5> QED BY <1>1, <5>1
        <4> QED BY <4>1 DEF EndsIn
      <3>2. CASE k # 1
        <4>1. k - 1 \in About(r, i) /\ r[k - 1].value = v
          BY <1>3, <2>2, <3>2
        <4>2. \A l \in About(r, i) : l <= k - 1
          BY <1>1, <1>2, <1>3, <2>2
        <4> QED BY <4>1, <4>2 DEF EndsIn
      <3> QED BY <3>1, <3>2
    <2> QED BY <1>4, <2>1, <2>2 DEF EndsIn
  <1>5. ASSUME NEW v, Within(q, i, v) PROVE Within(r, i, v)
    BY <1>2, <1>5 DEF Within
  <1>6. IsAbout(Head(q), i) => 1 \in About(q, i) /\ Head(q).value = q[1].value
    BY <1>1 DEF About
  <1>7. ASSUME NEW v, Within(q, i, v), IsAbout(Head(q), i)
        PROVE  Head(q).value <= v /\ Head(q).value > 0
    BY <1>6, <1>7 DEF Within
  <1>8. ASSUME ~IsAbout(Head(q), i), About(q, i) # {} PROVE About(r, i) # {}
    <2>1. 1 \notin About(q, i)
      BY <1>1, <1>8 DEF About
    <2> QED BY <1>3, <1>8, <2>1
  <1>9. ASSUME NEW v, IsAbout(Head(q), i), About(r, i) = {}, EndsIn(q, i, v)
        PROVE  Head(q).value = v
    <2>1. PICK k \in About(q, i) : q[k].value = v
      BY <1>6, <1>9 DEF EndsIn
    <2>2. k = 1
      BY <1>3, <1>9, <2>1
    <2> QED BY <1>6, <1>9, <2>1, <2>2
  <1> QED BY <1>1, <1>4, <1>5, <1>7, <1>8, <1>9 DEF r

-----------------------------------------------------------------------------
(* The steps *)

\* A change of the boards is one of items that nobody is about to tell of; no
\* list brings an excluded channel.
Allowed(S) == S \cap untold = {} /\ \A i \in S : i.channel \in EXCLUDED_CHANNELS => i.kind = "status"
LEMMA ChangeIs ==
    ASSUME (\E c \in Connected : SetStatus(c)) \/ SetPopulations
    PROVE  \E S \in SUBSET Items : Allowed(S) /\ Change(S)
  <1>1. ASSUME NEW c \in Connected, SetStatus(c)
        PROVE  \E S \in SUBSET Items : Allowed(S) /\ Change(S)
    BY <1>1, ItemTypes DEF SetStatus, Allowed
  <1>2. CASE SetPopulations
    <2>g. PICK good \in SUBSET Listed :
              \E changed \in SUBSET populations_from_list(good) \ {{}} :
                  Change({Population(c) : c \in changed})
      BY <1>2 DEF SetPopulations
    <2>1. PICK changed \in SUBSET populations_from_list(good) \ {{}} :
              Change({Population(c) : c \in changed})
      BY <2>g
    <2> DEFINE S == {Population(c) : c \in changed}
    <2>2. S \subseteq Populations /\ \A i \in S : i.channel \notin EXCLUDED_CHANNELS
      BY ItemTypes DEF populations_from_list, Populations
    <2>3. S \cap untold = {} /\ S \subseteq Items
      BY <1>2, <2>2, ItemTypes DEF SetPopulations
    <2> QED BY <2>1, <2>2, <2>3 DEF Allowed
  <1> QED BY <1>1, <1>2

\* The steps, by what they do to the boards, the queues and the requests.
Telling(e) == e \in Events /\ Put(e) /\ UNCHANGED <<board, stream, fetch, response, shown, tabs, fell, watched>>
NotifyStep(i) == /\ i \in untold /\ untold' = untold \ {i}
                 /\ Telling([item |-> i, value |-> board[i]]) /\ messages' = messages
StoreTold(c) == /\ untold' = untold /\ Telling([message |-> c]) /\ messages' = messages
LEMMA BoardSteps ==
    ASSUME TypeOK, Next
    PROVE  \/ \E S \in SUBSET Items : Allowed(S) /\ Change(S)
           \/ \E i \in Items : NotifyStep(i)
           \/ \E c \in Connected : StoreTold(c)
           \/ OldMessages
           \/ \E s \in Streams : Register(s) \/ Break(s)
           \/ \E f \in Streams : StatusSnapshot(f) \/ PopulationSnapshot(f)
           \/ \E s \in Streams : OnEvent(s)
           \/ \E s \in Streams : OnMessage(s)
           \/ \E f \in Streams : ChannelsArrive(f)
           \/ \E f \in Streams : ChannelsFail(f)
  <1>1. ASSUME NEW i \in Items, Notify(i) PROVE NotifyStep(i)
    BY <1>1, ItemEvent DEF TypeOK, Notify, NotifyStep, Telling, history, page
  <1>2. ASSUME NEW c \in Connected, Store(c) PROVE StoreTold(c)
    BY <1>2, MessageEvent DEF Store, StoreTold, Telling, writers, history, page
  <1> QED BY <1>1, <1>2, ChangeIs DEF Next

\* The event or the value that a handler gets.
LEMMA HandledEvent ==
    ASSUME BoundInv, QueueInv, NEW s \in Streams, OnEvent(s)
    PROVE  \E j \in Items, v \in Nat :
              /\ IsAbout(Head(queue[s]), j) /\ Head(queue[s]).value = v
              /\ v > 0 /\ v <= board[j]
              /\ queue[s] \in Seq(Events) /\ queue[s] # << >>
              /\ queue' = [queue EXCEPT ![s] = Tail(queue[s])]
              /\ shown' = [shown EXCEPT ![j] = v]
              /\ tabs' = tabs \cup {j.channel} /\ fell' = fell \ {j}
              /\ UNCHANGED <<board, untold, stream, fetch, response, messages, watched>>
              /\ About(Tail(queue[s]), j) = {} /\ j \notin untold => v = board[j]
  <1> DEFINE e == Head(queue[s])
  <1>1. queue[s] \in Seq(Events) /\ queue[s] # << >> /\ "item" \in DOMAIN e /\ e \in Events
    BY DEF BoundInv, TypeOK, OnEvent
  <1>2. /\ queue' = [queue EXCEPT ![s] = Tail(queue[s])]
        /\ shown' = [shown EXCEPT ![e.item] = e.value]
        /\ tabs' = tabs \cup {e.item.channel} /\ fell' = fell \ {e.item}
        /\ UNCHANGED <<board, untold, stream, fetch, response, messages, watched>>
    BY DEF OnEvent, writers
  <1>3. e.item \in Items /\ e.value \in Nat /\ IsAbout(e, e.item)
    BY <1>1, EventTypes DEF IsAbout
  <1>4. PICK j \in Items, v \in Nat : j = e.item /\ v = e.value
    BY <1>3
  <1>5. Within(queue[s], j, board[j]) /\ (j \in untold \/ EndsIn(queue[s], j, board[j]))
    BY DEF BoundInv, Bounded, QueueInv
  <1>6. v <= board[j] /\ v > 0
    BY <1>1, <1>3, <1>4, <1>5, Taken
  <1>7. About(Tail(queue[s]), j) = {} /\ j \notin untold => v = board[j]
    BY <1>1, <1>3, <1>4, <1>5, Taken
  <1> QED BY <1>1, <1>2, <1>3, <1>4, <1>6, <1>7

LEMMA TypeStep == BoundInv /\ QueueInv /\ [Next]_vars => TypeOK'
  <1> SUFFICES ASSUME BoundInv, QueueInv, [Next]_vars PROVE TypeOK'
    OBVIOUS
  <1> USE DEF writers, net, page, history
  <1>t. TypeOK /\ \A s \in Streams : queue[s] \in Seq(Events)
    BY DEF BoundInv, TypeOK
  <1>1. ASSUME NEW S \in SUBSET Items, Change(S) PROVE TypeOK'
    <2>1. board' \in [Items -> Nat]
      BY <1>t, <1>1 DEF Change, TypeOK
    <2> QED BY <1>t, <1>1, <2>1 DEF Change, TypeOK
  <1>2. ASSUME NEW e, Telling(e), untold' \subseteq Items, messages' = messages PROVE TypeOK'
    <2>1. \A s \in Streams : Append(queue[s], e) \in Seq(Events)
      BY <1>t, <1>2 DEF Telling
    <2>2. queue' \in [Streams -> Seq(Events)]
      BY <1>t, <1>2, <2>1 DEF Telling, Put
    <2> QED BY <1>t, <1>2, <2>2 DEF Telling, TypeOK
  <1>3. CASE OldMessages
    BY <1>t, <1>3 DEF OldMessages, TypeOK
  <1>4. ASSUME NEW s \in Streams, Register(s) \/ Break(s) PROVE TypeOK'
    <2>1. queue' \in [Streams -> Seq(Events)]
      <3>1. << >> \in Seq(Events)
        OBVIOUS
      <3> QED BY <1>t, <1>4, <3>1 DEF Register, Break, TypeOK
    <2>2. stream' \in [Streams -> {"closed", "open"}]
      BY <1>t, <1>4 DEF Register, Break, TypeOK
    <2>3. fell' \subseteq Items /\ watched' \in [Streams -> SUBSET Streams]
      BY <1>t, <1>4 DEF Register, Break, TypeOK, Waiting
    <2> QED BY <1>t, <1>4, <2>1, <2>2, <2>3 DEF Register, Break, TypeOK
  <1>5. ASSUME NEW f \in Streams, StatusSnapshot(f) \/ PopulationSnapshot(f) PROVE TypeOK'
    <2>1. \A kind : Snapshot(f, kind) \in [Items -> Nat]
      BY <1>t DEF Snapshot, TypeOK
    <2>2. response' \in [Streams -> [Items -> Nat]]
      BY <1>t, <1>5, <2>1 DEF StatusSnapshot, PopulationSnapshot, TypeOK
    <2>3. watched' \in [Streams -> SUBSET Streams]
      <3>1. CASE StatusSnapshot(f)
        <4>1. PICK w \in SUBSET Streams : watched' = [watched EXCEPT ![f] = w]
          BY <3>1 DEF StatusSnapshot
        <4> QED BY <1>t, <4>1 DEF TypeOK
      <3>2. CASE PopulationSnapshot(f)
        BY <1>t, <3>2 DEF PopulationSnapshot, TypeOK
      <3> QED BY <1>5, <3>1, <3>2
    <2>4. fetch' \in [Streams -> {"asked", "statuses", "answered", "over"}]
      BY <1>t, <1>5 DEF StatusSnapshot, PopulationSnapshot, TypeOK
    <2> QED BY <1>t, <1>5, <2>2, <2>3, <2>4 DEF StatusSnapshot, PopulationSnapshot, TypeOK
  <1>6. ASSUME NEW s \in Streams, OnEvent(s) PROVE TypeOK'
    <2>1. PICK j \in Items, v \in Nat :
              /\ queue[s] \in Seq(Events) /\ queue[s] # << >>
              /\ queue' = [queue EXCEPT ![s] = Tail(queue[s])]
              /\ shown' = [shown EXCEPT ![j] = v]
              /\ tabs' = tabs \cup {j.channel} /\ fell' = fell \ {j}
              /\ UNCHANGED <<board, untold, stream, fetch, response, messages, watched>>
      BY <1>6, HandledEvent
    <2>2. Tail(queue[s]) \in Seq(Events) /\ j.channel \in Channels
      BY <2>1, ItemTypes
    <2>3. queue' \in [Streams -> Seq(Events)] /\ shown' \in [Items -> Nat]
      BY <1>t, <2>1, <2>2 DEF TypeOK
    <2> QED BY <1>t, <2>1, <2>2, <2>3 DEF TypeOK
  <1>7. ASSUME NEW s \in Streams, OnMessage(s) PROVE TypeOK'
    <2>1. queue[s] # << >> /\ queue' = [queue EXCEPT ![s] = Tail(queue[s])]
      BY <1>7 DEF OnMessage
    <2>2. Tail(queue[s]) \in Seq(Events) /\ Head(queue[s]) \in Events
      BY <1>t, <2>1
    <2>3. Head(queue[s]).message \in Channels
      BY <1>7, <2>2, EventTypes, ChannelsAssumption DEF OnMessage
    <2>4. queue' \in [Streams -> Seq(Events)]
      BY <1>t, <2>1, <2>2 DEF TypeOK
    <2> QED BY <1>t, <1>7, <2>3, <2>4 DEF OnMessage, TypeOK
  <1>8. ASSUME NEW f \in Streams, ChannelsArrive(f) PROVE TypeOK'
    <2>1. /\ shown' \in [Items -> Nat] /\ fell' \subseteq Items
          /\ fetch' \in [Streams -> {"asked", "statuses", "answered", "over"}]
      BY <1>t, <1>8 DEF ChannelsArrive, TypeOK
    <2>2. tabs' \subseteq Channels
      BY <1>t, <1>8, ItemTypes DEF ChannelsArrive, TypeOK
    <2> QED BY <1>t, <1>8, <2>1, <2>2 DEF ChannelsArrive, TypeOK
  <1>9. ASSUME NEW f \in Streams, ChannelsFail(f) PROVE TypeOK'
    <2>1. /\ fetch' \in [Streams -> {"asked", "statuses", "answered", "over"}]
          /\ watched' \in [Streams -> SUBSET Streams]
      BY <1>t, <1>9 DEF ChannelsFail, TypeOK
    <2> QED BY <1>t, <1>9, <2>1 DEF ChannelsFail, TypeOK
  <1>10. ASSUME NEW i \in Items, NotifyStep(i) PROVE TypeOK'
    <2>1. untold' \subseteq Items
      BY <1>t, <1>10 DEF NotifyStep, TypeOK
    <2> QED BY <1>2, <1>10, <2>1 DEF NotifyStep
  <1>11. ASSUME NEW c \in Connected, StoreTold(c) PROVE TypeOK'
    <2>1. untold' \subseteq Items
      BY <1>t, <1>11 DEF StoreTold, TypeOK
    <2> QED BY <1>2, <1>11, <2>1 DEF StoreTold
  <1>12. CASE UNCHANGED vars
    BY <1>t, <1>12 DEF vars, TypeOK
  <1> QED BY <1>t, <1>1, <1>3, <1>4, <1>5, <1>6, <1>7, <1>8, <1>9, <1>10, <1>11, <1>12, BoardSteps

\* What happens to the queues, for the item at hand.
Grown(s, e) == queue'[s] = IF stream[s] = "open" THEN Append(queue[s], e) ELSE queue[s]
LEMMA ToldEach ==
    ASSUME TypeOK, NEW e, Telling(e), NEW s \in Streams
    PROVE  Grown(s, e)
  BY DEF Telling, Put, Grown

LEMMA BoundStep == BoundInv /\ QueueInv /\ [Next]_vars => BoundInv'
  <1> SUFFICES ASSUME BoundInv, QueueInv, [Next]_vars PROVE BoundInv'
    OBVIOUS
  <1> USE DEF writers, net, page, history
  <1>t. TypeOK /\ TypeOK' /\ \A s \in Streams : queue[s] \in Seq(Events)
    BY TypeStep DEF BoundInv, TypeOK
  <1>n. \A i \in Items : /\ board[i] \in Nat /\ shown[i] \in Nat
                         /\ \A s \in Streams : response[s][i] \in Nat
    BY <1>t DEF TypeOK
  <1>1. ASSUME NEW S \in SUBSET Items, Allowed(S), Change(S) PROVE BoundInv'
    <2>1. \A i \in Items : board'[i] = IF i \in S THEN board[i] + 1 ELSE board[i]
      BY <1>1 DEF Change
    <2>2. ASSUME NEW i \in Items PROVE Bounded(i)'
      <3>1. board'[i] >= board[i] /\ board'[i] \in Nat
        BY <1>n, <2>1
      <3>2. \A s \in Streams : Within(queue[s], i, board'[i])
        <4> SUFFICES ASSUME NEW s \in Streams, NEW k \in About(queue[s], i)
                     PROVE  queue[s][k].value <= board'[i] /\ queue[s][k].value > 0
          BY DEF Within
        <4>1. queue[s][k] \in Events /\ queue[s][k].value \in Nat
          BY <1>t, EventTypes DEF About, IsAbout
        <4>2. queue[s][k].value <= board[i] /\ queue[s][k].value > 0
          BY DEF BoundInv, Bounded, Within
        <4> QED BY <1>n, <3>1, <4>1, <4>2
      <3>3. /\ shown'[i] = shown[i] /\ shown[i] <= board[i]
            /\ \A s \in Streams : response'[s][i] = response[s][i] /\ response[s][i] <= board[i]
            /\ \A s \in Streams : queue'[s] = queue[s]
        BY <1>1 DEF Change, BoundInv, Bounded
      <3>4. board'[i] > 0 /\ i.channel \in EXCLUDED_CHANNELS => i.kind = "status"
        BY <1>1, <2>1 DEF Allowed, BoundInv, Bounded
      <3> QED BY <1>n, <3>1, <3>2, <3>3, <3>4 DEF Bounded
    <2>3. \A i \in untold' : board'[i] > 0
      <3> SUFFICES ASSUME NEW i \in untold' PROVE board'[i] > 0
        OBVIOUS
      <3>1. i \in Items /\ (i \in S \/ (i \in untold /\ board[i] > 0))
        BY <1>t, <1>1 DEF Change, BoundInv, TypeOK
      <3> QED BY <1>n, <2>1, <3>1
    <2>4. \A c \in tabs' \cap EXCLUDED_CHANNELS : HasStatus(c)'
      <3> SUFFICES ASSUME NEW c \in tabs \cap EXCLUDED_CHANNELS PROVE HasStatus(c)'
        BY <1>1 DEF Change
      <3>1. HasStatus(c)
        BY DEF BoundInv
      <3>2. Status(c) \in Items
        BY <3>1, ItemTypes DEF HasStatus
      <3> QED BY <1>n, <2>1, <3>1, <3>2 DEF HasStatus, Status
    <2> QED BY <1>t, <1>1, <2>2, <2>3, <2>4 DEF BoundInv, Change
  <1>2. ASSUME NEW e, Telling(e), untold' \subseteq untold,
               \A i \in Items : IsAbout(e, i) => e.value <= board[i] /\ e.value > 0
        PROVE  BoundInv'
    <2>1. ASSUME NEW i \in Items, NEW s \in Streams
          PROVE  Within(queue'[s], i, board[i])
      <3>1. Within(queue[s], i, board[i])
        BY DEF BoundInv, Bounded
      <3>2. Within(Append(queue[s], e), i, board[i])
        BY <1>t, <1>2, <3>1, Appended DEF Telling
      <3> QED BY <1>t, <1>2, <3>1, <3>2, ToldEach DEF Grown
    <2>2. UNCHANGED <<board, stream, response, shown, tabs, watched>>
      BY <1>2 DEF Telling
    <2>3. ASSUME NEW i \in Items PROVE Bounded(i)'
      BY <2>1, <2>2 DEF BoundInv, Bounded
    <2>4. \A s \in Streams : stream'[s] = "closed" => queue'[s] = << >>
      BY <1>t, <1>2, <2>2, ToldEach DEF Grown, BoundInv
    <2> QED BY <1>t, <1>2, <2>2, <2>3, <2>4 DEF BoundInv, HasStatus
  <1>3. CASE OldMessages \/ UNCHANGED vars
    <2>1. UNCHANGED <<board, untold, stream, queue, response, shown, tabs, watched>>
      BY <1>3 DEF OldMessages, vars
    <2> QED BY <1>t, <2>1 DEF BoundInv, Bounded, HasStatus
  <1>4. ASSUME NEW s \in Streams, Register(s) \/ Break(s) PROVE BoundInv'
    <2>1. /\ UNCHANGED <<board, untold, response, shown, tabs>>
          /\ \A r \in Streams : queue'[r] = IF r = s THEN << >> ELSE queue[r]
          /\ \A r \in Streams : r # s => stream'[r] = stream[r]
          /\ \A f \in Streams : watched'[f] \subseteq watched[f]
          /\ Break(s) => \A f \in Streams : s \notin watched'[f]
          /\ Register(s) => stream'[s] = "open"
      <3>1. CASE Register(s)
        <4>1. \A r \in Streams : queue'[r] = IF r = s THEN << >> ELSE queue[r]
          BY <1>t, <3>1 DEF Register, TypeOK
        <4>2. \A r \in Streams : stream'[r] = IF r = s THEN "open" ELSE stream[r]
          BY <1>t, <3>1 DEF Register, TypeOK
        <4> QED BY <3>1, <4>1, <4>2 DEF Register, Break
      <3>2. CASE Break(s)
        <4>1. \A r \in Streams : queue'[r] = IF r = s THEN << >> ELSE queue[r]
          BY <1>t, <3>2 DEF Break, TypeOK
        <4>2. \A r \in Streams : stream'[r] = IF r = s THEN "closed" ELSE stream[r]
          BY <1>t, <3>2 DEF Break, TypeOK
        <4>3. \A f \in Streams : watched'[f] = watched[f] \ {s}
          BY <3>2 DEF Break
        <4> QED BY <3>2, <4>1, <4>2, <4>3 DEF Register, Break
      <3> QED BY <1>4, <3>1, <3>2
    <2>2. ASSUME NEW i \in Items PROVE Bounded(i)'
      <3>1. \A r \in Streams : Within(queue'[r], i, board[i])
        BY <2>1, EmptyQueue DEF BoundInv, Bounded
      <3> QED BY <2>1, <3>1 DEF BoundInv, Bounded
    <2>3. \A r \in Streams : stream'[r] = "closed" => queue'[r] = << >>
      BY <2>1 DEF BoundInv
    <2>4. \A f \in Streams : \A r \in watched'[f] : stream'[r] = "open"
      <3> SUFFICES ASSUME NEW f \in Streams, NEW r \in watched'[f] PROVE stream'[r] = "open"
        OBVIOUS
      <3>1. r \in watched[f] /\ r \in Streams /\ stream[r] = "open"
        BY <1>t, <2>1 DEF BoundInv, TypeOK
      <3> QED BY <1>4, <2>1, <3>1
    <2> QED BY <1>t, <2>1, <2>2, <2>3, <2>4 DEF BoundInv, HasStatus
  <1>5. ASSUME NEW f \in Streams, StatusSnapshot(f) \/ PopulationSnapshot(f) PROVE BoundInv'
    <2>1. \A g \in Streams, i \in Items : response'[g][i] \in {board[i], response[g][i]}
      <3>1. PICK kind : response' = [response EXCEPT ![f] = Snapshot(f, kind)]
        BY <1>5 DEF StatusSnapshot, PopulationSnapshot
      <3>2. \A g \in Streams : response'[g] = IF g = f THEN Snapshot(f, kind) ELSE response[g]
        BY <1>t, <3>1 DEF TypeOK
      <3> QED BY <3>2 DEF Snapshot
    <2>2. UNCHANGED <<board, untold, stream, queue, shown, tabs>>
      BY <1>5 DEF StatusSnapshot, PopulationSnapshot
    <2>3. ASSUME NEW i \in Items PROVE Bounded(i)'
      BY <1>n, <2>1, <2>2 DEF BoundInv, Bounded
    <2>4. \A g \in Streams : \A s \in watched'[g] : stream[s] = "open"
      <3>1. CASE StatusSnapshot(f)
        BY <1>t, <3>1 DEF StatusSnapshot, TypeOK, BoundInv
      <3>2. CASE PopulationSnapshot(f)
        BY <3>2 DEF PopulationSnapshot, BoundInv
      <3> QED BY <1>5, <3>1, <3>2
    <2> QED BY <1>t, <2>2, <2>3, <2>4 DEF BoundInv, HasStatus
  <1>6. ASSUME NEW s \in Streams, OnEvent(s) PROVE BoundInv'
    <2>1. PICK j \in Items, v \in Nat :
              /\ v > 0 /\ v <= board[j]
              /\ queue[s] \in Seq(Events) /\ queue[s] # << >>
              /\ queue' = [queue EXCEPT ![s] = Tail(queue[s])]
              /\ shown' = [shown EXCEPT ![j] = v]
              /\ tabs' = tabs \cup {j.channel}
              /\ UNCHANGED <<board, untold, stream, response, watched>>
      BY <1>6, HandledEvent
    <2>2. ASSUME NEW i \in Items PROVE Bounded(i)'
      <3>1. \A r \in Streams : Within(queue'[r], i, board[i])
        <4> SUFFICES ASSUME NEW r \in Streams PROVE Within(queue'[r], i, board[i])
          OBVIOUS
        <4>1. Within(queue[r], i, board[i])
          BY DEF BoundInv, Bounded
        <4>2. queue'[r] = IF r = s THEN Tail(queue[s]) ELSE queue[r]
          BY <1>t, <2>1 DEF TypeOK
        <4>3. r = s => Within(Tail(queue[s]), i, board[i])
          BY <2>1, <4>1, Taken
        <4> QED BY <4>1, <4>2, <4>3
      <3>2. shown'[i] <= board[i]
        BY <1>t, <2>1 DEF BoundInv, Bounded, TypeOK
      <3> QED BY <2>1, <3>1, <3>2 DEF BoundInv, Bounded
    <2>3. \A c \in tabs' \cap EXCLUDED_CHANNELS : HasStatus(c)
      <3> SUFFICES ASSUME NEW c \in tabs' \cap EXCLUDED_CHANNELS, c \notin tabs PROVE HasStatus(c)
        BY DEF BoundInv
      <3>1. c = j.channel /\ board[j] > 0
        BY <1>n, <2>1
      <3>2. j.kind = "status"
        BY <3>1 DEF BoundInv, Bounded
      <3> QED BY <3>1, <3>2, ItemTypes DEF HasStatus
    <2>4. \A r \in Streams : stream[r] = "closed" => queue'[r] = << >>
      BY <1>t, <2>1 DEF BoundInv, TypeOK
    <2> QED BY <1>t, <2>1, <2>2, <2>3, <2>4 DEF BoundInv, HasStatus
  <1>7. ASSUME NEW s \in Streams, OnMessage(s) PROVE BoundInv'
    <2>1. /\ queue[s] # << >> /\ queue' = [queue EXCEPT ![s] = Tail(queue[s])]
          /\ UNCHANGED <<board, untold, stream, response, shown, tabs, watched>>
      BY <1>7 DEF OnMessage
    <2>2. ASSUME NEW i \in Items PROVE Bounded(i)'
      <3>1. \A r \in Streams : Within(queue'[r], i, board[i])
        <4> SUFFICES ASSUME NEW r \in Streams PROVE Within(queue'[r], i, board[i])
          OBVIOUS
        <4>1. Within(queue[r], i, board[i])
          BY DEF BoundInv, Bounded
        <4>2. queue'[r] = IF r = s THEN Tail(queue[s]) ELSE queue[r]
          BY <1>t, <2>1 DEF TypeOK
        <4>3. r = s => Within(Tail(queue[s]), i, board[i])
          BY <1>t, <2>1, <4>1, Taken
        <4> QED BY <4>1, <4>2, <4>3
      <3> QED BY <2>1, <3>1 DEF BoundInv, Bounded
    <2>3. \A r \in Streams : stream[r] = "closed" => queue'[r] = << >>
      BY <1>t, <2>1 DEF BoundInv, TypeOK
    <2> QED BY <1>t, <2>1, <2>2, <2>3 DEF BoundInv, HasStatus
  <1>8. ASSUME NEW f \in Streams, ChannelsArrive(f) PROVE BoundInv'
    <2>1. /\ UNCHANGED <<board, untold, stream, queue, response, watched>>
          /\ \A i \in Items : shown'[i] \in {shown[i], response[f][i]}
          /\ tabs' = tabs \cup {i.channel : i \in {j \in Items : response[f][j] > 0}}
      BY <1>8 DEF ChannelsArrive
    <2>2. ASSUME NEW i \in Items PROVE Bounded(i)'
      BY <2>1 DEF BoundInv, Bounded
    <2>3. \A c \in tabs' \cap EXCLUDED_CHANNELS : HasStatus(c)
      <3> SUFFICES ASSUME NEW c \in tabs' \cap EXCLUDED_CHANNELS, c \notin tabs PROVE HasStatus(c)
        BY DEF BoundInv
      <3>1. PICK j \in Items : c = j.channel /\ response[f][j] > 0
        BY <2>1
      <3>2. board[j] > 0
        BY <1>n, <3>1 DEF BoundInv, Bounded
      <3>3. j.kind = "status"
        BY <3>1, <3>2 DEF BoundInv, Bounded
      <3> QED BY <3>1, <3>2, <3>3, ItemTypes DEF HasStatus
    <2> QED BY <1>t, <2>1, <2>2, <2>3 DEF BoundInv, HasStatus
  <1>9. ASSUME NEW f \in Streams, ChannelsFail(f) PROVE BoundInv'
    <2>1. /\ UNCHANGED <<board, untold, stream, queue, response, shown, tabs>>
          /\ \A g \in Streams : watched'[g] \subseteq watched[g]
      BY <1>t, <1>9 DEF ChannelsFail, TypeOK
    <2> QED BY <1>t, <2>1 DEF BoundInv, Bounded, HasStatus
  <1>10. ASSUME NEW i \in Items, NotifyStep(i) PROVE BoundInv'
    <2>1. PICK e : e = [item |-> i, value |-> board[i]]
      OBVIOUS
    <2>2. /\ Telling(e) /\ untold' \subseteq untold
          /\ \A j \in Items : IsAbout(e, j) => j = i /\ e.value = board[i]
      BY <1>n, <1>10, <2>1, ItemEvent DEF NotifyStep
    <2>3. board[i] > 0 /\ board[i] <= board[i]
      BY <1>n, <1>10 DEF NotifyStep, BoundInv
    <2> QED BY <1>2, <2>2, <2>3
  <1>11. ASSUME NEW c \in Connected, StoreTold(c) PROVE BoundInv'
    <2>1. PICK e : e = [message |-> c]
      OBVIOUS
    <2>2. Telling(e) /\ untold' \subseteq untold /\ \A j \in Items : ~IsAbout(e, j)
      BY <1>11, <2>1, MessageEvent DEF StoreTold
    <2> QED BY <1>2, <2>2
  <1> QED BY <1>t, <1>1, <1>3, <1>4, <1>5, <1>6, <1>7, <1>8, <1>9, <1>10, <1>11, BoardSteps

\* Between a change and its event, and from its event on, the last event about
\* an item is of its present value.
LEMMA QueueStep == BoundInv /\ QueueInv /\ [Next]_vars => QueueInv'
  <1> SUFFICES ASSUME BoundInv, QueueInv, [Next]_vars, NEW s \in Streams, NEW i \in Items,
                      i \notin untold'
               PROVE  EndsIn(queue'[s], i, board'[i])
    BY DEF QueueInv
  <1> USE DEF writers, net, page, history
  <1>t. TypeOK /\ queue[s] \in Seq(Events) /\ board[i] \in Nat
    BY DEF BoundInv, TypeOK
  <1>q. i \in untold \/ EndsIn(queue[s], i, board[i])
    BY DEF QueueInv
  <1>o. stream[s] # "open" => queue[s] = << >>
    BY <1>t DEF BoundInv, TypeOK
  <1>1. ASSUME NEW S \in SUBSET Items, Change(S) PROVE EndsIn(queue'[s], i, board'[i])
    <2>1. i \notin S /\ i \notin untold /\ queue'[s] = queue[s] /\ board'[i] = board[i]
      BY <1>1 DEF Change
    <2> QED BY <1>q, <2>1
  <1>2. ASSUME NEW j \in Items, NotifyStep(j) PROVE EndsIn(queue'[s], i, board'[i])
    <2>1. PICK e : e = [item |-> j, value |-> board[j]]
      OBVIOUS
    <2>2. /\ Telling(e) /\ e \in Events /\ board' = board /\ Grown(s, e)
          /\ untold' = untold \ {j} /\ (IsAbout(e, i) <=> i = j) /\ e.value = board[j]
      BY <1>t, <1>2, <2>1, ItemEvent, ToldEach DEF NotifyStep, Telling, TypeOK
    <2>3. CASE stream[s] = "open"
      <3>1. EndsIn(Append(queue[s], e), i, board[i])
        <4>1. CASE i = j
          BY <1>t, <2>2, <4>1, Appended
        <4>2. CASE i # j
          BY <1>t, <1>q, <2>2, <4>2, Appended
        <4> QED BY <4>1, <4>2
      <3> QED BY <2>2, <2>3, <3>1 DEF Grown
    <2>4. CASE stream[s] # "open"
      BY <1>o, <2>2, <2>4, EmptyQueue DEF Grown
    <2> QED BY <2>3, <2>4
  <1>3. ASSUME NEW c \in Connected, StoreTold(c) PROVE EndsIn(queue'[s], i, board'[i])
    <2>1. PICK e : e = [message |-> c]
      OBVIOUS
    <2>2. /\ Telling(e) /\ e \in Events /\ board' = board /\ Grown(s, e)
          /\ untold' = untold /\ ~IsAbout(e, i)
      BY <1>t, <1>3, <2>1, MessageEvent, ToldEach DEF StoreTold, Telling
    <2>3. CASE stream[s] = "open"
      BY <1>t, <1>q, <2>2, <2>3, Appended DEF Grown
    <2>4. CASE stream[s] # "open"
      BY <1>o, <2>2, <2>4, EmptyQueue DEF Grown
    <2> QED BY <2>3, <2>4
  <1>4. ASSUME NEW r \in Streams, Register(r) \/ Break(r) PROVE EndsIn(queue'[s], i, board'[i])
    <2>1. UNCHANGED <<board, untold>> /\ queue'[s] = IF r = s THEN << >> ELSE queue[s]
      BY <1>t, <1>4 DEF Register, Break, TypeOK
    <2> QED BY <1>q, <2>1, EmptyQueue
  <1>5. ASSUME NEW r \in Streams, OnEvent(r) \/ OnMessage(r) PROVE EndsIn(queue'[s], i, board'[i])
    <2>1. /\ UNCHANGED <<board, untold>> /\ queue[r] # << >>
          /\ queue'[s] = IF r = s THEN Tail(queue[s]) ELSE queue[s]
      BY <1>t, <1>5 DEF OnEvent, OnMessage, TypeOK
    <2> QED BY <1>t, <1>q, <2>1, Taken
  <1>6. CASE \/ \E f \in Streams : \/ StatusSnapshot(f) \/ PopulationSnapshot(f)
                                   \/ ChannelsArrive(f) \/ ChannelsFail(f)
             \/ OldMessages \/ UNCHANGED vars
    <2>1. UNCHANGED <<board, untold, queue>>
      BY <1>6 DEF StatusSnapshot, PopulationSnapshot, ChannelsArrive, ChannelsFail, OldMessages, vars
    <2> QED BY <1>q, <2>1
  <1> QED BY <1>t, <1>1, <1>2, <1>3, <1>4, <1>5, <1>6, BoardSteps

\* An item stays current when its values stay, and nobody gives up telling of it
\* but the stream that has set it back.
LEMMA CurrentKept ==
    ASSUME NEW f \in Streams, NEW i \in Items, Current(f, i),
           board'[i] = board[i], shown'[i] = shown[i],
           fetch'[f] = fetch[f], response'[f] = response[f], i \in fell => i \in fell',
           (i \in untold \/ \E s \in Streams : About(queue[s], i) # {}) =>
               \/ i \in untold' \/ \E s \in Streams : About(queue'[s], i) # {}
               \/ i \in fell'
    PROVE  Current(f, i)'
  BY DEF Current

LEMMA CurrentStep == BoundInv /\ QueueInv /\ CurrentInv /\ [Next]_vars => CurrentInv'
  <1> SUFFICES ASSUME BoundInv, QueueInv, CurrentInv, [Next]_vars,
                      NEW f \in Streams, NEW i \in Items, watched'[f] # {}, Snapped(f, i)'
               PROVE  Current(f, i)'
    BY DEF CurrentInv
  <1> USE DEF writers, net, page, history
  <1>t. /\ TypeOK /\ board[i] \in Nat /\ shown[i] \in Nat
        /\ \A s \in Streams : response[s][i] \in Nat /\ queue[s] \in Seq(Events)
    BY DEF BoundInv, TypeOK
  <1>b. /\ shown[i] <= board[i] /\ \A s \in Streams : response[s][i] <= board[i]
        /\ \A s \in Streams : stream[s] # "open" => queue[s] = << >>
        /\ \A s \in watched[f] : s \in Streams /\ stream[s] = "open"
    BY <1>t DEF BoundInv, Bounded, TypeOK
  <1>c. watched[f] # {} /\ Snapped(f, i) => Current(f, i)
    BY DEF CurrentInv
  <1>1. ASSUME NEW S \in SUBSET Items, Change(S) PROVE Current(f, i)'
    <2>1. /\ UNCHANGED <<queue, fetch, response, shown, fell, watched>>
          /\ board'[i] = IF i \in S THEN board[i] + 1 ELSE board[i]
          /\ untold' = untold \cup S
      BY <1>1 DEF Change
    <2>2. CASE i \in S
      BY <2>1, <2>2 DEF Current
    <2>3. CASE i \notin S
      <3>1. Current(f, i)
        BY <1>c, <2>1 DEF Snapped
      <3> QED BY <2>1, <2>3, <3>1, CurrentKept
    <2> QED BY <2>2, <2>3
  <1>2. ASSUME NEW e, Telling(e), untold' \subseteq untold,
               i \in untold \ untold' => IsAbout(e, i)
        PROVE  Current(f, i)'
    <2>1. /\ e \in Events /\ UNCHANGED <<board, fetch, response, shown, fell, watched>>
          /\ \A s \in Streams : Grown(s, e)
      BY <1>t, <1>2, ToldEach DEF Telling
    <2>2. Current(f, i)
      BY <1>c, <2>1 DEF Snapped
    <2>3. ASSUME NEW s \in Streams, About(queue[s], i) # {} PROVE About(queue'[s], i) # {}
      BY <1>t, <2>1, <2>3, Appended DEF Grown
    <2>4. ASSUME IsAbout(e, i) PROVE \E s \in Streams : About(queue'[s], i) # {}
      <3>1. PICK s \in Streams : stream[s] = "open"
        BY <1>b, <2>1
      <3>2. About(Append(queue[s], e), i) # {}
        BY <1>t, <2>1, <2>4, Appended
      <3> QED BY <2>1, <3>1, <3>2 DEF Grown
    <2> QED BY <1>2, <2>1, <2>2, <2>3, <2>4, CurrentKept
  <1>3. CASE OldMessages \/ UNCHANGED vars
    <2>1. UNCHANGED <<board, untold, queue, fetch, response, shown, fell, watched>>
      BY <1>3 DEF OldMessages, vars
    <2> QED BY <1>c, <2>1 DEF Snapped, Current
  <1>4. ASSUME NEW r \in Streams, Register(r) \/ Break(r) PROVE Current(f, i)'
    <2>1. /\ UNCHANGED <<board, untold, fetch, response, shown>> /\ fell \subseteq fell'
          /\ watched'[f] \subseteq watched[f]
          /\ \A s \in Streams : queue'[s] = IF s = r THEN << >> ELSE queue[s]
      BY <1>t, <1>4 DEF Register, Break, TypeOK
    <2>2. Current(f, i)
      BY <1>c, <2>1 DEF Snapped
    <2>3. About(queue[r], i) # {} => i \in fell'
      <3>1. CASE Register(r)
        <4>1. queue[r] = << >>
          BY <1>b, <3>1 DEF Register
        <4> QED BY <4>1, EmptyQueue
      <3>2. CASE Break(r)
        BY <3>2 DEF Break, Waiting, About, IsAbout
      <3> QED BY <1>4, <3>1, <3>2
    <2> QED BY <2>1, <2>2, <2>3, CurrentKept
  <1>5. ASSUME NEW g \in Streams, StatusSnapshot(g) \/ PopulationSnapshot(g) PROVE Current(f, i)'
    <2>1. UNCHANGED <<board, untold, queue, shown, fell>>
      BY <1>5 DEF StatusSnapshot, PopulationSnapshot
    <2>2. CASE f # g
      <3>1. /\ fetch'[f] = fetch[f] /\ response'[f] = response[f] /\ watched'[f] = watched[f]
        BY <1>t, <1>5, <2>2 DEF StatusSnapshot, PopulationSnapshot, TypeOK
      <3> QED BY <1>c, <2>1, <3>1, CurrentKept DEF Snapped
    <2>3. CASE f = g /\ StatusSnapshot(g)
      <3>1. fetch'[f] = "statuses" /\ response'[f] = Snapshot(f, "status")
        BY <1>t, <2>3 DEF StatusSnapshot, TypeOK
      <3>2. response'[f][i] = board[i]
        BY <3>1 DEF Snapped, Snapshot
      <3> QED BY <2>1, <3>1, <3>2 DEF Current
    <2>4. CASE f = g /\ PopulationSnapshot(g)
      <3>1. /\ fetch[f] = "statuses" /\ fetch'[f] = "answered" /\ watched'[f] = watched[f]
            /\ response'[f] = Snapshot(f, "population")
        BY <1>t, <2>4 DEF PopulationSnapshot, TypeOK
      <3>2. CASE i.kind = "population"
        <4>1. response'[f][i] = board[i]
          BY <3>1, <3>2 DEF Snapshot
        <4> QED BY <2>1, <3>1, <4>1 DEF Current
      <3>3. CASE i.kind # "population"
        <4>1. i.kind = "status" /\ response'[f][i] = response[f][i]
          BY <3>1, <3>3 DEF Snapshot, Items
        <4>2. Current(f, i)
          BY <1>c, <3>1, <4>1 DEF Snapped
        <4> QED BY <2>1, <3>1, <4>1, <4>2 DEF Current
      <3> QED BY <3>2, <3>3
    <2> QED BY <1>5, <2>2, <2>3, <2>4
  <1>6. ASSUME NEW r \in Streams, OnEvent(r) PROVE Current(f, i)'
    <2>1. PICK j \in Items, v \in Nat :
              /\ IsAbout(Head(queue[r]), j)
              /\ queue[r] \in Seq(Events) /\ queue[r] # << >>
              /\ queue' = [queue EXCEPT ![r] = Tail(queue[r])]
              /\ shown' = [shown EXCEPT ![j] = v] /\ fell' = fell \ {j}
              /\ UNCHANGED <<board, untold, stream, fetch, response, messages, watched>>
              /\ About(Tail(queue[r]), j) = {} /\ j \notin untold => v = board[j]
      BY <1>6, HandledEvent
    <2>2. Current(f, i) /\ \A s \in Streams : queue'[s] = IF s = r THEN Tail(queue[r]) ELSE queue[s]
      BY <1>t, <1>c, <2>1 DEF Snapped, TypeOK
    <2>3. CASE i = j
      <3>1. CASE About(Tail(queue[r]), i) # {} \/ i \in untold
        BY <2>1, <2>2, <3>1 DEF Current
      <3>2. CASE ~(About(Tail(queue[r]), i) # {} \/ i \in untold)
        <4>1. shown'[i] = board'[i]
          BY <1>t, <2>1, <2>3, <3>2 DEF TypeOK
        <4> QED BY <4>1 DEF Current
      <3> QED BY <3>1, <3>2
    <2>4. CASE i # j
      <3>1. shown'[i] = shown[i] /\ (i \in fell => i \in fell') /\ ~IsAbout(Head(queue[r]), i)
        BY <1>t, <2>1, <2>4 DEF TypeOK, IsAbout
      <3>2. About(queue[r], i) # {} => About(Tail(queue[r]), i) # {}
        BY <2>1, <3>1, Taken
      <3> QED BY <2>1, <2>2, <3>1, <3>2, CurrentKept
    <2> QED BY <2>3, <2>4
  <1>7. ASSUME NEW r \in Streams, OnMessage(r) PROVE Current(f, i)'
    <2>1. /\ queue[r] # << >> /\ "message" \in DOMAIN Head(queue[r])
          /\ UNCHANGED <<board, untold, fetch, response, shown, fell, watched>>
          /\ \A s \in Streams : queue'[s] = IF s = r THEN Tail(queue[r]) ELSE queue[s]
      BY <1>t, <1>7 DEF OnMessage, TypeOK
    <2>2. ~IsAbout(Head(queue[r]), i)
      BY <1>t, <2>1, Taken, EventTypes DEF IsAbout
    <2>3. About(queue[r], i) # {} => About(Tail(queue[r]), i) # {}
      BY <1>t, <2>1, <2>2, Taken
    <2>4. Current(f, i)
      BY <1>c, <2>1 DEF Snapped
    <2> QED BY <2>1, <2>3, <2>4, CurrentKept
  <1>8. ASSUME NEW g \in Streams, ChannelsArrive(g) PROVE Current(f, i)'
    <2>1. /\ UNCHANGED <<board, untold, queue, response, watched>>
          /\ fetch[g] = "answered" /\ (f # g => fetch'[f] = fetch[f])
          /\ shown'[i] = IF response[g][i] > 0 THEN response[g][i] ELSE shown[i]
          /\ i \in fell' <=> i \in fell \/ (response[g][i] > 0 /\ response[g][i] < shown[i])
      BY <1>t, <1>8 DEF ChannelsArrive, TypeOK
    <2>2. Current(f, i)
      BY <1>c, <2>1 DEF Snapped
    <2>3. CASE i \in untold \/ (\E s \in Streams : About(queue[s], i) # {}) \/ i \in fell
      BY <2>1, <2>3 DEF Current
    <2>4. CASE shown[i] = board[i]
      <3>1. shown'[i] = board[i] \/ i \in fell'
        BY <1>t, <1>b, <2>1, <2>4
      <3> QED BY <2>1, <3>1 DEF Current
    <2>5. CASE fetch[f] # "over" /\ response[f][i] = board[i]
      <3>1. CASE f = g
        <4>1. shown'[i] = board[i]
          BY <1>t, <1>b, <2>1, <2>5, <3>1
        <4> QED BY <2>1, <4>1 DEF Current
      <3>2. CASE f # g
        BY <2>1, <2>5, <3>2 DEF Current
      <3> QED BY <3>1, <3>2
    <2> QED BY <2>2, <2>3, <2>4, <2>5 DEF Current
  <1>9. ASSUME NEW g \in Streams, ChannelsFail(g) PROVE Current(f, i)'
    <2>1. f # g /\ watched'[f] = watched[f] /\ fetch'[f] = fetch[f]
      BY <1>t, <1>9 DEF ChannelsFail, TypeOK
    <2>2. UNCHANGED <<board, untold, queue, response, shown, fell>>
      BY <1>9 DEF ChannelsFail
    <2> QED BY <1>c, <2>1, <2>2, CurrentKept DEF Snapped
  <1>10. ASSUME NEW j \in Items, NotifyStep(j) PROVE Current(f, i)'
    <2>1. PICK e : e = [item |-> j, value |-> board[j]]
      OBVIOUS
    <2>2. Telling(e) /\ untold' = untold \ {j} /\ (IsAbout(e, i) <=> i = j)
      BY <1>t, <1>10, <2>1, ItemEvent DEF NotifyStep, TypeOK
    <2> QED BY <1>2, <2>2
  <1>11. ASSUME NEW c \in Connected, StoreTold(c) PROVE Current(f, i)'
    BY <1>2, <1>11 DEF StoreTold
  <1> QED BY <1>t, <1>1, <1>3, <1>4, <1>5, <1>6, <1>7, <1>8, <1>9, <1>10, <1>11, BoardSteps

\* A tab that is there stays, and a stream that stays open keeps what it has.
LEMMA TabStep == BoundInv /\ QueueInv /\ TabInv /\ [Next]_vars => TabInv'
  <1> SUFFICES ASSUME BoundInv, QueueInv, TabInv, [Next]_vars,
                      NEW f \in Streams, NEW i \in Items, NEW s \in watched'[f],
                      Snapped(f, i)', board'[i] > 0
               PROVE  Tabbed(f, s, i)'
    BY DEF TabInv
  <1> USE DEF writers, net, page, history
  <1>t. /\ TypeOK /\ board[i] \in Nat
        /\ \A r \in Streams : response[r][i] \in Nat /\ queue[r] \in Seq(Events)
        /\ \A r \in watched[f] : r \in Streams /\ stream[r] = "open"
    BY DEF BoundInv, TypeOK
  <1>c. s \in watched[f] /\ Snapped(f, i) /\ board[i] > 0 => Tabbed(f, s, i)
    BY DEF TabInv
  <1>s. s \in Streams
    BY TypeStep DEF TypeOK
  <1>1. ASSUME NEW S \in SUBSET Items, Change(S) PROVE Tabbed(f, s, i)'
    <2>1. /\ UNCHANGED <<queue, fetch, response, tabs, watched>>
          /\ board'[i] = IF i \in S THEN board[i] + 1 ELSE board[i]
          /\ untold' = untold \cup S
      BY <1>1 DEF Change
    <2> QED BY <1>c, <2>1 DEF Snapped, Tabbed
  <1>2. ASSUME NEW e, Telling(e), untold' \subseteq untold,
               i \in untold \ untold' => IsAbout(e, i)
        PROVE  Tabbed(f, s, i)'
    <2>1. /\ e \in Events /\ UNCHANGED <<board, fetch, response, tabs, watched>> /\ Grown(s, e)
      BY <1>t, <1>s, <1>2, ToldEach DEF Telling
    <2>2. Tabbed(f, s, i) /\ queue'[s] = Append(queue[s], e)
      BY <1>t, <1>c, <2>1 DEF Snapped, Grown
    <2>3. About(queue[s], i) # {} \/ IsAbout(e, i) => About(queue'[s], i) # {}
      BY <1>t, <1>s, <2>1, <2>2, Appended
    <2> QED BY <1>2, <2>1, <2>2, <2>3 DEF Tabbed
  <1>3. CASE OldMessages \/ UNCHANGED vars
    <2>1. UNCHANGED <<board, untold, queue, fetch, response, tabs, watched>>
      BY <1>3 DEF OldMessages, vars
    <2> QED BY <1>c, <2>1 DEF Snapped, Tabbed
  <1>4. ASSUME NEW r \in Streams, Register(r) \/ Break(r) PROVE Tabbed(f, s, i)'
    <2>1. UNCHANGED <<board, untold, fetch, response, tabs>> /\ s \in watched[f] /\ s # r
      BY <1>t, <1>4 DEF Register, Break, TypeOK
    <2>2. queue'[s] = queue[s]
      BY <1>t, <1>s, <1>4, <2>1 DEF Register, Break, TypeOK
    <2> QED BY <1>c, <2>1, <2>2 DEF Snapped, Tabbed
  <1>5. ASSUME NEW g \in Streams, StatusSnapshot(g) \/ PopulationSnapshot(g) PROVE Tabbed(f, s, i)'
    <2>1. UNCHANGED <<board, untold, queue, tabs>>
      BY <1>5 DEF StatusSnapshot, PopulationSnapshot
    <2>2. CASE f # g
      <3>1. fetch'[f] = fetch[f] /\ response'[f] = response[f] /\ watched'[f] = watched[f]
        BY <1>t, <1>5, <2>2 DEF StatusSnapshot, PopulationSnapshot, TypeOK
      <3> QED BY <1>c, <2>1, <3>1 DEF Snapped, Tabbed
    <2>3. CASE f = g /\ StatusSnapshot(g)
      <3>1. fetch'[f] = "statuses" /\ response'[f] = Snapshot(f, "status")
        BY <1>t, <2>3 DEF StatusSnapshot, TypeOK
      <3>2. response'[f][i] = board[i]
        BY <3>1 DEF Snapped, Snapshot
      <3> QED BY <2>1, <3>1, <3>2 DEF Tabbed
    <2>4. CASE f = g /\ PopulationSnapshot(g)
      <3>1. /\ fetch[f] = "statuses" /\ fetch'[f] = "answered" /\ watched'[f] = watched[f]
            /\ response'[f] = Snapshot(f, "population")
        BY <1>t, <2>4 DEF PopulationSnapshot, TypeOK
      <3>2. CASE i.kind = "population"
        <4>1. response'[f][i] = board[i]
          BY <3>1, <3>2 DEF Snapshot
        <4> QED BY <2>1, <3>1, <4>1 DEF Tabbed
      <3>3. CASE i.kind # "population"
        <4>1. i.kind = "status" /\ response'[f][i] = response[f][i]
          BY <3>1, <3>3 DEF Snapshot, Items
        <4>2. Tabbed(f, s, i)
          BY <1>c, <2>1, <3>1, <4>1 DEF Snapped
        <4> QED BY <2>1, <3>1, <4>1, <4>2 DEF Tabbed
      <3> QED BY <3>2, <3>3
    <2> QED BY <1>5, <2>2, <2>3, <2>4
  <1>6. ASSUME NEW r \in Streams, OnEvent(r) PROVE Tabbed(f, s, i)'
    <2>1. PICK j \in Items, v \in Nat :
              /\ IsAbout(Head(queue[r]), j)
              /\ queue[r] \in Seq(Events) /\ queue[r] # << >>
              /\ queue' = [queue EXCEPT ![r] = Tail(queue[r])]
              /\ tabs' = tabs \cup {j.channel}
              /\ UNCHANGED <<board, untold, stream, fetch, response, messages, watched>>
      BY <1>6, HandledEvent
    <2>2. Tabbed(f, s, i) /\ queue'[s] = IF s = r THEN Tail(queue[r]) ELSE queue[s]
      BY <1>t, <1>s, <1>c, <2>1 DEF Snapped, TypeOK
    <2>3. CASE i = j
      BY <2>1, <2>3 DEF Tabbed
    <2>4. CASE i # j
      <3>1. ~IsAbout(Head(queue[r]), i)
        BY <2>1, <2>4 DEF IsAbout
      <3>2. About(queue[r], i) # {} => About(Tail(queue[r]), i) # {}
        BY <2>1, <3>1, Taken
      <3> QED BY <2>1, <2>2, <3>2 DEF Tabbed
    <2> QED BY <2>3, <2>4
  <1>7. ASSUME NEW r \in Streams, OnMessage(r) PROVE Tabbed(f, s, i)'
    <2>1. /\ queue[r] # << >> /\ "message" \in DOMAIN Head(queue[r])
          /\ UNCHANGED <<board, untold, fetch, response, tabs, watched>>
          /\ queue'[s] = IF s = r THEN Tail(queue[r]) ELSE queue[s]
      BY <1>t, <1>s, <1>7 DEF OnMessage, TypeOK
    <2>2. ~IsAbout(Head(queue[r]), i)
      BY <1>t, <2>1, Taken, EventTypes DEF IsAbout
    <2>3. About(queue[r], i) # {} => About(Tail(queue[r]), i) # {}
      BY <1>t, <2>1, <2>2, Taken
    <2>4. Tabbed(f, s, i)
      BY <1>c, <2>1 DEF Snapped
    <2> QED BY <2>1, <2>3, <2>4 DEF Tabbed
  <1>8. ASSUME NEW g \in Streams, ChannelsArrive(g) PROVE Tabbed(f, s, i)'
    <2>1. /\ UNCHANGED <<board, untold, queue, response, watched>> /\ tabs \subseteq tabs'
          /\ fetch[g] = "answered" /\ (f # g => fetch'[f] = fetch[f])
          /\ response[g][i] > 0 => i.channel \in tabs'
      BY <1>t, <1>8 DEF ChannelsArrive, TypeOK
    <2>2. Tabbed(f, s, i)
      BY <1>c, <2>1 DEF Snapped
    <2> QED BY <2>1, <2>2 DEF Tabbed
  <1>9. ASSUME NEW g \in Streams, ChannelsFail(g) PROVE Tabbed(f, s, i)'
    <2>1. f # g /\ watched'[f] = watched[f] /\ fetch'[f] = fetch[f]
      BY <1>t, <1>9 DEF ChannelsFail, TypeOK
    <2>2. UNCHANGED <<board, untold, queue, response, tabs>>
      BY <1>9 DEF ChannelsFail
    <2> QED BY <1>c, <2>1, <2>2 DEF Snapped, Tabbed
  <1>10. ASSUME NEW j \in Items, NotifyStep(j) PROVE Tabbed(f, s, i)'
    <2>1. PICK e : e = [item |-> j, value |-> board[j]]
      OBVIOUS
    <2>2. Telling(e) /\ untold' = untold \ {j} /\ (IsAbout(e, i) <=> i = j)
      BY <1>t, <1>10, <2>1, ItemEvent DEF NotifyStep, TypeOK
    <2> QED BY <1>2, <2>2
  <1>11. ASSUME NEW c \in Connected, StoreTold(c) PROVE Tabbed(f, s, i)'
    BY <1>2, <1>11 DEF StoreTold
  <1> QED BY <1>t, <1>1, <1>3, <1>4, <1>5, <1>6, <1>7, <1>8, <1>9, <1>10, <1>11, BoardSteps

-----------------------------------------------------------------------------
(* The theorems *)

IInv == BoundInv /\ QueueInv /\ CurrentInv /\ TabInv

LEMMA InvInit == Init => IInv
  <1> SUFFICES ASSUME Init PROVE IInv
    OBVIOUS
  <1>1. TypeOK
    <2>1. << >> \in Seq(Events)
      OBVIOUS
    <2>2. queue \in [Streams -> Seq(Events)] /\ Zero \in [Items -> Nat]
      BY <2>1 DEF Init, Zero
    <2> QED BY <2>2 DEF Init, TypeOK
  <1>2. \A i \in Items : /\ board[i] = 0 /\ shown[i] = 0
                         /\ \A s \in Streams : response[s][i] = 0 /\ queue[s] = << >>
    BY DEF Init, Zero
  <1>3. \A i \in Items : Bounded(i)
    BY <1>2, EmptyQueue DEF Bounded
  <1>4. BoundInv
    BY <1>1, <1>3 DEF Init, BoundInv
  <1>5. QueueInv
    BY <1>2, EmptyQueue DEF QueueInv
  <1> QED BY <1>4, <1>5 DEF Init, IInv, CurrentInv, TabInv

\* What is on its way, shown, or answered is never newer than the boards
\* (store.py:129-161: the board is changed before anybody is told of it), what
\* each stream still has to bring ends in the present value, and a stream that
\* has been open since a snapshot makes up for what the response does not have.
THEOREM InvCorrect == Spec => []IInv
  <1>1. Init => IInv
    BY InvInit
  <1>2. IInv /\ [Next]_vars => IInv'
    BY BoundStep, QueueStep, CurrentStep, TabStep DEF IInv
  <1> QED BY <1>1, <1>2, PTL DEF Spec

\* What a page shows when nothing is on its way is what the boards say, if one of
\* its streams has been open since one of the snapshots, except for an item that
\* a late response or the break of the other stream has set back and no event has
\* corrected (store.py:129-161, webserver.py:57-72,
\* megaphone-monitor.js:1045-1087).
THEOREM ShownCorrect == Spec => []ShownIsCurrent
  <1>1. IInv => ShownIsCurrent
    <2> SUFFICES ASSUME CurrentInv, Quiet, NEW f \in Streams, watched[f] # {},
                        NEW i \in Items \ fell
                 PROVE  shown[i] = board[i]
      BY DEF IInv, ShownIsCurrent, Overlap
    <2>1. /\ i \notin untold /\ Snapped(f, i) /\ fetch[f] = "over"
          /\ \A s \in Streams : About(queue[s], i) = {}
      BY EmptyQueue DEF Quiet, Snapped
    <2> QED BY <2>1 DEF CurrentInv, Current
  <1> QED BY <1>1, InvCorrect, PTL

\* Then every channel that has a status or a population has its tab, and the only
\* excluded channels with one, at any time, are those that were connected all the
\* same (megaphone-monitor.js:1244-1270, 1465-1469; population.py:43-44).
THEOREM TabCorrect == Spec => []TabForEach
  <1>1. IInv => TabForEach
    <2> SUFFICES ASSUME IInv PROVE TabForEach
      OBVIOUS
    <2>1. ASSUME Quiet, NEW f \in Streams, watched[f] # {}, NEW i \in Items, board[i] > 0
          PROVE  i.channel \in tabs
      <3>1. PICK s \in watched[f] : s \in Streams
        BY <2>1 DEF IInv, BoundInv, TypeOK
      <3>2. i \notin untold /\ About(queue[s], i) = {} /\ Snapped(f, i) /\ fetch[f] = "over"
        BY <2>1, <3>1, EmptyQueue DEF Quiet, Snapped
      <3> QED BY <2>1, <3>1, <3>2 DEF IInv, TabInv, Tabbed
    <2> QED BY <2>1 DEF IInv, BoundInv, HasStatus, TabForEach, Overlap
  <1> QED BY <1>1, InvCorrect, PTL
=============================================================================
