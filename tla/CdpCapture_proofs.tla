-------------------------- MODULE CdpCapture_proofs --------------------------
(***************************************************************************)
(* The theorems of CdpCapture: types, and that whoever has the list has    *)
(* its address, for every timeout and any number of switches and events.   *)
(***************************************************************************)
EXTENDS CdpCapture, FiniteSetTheorems, SequenceTheorems, TLAPS

USE TimeoutAssumption, RequestsAssumption

Kinds == Stages \cup Bodies \cup {"other"}
Events == [kind : Kinds, id : Nat]

\* The question of the current switch has been read, or stands in the socket
\* before place i.
AskedBefore(i) ==
    channel_api \/ \E j \in DOMAIN inbox : j < i /\ inbox[j].kind = "request"

\* What is in the socket, and how many bodies are asked for at most.
SocketInv ==
    /\ TypeOK
    /\ inbox \in Seq(Events)
    /\ pc = "dial" => inbox = << >> /\ pending = {}
    /\ Asked <= MaxRequests

\* While the thread reads, every answer in the socket comes after its question;
\* a list was asked for, and only after the question had been read.
AskedFirst ==
    /\ pc = "recv" => \A i \in Responses(inbox) : AskedBefore(i)
    /\ "request" \in stages /\ pc = "recv" => AskedBefore(Len(inbox) + 1)
    /\ "request" \in stages => pc # "dial"
    /\ pending # {} => channel_api
    /\ channels => pending # {}

IInv == SocketInv /\ (missed \/ AskedFirst)

\* The answers among the events, when one is added at the end of the socket.
LEMMA ResponsesHeard ==
    ASSUME NEW S, NEW box \in Seq(S), NEW e \in S
    PROVE  /\ IsFiniteSet(Responses(box))
           /\ Cardinality(Responses(Append(box, e))) =
                 Cardinality(Responses(box)) + (IF e.kind = "response" THEN 1 ELSE 0)
<1> DEFINE n == Len(box)
<1>1. n \in Nat /\ DOMAIN box = 1..n
    OBVIOUS
<1>2. IsFiniteSet(1..n)
    BY <1>1, FS_Interval
<1>3. IsFiniteSet(Responses(box))
    BY <1>1, <1>2, FS_Subset DEF Responses
<1>4. /\ DOMAIN Append(box, e) = 1..n + 1
      /\ \A i \in 1..n : Append(box, e)[i] = box[i]
      /\ Append(box, e)[n + 1] = e
    BY <1>1, AppendProperties
<1> HIDE DEF n
<1>5. CASE e.kind = "response"
  <2>1. Responses(Append(box, e)) = Responses(box) \cup {n + 1}
    BY <1>1, <1>4, <1>5 DEF Responses
  <2>2. n + 1 \notin Responses(box)
    BY <1>1 DEF Responses
  <2> QED
    BY <1>3, <1>5, <2>1, <2>2, FS_AddElement, FS_CardinalityType
<1>6. CASE e.kind # "response"
  <2>1. Responses(Append(box, e)) = Responses(box)
    BY <1>1, <1>4, <1>6 DEF Responses
  <2> QED
    BY <1>3, <1>6, <2>1, FS_CardinalityType
<1> QED
    BY <1>3, <1>5, <1>6

\* The answers among the events, when the first event is read.
LEMMA ResponsesRead ==
    ASSUME NEW S, NEW box \in Seq(S), box # << >>
    PROVE  /\ IsFiniteSet(Responses(box))
           /\ Cardinality(Responses(box)) =
                 Cardinality(Responses(Tail(box))) +
                    (IF Head(box).kind = "response" THEN 1 ELSE 0)
<1> DEFINE n == Len(box)
           shift == [i \in Responses(Tail(box)) |-> i + 1]
           later == {i \in Responses(box) : i # 1}
<1>1. n \in Nat \ {0} /\ DOMAIN box = 1..n /\ Head(box) = box[1]
    BY EmptySeq
<1>2. IsFiniteSet(Responses(box))
  <2>1. IsFiniteSet(1..n)
    BY <1>1, FS_Interval
  <2> QED
    BY <1>1, <2>1, FS_Subset DEF Responses
<1>3. DOMAIN Tail(box) = 1..n - 1 /\ \A i \in 1..n - 1 : Tail(box)[i] = box[i + 1]
    BY <1>1, HeadTailProperties
<1>4. IsFiniteSet(Responses(Tail(box)))
  <2>1. IsFiniteSet(1..n - 1)
    BY <1>1, FS_Interval
  <2> QED
    BY <1>3, <2>1, FS_Subset DEF Responses
<1> HIDE DEF n
<1>5. shift \in Bijection(Responses(Tail(box)), later)
  <2>1. \A i \in Responses(Tail(box)) : i \in Int /\ i + 1 \in later
    BY <1>1, <1>3 DEF Responses
  <2>2. \A j \in later : j \in Int /\ j - 1 \in Responses(Tail(box))
    BY <1>1, <1>3 DEF Responses
  <2> HIDE DEF later
  <2>3. shift \in [Responses(Tail(box)) -> later]
    BY <2>1
  <2>4. \A i, j \in Responses(Tail(box)) : shift[i] = shift[j] => i = j
    BY <2>1
  <2>5. \A j \in later : \E i \in Responses(Tail(box)) : shift[i] = j
    <3> TAKE j \in later
    <3>1. j - 1 \in Responses(Tail(box)) /\ shift[j - 1] = j
      BY <2>2
    <3> QED
      BY <3>1
  <2> HIDE DEF shift
  <2> QED
    BY <2>3, <2>4, <2>5 DEF Bijection, Injection, Surjection, IsInjective
<1>6. Cardinality(later) = Cardinality(Responses(Tail(box)))
  <2>1. ExistsBijection(Responses(Tail(box)), later)
    BY <1>5 DEF ExistsBijection
  <2> HIDE DEF later
  <2> QED
    BY <1>4, <2>1, FS_Bijection
<1>7. CASE Head(box).kind = "response"
  <2>1. 1 \in Responses(box) /\ later = Responses(box) \ {1}
    BY <1>1, <1>7 DEF Responses
  <2>2. Cardinality(later) = Cardinality(Responses(box)) - 1
    BY <1>2, <2>1, FS_RemoveElement
  <2> HIDE DEF later
  <2> QED
    BY <1>2, <1>6, <1>7, <2>2, FS_CardinalityType
<1>8. CASE Head(box).kind # "response"
  <2>1. later = Responses(box)
    BY <1>1, <1>8 DEF Responses
  <2> HIDE DEF later
  <2> QED
    BY <1>2, <1>6, <1>8, <2>1, FS_CardinalityType
<1> QED
    BY <1>2, <1>7, <1>8

\* The socket after an event has been added.
LEMMA Hears ==
    ASSUME SocketInv, NEW e \in Events, inbox' = Append(inbox, e)
    PROVE  /\ inbox' \in Seq(Events)
           /\ Len(inbox') = Len(inbox) + 1 /\ Len(inbox) \in Nat
           /\ inbox'[Len(inbox) + 1] = e
           /\ \A i \in 1..Len(inbox) : inbox'[i] = inbox[i]
           /\ \A i \in 1..Len(inbox') : inbox'[i] = e \/ \E j \in 1..Len(inbox) : inbox'[i] = inbox[j]
BY AppendProperties DEF SocketInv

\* The socket after an event has been read.
LEMMA ReadEffect ==
    ASSUME SocketInv, inbox # << >>, inbox' = Tail(inbox)
    PROVE  /\ inbox' \in Seq(Events)
           /\ Head(inbox) = inbox[1] /\ Head(inbox) \in Events
           /\ Len(inbox') = Len(inbox) - 1 /\ Len(inbox) \in Nat \ {0}
           /\ \A i \in 1..Len(inbox') : inbox'[i] = inbox[i + 1] /\ i + 1 \in 1..Len(inbox)
BY HeadTailProperties, EmptySeq DEF SocketInv

\* What reading an event leaves to show of SocketInv.
LEMMA ReadsKeeps ==
    ASSUME SocketInv, pc = "recv", inbox # << >>, Handled,
           token' \in BOOLEAN, channels' \in BOOLEAN, channel_api' \in BOOLEAN,
           cdp_id' = cdp_id + (IF Head(inbox).kind = "response" THEN 1 ELSE 0),
           cdp_id' = cdp_id \/ cdp_id' = cdp_id + 1,
           pending' \subseteq 1..cdp_id', owed' \subseteq pending'
    PROVE  SocketInv'
<1>1. inbox' = Tail(inbox) /\ quiet' = 0 /\ pc' \in {"recv", "done"}
    BY DEF Handled
<1>2. UNCHANGED <<elapsed, stages, reported, switched, whole, missed, silent, failed>>
    BY DEF Handled, game, history
<1>3. cdp_id \in Nat
    BY DEF SocketInv, TypeOK
<1>4. /\ Asked' = cdp_id' + Cardinality(Responses(inbox'))
      /\ Asked = cdp_id + Cardinality(Responses(inbox))
    BY DEF Asked
<1>5. inbox' \in Seq(Events) /\ inbox \in Seq(Events)
    BY <1>1, ReadEffect DEF SocketInv
<1>6. /\ Cardinality(Responses(inbox)) = Cardinality(Responses(inbox')) +
            (IF Head(inbox).kind = "response" THEN 1 ELSE 0)
      /\ Cardinality(Responses(inbox')) \in Nat
  <2>1. PICK next : next = inbox'
    OBVIOUS
  <2>2. next \in Seq(Events) /\ next = Tail(inbox)
    BY <1>1, <1>5, <2>1
  <2>3. next = << >> \/ next # << >>
    OBVIOUS
  <2>4. IsFiniteSet(Responses(next))
    <3>1. Head(inbox) \in Events
      BY <1>1, ReadEffect
    <3> QED
      BY <2>2, <3>1, ResponsesHeard
  <2>5. Cardinality(Responses(next)) \in Nat
    BY <2>4, FS_CardinalityType
  <2> QED
    BY <1>5, <2>1, <2>2, <2>5, ResponsesRead
<1>7. Asked' = Asked
    BY <1>3, <1>4, <1>6
<1>8. Asked' \in Nat /\ Asked' <= MaxRequests
    BY <1>3, <1>4, <1>6, <1>7 DEF SocketInv
<1>9. cdp_id' \in 0..MaxRequests
    BY <1>3, <1>4, <1>6, <1>8 DEF SocketInv, TypeOK
<1>10. \A i \in 1..Len(inbox') :
          /\ inbox'[i].kind \in Stages \cup Bodies \cup {"other"}
          /\ inbox'[i].id \in 0..cdp_id'
  <2>1. \A i \in 1..Len(inbox') : inbox'[i] = inbox[i + 1] /\ i + 1 \in 1..Len(inbox)
    BY <1>1, ReadEffect
  <2>2. \A i \in 1..Len(inbox) :
           /\ inbox[i].kind \in Stages \cup Bodies \cup {"other"}
           /\ inbox[i].id \in 0..cdp_id
    BY DEF SocketInv, TypeOK
  <2>3. \A id \in 0..cdp_id : id \in 0..cdp_id'
    BY <1>3
  <2> QED
    BY <2>1, <2>2, <2>3
<1>11. TypeOK'
  <2>1. pc' \in {"dial", "recv"} \cup Ended
    BY <1>1 DEF Ended
  <2>2. quiet' \in 0..CAPTURE_TIMEOUT
    BY <1>1
  <2>3. /\ {switched, whole, missed, failed, silent} \subseteq BOOLEAN
        /\ elapsed \in 0..CAPTURE_TIMEOUT + 1
        /\ stages \subseteq Stages /\ reported \subseteq stages
    BY DEF SocketInv, TypeOK
  <2> QED
    BY <1>2, <1>9, <1>10, <2>1, <2>2, <2>3 DEF TypeOK
<1> QED
    BY <1>1, <1>5, <1>8, <1>11 DEF SocketInv

\* What an event added to the socket leaves to show of SocketInv.
LEMMA HearsKeeps ==
    ASSUME SocketInv, NEW e \in Events, inbox' = Append(inbox, e), e.id \in 0..cdp_id,
           e.kind = "response" => Asked < MaxRequests,
           cdp_id' = cdp_id, pc = "recv", pc' = "recv",
           {token, channels, channel_api, switched, whole, missed, failed, silent}' \subseteq BOOLEAN,
           pending' = pending, owed' \subseteq owed, quiet' = quiet, elapsed' = elapsed,
           stages' \subseteq Stages, reported' \subseteq stages'
    PROVE  SocketInv'
<1>1. cdp_id \in Nat /\ inbox \in Seq(Events)
    BY DEF SocketInv, TypeOK
<1>2. /\ Asked' = cdp_id' + Cardinality(Responses(inbox'))
      /\ Asked = cdp_id + Cardinality(Responses(inbox))
    BY DEF Asked
<1>3. /\ Cardinality(Responses(inbox')) = Cardinality(Responses(inbox)) +
            (IF e.kind = "response" THEN 1 ELSE 0)
      /\ Cardinality(Responses(inbox)) \in Nat
    BY <1>1, ResponsesHeard, FS_CardinalityType
<1>4. Asked' <= MaxRequests
  <2>1. Asked <= MaxRequests /\ cdp_id \in 0..MaxRequests
    BY DEF SocketInv, TypeOK
  <2>2. Asked' = Asked + (IF e.kind = "response" THEN 1 ELSE 0) /\ Asked \in Nat
    BY <1>1, <1>2, <1>3
  <2> QED
    BY <2>1, <2>2
<1>5. /\ inbox' \in Seq(Events)
      /\ \A i \in 1..Len(inbox') : inbox'[i] = e \/ \E j \in 1..Len(inbox) : inbox'[i] = inbox[j]
    BY Hears
<1>6. \A i \in 1..Len(inbox') :
          /\ inbox'[i].kind \in Stages \cup Bodies \cup {"other"}
          /\ inbox'[i].id \in 0..cdp_id'
    BY <1>1, <1>5 DEF SocketInv, TypeOK, Events, Kinds
<1>7. TypeOK'
  <2>1. /\ cdp_id \in 0..MaxRequests /\ pending \subseteq 1..cdp_id /\ owed \subseteq pending
        /\ quiet \in 0..CAPTURE_TIMEOUT /\ elapsed \in 0..CAPTURE_TIMEOUT + 1
    BY DEF SocketInv, TypeOK
  <2> QED
    BY <1>6, <2>1 DEF TypeOK
<1> QED
    BY <1>4, <1>5, <1>7 DEF SocketInv

LEMMA EventKinds ==
    /\ Stages = {"request", "response", "auth"} /\ Bodies = {"list", "useless"}
    /\ Kinds = {"request", "response", "auth", "list", "useless", "other"}
BY DEF Kinds, Stages, Bodies

LEMMA SocketKeeps ==
    ASSUME SocketInv, [Next]_vars
    PROVE  SocketInv'
<1> USE EventKinds
<1>1. /\ {token, channels, channel_api, switched, whole, missed, failed, silent} \subseteq BOOLEAN
      /\ cdp_id \in 0..MaxRequests /\ pending \subseteq 1..cdp_id /\ owed \subseteq pending
      /\ quiet \in 0..CAPTURE_TIMEOUT /\ elapsed \in 0..CAPTURE_TIMEOUT + 1
      /\ stages \subseteq Stages /\ reported \subseteq stages
    BY DEF SocketInv, TypeOK
<1>2. ASSUME inbox' = inbox, cdp_id' = cdp_id, pending' = pending, owed' = owed,
             pc' = pc \/ pc' \in {"recv", "done", "raised"},
             {token, channels, channel_api, switched, whole, missed, failed, silent}' \subseteq BOOLEAN,
             quiet' \in 0..CAPTURE_TIMEOUT, elapsed' \in 0..CAPTURE_TIMEOUT + 1,
             stages' \subseteq Stages, reported' \subseteq stages'
      PROVE  SocketInv'
  <2>1. Asked' = Asked
    BY <1>2 DEF Asked, Responses
  <2>2. TypeOK'
    BY <1>1, <1>2 DEF SocketInv, TypeOK, Ended
  <2> QED
    BY <1>2, <2>1, <2>2 DEF SocketInv
<1>3. CASE Dial \/ TimesOut \/ Broken
  <2>1. /\ UNCHANGED <<token, channels, channel_api, pending, cdp_id, inbox, owed, quiet,
                       elapsed, stages, reported, switched, whole, missed, silent>>
        /\ pc' \in {"recv", "done", "raised"} /\ failed' \in BOOLEAN
    BY <1>1, <1>3 DEF Dial, TimesOut, Broken, found, requests, time,
                      game, history, Ended
  <2> QED
    BY <1>1, <1>2, <2>1
<1>4. CASE OnRequest \/ OnAuth \/ OnBody \/ OnOther
  <2>1. /\ pc = "recv" /\ inbox # << >> /\ Handled
        /\ Head(inbox).kind # "response"
        /\ UNCHANGED <<pending, cdp_id, owed>>
        /\ token' \in BOOLEAN /\ channels' \in BOOLEAN /\ channel_api' \in BOOLEAN
    BY <1>1, <1>4 DEF OnRequest, OnAuth, OnBody, OnOther, Reads, found,
                      requests
  <2> QED
    BY <1>1, <2>1, ReadsKeeps
<1>5. CASE OnResponse
  <2>1. /\ pc = "recv" /\ inbox # << >> /\ Handled
        /\ Head(inbox).kind = "response"
        /\ cdp_id' = cdp_id + 1 /\ owed' = owed \cup {cdp_id'} /\ pending' = pending \cup {cdp_id'}
        /\ UNCHANGED <<token, channels, channel_api>>
    BY <1>5 DEF OnResponse, Reads, found
  <2>2. pending' \subseteq 1..cdp_id' /\ owed' \subseteq pending'
    BY <1>1, <2>1
  <2> QED
    BY <1>1, <2>1, <2>2, ReadsKeeps
<1>6. CASE SwitchAgain \/ FallSilent \/ Tick
  <2>1. /\ UNCHANGED <<pc, token, channels, channel_api, pending, cdp_id, inbox, owed,
                       switched, whole, missed, failed>>
        /\ silent' \in BOOLEAN /\ quiet' \in 0..CAPTURE_TIMEOUT
        /\ elapsed' \in 0..CAPTURE_TIMEOUT + 1
        /\ stages' \subseteq Stages /\ reported' \subseteq stages'
    <3>1. CASE SwitchAgain
      BY <1>1, <3>1 DEF SwitchAgain, found, requests, time, history
    <3>2. CASE FallSilent
      BY <1>1, <3>2 DEF FallSilent, found, requests, time, history
    <3>3. CASE Tick
      BY <1>1, <3>3 DEF Tick, found, requests, game, history
    <3> QED
      BY <1>6, <3>1, <3>2, <3>3
  <2> QED
    BY <1>1, <1>2, <2>1
<1>7. CASE Other
  <2> DEFINE e == Event("other")
  <2>1. /\ pc = "recv" /\ inbox = << >> /\ inbox' = << e >>
        /\ UNCHANGED <<pc, token, channels, channel_api, pending, cdp_id, owed, quiet,
                       elapsed, stages, reported, switched, whole, missed, silent, failed>>
    BY <1>7 DEF Other, found, requests, time, game, history
  <2>2. e \in Events /\ e.kind = "other" /\ e.id \in 0..cdp_id
    BY <1>1 DEF Events, Event
  <2> HIDE DEF e
  <2>3. inbox' = Append(inbox, e)
    BY <2>1, <2>2
  <2> QED
    BY <1>1, <2>1, <2>2, <2>3, HearsKeeps
<1>8. ASSUME NEW stage \in Stages, Switch(stage) PROVE SocketInv'
  <2> DEFINE e == Event(stage)
  <2>1. /\ UNCHANGED <<pc, token, channels, channel_api, pending, cdp_id, owed, quiet,
                       elapsed, silent, failed>>
        /\ inbox' = IF pc = "recv" THEN Append(inbox, e) ELSE inbox
        /\ stage = "response" => Asked < MaxRequests
    BY <1>8 DEF Switch, Report, found, requests, time
  <2>2. /\ stages' \subseteq Stages /\ reported' \subseteq stages'
        /\ switched' \in BOOLEAN /\ whole' \in BOOLEAN /\ missed' \in BOOLEAN
    BY <1>1, <1>8 DEF Switch
  <2>3. e \in Events /\ e.kind = stage /\ e.id \in 0..cdp_id
    BY <1>1 DEF Events, Event
  <2> HIDE DEF e
  <2>4. CASE pc = "recv"
    BY <1>1, <2>1, <2>2, <2>3, <2>4, HearsKeeps
  <2>5. CASE pc # "recv"
    BY <1>1, <1>2, <2>1, <2>2, <2>5
  <2> QED
    BY <2>4, <2>5
<1>9. ASSUME NEW id \in owed, NEW kind \in Bodies, Reply(id, kind) PROVE SocketInv'
  <2> DEFINE e == [kind |-> kind, id |-> id]
  <2>1. /\ pc = "recv" /\ inbox' = Append(inbox, e) /\ owed' = owed \ {id}
        /\ failed' \in BOOLEAN
        /\ UNCHANGED <<pc, token, channels, channel_api, pending, cdp_id, quiet,
                       elapsed, stages, reported, switched, whole, missed, silent>>
    BY <1>1, <1>9 DEF Reply, found, requests, time, game, history
  <2>2. id \in 0..cdp_id
    BY <1>1
  <2>3. e \in Events /\ e.kind # "response" /\ e.id \in 0..cdp_id
    BY <1>1, <2>2 DEF Events
  <2> HIDE DEF e
  <2> QED
    BY <1>1, <2>1, <2>3, HearsKeeps
<1>10. CASE UNCHANGED vars
  <2>1. UNCHANGED <<pc, token, channels, channel_api, pending, cdp_id, inbox, owed, quiet,
                    elapsed, stages, reported, switched, whole, missed, failed, silent>>
    BY <1>10 DEF vars, found, requests, time, game, history
  <2> QED
    BY <1>1, <1>2, <2>1
<1> QED
    BY <1>3, <1>4, <1>5, <1>6, <1>7, <1>8, <1>9, <1>10 DEF Next, Thread

LEMMA AskedFirstKeeps ==
    ASSUME IInv, [Next]_vars, ~missed'
    PROVE  AskedFirst'
<1> USE EventKinds
<1>1. SocketInv /\ SocketInv'
    BY SocketKeeps DEF IInv
<1>2. missed \in BOOLEAN /\ Len(inbox) \in Nat /\ Len(inbox') \in Nat
  <2>1. inbox \in Seq(Events) /\ inbox' \in Seq(Events)
    BY <1>1 DEF SocketInv
  <2> QED
    BY <1>1, <2>1 DEF SocketInv, TypeOK
<1>3. ~missed
    BY <1>2 DEF Next, Thread, Dial, OnRequest, OnAuth, OnResponse,
                OnBody, OnOther, TimesOut, Broken, SwitchAgain, Other,
                FallSilent, Tick, Switch, Reply, Handled, game,
                history, vars
<1>4. AskedFirst
    BY <1>3 DEF IInv
<1>5. DOMAIN inbox = 1..Len(inbox) /\ DOMAIN inbox' = 1..Len(inbox')
    BY <1>1 DEF SocketInv
<1>6. ASSUME inbox' = inbox, UNCHANGED <<channels, channel_api, pending>>,
             stages' \subseteq stages, pc' # "dial" \/ pc = "dial",
             pc' = "recv" => pc = "recv" \/ pc = "dial"
      PROVE  AskedFirst'
  <2>1. pc = "dial" => inbox = << >>
    BY <1>1 DEF SocketInv
  <2> QED
    BY <1>2, <1>4, <1>5, <1>6, <2>1 DEF AskedFirst, AskedBefore, Responses
<1>7. CASE Dial \/ TimesOut \/ Broken
  <2>1. /\ UNCHANGED <<channels, channel_api, pending, inbox, stages>>
        /\ pc' \in {"recv", "done", "raised"} /\ (pc = "dial" \/ pc' # "recv")
    BY <1>7 DEF Dial, TimesOut, Broken, found, requests, game, Ended
  <2> QED
    BY <1>6, <2>1
<1>8. CASE SwitchAgain \/ FallSilent \/ Tick \/ UNCHANGED vars
  <2>1. /\ UNCHANGED <<channels, channel_api, pending, inbox, pc>>
        /\ stages' \subseteq stages
    BY <1>8 DEF SwitchAgain, FallSilent, Tick, found, requests, game,
                vars
  <2> QED
    BY <1>6, <2>1
<1>9. CASE \/ OnRequest \/ OnAuth \/ OnResponse \/ OnBody \/ OnOther
  <2>1. /\ pc = "recv" /\ inbox # << >> /\ inbox' = Tail(inbox) /\ stages' = stages
        /\ pc' # "dial"
        /\ channel_api' = (channel_api \/ Head(inbox).kind = "request")
        /\ pending' # {} => pending # {} \/ Head(inbox).kind = "response"
        /\ channels' => channels \/ pending # {}
        /\ pending \subseteq pending'
    <3>1. channel_api \in BOOLEAN /\ Handled /\ pc = "recv" /\ inbox # << >>
      BY <1>1, <1>9 DEF OnRequest, OnAuth, OnResponse, OnBody, OnOther,
                        Reads, SocketInv, TypeOK
    <3>2. inbox' = Tail(inbox) /\ stages' = stages /\ pc' # "dial"
      BY <3>1 DEF Handled, game
    <3>3. /\ channel_api' = (channel_api \/ Head(inbox).kind = "request")
          /\ pending' # {} => pending # {} \/ Head(inbox).kind = "response"
          /\ channels' => channels \/ pending # {}
          /\ pending \subseteq pending'
      <4>1. CASE OnRequest
        BY <3>1, <4>1, EventKinds DEF OnRequest, Reads, found, requests
      <4>2. CASE OnAuth
        BY <3>1, <4>2, EventKinds DEF OnAuth, Reads, found, requests
      <4>3. CASE OnResponse
        BY <3>1, <4>3, EventKinds DEF OnResponse, Reads, found, requests
      <4>4. CASE OnBody
        BY <3>1, <4>4, EventKinds DEF OnBody, Reads, found, requests
      <4>5. CASE OnOther
        BY <3>1, <4>5, EventKinds DEF OnOther, Reads, found, requests
      <4> QED
        BY <1>9, <4>1, <4>2, <4>3, <4>4, <4>5
    <3> QED
      BY <3>1, <3>2, <3>3
  <2>2. /\ Head(inbox) = inbox[1] /\ Len(inbox') = Len(inbox) - 1 /\ Len(inbox) \in Nat \ {0}
        /\ \A i \in 1..Len(inbox') : inbox'[i] = inbox[i + 1] /\ i + 1 \in 1..Len(inbox)
    BY <1>1, <2>1, ReadEffect
  <2>3. ASSUME NEW i \in 1..Len(inbox'), AskedBefore(i + 1)
        PROVE  channel_api' \/ \E j \in 1..Len(inbox') : j < i /\ inbox'[j].kind = "request"
    <3>1. CASE channel_api
      BY <2>1, <3>1
    <3>2. ASSUME NEW j \in 1..Len(inbox), j < i + 1, inbox[j].kind = "request", ~channel_api'
          PROVE  \E k \in 1..Len(inbox') : k < i /\ inbox'[k].kind = "request"
      <4>1. j # 1
        BY <2>1, <2>2, <3>2
      <4>2. j - 1 \in 1..Len(inbox') /\ j - 1 < i
        BY <1>2, <2>2, <3>2, <4>1
      <4>3. inbox'[j - 1] = inbox[j]
        BY <2>2, <4>2
      <4> QED
        BY <3>2, <4>2, <4>3
    <3> QED
      BY <1>5, <2>3, <3>1, <3>2 DEF AskedBefore
  <2>4. ASSUME AskedBefore(Len(inbox) + 1)
        PROVE  channel_api' \/ \E j \in 1..Len(inbox') : inbox'[j].kind = "request"
    <3>1. CASE channel_api
      BY <2>1, <3>1
    <3>2. ASSUME NEW j \in 1..Len(inbox), inbox[j].kind = "request", ~channel_api'
          PROVE  \E k \in 1..Len(inbox') : inbox'[k].kind = "request"
      <4>1. j # 1
        BY <2>1, <2>2, <3>2
      <4>2. j - 1 \in 1..Len(inbox')
        BY <1>2, <2>2, <3>2, <4>1
      <4>3. inbox'[j - 1] = inbox[j]
        BY <2>2, <4>2
      <4> QED
        BY <3>2, <4>2, <4>3
    <3> QED
      BY <1>5, <2>4, <3>1, <3>2 DEF AskedBefore
  <2>5. \A i \in 1..Len(inbox') : inbox'[i].kind = "response" => AskedBefore(i + 1)
    BY <1>4, <1>5, <2>1, <2>2 DEF AskedFirst, Responses
  <2>6. Head(inbox).kind = "response" => channel_api
    BY <1>2, <1>4, <1>5, <2>1, <2>2 DEF AskedFirst, AskedBefore, Responses
  <2>7. /\ pending' # {} => channel_api'
        /\ channels' => pending' # {}
    BY <1>4, <2>1, <2>6 DEF AskedFirst
  <2>8. \A i \in 1..Len(inbox') : inbox'[i].kind = "response" =>
           channel_api' \/ \E j \in 1..Len(inbox') : j < i /\ inbox'[j].kind = "request"
    BY <2>3, <2>5
  <2>9. "request" \in stages' =>
           channel_api' \/ \E j \in 1..Len(inbox') : inbox'[j].kind = "request"
    BY <1>4, <2>1, <2>4 DEF AskedFirst
  <2>10. (\A i \in Responses(inbox) : AskedBefore(i))'
    BY <1>5, <2>8 DEF AskedBefore, Responses
  <2>11. "request" \in stages' => AskedBefore(Len(inbox) + 1)'
    BY <1>2, <1>5, <2>9 DEF AskedBefore
  <2> QED
    BY <2>1, <2>7, <2>10, <2>11 DEF AskedFirst
<1>10. ASSUME NEW e \in Events, pc = "recv", inbox' = Append(inbox, e),
              UNCHANGED <<pc, channels, channel_api, pending>>,
              e.kind = "response" => "request" \in stages,
              "request" \in stages' => "request" \in stages \/ e.kind = "request"
       PROVE  AskedFirst'
  <2>1. /\ Len(inbox') = Len(inbox) + 1
        /\ inbox'[Len(inbox) + 1] = e
        /\ \A i \in 1..Len(inbox) : inbox'[i] = inbox[i]
    BY <1>1, <1>10, Hears
  <2>2. ASSUME NEW i \in 1..Len(inbox) + 1, AskedBefore(i)
        PROVE  channel_api \/ \E j \in 1..Len(inbox') : j < i /\ inbox'[j].kind = "request"
    BY <1>2, <1>5, <2>1, <2>2 DEF AskedBefore
  <2>3. \A i \in 1..Len(inbox') : inbox'[i].kind = "response" => AskedBefore(i)
    <3> SUFFICES ASSUME NEW i \in 1..Len(inbox'), inbox'[i].kind = "response"
                 PROVE  AskedBefore(i)
      OBVIOUS
    <3>1. CASE i = Len(inbox) + 1
      BY <1>4, <1>10, <2>1, <3>1 DEF AskedFirst
    <3>2. CASE i # Len(inbox) + 1
      <4>1. i \in 1..Len(inbox)
        BY <1>2, <2>1, <3>2
      <4> QED
        BY <1>4, <1>5, <1>10, <2>1, <4>1 DEF AskedFirst, Responses
    <3> QED
      BY <3>1, <3>2
  <2>4. "request" \in stages' =>
           channel_api \/ \E j \in 1..Len(inbox') : inbox'[j].kind = "request"
    <3>1. CASE e.kind = "request"
      <4>1. Len(inbox) + 1 \in 1..Len(inbox')
        BY <1>2, <2>1
      <4> QED
        BY <2>1, <3>1, <4>1
    <3>2. CASE "request" \in stages
      BY <1>2, <1>4, <1>10, <2>2, <3>2 DEF AskedFirst
    <3> QED
      BY <1>10, <3>1, <3>2
  <2>5. \A i \in 1..Len(inbox') : inbox'[i].kind = "response" =>
           channel_api \/ \E j \in 1..Len(inbox') : j < i /\ inbox'[j].kind = "request"
    BY <2>1, <2>2, <2>3
  <2> QED
    BY <1>2, <1>4, <1>5, <1>10, <2>4, <2>5 DEF AskedFirst, AskedBefore, Responses
<1>11. CASE Other
  <2> DEFINE e == Event("other")
  <2>1. /\ pc = "recv" /\ inbox = << >> /\ inbox' = << e >>
        /\ UNCHANGED <<pc, channels, channel_api, pending, stages>>
    BY <1>11 DEF Other, found, requests, game
  <2>2. e \in Events /\ e.kind = "other"
    BY DEF Events, Event
  <2> HIDE DEF e
  <2>3. inbox' = Append(inbox, e)
    BY <2>1, <2>2
  <2> QED
    BY <1>10, <2>1, <2>2, <2>3
<1>12. ASSUME NEW stage \in Stages, Switch(stage) PROVE AskedFirst'
  <2> DEFINE e == Event(stage)
  <2>1. /\ UNCHANGED <<pc, channels, channel_api, pending>>
        /\ inbox' = IF pc = "recv" THEN Append(inbox, e) ELSE inbox
        /\ stage = "response" => "request" \in stages
        /\ stages' = stages \cup {stage}
        /\ ~(stage = "request" /\ pc = "dial")
    BY <1>12 DEF Switch, Report, found, requests
  <2>2. e \in Events /\ e.kind = stage
    BY DEF Events, Event
  <2> HIDE DEF e
  <2>3. CASE pc = "recv"
    BY <1>10, <2>1, <2>2, <2>3
  <2>4. CASE pc # "recv"
    BY <1>4, <2>1, <2>4 DEF AskedFirst
  <2> QED
    BY <2>3, <2>4
<1>13. ASSUME NEW id \in owed, NEW kind \in Bodies, Reply(id, kind) PROVE AskedFirst'
  <2> DEFINE e == [kind |-> kind, id |-> id]
  <2>1. /\ pc = "recv" /\ inbox' = Append(inbox, e)
        /\ UNCHANGED <<pc, channels, channel_api, pending, stages>>
    BY <1>13 DEF Reply, found, requests, game
  <2>2. id \in Nat
    BY <1>1 DEF SocketInv, TypeOK
  <2>3. e \in Events /\ e.kind # "response"
    BY <2>2 DEF Events
  <2> HIDE DEF e
  <2> QED
    BY <1>10, <2>1, <2>3
<1> QED
  BY <1>7, <1>8, <1>9, <1>11, <1>12, <1>13 DEF Next, Thread

\* The socket and the order of what is in it are as said above, from the start
\* and whatever the game and the browser do (cdp.py:85-138).
THEOREM InvCorrect == Spec => []IInv
<1>1. Init => IInv
  <2> SUFFICES ASSUME Init PROVE IInv
    OBVIOUS
  <2>1. /\ pc = "dial" /\ inbox = << >> /\ pending = {} /\ cdp_id = 0 /\ stages = {}
        /\ channels = FALSE /\ channel_api = FALSE
    BY DEF Init
  <2>2. TypeOK
    <3>1. /\ token = FALSE /\ owed = {} /\ quiet = 0 /\ elapsed = 0 /\ reported = {}
          /\ switched = FALSE /\ whole = FALSE /\ missed = FALSE /\ failed = FALSE
          /\ silent = FALSE
      BY DEF Init
    <3>2. Len(inbox) = 0
      BY <2>1
    <3>3. {token, channels, channel_api, switched, whole, missed, failed, silent} \subseteq BOOLEAN
      BY <2>1, <3>1
    <3>4. cdp_id \in 0..MaxRequests /\ pending \subseteq 1..cdp_id /\ owed \subseteq pending
      BY <2>1, <3>1
    <3>5. /\ quiet \in 0..CAPTURE_TIMEOUT /\ elapsed \in 0..CAPTURE_TIMEOUT + 1
          /\ stages \subseteq Stages /\ reported \subseteq stages
      BY <2>1, <3>1
    <3>6. \A i \in 1..Len(inbox) : FALSE
      BY <3>2
    <3> QED
      BY <2>1, <3>3, <3>4, <3>5, <3>6 DEF TypeOK
  <2>3. Asked = 0
    <3>1. Responses(inbox) = {}
      BY <2>1 DEF Responses
    <3>2. Asked = cdp_id + Cardinality(Responses(inbox))
      BY DEF Asked
    <3> QED
      BY <2>1, <3>1, <3>2, FS_EmptySet
  <2>4. inbox \in Seq(Events)
    BY <2>1
  <2>5. AskedFirst
    BY <2>1 DEF AskedFirst, Responses
  <2> QED
    BY <2>1, <2>2, <2>3, <2>4, <2>5 DEF IInv, SocketInv
<1>2. IInv /\ [Next]_vars => IInv'
  BY SocketKeeps, AskedFirstKeeps DEF IInv
<1> QED
  BY <1>1, <1>2, PTL DEF Spec

\* Whoever has the list also has the address, whatever the order of the events
\* and however many switches there are (cdp.py:92-95, 137).
THEOREM AddressCorrect == Spec => []ListHasAddress
<1>1. IInv => ListHasAddress
  BY DEF IInv, SocketInv, AskedFirst, ListHasAddress
<1> QED
  BY <1>1, InvCorrect, PTL
=============================================================================
