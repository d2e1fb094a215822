-------------------------- MODULE Simulation_proofs --------------------------
(***************************************************************************)
(* Theorems of Simulation and MonitorPage, for any channels, streams,      *)
(* buffers and bounds.  In the test mode the timers are in hand, and mark  *)
(* what they were set for.  In server mode the page has what its streams   *)
(* and requests have brought, on top of what MessageStore_proofs says of   *)
(* the store.                                                              *)
(***************************************************************************)
EXTENDS Simulation, MessageStore_proofs, FiniteSetTheorems

\* The dicts whose keys and values are numbers.
Dicts == UNION {[D -> Nat] : D \in SUBSET Nat}
Sims == [seq : Nat, running : BOOLEAN, speed : BOOLEAN, interval : Nat, timers : SUBSET Nat,
         connecting : Dicts, marks : SUBSET [seq : Nat, at : Nat], ticks : Nat,
         clicks : Nat, meant : SUBSET Nat, early : Nat, raced : Nat, crossed : BOOLEAN]

\* The intervals that are alive, the starts that will set one more, and the
\* ones that may be left over.
Living(s) == Cardinality(s.timers)
Pending(s) == Cardinality(DOMAIN s.connecting)
Excess(s) == s.early + s.raced

\* Every interval that is alive or to come is accounted for, by the button or by
\* an excess; no excess is needed for the interval that the element can clear;
\* and where the button has none, because the element was taken out, a change of
\* the attribute may still set it.
Balanced(s) ==
    /\ s.interval = None \/ s.interval \in s.timers
    /\ None \notin s.timers
    /\ Living(s) + Pending(s) <= Excess(s) + One(s.running)
    /\ Living(s) <= Excess(s) + One(s.interval # None)
    /\ s.running /\ Pending(s) = 0 /\ s.interval = None => Living(s) <= Excess(s)
HandInv == Balanced(sim)

\* The page holds what it has made up itself.
TestObjects == [seq : Nat, channel_id : Channels, text : Texts, scope : Scopes, life : {0}]
TestPage ==
    /\ page = [objs |-> page.objs, messages |-> page.messages, bySeq |-> page.bySeq,
               channelMsgs |-> page.channelMsgs, gone |-> page.gone, unknown |-> page.unknown]
    /\ page.objs \in Seq(TestObjects) /\ restarts = 0
    /\ DOMAIN page.bySeq \subseteq 1..sim.seq

\* A timeout is set for a number that has been given, and the index has the
\* message it was set for under it, or nothing.
MarkInv ==
    mode = "test" =>
        /\ TestPage
        /\ ~sim.crossed =>
              /\ \A m \in sim.marks : /\ m.seq <= sim.seq
                                      /\ m.seq \in DOMAIN page.bySeq => page.bySeq[m.seq] \in sim.meant
              /\ \A k \in DOMAIN page.objs : page.objs[k].scope = "global" => k \in sim.meant

\* A simulation of the right type, with finitely many timers.
Proper(s) == s \in Sims /\ IsFiniteSet(s.timers) /\ IsFiniteSet(DOMAIN s.connecting)
SimTypes == Proper(sim)
IInv == SimTypes /\ HandInv /\ MarkInv

-----------------------------------------------------------------------------
(* Intervals and starts *)

LEMMA NoStart ==
    ASSUME NEW f \in Dicts
    PROVE  f = << >> <=> DOMAIN f = {}
  OBVIOUS

LEMMA Removed ==
    ASSUME NEW f \in Dicts, NEW n
    PROVE  /\ [k \in DOMAIN f \ {n} |-> f[k]] \in Dicts
           /\ DOMAIN [k \in DOMAIN f \ {n} |-> f[k]] = DOMAIN f \ {n}
  <1>1. PICK D \in SUBSET Nat : f \in [D -> Nat]
    BY DEF Dicts
  <1>2. [k \in DOMAIN f \ {n} |-> f[k]] \in [D \ {n} -> Nat] /\ D \ {n} \in SUBSET Nat
    BY <1>1
  <1> QED BY <1>2 DEF Dicts

LEMMA Entered ==
    ASSUME NEW f \in Dicts, NEW n \in Nat, NEW v \in Nat
    PROVE  Entry(f, n, v) \in Dicts /\ DOMAIN Entry(f, n, v) = DOMAIN f \cup {n}
  <1>1. PICK D \in SUBSET Nat : f \in [D -> Nat]
    BY DEF Dicts
  <1>2. Entry(f, n, v) \in [D \cup {n} -> Nat] /\ D \cup {n} \in SUBSET Nat
    BY <1>1 DEF Entry
  <1> QED BY <1>2 DEF Dicts, Entry

LEMMA Counted ==
    ASSUME NEW f \in Dicts, NEW n \in DOMAIN f
    PROVE  /\ [f EXCEPT ![n] = @ + 1] \in Dicts
           /\ DOMAIN [f EXCEPT ![n] = @ + 1] = DOMAIN f
  <1>1. PICK D \in SUBSET Nat : f \in [D -> Nat]
    BY DEF Dicts
  <1>2. n \in D /\ f[n] + 1 \in Nat
    BY <1>1
  <1>3. [f EXCEPT ![n] = @ + 1] \in [D -> Nat]
    BY <1>1, <1>2
  <1> QED BY <1>1, <1>3 DEF Dicts

\* A new interval has a handle of its own.
LEMMA FreshHandle ==
    ASSUME IsFiniteSet(sim.timers), sim.timers \subseteq Nat
    PROVE  Fresh \in Nat /\ Fresh # None /\ Fresh \notin sim.timers
  <1>1. Cardinality(sim.timers) \in Nat
    BY FS_CardinalityType
  <1>2. /\ IsFiniteSet(1..(Cardinality(sim.timers) + 1))
        /\ Cardinality(1..(Cardinality(sim.timers) + 1)) = Cardinality(sim.timers) + 1
    BY <1>1, FS_Interval
  <1>3. ~(1..(Cardinality(sim.timers) + 1) \subseteq sim.timers)
    BY <1>1, <1>2, FS_Subset
  <1>4. \E n \in 1..(Cardinality(sim.timers) + 1) : n \notin sim.timers
    BY <1>3
  <1>5. Fresh \in 1..(Cardinality(sim.timers) + 1) /\ Fresh \notin sim.timers
    BY <1>4 DEF Fresh
  <1> QED BY <1>1, <1>5 DEF None

\* Two states of the simulation that differ in their timers at most.
Same(a, b) ==
    /\ a.seq = b.seq /\ a.running = b.running /\ a.marks = b.marks
    /\ a.meant = b.meant /\ a.early = b.early /\ a.raced = b.raced /\ a.crossed = b.crossed

\* The numbers of an invariant about numbers.
LEMMA Sizes ==
    ASSUME NEW s, Proper(s)
    PROVE  /\ Living(s) \in Nat /\ Pending(s) \in Nat /\ Excess(s) \in Nat
           /\ One(s.running) \in {0, 1} /\ One(s.interval # None) \in {0, 1}
           /\ s.connecting = << >> <=> Pending(s) = 0
           /\ s.running \in BOOLEAN /\ s.interval \in Nat /\ s.connecting \in Dicts
           /\ s.interval \in s.timers => Living(s) > 0
  <1>1. /\ s.early \in Nat /\ s.raced \in Nat /\ s.running \in BOOLEAN
        /\ s.interval \in Nat /\ s.connecting \in Dicts
    BY DEF Proper, Sims
  <1>2. Living(s) \in Nat /\ Pending(s) \in Nat
    BY FS_CardinalityType DEF Proper, Living, Pending
  <1>3. s.connecting = << >> <=> Pending(s) = 0
    BY <1>1, NoStart, FS_EmptySet DEF Proper, Pending
  <1>4. s.interval \in s.timers => Living(s) # 0
    BY FS_EmptySet DEF Proper, Living
  <1> QED BY <1>1, <1>2, <1>3, <1>4 DEF Excess, One

\* connectNext: one channel further, or the interval in place of the start.
LEMMA ConnectEffect ==
    ASSUME NEW s, Proper(s), Balanced(s), NEW n \in DOMAIN s.connecting,
           NEW h \in Nat, Fresh = h, h # None, h \notin s.timers
    PROVE  /\ Proper(ConnectNext(s, n)) /\ Balanced(ConnectNext(s, n))
           /\ Same(ConnectNext(s, n), s)
  <1>s. s \in Sims /\ s.connecting \in Dicts
    BY DEF Proper, Sims
  <1>1. CASE s.connecting[n] < Cardinality(Channels)
    <2> DEFINE more == [s.connecting EXCEPT ![n] = @ + 1]
    <2>1. ConnectNext(s, n) = [s EXCEPT !.connecting = more]
      BY <1>1 DEF ConnectNext
    <2>2. more \in Dicts /\ DOMAIN more = DOMAIN s.connecting
      BY <1>s, Counted
    <2> HIDE DEF more
    <2>3. PICK e : e = ConnectNext(s, n)
      OBVIOUS
    <2>4. /\ e \in Sims /\ e.timers = s.timers /\ e.interval = s.interval
          /\ e.connecting = more /\ Same(e, s)
      BY <1>s, <2>1, <2>2, <2>3 DEF Sims, Same
    <2>5. Proper(e)
      BY <2>2, <2>4 DEF Proper
    <2>6. Balanced(e)
      BY <2>2, <2>4 DEF Balanced, Living, Pending, Excess, Same
    <2> QED BY <2>3, <2>4, <2>5, <2>6
  <1>2. CASE ~(s.connecting[n] < Cardinality(Channels))
    <2> DEFINE rest == [k \in DOMAIN s.connecting \ {n} |-> s.connecting[k]]
               hs == s.timers \cup {h}
    <2>1. ConnectNext(s, n) = [s EXCEPT !.interval = h, !.timers = hs, !.connecting = rest]
      BY <1>2 DEF ConnectNext
    <2>2. rest \in Dicts /\ DOMAIN rest = DOMAIN s.connecting \ {n}
      BY <1>s, Removed
    <2>3. hs \in SUBSET Nat /\ h \in hs /\ None \notin hs
      BY <1>s DEF Sims, Balanced
    <2>4. IsFiniteSet(hs) /\ Cardinality(hs) = Cardinality(s.timers) + 1
      BY FS_AddElement DEF Proper
    <2>5. /\ IsFiniteSet(DOMAIN s.connecting \ {n})
          /\ Cardinality(DOMAIN s.connecting \ {n}) = Cardinality(DOMAIN s.connecting) - 1
      BY FS_RemoveElement DEF Proper
    <2> HIDE DEF rest, hs
    <2>6. PICK e : e = ConnectNext(s, n)
      OBVIOUS
    <2>7. /\ e \in Sims /\ e.timers = hs /\ e.interval = h /\ e.connecting = rest /\ Same(e, s)
      BY <1>s, <2>1, <2>2, <2>3, <2>6 DEF Sims, Same
    <2>8. Proper(e)
      BY <2>2, <2>4, <2>5, <2>7 DEF Proper
    <2>9. /\ Living(e) = Living(s) + 1 /\ Pending(e) = Pending(s) - 1
          /\ Excess(e) = Excess(s) /\ One(e.running) = One(s.running)
          /\ One(e.interval # None) = 1
      BY <2>2, <2>4, <2>5, <2>7 DEF Living, Pending, Excess, Same, One
    <2>10. Balanced(e)
      <3>1. Pending(e) \in Nat
        BY <2>8, Sizes
      <3>2. Living(s) + Pending(s) <= Excess(s) + One(s.running)
        BY DEF Balanced
      <3>3. /\ Living(e) + Pending(e) <= Excess(e) + One(e.running)
            /\ Living(e) <= Excess(e) + One(e.interval # None)
        BY <2>9, <3>1, <3>2, Sizes
      <3> QED BY <2>3, <2>7, <3>3 DEF Balanced
    <2> QED BY <2>6, <2>7, <2>8, <2>10
  <1> QED BY <1>1, <1>2

\* Other timers, and another one of them that the element has.
Held(s, hs, i) == [s EXCEPT !.timers = hs, !.interval = i]
LEMMA HeldFields ==
    ASSUME NEW s \in Sims, NEW hs \in SUBSET Nat, NEW i \in Nat
    PROVE  /\ Held(s, hs, i) \in Sims
           /\ Held(s, hs, i).timers = hs /\ Held(s, hs, i).interval = i
           /\ Held(s, hs, i).connecting = s.connecting /\ Same(Held(s, hs, i), s)
  <1>1. Held(s, hs, i) \in Sims
    BY DEF Held, Sims
  <1>2. /\ Held(s, hs, i).timers = hs /\ Held(s, hs, i).interval = i
        /\ Held(s, hs, i).connecting = s.connecting /\ Same(Held(s, hs, i), s)
    BY DEF Held, Sims, Same
  <1> QED BY <1>1, <1>2

\* clearInterval takes one interval away, if the element has one.
LEMMA StoppedEffect ==
    ASSUME NEW s, Proper(s), Balanced(s), NEW e, e = Stopped(s)
    PROVE  /\ Proper(e) /\ Same(e, s) /\ e.connecting = s.connecting
           /\ e.timers = s.timers \ {s.interval} /\ e.interval = None /\ None \notin e.timers
           /\ Living(e) = Living(s) - One(s.interval # None)
  <1>0. PICK hs : hs = s.timers \ {s.interval}
    OBVIOUS
  <1>1. hs \in SUBSET Nat /\ s \in Sims
    BY <1>0 DEF Proper, Sims
  <1>2. /\ IsFiniteSet(hs)
        /\ Cardinality(hs) = Cardinality(s.timers) - One(s.interval # None)
    <2>1. /\ IsFiniteSet(hs)
          /\ Cardinality(hs) = IF s.interval \in s.timers THEN Cardinality(s.timers) - 1
                               ELSE Cardinality(s.timers)
      BY <1>0, FS_RemoveElement DEF Proper
    <2>2. Cardinality(s.timers) \in Nat
      BY Sizes DEF Living
    <2>3. s.interval \in s.timers <=> s.interval # None
      BY DEF Balanced
    <2> QED BY <2>1, <2>2, <2>3 DEF One
  <1>3. None \notin hs
    BY <1>0 DEF Balanced
  <1>4. e = Held(s, hs, 0)
    BY <1>0, <1>1 DEF Stopped, None, Sims, Held
  <1>5. e \in Sims
    BY <1>1, <1>4, HeldFields
  <1>6. /\ e.timers = hs /\ e.interval = 0 /\ e.connecting = s.connecting /\ Same(e, s)
    BY <1>1, <1>4, HeldFields
  <1>7. Proper(e) /\ Living(e) = Living(s) - One(s.interval # None)
    BY <1>2, <1>5, <1>6 DEF Proper, Living
  <1> QED BY <1>0, <1>3, <1>6, <1>7 DEF None

\* clearInterval and setInterval: one more only where the element had none.
LEMMA ReplacedEffect ==
    ASSUME NEW s, Proper(s), Balanced(s), s.running,
           s.interval # None \/ Living(s) + Pending(s) <= Excess(s),
           NEW h \in Nat, Fresh = h, h # None, h \notin s.timers
    PROVE  Proper(Replaced(s)) /\ Balanced(Replaced(s)) /\ Same(Replaced(s), s)
  <1> DEFINE rest == s.timers \ {s.interval}
             hs == rest \cup {h}
  <1>1. hs \in SUBSET Nat /\ s \in Sims /\ h \in hs /\ h \notin rest /\ None \notin hs
    BY DEF Proper, Sims, Balanced
  <1>2. /\ IsFiniteSet(rest)
        /\ Cardinality(rest) = IF s.interval \in s.timers THEN Cardinality(s.timers) - 1
                               ELSE Cardinality(s.timers)
    BY FS_RemoveElement DEF Proper
  <1> HIDE DEF rest
  <1>3. IsFiniteSet(hs) /\ Cardinality(hs) = Cardinality(rest) + 1
    BY <1>1, <1>2, FS_AddElement
  <1>4. Replaced(s) = [s EXCEPT !.interval = h, !.timers = hs]
    BY DEF Replaced, rest
  <1> HIDE DEF hs
  <1>5. PICK e : e = Replaced(s)
    OBVIOUS
  <1>6. /\ e \in Sims /\ e.timers = hs /\ e.interval = h /\ e.connecting = s.connecting
        /\ Same(e, s)
    BY <1>1, <1>4, <1>5 DEF Sims, Same
  <1>7. Proper(e)
    BY <1>3, <1>6 DEF Proper
  <1>8. /\ Living(e) = IF s.interval # None THEN Living(s) ELSE Living(s) + 1
        /\ Pending(e) = Pending(s) /\ Excess(e) = Excess(s)
        /\ One(e.running) = 1 /\ One(s.running) = 1 /\ One(e.interval # None) = 1
    <2>1. s.interval \in s.timers <=> s.interval # None
      BY DEF Balanced
    <2>2. Living(s) \in Nat
      BY Sizes
    <2>3. Living(e) = IF s.interval # None THEN Living(s) ELSE Living(s) + 1
      BY <1>2, <1>3, <1>6, <2>1, <2>2 DEF Living
    <2> QED BY <1>6, <2>3 DEF Pending, Excess, Same, One
  <1>9. Balanced(e)
    <2>1. /\ Living(s) + Pending(s) <= Excess(s) + One(s.running)
          /\ Living(s) <= Excess(s) + One(s.interval # None)
      BY DEF Balanced
    <2>2. Living(e) + Pending(e) <= Excess(e) + One(e.running)
      <3>1. Living(s) \in Nat /\ Pending(s) \in Nat /\ Excess(s) \in Nat
        BY Sizes
      <3>2. CASE s.interval # None
        BY <1>8, <2>1, <3>1, <3>2
      <3>3. CASE s.interval = None
        BY <1>8, <3>1, <3>3
      <3> QED BY <3>2, <3>3
    <2>3. Living(e) <= Excess(e) + 1
      <3>1. Living(s) \in Nat /\ Excess(s) \in Nat
        BY Sizes
      <3>2. CASE s.interval # None
        BY <1>8, <2>1, <3>1, <3>2 DEF One
      <3>3. CASE s.interval = None
        BY <1>8, <2>1, <3>1, <3>3 DEF One
      <3> QED BY <3>2, <3>3
    <2>4. Living(e) <= Excess(e) + One(e.interval # None)
      BY <1>8, <2>3
    <2> QED BY <1>1, <1>6, <2>2, <2>4 DEF Balanced
  <1> QED BY <1>5, <1>6, <1>7, <1>9

-----------------------------------------------------------------------------
(* The steps *)

\* What every step of the buttons, the attribute and the chain leaves alone.
Hands == Toggle \/ ChannelConnects \/ SelectSpeed \/ SpeedAttribute \/ Detach \/ Attach

LEMMA StartStep ==
    ASSUME SimTypes, HandInv, Toggle, ~sim.running
    PROVE  /\ SimTypes' /\ HandInv' /\ UNCHANGED page
           /\ sim'.seq = sim.seq /\ sim'.marks = sim.marks /\ sim'.meant = sim.meant
           /\ sim'.crossed = sim.crossed
  <1> DEFINE n == sim.clicks + 1
             conn == Entry(sim.connecting, n, 0)
             started == [sim EXCEPT !.running = TRUE, !.clicks = n, !.connecting = conn]
  <1>t. sim \in Sims /\ sim.timers \subseteq Nat /\ sim.connecting \in Dicts /\ n \in Nat
    BY DEF SimTypes, Proper, Sims
  <1>f. PICK h \in Nat : h = Fresh /\ h # None /\ h \notin sim.timers
    BY <1>t, FreshHandle DEF SimTypes, Proper
  <1>1. sim' = ConnectNext(started, n) /\ UNCHANGED page
    BY <1>t DEF Toggle, Sims
  <1>2. conn \in Dicts /\ DOMAIN conn = DOMAIN sim.connecting \cup {n}
    BY <1>t, Entered
  <1>3. /\ IsFiniteSet(DOMAIN conn)
        /\ Cardinality(DOMAIN conn) <= Cardinality(DOMAIN sim.connecting) + 1
        /\ Cardinality(DOMAIN conn) # 0
    <2>1. /\ IsFiniteSet(DOMAIN sim.connecting \cup {n})
          /\ Cardinality(DOMAIN sim.connecting \cup {n}) =
                IF n \in DOMAIN sim.connecting THEN Cardinality(DOMAIN sim.connecting)
                ELSE Cardinality(DOMAIN sim.connecting) + 1
      BY FS_AddElement DEF SimTypes, Proper
    <2>2. Cardinality(DOMAIN sim.connecting) \in Nat
      BY Sizes DEF SimTypes, Pending
    <2>3. Cardinality(DOMAIN conn) # 0
      BY <1>2, <2>1, FS_EmptySet
    <2> QED BY <1>2, <2>1, <2>2, <2>3
  <1> HIDE DEF conn, n
  <1>4. PICK s : s = started
    OBVIOUS
  <1>5. /\ s \in Sims /\ s.timers = sim.timers /\ s.running = TRUE /\ s.connecting = conn
        /\ s.interval = sim.interval /\ s.seq = sim.seq /\ s.marks = sim.marks
        /\ s.meant = sim.meant /\ s.early = sim.early /\ s.raced = sim.raced
        /\ s.crossed = sim.crossed
    BY <1>t, <1>2, <1>4 DEF Sims
  <1> HIDE DEF started
  <1>6. Proper(s)
    BY <1>3, <1>5 DEF Proper, SimTypes
  <1>7. Balanced(s)
    <2>1. /\ Living(s) = Living(sim) /\ Pending(s) <= Pending(sim) + 1 /\ Pending(s) # 0
          /\ Excess(s) = Excess(sim) /\ One(s.running) = 1 /\ One(sim.running) = 0
      BY <1>3, <1>5 DEF Living, Pending, Excess, One
    <2>2. Living(sim) + Pending(sim) <= Excess(sim) + One(sim.running)
      BY DEF HandInv, Balanced
    <2>3. Living(s) + Pending(s) <= Excess(s) + One(s.running)
      BY <1>6, <2>1, <2>2, Sizes DEF SimTypes
    <2> QED BY <1>5, <2>1, <2>3 DEF HandInv, Balanced
  <1>8. n \in DOMAIN s.connecting
    BY <1>2, <1>5
  <1>9. Proper(sim') /\ Balanced(sim') /\ Same(sim', s)
    BY <1>1, <1>4, <1>5, <1>6, <1>7, <1>8, <1>f, ConnectEffect
  <1> QED BY <1>1, <1>5, <1>9 DEF SimTypes, HandInv, Same, Proper, Balanced, Living, Pending, Excess

LEMMA StopStep ==
    ASSUME SimTypes, HandInv, Toggle, sim.running
    PROVE  /\ SimTypes' /\ HandInv' /\ UNCHANGED page
           /\ sim'.seq = sim.seq /\ sim'.marks = sim.marks /\ sim'.meant = sim.meant
           /\ sim'.crossed = sim.crossed
  <1>t. sim \in Sims /\ Balanced(sim) /\ Proper(sim)
    BY DEF SimTypes, Proper, HandInv
  <1>c. PICK c, b, hs : /\ c = sim.clicks + 1 /\ b = sim.early + One(Connecting(sim))
                        /\ hs = sim.timers \ {sim.interval}
    OBVIOUS
  <1>1. c \in Nat /\ b \in Nat /\ hs \in SUBSET Nat
    BY <1>t, <1>c DEF Sims, One
  <1>2. PICK s : s = [sim EXCEPT !.running = FALSE, !.clicks = c]
    OBVIOUS
  <1>3. s \in Sims
    BY <1>t, <1>1, <1>2 DEF Sims
  <1>4. /\ s.timers = sim.timers /\ s.running = FALSE /\ s.connecting = sim.connecting
        /\ s.interval = sim.interval /\ s.seq = sim.seq /\ s.marks = sim.marks
        /\ s.meant = sim.meant /\ s.early = sim.early /\ s.raced = sim.raced
        /\ s.crossed = sim.crossed
    BY <1>t, <1>2 DEF Sims
  <1>5. PICK e : e = Stopped(s)
    OBVIOUS
  <1>6. e = [s EXCEPT !.timers = hs, !.interval = 0]
    BY <1>c, <1>3, <1>4, <1>5 DEF Stopped, None, Sims
  <1>p. e \in Sims
    BY <1>1, <1>3, <1>6 DEF Sims
  <1>q. /\ e.timers = hs /\ e.interval = 0 /\ e.connecting = s.connecting /\ e.running = s.running
        /\ e.early = s.early /\ e.raced = s.raced /\ e.seq = s.seq /\ e.marks = s.marks
        /\ e.meant = s.meant /\ e.crossed = s.crossed
    BY <1>3, <1>6 DEF Sims
  <1>r. /\ sim' = [Stopped(s) EXCEPT !.early = Stopped(s).early + One(Connecting(s))]
        /\ UNCHANGED page
    <2>1. s = [sim EXCEPT !.running = ~sim.running, !.clicks = sim.clicks + 1]
      BY <1>t, <1>c, <1>2 DEF Sims
    <2> QED BY <1>3, <1>4, <2>1 DEF Toggle, Stopped
  <1>s. Connecting(s) = Connecting(sim)
    BY <1>4 DEF Connecting
  <1>u. sim' = [e EXCEPT !.early = b]
    BY <1>c, <1>4, <1>5, <1>q, <1>r, <1>s
  <1>x. /\ IsFiniteSet(hs) /\ None \notin hs
        /\ Cardinality(hs) = Living(sim) - One(sim.interval # None)
    <2>1. PICK z : z = Stopped(sim)
      OBVIOUS
    <2>2. /\ Proper(z) /\ z.timers = hs /\ None \notin z.timers
          /\ Living(z) = Living(sim) - One(sim.interval # None)
      BY <1>t, <1>c, <2>1, StoppedEffect
    <2> QED BY <2>2 DEF Proper, Living
  <1>y. PICK z : z = sim'
    OBVIOUS
  <1>z. z \in Sims
    BY <1>1, <1>p, <1>u, <1>y DEF Sims
  <1>w. /\ z.timers = hs /\ z.interval = None /\ z.running = FALSE
        /\ z.connecting = sim.connecting /\ z.raced = sim.raced
        /\ z.early = b
        /\ z.seq = sim.seq /\ z.marks = sim.marks /\ z.meant = sim.meant
        /\ z.crossed = sim.crossed
    BY <1>4, <1>p, <1>q, <1>u, <1>y DEF Sims, None
  <1>8. Proper(z)
    BY <1>t, <1>x, <1>w, <1>z DEF Proper
  <1>9. Balanced(z)
    <2>1. PICK l, p, x, i, o : /\ l = Living(sim) /\ p = Pending(sim) /\ x = Excess(sim)
                               /\ i = One(sim.interval # None) /\ o = One(sim.connecting # << >>)
      OBVIOUS
    <2>2. /\ l \in Nat /\ p \in Nat /\ x \in Nat /\ i \in {0, 1} /\ o \in {0, 1}
          /\ p = 0 <=> o = 0
          /\ sim.interval = None <=> i = 0
      BY <1>t, <2>1, Sizes DEF One
    <2>3. /\ l + p <= x + 1 /\ l <= x + i
          /\ p = 0 /\ i = 0 => l <= x
      BY <1>t, <2>1, <2>2 DEF Balanced, One
    <2>4. /\ Living(z) = l - i /\ Pending(z) = p
      BY <1>x, <1>w, <2>1 DEF Living, Pending
    <2>5. Excess(z) = x + o
      <3>1. sim.early \in Nat /\ sim.raced \in Nat /\ b = sim.early + o /\ x = sim.early + sim.raced
        BY <1>t, <1>c, <2>1 DEF Sims, Connecting, Excess
      <3> QED BY <1>w, <2>2, <3>1 DEF Excess
    <2>6. One(z.running) = 0 /\ One(z.interval # None) = 0
      BY <1>w DEF One
    <2>7. (l - i) + p <= x + o /\ l - i <= x + o
      BY <2>2, <2>3
    <2>8. Living(z) + Pending(z) <= Excess(z) + One(z.running)
      BY <2>2, <2>4, <2>5, <2>6, <2>7
    <2>9. Living(z) <= Excess(z) + One(z.interval # None)
      BY <2>2, <2>4, <2>5, <2>6, <2>7
    <2> QED BY <1>x, <1>w, <2>8, <2>9 DEF Balanced
  <1> QED BY <1>r, <1>y, <1>w, <1>8, <1>9 DEF SimTypes, HandInv, Proper, Balanced, Living, Pending, Excess

\* Of no account: the speed, the clicks and more races than before.
Rated(z, v, c, r) == [z EXCEPT !.speed = v, !.clicks = c, !.raced = r]
LEMMA SpeedEffect ==
    ASSUME NEW z, Proper(z), Balanced(z), NEW v \in BOOLEAN, NEW c \in Nat, NEW r \in Nat,
           r >= z.raced, NEW s, s = Rated(z, v, c, r)
    PROVE  /\ Proper(s) /\ Balanced(s)
           /\ s.running = z.running /\ s.interval = z.interval /\ s.timers = z.timers
           /\ s.seq = z.seq /\ s.marks = z.marks /\ s.meant = z.meant /\ s.crossed = z.crossed
           /\ Living(s) = Living(z) /\ Pending(s) = Pending(z) /\ Excess(s) = z.early + r
  <1>t. z \in Sims
    BY DEF Proper
  <1>1. s \in Sims
    BY <1>t DEF Rated, Sims
  <1>2. /\ s.running = z.running /\ s.interval = z.interval /\ s.timers = z.timers
        /\ s.raced = r /\ s.early = z.early /\ s.connecting = z.connecting
        /\ s.seq = z.seq /\ s.marks = z.marks /\ s.meant = z.meant /\ s.crossed = z.crossed
    BY <1>t DEF Rated, Sims
  <1>3. Proper(s)
    BY <1>1, <1>2 DEF Proper
  <1>4. Living(s) = Living(z) /\ Pending(s) = Pending(z) /\ Excess(s) = z.early + r
    BY <1>2 DEF Living, Pending, Excess
  <1>5. PICK l, p, x, y, o, i : /\ l = Living(z) /\ p = Pending(z) /\ x = Excess(z) /\ y = Excess(s)
                                /\ o = One(z.running) /\ i = One(z.interval # None)
    OBVIOUS
  <1>6. /\ l \in Nat /\ p \in Nat /\ x \in Nat /\ y \in Nat /\ o \in {0, 1} /\ i \in {0, 1}
    BY <1>3, <1>5, Sizes
  <1>7. x <= y
    <2>1. z.early \in Nat /\ z.raced \in Nat /\ x = z.early + z.raced /\ y = z.early + r
      BY <1>t, <1>4, <1>5 DEF Sims, Excess
    <2> QED BY <2>1
  <1>8. /\ l + p <= x + o /\ l <= x + i
        /\ z.running /\ p = 0 /\ z.interval = None => l <= x
    BY <1>5 DEF Balanced
  <1>9. /\ l + p <= y + o /\ l <= y + i
        /\ z.running /\ p = 0 /\ z.interval = None => l <= y
    BY <1>6, <1>7, <1>8
  <1>10. Balanced(s)
    BY <1>2, <1>4, <1>5, <1>9 DEF Balanced
  <1> QED BY <1>2, <1>3, <1>4, <1>10

LEMMA HandStep ==
    ASSUME SimTypes, HandInv, Hands
    PROVE  /\ SimTypes' /\ HandInv' /\ UNCHANGED page
           /\ sim'.seq = sim.seq /\ sim'.marks = sim.marks /\ sim'.meant = sim.meant
           /\ sim'.crossed = sim.crossed
  <1>t. sim \in Sims /\ sim.timers \subseteq Nat
    BY DEF SimTypes, Proper, Sims
  <1>f. PICK h \in Nat : h = Fresh /\ h # None /\ h \notin sim.timers
    BY <1>t, FreshHandle DEF SimTypes, Proper
  <1>n. /\ Living(sim) \in Nat /\ Pending(sim) \in Nat /\ Excess(sim) \in Nat
        /\ sim.connecting = << >> <=> Pending(sim) = 0
    BY Sizes DEF SimTypes
  <1>b. Balanced(sim) /\ Proper(sim)
    BY DEF HandInv, SimTypes
  <1>g. ASSUME NEW e, sim' = e, Proper(e), Balanced(e)
        PROVE  SimTypes' /\ HandInv'
    BY <1>g DEF SimTypes, HandInv, Proper, Balanced, Living, Pending, Excess
  <1>1. CASE Toggle
    BY <1>1, StartStep, StopStep
  <1>2. CASE ChannelConnects
    <2>1. PICK n \in DOMAIN sim.connecting : sim' = ConnectNext(sim, n)
      BY <1>2 DEF ChannelConnects
    <2>2. Proper(sim') /\ Balanced(sim') /\ Same(sim', sim)
      BY <1>b, <1>f, <2>1, ConnectEffect
    <2> QED BY <1>2, <1>g, <2>2 DEF ChannelConnects, Same
  <1>3. CASE SelectSpeed
    <2>1. PICK v \in BOOLEAN :
              LET s == [sim EXCEPT !.speed = v] IN
              sim' = IF s.running /\ s.interval # None THEN Replaced(s) ELSE s
      BY <1>3 DEF SelectSpeed
    <2>2. PICK s : s = Rated(sim, v, sim.clicks, sim.raced)
      OBVIOUS
    <2>3. s = [sim EXCEPT !.speed = v]
      BY <1>t, <2>2 DEF Rated, Sims
    <2>4. /\ Proper(s) /\ Balanced(s)
          /\ s.running = sim.running /\ s.interval = sim.interval /\ s.timers = sim.timers
          /\ s.seq = sim.seq /\ s.marks = sim.marks /\ s.meant = sim.meant
          /\ s.crossed = sim.crossed
      <3>1. sim.clicks \in Nat /\ sim.raced \in Nat /\ sim.raced >= sim.raced
        BY <1>t DEF Sims
      <3> QED BY <1>b, <2>2, <3>1, SpeedEffect
    <2>5. sim' = IF s.running /\ s.interval # None THEN Replaced(s) ELSE s
      BY <2>1, <2>3
    <2>6. CASE s.running /\ s.interval # None
      <3>1. Proper(Replaced(s)) /\ Balanced(Replaced(s)) /\ Same(Replaced(s), s)
        BY <1>f, <2>4, <2>6, ReplacedEffect
      <3> QED BY <1>3, <1>g, <2>4, <2>5, <2>6, <3>1 DEF SelectSpeed, Same
    <2>7. CASE ~(s.running /\ s.interval # None)
      BY <1>3, <1>g, <2>4, <2>5, <2>7 DEF SelectSpeed
    <2> QED BY <2>6, <2>7
  <1>4. CASE SpeedAttribute
    <2> DEFINE r == sim.raced + One(sim.running /\ Connecting(sim))
    <2>1. PICK v \in BOOLEAN :
              LET s == [sim EXCEPT !.speed = v, !.clicks = sim.clicks + 1, !.raced = r] IN
              sim' = IF s.running THEN Replaced(s) ELSE s
      BY <1>4, <1>t DEF SpeedAttribute, Sims
    <2>2. /\ r \in Nat /\ r >= sim.raced /\ sim.clicks + 1 \in Nat /\ sim.early \in Nat
          /\ sim.raced \in Nat
          /\ sim.running /\ Pending(sim) # 0 => r = sim.raced + 1
      BY <1>t, <1>n DEF Sims, One, Connecting
    <2> HIDE DEF r
    <2>3. PICK s : s = Rated(sim, v, sim.clicks + 1, r)
      OBVIOUS
    <2>4. /\ Proper(s) /\ Balanced(s)
          /\ s.running = sim.running /\ s.interval = sim.interval /\ s.timers = sim.timers
          /\ s.seq = sim.seq /\ s.marks = sim.marks /\ s.meant = sim.meant
          /\ s.crossed = sim.crossed
          /\ Living(s) = Living(sim) /\ Pending(s) = Pending(sim) /\ Excess(s) = sim.early + r
      BY <1>b, <2>2, <2>3, SpeedEffect
    <2>5. sim' = IF s.running THEN Replaced(s) ELSE s
      BY <2>1, <2>3 DEF Rated
    <2>6. CASE s.running
      <3>1. s.interval # None \/ Living(s) + Pending(s) <= Excess(s)
        <4>1. /\ Living(sim) + Pending(sim) <= Excess(sim) + One(sim.running)
              /\ Pending(sim) = 0 /\ sim.interval = None => Living(sim) <= Excess(sim)
              /\ One(sim.running) = 1
          BY <1>b, <2>4, <2>6 DEF Balanced, One
        <4>2. Excess(sim) = sim.early + sim.raced
          BY DEF Excess
        <4>3. CASE Pending(sim) = 0
          BY <1>n, <2>2, <2>4, <4>1, <4>2, <4>3
        <4>4. CASE Pending(sim) # 0
          <5>1. r = sim.raced + 1
            BY <2>2, <2>4, <2>6, <4>4
          <5> QED BY <1>n, <2>2, <2>4, <4>1, <4>2, <5>1
        <4> QED BY <4>3, <4>4
      <3>2. Proper(Replaced(s)) /\ Balanced(Replaced(s)) /\ Same(Replaced(s), s)
        BY <1>f, <2>4, <2>6, <3>1, ReplacedEffect
      <3> QED BY <1>4, <1>g, <2>4, <2>5, <2>6, <3>2 DEF SpeedAttribute, Same
    <2>7. CASE ~s.running
      BY <1>4, <1>g, <2>4, <2>5, <2>7 DEF SpeedAttribute
    <2> QED BY <2>6, <2>7
  <1>5. CASE Detach
    <2>1. sim' = Stopped(sim) /\ UNCHANGED page
      BY <1>5 DEF Detach
    <2>2. PICK e : e = Stopped(sim)
      OBVIOUS
    <2>3. /\ Proper(e) /\ Same(e, sim) /\ e.connecting = sim.connecting
          /\ e.interval = None /\ None \notin e.timers
          /\ Living(e) = Living(sim) - One(sim.interval # None)
      BY <1>b, <2>2, StoppedEffect
    <2>4. Balanced(e)
      <3>1. /\ Pending(e) = Pending(sim) /\ Excess(e) = Excess(sim) /\ e.running = sim.running
            /\ One(e.interval # None) = 0
        BY <2>3 DEF Pending, Excess, Same, One
      <3>2. /\ One(sim.running) \in {0, 1} /\ One(sim.interval # None) \in {0, 1}
            /\ sim.interval # None => One(sim.interval # None) = 1
            /\ sim.interval = None => One(sim.interval # None) = 0
        BY DEF One
      <3>3. /\ Living(sim) + Pending(sim) <= Excess(sim) + One(sim.running)
            /\ Living(sim) <= Excess(sim) + One(sim.interval # None)
            /\ sim.running /\ Pending(sim) = 0 /\ sim.interval = None => Living(sim) <= Excess(sim)
        BY <1>b DEF Balanced
      <3>4. /\ Living(e) + Pending(e) <= Excess(e) + One(e.running)
            /\ Living(e) <= Excess(e) + One(e.interval # None)
            /\ e.running /\ Pending(e) = 0 /\ e.interval = None => Living(e) <= Excess(e)
        BY <1>n, <2>3, <3>1, <3>2, <3>3
      <3> QED BY <2>3, <3>4 DEF Balanced
    <2> QED BY <1>g, <2>1, <2>2, <2>3, <2>4 DEF Same
  <1>6. CASE Attach
    <2>1. PICK v \in BOOLEAN : sim' = [sim EXCEPT !.speed = v]
      BY <1>6 DEF Attach
    <2>2. PICK s : s = Rated(sim, v, sim.clicks, sim.raced)
      OBVIOUS
    <2>3. sim' = s
      BY <1>t, <2>1, <2>2 DEF Rated, Sims
    <2>4. /\ Proper(s) /\ Balanced(s)
          /\ s.seq = sim.seq /\ s.marks = sim.marks /\ s.meant = sim.meant
          /\ s.crossed = sim.crossed
      <3>1. sim.clicks \in Nat /\ sim.raced \in Nat /\ sim.raced >= sim.raced
        BY <1>t DEF Sims
      <3> QED BY <1>b, <2>2, <3>1, SpeedEffect
    <2> QED BY <1>6, <1>g, <2>3, <2>4 DEF Attach
  <1> QED BY <1>1, <1>2, <1>3, <1>4, <1>5, <1>6 DEF Hands

\* A message that is made up gets the next number.
LEMMA TickStep ==
    ASSUME IInv, mode = "test", SimTick, UNCHANGED <<mode, restarts>>
    PROVE  IInv'
  <1>t. sim \in Sims /\ TestPage
    BY DEF IInv, SimTypes, Proper, MarkInv
  <1> DEFINE global == sim.seq > 0 /\ sim.seq % GlobalEvery = 0
             new == Len(page.objs) + 1
  <1>1. sim' = [sim EXCEPT !.seq = sim.seq + 1, !.ticks = sim.ticks + 1,
                  !.marks = IF global THEN sim.marks \cup {[seq |-> sim.seq + 1, at |-> sim.ticks]}
                                      ELSE sim.marks,
                  !.meant = IF global THEN sim.meant \cup {new} ELSE sim.meant]
    BY <1>t DEF SimTick, Sims
  <1>2. /\ sim' \in Sims /\ sim'.seq = sim.seq + 1 /\ sim'.crossed = sim.crossed
        /\ sim'.timers = sim.timers /\ sim'.interval = sim.interval
        /\ sim'.connecting = sim.connecting
        /\ sim'.running = sim.running /\ sim'.early = sim.early
        /\ sim'.raced = sim.raced
        /\ \A m \in sim'.marks : m \in sim.marks \/ (m.seq = sim.seq + 1 /\ new \in sim'.meant)
        /\ sim.meant \subseteq sim'.meant
    <2>1. Len(page.objs) \in Nat
      BY <1>t DEF TestPage
    <2>2. [seq |-> sim.seq + 1, at |-> sim.ticks] \in [seq : Nat, at : Nat] /\ new \in Nat
      BY <1>t, <2>1 DEF Sims
    <2>3. PICK ms : ms = IF global THEN sim.marks \cup {[seq |-> sim.seq + 1, at |-> sim.ticks]}
                         ELSE sim.marks
      OBVIOUS
    <2>4. PICK me : me = IF global THEN sim.meant \cup {new} ELSE sim.meant
      OBVIOUS
    <2> HIDE DEF new, global
    <2>5. /\ ms \in SUBSET [seq : Nat, at : Nat] /\ me \in SUBSET Nat /\ sim.meant \subseteq me
          /\ \A m \in ms : m \in sim.marks \/ (m.seq = sim.seq + 1 /\ new \in me)
      BY <1>t, <2>2, <2>3, <2>4 DEF Sims
    <2>6. sim' = [sim EXCEPT !.seq = sim.seq + 1, !.ticks = sim.ticks + 1, !.marks = ms, !.meant = me]
      BY <1>1, <2>3, <2>4
    <2>7. sim.seq + 1 \in Nat /\ sim.ticks + 1 \in Nat
      BY <1>t DEF Sims
    <2> QED BY <1>t, <2>5, <2>6, <2>7 DEF Sims
  <1>3. SimTypes' /\ HandInv'
    BY <1>2 DEF IInv, SimTypes, Proper, HandInv, Balanced, Living, Pending, Excess
  <1>4. PICK c \in Channels, x \in Texts :
            page' = AddMessage(page, [seq |-> sim.seq + 1, channel_id |-> c, text |-> x,
                                      scope |-> "server", life |-> restarts])
    BY DEF SimTick
  <1> DEFINE o == [seq |-> sim.seq + 1, channel_id |-> c, text |-> x, scope |-> "server", life |-> 0]
  <1>5. o \in TestObjects /\ o.scope = "server" /\ o.seq = sim.seq + 1 /\ sim.seq \in Nat
    BY <1>t DEF TestObjects, Scopes, Sims
  <1>6. page' = AddMessage(page, o) /\ restarts = 0
    BY <1>t, <1>4 DEF TestPage
  <1> HIDE DEF o, global
  <1>7. sim.seq + 1 \notin DOMAIN page.bySeq
    BY <1>t, <1>5 DEF TestPage
  <1>8. /\ page' = [objs |-> page'.objs, messages |-> page'.messages, bySeq |-> page'.bySeq,
                    channelMsgs |-> page'.channelMsgs, gone |-> page'.gone,
                    unknown |-> page'.unknown]
        /\ page'.objs = Append(page.objs, o)
        /\ page'.bySeq = Indexed(page, o.seq, new)
    BY <1>t, <1>5, <1>6, <1>7 DEF AddMessage, TestPage
  <1>9. /\ DOMAIN page'.bySeq \subseteq DOMAIN page.bySeq \cup {sim.seq + 1}
        /\ \A k \in DOMAIN page'.bySeq : page'.bySeq[k] = IF k = sim.seq + 1 THEN new ELSE page.bySeq[k]
    BY <1>5, <1>8 DEF Indexed, Entry
  <1>10. /\ page'.objs \in Seq(TestObjects) /\ DOMAIN page'.objs = DOMAIN page.objs \cup {new}
         /\ \A k \in DOMAIN page.objs : page'.objs[k] = page.objs[k]
         /\ page'.objs[new] = o
    BY <1>t, <1>5, <1>8 DEF TestPage
  <1> HIDE DEF new
  <1>11. TestPage'
    <2>1. \A k \in 1..sim.seq : k \in 1..(sim.seq + 1)
      BY <1>5
    <2> QED BY <1>t, <1>2, <1>5, <1>6, <1>8, <1>9, <1>10, <2>1 DEF TestPage
  <1>12. ASSUME ~sim'.crossed, NEW m \in sim'.marks
         PROVE  /\ m.seq <= sim'.seq
                /\ m.seq \in DOMAIN page'.bySeq => page'.bySeq[m.seq] \in sim'.meant
    <2>1. CASE m \in sim.marks
      <3>1. m.seq <= sim.seq /\ (m.seq \in DOMAIN page.bySeq => page.bySeq[m.seq] \in sim.meant)
        BY <1>2, <1>12, <2>1 DEF IInv, MarkInv
      <3>2. m.seq \in Nat
        BY <1>t, <2>1 DEF Sims
      <3> QED BY <1>2, <1>5, <1>9, <3>1, <3>2
    <2>2. CASE m.seq = sim.seq + 1 /\ new \in sim'.meant
      BY <1>2, <1>5, <1>9, <2>2
    <2> QED BY <1>2, <2>1, <2>2
  <1>13. ASSUME ~sim'.crossed, NEW k \in DOMAIN page'.objs, page'.objs[k].scope = "global"
         PROVE  k \in sim'.meant
    BY <1>2, <1>5, <1>10, <1>13 DEF IInv, MarkInv
  <1> QED BY <1>3, <1>11, <1>12, <1>13 DEF IInv, MarkInv

\* A timeout marks what the index has under its number.
LEMMA MarkStep ==
    ASSUME IInv, mode = "test", MarkTimeout, UNCHANGED <<mode, restarts>>
    PROVE  IInv'
  <1>t. sim \in Sims /\ TestPage
    BY DEF IInv, SimTypes, Proper, MarkInv
  <1>1. PICK m \in sim.marks : /\ page' = MarkGlobal(page, m.seq)
                               /\ sim' = [sim EXCEPT !.marks = sim.marks \ {m}]
    BY <1>t DEF MarkTimeout, Marks, Sims
  <1>2. /\ sim' \in Sims /\ sim'.seq = sim.seq /\ sim'.crossed = sim.crossed
        /\ sim'.timers = sim.timers /\ sim'.interval = sim.interval
        /\ sim'.connecting = sim.connecting
        /\ sim'.running = sim.running /\ sim'.early = sim.early
        /\ sim'.raced = sim.raced
        /\ sim'.marks \subseteq sim.marks /\ sim'.meant = sim.meant
    BY <1>t, <1>1 DEF Sims
  <1>3. SimTypes' /\ HandInv'
    BY <1>2 DEF IInv, SimTypes, Proper, HandInv, Balanced, Living, Pending, Excess
  <1>4. CASE m.seq \notin DOMAIN page.bySeq
    <2>1. page' = [page EXCEPT !.unknown = @ \cup {m.seq}]
      BY <1>1, <1>4 DEF MarkGlobal
    <2>2. TestPage' /\ page'.bySeq = page.bySeq /\ page'.objs = page.objs
      BY <1>t, <1>2, <2>1 DEF TestPage
    <2> QED BY <1>2, <1>3, <2>2 DEF IInv, MarkInv
  <1>5. CASE m.seq \in DOMAIN page.bySeq
    <2>1. PICK i : i = page.bySeq[m.seq]
      OBVIOUS
    <2>2. page' = [page EXCEPT !.objs[i].scope = "global"]
      BY <1>1, <1>5, <2>1 DEF MarkGlobal
    <2>3. page.objs \in [1..Len(page.objs) -> TestObjects] /\ Len(page.objs) \in Nat
      BY <1>t DEF TestPage
    <2>4. /\ page' = [objs |-> page'.objs, messages |-> page'.messages, bySeq |-> page'.bySeq,
                      channelMsgs |-> page'.channelMsgs, gone |-> page'.gone,
                      unknown |-> page'.unknown]
          /\ page'.bySeq = page.bySeq
          /\ page'.objs = [page.objs EXCEPT ![i].scope = "global"]
      BY <1>t, <2>2 DEF TestPage
    <2>5. /\ page'.objs \in [1..Len(page.objs) -> TestObjects]
          /\ DOMAIN page'.objs = DOMAIN page.objs
          /\ \A k \in DOMAIN page.objs : k # i => page'.objs[k] = page.objs[k]
      <3>1. "global" \in Scopes
        BY DEF Scopes
      <3> QED BY <2>3, <2>4, <3>1 DEF TestObjects
    <2>6. page'.objs \in Seq(TestObjects)
      BY <2>3, <2>5
    <2>7. TestPage'
      BY <1>t, <1>2, <2>4, <2>6 DEF TestPage
    <2>8. ~sim'.crossed => i \in sim'.meant
      BY <1>2, <1>5, <2>1 DEF IInv, MarkInv
    <2> QED BY <1>2, <1>3, <2>4, <2>5, <2>7, <2>8 DEF IInv, MarkInv
  <1> QED BY <1>4, <1>5

\* A clear forgets all messages, and with a mark due it is noted.
LEMMA ClearStep ==
    ASSUME IInv, mode = "test", ClearTest, UNCHANGED <<mode, restarts>>
    PROVE  IInv'
  <1>t. sim \in Sims /\ TestPage
    BY DEF IInv, SimTypes, Proper, MarkInv
  <1>1. /\ sim' = [sim EXCEPT !.seq = 0, !.crossed = sim.crossed \/ sim.marks # {}]
        /\ page' = Cleared(page)
    BY <1>t DEF ClearTest, Sims
  <1>2. /\ sim' \in Sims /\ sim'.seq = 0 /\ sim'.crossed = (sim.crossed \/ sim.marks # {})
        /\ sim'.timers = sim.timers /\ sim'.interval = sim.interval
        /\ sim'.connecting = sim.connecting
        /\ sim'.running = sim.running /\ sim'.early = sim.early
        /\ sim'.raced = sim.raced
        /\ sim'.marks = sim.marks /\ sim'.meant = sim.meant
    BY <1>t, <1>1 DEF Sims
  <1>3. SimTypes' /\ HandInv'
    BY <1>2 DEF IInv, SimTypes, Proper, HandInv, Balanced, Living, Pending, Excess
  <1>4. TestPage' /\ page'.objs = page.objs
    BY <1>t, <1>1, <1>2 DEF Cleared, NewPage, TestPage
  <1>5. ~sim'.crossed => ~sim.crossed /\ sim'.marks = {}
    BY <1>2
  <1> QED BY <1>2, <1>3, <1>4, <1>5 DEF IInv, MarkInv

LEMMA InvInit == InitMonitor => IInv
  <1> SUFFICES ASSUME InitMonitor PROVE IInv
    OBVIOUS
  <1>1. << >> \in Dicts
    <2>1. << >> \in [{} -> Nat]
      OBVIOUS
    <2> QED BY <2>1 DEF Dicts
  <1>2. sim = NewSim /\ page = NewPage /\ restarts = 0 /\ [n \in {} |-> 0] = << >>
    BY DEF InitMonitor, InitPage
  <1>3. SimTypes /\ HandInv
    BY <1>1, <1>2, FS_EmptySet DEF NewSim, SimTypes, Proper, Sims, HandInv, Balanced,
                                  Living, Pending, Excess, One, None
  <1>4. MarkInv
    BY <1>2 DEF NewPage, NewSim, MarkInv, TestPage
  <1> QED BY <1>3, <1>4 DEF IInv

LEMMA InvStep == IInv /\ [NextMonitor]_monitorVars => IInv'
  <1> SUFFICES ASSUME IInv, [NextMonitor]_monitorVars PROVE IInv'
    OBVIOUS
  <1>1. CASE UNCHANGED monitorVars
    BY <1>1 DEF monitorVars, allVars, pageVars, IInv, SimTypes, Proper, HandInv, Balanced,
                  Living, Pending, Excess, MarkInv, TestPage
  <1>2. CASE mode = "server" /\ UNCHANGED <<mode, sim>>
    BY <1>2 DEF IInv, SimTypes, Proper, HandInv, Balanced, Living, Pending, Excess, MarkInv
  <1>3. CASE mode = "test" /\ TestStep /\ UNCHANGED <<mode, restarts>>
    <2>1. CASE Hands
      <3>1. /\ SimTypes' /\ HandInv' /\ UNCHANGED page
            /\ sim'.seq = sim.seq /\ sim'.marks = sim.marks /\ sim'.meant = sim.meant
            /\ sim'.crossed = sim.crossed
        BY <2>1, HandStep DEF IInv
      <3> QED BY <1>3, <3>1 DEF IInv, MarkInv, TestPage
    <2> QED BY <1>3, <2>1, TickStep, MarkStep, ClearStep DEF TestStep, Hands
  <1> QED BY <1>1, <1>2, <1>3 DEF NextMonitor

-----------------------------------------------------------------------------
(* The theorems *)

\* Every interval is the button's or an excess, and every timeout finds the
\* message it was set for, or none, whatever the order of clicks, attribute
\* changes, removals of the element and timers (js:143-163, 1019-1025, 1105-1183).
THEOREM InvCorrect == SpecMonitor => []IInv
  BY InvInit, InvStep, PTL DEF SpecMonitor

\* The intervals that no stop will clear are no more than the stops and the
\* changes of the attribute that came while the channels were being connected,
\* and a stopped simulation has no others alive or to come; a timeout marks the
\* message it was set for, unless the numbers were started again (js:1312).
THEOREM SimulationCorrect == SpecMonitor => []SimulationInHand
  <1>1. IInv => SimulationInHand
    <2> SUFFICES ASSUME IInv PROVE SimulationInHand
      OBVIOUS
    <2>b. Balanced(sim) /\ Proper(sim)
      BY DEF IInv, SimTypes, HandInv
    <2>n. /\ Living(sim) \in Nat /\ Pending(sim) \in Nat /\ Excess(sim) \in Nat
          /\ Excess(sim) = sim.early + sim.raced
          /\ Living(sim) = Cardinality(sim.timers)
          /\ Pending(sim) = Cardinality(DOMAIN sim.connecting)
      BY <2>b, Sizes DEF Living, Pending, Excess
    <2>1. sim.interval = None \/ sim.interval \in sim.timers
      BY <2>b DEF Balanced
    <2>2. Cardinality(Orphans) = Living(sim) - One(sim.interval # None)
      <3>1. /\ Living(Stopped(sim)) = Living(sim) - One(sim.interval # None)
        BY <2>b, StoppedEffect
      <3>2. Stopped(sim).timers = Orphans
        BY <2>b DEF Stopped, Orphans, Proper, Sims
      <3> QED BY <3>1, <3>2 DEF Living
    <2>3. /\ Living(sim) <= Excess(sim) + One(sim.interval # None)
          /\ ~sim.running => Living(sim) + Pending(sim) <= Excess(sim) + 0
      BY <2>b DEF Balanced, One
    <2>4. One(sim.interval # None) \in {0, 1}
      BY DEF One
    <2>5. OrphansAccounted
      BY <2>n, <2>1, <2>2, <2>3, <2>4 DEF OrphansAccounted
    <2>6. MarksItsOwn
      BY DEF IInv, MarkInv, MarksItsOwn
    <2> QED BY <2>5, <2>6 DEF SimulationInHand
  <1> QED BY <1>1, InvCorrect, PTL

-----------------------------------------------------------------------------
(* The page in server mode: its operations *)

\* The page, with objects of the first r + 1 lives of the server.
Objs(r) == [seq : Nat, channel_id : Channels, text : Texts, scope : Scopes, life : 0..r]
Pages(r) == [objs : Seq(Objs(r)), messages : Seq(Nat), bySeq : Dicts,
             channelMsgs : [Channels -> Seq(Nat)], gone : SUBSET Nat, unknown : SUBSET Nat]

\* The lists are bounded and name objects, the message list names each once, and
\* the index has the objects of the message list under their numbers.
ListOK(list, n) == Len(list) <= maxBuffer /\ \A k \in DOMAIN list : list[k] \in 1..n
Matched(p) ==
    /\ ListOK(p.messages, Len(p.objs))
    /\ \A c \in Channels : ListOK(p.channelMsgs[c], Len(p.objs))
    /\ \A j, k \in DOMAIN p.messages : j < k => p.messages[j] < p.messages[k]
    /\ DOMAIN p.bySeq = {p.objs[p.messages[k]].seq : k \in DOMAIN p.messages}
    /\ \A k \in DOMAIN p.messages : p.bySeq[p.objs[p.messages[k]].seq] = p.messages[k]

\* The page has the number, or has had it.
Had(p, n) == n \in DOMAIN p.bySeq \cup p.gone

\* What page p knows, page q knows too, unless it has been dropped since.
Later(p, q) ==
    /\ p.gone \subseteq q.gone /\ p.unknown \subseteq q.unknown
    /\ \A n \in DOMAIN p.bySeq \ q.gone :
          /\ n \in DOMAIN q.bySeq
          /\ p.objs[p.bySeq[n]].scope = "global" => q.objs[q.bySeq[n]].scope = "global"

\* push and shift: the first of a full list makes room.
LEMMA BoundedShape ==
    ASSUME NEW list \in Seq(Nat), Len(list) <= maxBuffer, NEW ref \in Nat
    PROVE  LET b == Bounded(Append(list, ref))
               d == IF Len(list) = maxBuffer THEN 1 ELSE 0
           IN  /\ b \in Seq(Nat) /\ Len(b) = Len(list) + 1 - d /\ Len(b) <= maxBuffer
               /\ \A k \in 1..(Len(list) - d) : b[k] = list[k + d]
               /\ b[Len(b)] = ref /\ Len(b) >= 1
  <1> DEFINE long == Append(list, ref)
  <1>0. maxBuffer \in Nat /\ maxBuffer >= 1 /\ Len(list) \in Nat
    BY PageAssumption
  <1>1. /\ long \in Seq(Nat) /\ Len(long) = Len(list) + 1 /\ long # << >>
        /\ \A k \in 1..Len(list) : long[k] = list[k]
        /\ long[Len(list) + 1] = ref
    OBVIOUS
  <1> HIDE DEF long
  <1>2. CASE Len(list) = maxBuffer
    <2>1. Bounded(long) = Tail(long)
      BY <1>0, <1>1, <1>2 DEF Bounded
    <2>2. /\ Tail(long) \in Seq(Nat) /\ Len(Tail(long)) = Len(list)
          /\ \A k \in 1..Len(list) : Tail(long)[k] = long[k + 1]
      BY <1>0, <1>1, HeadTailProperties
    <2>3. \A k \in 1..(Len(list) - 1) : Tail(long)[k] = list[k + 1]
      BY <1>0, <1>1, <2>2
    <2>4. Tail(long)[Len(list)] = ref
      BY <1>0, <1>1, <1>2, <2>2
    <2> QED BY <1>0, <1>2, <2>1, <2>2, <2>3, <2>4 DEF long
  <1>3. CASE Len(list) # maxBuffer
    <2>1. Bounded(long) = long
      BY <1>0, <1>1, <1>3 DEF Bounded
    <2> QED BY <1>0, <1>1, <1>3, <2>1 DEF long
  <1> QED BY <1>2, <1>3

\* A page has the fields of its type.
LEMMA PageFields ==
    ASSUME NEW r \in Nat, NEW p \in Pages(r)
    PROVE  /\ p.objs \in Seq(Objs(r)) /\ Len(p.objs) \in Nat /\ DOMAIN p.objs = 1..Len(p.objs)
           /\ p.messages \in Seq(Nat) /\ Len(p.messages) \in Nat
           /\ DOMAIN p.messages = 1..Len(p.messages)
           /\ p.bySeq \in Dicts /\ DOMAIN p.bySeq \subseteq Nat
           /\ \A n \in DOMAIN p.bySeq : p.bySeq[n] \in Nat
           /\ p.channelMsgs \in [Channels -> Seq(Nat)]
           /\ p.gone \subseteq Nat /\ p.unknown \subseteq Nat
  <1>1. /\ p.objs \in Seq(Objs(r)) /\ p.messages \in Seq(Nat) /\ p.bySeq \in Dicts
        /\ p.channelMsgs \in [Channels -> Seq(Nat)]
        /\ p.gone \subseteq Nat /\ p.unknown \subseteq Nat
    BY DEF Pages
  <1>2. PICK D \in SUBSET Nat : p.bySeq \in [D -> Nat]
    BY <1>1 DEF Dicts
  <1>3. DOMAIN p.bySeq \subseteq Nat /\ \A n \in DOMAIN p.bySeq : p.bySeq[n] \in Nat
    BY <1>2
  <1>4. /\ Len(p.objs) \in Nat /\ DOMAIN p.objs = 1..Len(p.objs)
        /\ Len(p.messages) \in Nat /\ DOMAIN p.messages = 1..Len(p.messages)
    BY <1>1
  <1> QED BY <1>1, <1>3, <1>4

\* What the index names is in the message list.
LEMMA IndexNames ==
    ASSUME NEW r \in Nat, NEW p \in Pages(r), Matched(p), NEW n \in DOMAIN p.bySeq
    PROVE  /\ p.bySeq[n] \in 1..Len(p.objs) /\ p.objs[p.bySeq[n]].seq = n
           /\ p.objs[p.bySeq[n]] \in Objs(r)
  <1>1. PICK k \in DOMAIN p.messages : n = p.objs[p.messages[k]].seq
    BY DEF Matched
  <1>2. p.bySeq[n] = p.messages[k] /\ p.messages[k] \in 1..Len(p.objs)
    BY <1>1 DEF Matched, ListOK
  <1> QED BY <1>1, <1>2, PageFields

\* The page after a message with a number that it does not have.
LEMMA AddEffect ==
    ASSUME NEW r \in Nat, NEW p \in Pages(r), Matched(p), NEW m \in Objs(r),
           m.seq \notin DOMAIN p.bySeq
    PROVE  LET a == AddMessage(p, m)
               ref == Len(p.objs) + 1
               d == IF Len(p.messages) = maxBuffer THEN 1 ELSE 0
           IN  /\ a \in Pages(r)
               /\ a.objs = Append(p.objs, m)
               /\ a.messages = Bounded(Append(p.messages, ref))
               /\ a.channelMsgs = [p.channelMsgs EXCEPT ![m.channel_id] = Bounded(Append(@, ref))]
               /\ a.gone = p.gone \cup Dropped(p) /\ a.unknown = p.unknown
               /\ DOMAIN a.bySeq = (DOMAIN p.bySeq \cup {m.seq}) \ Dropped(p)
               /\ a.bySeq[m.seq] = ref
               /\ \A n \in DOMAIN p.bySeq \ Dropped(p) : a.bySeq[n] = p.bySeq[n]
               /\ Dropped(p) \subseteq DOMAIN p.bySeq
  <1> DEFINE a == AddMessage(p, m)
             ref == Len(p.objs) + 1
             c == m.channel_id
             index == Entry(p.bySeq, m.seq, ref)
  <1>f. /\ p.objs \in Seq(Objs(r)) /\ Len(p.objs) \in Nat /\ DOMAIN p.objs = 1..Len(p.objs)
        /\ p.messages \in Seq(Nat) /\ Len(p.messages) \in Nat
        /\ DOMAIN p.messages = 1..Len(p.messages)
        /\ p.bySeq \in Dicts /\ DOMAIN p.bySeq \subseteq Nat
        /\ p.channelMsgs \in [Channels -> Seq(Nat)]
        /\ p.gone \subseteq Nat /\ p.unknown \subseteq Nat
    BY PageFields
  <1>0. m.seq \in Nat /\ c \in Channels /\ ref \in Nat /\ maxBuffer \in Nat /\ maxBuffer >= 1
    BY <1>f, PageAssumption DEF Objs
  <1>1. Dropped(p) \subseteq DOMAIN p.bySeq
    <2>1. CASE Len(p.messages) = maxBuffer
      <3>1. 1 \in DOMAIN p.messages /\ Head(p.messages) = p.messages[1]
        BY <1>f, <1>0, <2>1
      <3>2. p.objs[Head(p.messages)].seq \in DOMAIN p.bySeq
        BY <3>1 DEF Matched
      <3> QED BY <3>2 DEF Dropped
    <2>2. CASE Len(p.messages) # maxBuffer
      BY <2>2 DEF Dropped
    <2> QED BY <2>1, <2>2
  <1>2. /\ index \in Dicts /\ DOMAIN index = DOMAIN p.bySeq \cup {m.seq}
        /\ index[m.seq] = ref /\ \A n \in DOMAIN p.bySeq : index[n] = p.bySeq[n]
    <2>1. index \in Dicts /\ DOMAIN index = DOMAIN p.bySeq \cup {m.seq}
      BY <1>f, <1>0, Entered
    <2>2. index[m.seq] = ref /\ \A n \in DOMAIN p.bySeq : index[n] = p.bySeq[n]
      BY DEF Entry
    <2> QED BY <2>1, <2>2
  <1> DEFINE rest == [k \in DOMAIN index \ Dropped(p) |-> index[k]]
  <1>3. Indexed(p, m.seq, ref) = rest
    BY DEF Indexed
  <1>4. /\ rest \in Dicts /\ DOMAIN rest = DOMAIN index \ Dropped(p)
        /\ \A n \in DOMAIN rest : rest[n] = index[n]
    <2>1. PICK D \in SUBSET Nat : index \in [D -> Nat]
      BY <1>2 DEF Dicts
    <2> HIDE DEF index
    <2>2. rest \in [D \ Dropped(p) -> Nat] /\ D \ Dropped(p) \in SUBSET Nat
      BY <2>1
    <2> QED BY <2>1, <2>2 DEF Dicts
  <1> DEFINE msgs == Bounded(Append(p.messages, ref))
             own == Bounded(Append(p.channelMsgs[c], ref))
  <1>5. msgs \in Seq(Nat) /\ own \in Seq(Nat)
    <2>1. Len(p.messages) <= maxBuffer /\ Len(p.channelMsgs[c]) <= maxBuffer
      BY <1>0 DEF Matched, ListOK
    <2>2. p.channelMsgs[c] \in Seq(Nat)
      BY <1>f, <1>0
    <2> HIDE DEF ref, c
    <2>3. msgs \in Seq(Nat)
      BY <1>f, <1>0, <2>1, BoundedShape
    <2>4. own \in Seq(Nat)
      BY <1>0, <2>1, <2>2, BoundedShape
    <2> QED BY <2>3, <2>4
  <1>6. PICK i, l, o, g : i = rest /\ l = msgs /\ o = own /\ g = p.gone \cup Dropped(p)
    OBVIOUS
  <1>7. a = [p EXCEPT !.objs = Append(p.objs, m), !.messages = l, !.bySeq = i,
                      !.channelMsgs = [p.channelMsgs EXCEPT ![c] = o], !.gone = g]
    <2>1. a = [p EXCEPT !.objs = Append(@, m), !.messages = Bounded(Append(@, ref)),
                        !.bySeq = Indexed(p, m.seq, ref),
                        !.channelMsgs[c] = Bounded(Append(@, ref)), !.gone = @ \cup Dropped(p)]
      BY DEF AddMessage
    <2>2. p = [objs |-> p.objs, messages |-> p.messages, bySeq |-> p.bySeq,
               channelMsgs |-> p.channelMsgs, gone |-> p.gone, unknown |-> p.unknown]
      BY DEF Pages
    <2> HIDE DEF a, rest, msgs, own, index
    <2> QED BY <1>3, <1>6, <2>1, <2>2 DEF msgs, own
  <1>8. /\ i \in Dicts /\ l \in Seq(Nat) /\ o \in Seq(Nat) /\ g \in SUBSET Nat
        /\ [p.channelMsgs EXCEPT ![c] = o] \in [Channels -> Seq(Nat)]
        /\ Append(p.objs, m) \in Seq(Objs(r))
    <2>1. i \in Dicts /\ l \in Seq(Nat) /\ o \in Seq(Nat) /\ g \in SUBSET Nat
      BY <1>f, <1>1, <1>4, <1>5, <1>6
    <2>2. [p.channelMsgs EXCEPT ![c] = o] \in [Channels -> Seq(Nat)]
      BY <1>f, <2>1
    <2> QED BY <1>f, <2>1, <2>2
  <1> HIDE DEF a, rest, msgs, own, index, ref, c
  <1>9. /\ a \in Pages(r) /\ a.objs = Append(p.objs, m) /\ a.messages = l /\ a.bySeq = i
        /\ a.channelMsgs = [p.channelMsgs EXCEPT ![c] = o] /\ a.gone = g
        /\ a.unknown = p.unknown
    <2>1. PICK os, cs : os = Append(p.objs, m) /\ cs = [p.channelMsgs EXCEPT ![c] = o]
      OBVIOUS
    <2>2. a = [p EXCEPT !.objs = os, !.messages = l, !.bySeq = i, !.channelMsgs = cs, !.gone = g]
      BY <1>7, <2>1
    <2>3. os \in Seq(Objs(r)) /\ cs \in [Channels -> Seq(Nat)]
      BY <1>8, <2>1
    <2>4. /\ a.objs = os /\ a.messages = l /\ a.bySeq = i /\ a.channelMsgs = cs /\ a.gone = g
          /\ a.unknown = p.unknown /\ a \in Pages(r)
      BY <1>8, <2>2, <2>3 DEF Pages
    <2> QED BY <2>1, <2>4
  <1>10. /\ DOMAIN i = (DOMAIN p.bySeq \cup {m.seq}) \ Dropped(p)
         /\ i[m.seq] = ref
         /\ \A n \in DOMAIN p.bySeq \ Dropped(p) : i[n] = p.bySeq[n]
    BY <1>1, <1>2, <1>4, <1>6
  <1> QED BY <1>1, <1>6, <1>9, <1>10 DEF a, ref, c, msgs, own

LEMMA LaterReflexive == \A p : Later(p, p)
  BY DEF Later

LEMMA LaterTransitive ==
    ASSUME NEW p, NEW q, NEW w, Later(p, q), Later(q, w)
    PROVE  Later(p, w)
  BY DEF Later

\* A message is on the page after addMessage, and what was there is there still
\* or has been dropped; index and list match.
LEMMA AddKeeps ==
    ASSUME NEW r \in Nat, NEW p \in Pages(r), Matched(p), NEW m \in Objs(r)
    PROVE  LET a == AddMessage(p, m)
           IN  /\ a \in Pages(r) /\ Matched(a) /\ Later(p, a) /\ Had(a, m.seq)
               /\ \A k \in DOMAIN a.objs : (k \in DOMAIN p.objs /\ a.objs[k] = p.objs[k]) \/ a.objs[k] = m
  <1> DEFINE new == Len(p.objs) + 1
             d == IF Len(p.messages) = maxBuffer THEN 1 ELSE 0
             size == Len(p.messages) - d
             c == m.channel_id
  <1>f. /\ p.objs \in Seq(Objs(r)) /\ Len(p.objs) \in Nat /\ DOMAIN p.objs = 1..Len(p.objs)
        /\ p.messages \in Seq(Nat) /\ Len(p.messages) \in Nat
        /\ DOMAIN p.messages = 1..Len(p.messages)
        /\ p.channelMsgs \in [Channels -> Seq(Nat)]
    BY PageFields
  <1>0. m.seq \in Nat /\ c \in Channels /\ new \in Nat /\ maxBuffer \in Nat /\ maxBuffer >= 1
    BY <1>f, PageAssumption DEF Objs
  <1>1. CASE m.seq \in DOMAIN p.bySeq
    <2>1. AddMessage(p, m) = p
      BY <1>1 DEF AddMessage, Known
    <2> QED BY <1>1, <2>1, LaterReflexive DEF Had
  <1>2. CASE m.seq \notin DOMAIN p.bySeq
    <2>1. PICK a : a = AddMessage(p, m)
      OBVIOUS
    <2>2. /\ a \in Pages(r)
          /\ a.objs = Append(p.objs, m)
          /\ a.messages = Bounded(Append(p.messages, new))
          /\ a.channelMsgs = [p.channelMsgs EXCEPT ![c] = Bounded(Append(@, new))]
          /\ a.gone = p.gone \cup Dropped(p) /\ a.unknown = p.unknown
          /\ DOMAIN a.bySeq = (DOMAIN p.bySeq \cup {m.seq}) \ Dropped(p)
          /\ a.bySeq[m.seq] = new
          /\ \A n \in DOMAIN p.bySeq \ Dropped(p) : a.bySeq[n] = p.bySeq[n]
          /\ Dropped(p) \subseteq DOMAIN p.bySeq
      BY <1>2, <2>1, AddEffect
    <2>3. /\ Len(a.objs) = new /\ DOMAIN a.objs = 1..new /\ a.objs[new] = m
          /\ \A k \in 1..Len(p.objs) : a.objs[k] = p.objs[k]
      BY <1>f, <2>2
    <2>4. /\ a.messages \in Seq(Nat) /\ Len(a.messages) = size + 1 /\ size + 1 <= maxBuffer
          /\ DOMAIN a.messages = 1..(size + 1)
          /\ \A k \in 1..size : a.messages[k] = p.messages[k + d]
          /\ a.messages[size + 1] = new /\ size \in Nat /\ d \in {0, 1}
      <3>1. Len(p.messages) <= maxBuffer
        BY DEF Matched, ListOK
      <3>2. LET b == Bounded(Append(p.messages, new))
            IN  /\ b \in Seq(Nat) /\ Len(b) = Len(p.messages) + 1 - d /\ Len(b) <= maxBuffer
                /\ \A k \in 1..(Len(p.messages) - d) : b[k] = p.messages[k + d]
                /\ b[Len(b)] = new /\ Len(b) >= 1
        <4> HIDE DEF new
        <4> QED BY <1>f, <1>0, <3>1, BoundedShape
      <3>3. /\ a.messages \in Seq(Nat) /\ Len(a.messages) = Len(p.messages) + 1 - d
            /\ Len(a.messages) <= maxBuffer
            /\ \A k \in 1..(Len(p.messages) - d) : a.messages[k] = p.messages[k + d]
            /\ a.messages[Len(a.messages)] = new /\ Len(a.messages) >= 1
        BY <2>2, <3>2
      <3>4. d \in {0, 1} /\ Len(p.messages) - d = size /\ size \in Nat
        BY <1>f, <1>0
      <3> HIDE DEF d, size, new
      <3>5. Len(p.messages) + 1 - d = size + 1
        <4>1. PICK l \in Nat : l = Len(p.messages)
          BY <1>f
        <4>2. d \in Int /\ l - d = size
          BY <3>4, <4>1
        <4>3. l + 1 - d = size + 1
          BY <4>2
        <4> QED BY <4>1, <4>3
      <3>6. Len(a.messages) = size + 1
        BY <3>3, <3>5
      <3>7. DOMAIN a.messages = 1..(size + 1)
        BY <3>3, <3>6
      <3> QED BY <3>3, <3>4, <3>6, <3>7
    <2>5. \A k \in 1..Len(p.messages) : /\ p.messages[k] \in 1..Len(p.objs)
                                        /\ p.objs[p.messages[k]].seq \in DOMAIN p.bySeq
                                        /\ p.bySeq[p.objs[p.messages[k]].seq] = p.messages[k]
      BY <1>f DEF Matched, ListOK
    <2>6. \A j, k \in 1..Len(p.messages) :
             /\ j < k => p.messages[j] < p.messages[k]
             /\ p.objs[p.messages[j]].seq = p.objs[p.messages[k]].seq => j = k
      <3>1. \A j, k \in 1..Len(p.messages) : j < k => p.messages[j] < p.messages[k]
        BY <1>f DEF Matched
      <3>2. SUFFICES ASSUME NEW j \in 1..Len(p.messages), NEW k \in 1..Len(p.messages),
                            p.messages[j] = p.messages[k]
                     PROVE  j = k
        BY <2>5, <3>1
      <3>3. p.messages[j] \in Int /\ p.messages[k] \in Int
        BY <1>f, <2>5
      <3>4. ~(j < k) /\ ~(k < j)
        BY <3>1, <3>2, <3>3
      <3> QED BY <1>f, <3>4
    <2>7. Dropped(p) = {p.objs[p.messages[k]].seq : k \in 1..d}
      <3>1. CASE d = 1
        <4>1. Head(p.messages) = p.messages[1] /\ 1..d = {1}
          BY <1>f, <1>0, <3>1
        <4> QED BY <3>1, <4>1 DEF Dropped
      <3>2. CASE d = 0
        <4>1. 1..d = {}
          BY <3>2
        <4> QED BY <3>2, <4>1 DEF Dropped
      <3> QED BY <2>4, <3>1, <3>2
    <2> HIDE DEF new, d, size, c
    <2>0. /\ size + d = Len(p.messages) /\ new = Len(p.objs) + 1
          /\ size \in Nat /\ d \in Nat /\ Len(p.messages) \in Nat /\ Len(p.objs) \in Nat
      BY <1>f, <2>4 DEF new, d, size
    <2>8. \A k \in 1..size : /\ k + d \in 1..Len(p.messages)
                             /\ a.messages[k] = p.messages[k + d]
                             /\ a.objs[a.messages[k]] = p.objs[p.messages[k + d]]
                             /\ p.objs[p.messages[k + d]].seq \notin Dropped(p)
      <3> SUFFICES ASSUME NEW k \in 1..size
                   PROVE  /\ k + d \in 1..Len(p.messages)
                          /\ a.messages[k] = p.messages[k + d]
                          /\ a.objs[a.messages[k]] = p.objs[p.messages[k + d]]
                          /\ p.objs[p.messages[k + d]].seq \notin Dropped(p)
        OBVIOUS
      <3>0. k + d \in 1..Len(p.messages)
        BY <2>0
      <3>1. k + d \in 1..Len(p.messages) /\ a.messages[k] = p.messages[k + d]
        BY <2>4, <3>0
      <3>2. a.objs[a.messages[k]] = p.objs[p.messages[k + d]]
        BY <2>3, <2>5, <3>1
      <3>3. \A j \in 1..d : j \in 1..Len(p.messages) /\ j # k + d
        BY <1>f, <2>0, <2>4
      <3>4. p.objs[p.messages[k + d]].seq \notin Dropped(p)
        BY <2>6, <2>7, <3>1, <3>3
      <3> QED BY <3>1, <3>2, <3>4
    <2>9. \A k \in 1..(size + 1) : k \in 1..size \/ k = size + 1
      BY <2>4
    <2>10. /\ ListOK(a.messages, Len(a.objs))
           /\ \A j, k \in DOMAIN a.messages : j < k => a.messages[j] < a.messages[k]
      <3>1. \A k \in 1..(size + 1) : a.messages[k] \in 1..new
        <4>1. \A k \in 1..size : a.messages[k] \in 1..Len(p.objs)
          BY <2>5, <2>8
        <4>2. 1..Len(p.objs) \subseteq 1..new /\ new \in 1..new
          BY <2>0
        <4> QED BY <2>4, <2>9, <4>1, <4>2
      <3>2. \A j, k \in 1..(size + 1) : j < k => a.messages[j] < a.messages[k]
        <4> SUFFICES ASSUME NEW j \in 1..(size + 1), NEW k \in 1..(size + 1), j < k
                     PROVE  a.messages[j] < a.messages[k]
          OBVIOUS
        <4>1. j \in 1..size
          BY <2>4
        <4>2. CASE k \in 1..size
          <5>1. j + d < k + d
            BY <2>4, <4>2
          <5> QED BY <2>6, <2>8, <4>1, <4>2, <5>1
        <4>3. CASE k = size + 1
          <5>1. a.messages[j] \in 1..Len(p.objs)
            BY <2>5, <2>8, <4>1
          <5>2. a.messages[k] = Len(p.objs) + 1
            BY <2>0, <2>4, <4>3
          <5> QED BY <2>0, <5>1, <5>2
        <4> QED BY <2>9, <4>2, <4>3
      <3> QED BY <2>3, <2>4, <3>1, <3>2 DEF ListOK
    <2>11. \A x \in Channels : ListOK(a.channelMsgs[x], Len(a.objs))
      <3>1. \A x \in Channels : /\ p.channelMsgs[x] \in Seq(Nat) /\ Len(p.channelMsgs[x]) <= maxBuffer
                                /\ \A k \in DOMAIN p.channelMsgs[x] : p.channelMsgs[x][k] \in 1..Len(p.objs)
        BY <1>f DEF Matched, ListOK
      <3>2. \A x \in Channels : x # c => a.channelMsgs[x] = p.channelMsgs[x]
        BY <1>f, <2>2
      <3>3. a.channelMsgs[c] = Bounded(Append(p.channelMsgs[c], new))
        BY <1>f, <1>0, <2>2
      <3>4. PICK e \in {0, 1} : e = IF Len(p.channelMsgs[c]) = maxBuffer THEN 1 ELSE 0
        OBVIOUS
      <3>5. PICK n \in Nat : n = Len(p.channelMsgs[c]) /\ DOMAIN p.channelMsgs[c] = 1..n
        BY <1>0, <3>1
      <3>6. LET list == p.channelMsgs[c]
                b == Bounded(Append(list, new))
                x == IF Len(list) = maxBuffer THEN 1 ELSE 0
            IN  /\ b \in Seq(Nat) /\ Len(b) = Len(list) + 1 - x /\ Len(b) <= maxBuffer
                /\ \A k \in 1..(Len(list) - x) : b[k] = list[k + x]
                /\ b[Len(b)] = new /\ Len(b) >= 1
        BY <1>0, <3>1, BoundedShape
      <3>7. /\ a.channelMsgs[c] \in Seq(Nat) /\ Len(a.channelMsgs[c]) = n + 1 - e
            /\ Len(a.channelMsgs[c]) <= maxBuffer
            /\ \A k \in 1..(n - e) : a.channelMsgs[c][k] = p.channelMsgs[c][k + e]
            /\ a.channelMsgs[c][n + 1 - e] = new /\ n + 1 - e >= 1
        BY <3>3, <3>4, <3>5, <3>6
      <3>8. \A k \in 1..(n + 1 - e) : a.channelMsgs[c][k] \in 1..new
        <4> SUFFICES ASSUME NEW k \in 1..(n + 1 - e) PROVE a.channelMsgs[c][k] \in 1..new
          OBVIOUS
        <4>1. CASE k = n + 1 - e
          BY <1>f, <2>0, <3>7, <4>1
        <4>2. CASE k # n + 1 - e
          <5>1. k \in 1..(n - e) /\ k + e \in 1..n
            BY <4>2
          <5>2. a.channelMsgs[c][k] \in 1..Len(p.objs)
            BY <1>0, <3>1, <3>5, <3>7, <5>1
          <5> QED BY <1>f, <2>0, <5>2
        <4> QED BY <4>1, <4>2
      <3>9. ListOK(a.channelMsgs[c], Len(a.objs))
        <4>1. DOMAIN a.channelMsgs[c] = 1..(n + 1 - e)
          BY <3>7
        <4> QED BY <2>3, <3>7, <3>8, <4>1 DEF ListOK
      <3>10. \A x \in Channels : x # c => ListOK(a.channelMsgs[x], Len(a.objs))
        <4> SUFFICES ASSUME NEW x \in Channels, x # c PROVE ListOK(p.channelMsgs[x], new)
          BY <2>3, <3>2
        <4>1. \A k \in DOMAIN p.channelMsgs[x] : p.channelMsgs[x][k] \in 1..new
          BY <1>f, <2>0, <3>1
        <4> QED BY <3>1, <4>1 DEF ListOK
      <3> QED BY <3>9, <3>10
    <2>12. /\ DOMAIN a.bySeq = {a.objs[a.messages[k]].seq : k \in 1..(size + 1)}
           /\ \A k \in 1..(size + 1) : a.bySeq[a.objs[a.messages[k]].seq] = a.messages[k]
      <3>1. a.objs[a.messages[size + 1]].seq = m.seq
        BY <2>3, <2>4
      <3>2. \A k \in 1..size :
               /\ a.objs[a.messages[k]].seq \in DOMAIN p.bySeq \ Dropped(p)
               /\ a.bySeq[a.objs[a.messages[k]].seq] = a.messages[k]
        <4> SUFFICES ASSUME NEW k \in 1..size
                     PROVE  /\ a.objs[a.messages[k]].seq \in DOMAIN p.bySeq \ Dropped(p)
                            /\ a.bySeq[a.objs[a.messages[k]].seq] = a.messages[k]
          OBVIOUS
        <4>1. PICK n : n = p.objs[p.messages[k + d]].seq
          OBVIOUS
        <4>2. n \in DOMAIN p.bySeq \ Dropped(p) /\ p.bySeq[n] = p.messages[k + d]
          BY <2>5, <2>8, <4>1
        <4> QED BY <2>2, <2>8, <4>1, <4>2
      <3>3. \A n \in DOMAIN p.bySeq \ Dropped(p) :
               \E k \in 1..size : n = a.objs[a.messages[k]].seq
        <4> SUFFICES ASSUME NEW n \in DOMAIN p.bySeq \ Dropped(p)
                     PROVE  \E k \in 1..size : n = a.objs[a.messages[k]].seq
          OBVIOUS
        <4>1. PICK j \in 1..Len(p.messages) : n = p.objs[p.messages[j]].seq
          BY <1>f DEF Matched
        <4>2. j \notin 1..d
          BY <2>7, <4>1
        <4>3. j - d \in 1..size /\ (j - d) + d = j
          BY <1>f, <2>0, <2>4, <4>2
        <4> QED BY <2>8, <4>1, <4>3
      <3>4. m.seq \notin Dropped(p)
        BY <1>2, <2>2
      <3>5. 1 <= size + 1 /\ size + 1 \in 1..(size + 1) /\ 1..size \subseteq 1..(size + 1)
        BY <2>4
      <3>6. \A n \in DOMAIN a.bySeq : \E k \in 1..(size + 1) : n = a.objs[a.messages[k]].seq
        BY <2>2, <3>1, <3>3, <3>5
      <3>7. \A k \in 1..(size + 1) : /\ a.objs[a.messages[k]].seq \in DOMAIN a.bySeq
                                     /\ a.bySeq[a.objs[a.messages[k]].seq] = a.messages[k]
        BY <2>2, <2>4, <2>9, <3>1, <3>2, <3>4
      <3> QED BY <3>6, <3>7
    <2>13. Matched(a)
      BY <2>4, <2>10, <2>11, <2>12 DEF Matched
    <2>14. Later(p, a)
      <3>1. \A n \in DOMAIN p.bySeq \ a.gone :
               /\ n \in DOMAIN a.bySeq
               /\ a.objs[a.bySeq[n]] = p.objs[p.bySeq[n]]
        <4> SUFFICES ASSUME NEW n \in DOMAIN p.bySeq \ a.gone
                     PROVE  n \in DOMAIN a.bySeq /\ a.objs[a.bySeq[n]] = p.objs[p.bySeq[n]]
          OBVIOUS
        <4>1. n \in DOMAIN p.bySeq \ Dropped(p)
          BY <2>2
        <4>2. p.bySeq[n] \in 1..Len(p.objs)
          BY IndexNames
        <4> QED BY <2>2, <2>3, <4>1, <4>2
      <3> QED BY <2>2, <3>1 DEF Later
    <2>15. Had(a, m.seq)
      BY <1>2, <2>2 DEF Had
    <2>16. \A k \in DOMAIN a.objs : (k \in DOMAIN p.objs /\ a.objs[k] = p.objs[k]) \/ a.objs[k] = m
      BY <1>f, <2>0, <2>3
    <2> QED BY <2>1, <2>2, <2>13, <2>14, <2>15, <2>16
  <1> QED BY <1>1, <1>2

\* Two objects that differ in their scope at most.
SameMessage(o, m) ==
    /\ o.seq = m.seq /\ o.channel_id = m.channel_id /\ o.text = m.text /\ o.life = m.life

\* _markGlobal reaches the object the index has, or there is none.
LEMMA MarkKeeps ==
    ASSUME NEW r \in Nat, NEW p \in Pages(r), Matched(p), NEW n \in Nat,
           NEW g, g = MarkGlobal(p, n)
    PROVE  /\ g \in Pages(r) /\ Matched(g) /\ Later(p, g)
           /\ \/ n \in g.unknown
              \/ n \in DOMAIN g.bySeq /\ g.objs[g.bySeq[n]].scope = "global"
           /\ DOMAIN g.objs = DOMAIN p.objs
           /\ \A k \in DOMAIN p.objs : SameMessage(g.objs[k], p.objs[k])
           /\ \A k \in DOMAIN p.objs : g.objs[k] = p.objs[k] \/ p.objs[k].seq = n
  <1>f. /\ p.objs \in Seq(Objs(r)) /\ Len(p.objs) \in Nat /\ DOMAIN p.objs = 1..Len(p.objs)
        /\ p.messages \in Seq(Nat) /\ DOMAIN p.messages = 1..Len(p.messages)
        /\ p.bySeq \in Dicts /\ DOMAIN p.bySeq \subseteq Nat
        /\ p.channelMsgs \in [Channels -> Seq(Nat)]
        /\ p.gone \subseteq Nat /\ p.unknown \subseteq Nat
    BY PageFields
  <1>r. p = [objs |-> p.objs, messages |-> p.messages, bySeq |-> p.bySeq,
             channelMsgs |-> p.channelMsgs, gone |-> p.gone, unknown |-> p.unknown]
    BY DEF Pages
  <1>1. CASE n \in DOMAIN p.bySeq
    <2>1. PICK i : i = p.bySeq[n]
      OBVIOUS
    <2>2. i \in 1..Len(p.objs) /\ p.objs[i].seq = n /\ p.objs[i] \in Objs(r)
      BY <1>1, <2>1, IndexNames
    <2>3. PICK o : o = [p.objs EXCEPT ![i] = [p.objs[i] EXCEPT !.scope = "global"]]
      OBVIOUS
    <2>5. g = [p EXCEPT !.objs = o]
      BY <1>1, <1>r, <2>1, <2>3 DEF MarkGlobal
    <2>6. [p.objs[i] EXCEPT !.scope = "global"] \in Objs(r)
      BY <2>2 DEF Objs, Scopes
    <2>7. /\ o \in Seq(Objs(r)) /\ Len(o) = Len(p.objs) /\ DOMAIN o = 1..Len(p.objs)
          /\ o[i] = [p.objs[i] EXCEPT !.scope = "global"]
          /\ \A k \in 1..Len(p.objs) : k # i => o[k] = p.objs[k]
      BY <1>f, <2>2, <2>3, <2>6
    <2>8. \A k \in 1..Len(p.objs) : p.objs[k] \in Objs(r)
      BY <1>f
    <2>9. o[i].seq = n /\ o[i].scope = "global" /\ SameMessage(o[i], p.objs[i])
      BY <2>2, <2>7 DEF Objs, SameMessage
    <2>10. \A k \in 1..Len(p.objs) : o[k].seq = p.objs[k].seq
      BY <2>2, <2>7, <2>9
    <2>11. /\ g.objs = o /\ g.messages = p.messages /\ g.bySeq = p.bySeq
           /\ g.channelMsgs = p.channelMsgs /\ g.gone = p.gone /\ g.unknown = p.unknown
           /\ g \in Pages(r)
      BY <1>r, <2>5, <2>7 DEF Pages
    <2>12. Matched(g)
      <3>1. /\ ListOK(p.messages, Len(p.objs))
            /\ \A c \in Channels : ListOK(p.channelMsgs[c], Len(p.objs))
            /\ \A j, k \in DOMAIN p.messages : j < k => p.messages[j] < p.messages[k]
        BY DEF Matched
      <3>2. \A k \in DOMAIN p.messages : p.messages[k] \in 1..Len(p.objs)
        BY <3>1 DEF ListOK
      <3>3. \A k \in DOMAIN p.messages : o[p.messages[k]].seq = p.objs[p.messages[k]].seq
        BY <2>10, <3>2
      <3>4. {o[p.messages[k]].seq : k \in DOMAIN p.messages}
                = {p.objs[p.messages[k]].seq : k \in DOMAIN p.messages}
        BY <3>3
      <3>5. /\ DOMAIN p.bySeq = {o[p.messages[k]].seq : k \in DOMAIN p.messages}
            /\ \A k \in DOMAIN p.messages : p.bySeq[o[p.messages[k]].seq] = p.messages[k]
        BY <3>3, <3>4 DEF Matched
      <3> QED BY <2>7, <2>11, <3>1, <3>5 DEF Matched
    <2>13. Later(p, g)
      <3>1. \A x \in DOMAIN p.bySeq :
               p.objs[p.bySeq[x]].scope = "global" => o[p.bySeq[x]].scope = "global"
        <4>1. \A x \in DOMAIN p.bySeq : p.bySeq[x] \in 1..Len(p.objs)
          BY IndexNames
        <4> QED BY <2>7, <2>9, <4>1
      <3> QED BY <2>11, <3>1 DEF Later
    <2>14. \A k \in DOMAIN p.objs : /\ SameMessage(o[k], p.objs[k])
                                    /\ o[k] = p.objs[k] \/ p.objs[k].seq = n
      BY <1>f, <2>2, <2>7, <2>9 DEF SameMessage
    <2> QED BY <1>1, <1>f, <2>1, <2>2, <2>7, <2>9, <2>11, <2>12, <2>13, <2>14
  <1>2. CASE n \notin DOMAIN p.bySeq
    <2>2. PICK u : u = p.unknown \cup {n}
      OBVIOUS
    <2>3. g = [p EXCEPT !.unknown = u]
      BY <1>2, <1>r, <2>2 DEF MarkGlobal
    <2>4. /\ g.objs = p.objs /\ g.messages = p.messages /\ g.bySeq = p.bySeq
          /\ g.channelMsgs = p.channelMsgs /\ g.gone = p.gone /\ g.unknown = u
          /\ g \in Pages(r)
      <3>1. u \in SUBSET Nat
        BY <1>f, <2>2
      <3> QED BY <1>r, <2>3, <3>1 DEF Pages
    <2>5. Matched(g)
      BY <2>4 DEF Matched
    <2>6. Later(p, g)
      BY <2>2, <2>4 DEF Later
    <2> QED BY <2>2, <2>4, <2>5, <2>6 DEF SameMessage
  <1> QED BY <1>1, <1>2

\* clearMessages forgets all numbers and keeps no list.
LEMMA ClearKeeps ==
    ASSUME NEW r \in Nat, NEW p \in Pages(r), Matched(p)
    PROVE  /\ Cleared(p) \in Pages(r) /\ Matched(Cleared(p)) /\ Later(p, Cleared(p))
           /\ Cleared(p).objs = p.objs
  <1>f. /\ p.objs \in Seq(Objs(r)) /\ Len(p.objs) \in Nat
        /\ p.bySeq \in Dicts /\ DOMAIN p.bySeq \subseteq Nat
        /\ p.gone \subseteq Nat /\ p.unknown \subseteq Nat
    BY PageFields
  <1>r. p = [objs |-> p.objs, messages |-> p.messages, bySeq |-> p.bySeq,
             channelMsgs |-> p.channelMsgs, gone |-> p.gone, unknown |-> p.unknown]
    BY DEF Pages
  <1>1. PICK g : g = Cleared(p)
    OBVIOUS
  <1>2. PICK i, cs, w : /\ i = [k \in {} |-> 0] /\ cs = [c \in Channels |-> << >>]
                        /\ w = p.gone \cup DOMAIN p.bySeq
    OBVIOUS
  <1>3. g = [p EXCEPT !.messages = << >>, !.bySeq = i, !.channelMsgs = cs, !.gone = w]
    BY <1>1, <1>2, <1>r DEF Cleared, NewPage
  <1>4. i \in Dicts /\ DOMAIN i = {} /\ cs \in [Channels -> Seq(Nat)] /\ w \in SUBSET Nat
    <2>1. i \in [{} -> Nat] /\ {} \in SUBSET Nat
      BY <1>2
    <2>2. << >> \in Seq(Nat)
      OBVIOUS
    <2> QED BY <1>f, <1>2, <2>1, <2>2 DEF Dicts
  <1>5. << >> \in Seq(Nat)
    OBVIOUS
  <1>6. /\ g.objs = p.objs /\ g.messages = << >> /\ g.bySeq = i
        /\ g.channelMsgs = cs /\ g.gone = w /\ g.unknown = p.unknown
        /\ g \in Pages(r)
    BY <1>r, <1>3, <1>4, <1>5 DEF Pages
  <1>7. Matched(g)
    <2>1. ListOK(<< >>, Len(p.objs))
      BY PageAssumption DEF ListOK
    <2> QED BY <1>2, <1>4, <1>6, <2>1 DEF Matched
  <1>8. Later(p, g)
    BY <1>2, <1>6 DEF Later
  <1> QED BY <1>1, <1>6, <1>7, <1>8

LEMMA NewPageKeeps ==
    /\ NewPage \in Pages(0) /\ Matched(NewPage) /\ NewPage.objs = << >>
  <1>1. [k \in {} |-> 0] \in Dicts
    <2>1. [k \in {} |-> 0] \in [{} -> Nat]
      OBVIOUS
    <2> QED BY <2>1 DEF Dicts
  <1>2. << >> \in Seq(Nat) /\ << >> \in Seq(Objs(0)) /\ [c \in Channels |-> << >>] \in [Channels -> Seq(Nat)]
    OBVIOUS
  <1>3. NewPage \in Pages(0)
    BY <1>1, <1>2 DEF NewPage, Pages
  <1>4. ListOK(<< >>, 0)
    BY PageAssumption DEF ListOK
  <1>5. Matched(NewPage)
    BY <1>4 DEF NewPage, Matched
  <1> QED BY <1>3, <1>5 DEF NewPage

\* The lives of the server before this one are among the lives until the next.
LEMMA LivesGrow ==
    ASSUME NEW r \in Nat
    PROVE  Objs(r) \subseteq Objs(r + 1) /\ Pages(r) \subseteq Pages(r + 1)
  <1>1. 0..r \subseteq 0..(r + 1)
    OBVIOUS
  <1>2. Objs(r) \subseteq Objs(r + 1)
    BY <1>1 DEF Objs
  <1>3. Seq(Objs(r)) \subseteq Seq(Objs(r + 1))
    BY <1>2
  <1> QED BY <1>2, <1>3 DEF Pages

-----------------------------------------------------------------------------
(* The response *)

\* Induction with a set of numbers in the place of a predicate.
LEMMA SetInduction ==
    ASSUME NEW K, 0 \in K, \A n \in Nat : n \in K => n + 1 \in K
    PROVE  Nat \subseteq K
  <1> DEFINE T == Nat \ K
  <1> SUFFICES ASSUME T # {} PROVE FALSE
    OBVIOUS
  <1>1. T \subseteq Nat
    OBVIOUS
  <1> HIDE DEF T
  <1>2. PICK x \in T : \A y \in T : ~(<<y, x>> \in OpToRel(<, Nat))
    BY <1>1, NatLessThanWellFounded, WFMin
  <1>3. x \in Nat /\ x \notin K
    BY DEF T
  <1>4. x # 0 /\ x - 1 \in Nat
    BY <1>3
  <1>5. x - 1 \in T
    BY <1>3, <1>4 DEF T
  <1>6. <<x - 1, x>> \in OpToRel(<, Nat)
    BY <1>3, <1>4 DEF OpToRel
  <1> QED BY <1>2, <1>5, <1>6

\* The recursive function of Adding exists: Adding(first, body) is what its
\* definition says.
LEMMA AddingExists ==
    ASSUME NEW first, NEW body, Len(body) \in Nat
    PROVE  LET g == Adding(first, body) IN
           g = [n \in 0..Len(body) |->
                    IF n = 0 THEN first ELSE AddMessage(g[n - 1], body[n])]
  <1> DEFINE Is(g, m) == g = [n \in 0..m |-> IF n = 0 THEN first ELSE AddMessage(g[n - 1], body[n])]
             K == {m \in Nat : \E g : Is(g, m)}
  <1>1. 0 \in K
    <2> DEFINE g == [n \in 0..0 |-> first]
    <2>1. \A n \in 0..0 : n = 0
      OBVIOUS
    <2>2. [n \in 0..0 |-> IF n = 0 THEN first ELSE AddMessage(g[n - 1], body[n])] = g
      BY <2>1
    <2>3. Is(g, 0)
      BY <2>2
    <2> QED BY <2>3
  <1>2. ASSUME NEW m \in Nat, m \in K
        PROVE  m + 1 \in K
    <2>1. PICK g : Is(g, m)
      BY <1>2
    <2> DEFINE h == [n \in 0..(m + 1) |-> IF n = m + 1 THEN AddMessage(g[m], body[m + 1]) ELSE g[n]]
               r == [n \in 0..(m + 1) |-> IF n = 0 THEN first ELSE AddMessage(h[n - 1], body[n])]
    <2>2. ASSUME NEW n \in 0..(m + 1)
          PROVE  h[n] = r[n]
      <3>1. CASE n = m + 1
        <4>1. n # 0 /\ n - 1 = m /\ m \in 0..(m + 1) /\ m # m + 1
          BY <3>1
        <4>2. h[n - 1] = g[m]
          BY <4>1
        <4>3. r[n] = AddMessage(h[n - 1], body[n])
          BY <4>1
        <4>4. h[n] = AddMessage(g[m], body[m + 1])
          BY <3>1
        <4> QED BY <3>1, <4>2, <4>3, <4>4
      <3>2. CASE n # m + 1 /\ n = 0
        <4>1. h[n] = g[n] /\ r[n] = first /\ n \in 0..m
          BY <3>2
        <4>2. g[n] = first
          BY <2>1, <3>2, <4>1
        <4> QED BY <4>1, <4>2
      <3>3. CASE n # m + 1 /\ n # 0
        <4>1. n \in 0..m /\ n - 1 \in 0..(m + 1) /\ n - 1 # m + 1
          BY <3>3
        <4>2. h[n] = g[n] /\ h[n - 1] = g[n - 1]
          BY <3>3, <4>1
        <4>3. r[n] = AddMessage(h[n - 1], body[n])
          BY <3>3
        <4>4. g[n] = AddMessage(g[n - 1], body[n])
          BY <2>1, <3>3, <4>1
        <4> QED BY <4>2, <4>3, <4>4
      <3> QED BY <3>1, <3>2, <3>3
    <2>3. h = r
      BY <2>2
    <2> HIDE DEF h
    <2>4. Is(h, m + 1)
      BY <2>3
    <2> QED BY <2>4
  <1> HIDE DEF Is
  <1>3. Nat \subseteq K
    <2> HIDE DEF K
    <2> QED BY <1>1, <1>2, SetInduction
  <1>4. PICK g : Is(g, Len(body))
    BY <1>3
  <1>5. Adding(first, body) = CHOOSE f : Is(f, Len(body))
    BY DEF Adding, Is
  <1>6. Is(Adding(first, body), Len(body))
    BY <1>4, <1>5
  <1> QED BY <1>6 DEF Is

\* A set of pages that addMessage does not leave holds every page from the one
\* after m messages of the response on, when it holds that one.
LEMMA AddingStays ==
    ASSUME NEW P, NEW S, NEW first, NEW body \in Seq(S), NEW m \in 0..Len(body),
           Adding(first, body)[m] \in P,
           \A p \in P, e \in S : AddMessage(p, e) \in P
    PROVE  \A n \in m..Len(body) : Adding(first, body)[n] \in P
  <1> DEFINE g == Adding(first, body)
             K == {n \in Nat : m <= n /\ n <= Len(body) => g[n] \in P}
  <1>0. Len(body) \in Nat /\ \A n \in 1..Len(body) : body[n] \in S
    OBVIOUS
  <1>1. g = [n \in 0..Len(body) |-> IF n = 0 THEN first ELSE AddMessage(g[n - 1], body[n])]
    BY <1>0, AddingExists
  <1>2. \A n \in 1..Len(body) : g[n] = AddMessage(g[n - 1], body[n])
    <2> HIDE DEF g
    <2> TAKE n \in 1..Len(body)
    <2>1. n \in 0..Len(body) /\ n # 0
      BY <1>0
    <2> QED BY <1>1, <2>1
  <1> HIDE DEF g
  <1>3. 0 \in K
    <2>1. m <= 0 => m = 0
      OBVIOUS
    <2>2. g[m] \in P
      BY DEF g
    <2> QED BY <2>1, <2>2
  <1>4. ASSUME NEW n \in Nat, n \in K
        PROVE  n + 1 \in K
    <2> SUFFICES ASSUME m <= n + 1, n + 1 <= Len(body)
                 PROVE  g[n + 1] \in P
      OBVIOUS
    <2>1. CASE m = n + 1
      BY <2>1 DEF g
    <2>2. CASE m # n + 1
      <3>1. m <= n /\ n <= Len(body) /\ n + 1 \in 1..Len(body)
        BY <1>0, <2>2
      <3>2. g[n] \in P
        BY <1>4, <3>1
      <3>3. g[n + 1] = AddMessage(g[(n + 1) - 1], body[n + 1]) /\ (n + 1) - 1 = n
        BY <1>2, <3>1
      <3> QED BY <1>0, <3>1, <3>2, <3>3
    <2> QED BY <2>1, <2>2
  <1>5. Nat \subseteq K
    <2> HIDE DEF K
    <2> QED BY <1>3, <1>4, SetInduction
  <1>6. \A n \in m..Len(body) : n \in K /\ m <= n /\ n <= Len(body)
    BY <1>0, <1>5
  <1> QED BY <1>6 DEF g

\* The first page, and the page after one more message.
LEMMA AddingSteps ==
    ASSUME NEW first, NEW body, Len(body) \in Nat
    PROVE  /\ Adding(first, body)[0] = first
           /\ \A n \in 1..Len(body) :
                 Adding(first, body)[n] = AddMessage(Adding(first, body)[n - 1], body[n])
  <1> DEFINE g == Adding(first, body)
  <1>1. g = [n \in 0..Len(body) |-> IF n = 0 THEN first ELSE AddMessage(g[n - 1], body[n])]
    BY AddingExists
  <1> HIDE DEF g
  <1>2. g[0] = first
    <2>1. 0 \in 0..Len(body)
      OBVIOUS
    <2> QED BY <1>1, <2>1
  <1>3. \A n \in 1..Len(body) : g[n] = AddMessage(g[n - 1], body[n])
    <2> TAKE n \in 1..Len(body)
    <2>1. n \in 0..Len(body) /\ n # 0
      OBVIOUS
    <2> QED BY <1>1, <2>1
  <1> QED BY <1>2, <1>3 DEF g

StoreOK == StoreInv /\ DequesKeepNewest /\ TellInv /\ Coverage

\* What the page says of a message this life of the server has sent.
IsSo(o) ==
    o.life = restarts =>
        /\ o.seq \in Refs /\ heap[o.seq].channel_id = o.channel_id /\ heap[o.seq].text = o.text
        /\ o.scope = "global" => heap[o.seq].scope = "global"
AllSo(p) == \A k \in DOMAIN p.objs : IsSo(p.objs[k])

\* The response: no message of it is missing, and what was there is there still
\* or has been dropped.
LEMMA MergeKeeps ==
    ASSUME NEW r \in Nat, NEW p \in Pages(r), Matched(p), AllSo(p),
           NEW body \in Seq(Objs(r)), \A k \in DOMAIN body : IsSo(body[k])
    PROVE  LET w == Adding(p, body)[Len(body)]
           IN  /\ w \in Pages(r) /\ Matched(w) /\ AllSo(w) /\ Later(p, w)
               /\ \A k \in DOMAIN body : Had(w, body[k].seq)
  <1> DEFINE S == {o \in Objs(r) : IsSo(o)}
             P == {q \in Pages(r) : Matched(q) /\ AllSo(q) /\ Later(p, q)}
             g == Adding(p, body)
             end == Len(body)
  <1>0. end \in Nat /\ DOMAIN body = 1..end /\ \A k \in 1..end : body[k] \in Objs(r)
    OBVIOUS
  <1>1. body \in Seq(S)
    <2>1. \A k \in 1..end : body[k] \in S
      BY <1>0
    <2>2. body = [k \in 1..end |-> body[k]]
      BY <1>0
    <2> HIDE DEF S
    <2>3. body \in [1..end -> S]
      BY <1>0, <2>1, <2>2
    <2> QED BY <1>0, <2>3
  <1>2. ASSUME NEW q \in P, NEW e \in S
        PROVE  AddMessage(q, e) \in P /\ Later(q, AddMessage(q, e)) /\ Had(AddMessage(q, e), e.seq)
    <2>1. PICK a : a = AddMessage(q, e)
      OBVIOUS
    <2>2. /\ a \in Pages(r) /\ Matched(a) /\ Later(q, a) /\ Had(a, e.seq)
          /\ \A k \in DOMAIN a.objs : (k \in DOMAIN q.objs /\ a.objs[k] = q.objs[k]) \/ a.objs[k] = e
      BY <2>1, AddKeeps
    <2>3. AllSo(a)
      BY <2>2 DEF AllSo
    <2>4. Later(p, a)
      BY <2>2, LaterTransitive
    <2> QED BY <2>1, <2>2, <2>3, <2>4
  <1>3. g[0] = p /\ \A n \in 1..end : g[n] = AddMessage(g[n - 1], body[n])
    BY <1>0, AddingSteps
  <1>4. p \in P
    BY LaterReflexive
  <1> HIDE DEF S, P, g
  <1>5. \A n \in 0..end : g[n] \in P
    <2>1. 0 \in 0..end /\ Adding(p, body)[0] \in P
      BY <1>0, <1>3, <1>4 DEF g
    <2> QED BY <1>1, <1>2, <2>1, AddingStays DEF g
  <1>6. ASSUME NEW k \in 1..end
        PROVE  Had(g[end], body[k].seq)
    <2> DEFINE n == body[k].seq
               H == {q \in P : Had(q, n)}
    <2>1. g[k - 1] \in P /\ body[k] \in S /\ k \in 0..end
      <3>1. k - 1 \in 0..end /\ k \in 0..end
        BY <1>0
      <3> QED BY <1>0, <1>1, <1>5, <3>1
    <2>2. g[k] \in H
      BY <1>2, <1>3, <2>1
    <2>3. ASSUME NEW q \in H, NEW e \in S
          PROVE  AddMessage(q, e) \in H
      <3>1. AddMessage(q, e) \in P /\ Later(q, AddMessage(q, e))
        BY <1>2
      <3>2. Had(q, n) => Had(AddMessage(q, e), n)
        BY <3>1 DEF Had, Later
      <3> QED BY <3>1, <3>2
    <2> HIDE DEF H
    <2>4. \A j \in k..end : Adding(p, body)[j] \in H
      <3>1. Adding(p, body)[k] \in H
        BY <2>2 DEF g
      <3>2. \A q \in H, e \in S : AddMessage(q, e) \in H
        BY <2>3
      <3> QED BY <1>1, <2>1, <3>1, <3>2, AddingStays
    <2>5. g[end] \in H
      BY <1>0, <2>4 DEF g
    <2> QED BY <2>5 DEF H
  <1>7. g[end] \in P
    BY <1>0, <1>5
  <1>8. g[end] \in Pages(r) /\ Matched(g[end]) /\ AllSo(g[end]) /\ Later(p, g[end])
    BY <1>7 DEF P
  <1> QED BY <1>0, <1>6, <1>8 DEF g

-----------------------------------------------------------------------------
(* The store under the page *)

LEMMA StoreStays ==
    ASSUME StoreOK, [Next]_vars
    PROVE  StoreOK'
  BY StoreInvStep, DequeStep, TellStep, CoverageStep DEF StoreOK, StoreInv

\* The log only grows, a message changes its scope at most, queues get longer
\* and are registered once.
LEMMA OnlyMore ==
    ASSUME StoreOK, [Next]_vars
    PROVE  /\ Len(heap) \in Nat /\ Len(heap') \in Nat /\ Len(heap) <= Len(heap')
           /\ \A i \in Refs : /\ i \in Refs'
                              /\ heap'[i].channel_id = heap[i].channel_id
                              /\ heap'[i].text = heap[i].text
                              /\ heap[i].scope = "global" => heap'[i].scope = "global"
           /\ \A q \in Queues : /\ Len(inbox[q]) \in Nat /\ Len(inbox'[q]) \in Nat
                                /\ Len(inbox[q]) <= Len(inbox'[q])
                                /\ \A k \in 1..Len(inbox[q]) : inbox'[q][k] = inbox[q][k]
                                /\ since[q] # 0 => since'[q] = since[q]
  <1>1. TypeInv /\ DedupInv /\ TypeInv' /\ StoreInv
    BY StoreStays DEF StoreOK, StoreInv
  <1>2. Len(heap) \in Nat /\ Len(heap') \in Nat
    BY <1>1 DEF TypeInv, TypeOK
  <1>3. \A i \in Refs : i \in Refs' /\ (heap[i].scope = "global" => heap'[i].scope = "global")
    BY <1>1, LogGrows
  <1>4. Len(heap) <= Len(heap')
    <2>1. CASE Len(heap) = 0
      BY <1>2, <2>1
    <2>2. CASE Len(heap) # 0
      <3>1. Len(heap) \in Refs
        BY <1>2, <2>2 DEF Refs
      <3>2. Len(heap) \in 1..Len(heap')
        BY <1>3, <3>1 DEF Refs
      <3> QED BY <1>2, <3>2
    <2> QED BY <2>1, <2>2
  <1>5. ASSUME NEW i \in Refs
        PROVE  heap'[i].channel_id = heap[i].channel_id /\ heap'[i].text = heap[i].text
    <2>1. heap[i] \in Msg
      BY <1>1, RefMsg DEF TypeInv, TypeOK
    <2>2. heap'[i] = heap[i] \/ heap'[i] = [heap[i] EXCEPT !.scope = "global"]
      BY <1>1, EarnedStep
    <2> QED BY <2>1, <2>2 DEF Msg
  <1>6. ASSUME NEW q \in Queues
        PROVE  /\ Len(inbox[q]) \in Nat /\ Len(inbox'[q]) \in Nat
               /\ Len(inbox[q]) <= Len(inbox'[q])
               /\ \A k \in 1..Len(inbox[q]) : inbox'[q][k] = inbox[q][k]
               /\ since[q] # 0 => since'[q] = since[q]
    <2>1. inbox[q] \in Seq(Events) /\ inbox'[q] \in Seq(Events)
      BY <1>1 DEF TypeInv, TypeOK
    <2>2. Len(inbox[q]) \in Nat /\ Len(inbox'[q]) \in Nat /\ DOMAIN inbox[q] = 1..Len(inbox[q])
      BY <2>1
    <2>3. CASE UNCHANGED <<inbox, since>>
      BY <2>2, <2>3
    <2>4. CASE \E t \in Threads, p \in Queues : Put(t, p)
      <3>1. PICK t \in Threads, p \in Queues : Put(t, p)
        BY <2>4
      <3>2. /\ DOMAIN inbox'[p] = DOMAIN inbox[p] \cup {Len(inbox[p]) + 1}
            /\ \A k \in DOMAIN inbox[p] : inbox'[p][k] = inbox[p][k]
            /\ \A x \in Queues : x # p => inbox'[x] = inbox[x]
            /\ since' = since
        BY <1>1, <3>1, PutEffect
      <3>3. CASE q # p
        BY <2>2, <3>2, <3>3
      <3>4. CASE q = p
        <4>1. Len(inbox[q]) + 1 \in DOMAIN inbox'[q]
          BY <3>2, <3>4
        <4>2. Len(inbox[q]) + 1 \in 1..Len(inbox'[q])
          BY <2>1, <4>1
        <4> QED BY <2>2, <3>2, <3>4, <4>2
      <3> QED BY <3>3, <3>4
    <2>5. CASE \E p \in Queues : AddQueue(p)
      <3>1. PICK p \in Queues : AddQueue(p)
        BY <2>5
      <3>2. inbox' = inbox /\ since[p] = 0 /\ (since[q] # 0 => since'[q] = since[q])
        BY <1>1, <3>1 DEF AddQueue, TypeInv, TypeOK
      <3> QED BY <2>2, <3>2
    <2>6. \/ UNCHANGED <<inbox, since>>
          \/ \E t \in Threads, p \in Queues : Put(t, p)
          \/ \E p \in Queues : AddQueue(p)
      <3>1. CASE \E t \in Threads : \/ AddNew(t) \/ AddPromote(t) \/ Dump(t) \/ Snapshot(t)
                                    \/ PutDone(t)
        BY <3>1 DEF AddNew, AddPromote, PassFirst, Dump, Snapshot, PutDone, sseVars
      <3>2. CASE \E p \in Queues : RemoveQueue(p)
        BY <3>2 DEF RemoveQueue
      <3> QED BY <1>1, <3>1, <3>2, TellSteps DEF Still
    <2> QED BY <2>3, <2>4, <2>5, <2>6
  <1> QED BY <1>2, <1>3, <1>4, <1>5, <1>6

\* What is so stays so while the server lives.
LEMMA StaysSo ==
    ASSUME StoreOK, [Next]_vars, restarts' = restarts, NEW o, IsSo(o)
    PROVE  IsSo(o)'
  BY OnlyMore DEF IsSo

-----------------------------------------------------------------------------
(* Messages in the order of their numbers *)

\* A finite set of numbers can be listed in increasing order.
LEMMA AscendingExists ==
    ASSUME NEW n \in Nat, NEW S \in SUBSET (1..n)
    PROVE  /\ Cardinality(S) \in Nat /\ IsFiniteSet(S)
           /\ \E list \in [1..Cardinality(S) -> S] :
                 \A i, j \in DOMAIN list : i < j => list[i] < list[j]
  <1> DEFINE Lists(T) == {list \in [1..Cardinality(T) -> T] :
                             \A i, j \in 1..Cardinality(T) : i < j => list[i] < list[j]}
             K == {m \in Nat : \A T \in SUBSET (1..m) : Lists(T) # {}}
  <1>0. ASSUME NEW m \in Nat, NEW T \in SUBSET (1..m)
        PROVE  IsFiniteSet(T) /\ Cardinality(T) \in Nat
    <2>1. IsFiniteSet(1..m)
      BY FS_Interval
    <2> QED BY <2>1, FS_Subset, FS_CardinalityType
  <1>1. 0 \in K
    <2>1. ASSUME NEW T \in SUBSET (1..0)
          PROVE  Lists(T) # {}
      <3>0. T = {}
        OBVIOUS
      <3>1. T = {} /\ Cardinality(T) = 0
        BY <3>0, FS_EmptySet
      <3>2. << >> \in [1..0 -> T]
        OBVIOUS
      <3>3. << >> \in Lists(T)
        BY <3>1, <3>2
      <3> QED BY <3>3
    <2> QED BY <2>1
  <1>2. ASSUME NEW m \in Nat, m \in K
        PROVE  m + 1 \in K
    <2>1. ASSUME NEW T \in SUBSET (1..(m + 1))
          PROVE  Lists(T) # {}
      <3> DEFINE R == T \ {m + 1}
                 c == Cardinality(R)
      <3>1. R \in SUBSET (1..m)
        OBVIOUS
      <3>2. PICK short : short \in Lists(R)
        BY <1>2, <3>1
      <3>3. IsFiniteSet(T) /\ c \in Nat
        <4>1. m + 1 \in Nat
          OBVIOUS
        <4>2. IsFiniteSet(T)
          BY <4>1, <1>0
        <4>3. c \in Nat
          BY <3>1, <1>0
        <4> QED BY <4>2, <4>3
      <3>4. CASE m + 1 \notin T
        <4>1. R = T
          BY <3>4
        <4> HIDE DEF Lists, R
        <4> QED BY <3>2, <4>1
      <3>5. CASE m + 1 \in T
        <4> DEFINE list == [k \in 1..(c + 1) |-> IF k = c + 1 THEN m + 1 ELSE short[k]]
        <4>1. Cardinality(T) = c + 1
          <5>1. c = Cardinality(T) - 1 /\ Cardinality(T) \in Nat
            BY <3>3, <3>5, FS_RemoveElement, FS_CardinalityType
          <5> QED BY <5>1
        <4>2. \A k \in 1..c : short[k] \in R /\ short[k] \in T /\ short[k] <= m /\ short[k] \in Nat
          <5>1. short \in [1..c -> R]
            BY <3>2
          <5>2. \A x \in R : x \in T /\ x <= m /\ x \in Nat
            BY <3>1
          <5> HIDE DEF R, c
          <5> QED BY <5>1, <5>2
        <4>3. list \in [1..(c + 1) -> T]
          BY <3>3, <3>5, <4>2
        <4>4. ASSUME NEW i \in 1..(c + 1), NEW j \in 1..(c + 1), i < j
              PROVE  list[i] < list[j]
          <5>1. i \in 1..c /\ i # c + 1 /\ list[i] = short[i]
            BY <3>3, <4>4
          <5>2. CASE j = c + 1
            <6>1. list[j] = m + 1
              BY <5>2
            <6> QED BY <4>2, <5>1, <6>1
          <5>3. CASE j # c + 1
            <6>1. j \in 1..c /\ list[j] = short[j]
              BY <3>3, <5>3
            <6> QED BY <3>2, <4>4, <5>1, <6>1
          <5> QED BY <5>2, <5>3
        <4> HIDE DEF list
        <4>5. list \in Lists(T)
          BY <4>1, <4>3, <4>4
        <4> QED BY <4>5
      <3> QED BY <3>4, <3>5
    <2> QED BY <2>1
  <1>3. Nat \subseteq K
    <2> HIDE DEF K
    <2> QED BY <1>1, <1>2, SetInduction
  <1>4. PICK list : list \in Lists(S)
    BY <1>3
  <1> QED BY <1>0, <1>4

\* Sorted(S) is the increasing list of the references of S: their numbers are
\* their places.
LEMMA SortedCorrect ==
    ASSUME SeqExact, Len(heap) \in Nat, NEW S \in SUBSET Refs
    PROVE  /\ Cardinality(S) \in Nat /\ IsFiniteSet(S)
           /\ Sorted(S) \in [1..Cardinality(S) -> S]
           /\ \A i, j \in 1..Cardinality(S) : i < j => Sorted(S)[i] < Sorted(S)[j]
           /\ \A i, j \in 1..Cardinality(S) : Sorted(S)[i] < Sorted(S)[j] => i < j
           /\ \A r \in S : \E i \in 1..Cardinality(S) : Sorted(S)[i] = r
  <1> DEFINE n == Cardinality(S)
             o == Sorted(S)
  <1>1. /\ n \in Nat /\ IsFiniteSet(S)
        /\ \E list \in [1..n -> S] : \A i, j \in DOMAIN list : i < j => list[i] < list[j]
    BY AscendingExists DEF Refs
  <1>2. \A r \in S : heap[r].seq = r /\ r \in Int
    BY DEF SeqExact, Refs
  <1>3. \E list \in [1..n -> S] :
            \A i, j \in DOMAIN list : i < j => heap[list[i]].seq < heap[list[j]].seq
    BY <1>1, <1>2
  <1>4. o \in [1..n -> S] /\ \A i, j \in DOMAIN o : i < j => heap[o[i]].seq < heap[o[j]].seq
    BY <1>3 DEF Sorted
  <1> HIDE DEF o
  <1>5. \A i \in 1..n : o[i] \in S /\ o[i] \in Int /\ i \in Int
    BY <1>2, <1>4
  <1>6. \A i, j \in 1..n : i < j => o[i] < o[j]
    BY <1>2, <1>4, <1>5
  <1>7. \A i, j \in 1..n : o[i] < o[j] => i < j
    BY <1>5, <1>6
  <1>8. o \in Injection(1..n, S)
    <2>1. \A i, j \in 1..n : o[i] = o[j] => i = j
      BY <1>5, <1>6
    <2> QED BY <1>4, <2>1 DEF Injection, IsInjective
  <1>9. o \in Surjection(1..n, S)
    <2>1. Cardinality(1..n) = n
      BY <1>1, FS_Interval
    <2> QED BY <1>1, <1>8, <2>1, FS_Injection
  <1> QED BY <1>1, <1>4, <1>6, <1>7, <1>9 DEF Surjection, o

\* The list of the Limit newest of n messages.
Newest(n) ==
    LET first == IF n > Limit THEN n - Limit + 1 ELSE 1
    IN  [k \in 1..(n - first + 1) |-> first + k - 1]

\* When the references from some one on are all in the set, they are its end.
LEMMA EndOfSorted ==
    ASSUME SeqExact, Len(heap) \in Nat, NEW S \in SUBSET Refs,
           NEW v \in 1..(Len(heap) + 1), v..Len(heap) \subseteq S
    PROVE  LET c == Cardinality(S)
               d == Len(heap) - c
           IN  /\ c >= Len(heap) - v + 1 /\ c <= Len(heap)
               /\ \A p \in 1..c : p + d >= v => Sorted(S)[p] = p + d
  <1> DEFINE n == Len(heap)
             c == Cardinality(S)
             o == Sorted(S)
  <1>1. /\ c \in Nat /\ IsFiniteSet(S) /\ o \in [1..c -> S]
        /\ \A i, j \in 1..c : i < j => o[i] < o[j]
        /\ \A i, j \in 1..c : o[i] < o[j] => i < j
        /\ \A r \in S : \E i \in 1..c : o[i] = r
    BY SortedCorrect
  <1>2. n \in Nat /\ Refs = 1..n
    BY DEF Refs
  <1> HIDE DEF o
  <1>3. c <= n
    <2>0. n \in Int /\ 1 \in Int
      BY <1>2
    <2>1. IsFiniteSet(1..n) /\ Cardinality(1..n) = n
      <3> HIDE DEF n
      <3>1. /\ IsFiniteSet(1..n) /\ Cardinality(1..n) = IF 1 > n THEN 0 ELSE n - 1 + 1
        BY <2>0, FS_Interval
      <3> QED BY <1>2, <3>1
    <2>2. S \in SUBSET (1..n)
      BY <1>2
    <2> QED BY <2>1, <2>2, FS_Subset
  <1>4. c >= n - v + 1
    <2>0. v \in Int /\ n \in Int
      BY <1>2
    <2>1. Cardinality(v..n) = n - v + 1
      <3>1. Cardinality(v..n) = IF v > n THEN 0 ELSE n - v + 1
        BY <2>0, FS_Interval
      <3> QED BY <1>2, <3>1
    <2>2. v..n \in SUBSET S
      OBVIOUS
    <2> QED BY <1>1, <2>1, <2>2, FS_Subset
  <1>5. ASSUME NEW p \in 1..c, p + (n - c) >= v
        PROVE  o[p] = p + (n - c)
    <2> DEFINE w == p + (n - c)
    <2>1. w \in v..n /\ w \in S
      BY <1>1, <1>2, <1>3, <1>5
    <2>2. PICK q \in 1..c : o[q] = w
      BY <1>1, <2>1
    <2> DEFINE tail == [i \in q..c |-> o[i]]
    <2>3. \A i \in q..c : o[i] \in w..n /\ i \in 1..c
      <3> TAKE i \in q..c
      <3>1. i \in 1..c /\ (i = q \/ q < i)
        BY <1>1
      <3>2. o[i] \in 1..n
        BY <1>1, <1>2, <3>1
      <3>3. o[i] >= w
        BY <1>1, <2>1, <2>2, <3>1, <3>2
      <3> QED BY <1>2, <2>1, <3>1, <3>2, <3>3
    <2>4. tail \in Injection(q..c, w..n)
      <3>1. \A i, j \in q..c : o[i] = o[j] => i = j
        <4> SUFFICES ASSUME NEW i \in q..c, NEW j \in q..c, o[i] = o[j], i # j PROVE FALSE
          OBVIOUS
        <4>1. i \in 1..c /\ j \in 1..c /\ o[i] \in Int
          BY <1>2, <2>3
        <4>2. i < j \/ j < i
          BY <4>1
        <4> QED BY <1>1, <4>1, <4>2
      <3> QED BY <2>3, <3>1 DEF Injection, IsInjective
    <2>5. tail \in Surjection(q..c, w..n)
      <3> SUFFICES ASSUME NEW x \in w..n PROVE \E i \in q..c : tail[i] = x
        BY <2>3 DEF Surjection
      <3>1. x \in S /\ x \in Int
        BY <1>2, <2>1
      <3>2. PICK i \in 1..c : o[i] = x
        BY <1>1, <3>1
      <3>3. i >= q
        <4>1. ~(o[i] < o[q])
          BY <2>1, <2>2, <3>1, <3>2
        <4>2. ~(i < q)
          BY <1>1, <4>1
        <4> QED BY <4>2
      <3> QED BY <1>1, <3>2, <3>3
    <2> HIDE DEF tail
    <2>6. /\ IsFiniteSet(w..n) /\ Cardinality(w..n) = n - w + 1
          /\ Cardinality(q..c) = c - q + 1
      <3>0. w \in Int /\ n \in Int /\ q \in Int /\ c \in Int /\ w <= n /\ q <= c
        BY <1>1, <1>2, <2>1
      <3> HIDE DEF w, n, c
      <3>1. /\ IsFiniteSet(w..n) /\ Cardinality(w..n) = IF w > n THEN 0 ELSE n - w + 1
        BY <3>0, FS_Interval
      <3>2. Cardinality(q..c) = IF q > c THEN 0 ELSE c - q + 1
        BY <3>0, FS_Interval
      <3> QED BY <3>0, <3>1, <3>2
    <2>7. Cardinality(q..c) = Cardinality(w..n)
      BY <2>4, <2>5, <2>6, FS_Injection
    <2>8. q = p
      BY <1>1, <1>2, <2>1, <2>6, <2>7
    <2> QED BY <2>2, <2>8
  <1> QED BY <1>3, <1>4, <1>5 DEF o

\* What get_recent(limit) returns, when every deque holds at least as many: a
\* deque that has dropped a message holds MAX_MESSAGES_PER_CHANNEL newer ones.
LEMMA RecentCorrect ==
    ASSUME SeqExact, DequesKeepNewest
    PROVE  /\ Stored \subseteq Refs
           /\ Recent \in Seq(Refs)
           /\ Limit <= MAX_MESSAGES_PER_CHANNEL => Recent = Newest(Len(heap))
  <1> DEFINE n == Len(heap)
             c == Cardinality(Stored)
             o == Sorted(Stored)
             first == IF n > Limit THEN n - Limit + 1 ELSE 1
             from == IF c > Limit THEN c - Limit + 1 ELSE 1
  <1>0. n \in Nat /\ Refs = 1..n /\ Limit \in Nat /\ Limit >= 1 /\ MAX_MESSAGES_PER_CHANNEL \in Nat
    BY PageAssumption, CapacityAssumption DEF DequesKeepNewest, TypeOK, Refs
  <1>d. \A ch \in Channels : messages[ch] \in Seq(Nat)
    BY DEF DequesKeepNewest, TypeOK
  <1>1. Stored \subseteq Refs
    BY DEF Stored, DequesKeepNewest
  <1>2. /\ c \in Nat /\ o \in [1..c -> Stored]
    BY <1>0, <1>1, SortedCorrect
  <1>3. o \in Seq(Refs) /\ Len(o) = c
    <2>1. o \in [1..c -> Refs]
      BY <1>1, <1>2
    <2> HIDE DEF o, c
    <2> QED BY <1>2, <2>1
  <1>4. Recent = SubSeq(o, from, c)
    BY <1>3 DEF Recent
  <1>5. from \in 1..(c + 1) /\ from \in Nat
    BY <1>0, <1>2
  <1>6. Recent \in Seq(Refs) /\ Recent = [k \in 1..(c - from + 1) |-> o[from + k - 1]]
    <2> HIDE DEF o, c, from
    <2>0. from \in Int /\ c \in Int /\ \A i \in from..c : o[i] \in Refs
      BY <1>2, <1>3, <1>5
    <2>1. /\ SubSeq(o, from, c) \in Seq(Refs)
          /\ Len(SubSeq(o, from, c)) = IF from <= c THEN c - from + 1 ELSE 0
          /\ \A k \in 1..(c - from + 1) : SubSeq(o, from, c)[k] = o[from + k - 1]
      BY <2>0, SubSeqProperties
    <2>2. Len(SubSeq(o, from, c)) = c - from + 1
      BY <1>2, <1>5, <2>1
    <2> QED BY <1>4, <2>1, <2>2
  <1>7. ASSUME Limit <= MAX_MESSAGES_PER_CHANNEL
        PROVE  Recent = Newest(n)
    <2>1. ASSUME NEW r \in first..n
          PROVE  r \in Stored
      <3>1. r \in Refs /\ r + Limit > n /\ r \in Nat
        BY <1>0
      <3> DEFINE ch == heap[r].channel_id
                 d == messages[ch]
      <3>2. ch \in Channels
        BY <3>1, RefMsg DEF DequesKeepNewest, TypeOK, Msg
      <3>3. d \in Seq(Nat)
        BY <1>d, <3>2
      <3>4. /\ \A i, j \in DOMAIN d : i < j => d[i] < d[j]
            /\ \A i \in DOMAIN d : d[i] \in Refs
            /\ \/ \E i \in DOMAIN d : d[i] = r
               \/ Len(d) = MAX_MESSAGES_PER_CHANNEL /\ r < d[1]
        BY <3>1, <3>2 DEF DequesKeepNewest
      <3>5. CASE \E i \in DOMAIN d : d[i] = r
        BY <3>2, <3>5 DEF Stored
      <3>6. CASE Len(d) = MAX_MESSAGES_PER_CHANNEL /\ r < d[1]
        <4> DEFINE m == MAX_MESSAGES_PER_CHANNEL
        <4> HIDE DEF d, ch
        <4>1. DOMAIN d = 1..m /\ 1 \in 1..m
          BY <1>0, <1>7, <3>3, <3>6
        <4>2. \A i \in 1..m : d[i] \in (r + 1)..n
          <5> TAKE i \in 1..m
          <5>1. d[i] \in 1..n /\ d[1] \in 1..n
            BY <1>0, <3>4, <4>1
          <5>2. i = 1 \/ 1 < i
            OBVIOUS
          <5>3. r < d[i]
            BY <3>4, <3>6, <4>1, <5>1, <5>2, <3>1
          <5> QED BY <5>1, <5>3, <3>1
        <4>3. d \in Injection(1..m, (r + 1)..n)
          <5>1. \A i, j \in 1..m : d[i] = d[j] => i = j
            <6> SUFFICES ASSUME NEW i \in 1..m, NEW j \in 1..m, d[i] = d[j], i # j PROVE FALSE
              OBVIOUS
            <6>1. d[i] \in Int /\ (i < j \/ j < i)
              BY <4>2
            <6> QED BY <3>4, <4>1, <6>1
          <5>2. d \in [1..m -> (r + 1)..n]
            BY <3>3, <4>1, <4>2
          <5> QED BY <5>1, <5>2 DEF Injection, IsInjective
        <4>4. /\ IsFiniteSet((r + 1)..n) /\ Cardinality((r + 1)..n) = n - r
              /\ Cardinality(1..m) = m
          <5>0. r + 1 \in Int /\ n \in Int /\ 1 \in Int /\ m \in Int /\ 1 <= m /\ r <= n
            BY <1>0, <1>7, <3>1
          <5> HIDE DEF n, m
          <5>1. /\ IsFiniteSet((r + 1)..n)
                /\ Cardinality((r + 1)..n) = IF r + 1 > n THEN 0 ELSE n - (r + 1) + 1
            BY <5>0, FS_Interval
          <5>2. Cardinality(1..m) = IF 1 > m THEN 0 ELSE m - 1 + 1
            BY <5>0, FS_Interval
          <5> QED BY <5>0, <5>1, <5>2, <3>1
        <4>5. m <= n - r
          BY <4>3, <4>4, FS_Injection
        <4> QED BY <1>0, <1>7, <3>1, <4>5
      <3> QED BY <3>4, <3>5, <3>6
    <2>2. first \in 1..(n + 1) /\ first..n \subseteq Stored
      BY <1>0, <2>1
    <2>3. /\ c >= n - first + 1 /\ c <= n
          /\ \A p \in 1..c : p + (n - c) >= first => o[p] = p + (n - c)
      <3> HIDE DEF first, o, c
      <3> QED BY <1>0, <1>1, <2>2, EndOfSorted DEF o, c
    <2>4. from + (n - c) = first
      <3> HIDE DEF o, c, n
      <3>1. CASE n > Limit
        <4>1. first = n - Limit + 1 /\ c >= Limit
          BY <1>0, <1>2, <2>3, <3>1
        <4> QED BY <1>0, <1>2, <3>1, <4>1
      <3>2. CASE ~(n > Limit)
        <4>1. first = 1 /\ c = n
          BY <1>0, <1>2, <2>3, <3>2
        <4> QED BY <1>0, <1>2, <3>2, <4>1
      <3> QED BY <3>1, <3>2
    <2>5. c - from + 1 = n - first + 1
      <3>1. n \in Int /\ c \in Int /\ from \in Int /\ first \in Int
        BY <1>0, <1>2, <1>5, <2>2
      <3> HIDE DEF first, from, o, c, n
      <3> QED BY <2>4, <3>1
    <2>6. \A k \in 1..(c - from + 1) : o[from + k - 1] = first + k - 1
      <3> TAKE k \in 1..(c - from + 1)
      <3> DEFINE p == from + k - 1
      <3>1. p \in 1..c /\ p + (n - c) = first + k - 1 /\ p + (n - c) >= first
        <4>1. /\ n \in Int /\ c \in Int /\ from \in Int /\ first \in Int /\ from >= 1
              /\ k \in 1..(c - from + 1) /\ c <= n
          BY <1>0, <1>2, <1>5, <2>2, <2>3
        <4> HIDE DEF first, from, o, c, n
        <4> QED BY <2>4, <4>1
      <3> HIDE DEF p
      <3>2. o[p] = first + k - 1
        BY <2>3, <3>1
      <3> QED BY <3>2 DEF p
    <2> HIDE DEF first, from, o, c
    <2>7. Recent = [k \in 1..(n - first + 1) |-> first + k - 1]
      BY <1>6, <2>5, <2>6
    <2> QED BY <2>7 DEF Newest, first
  <1> QED BY <1>1, <1>6, <1>7

\* What a deque holds when the messages of a file are loaded into it.
Loaded(list) ==
    IF Len(list) <= MAX_MESSAGES_PER_CHANNEL THEN list
    ELSE SubSeq(list, Len(list) - MAX_MESSAGES_PER_CHANNEL + 1, Len(list))

\* Of a set of messages it holds the newest, in order.
LEMMA LastOf ==
    ASSUME SeqExact, Len(heap) \in Nat, NEW S \in SUBSET Refs, NEW d, d = Loaded(Sorted(S))
    PROVE  /\ d \in Seq(Nat) /\ Len(d) <= MAX_MESSAGES_PER_CHANNEL
           /\ \A i, j \in 1..Len(d) : i < j => d[i] < d[j]
           /\ \A i \in 1..Len(d) : d[i] \in S
           /\ \A r \in S : \/ \E i \in 1..Len(d) : d[i] = r
                           \/ Len(d) = MAX_MESSAGES_PER_CHANNEL /\ r < d[1]
  <1> DEFINE max == MAX_MESSAGES_PER_CHANNEL
  <1>s. PICK n, list : n = Cardinality(S) /\ list = Sorted(S)
    OBVIOUS
  <1>0. max \in Nat /\ max >= 1 /\ S \subseteq Nat /\ n \in Nat
    BY <1>s, CapacityAssumption, SortedCorrect DEF Refs
  <1>1. /\ list \in [1..n -> S]
        /\ \A i, j \in 1..n : i < j => list[i] < list[j]
        /\ \A r \in S : \E i \in 1..n : list[i] = r
    BY <1>s, SortedCorrect
  <1>2. list \in Seq(Nat) /\ Len(list) = n
    <2>1. list \in [1..n -> Nat]
      BY <1>0, <1>1
    <2> QED BY <1>0, <2>1
  <1> HIDE DEF max
  <1>3. CASE n <= max
    <2>1. d = list
      BY <1>s, <1>2, <1>3 DEF max, Loaded
    <2>2. \A i \in 1..n : d[i] \in S
      BY <1>1, <2>1
    <2> QED BY <1>1, <1>2, <1>3, <2>1, <2>2 DEF max
  <1>4. CASE n > max
    <2> DEFINE o == n - max
    <2>1. d = SubSeq(list, o + 1, n)
      <3>1. ~(Len(list) <= MAX_MESSAGES_PER_CHANNEL)
        BY <1>0, <1>2, <1>4 DEF max
      <3>2. Loaded(list) = SubSeq(list, Len(list) - MAX_MESSAGES_PER_CHANNEL + 1, Len(list))
        BY <3>1 DEF Loaded
      <3> QED BY <1>s, <1>2, <3>2 DEF max
    <2>2. o \in Nat /\ n - (o + 1) + 1 = max /\ o + 1 \in 1..n /\ n \in 1..n /\ o + max = n
      BY <1>0, <1>4
    <2> HIDE DEF o
    <2>3. /\ d \in Seq(Nat) /\ Len(d) = max
          /\ \A i \in 1..max : d[i] = list[o + i]
      <3>1. SubSeq(list, o + 1, n) \in Seq(Nat)
        BY <1>2, <2>2
      <3>2. Len(SubSeq(list, o + 1, n)) = max
        BY <1>0, <1>2, <2>2
      <3>3. \A i \in 1..max : SubSeq(list, o + 1, n)[i] = list[o + i]
        <4> TAKE i \in 1..max
        <4>0. i \in 1..(n - (o + 1) + 1)
          BY <2>2
        <4>1. SubSeq(list, o + 1, n)[i] = list[(o + 1) + i - 1]
          BY <1>2, <2>2, <4>0
        <4>2. (o + 1) + i - 1 = o + i
          BY <1>0, <2>2
        <4> QED BY <4>1, <4>2
      <3> QED BY <2>1, <3>1, <3>2, <3>3
    <2>4. \A i \in 1..max : o + i \in 1..n
      BY <1>0, <2>2
    <2>5. \A i \in 1..max : d[i] \in S
      BY <1>1, <2>3, <2>4
    <2>6. \A i, j \in 1..max : i < j => d[i] < d[j]
      <3> SUFFICES ASSUME NEW i \in 1..max, NEW j \in 1..max, i < j PROVE d[i] < d[j]
        OBVIOUS
      <3>1. o + i < o + j
        BY <2>2
      <3> QED BY <1>1, <2>3, <2>4, <3>1
    <2>7. ASSUME NEW r \in S
          PROVE  (\E i \in 1..max : d[i] = r) \/ r < d[1]
      <3>1. PICK j \in 1..n : list[j] = r
        BY <1>1
      <3>2. CASE j <= o
        <4>1. j < o + 1 /\ o + 1 \in 1..n /\ 1 \in 1..max
          BY <1>0, <2>2, <3>2
        <4> QED BY <1>1, <2>3, <3>1, <4>1
      <3>3. CASE j > o
        <4>1. j - o \in 1..max /\ o + (j - o) = j
          BY <1>0, <2>2, <3>3
        <4> QED BY <2>3, <3>1, <4>1
      <3>4. j <= o \/ j > o
        BY <2>2
      <3> QED BY <3>2, <3>3, <3>4
    <2>8. \A r \in S : (\E i \in 1..max : d[i] = r) \/ r < d[1]
      BY <2>7
    <2>9. Len(d) <= max /\ 1..Len(d) = 1..max
      BY <1>0, <2>3
    <2> QED BY <2>3, <2>5, <2>6, <2>8, <2>9 DEF max
  <1>5. n <= max \/ n > max
    BY <1>0
  <1> QED BY <1>3, <1>4, <1>5

\* A server that is started again has a store like any other: the first messages
\* of the log, the newest of them in the deques, and nobody to tell.
LEMMA RestartStore ==
    ASSUME StoreOK, NEW k \in 0..Len(heap), NEW promoted, Restart(k, promoted)
    PROVE  StoreOK'
  <1>0. /\ SeqExact /\ TypeOK /\ heap \in Seq(Msg) /\ Len(heap) \in Nat /\ k \in Nat /\ k <= Len(heap)
        /\ 1..k \subseteq Refs
    BY DEF StoreOK, StoreInv, TypeInv, TypeOK, Refs
  <1>1. \A i \in 1..k : heap[i] \in Msg /\ heap[i].seq = i
    BY <1>0 DEF SeqExact, Refs
  <1>2. /\ heap' \in Seq(Msg) /\ Len(heap') = k /\ Refs' = 1..k
        /\ \A i \in 1..k : heap'[i].seq = i /\ heap'[i].channel_id = heap[i].channel_id
    <2>1. PICK f : f = [i \in 1..k |-> [heap[i] EXCEPT !.scope = IF i \in promoted THEN @ ELSE "server"]]
      OBVIOUS
    <2>2. heap' = f
      BY <2>1 DEF Restart
    <2>3. ASSUME NEW i \in 1..k
          PROVE  f[i] \in Msg /\ f[i].seq = i /\ f[i].channel_id = heap[i].channel_id
      <3>1. PICK s : s = IF i \in promoted THEN heap[i].scope ELSE "server"
        OBVIOUS
      <3>2. heap[i] \in Msg /\ s \in Scopes
        BY <1>1, <3>1 DEF Msg, Scopes
      <3>3. f[i] = [heap[i] EXCEPT !.scope = s]
        BY <2>1, <3>1, <3>2 DEF Msg
      <3> QED BY <1>1, <3>2, <3>3 DEF Msg
    <2>4. f \in [1..k -> Msg]
      BY <2>1, <2>3
    <2>5. f \in Seq(Msg) /\ Len(f) = k
      BY <1>0, <2>4
    <2> QED BY <2>2, <2>3, <2>5 DEF Refs
  <1>3. /\ seq' = k /\ dedup' = [x \in {} |-> 0] /\ seenIds' = [id \in {} |-> 0]
        /\ lastSighting' = [id \in {} |-> 0] /\ lastHeard' = [x \in {} |-> 0]
        /\ sseQueues' = {} /\ inbox' = [q \in Queues |-> << >>] /\ since' = [q \in Queues |-> 0]
        /\ pc' = [t \in Threads |-> "idle"] /\ call' = [t \in Threads |-> NoCall]
        /\ note' = [t \in Threads |-> NoNote] /\ targets' = [t \in Threads |-> {}]
        /\ clock' = clock /\ calls' = calls
    BY DEF Restart
  <1> DEFINE S(c) == {i \in 1..k : heap[i].channel_id = c}
  <1>4. ASSUME NEW c \in Channels
        PROVE  /\ messages'[c] \in Seq(Nat) /\ Len(messages'[c]) <= MAX_MESSAGES_PER_CHANNEL
               /\ \A i, j \in 1..Len(messages'[c]) : i < j => messages'[c][i] < messages'[c][j]
               /\ \A i \in 1..Len(messages'[c]) : messages'[c][i] \in S(c)
               /\ \A r \in S(c) : \/ \E i \in 1..Len(messages'[c]) : messages'[c][i] = r
                                  \/ /\ Len(messages'[c]) = MAX_MESSAGES_PER_CHANNEL
                                     /\ r < messages'[c][1]
    <2>1. PICK T : T = S(c)
      OBVIOUS
    <2>2. messages'[c] = Loaded(Sorted(T))
      BY <2>1 DEF Restart, Loaded
    <2>3. T \in SUBSET Refs
      BY <1>0, <2>1
    <2>5. PICK d : d = messages'[c]
      OBVIOUS
    <2> HIDE DEF S
    <2>6. /\ d \in Seq(Nat) /\ Len(d) <= MAX_MESSAGES_PER_CHANNEL
          /\ \A i, j \in 1..Len(d) : i < j => d[i] < d[j]
          /\ \A i \in 1..Len(d) : d[i] \in T
          /\ \A r \in T : \/ \E i \in 1..Len(d) : d[i] = r
                          \/ Len(d) = MAX_MESSAGES_PER_CHANNEL /\ r < d[1]
      BY <1>0, <2>2, <2>3, <2>5, LastOf
    <2> QED BY <2>1, <2>5, <2>6
  <1> HIDE DEF S
  <1>5. messages' \in [Channels -> Seq(Nat)]
    <2>1. messages' = [c \in Channels |-> messages'[c]]
      BY DEF Restart
    <2> QED BY <1>4, <2>1
  <1>6. TypeOK'
    <2>1. \A K, V : IsDict([x \in {} |-> 0], K, V)
      BY DEF IsDict
    <2>2. /\ dedup' = [x \in {} |-> 0] /\ seenIds' = [x \in {} |-> 0]
          /\ lastSighting' = [x \in {} |-> 0] /\ lastHeard' = [x \in {} |-> 0]
      BY <1>3
    <2>3. /\ IsDict(dedup', Texts, Rec) /\ IsDict(seenIds', Ids, Nat)
          /\ IsDict(lastSighting', Ids, Sighting) /\ IsDict(lastHeard', Texts, Sighting)
      BY <2>1, <2>2
    <2>4. /\ inbox' \in [Queues -> Seq(Events)] /\ since' \in [Queues -> Nat]
          /\ pc' \in [Threads -> PCs] /\ call' \in [Threads -> Call \cup {NoCall}]
          /\ note' \in [Threads -> Note \cup {NoNote}]
          /\ targets' \in [Threads -> SUBSET Queues] /\ sseQueues' \in SUBSET Queues
      <3>1. << >> \in Seq(Events) /\ "idle" \in PCs
        BY DEF PCs
      <3> QED BY <1>3, <3>1
    <2>5. clock' \in Nat /\ calls' \in Nat /\ seq' \in Nat
      BY <1>0, <1>3 DEF TypeOK
    <2> QED BY <1>2, <1>5, <2>3, <2>4, <2>5 DEF TypeOK
  <1>7. TypeInv' /\ DedupInv'
    <2>1. DOMAIN dedup' = {} /\ \A t \in Threads : pc'[t] = "idle"
      BY <1>3
    <2> QED BY <1>6, <2>1 DEF TypeInv, LocalsOK, DedupInv, DedupConsistent, FreshExpiry
  <1>8. SeqExact'
    BY <1>2, <1>3 DEF SeqExact
  <1>9. DequesKeepNewest'
    <2>1. ASSUME NEW c \in Channels
          PROVE  DequeOK(c, messages[c])'
      <3>1. S(c) \subseteq 1..k /\ \A r \in 1..k : r \in S(c) <=> heap'[r].channel_id = c
        BY <1>2 DEF S
      <3> QED BY <1>2, <1>4, <3>1 DEF DequeOK
    <2>2. (DequesKeepNewest <=> \A c \in Channels : DequeOK(c, messages[c]))'
      BY <1>6, DequePointwise, PTL
    <2> QED BY <2>1, <2>2
  <1>10. TellInv' /\ Coverage'
    <2>1. /\ \A t \in Threads : ~Telling(t)' /\ targets'[t] = {}
          /\ \A q \in Queues : DOMAIN inbox'[q] = {} /\ sseQueues' = {}
      BY <1>3 DEF Telling
    <2>2. OneTeller' /\ NotYetTold' /\ NotesTrue'
      BY <2>1 DEF OneTeller, NotYetTold, NotesTrue
    <2>3. ToldOnce' /\ EventsTrue' /\ Registered'
      BY <1>3, <2>1 DEF ToldOnce, EventsTrue, Registered
    <2>4. Coverage'
      BY <1>3 DEF Coverage
    <2> QED BY <2>2, <2>3, <2>4 DEF TellInv
  <1> QED BY <1>7, <1>8, <1>9, <1>10 DEF StoreOK, StoreInv

-----------------------------------------------------------------------------
(* The steps of the page *)

\* The page, the requests and the streams.  An event that a stream has brought is
\* on the page, or has been, or was an update of nothing; so is what a response
\* with the newest messages brings.
PageInv ==
    /\ restarts \in Nat /\ restarts <= MaxRestarts
    /\ page \in Pages(restarts) /\ Matched(page) /\ AllSo(page)

Replies(r) == [state : {"sent", "recent", "dumped", "done", "failed"}, len : Nat,
               life : 0..r, refs : Seq(Nat), body : Seq(Objs(r))]
FetchOK(f) ==
    /\ f \in Replies(restarts)
    /\ \A k \in DOMAIN f.body : IsSo(f.body[k])
    /\ f.state = "recent" =>
          /\ f.life = restarts /\ \A k \in DOMAIN f.refs : f.refs[k] \in Refs
          /\ Limit <= MAX_MESSAGES_PER_CHANNEL => f.refs = Newest(f.len)
    /\ Limit <= MAX_MESSAGES_PER_CHANNEL /\ f.life = restarts =>
          \A n \in 1..f.len : n > f.len - Limit =>
              /\ f.state = "dumped" => \E k \in DOMAIN f.body : f.body[k].seq = n
              /\ f.state = "done" => Had(page, n)
FetchInv == DOMAIN fetch = Streams /\ fetch = [s \in Streams |-> fetch[s]]
            /\ \A s \in Streams : FetchOK(fetch[s])

Followed(p, e) ==
    /\ e.type = "new" => Had(p, e.seq)
    /\ e.type = "update" =>
          \/ e.seq \in p.unknown \cup p.gone
          \/ e.seq \in DOMAIN p.bySeq /\ p.objs[p.bySeq[e.seq]].scope = "global"
StreamInv ==
    /\ stream \in [Streams -> Queues \cup {Closed}] /\ taken \in [Queues -> Nat]
    /\ \A q \in Queues : since[q] = 0 => taken[q] = 0
    /\ \A s \in Streams : stream[s] # Closed =>
          /\ stream[s] \in sseQueues /\ taken[stream[s]] <= Len(inbox[stream[s]])
          /\ \A k \in 1..taken[stream[s]] : Followed(page, inbox[stream[s]][k])

MonitorInv == StoreOK /\ PageInv /\ FetchInv /\ StreamInv

LEMMA FollowedLater ==
    ASSUME NEW p, NEW w, Later(p, w)
    PROVE  /\ \A n : Had(p, n) => Had(w, n)
           /\ \A e : Followed(p, e) => Followed(w, e)
  BY DEF Later, Followed, Had

\* A step that makes no page forget: what holds of the requests and the streams
\* goes on to hold.
LEMMA PageGoesOn ==
    ASSUME MonitorInv, [Next]_vars, restarts' = restarts, NEW w, page' = w,
           w \in Pages(restarts), Matched(w), AllSo(w), Later(page, w)
    PROVE  /\ PageInv'
           /\ \A f : FetchOK(f) => FetchOK(f)'
           /\ \A e : Followed(page, e) => Followed(w, e)
  <1>0. StoreOK /\ PageInv
    BY DEF MonitorInv
  <1>1. PICK r : r = restarts
    OBVIOUS
  <1>2. restarts' = r /\ r \in Nat /\ r <= MaxRestarts
    BY <1>0, <1>1 DEF PageInv
  <1>3. AllSo(w)'
    BY <1>0, StaysSo DEF AllSo
  <1>4. PageInv'
    BY <1>1, <1>2, <1>3 DEF PageInv
  <1>5. ASSUME NEW f, FetchOK(f)
        PROVE  FetchOK(f)'
    <2>1. f \in Replies(r)
      BY <1>1, <1>5 DEF FetchOK
    <2>2. \A k \in DOMAIN f.body : IsSo(f.body[k])'
      BY <1>0, <1>5, StaysSo DEF FetchOK
    <2>3. \A k \in DOMAIN f.refs : f.refs[k] \in Refs => f.refs[k] \in Refs'
      BY <1>0, OnlyMore
    <2>4. \A n : Had(page, n) => Had(w, n)
      BY FollowedLater
    <2> QED BY <1>1, <1>2, <1>5, <2>1, <2>2, <2>3, <2>4 DEF FetchOK
  <1> QED BY <1>4, <1>5, FollowedLater

LEMMA StreamsGoOn ==
    ASSUME MonitorInv, [Next]_vars, NEW w, page' = w, UNCHANGED <<stream, taken>>,
           \A e : Followed(page, e) => Followed(w, e),
           \A s \in Streams : stream[s] # Closed => stream[s] \in sseQueues'
    PROVE  StreamInv'
  <1>0. StoreOK /\ StreamInv
    BY DEF MonitorInv
  <1>1. \A q \in Queues : since'[q] = 0 => taken[q] = 0
    BY <1>0, OnlyMore DEF StreamInv
  <1>2. ASSUME NEW s \in Streams, stream[s] # Closed
        PROVE  /\ taken[stream[s]] <= Len(inbox'[stream[s]])
               /\ \A k \in 1..taken[stream[s]] : Followed(w, inbox'[stream[s]][k])
    <2>1. PICK q \in Queues : q = stream[s]
      BY <1>0, <1>2 DEF StreamInv
    <2>2. PICK t \in Nat : t = taken[q]
      BY <1>0 DEF StreamInv
    <2>3. t <= Len(inbox[q]) /\ \A k \in 1..t : Followed(page, inbox[q][k])
      BY <1>0, <1>2, <2>1, <2>2 DEF StreamInv
    <2>4. /\ Len(inbox[q]) \in Nat /\ Len(inbox'[q]) \in Nat /\ Len(inbox[q]) <= Len(inbox'[q])
          /\ \A k \in 1..Len(inbox[q]) : inbox'[q][k] = inbox[q][k]
      BY <1>0, OnlyMore
    <2>5. t <= Len(inbox'[q]) /\ \A k \in 1..t : k \in 1..Len(inbox[q])
      BY <2>3, <2>4
    <2>6. \A k \in 1..t : Followed(w, inbox'[q][k])
      BY <2>3, <2>4, <2>5
    <2> QED BY <2>1, <2>2, <2>5, <2>6
  <1> QED BY <1>0, <1>1, <1>2 DEF StreamInv

LEMMA FetchGoesOn ==
    ASSUME FetchInv, \A f : FetchOK(f) => FetchOK(f)', NEW s \in Streams, NEW g, FetchOK(g)',
           fetch' = [fetch EXCEPT ![s] = g]
    PROVE  FetchInv'
  BY DEF FetchInv

\* A step of the store, with or without a subscriber that leaves.
LEMMA StoreKeeps ==
    ASSUME MonitorInv, StoreStep \/ \E q \in Queues : HandlerEnds(q)
    PROVE  MonitorInv'
  <1>0. StoreOK /\ PageInv /\ FetchInv /\ StreamInv
    BY DEF MonitorInv
  <1>1. [Next]_vars /\ UNCHANGED pageVars
    BY DEF StoreStep, HandlerEnds, Next
  <1>2. PICK w : w = page
    OBVIOUS
  <1>3. page' = w /\ restarts' = restarts /\ stream' = stream /\ taken' = taken /\ fetch' = fetch
    BY <1>1, <1>2 DEF pageVars
  <1>4. w \in Pages(restarts) /\ Matched(w) /\ AllSo(w) /\ Later(page, w)
    BY <1>0, <1>2, LaterReflexive DEF PageInv
  <1>5. PageInv' /\ (\A f : FetchOK(f) => FetchOK(f)') /\ (\A e : Followed(page, e) => Followed(w, e))
    BY <1>1, <1>3, <1>4, PageGoesOn
  <1>6. \A s \in Streams : stream[s] # Closed => stream[s] \in sseQueues'
    <2>1. CASE StoreStep
      <3>1. sseQueues' = sseQueues
        BY <2>1 DEF StoreStep, Tick, CallAdd, Continue, Locked, AddRetransmit, AddPromote, AddRepeat,
                    AddNew, PassFirst, Dump, Snapshot, Put, PutDone, Save, sseVars
      <3> QED BY <1>0, <3>1 DEF StreamInv
    <2>2. CASE \E q \in Queues : HandlerEnds(q)
      BY <1>0, <2>2 DEF StreamInv, HandlerEnds, RemoveQueue
    <2> QED BY <2>1, <2>2
  <1>7. StreamInv'
    BY <1>1, <1>3, <1>5, <1>6, StreamsGoOn
  <1>8. FetchInv'
    BY <1>0, <1>3, <1>5 DEF FetchInv
  <1> QED BY <1>0, <1>1, <1>5, <1>7, <1>8, StoreStays DEF MonitorInv

\* A step of the page or of a request: the store and the streams stay.
LEMMA PageKeeps ==
    ASSUME MonitorInv, UNCHANGED <<vars, restarts>>, NEW w, page' = w,
           w \in Pages(restarts), Matched(w), AllSo(w), Later(page, w)
    PROVE  /\ StoreOK' /\ PageInv'
           /\ \A f : FetchOK(f) => FetchOK(f)'
           /\ UNCHANGED <<stream, taken>> => StreamInv'
           /\ UNCHANGED fetch => FetchInv'
  <1>0. StoreOK /\ PageInv /\ FetchInv /\ StreamInv
    BY DEF MonitorInv
  <1>1. StoreOK' /\ [Next]_vars
    BY <1>0, StoreStays
  <1>5. PageInv' /\ (\A f : FetchOK(f) => FetchOK(f)') /\ (\A e : Followed(page, e) => Followed(w, e))
    BY <1>1, PageGoesOn
  <1>6. \A s \in Streams : stream[s] # Closed => stream[s] \in sseQueues'
    BY <1>0 DEF StreamInv, vars, sseVars
  <1> QED BY <1>0, <1>1, <1>5, <1>6, StreamsGoOn DEF FetchInv

\* A stream opens, with nothing handled yet, or breaks.
LEMMA StreamKeeps ==
    ASSUME MonitorInv, NEW s \in Streams, NEW q \in Queues, Register(s, q) \/ Break(s)
    PROVE  MonitorInv'
  <1>0. StoreOK /\ PageInv /\ FetchInv /\ StreamInv
    BY DEF MonitorInv
  <1>1. [Next]_vars /\ UNCHANGED <<taken, fetch, page, restarts>>
    BY DEF Register, Break, Next
  <1>2. PICK w : w = page
    OBVIOUS
  <1>3. page' = w /\ restarts' = restarts /\ taken' = taken /\ fetch' = fetch
    BY <1>1, <1>2
  <1>4. w \in Pages(restarts) /\ Matched(w) /\ AllSo(w) /\ Later(page, w)
    BY <1>0, <1>2, LaterReflexive DEF PageInv
  <1>5. PageInv' /\ (\A f : FetchOK(f) => FetchOK(f)')
    BY <1>1, <1>3, <1>4, PageGoesOn
  <1>6. FetchInv'
    BY <1>0, <1>3, <1>5 DEF FetchInv
  <1>7. CASE Break(s)
    <2>1. stream' = [stream EXCEPT ![s] = Closed] /\ UNCHANGED <<since, sseQueues, inbox, page, taken>>
      BY <1>7 DEF Break, vars, sseVars
    <2> QED BY <1>0, <1>1, <1>5, <1>6, <2>1, StoreStays DEF MonitorInv, StreamInv
  <1>8. CASE Register(s, q)
    <2>1. /\ stream' = [stream EXCEPT ![s] = q] /\ UNCHANGED <<inbox, page, taken>>
          /\ since[q] = 0 /\ sseQueues' = sseQueues \cup {q}
      BY <1>8 DEF Register, AddQueue
    <2>2. \A p \in Queues : since'[p] = 0 => since[p] = 0
      BY <1>0, <1>1, OnlyMore
    <2>3. taken[q] = 0 /\ 0 <= Len(inbox[q]) /\ 1..0 = {}
      BY <1>0, <1>1, <2>1, OnlyMore DEF StreamInv
    <2>4. StreamInv'
      <3>1. ASSUME NEW x \in Streams, stream'[x] # Closed
            PROVE  /\ stream'[x] \in sseQueues' /\ taken[stream'[x]] <= Len(inbox[stream'[x]])
                   /\ \A k \in 1..taken[stream'[x]] : Followed(page, inbox[stream'[x]][k])
        <4>1. CASE x = s
          BY <1>0, <2>1, <2>3, <4>1 DEF StreamInv
        <4>2. CASE x # s
          BY <1>0, <2>1, <3>1, <4>2 DEF StreamInv
        <4> QED BY <4>1, <4>2
      <3>2. stream' \in [Streams -> Queues \cup {Closed}]
        BY <1>0, <2>1 DEF StreamInv
      <3>3. \A p \in Queues : since'[p] = 0 => taken[p] = 0
        BY <1>0, <2>2 DEF StreamInv
      <3> QED BY <1>0, <2>1, <3>1, <3>2, <3>3 DEF StreamInv
    <2> QED BY <1>0, <1>1, <1>5, <1>6, <2>4, StoreStays DEF MonitorInv
  <1> QED BY <1>7, <1>8

\* What the server makes of a message is so.
LEMMA ObjectSo ==
    ASSUME MonitorInv, NEW i \in Refs, NEW scope \in Scopes,
           scope = "global" => heap[i].scope = "global"
    PROVE  Object(i, scope) \in Objs(restarts) /\ IsSo(Object(i, scope)) /\ Object(i, scope).seq = i
  <1>1. /\ heap[i] \in Msg /\ heap[i].seq = i /\ restarts \in Nat
    BY RefMsg DEF MonitorInv, StoreOK, StoreInv, SeqExact, TypeInv, TypeOK, PageInv
  <1>2. restarts \in 0..restarts /\ i \in Nat
    BY <1>1 DEF Refs
  <1> QED BY <1>1, <1>2 DEF Object, Objs, IsSo, Msg

\* The page handles one event of a stream.
LEMMA MessageKeeps ==
    ASSUME MonitorInv, NEW s \in Streams, OnMessage(s)
    PROVE  MonitorInv'
  <1>0. StoreOK /\ PageInv /\ FetchInv /\ StreamInv
    BY DEF MonitorInv
  <1>1. PICK q \in Queues : q = stream[s] /\ q # Closed
    BY <1>0 DEF OnMessage, StreamInv
  <1>2. PICK n \in Nat : n = taken[q]
    BY <1>0 DEF StreamInv
  <1>3. PICK e, w : e = inbox[q][n + 1] /\ w = Applied(e)
    OBVIOUS
  <1>4. /\ n < Len(inbox[q]) /\ taken' = [taken EXCEPT ![q] = n + 1] /\ page' = w
        /\ UNCHANGED <<vars, stream, fetch, restarts>>
    BY <1>1, <1>2, <1>3 DEF OnMessage, Received
  <1>5. n + 1 \in DOMAIN inbox[q] /\ e \in Events /\ EventTrue(e)
    <2>1. inbox[q] \in Seq(Events)
      BY <1>0 DEF StoreOK, StoreInv, TypeInv, TypeOK
    <2>2. n + 1 \in DOMAIN inbox[q]
      BY <1>4, <2>1
    <2> QED BY <1>0, <1>3, <2>1, <2>2 DEF StoreOK, TellInv, EventsTrue
  <1>6. PICK r \in Nat : r = restarts /\ page \in Pages(r) /\ Matched(page) /\ AllSo(page)
    BY <1>0 DEF PageInv
  <1>7. w \in Pages(r) /\ Matched(w) /\ AllSo(w) /\ Later(page, w) /\ Followed(w, e)
    <2>1. CASE e.type = "update"
      <3>1. w = MarkGlobal(page, e.seq) /\ e.seq \in Nat
        BY <1>3, <1>5, <2>1 DEF Applied, Events
      <3>2. /\ w \in Pages(r) /\ Matched(w) /\ Later(page, w)
            /\ \/ e.seq \in w.unknown
               \/ e.seq \in DOMAIN w.bySeq /\ w.objs[w.bySeq[e.seq]].scope = "global"
            /\ DOMAIN w.objs = DOMAIN page.objs
            /\ \A k \in DOMAIN page.objs : SameMessage(w.objs[k], page.objs[k])
            /\ \A k \in DOMAIN page.objs : w.objs[k] = page.objs[k] \/ page.objs[k].seq = e.seq
        BY <1>6, <3>1, MarkKeeps
      <3>3. heap[e.seq].scope = "global"
        BY <1>5, <2>1 DEF EventTrue
      <3>4. AllSo(w)
        <4> SUFFICES ASSUME NEW k \in DOMAIN page.objs PROVE IsSo(w.objs[k])
          BY <3>2 DEF AllSo
        <4>1. IsSo(page.objs[k]) /\ page.objs[k] \in Objs(r)
          BY <1>6, PageFields DEF AllSo
        <4>2. CASE w.objs[k] = page.objs[k]
          BY <4>1, <4>2
        <4>3. CASE page.objs[k].seq = e.seq
          BY <3>2, <3>3, <4>1, <4>3 DEF IsSo, SameMessage
        <4> QED BY <3>2, <4>2, <4>3
      <3> QED BY <2>1, <3>2, <3>4 DEF Followed
    <2>2. CASE e.type = "new"
      <3>1. e.seq \in Refs /\ e.scope \in Scopes /\ (e.scope = "global" => heap[e.seq].scope = "global")
        BY <1>5 DEF EventTrue, Events
      <3>2. (CHOOSE i \in Refs : heap[i].seq = e.seq) = e.seq
        <4>1. \A i \in Refs : heap[i].seq = i
          BY <1>0 DEF StoreOK, StoreInv, SeqExact
        <4> QED BY <3>1, <4>1
      <3>3. PICK o : o = Object(e.seq, e.scope)
        OBVIOUS
      <3>4. o \in Objs(r) /\ IsSo(o) /\ o.seq = e.seq
        BY <1>6, <3>1, <3>3, ObjectSo
      <3>5. w = AddMessage(page, o)
        BY <1>3, <2>2, <3>2, <3>3 DEF Applied
      <3>6. /\ w \in Pages(r) /\ Matched(w) /\ Later(page, w) /\ Had(w, o.seq)
            /\ \A k \in DOMAIN w.objs : \/ k \in DOMAIN page.objs /\ w.objs[k] = page.objs[k]
                                        \/ w.objs[k] = o
        BY <1>6, <3>4, <3>5, AddKeeps
      <3>7. AllSo(w)
        BY <1>6, <3>4, <3>6 DEF AllSo
      <3> QED BY <2>2, <3>4, <3>6, <3>7 DEF Followed
    <2> QED BY <1>5, <2>1, <2>2 DEF Events
  <1>8. /\ StoreOK' /\ PageInv' /\ FetchInv'
    BY <1>4, <1>6, <1>7, PageKeeps
  <1>9. StreamInv'
    <2>1. \A x : Followed(page, x) => Followed(w, x)
      BY <1>7, FollowedLater
    <2>2. taken' \in [Queues -> Nat] /\ \A p \in Queues : taken'[p] = IF p = q THEN n + 1 ELSE taken[p]
      BY <1>0, <1>4 DEF StreamInv
    <2>3. since[q] # 0
      BY <1>0, <1>1 DEF StoreOK, TellInv, Registered, StreamInv
    <2>4. UNCHANGED <<since, sseQueues, inbox, stream>>
      BY <1>4 DEF vars, sseVars
    <2>5. ASSUME NEW x \in Streams, stream[x] # Closed
          PROVE  /\ stream[x] \in sseQueues /\ taken'[stream[x]] <= Len(inbox[stream[x]])
                 /\ \A k \in 1..taken'[stream[x]] : Followed(w, inbox[stream[x]][k])
      <3>1. /\ stream[x] \in sseQueues /\ stream[x] \in Queues
            /\ taken[stream[x]] <= Len(inbox[stream[x]])
            /\ \A k \in 1..taken[stream[x]] : Followed(page, inbox[stream[x]][k])
        BY <1>0, <2>5 DEF StreamInv
      <3>2. CASE stream[x] # q
        BY <2>1, <2>2, <3>1, <3>2
      <3>3. CASE stream[x] = q
        <4>1. n + 1 <= Len(inbox[q])
          BY <1>0, <1>4, OnlyMore
        <4>2. \A k \in 1..(n + 1) : k \in 1..n \/ k = n + 1
          OBVIOUS
        <4>3. \A k \in 1..(n + 1) : Followed(w, inbox[q][k])
          BY <1>2, <1>3, <1>7, <2>1, <3>1, <3>3, <4>2
        <4> QED BY <2>2, <3>1, <3>3, <4>1, <4>3
      <3> QED BY <3>2, <3>3
    <2>6. \A p \in Queues : since[p] = 0 => taken'[p] = 0
      BY <1>0, <2>2, <2>3 DEF StreamInv
    <2> QED BY <1>0, <1>4, <2>2, <2>4, <2>5, <2>6 DEF StreamInv
  <1> QED BY <1>8, <1>9 DEF MonitorInv

\* The handler of a request collects the messages, and then dumps them.
LEMMA RequestKeeps ==
    ASSUME MonitorInv, NEW s \in Streams, FetchRecent(s) \/ FetchDump(s) \/ FetchFails(s)
    PROVE  MonitorInv'
  <1>0. StoreOK /\ PageInv /\ FetchInv /\ StreamInv /\ FetchOK(fetch[s])
    BY DEF MonitorInv, FetchInv
  <1>1. UNCHANGED <<vars, stream, taken, page, restarts>>
    BY DEF FetchRecent, FetchDump, FetchFails
  <1>2. PICK w, r, f : w = page /\ r = restarts /\ f = fetch[s]
    OBVIOUS
  <1>3. page' = w /\ r \in Nat /\ w \in Pages(r) /\ Matched(w) /\ AllSo(w) /\ Later(page, w)
    BY <1>0, <1>1, <1>2, LaterReflexive DEF PageInv
  <1>4. StoreOK' /\ PageInv' /\ StreamInv' /\ \A g : FetchOK(g) => FetchOK(g)'
    BY <1>1, <1>2, <1>3, PageKeeps
  <1>5. /\ f \in Replies(r) /\ r \in 0..r /\ << >> \in Seq(Nat) /\ << >> \in Seq(Objs(r))
    BY <1>0, <1>2, <1>3 DEF FetchOK
  <1>6. \E g : FetchOK(g) /\ fetch' = [fetch EXCEPT ![s] = g]
    <2>1. CASE FetchRecent(s)
      <3>1. PICK g : g = [state |-> "recent", len |-> Len(heap), life |-> r,
                          refs |-> Recent, body |-> << >>]
        OBVIOUS
      <3>2. /\ Stored \subseteq Refs /\ Recent \in Seq(Refs)
            /\ Limit <= MAX_MESSAGES_PER_CHANNEL => Recent = Newest(Len(heap))
        BY <1>0, RecentCorrect DEF StoreOK, StoreInv
      <3>3. Len(heap) \in Nat /\ Recent \in Seq(Nat) /\ \A k \in DOMAIN Recent : Recent[k] \in Refs
        <4>1. Len(heap) \in Nat
          BY <1>0, OnlyMore
        <4>2. \A k \in DOMAIN Recent : Recent[k] \in Refs
          BY <3>2
        <4>3. Refs \subseteq Nat
          BY DEF Refs
        <4>4. PICK x, n : x = Recent /\ n = Len(x)
          OBVIOUS
        <4>5. n \in Nat /\ x = [k \in 1..n |-> x[k]] /\ \A k \in 1..n : x[k] \in Nat
          BY <3>2, <4>2, <4>3, <4>4
        <4>6. x \in [1..n -> Nat]
          BY <4>5
        <4>7. x \in Seq(Nat)
          BY <4>5, <4>6
        <4> QED BY <4>1, <4>2, <4>4, <4>7
      <3>4. /\ g \in Replies(r) /\ g.state = "recent" /\ g.life = r /\ g.body = << >>
            /\ g.refs = Recent /\ g.len = Len(heap)
        BY <1>5, <3>1, <3>3 DEF Replies
      <3>5. FetchOK(g)
        BY <1>2, <3>2, <3>3, <3>4 DEF FetchOK
      <3>6. fetch' = [fetch EXCEPT ![s] = g]
        BY <1>2, <2>1, <3>1 DEF FetchRecent
      <3> QED BY <3>5, <3>6
    <2>2. CASE FetchDump(s)
      <3>1. PICK b : b = [k \in DOMAIN f.refs |-> Object(f.refs[k], heap[f.refs[k]].scope)]
        OBVIOUS
      <3>2. /\ f.state = "recent" /\ f.life = r /\ \A k \in DOMAIN f.refs : f.refs[k] \in Refs
            /\ Limit <= MAX_MESSAGES_PER_CHANNEL => f.refs = Newest(f.len)
        BY <1>0, <1>2, <2>2 DEF FetchDump, FetchOK
      <3>3. f.refs \in Seq(Nat) /\ f.len \in Nat
        BY <1>5 DEF Replies
      <3>4. PICK m \in Nat : m = Len(f.refs) /\ DOMAIN f.refs = 1..m
        BY <3>3
      <3>5. \A k \in 1..m : b[k] \in Objs(r) /\ IsSo(b[k]) /\ b[k].seq = f.refs[k]
        <4> TAKE k \in 1..m
        <4>1. f.refs[k] \in Refs /\ heap[f.refs[k]].scope \in Scopes
          BY <1>0, <3>2, <3>4, RefMsg DEF StoreOK, StoreInv, TypeInv, TypeOK
        <4>2. b[k] = Object(f.refs[k], heap[f.refs[k]].scope)
          BY <3>1, <3>4
        <4> QED BY <1>2, <4>1, <4>2, ObjectSo
      <3>6. b \in Seq(Objs(r)) /\ DOMAIN b = 1..m
        <4>1. b \in [1..m -> Objs(r)]
          BY <3>1, <3>4, <3>5
        <4> QED BY <4>1
      <3>7. PICK g : g = [f EXCEPT !.state = "dumped", !.refs = << >>, !.body = b]
        OBVIOUS
      <3>8. /\ g \in Replies(r) /\ g.state = "dumped" /\ g.body = b /\ g.len = f.len
        BY <1>5, <3>6, <3>7 DEF Replies
      <3>9. ASSUME Limit <= MAX_MESSAGES_PER_CHANNEL, NEW n \in 1..f.len, n > f.len - Limit
            PROVE  \E k \in DOMAIN b : b[k].seq = n
        <4>1. PICK first \in Nat : first = IF f.len > Limit THEN f.len - Limit + 1 ELSE 1
          BY <3>3, PageAssumption
        <4>2. f.refs = [k \in 1..(f.len - first + 1) |-> first + k - 1]
          BY <3>2, <3>9, <4>1 DEF Newest
        <4>3. n - first + 1 \in 1..(f.len - first + 1) /\ first + (n - first + 1) - 1 = n
          BY <3>3, <3>9, <4>1, PageAssumption
        <4>4. n - first + 1 \in 1..m /\ f.refs[n - first + 1] = n
          BY <3>4, <4>2, <4>3
        <4> QED BY <3>5, <3>6, <4>4
      <3>10. FetchOK(g)
        BY <1>2, <3>5, <3>6, <3>8, <3>9 DEF FetchOK
      <3>11. fetch' = [fetch EXCEPT ![s] = g]
        <4>1. f = [state |-> f.state, len |-> f.len, life |-> f.life, refs |-> f.refs, body |-> f.body]
          BY <1>5 DEF Replies
        <4>2. fetch' = [fetch EXCEPT ![s].state = "dumped", ![s].refs = << >>, ![s].body = b]
          BY <1>2, <2>2, <3>1 DEF FetchDump
        <4>3. s \in DOMAIN fetch
          BY <1>0 DEF FetchInv
        <4> QED BY <1>2, <3>7, <4>1, <4>2, <4>3
      <3> QED BY <3>10, <3>11
    <2>3. CASE FetchFails(s)
      <3>1. PICK g : g = [state |-> "failed", len |-> 0, life |-> 0, refs |-> << >>, body |-> << >>]
        OBVIOUS
      <3>2. g = Failed
        BY <3>1 DEF Failed, NoReply
      <3>3. g \in Replies(r) /\ g.state = "failed" /\ g.body = << >> /\ g.len = 0
        <4>1. 0 \in 0..r
          BY <1>3
        <4> QED BY <1>5, <3>1, <4>1 DEF Replies
      <3>4. FetchOK(g)
        BY <1>2, <3>3 DEF FetchOK
      <3> QED BY <2>3, <3>2, <3>4 DEF FetchFails
    <2> QED BY <2>1, <2>2, <2>3
  <1>7. PICK g : FetchOK(g) /\ fetch' = [fetch EXCEPT ![s] = g]
    BY <1>6
  <1>8. FetchInv'
    BY <1>0, <1>4, <1>7, FetchGoesOn
  <1> QED BY <1>4, <1>8 DEF MonitorInv

\* The response is added to the page as a whole.
LEMMA ResponseKeeps ==
    ASSUME MonitorInv, NEW s \in Streams, FetchArrives(s)
    PROVE  MonitorInv'
  <1>0. StoreOK /\ PageInv /\ FetchInv /\ StreamInv /\ FetchOK(fetch[s])
    BY DEF MonitorInv, FetchInv
  <1>1. PICK f, r, w : f = fetch[s] /\ r = restarts /\ w = Merged(f.body)
    OBVIOUS
  <1>2. /\ f.state = "dumped" /\ page' = w
        /\ fetch' = [fetch EXCEPT ![s].state = "done", ![s].body = << >>]
        /\ UNCHANGED <<vars, stream, taken, restarts>>
    BY <1>1 DEF FetchArrives
  <1>3. r \in Nat /\ page \in Pages(r) /\ Matched(page) /\ AllSo(page)
    BY <1>0, <1>1 DEF PageInv
  <1>4. f \in Replies(r) /\ f.body \in Seq(Objs(r)) /\ \A k \in DOMAIN f.body : IsSo(f.body[k])
    BY <1>0, <1>1 DEF FetchOK, Replies
  <1>5. /\ w \in Pages(r) /\ Matched(w) /\ AllSo(w) /\ Later(page, w)
        /\ \A k \in DOMAIN f.body : Had(w, f.body[k].seq)
    BY <1>1, <1>3, <1>4, MergeKeeps DEF Merged
  <1>6. StoreOK' /\ PageInv' /\ StreamInv' /\ \A g : FetchOK(g) => FetchOK(g)'
    BY <1>1, <1>2, <1>5, PageKeeps
  <1>7. PICK g : g = [f EXCEPT !.state = "done", !.body = << >>]
    OBVIOUS
  <1>8. /\ g \in Replies(r) /\ g.state = "done" /\ g.body = << >> /\ g.len = f.len /\ g.life = f.life
    <2>1. << >> \in Seq(Objs(r))
      OBVIOUS
    <2>2. f = [state |-> f.state, len |-> f.len, life |-> f.life, refs |-> f.refs, body |-> f.body]
      BY <1>4 DEF Replies
    <2>3. g = [state |-> "done", len |-> f.len, life |-> f.life, refs |-> f.refs, body |-> << >>]
      BY <1>7, <2>2
    <2> QED BY <1>4, <2>1, <2>3 DEF Replies
  <1>9. FetchOK(g)'
    <2>1. Limit <= MAX_MESSAGES_PER_CHANNEL /\ f.life = r =>
             \A n \in 1..f.len : n > f.len - Limit => \E k \in DOMAIN f.body : f.body[k].seq = n
      BY <1>0, <1>1, <1>2 DEF FetchOK
    <2>2. Limit <= MAX_MESSAGES_PER_CHANNEL /\ f.life = r =>
             \A n \in 1..f.len : n > f.len - Limit => Had(w, n)
      BY <1>5, <2>1
    <2>3. restarts' = r
      BY <1>1, <1>2
    <2> QED BY <1>2, <1>8, <2>2, <2>3 DEF FetchOK
  <1>10. fetch' = [fetch EXCEPT ![s] = g]
    <2>1. f = [state |-> f.state, len |-> f.len, life |-> f.life, refs |-> f.refs, body |-> f.body]
      BY <1>4 DEF Replies
    <2>2. s \in DOMAIN fetch
      BY <1>0 DEF FetchInv
    <2> QED BY <1>1, <1>2, <1>7, <2>1, <2>2
  <1>11. FetchInv'
    BY <1>0, <1>6, <1>9, <1>10, FetchGoesOn
  <1> QED BY <1>6, <1>11 DEF MonitorInv

\* The user's clear: what is gone is noted.
LEMMA ClearedKeeps ==
    ASSUME MonitorInv, ClearMessages
    PROVE  MonitorInv'
  <1>1. PICK w, r : w = Cleared(page) /\ r = restarts
    OBVIOUS
  <1>2. page' = w /\ UNCHANGED <<vars, stream, taken, fetch, restarts>>
    BY <1>1 DEF ClearMessages
  <1>3. r \in Nat /\ page \in Pages(r) /\ Matched(page) /\ AllSo(page)
    BY <1>1 DEF MonitorInv, PageInv
  <1>4. w \in Pages(r) /\ Matched(w) /\ Later(page, w) /\ w.objs = page.objs
    BY <1>1, <1>3, ClearKeeps
  <1>5. AllSo(w)
    BY <1>3, <1>4 DEF AllSo
  <1> QED BY <1>1, <1>2, <1>4, <1>5, PageKeeps DEF MonitorInv

\* A server that is started again closes the streams; what a response brings
\* from the life before counts for no message of this one.
LEMMA RestartKeeps ==
    ASSUME MonitorInv, NEW k \in 0..Len(heap), NEW promoted, Restart(k, promoted)
    PROVE  MonitorInv'
  <1>0. StoreOK /\ PageInv /\ FetchInv /\ StreamInv /\ StoreOK'
    BY RestartStore DEF MonitorInv
  <1>1. PICK r \in Nat : r = restarts /\ page \in Pages(r) /\ Matched(page)
    BY <1>0 DEF PageInv
  <1>2. /\ restarts' = r + 1 /\ r + 1 \in Nat /\ r + 1 <= MaxRestarts
        /\ stream' = [s \in Streams |-> Closed] /\ taken' = [q \in Queues |-> 0]
        /\ fetch' = [s \in Streams |-> IF fetch[s].state \in {"sent", "recent"}
                                       THEN Failed ELSE fetch[s]]
    <2>1. restarts < MaxRestarts /\ restarts' = restarts + 1
      BY DEF Restart
    <2>2. r + 1 <= MaxRestarts
      BY <1>1, <2>1, PageAssumption
    <2> QED BY <1>1, <2>1, <2>2 DEF Restart
  <1>3. \A o \in Objs(r) : IsSo(o)'
    <2>1. \A o \in Objs(r) : o.life # r + 1
      BY <1>1 DEF Objs
    <2> QED BY <1>2, <2>1 DEF IsSo
  <1>4. PageInv'
    <2>1. PICK g, u, w : /\ g = {n \in page.gone : n <= k} /\ u = {n \in page.unknown : n <= k}
                         /\ w = [page EXCEPT !.gone = g, !.unknown = u]
      OBVIOUS
    <2>2. page' = w
      BY <2>1 DEF Restart
    <2>3. /\ w.objs = page.objs /\ w.messages = page.messages /\ w.bySeq = page.bySeq
          /\ w.channelMsgs = page.channelMsgs /\ w \in Pages(r)
      <3>1. g \in SUBSET Nat /\ u \in SUBSET Nat
        BY <1>1, <2>1, PageFields
      <3> QED BY <1>1, <2>1, <3>1 DEF Pages
    <2>4. Matched(w)
      BY <1>1, <2>3 DEF Matched
    <2>5. AllSo(w)'
      BY <1>1, <1>3, <2>3, PageFields DEF AllSo
    <2>6. w \in Pages(r + 1)
      BY <1>1, <2>3, LivesGrow
    <2> QED BY <1>2, <2>2, <2>4, <2>5, <2>6 DEF PageInv
  <1>5. ASSUME NEW s \in Streams, NEW f, f = fetch'[s]
        PROVE  FetchOK(f)'
    <2>2. f \in Replies(r) /\ f.state # "recent" /\ f.life # r + 1
      <3>1. fetch[s] \in Replies(r)
        BY <1>0, <1>1 DEF FetchInv, FetchOK
      <3>2. Failed \in Replies(r) /\ Failed.state = "failed"
        <4>1. << >> \in Seq(Nat) /\ << >> \in Seq(Objs(r)) /\ 0 \in 0..r
          BY <1>1
        <4>2. Failed = [state |-> "failed", len |-> 0, life |-> 0, refs |-> << >>, body |-> << >>]
          BY DEF Failed, NoReply
        <4> QED BY <4>1, <4>2 DEF Replies
      <3>3. f = Failed \/ (f = fetch[s] /\ fetch[s].state # "recent")
        BY <1>2, <1>5
      <3>4. f \in Replies(r) /\ f.state # "recent"
        BY <3>1, <3>2, <3>3
      <3>5. \A g \in Replies(r) : g.life # r + 1
        BY <1>1 DEF Replies
      <3> QED BY <3>4, <3>5
    <2>3. f \in Replies(r + 1) /\ f.body \in Seq(Objs(r))
      <3>1. Objs(r) \subseteq Objs(r + 1) /\ 0..r \subseteq 0..(r + 1)
        BY <1>1, LivesGrow
      <3>2. Seq(Objs(r)) \subseteq Seq(Objs(r + 1))
        BY <3>1
      <3> QED BY <2>2, <3>1, <3>2 DEF Replies
    <2>4. \A j \in DOMAIN f.body : IsSo(f.body[j])'
      BY <1>3, <2>3
    <2> QED BY <1>2, <2>2, <2>3, <2>4 DEF FetchOK
  <1>6. FetchInv'
    BY <1>2, <1>5 DEF FetchInv
  <1>7. StreamInv'
    BY <1>2 DEF StreamInv
  <1> QED BY <1>0, <1>4, <1>6, <1>7 DEF MonitorInv

LEMMA MonitorInit == InitPage => MonitorInv
  <1> SUFFICES ASSUME InitPage PROVE MonitorInv
    OBVIOUS
  <1>1. Init /\ page = NewPage /\ restarts = 0
    BY DEF InitPage
  <1>2. StoreOK
    <2>1. StoreInv /\ TellInv
      BY <1>1, StoreInvInit, TellInit
    <2>2. Coverage
      BY <1>1 DEF Init, Coverage
    <2>3. DequesKeepNewest
      BY <1>1, <2>1, CapacityAssumption DEF StoreInv, TypeInv, Init, DequesKeepNewest, Refs
    <2> QED BY <2>1, <2>2, <2>3 DEF StoreOK
  <1>3. PageInv
    BY <1>1, NewPageKeeps, PageAssumption DEF PageInv, AllSo
  <1>4. FetchOK(NoReply)
    <2>1. << >> \in Seq(Nat) /\ << >> \in Seq(Objs(0)) /\ 0 \in 0..0
      OBVIOUS
    <2>2. NoReply \in Replies(0)
      BY <2>1 DEF NoReply, Replies
    <2> QED BY <1>1, <2>2 DEF FetchOK, NoReply
  <1>5. FetchInv
    BY <1>4 DEF InitPage, FetchInv
  <1>6. StreamInv
    BY DEF InitPage, StreamInv
  <1> QED BY <1>2, <1>3, <1>5, <1>6 DEF MonitorInv

LEMMA MonitorStep == MonitorInv /\ [NextPage]_allVars => MonitorInv'
  <1> SUFFICES ASSUME MonitorInv, [NextPage]_allVars PROVE MonitorInv'
    OBVIOUS
  <1>1. CASE UNCHANGED allVars
    <2>1. UNCHANGED <<heap, inbox, since, sseQueues, stream, taken, fetch, page, restarts>> /\ UNCHANGED vars
      BY <1>1 DEF allVars, pageVars, vars, memVars, sseVars
    <2>2. PICK w, r : w = page /\ r = restarts
      OBVIOUS
    <2>3. page' = w /\ w \in Pages(r) /\ Matched(w) /\ AllSo(w) /\ Later(page, w)
      BY <2>1, <2>2, LaterReflexive DEF MonitorInv, PageInv
    <2> QED BY <2>1, <2>2, <2>3, PageKeeps DEF MonitorInv
  <1>2. CASE StoreStep \/ \E q \in Queues : HandlerEnds(q)
    BY <1>2, StoreKeeps
  <1>3. CASE \E s \in Streams, q \in Queues : Register(s, q)
    BY <1>3, StreamKeeps
  <1>4. CASE \E s \in Streams : Break(s)
    <2>1. PICK s \in Streams : Break(s)
      BY <1>4
    <2>2. stream[s] \in Queues
      BY <2>1 DEF Break, MonitorInv, StreamInv
    <2> QED BY <2>1, <2>2, StreamKeeps
  <1>5. CASE \E s \in Streams : OnMessage(s)
    BY <1>5, MessageKeeps
  <1>6. CASE \E s \in Streams : FetchRecent(s) \/ FetchDump(s) \/ FetchFails(s)
    BY <1>6, RequestKeeps
  <1>7. CASE \E s \in Streams : FetchArrives(s)
    BY <1>7, ResponseKeeps
  <1>8. CASE ClearMessages
    BY <1>8, ClearedKeeps
  <1>9. CASE \E k \in 0..Len(heap) :
                \E promoted \in SUBSET {i \in 1..k : heap[i].scope = "global"} : Restart(k, promoted)
    BY <1>9, RestartKeeps
  <1> QED BY <1>1, <1>2, <1>3, <1>4, <1>5, <1>6, <1>7, <1>8, <1>9 DEF NextPage

-----------------------------------------------------------------------------
(* What the invariant says of the page *)

\* Nothing on its way, every stream has brought what its queue was told.
LEMMA InvSeesAll == MonitorInv => SeesAllSinceOpen
  <1> SUFFICES ASSUME MonitorInv, Settled, NEW s \in Streams, NEW i \in Refs,
                      i >= since[stream[s]]
               PROVE  OnPage(heap[i].seq) \/ heap[i].seq \in page.gone
    BY DEF SeesAllSinceOpen
  <1>1. PICK q : q = stream[s]
    OBVIOUS
  <1>2. /\ q \in sseQueues /\ taken[q] = Len(inbox[q])
        /\ \A k \in 1..taken[q] : Followed(page, inbox[q][k])
    BY <1>1 DEF Settled, Handled, MonitorInv, StreamInv
  <1>3. CoveredBy(q, i) /\ heap[i].seq = i /\ inbox[q] \in Seq(Events)
    BY <1>1, <1>2 DEF MonitorInv, StoreOK, StoreInv, TypeInv, TypeOK, SeqExact, Coverage
  <1>4. Told(q, "new", i)
    BY <1>3 DEF Settled, Quiet, CoveredBy, WillTell, Telling
  <1>5. PICK k \in DOMAIN inbox[q] : inbox[q][k].type = "new" /\ inbox[q][k].seq = i
    BY <1>4 DEF Told
  <1>6. k \in 1..taken[q]
    BY <1>2, <1>3
  <1>7. Had(page, i)
    BY <1>2, <1>5, <1>6 DEF Followed
  <1> QED BY <1>3, <1>7 DEF Had, OnPage

LEMMA InvOverlap ==
    ASSUME Limit <= MAX_MESSAGES_PER_CHANNEL
    PROVE  MonitorInv => CompleteAfterOverlap
  <1> SUFFICES ASSUME MonitorInv, Settled, NEW s \in Streams, NEW i \in Refs,
                      fetch[s].state = "done", fetch[s].life = restarts,
                      since[stream[s]] <= fetch[s].len + 1, i > fetch[s].len - Limit
               PROVE  OnPage(heap[i].seq) \/ heap[i].seq \in page.gone
    BY DEF CompleteAfterOverlap
  <1>1. FetchOK(fetch[s]) /\ heap[i].seq = i
    BY DEF MonitorInv, FetchInv, StoreOK, StoreInv, SeqExact
  <1>2. PICK n \in Nat : n = fetch[s].len
    BY <1>1 DEF FetchOK, Replies
  <1>3. i \in Nat /\ i >= 1 /\ since[stream[s]] \in Nat
    <2>1. stream[s] \in Queues
      BY DEF Settled, Handled, MonitorInv, StreamInv
    <2> QED BY <2>1 DEF Refs, MonitorInv, StoreOK, StoreInv, TypeInv, TypeOK
  <1>4. CASE i <= n
    <2>1. Had(page, i)
      BY <1>1, <1>2, <1>3, <1>4 DEF FetchOK
    <2> QED BY <1>1, <2>1 DEF Had, OnPage
  <1>5. CASE i > n
    <2>1. i >= since[stream[s]]
      BY <1>2, <1>3, <1>5
    <2> QED BY <2>1, InvSeesAll DEF SeesAllSinceOpen
  <1> QED BY <1>2, <1>3, <1>4, <1>5

LEMMA InvIndex == MonitorInv => PageIndex
  <1> SUFFICES ASSUME MonitorInv PROVE PageIndex
    OBVIOUS
  <1>1. PICK r \in Nat : r = restarts /\ page \in Pages(r) /\ Matched(page)
    BY DEF MonitorInv, PageInv
  <1>2. Objs(r) = [seq : Nat, channel_id : Channels, text : Texts, scope : Scopes,
                   life : 0..restarts]
    BY <1>1 DEF Objs
  <1>3. /\ page.objs \in Seq(Objs(r)) /\ DOMAIN page.objs = 1..Len(page.objs)
        /\ page.messages \in Seq(Nat) /\ page.channelMsgs \in [Channels -> Seq(Nat)]
    BY <1>1, PageFields
  <1>4. ASSUME NEW list \in Seq(Nat), NEW m, ListOK(list, m)
        PROVE  list \in Seq(1..m) /\ Len(list) <= maxBuffer
    <2>1. PICK n \in Nat : n = Len(list) /\ DOMAIN list = 1..n /\ list = [k \in 1..n |-> list[k]]
      OBVIOUS
    <2>2. \A k \in 1..n : list[k] \in 1..m
      BY <1>4, <2>1 DEF ListOK
    <2>3. list \in [1..n -> 1..m]
      BY <2>1, <2>2
    <2>4. list \in Seq(1..m)
      BY <2>1, <2>3
    <2> QED BY <1>4, <2>4 DEF ListOK
  <1>5. /\ page.messages \in Seq(DOMAIN page.objs) /\ Len(page.messages) <= maxBuffer
        /\ \A c \in Channels : /\ page.channelMsgs[c] \in Seq(DOMAIN page.objs)
                               /\ Len(page.channelMsgs[c]) <= maxBuffer
    BY <1>1, <1>3, <1>4 DEF Matched
  <1>6. \A s \in Streams : fetch[s].body \in Seq(Objs(r))
    BY <1>1 DEF MonitorInv, FetchInv, FetchOK, Replies
  <1>7. PageTypeOK
    BY <1>2, <1>3, <1>5, <1>6 DEF PageTypeOK, MonitorInv, StreamInv
  <1> QED BY <1>1, <1>7 DEF PageIndex, SeqsOf, Matched

LEMMA InvRecent ==
    ASSUME Limit <= MAX_MESSAGES_PER_CHANNEL
    PROVE  MonitorInv => RecentIsNewest
  BY DEF MonitorInv, FetchInv, FetchOK, RecentIsNewest, Newest

LEMMA InvFollows == MonitorInv => ScopeFollows
  <1> SUFFICES ASSUME MonitorInv PROVE ScopeFollows
    OBVIOUS
  <1>1. NeverAhead
    <2> SUFFICES ASSUME NEW k \in DOMAIN page.objs, page.objs[k].scope = "global",
                        page.objs[k].life = restarts
                 PROVE  \E i \in Refs : Object(i, "global") = page.objs[k] /\ heap[i].scope = "global"
      BY DEF NeverAhead
    <2>1. PICK o, r : o = page.objs[k] /\ r = restarts
      OBVIOUS
    <2>2. o \in Objs(r) /\ IsSo(o)
      BY <2>1, PageFields DEF MonitorInv, PageInv, AllSo
    <2>3. o = [seq |-> o.seq, channel_id |-> o.channel_id, text |-> o.text,
               scope |-> o.scope, life |-> o.life]
      BY <2>2 DEF Objs
    <2>4. /\ o.seq \in Refs /\ heap[o.seq].channel_id = o.channel_id /\ heap[o.seq].text = o.text
          /\ heap[o.seq].scope = "global"
      BY <2>1, <2>2 DEF IsSo
    <2>5. heap[o.seq].seq = o.seq
      BY <2>4 DEF MonitorInv, StoreOK, StoreInv, SeqExact
    <2>6. Object(o.seq, "global") = o
      BY <2>1, <2>3, <2>4, <2>5 DEF Object
    <2> QED BY <2>1, <2>4, <2>6
  <1>2. ASSUME NEW s \in Streams, stream[s] # Closed, NEW k \in 1..taken[stream[s]],
               inbox[stream[s]][k].type = "update", OnPage(inbox[stream[s]][k].seq),
               inbox[stream[s]][k].seq \notin page.unknown \cup page.gone
        PROVE  page.objs[page.bySeq[inbox[stream[s]][k].seq]].scope = "global"
    <2>1. Followed(page, inbox[stream[s]][k])
      BY <1>2 DEF MonitorInv, StreamInv
    <2> QED BY <1>2, <2>1 DEF Followed
  <1> QED BY <1>1, <1>2 DEF ScopeFollows

\* Until the server is started again, every object is of its only life.
LEMMA InvShows ==
    ASSUME MaxRestarts = 0
    PROVE  MonitorInv => ShowsWhatIsStored
  <1> SUFFICES ASSUME MonitorInv, NEW i \in Refs, OnPage(heap[i].seq) PROVE IsShown(i)
    BY DEF ShowsWhatIsStored
  <1>1. restarts \in Nat /\ restarts = 0 /\ page \in Pages(restarts) /\ Matched(page) /\ AllSo(page)
    BY DEF MonitorInv, PageInv
  <1>2. PICK n, o : n = heap[i].seq /\ o = page.objs[page.bySeq[n]]
    OBVIOUS
  <1>3. n = i /\ n \in DOMAIN page.bySeq
    BY <1>2 DEF OnPage, MonitorInv, StoreOK, StoreInv, SeqExact
  <1>4. page.bySeq[n] \in DOMAIN page.objs /\ o.seq = n /\ o \in Objs(restarts)
    BY <1>1, <1>2, <1>3, IndexNames, PageFields
  <1>5. IsSo(o) /\ o.life = restarts
    <2>1. o.life \in 0..0
      BY <1>1, <1>4 DEF Objs
    <2> QED BY <1>1, <1>2, <1>4, <2>1 DEF AllSo
  <1> QED BY <1>2, <1>3, <1>4, <1>5 DEF IsShown, IsSo

-----------------------------------------------------------------------------
(* The theorems *)

\* Two streams, requests, a user's clear and new starts of the server, in any
\* order, leave the page, the requests and the streams as the invariant says
\* (webserver.py:102-120, js:1045-1079, 1204-1220, 1307-1314, 1596-1600).
THEOREM PageInvCorrect == SpecPage => []MonitorInv
  BY MonitorInit, MonitorStep, PTL DEF SpecPage

\* The index and the message list hold the same objects (js:1206-1214,
\* 1307-1310).
THEOREM IndexCorrect == SpecPage => []PageIndex
  BY PageInvCorrect, InvIndex, PTL

\* No message is shown global before the store has it so, and an update that a
\* stream has brought is visible (js:1063-1070, 1596-1598).
THEOREM ScopeCorrect == SpecPage => []ScopeFollows
  BY PageInvCorrect, InvFollows, PTL

\* get_recent(limit) returns the newest messages of all channels, whatever each
\* deque has dropped, if no more are asked for than a deque keeps: 100 of 200
\* (store.py:181-196, webserver.py:54, config.py:47).
THEOREM RecentNewest ==
    ASSUME Limit <= MAX_MESSAGES_PER_CHANNEL
    PROVE  SpecPage => []RecentIsNewest
  BY PageInvCorrect, InvRecent, PTL

\* It takes a new start of the server for the page to show another message than
\* the store has under a number (store.py:43, js:1206).
THEOREM ShowsUntilRestart ==
    ASSUME MaxRestarts = 0
    PROVE  SpecPage => []ShowsWhatIsStored
  BY PageInvCorrect, InvShows, PTL

\* In the test mode no stream is ever opened.
ModeInv ==
    /\ mode \in {"server", "test"}
    /\ mode = "server" => MonitorInv
    /\ mode = "test" => \A s \in Streams : stream[s] = Closed

LEMMA ModeInvCorrect == SpecMonitor => []ModeInv
  <1>1. InitMonitor => ModeInv
    BY MonitorInit DEF InitMonitor, InitPage, ModeInv
  <1>2. ModeInv /\ [NextMonitor]_monitorVars => ModeInv'
    <2> SUFFICES ASSUME ModeInv, [NextMonitor]_monitorVars PROVE ModeInv'
      OBVIOUS
    <2>1. mode' = mode
      BY DEF NextMonitor, monitorVars
    <2>2. CASE mode = "server"
      <3>1. [NextPage]_allVars
        BY <2>2 DEF NextMonitor, monitorVars
      <3> QED BY <2>1, <2>2, <3>1, MonitorStep DEF ModeInv
    <2>3. CASE mode = "test"
      <3>1. UNCHANGED stream
        BY <2>3 DEF NextMonitor, monitorVars, allVars, pageVars
      <3> QED BY <2>1, <2>3, <3>1 DEF ModeInv
    <2> QED BY <2>2, <2>3 DEF ModeInv
  <1> QED BY <1>1, <1>2, PTL DEF SpecMonitor

\* When nothing is on its way the page has every message stored since one of its
\* open streams was registered, unless it was dropped (webserver.py:112-118,
\* js:1058-1071).
THEOREM SeesAllCorrect == SpecMonitor => []SeesAllSinceOpen
  <1>1. ModeInv => SeesAllSinceOpen
    <2>1. (\A s \in Streams : stream[s] = Closed) => SeesAllSinceOpen
      BY DEF SeesAllSinceOpen, Settled, Handled
    <2> QED BY <2>1, InvSeesAll DEF ModeInv
  <1> QED BY <1>1, ModeInvCorrect, PTL

\* A response and a stream that was registered before it was collected overlap:
\* no message from the newest of the response on is missing (js:1045-1079).
THEOREM OverlapCorrect ==
    ASSUME Limit <= MAX_MESSAGES_PER_CHANNEL
    PROVE  SpecMonitor => []CompleteAfterOverlap
  <1>1. ModeInv => CompleteAfterOverlap
    <2>1. (\A s \in Streams : stream[s] = Closed) => CompleteAfterOverlap
      BY DEF CompleteAfterOverlap, Settled, Handled
    <2> QED BY <2>1, InvOverlap DEF ModeInv
  <1> QED BY <1>1, ModeInvCorrect, PTL
=============================================================================
