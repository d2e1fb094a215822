------------------------- MODULE MessageStore_proofs -------------------------
(***************************************************************************)
(* Theorems of MessageStore and StoreFeed, for any number of threads,      *)
(* channels, texts, ids and queues, any windows and capacity, and any      *)
(* bounds: what the store holds, what its subscribers are told, and that   *)
(* it implements MegaphoneFeed.                                            *)
(***************************************************************************)
EXTENDS StoreFeed, SequenceTheorems, TLAPS

\* What the locals of a thread inside add() may hold, and that a dedup record
\* points to a stored message: TypeOK needs both to be inductive.
LocalsOK ==
    /\ \A t \in Threads : pc[t] # "idle" => call[t] \in Call /\ call[t].now <= clock
    /\ \A t \in Threads : pc[t] \in {"dump", "snapshot", "put", "save"} =>
          note[t] \in Note /\ note[t].ref \in Refs
    /\ \A t \in Threads : pc[t] \in {"snapshot", "put"} => note[t].scope \in Scopes
    /\ \A x \in DOMAIN dedup : dedup[x].msg \in Refs

-----------------------------------------------------------------------------
(* The helpers. *)

LEMMA EntryDict ==
    ASSUME NEW K, NEW V, NEW f, NEW k \in K, NEW v \in V, IsDict(f, K, V)
    PROVE  IsDict(Entry(f, k, v), K, V)
  BY DEF Entry, IsDict

\* Noting a call keeps the type of a history.
LEMMA NotedDict ==
    ASSUME NEW K, NEW h, IsDict(h, K, Sighting), NEW k \in K, NEW t \in Threads,
           Now(t) \in Nat, clock \in Nat, Now(t) <= clock
    PROVE  IsDict(Noted(h, k, t), K, Sighting)
  <1> DEFINE latest == IF k \in DOMAIN h /\ h[k].at > Now(t) THEN h[k].at ELSE Now(t)
             v == [at |-> latest, late |-> clock - Now(t)]
  <1>1. k \in DOMAIN h => h[k].at \in Nat
    BY DEF IsDict, Sighting
  <1>2. latest \in Nat /\ clock - Now(t) \in Nat
    BY <1>1
  <1> HIDE DEF latest
  <1>3. v \in Sighting
    BY <1>2 DEF Sighting
  <1>4. Noted(h, k, t) = Entry(h, k, v)
    BY DEF Noted, latest
  <1> HIDE DEF v
  <1> QED BY <1>3, <1>4, EntryDict

\* Every noted reading is the caller's, or was there before.
LEMMA NotedFrom ==
    ASSUME NEW K, NEW h, IsDict(h, K, Sighting), NEW k \in K, NEW t \in Threads,
           Now(t) \in Nat, clock \in Nat, Now(t) <= clock
    PROVE  \A x \in DOMAIN Noted(h, k, t) :
              \/ Noted(h, k, t)[x].at = Now(t)
              \/ x \in DOMAIN h /\ Noted(h, k, t)[x].at = h[x].at
  <1>1. \A x \in DOMAIN Noted(h, k, t) :
            Noted(h, k, t)[x] = IF x = k
                THEN [at |-> IF k \in DOMAIN h /\ h[k].at > Now(t) THEN h[k].at ELSE Now(t),
                      late |-> clock - Now(t)]
                ELSE h[x]
    BY DEF Noted, Entry
  <1>2. DOMAIN Noted(h, k, t) = DOMAIN h \cup {k}
    BY DEF Noted, Entry
  <1> HIDE DEF Noted
  <1> QED BY <1>1, <1>2

LEMMA LiveRecsDict ==
    ASSUME IsDict(dedup, Texts, Rec), NEW n \in Nat
    PROVE  /\ IsDict(LiveRecs(n), Texts, Rec)
           /\ DOMAIN LiveRecs(n) = {x \in DOMAIN dedup : dedup[x].expire > n}
           /\ \A x \in DOMAIN LiveRecs(n) : LiveRecs(n)[x] = dedup[x]
  BY DEF LiveRecs, IsDict

LEMMA LiveIdsDict ==
    ASSUME IsDict(seenIds, Ids, Nat), NEW n \in Nat
    PROVE  /\ IsDict(LiveIds(n), Ids, Nat)
           /\ DOMAIN LiveIds(n) = {i \in DOMAIN seenIds : seenIds[i] > n}
           /\ \A i \in DOMAIN LiveIds(n) : LiveIds(n)[i] = seenIds[i]
  BY DEF LiveIds, IsDict

LEMMA PushedSeq ==
    ASSUME NEW S, NEW d \in Seq(S), NEW r \in S
    PROVE  Pushed(d, r) \in Seq(S)
  <1>1. CASE Len(d) < MAX_MESSAGES_PER_CHANNEL
    BY <1>1 DEF Pushed
  <1>2. CASE ~(Len(d) < MAX_MESSAGES_PER_CHANNEL)
    <2>1. d # << >>
      BY <1>2, CapacityAssumption
    <2>2. Tail(d) \in Seq(S)
      BY <2>1
    <2> QED BY <1>2, <2>2 DEF Pushed
  <1> QED BY <1>1, <1>2

TypeInv == TypeOK /\ LocalsOK

LEMMA RefMsg ==
    ASSUME heap \in Seq(Msg), NEW r \in Refs
    PROVE  /\ heap[r] \in Msg
           /\ heap[r].seq \in Nat /\ heap[r].time \in Nat /\ heap[r].scope \in Scopes
           /\ r \in Nat
  <1>1. heap[r] \in Msg
    BY DEF Refs
  <1> QED BY <1>1 DEF Msg, Refs

\* What pruning and refreshing make of the two tables keeps their types.
LEMMA TablesDict ==
    ASSUME TypeInv, NEW t \in Threads, pc[t] = "lock"
    PROVE  /\ Now(t) \in Nat /\ Now(t) <= clock /\ clock \in Nat
           /\ IdKey(t) \in Ids /\ TextKey(t) \in Texts /\ call[t].channel_id \in Channels
           /\ IsDict(LiveRecs(Now(t)), Texts, Rec)
           /\ IsDict(Entry(LiveIds(Now(t)), IdKey(t), Now(t) + MSG_ID_TTL), Ids, Nat)
           /\ IsDict(Noted(lastSighting, IdKey(t), t), Ids, Sighting)
           /\ IsDict(Noted(lastHeard, TextKey(t), t), Texts, Sighting)
  <1>1. call[t] \in Call /\ call[t].now <= clock /\ clock \in Nat
    BY DEF TypeInv, LocalsOK, TypeOK
  <1>2. /\ Now(t) \in Nat /\ Now(t) <= clock /\ IdKey(t) \in Ids
        /\ TextKey(t) \in Texts /\ call[t].channel_id \in Channels
    BY <1>1 DEF Call, Now, IdKey, TextKey, Ids
  <1>3. /\ IsDict(dedup, Texts, Rec) /\ IsDict(seenIds, Ids, Nat)
        /\ IsDict(lastSighting, Ids, Sighting) /\ IsDict(lastHeard, Texts, Sighting)
    BY DEF TypeInv, TypeOK
  <1>4. IsDict(LiveRecs(Now(t)), Texts, Rec) /\ IsDict(LiveIds(Now(t)), Ids, Nat)
    BY <1>2, <1>3, LiveRecsDict, LiveIdsDict
  <1>5. Now(t) + MSG_ID_TTL \in Nat
    BY <1>2, WindowsAssumption
  <1>6. IsDict(Entry(LiveIds(Now(t)), IdKey(t), Now(t) + MSG_ID_TTL), Ids, Nat)
    BY <1>2, <1>4, <1>5, EntryDict
  <1>7. /\ IsDict(Noted(lastSighting, IdKey(t), t), Ids, Sighting)
        /\ IsDict(Noted(lastHeard, TextKey(t), t), Texts, Sighting)
    BY <1>1, <1>2, <1>3, NotedDict
  <1> QED BY <1>1, <1>2, <1>4, <1>6, <1>7

\* The record of a text heard elsewhere, and what it becomes.
LEMMA WidenedDict ==
    ASSUME TypeInv, NEW t \in Threads, pc[t] = "lock", HeardElsewhere(t)
    PROVE  /\ TextKey(t) \in DOMAIN dedup /\ dedup[TextKey(t)] \in Rec
           /\ dedup[TextKey(t)].expire > Now(t)
           /\ IsDict(Widened(t), Texts, Rec)
           /\ DOMAIN Widened(t) = DOMAIN LiveRecs(Now(t))
           /\ Widened(t)[TextKey(t)] =
                [msg |-> dedup[TextKey(t)].msg,
                 channels |-> dedup[TextKey(t)].channels \cup {call[t].channel_id},
                 expire |-> Now(t) + GLOBAL_DEDUP_WINDOW,
                 is_global |-> TRUE]
           /\ \A x \in DOMAIN Widened(t) :
                x \in DOMAIN dedup /\ (x # TextKey(t) => Widened(t)[x] = dedup[x])
  <1> DEFINE rec == dedup[TextKey(t)]
             wide == [msg |-> rec.msg, channels |-> rec.channels \cup {call[t].channel_id},
                      expire |-> Now(t) + GLOBAL_DEDUP_WINDOW, is_global |-> TRUE]
  <1>1. Now(t) \in Nat /\ TextKey(t) \in Texts /\ call[t].channel_id \in Channels
    BY TablesDict
  <1>2. IsDict(dedup, Texts, Rec)
    BY DEF TypeInv, TypeOK
  <1>3. /\ IsDict(LiveRecs(Now(t)), Texts, Rec)
        /\ DOMAIN LiveRecs(Now(t)) = {x \in DOMAIN dedup : dedup[x].expire > Now(t)}
        /\ \A x \in DOMAIN LiveRecs(Now(t)) : LiveRecs(Now(t))[x] = dedup[x]
    BY <1>1, <1>2, LiveRecsDict
  <1>4. TextKey(t) \in DOMAIN LiveRecs(Now(t))
    BY DEF HeardElsewhere
  <1>5. TextKey(t) \in DOMAIN dedup /\ rec \in Rec /\ rec.expire > Now(t)
    BY <1>2, <1>3, <1>4 DEF IsDict
  <1>6. Now(t) + GLOBAL_DEDUP_WINDOW \in Nat
    BY <1>1, WindowsAssumption
  <1>7. wide \in Rec
    BY <1>1, <1>5, <1>6 DEF Rec
  <1>8. Widened(t) = Entry(LiveRecs(Now(t)), TextKey(t), wide)
    BY DEF Widened
  <1> HIDE DEF wide
  <1>9. /\ IsDict(Widened(t), Texts, Rec)
        /\ DOMAIN Widened(t) = DOMAIN LiveRecs(Now(t)) \cup {TextKey(t)}
        /\ Widened(t)[TextKey(t)] = wide
        /\ \A x \in DOMAIN LiveRecs(Now(t)) :
              x # TextKey(t) => Widened(t)[x] = LiveRecs(Now(t))[x]
    <2> DEFINE live == LiveRecs(Now(t))
               k == TextKey(t)
    <2>1. IsDict(live, Texts, Rec) /\ k \in Texts /\ wide \in Rec
      BY <1>1, <1>3, <1>7
    <2> HIDE DEF live, k
    <2>2. /\ IsDict(Entry(live, k, wide), Texts, Rec)
          /\ DOMAIN Entry(live, k, wide) = DOMAIN live \cup {k}
          /\ Entry(live, k, wide)[k] = wide
          /\ \A x \in DOMAIN live : x # k => Entry(live, k, wide)[x] = live[x]
      <3>1. IsDict(Entry(live, k, wide), Texts, Rec)
        BY <2>1, EntryDict
      <3> QED BY <3>1 DEF Entry
    <2> QED BY <1>8, <2>2 DEF live, k
  <1> QED BY <1>3, <1>4, <1>5, <1>9 DEF wide

\* What AddNew stores.
NewMsg(t) == [seq |-> seq + 1, channel_id |-> call[t].channel_id, text |-> TextKey(t),
              scope |-> "server", time |-> Now(t)]
NewRec(t) == [msg |-> Len(heap) + 1, channels |-> {call[t].channel_id},
              expire |-> Now(t) + GLOBAL_DEDUP_WINDOW, is_global |-> FALSE]

LEMMA AddNewEffect ==
    ASSUME TypeInv, NEW t \in Threads, AddNew(t)
    PROVE  /\ heap' = Append(heap, NewMsg(t)) /\ heap' \in Seq(Msg)
           /\ Len(heap) \in Nat /\ Len(heap') = Len(heap) + 1
           /\ Refs' = Refs \cup {Len(heap) + 1}
           /\ heap'[Len(heap) + 1] = NewMsg(t)
           /\ \A i \in Refs : heap'[i] = heap[i] /\ i # Len(heap) + 1 /\ i < Len(heap) + 1
           /\ IsDict(dedup', Texts, Rec)
           /\ TextKey(t) \in DOMAIN dedup' /\ dedup'[TextKey(t)] = NewRec(t)
           /\ DOMAIN dedup' = DOMAIN LiveRecs(Now(t)) \cup {TextKey(t)}
           /\ \A x \in DOMAIN dedup' :
                \/ x = TextKey(t) /\ dedup'[x] = NewRec(t)
                \/ x \in DOMAIN dedup /\ dedup'[x] = dedup[x]
  <1> USE DEF TypeInv
  <1> DEFINE rec == NewRec(t)
             live == LiveRecs(Now(t))
             k == TextKey(t)
  <1>1. pc[t] = "lock"
    BY DEF AddNew, PassFirst
  <1>2. /\ Now(t) \in Nat /\ TextKey(t) \in Texts /\ call[t].channel_id \in Channels
        /\ seq \in Nat /\ Len(heap) \in Nat
    BY <1>1, TablesDict DEF TypeOK
  <1>3. NewMsg(t) \in Msg /\ NewRec(t) \in Rec
    BY <1>2, WindowsAssumption DEF Msg, Scopes, Rec, NewMsg, NewRec
  <1>4. heap' = Append(heap, NewMsg(t)) /\ dedup' = Entry(live, k, rec)
    BY DEF AddNew, NewMsg, NewRec
  <1>5. /\ heap' \in Seq(Msg) /\ Len(heap') = Len(heap) + 1
        /\ heap'[Len(heap) + 1] = NewMsg(t)
        /\ \A i \in Refs : heap'[i] = heap[i] /\ i # Len(heap) + 1 /\ i < Len(heap) + 1
        /\ Refs' = Refs \cup {Len(heap) + 1}
    BY <1>2, <1>3, <1>4 DEF TypeOK, Refs
  <1>6. /\ IsDict(live, Texts, Rec)
        /\ DOMAIN live \subseteq DOMAIN dedup
        /\ \A x \in DOMAIN live : live[x] = dedup[x]
    BY <1>2, LiveRecsDict DEF TypeOK
  <1>7. k \in Texts /\ rec \in Rec
    BY <1>2, <1>3
  <1> HIDE DEF rec, live, k
  <1>8. IsDict(Entry(live, k, rec), Texts, Rec)
    BY <1>6, <1>7, EntryDict
  <1>9. /\ DOMAIN dedup' = DOMAIN live \cup {k} /\ dedup'[k] = rec
        /\ \A x \in DOMAIN live : x # k => dedup'[x] = live[x]
    BY <1>4 DEF Entry
  <1>10. ASSUME NEW x \in DOMAIN dedup', x # k
         PROVE  x \in DOMAIN dedup /\ dedup'[x] = dedup[x]
    <2>1. x \in DOMAIN live
      BY <1>9, <1>10
    <2>2. dedup'[x] = live[x] /\ live[x] = dedup[x] /\ x \in DOMAIN dedup
      BY <1>6, <1>9, <1>10, <2>1
    <2> QED BY <2>2
  <1>11. IsDict(dedup', Texts, Rec)
    BY <1>4, <1>8
  <1>12. \A x \in DOMAIN dedup' :
            \/ x = k /\ dedup'[x] = rec
            \/ x \in DOMAIN dedup /\ dedup'[x] = dedup[x]
    BY <1>9, <1>10
  <1> QED BY <1>2, <1>4, <1>5, <1>9, <1>11, <1>12 DEF rec, live, k

\* What AddPromote changes.
LEMMA AddPromoteEffect ==
    ASSUME TypeInv, NEW t \in Threads, AddPromote(t)
    PROVE  LET r == dedup[TextKey(t)].msg IN
           /\ r \in Refs /\ heap' \in Seq(Msg) /\ Len(heap') = Len(heap) /\ Refs' = Refs
           /\ heap'[r] = [heap[r] EXCEPT !.scope = "global"]
           /\ \A i \in Refs : i # r => heap'[i] = heap[i]
  <1> USE DEF TypeInv
  <1> DEFINE r == dedup[TextKey(t)].msg
  <1>1. pc[t] = "lock" /\ HeardElsewhere(t)
    BY DEF AddPromote, PassFirst
  <1>2. r \in Refs
    BY <1>1, WidenedDict DEF LocalsOK
  <1>3. heap[r] \in Msg
    BY <1>2, RefMsg DEF TypeOK
  <1>4. [heap[r] EXCEPT !.scope = "global"] \in Msg
    BY <1>3 DEF Msg, Scopes
  <1>5. heap' = [heap EXCEPT ![r] = [heap[r] EXCEPT !.scope = "global"]]
    BY <1>2 DEF AddPromote, TypeOK, Refs
  <1> HIDE DEF r
  <1>6. heap' \in Seq(Msg) /\ Len(heap') = Len(heap)
    BY <1>2, <1>4, <1>5 DEF TypeOK, Refs
  <1>7. /\ heap'[r] = [heap[r] EXCEPT !.scope = "global"]
        /\ \A i \in Refs : i # r => heap'[i] = heap[i]
    <2>1. Refs = DOMAIN heap
      BY DEF TypeOK, Refs
    <2> QED BY <1>2, <1>5, <2>1
  <1> QED BY <1>2, <1>6, <1>7 DEF r, Refs

-----------------------------------------------------------------------------
(* Type correctness *)

LEMMA TypeInit == Init => TypeInv
  <1> SUFFICES ASSUME Init PROVE TypeInv
    OBVIOUS
  <1>1. TypeOK
    BY DEF Init, TypeOK, IsDict, PCs
  <1>2. LocalsOK
    BY DEF Init, LocalsOK
  <1> QED BY <1>1, <1>2 DEF TypeInv

LEMMA TypeStep == TypeInv /\ [Next]_vars => TypeInv'
  <1> SUFFICES ASSUME TypeInv, [Next]_vars PROVE TypeInv'
    OBVIOUS
  <1> USE DEF TypeInv, Goto, Return, memVars, sseVars, callVars, history
  <1>1. CASE Tick
    <2>1. TypeOK'
      BY <1>1 DEF Tick, TypeOK
    <2>2. LocalsOK'
      BY <1>1 DEF Tick, TypeOK, LocalsOK, Refs, Call
    <2> QED BY <2>1, <2>2
  <1>2. ASSUME NEW t \in Threads, NEW c \in Channels, NEW id \in MsgIds,
               NEW x \in Texts, CallAdd(t, c, id, x)
        PROVE  TypeInv'
    <2>1. TypeOK'
      BY <1>2 DEF CallAdd, TypeOK, Call, PCs
    <2>2. LocalsOK'
      BY <1>2 DEF CallAdd, TypeOK, LocalsOK, Refs, Call
    <2> QED BY <2>1, <2>2
  <1>3. ASSUME NEW t \in Threads, AddRetransmit(t)
        PROVE  TypeInv'
    <2>1. /\ IsDict(dedup', Texts, Rec) /\ IsDict(seenIds', Ids, Nat)
          /\ IsDict(lastSighting', Ids, Sighting)
      BY <1>3, TablesDict DEF AddRetransmit
    <2>2. TypeOK'
      BY <1>3, <2>1 DEF AddRetransmit, TypeOK, PCs
    <2>3. \A x \in DOMAIN dedup' : x \in DOMAIN dedup /\ dedup'[x] = dedup[x]
      BY <1>3, TablesDict, LiveRecsDict DEF AddRetransmit, TypeOK
    <2>4. LocalsOK'
      BY <1>3, <2>3 DEF AddRetransmit, TypeOK, LocalsOK, Refs
    <2> QED BY <2>2, <2>4
  <1>4. ASSUME NEW t \in Threads, AddPromote(t)
        PROVE  TypeInv'
    <2> DEFINE r == dedup[TextKey(t)].msg
    <2>1. pc[t] = "lock" /\ HeardElsewhere(t)
      BY <1>4 DEF AddPromote, PassFirst
    <2>2. /\ IsDict(dedup', Texts, Rec) /\ IsDict(seenIds', Ids, Nat)
          /\ IsDict(lastSighting', Ids, Sighting) /\ IsDict(lastHeard', Texts, Sighting)
      BY <1>4, <2>1, TablesDict, WidenedDict DEF AddPromote, PassFirst
    <2>3. r \in Refs
      BY <1>4, AddPromoteEffect
    <2>4. heap' \in Seq(Msg) /\ Len(heap') = Len(heap)
      BY <1>4, AddPromoteEffect
    <2>5. note'[t] \in Note /\ note'[t].ref = r /\ note' = [note EXCEPT ![t] = note'[t]]
      BY <1>4, <2>3 DEF AddPromote, TypeOK, Note, Refs
    <2>6. TypeOK'
      BY <1>4, <2>2, <2>4, <2>5 DEF AddPromote, PassFirst, TypeOK, PCs
    <2>7. \A x \in DOMAIN dedup' : dedup'[x].msg \in Refs
      <3>1. dedup' = Widened(t)
        BY <1>4 DEF AddPromote
      <3>2. Widened(t)[TextKey(t)].msg = r
        <4>1. Widened(t)[TextKey(t)] =
                [msg |-> dedup[TextKey(t)].msg,
                 channels |-> dedup[TextKey(t)].channels \cup {call[t].channel_id},
                 expire |-> Now(t) + GLOBAL_DEDUP_WINDOW,
                 is_global |-> TRUE]
          BY <2>1, WidenedDict
        <4> QED BY <4>1
      <3>3. \A x \in DOMAIN Widened(t) : x # TextKey(t) => Widened(t)[x].msg \in Refs
        BY <2>1, WidenedDict DEF LocalsOK
      <3> QED BY <2>3, <3>1, <3>2, <3>3
    <2>8. LocalsOK'
      BY <1>4, <2>3, <2>4, <2>5, <2>7 DEF AddPromote, PassFirst, TypeOK, LocalsOK, Refs
    <2> QED BY <2>6, <2>8
  <1>5. ASSUME NEW t \in Threads, AddRepeat(t)
        PROVE  TypeInv'
    <2>1. pc[t] = "lock" /\ HeardElsewhere(t)
      BY <1>5 DEF AddRepeat, PassFirst
    <2>2. /\ IsDict(dedup', Texts, Rec) /\ IsDict(seenIds', Ids, Nat)
          /\ IsDict(lastSighting', Ids, Sighting) /\ IsDict(lastHeard', Texts, Sighting)
      BY <1>5, <2>1, TablesDict, WidenedDict DEF AddRepeat, PassFirst
    <2>3. TypeOK'
      BY <1>5, <2>2 DEF AddRepeat, PassFirst, TypeOK, PCs
    <2>4. \A x \in DOMAIN dedup' : dedup'[x].msg \in Refs
      <3>1. dedup' = Widened(t)
        BY <1>5 DEF AddRepeat
      <3>2. Widened(t)[TextKey(t)].msg = dedup[TextKey(t)].msg /\ TextKey(t) \in DOMAIN dedup
        <4>1. Widened(t)[TextKey(t)] =
                [msg |-> dedup[TextKey(t)].msg,
                 channels |-> dedup[TextKey(t)].channels \cup {call[t].channel_id},
                 expire |-> Now(t) + GLOBAL_DEDUP_WINDOW,
                 is_global |-> TRUE]
          BY <2>1, WidenedDict
        <4>2. TextKey(t) \in DOMAIN dedup
          BY <2>1, WidenedDict
        <4> QED BY <4>1, <4>2
      <3>3. \A x \in DOMAIN Widened(t) : x # TextKey(t) => Widened(t)[x].msg \in Refs
        BY <2>1, WidenedDict DEF LocalsOK
      <3> QED BY <3>1, <3>2, <3>3 DEF LocalsOK
    <2>5. LocalsOK'
      BY <1>5, <2>4 DEF AddRepeat, PassFirst, TypeOK, LocalsOK, Refs
    <2> QED BY <2>3, <2>5
  <1>6. ASSUME NEW t \in Threads, AddNew(t)
        PROVE  TypeInv'
    <2> DEFINE ref == Len(heap) + 1
    <2>1. pc[t] = "lock"
      BY <1>6 DEF AddNew, PassFirst
    <2>2. Now(t) \in Nat /\ TextKey(t) \in Texts /\ call[t].channel_id \in Channels /\ ref \in Nat
      BY <2>1, TablesDict DEF TypeOK
    <2>5. heap' \in Seq(Msg) /\ Refs' = Refs \cup {ref} /\ seq' \in Nat
      <3>1. seq' \in Nat
        BY <1>6 DEF AddNew, TypeOK
      <3> QED BY <1>6, <3>1, AddNewEffect
    <2>6. /\ IsDict(dedup', Texts, Rec)
          /\ \A x \in DOMAIN dedup' :
                \/ x = TextKey(t) /\ dedup'[x] = NewRec(t)
                \/ x \in DOMAIN dedup /\ dedup'[x] = dedup[x]
      BY <1>6, AddNewEffect
    <2>7. /\ IsDict(seenIds', Ids, Nat) /\ IsDict(lastSighting', Ids, Sighting)
          /\ IsDict(lastHeard', Texts, Sighting)
      BY <1>6, <2>1, TablesDict DEF AddNew, PassFirst
    <2>8. messages' \in [Channels -> Seq(Nat)]
      BY <1>6, <2>2, PushedSeq DEF AddNew, TypeOK
    <2>9. note'[t] \in Note /\ note'[t].ref = ref /\ note' = [note EXCEPT ![t] = note'[t]]
      BY <1>6, <2>2 DEF AddNew, TypeOK, Note
    <2>10. TypeOK'
      BY <1>6, <2>2, <2>5, <2>6, <2>7, <2>8, <2>9 DEF AddNew, PassFirst, TypeOK, PCs
    <2>11. \A x \in DOMAIN dedup' : dedup'[x].msg \in Refs'
      BY <2>5, <2>6 DEF LocalsOK, NewRec
    <2>12. LocalsOK'
      BY <1>6, <2>5, <2>9, <2>11 DEF AddNew, PassFirst, TypeOK, LocalsOK
    <2> QED BY <2>10, <2>12
  <1>7. ASSUME NEW t \in Threads, Dump(t)
        PROVE  TypeInv'
    <2>1. note[t] \in Note /\ note[t].ref \in Refs
      BY <1>7 DEF Dump, LocalsOK
    <2>2. heap[note[t].ref].scope \in Scopes
      BY <2>1, RefMsg DEF TypeOK
    <2>3. PICK s \in Scopes : note' = [note EXCEPT ![t] = [note[t] EXCEPT !.scope = s]]
      BY <1>7, <2>2 DEF Dump, Scopes, TypeOK
    <2>4. note'[t] \in Note /\ note'[t].ref = note[t].ref /\ note'[t].scope = s
      BY <2>1, <2>3 DEF Note, TypeOK
    <2>5. TypeOK'
      BY <1>7, <2>3, <2>4 DEF Dump, TypeOK, PCs
    <2>6. LocalsOK'
      BY <1>7, <2>1, <2>3, <2>4 DEF Dump, TypeOK, LocalsOK, Refs
    <2> QED BY <2>5, <2>6
  <1>8. ASSUME NEW t \in Threads, Snapshot(t)
        PROVE  TypeInv'
    <2>1. TypeOK'
      BY <1>8 DEF Snapshot, TypeOK, PCs
    <2>2. LocalsOK'
      BY <1>8, <2>1 DEF Snapshot, TypeOK, LocalsOK, Refs
    <2> QED BY <2>1, <2>2
  <1>9. ASSUME NEW t \in Threads, NEW q \in Queues, Put(t, q)
        PROVE  TypeInv'
    <2>1. Event(t) \in Events
      <3>1. note[t] \in Note /\ note[t].ref \in Refs /\ note[t].scope \in Scopes
        BY <1>9 DEF Put, LocalsOK
      <3>2. heap[note[t].ref].seq \in Nat
        BY <3>1, RefMsg DEF TypeOK
      <3> QED BY <3>1, <3>2 DEF Event, Events, Note
    <2>2. TypeOK'
      BY <1>9, <2>1 DEF Put, TypeOK
    <2>3. LocalsOK'
      BY <1>9 DEF Put, TypeOK, LocalsOK, Refs
    <2> QED BY <2>2, <2>3
  <1>10. ASSUME NEW t \in Threads, PutDone(t) \/ Save(t)
         PROVE  TypeInv'
    <2>1. TypeOK'
      BY <1>10 DEF PutDone, Save, TypeOK, PCs
    <2>2. LocalsOK'
      BY <1>10 DEF PutDone, Save, TypeOK, LocalsOK, Refs
    <2> QED BY <2>1, <2>2
  <1>11. ASSUME NEW q \in Queues, AddQueue(q) \/ RemoveQueue(q)
         PROVE  TypeInv'
    <2>1. since' \in [Queues -> Nat]
      BY <1>11 DEF AddQueue, RemoveQueue, TypeOK
    <2>2. TypeOK'
      BY <1>11, <2>1 DEF AddQueue, RemoveQueue, TypeOK
    <2>3. LocalsOK'
      BY <1>11 DEF AddQueue, RemoveQueue, LocalsOK, Refs
    <2> QED BY <2>2, <2>3
  <1>12. CASE UNCHANGED vars
    BY <1>12 DEF vars, TypeOK, LocalsOK, Refs
  <1> QED BY <1>1, <1>2, <1>3, <1>4, <1>5, <1>6, <1>7, <1>8, <1>9, <1>10,
             <1>11, <1>12 DEF Next, Continue, Locked

THEOREM TypeCorrect == Spec => []TypeOK
  <1>1. TypeInv => TypeOK
    BY DEF TypeInv
  <1> QED BY TypeInit, TypeStep, <1>1, PTL DEF Spec

-----------------------------------------------------------------------------
(* Sequence numbers *)

\* Only the locked section of add() changes what the store holds.
LEMMA StoreSteps ==
    ASSUME [Next]_vars
    PROVE  \/ \E t \in Threads : AddRetransmit(t) \/ AddRepeat(t)
           \/ \E t \in Threads : AddPromote(t)
           \/ \E t \in Threads : AddNew(t)
           \/ /\ UNCHANGED <<heap, messages, seq, dedup, seenIds, lastSighting, lastHeard>>
              /\ clock' = clock \/ clock' = clock + 1
  BY DEF Next, Continue, Locked, Tick, CallAdd, Dump, Snapshot, Put, PutDone, Save,
         AddQueue, RemoveQueue, vars, memVars, history

LEMMA SeqStep == TypeInv /\ SeqIncreasing /\ [Next]_vars => SeqIncreasing'
  <1> SUFFICES ASSUME TypeInv, SeqIncreasing, [Next]_vars PROVE SeqIncreasing'
    OBVIOUS
  <1>1. CASE \E t \in Threads : AddRetransmit(t) \/ AddRepeat(t)
    BY <1>1 DEF AddRetransmit, AddRepeat, SeqIncreasing, Refs
  <1>2. ASSUME NEW t \in Threads, AddPromote(t)
        PROVE  SeqIncreasing'
    <2>1. \A i \in Refs : heap'[i].seq = heap[i].seq
      <3> DEFINE r == dedup[TextKey(t)].msg
      <3>1. r \in Refs /\ \A i \in Refs : i # r => heap'[i] = heap[i]
        BY <1>2, AddPromoteEffect
      <3>2. heap'[r] = [heap[r] EXCEPT !.scope = "global"]
        BY <1>2, AddPromoteEffect
      <3>3. heap[r] \in Msg
        BY <3>1, RefMsg DEF TypeInv, TypeOK
      <3>4. heap'[r].seq = heap[r].seq
        BY <3>2, <3>3 DEF Msg
      <3> QED BY <3>1, <3>4
    <2>2. Refs' = Refs /\ seq' = seq
      BY <1>2, AddPromoteEffect DEF AddPromote
    <2> QED BY <2>1, <2>2 DEF SeqIncreasing
  <1>3. ASSUME NEW t \in Threads, AddNew(t)
        PROVE  SeqIncreasing'
    <2>1. /\ Refs' = Refs \cup {Len(heap) + 1} /\ Len(heap) \in Nat
          /\ \A i \in Refs : heap'[i] = heap[i] /\ i # Len(heap) + 1 /\ i < Len(heap) + 1
      BY <1>3, AddNewEffect
    <2>2. heap'[Len(heap) + 1].seq = seq + 1
      <3>1. heap'[Len(heap) + 1] = NewMsg(t)
        BY <1>3, AddNewEffect
      <3> QED BY <3>1 DEF NewMsg
    <2>3. seq' = seq + 1 /\ seq \in Nat
      BY <1>3 DEF AddNew, TypeInv, TypeOK
    <2>4. \A i \in Refs : heap[i].seq \in Nat /\ heap[i].seq <= seq /\ i \in Nat
      BY RefMsg DEF TypeInv, TypeOK, SeqIncreasing
    <2> QED BY <2>1, <2>2, <2>3, <2>4 DEF SeqIncreasing
  <1>4. CASE UNCHANGED <<heap, seq>>
    BY <1>4 DEF SeqIncreasing, Refs
  <1> QED BY <1>1, <1>2, <1>3, <1>4, StoreSteps

\* No two stored messages share a number, whatever threads race to store them.
THEOREM SeqCorrect == Spec => []SeqIncreasing
  <1>1. Init => SeqIncreasing
    BY DEF Init, SeqIncreasing, Refs
  <1> QED BY TypeInit, TypeStep, SeqStep, <1>1, PTL DEF Spec

-----------------------------------------------------------------------------
(* The deques *)

\* What an append to a bounded deque does: all is kept while there is room,
\* everything moves up by one when there is not.
LEMMA PushedShape ==
    ASSUME NEW d \in Seq(Nat), NEW r \in Nat, Len(d) <= MAX_MESSAGES_PER_CHANNEL
    PROVE  LET p == Pushed(d, r) IN
           /\ p \in Seq(Nat) /\ Len(p) \in Nat /\ Len(p) > 0
           /\ Len(p) <= MAX_MESSAGES_PER_CHANNEL
           /\ p[Len(p)] = r
           /\ \/ /\ Len(p) = Len(d) + 1
                 /\ \A i \in 1..Len(d) : p[i] = d[i]
              \/ /\ Len(p) = Len(d) /\ Len(p) = MAX_MESSAGES_PER_CHANNEL
                 /\ \A i \in 1..Len(d) : i < Len(d) => p[i] = d[i + 1]
  <1>1. CASE Len(d) < MAX_MESSAGES_PER_CHANNEL
    BY <1>1, CapacityAssumption DEF Pushed
  <1>2. CASE Len(d) = MAX_MESSAGES_PER_CHANNEL
    <2>1. d # << >> /\ Len(d) \in Nat /\ Len(d) > 0
      BY <1>2, CapacityAssumption
    <2>2. /\ Tail(d) \in Seq(Nat) /\ Len(Tail(d)) = Len(d) - 1
          /\ \A i \in 1..Len(d) - 1 : Tail(d)[i] = d[i + 1]
      BY <2>1
    <2>3. Pushed(d, r) = Append(Tail(d), r)
      BY <1>2, <2>1 DEF Pushed
    <2>4. /\ Append(Tail(d), r) \in Seq(Nat) /\ Len(Append(Tail(d), r)) = Len(d)
          /\ Append(Tail(d), r)[Len(d)] = r
          /\ \A i \in 1..Len(d) - 1 : Append(Tail(d), r)[i] = Tail(d)[i]
      BY <2>1, <2>2
    <2> QED BY <1>2, <2>1, <2>2, <2>3, <2>4
  <1> QED BY <1>1, <1>2, CapacityAssumption

\* DequesKeepNewest, of one channel and a deque d of it.
DequeOK(c, d) ==
    /\ Len(d) <= MAX_MESSAGES_PER_CHANNEL
    /\ \A i, j \in 1..Len(d) : i < j => d[i] < d[j]
    /\ \A i \in 1..Len(d) : d[i] \in Refs /\ heap[d[i]].channel_id = c
    /\ \A r \in Refs :
          heap[r].channel_id = c =>
              \/ \E i \in 1..Len(d) : d[i] = r
              \/ Len(d) = MAX_MESSAGES_PER_CHANNEL /\ r < d[1]

LEMMA DequePointwise ==
    TypeOK => (DequesKeepNewest <=> \A c \in Channels : DequeOK(c, messages[c]))
  <1> SUFFICES ASSUME TypeOK
               PROVE  DequesKeepNewest <=> \A c \in Channels : DequeOK(c, messages[c])
    OBVIOUS
  <1>1. \A c \in Channels : DOMAIN messages[c] = 1..Len(messages[c])
    BY DEF TypeOK
  <1> QED BY <1>1 DEF DequesKeepNewest, DequeOK

\* A deque stays as good while the log keeps the channel of every message and
\* gets none of this channel.
LEMMA DequeKept ==
    ASSUME NEW c, NEW d, DequeOK(c, d),
           \A r \in Refs : r \in Refs' /\ heap'[r].channel_id = heap[r].channel_id,
           \A r \in Refs' : r \in Refs \/ heap'[r].channel_id # c
    PROVE  /\ Len(d) <= MAX_MESSAGES_PER_CHANNEL
           /\ \A i, j \in 1..Len(d) : i < j => d[i] < d[j]
           /\ \A i \in 1..Len(d) : d[i] \in Refs' /\ heap'[d[i]].channel_id = c
           /\ \A r \in Refs' :
                 heap'[r].channel_id = c =>
                     \/ \E i \in 1..Len(d) : d[i] = r
                     \/ Len(d) = MAX_MESSAGES_PER_CHANNEL /\ r < d[1]
  BY DEF DequeOK

LEMMA DequeStep == TypeInv /\ DequesKeepNewest /\ [Next]_vars => DequesKeepNewest'
  <1> SUFFICES ASSUME TypeInv, DequesKeepNewest, [Next]_vars PROVE DequesKeepNewest'
    OBVIOUS
  <1>t. TypeOK /\ TypeOK'
    BY TypeStep DEF TypeInv
  <1>o. \A c \in Channels : DequeOK(c, messages[c])
    BY <1>t, DequePointwise
  <1>p. (\A c \in Channels : DequeOK(c, messages[c]))' => DequesKeepNewest'
    <2>1. (TypeOK => (DequesKeepNewest <=> \A c \in Channels : DequeOK(c, messages[c])))'
      BY DequePointwise, PTL
    <2> QED BY <1>t, <2>1
  <1>1. CASE UNCHANGED <<heap, messages>>
    BY <1>1, <1>o, <1>p DEF DequeOK, Refs
  <1>2. ASSUME NEW t \in Threads, AddPromote(t)
        PROVE  DequesKeepNewest'
    <2> DEFINE p == dedup[TextKey(t)].msg
    <2>1. p \in Refs /\ Refs' = Refs /\ \A i \in Refs : i # p => heap'[i] = heap[i]
      BY <1>2, AddPromoteEffect
    <2>2. heap'[p] = [heap[p] EXCEPT !.scope = "global"]
      BY <1>2, AddPromoteEffect
    <2>3. heap'[p].channel_id = heap[p].channel_id
      BY <1>t, <2>1, <2>2, RefMsg DEF Msg, TypeOK
    <2>4. messages' = messages
      BY <1>2 DEF AddPromote
    <2> HIDE DEF p
    <2>5. \A r \in Refs : r \in Refs' /\ heap'[r].channel_id = heap[r].channel_id
      BY <2>1, <2>3
    <2>6. (\A c \in Channels : DequeOK(c, messages[c]))'
      BY <1>o, <2>1, <2>4, <2>5 DEF DequeOK
    <2> QED BY <1>p, <2>6
  <1>3. ASSUME NEW t \in Threads, AddNew(t)
        PROVE  DequesKeepNewest'
    <2> DEFINE ref == Len(heap) + 1
    <2>1. /\ Refs' = Refs \cup {ref} /\ ref \in Nat
          /\ \A i \in Refs : heap'[i] = heap[i] /\ i < ref /\ i \in Nat
          /\ heap'[ref] = NewMsg(t)
      <3>1. /\ Refs' = Refs \cup {Len(heap) + 1} /\ Len(heap) \in Nat
            /\ \A i \in Refs : heap'[i] = heap[i] /\ i < Len(heap) + 1
            /\ heap'[Len(heap) + 1] = NewMsg(t)
        BY <1>3, AddNewEffect
      <3>2. \A i \in Refs : i \in Nat
        BY DEF Refs
      <3>3. ref \in Nat
        BY <3>1
      <3> HIDE DEF NewMsg
      <3> QED BY <3>1, <3>2, <3>3
    <2>c. PICK c0 \in Channels : c0 = call[t].channel_id
      BY <1>3, TablesDict DEF AddNew, PassFirst
    <2>2. heap'[ref].channel_id = c0
      BY <2>1, <2>c DEF NewMsg
    <2>3. /\ messages'[c0] = Pushed(messages[c0], ref)
          /\ \A c \in Channels : c # c0 => messages'[c] = messages[c]
      BY <1>t, <1>3, <2>c DEF AddNew, TypeOK
    <2> HIDE DEF ref
    <2>4. ASSUME NEW c \in Channels, c # c0
          PROVE  DequeOK(c, messages[c])'
      <3>1. DequeOK(c, messages[c])
        BY <1>o
      <3>2. \A r \in Refs : r \in Refs' /\ heap'[r].channel_id = heap[r].channel_id
        BY <2>1
      <3>3. \A r \in Refs' : r \in Refs \/ heap'[r].channel_id # c
        BY <2>1, <2>2, <2>4
      <3> QED BY <2>3, <2>4, <3>1, <3>2, <3>3, DequeKept DEF DequeOK
    <2>5. DequeOK(c0, messages[c0])'
      <3> DEFINE d == messages[c0]
                 e == Pushed(d, ref)
                 cap == MAX_MESSAGES_PER_CHANNEL
      <3>1. d \in Seq(Nat) /\ DequeOK(c0, d) /\ Len(d) \in Nat
        BY <1>t, <1>o, <2>2 DEF TypeOK
      <3>2. /\ e \in Seq(Nat) /\ Len(e) \in Nat /\ Len(e) > 0 /\ Len(e) <= cap
            /\ e[Len(e)] = ref
            /\ \/ Len(e) = Len(d) + 1 /\ \A i \in 1..Len(d) : e[i] = d[i]
               \/ /\ Len(e) = Len(d) /\ Len(e) = cap
                  /\ \A i \in 1..Len(d) : i < Len(d) => e[i] = d[i + 1]
        BY <2>1, <3>1, PushedShape DEF DequeOK
      <3>3. /\ \A i, j \in 1..Len(d) : i < j => d[i] < d[j]
            /\ \A i \in 1..Len(d) : d[i] \in Refs /\ heap[d[i]].channel_id = c0
                  /\ d[i] \in Nat /\ d[i] < ref
            /\ \A r \in Refs : heap[r].channel_id = c0 =>
                  (\E i \in 1..Len(d) : d[i] = r) \/ (Len(d) = cap /\ r < d[1])
        BY <2>1, <3>1 DEF DequeOK
      <3>4. messages'[c0] = e
        BY <2>3
      <3> HIDE DEF d, e, cap
      <3>5. CASE Len(e) = Len(d) + 1 /\ \A i \in 1..Len(d) : e[i] = d[i]
        <4>1. \A i \in 1..Len(e) : i \in 1..Len(d) \/ i = Len(e)
          BY <3>1, <3>5
        <4>2. ASSUME NEW i \in 1..Len(e), NEW j \in 1..Len(e), i < j
              PROVE  e[i] < e[j]
          <5>1. i \in 1..Len(d) /\ e[i] = d[i]
            BY <3>1, <3>2, <3>5, <4>2
          <5>2. CASE j \in 1..Len(d)
            BY <3>3, <3>5, <4>2, <5>1, <5>2
          <5>3. CASE j = Len(e)
            BY <3>2, <3>3, <5>1, <5>3
          <5> QED BY <4>1, <5>2, <5>3
        <4>3. \A i \in 1..Len(e) : e[i] \in Refs' /\ heap'[e[i]].channel_id = c0
          BY <2>1, <2>2, <3>2, <3>3, <3>5, <4>1
        <4>4. ASSUME NEW r \in Refs', heap'[r].channel_id = c0
              PROVE  \E i \in 1..Len(e) : e[i] = r
          <5>1. CASE r = ref
            BY <3>2, <5>1
          <5>2. CASE r \in Refs
            <6>1. Len(d) # cap
              BY <3>1, <3>2, <3>5
            <6>2. PICK i \in 1..Len(d) : d[i] = r
              BY <2>1, <3>3, <4>4, <5>2, <6>1
            <6> QED BY <3>1, <3>5, <6>2
          <5> QED BY <2>1, <5>1, <5>2
        <4> QED BY <3>2, <3>4, <4>2, <4>3, <4>4 DEF DequeOK, cap
      <3>6. CASE /\ Len(e) = Len(d) /\ Len(e) = cap
                 /\ \A i \in 1..Len(d) : i < Len(d) => e[i] = d[i + 1]
        <4>1. \A i \in 1..Len(e) : i = Len(e) \/ (i < Len(d) /\ i + 1 \in 1..Len(d) /\ e[i] = d[i + 1])
          BY <3>1, <3>6
        <4>2. ASSUME NEW i \in 1..Len(e), NEW j \in 1..Len(e), i < j
              PROVE  e[i] < e[j]
          <5>1. i < Len(d) /\ i + 1 \in 1..Len(d) /\ e[i] = d[i + 1]
            BY <3>1, <3>2, <3>6, <4>1, <4>2
          <5>2. CASE j = Len(e)
            BY <3>2, <3>3, <5>1, <5>2
          <5>3. CASE j # Len(e)
            <6>1. j + 1 \in 1..Len(d) /\ e[j] = d[j + 1]
              BY <4>1, <5>3
            <6> QED BY <3>1, <3>3, <4>2, <5>1, <6>1
          <5> QED BY <5>2, <5>3
        <4>3. ASSUME NEW i \in 1..Len(e)
              PROVE  e[i] \in Refs' /\ heap'[e[i]].channel_id = c0
          <5>1. CASE i = Len(e)
            BY <2>1, <2>2, <3>2, <5>1
          <5>2. CASE i # Len(e)
            <6>1. i + 1 \in 1..Len(d) /\ e[i] = d[i + 1]
              BY <4>1, <5>2
            <6> QED BY <2>1, <3>3, <6>1
          <5> QED BY <5>1, <5>2
        <4>4. ASSUME NEW r \in Refs', heap'[r].channel_id = c0
              PROVE  (\E i \in 1..Len(e) : e[i] = r) \/ r < e[1]
          <5>1. CASE r = ref
            BY <3>2, <5>1
          <5>2. CASE r \in Refs
            <6>1. 1 \in 1..Len(e) /\ 1 \in 1..Len(d)
              BY <3>2, <3>6
            <6>2. d[1] < e[1]
              BY <2>1, <3>1, <3>2, <3>3, <4>1, <6>1
            <6>3. CASE \E i \in 1..Len(d) : d[i] = r
              <7>1. PICK i \in 1..Len(d) : d[i] = r
                BY <6>3
              <7>2. CASE i = 1
                BY <6>2, <7>1, <7>2
              <7>3. CASE i # 1
                <8>1. i - 1 \in 1..Len(e) /\ i - 1 < Len(d) /\ (i - 1) + 1 = i
                  BY <3>1, <3>6, <7>3
                <8> QED BY <3>6, <7>1, <8>1
              <7> QED BY <7>2, <7>3
            <6>4. CASE r < d[1]
              <7>1. r \in Nat /\ d[1] \in Nat /\ e[1] \in Nat
                BY <2>1, <3>2, <3>3, <5>2, <6>1
              <7> QED BY <6>2, <6>4, <7>1
            <6> QED BY <2>1, <3>3, <4>4, <5>2, <6>3, <6>4
          <5> QED BY <2>1, <5>1, <5>2
        <4> QED BY <3>2, <3>4, <3>6, <4>2, <4>3, <4>4 DEF DequeOK, cap
      <3> QED BY <3>2, <3>5, <3>6
    <2> QED BY <1>p, <2>4, <2>5
  <1>4. CASE \E t \in Threads : AddRetransmit(t) \/ AddRepeat(t)
    <2>1. UNCHANGED <<heap, messages>>
      BY <1>4 DEF AddRetransmit, AddRepeat
    <2> QED BY <1>1, <2>1
  <1> QED BY <1>1, <1>2, <1>3, <1>4, StoreSteps

\* Every deque is the newest messages of its channel, in order, whichever
\* threads stored them: nothing newer than a kept message was dropped.
THEOREM DequesCorrect == Spec => []DequesKeepNewest
  <1>1. Init => DequesKeepNewest
    <2> SUFFICES ASSUME Init PROVE DequesKeepNewest
      OBVIOUS
    <2>1. TypeOK
      BY TypeInit DEF TypeInv
    <2>2. Refs = {} /\ \A c \in Channels : messages[c] = << >>
      BY DEF Init, Refs
    <2>3. \A c \in Channels : DequeOK(c, messages[c])
      BY <2>2, CapacityAssumption DEF DequeOK
    <2> QED BY <2>1, <2>3, DequePointwise
  <1> QED BY TypeInit, TypeStep, DequeStep, <1>1, PTL DEF Spec

-----------------------------------------------------------------------------
(* The record table *)

\* A record that is not global yet still has the expiry it was made with.
FreshExpiry ==
    \A x \in DOMAIN dedup : ~dedup[x].is_global =>
        dedup[x].expire = heap[dedup[x].msg].time + GLOBAL_DEDUP_WINDOW

DedupInv == DedupConsistent /\ FreshExpiry

\* What DedupInv says of one record.
RecOK(x, rec) ==
    /\ rec.msg \in Refs
    /\ heap[rec.msg].text = x
    /\ heap[rec.msg].channel_id \in rec.channels
    /\ rec.is_global <=> heap[rec.msg].scope = "global"
    /\ rec.is_global <=> rec.channels # {heap[rec.msg].channel_id}
    /\ ~rec.is_global => rec.expire = heap[rec.msg].time + GLOBAL_DEDUP_WINDOW

LEMMA DedupPointwise == DedupInv <=> \A x \in DOMAIN dedup : RecOK(x, dedup[x])
  BY DEF DedupInv, DedupConsistent, FreshExpiry, RecOK

LEMMA DedupStep == TypeInv /\ DedupInv /\ [Next]_vars => DedupInv'
  <1> SUFFICES ASSUME TypeInv, DedupInv, [Next]_vars PROVE DedupInv'
    OBVIOUS
  <1>1. ASSUME NEW t \in Threads, AddRetransmit(t)
        PROVE  DedupInv'
    <2>1. \A x \in DOMAIN dedup' : x \in DOMAIN dedup /\ dedup'[x] = dedup[x]
      BY <1>1, TablesDict, LiveRecsDict DEF AddRetransmit, TypeInv, TypeOK
    <2>2. heap' = heap
      BY <1>1 DEF AddRetransmit
    <2> QED BY <2>1, <2>2 DEF DedupInv, DedupConsistent, FreshExpiry, Refs
  <1>2. ASSUME NEW t \in Threads, AddRepeat(t)
        PROVE  DedupInv'
    <2> SUFFICES ASSUME NEW x \in DOMAIN dedup' PROVE RecOK(x, dedup[x])'
      BY DEF DedupInv, DedupConsistent, FreshExpiry, RecOK
    <2> DEFINE old == dedup[TextKey(t)]
               c == call[t].channel_id
    <2>1. pc[t] = "lock" /\ HeardElsewhere(t) /\ dedup' = Widened(t) /\ heap' = heap /\ old.is_global
      BY <1>2 DEF AddRepeat, PassFirst
    <2>2. TextKey(t) \in DOMAIN dedup
      BY <2>1, WidenedDict
    <2>3. RecOK(TextKey(t), old)
      BY <2>2, DedupPointwise
    <2>4. CASE x = TextKey(t)
      <3>1. dedup'[x] = [msg |-> old.msg, channels |-> old.channels \cup {c},
                         expire |-> Now(t) + GLOBAL_DEDUP_WINDOW, is_global |-> TRUE]
        BY <2>1, <2>4, WidenedDict
      <3>2. /\ dedup'[x].msg = old.msg /\ dedup'[x].channels = old.channels \cup {c}
            /\ dedup'[x].is_global
        BY <3>1
      <3> QED BY <2>1, <2>3, <2>4, <3>2 DEF RecOK, Refs
    <2>5. CASE x # TextKey(t)
      <3>1. x \in DOMAIN dedup /\ dedup'[x] = dedup[x]
        BY <2>1, <2>5, WidenedDict
      <3> QED BY <2>1, <3>1, DedupPointwise DEF RecOK, Refs
    <2> QED BY <2>4, <2>5
  <1>3. ASSUME NEW t \in Threads, AddPromote(t)
        PROVE  DedupInv'
    <2> SUFFICES ASSUME NEW x \in DOMAIN dedup' PROVE RecOK(x, dedup[x])'
      BY DEF DedupInv, DedupConsistent, FreshExpiry, RecOK
    <2> DEFINE old == dedup[TextKey(t)]
               c == call[t].channel_id
    <2>1. pc[t] = "lock" /\ HeardElsewhere(t) /\ dedup' = Widened(t)
      BY <1>3 DEF AddPromote, PassFirst
    <2>2. TextKey(t) \in DOMAIN dedup /\ c \notin old.channels
      BY <2>1, WidenedDict DEF HeardElsewhere
    <2>3. RecOK(TextKey(t), old)
      BY <2>2, DedupPointwise
    <2>4. /\ old.msg \in Refs /\ Refs' = Refs
          /\ \A i \in Refs : i # old.msg => heap'[i] = heap[i]
      BY <1>3, AddPromoteEffect
    <2>5. heap'[old.msg] = [heap[old.msg] EXCEPT !.scope = "global"]
      BY <1>3, AddPromoteEffect
    <2>6. heap[old.msg] \in Msg
      BY <2>4, RefMsg DEF TypeInv, TypeOK
    <2>7. /\ heap'[old.msg].text = heap[old.msg].text /\ heap'[old.msg].scope = "global"
          /\ heap'[old.msg].channel_id = heap[old.msg].channel_id
      BY <2>5, <2>6 DEF Msg
    <2>8. CASE x = TextKey(t)
      <3>1. dedup'[x] = [msg |-> old.msg, channels |-> old.channels \cup {c},
                         expire |-> Now(t) + GLOBAL_DEDUP_WINDOW, is_global |-> TRUE]
        BY <2>1, <2>8, WidenedDict
      <3>2. /\ dedup'[x].msg = old.msg /\ dedup'[x].channels = old.channels \cup {c}
            /\ dedup'[x].is_global
        BY <3>1
      <3> QED BY <2>2, <2>3, <2>4, <2>7, <2>8, <3>2 DEF RecOK
    <2>9. CASE x # TextKey(t)
      <3>1. x \in DOMAIN dedup /\ dedup'[x] = dedup[x]
        BY <2>1, <2>9, WidenedDict
      <3>2. RecOK(x, dedup[x])
        BY <3>1, DedupPointwise
      <3>3. dedup[x].msg # old.msg
        BY <2>3, <2>9, <3>2 DEF RecOK
      <3> QED BY <2>4, <3>1, <3>2, <3>3 DEF RecOK
    <2> QED BY <2>8, <2>9
  <1>4. ASSUME NEW t \in Threads, AddNew(t)
        PROVE  DedupInv'
    <2> SUFFICES ASSUME NEW x \in DOMAIN dedup' PROVE RecOK(x, dedup[x])'
      BY DEF DedupInv, DedupConsistent, FreshExpiry, RecOK
    <2>1. /\ Refs' = Refs \cup {Len(heap) + 1}
          /\ \A i \in Refs : heap'[i] = heap[i] /\ i # Len(heap) + 1 /\ i < Len(heap) + 1
      BY <1>4, AddNewEffect
    <2>2. heap'[Len(heap) + 1] = NewMsg(t)
      BY <1>4, AddNewEffect
    <2>3. CASE x = TextKey(t)
      <3>1. dedup'[x] = NewRec(t)
        BY <1>4, <2>3, AddNewEffect
      <3>2. /\ dedup'[x].msg = Len(heap) + 1 /\ dedup'[x].channels = {call[t].channel_id}
            /\ dedup'[x].expire = Now(t) + GLOBAL_DEDUP_WINDOW /\ ~dedup'[x].is_global
        BY <3>1 DEF NewRec
      <3>3. /\ heap'[Len(heap) + 1].text = x /\ heap'[Len(heap) + 1].scope = "server"
            /\ heap'[Len(heap) + 1].channel_id = call[t].channel_id
            /\ heap'[Len(heap) + 1].time = Now(t)
        BY <2>2, <2>3 DEF NewMsg
      <3> QED BY <2>1, <3>2, <3>3 DEF RecOK
    <2>4. CASE x # TextKey(t)
      <3>1. x \in DOMAIN dedup /\ dedup'[x] = dedup[x]
        BY <1>4, <2>4, AddNewEffect
      <3> QED BY <2>1, <3>1, DedupPointwise DEF RecOK
    <2> QED BY <2>3, <2>4
  <1>5. CASE UNCHANGED <<heap, dedup>>
    BY <1>5 DEF DedupInv, DedupConsistent, FreshExpiry, Refs
  <1> QED BY <1>1, <1>2, <1>3, <1>4, <1>5, StoreSteps

\* A live record and its message never disagree, in particular about whether
\* the message is global.
THEOREM DedupCorrect == Spec => []DedupConsistent
  <1>1. Init => DedupInv
    BY DEF Init, DedupInv, DedupConsistent, FreshExpiry
  <1>2. DedupInv => DedupConsistent
    BY DEF DedupInv
  <1> QED BY TypeInit, TypeStep, DedupStep, <1>1, <1>2, PTL DEF Spec

-----------------------------------------------------------------------------
(* The two windows *)

\* What is pruned is expired by the clock, although the pruning thread read
\* the clock before it had the lock: "now" is never ahead of the clock.
LEMMA PrunedIds ==
    ASSUME TypeInv, NEW t \in Threads, pc[t] = "lock",
           NEW tab, tab = Entry(LiveIds(Now(t)), IdKey(t), Now(t) + MSG_ID_TTL)
    PROVE  /\ IdKey(t) \in DOMAIN tab /\ tab[IdKey(t)] = Now(t) + MSG_ID_TTL
           /\ \A id \in DOMAIN seenIds : id # IdKey(t) =>
                 \/ id \in DOMAIN tab /\ tab[id] = seenIds[id]
                 \/ seenIds[id] <= clock
  <1>1. /\ Now(t) \in Nat /\ Now(t) <= clock /\ clock \in Nat
        /\ IsDict(seenIds, Ids, Nat)
    BY TablesDict DEF TypeInv, TypeOK
  <1>2. /\ DOMAIN LiveIds(Now(t)) = {id \in DOMAIN seenIds : seenIds[id] > Now(t)}
        /\ \A id \in DOMAIN LiveIds(Now(t)) : LiveIds(Now(t))[id] = seenIds[id]
    BY DEF LiveIds
  <1>3. /\ DOMAIN tab = DOMAIN LiveIds(Now(t)) \cup {IdKey(t)}
        /\ tab[IdKey(t)] = Now(t) + MSG_ID_TTL
        /\ \A id \in DOMAIN LiveIds(Now(t)) : id # IdKey(t) => tab[id] = LiveIds(Now(t))[id]
    BY DEF Entry
  <1>4. \A id \in DOMAIN seenIds : seenIds[id] \in Nat
    BY <1>1 DEF IsDict
  <1>5. ASSUME NEW id \in DOMAIN seenIds, id # IdKey(t)
        PROVE  \/ id \in DOMAIN tab /\ tab[id] = seenIds[id]
               \/ seenIds[id] <= clock
    <2>1. CASE seenIds[id] > Now(t)
      BY <1>2, <1>3, <1>5, <2>1
    <2>2. CASE seenIds[id] <= Now(t)
      BY <1>1, <1>4, <2>2
    <2> QED BY <1>1, <1>4, <2>1, <2>2
  <1> QED BY <1>3, <1>5

\* No history is ahead of the clock: what both windows need to be inductive.
SightingsPast ==
    /\ \A id \in DOMAIN lastSighting : lastSighting[id].at <= clock
    /\ \A x \in DOMAIN lastHeard : lastHeard[x].at <= clock

LEMMA PastStep == TypeInv /\ SightingsPast /\ [Next]_vars => SightingsPast'
  <1> SUFFICES ASSUME TypeInv, SightingsPast, [Next]_vars PROVE SightingsPast'
    OBVIOUS
  <1>0. /\ clock \in Nat
        /\ IsDict(lastSighting, Ids, Sighting) /\ IsDict(lastHeard, Texts, Sighting)
        /\ \A id \in DOMAIN lastSighting : lastSighting[id].at \in Nat
        /\ \A x \in DOMAIN lastHeard : lastHeard[x].at \in Nat
    BY DEF TypeInv, TypeOK, IsDict, Sighting
  <1>1. ASSUME NEW t \in Threads,
               AddRetransmit(t) \/ AddRepeat(t) \/ AddPromote(t) \/ AddNew(t)
        PROVE  SightingsPast'
    <2>1. /\ pc[t] = "lock" /\ clock' = clock
          /\ lastSighting' = Noted(lastSighting, IdKey(t), t)
          /\ lastHeard' = lastHeard \/ lastHeard' = Noted(lastHeard, TextKey(t), t)
      BY <1>1 DEF AddRetransmit, AddRepeat, AddPromote, AddNew, PassFirst
    <2>2. Now(t) \in Nat /\ Now(t) <= clock /\ IdKey(t) \in Ids /\ TextKey(t) \in Texts
      BY <2>1, TablesDict
    <2>3. \A id \in DOMAIN lastSighting' : lastSighting'[id].at <= clock
      <3>1. \A x \in DOMAIN Noted(lastSighting, IdKey(t), t) :
                \/ Noted(lastSighting, IdKey(t), t)[x].at = Now(t)
                \/ x \in DOMAIN lastSighting /\ Noted(lastSighting, IdKey(t), t)[x].at = lastSighting[x].at
        BY <1>0, <2>2, NotedFrom
      <3> QED BY <2>1, <2>2, <3>1 DEF SightingsPast
    <2>4. \A x \in DOMAIN lastHeard' : lastHeard'[x].at <= clock
      <3>1. \A x \in DOMAIN Noted(lastHeard, TextKey(t), t) :
                \/ Noted(lastHeard, TextKey(t), t)[x].at = Now(t)
                \/ x \in DOMAIN lastHeard /\ Noted(lastHeard, TextKey(t), t)[x].at = lastHeard[x].at
        BY <1>0, <2>2, NotedFrom
      <3> QED BY <2>1, <2>2, <3>1 DEF SightingsPast
    <2> QED BY <2>1, <2>3, <2>4 DEF SightingsPast
  <1>2. CASE UNCHANGED <<lastSighting, lastHeard>> /\ (clock' = clock \/ clock' = clock + 1)
    BY <1>0, <1>2 DEF SightingsPast
  <1> QED BY <1>1, <1>2, StoreSteps

\* One key of either table: the caller's key keeps its promise because the
\* caller's reading is behind the clock by exactly its wait, another key
\* because pruning takes only what has expired by the clock.
LEMMA KeptStep ==
    ASSUME NEW w \in Nat, NEW n \in Nat, clock \in Nat, n <= clock,
           NEW s \in Sighting, s.at >= n, s.at <= clock, s.late = clock - n
    PROVE  Remembered(s, w, TRUE, n + w)
  <1>1. s.at \in Nat /\ s.late \in Nat
    BY DEF Sighting
  <1> QED BY <1>1 DEF Remembered

LEMMA RetransmitStep ==
    TypeInv /\ SightingsPast /\ SightingsPast' /\ RetransmitWindow /\ [Next]_vars
        => RetransmitWindow'
  <1> SUFFICES ASSUME TypeInv, SightingsPast, SightingsPast', RetransmitWindow, [Next]_vars
               PROVE  RetransmitWindow'
    OBVIOUS
  <1>0. /\ clock \in Nat /\ IsDict(lastSighting, Ids, Sighting)
        /\ IsDict(seenIds, Ids, Nat) /\ MSG_ID_TTL \in Nat
    BY WindowsAssumption DEF TypeInv, TypeOK
  <1>1. ASSUME NEW t \in Threads,
               AddRetransmit(t) \/ AddRepeat(t) \/ AddPromote(t) \/ AddNew(t)
        PROVE  RetransmitWindow'
    <2> DEFINE key == IdKey(t)
    <2>1. /\ pc[t] = "lock" /\ clock' = clock
          /\ seenIds' = Entry(LiveIds(Now(t)), key, Now(t) + MSG_ID_TTL)
          /\ lastSighting' = Noted(lastSighting, key, t)
      BY <1>1 DEF AddRetransmit, AddRepeat, AddPromote, AddNew, PassFirst
    <2>2. /\ key \in DOMAIN seenIds' /\ seenIds'[key] = Now(t) + MSG_ID_TTL
          /\ \A id \in DOMAIN seenIds : id # key =>
                \/ id \in DOMAIN seenIds' /\ seenIds'[id] = seenIds[id]
                \/ seenIds[id] <= clock
      BY <2>1, PrunedIds
    <2>3. Now(t) \in Nat /\ Now(t) <= clock /\ key \in Ids
      BY <2>1, TablesDict
    <2> HIDE DEF key
    <2>4. /\ IsDict(lastSighting', Ids, Sighting)
          /\ DOMAIN lastSighting' = DOMAIN lastSighting \cup {key}
          /\ lastSighting'[key].at >= Now(t) /\ lastSighting'[key].late = clock - Now(t)
          /\ \A id \in DOMAIN lastSighting : id # key => lastSighting'[id] = lastSighting[id]
      <3>1. IsDict(Noted(lastSighting, key, t), Ids, Sighting)
        BY <1>0, <2>3, NotedDict
      <3>2. key \in DOMAIN lastSighting => lastSighting[key].at \in Nat
        BY <1>0 DEF IsDict, Sighting
      <3>3. /\ DOMAIN Noted(lastSighting, key, t) = DOMAIN lastSighting \cup {key}
            /\ Noted(lastSighting, key, t)[key].late = clock - Now(t)
            /\ Noted(lastSighting, key, t)[key].at =
                IF key \in DOMAIN lastSighting /\ lastSighting[key].at > Now(t)
                THEN lastSighting[key].at ELSE Now(t)
            /\ \A x \in DOMAIN lastSighting : x # key => Noted(lastSighting, key, t)[x] = lastSighting[x]
        BY DEF Noted, Entry
      <3>4. Noted(lastSighting, key, t)[key].at >= Now(t)
        BY <2>3, <3>2, <3>3
      <3> QED BY <2>1, <3>1, <3>3, <3>4
    <2> SUFFICES ASSUME NEW id \in DOMAIN lastSighting'
                 PROVE  Remembered(lastSighting'[id], MSG_ID_TTL, id \in DOMAIN seenIds', seenIds'[id])
      BY <2>1 DEF RetransmitWindow, Remembered
    <2>5. CASE id = key
      <3>1. lastSighting'[key] \in Sighting /\ lastSighting'[key].at <= clock
        BY <2>1, <2>4 DEF IsDict, SightingsPast
      <3>2. Remembered(lastSighting'[key], MSG_ID_TTL, TRUE, Now(t) + MSG_ID_TTL)
        BY <1>0, <2>3, <2>4, <3>1, KeptStep
      <3> QED BY <2>1, <2>2, <2>5, <3>2 DEF Remembered
    <2>6. CASE id # key
      <3>1. id \in DOMAIN lastSighting /\ lastSighting'[id] = lastSighting[id]
        BY <2>4, <2>6
      <3>2. Remembered(lastSighting[id], MSG_ID_TTL, id \in DOMAIN seenIds, seenIds[id])
        BY <3>1 DEF RetransmitWindow
      <3>3. /\ lastSighting[id].at \in Nat /\ lastSighting[id].late \in Nat
            /\ id \in DOMAIN seenIds => seenIds[id] \in Nat
        BY <1>0, <3>1 DEF IsDict, Sighting
      <3>4. id \in DOMAIN seenIds' => id \in DOMAIN seenIds
        <4>1. DOMAIN LiveIds(Now(t)) \subseteq DOMAIN seenIds
          BY DEF LiveIds
        <4> QED BY <2>1, <2>6, <4>1 DEF Entry
      <3>5. CASE id \in DOMAIN seenIds /\ id \in DOMAIN seenIds' /\ seenIds'[id] = seenIds[id]
        BY <2>1, <3>1, <3>2, <3>5 DEF Remembered
      <3>6. CASE id \in DOMAIN seenIds /\ id \notin DOMAIN seenIds' /\ seenIds[id] <= clock
        BY <1>0, <2>1, <3>1, <3>2, <3>3, <3>6 DEF Remembered
      <3>7. CASE id \notin DOMAIN seenIds
        BY <2>1, <3>1, <3>2, <3>4, <3>7 DEF Remembered
      <3>8. id \in DOMAIN seenIds' /\ id \in DOMAIN seenIds => seenIds'[id] = seenIds[id]
        <4>1. ASSUME id \in DOMAIN seenIds', id \in DOMAIN seenIds
              PROVE  seenIds'[id] = seenIds[id]
          <5>1. id \in DOMAIN LiveIds(Now(t)) /\ seenIds'[id] = LiveIds(Now(t))[id]
            BY <2>1, <2>6, <4>1 DEF Entry
          <5> QED BY <5>1 DEF LiveIds
        <4> QED BY <4>1
      <3> QED BY <2>2, <2>6, <3>5, <3>6, <3>7, <3>8
    <2> QED BY <2>5, <2>6
  <1>2. CASE /\ UNCHANGED <<seenIds, lastSighting>>
             /\ clock' = clock \/ clock' = clock + 1
    <2>1. \A id \in DOMAIN lastSighting :
              lastSighting[id].at \in Nat /\ lastSighting[id].late \in Nat
      BY <1>0 DEF IsDict, Sighting
    <2> QED BY <1>0, <1>2, <2>1 DEF RetransmitWindow, Remembered
  <1> QED BY <1>1, <1>2, StoreSteps

\* The entry of an id lives until MSG_ID_TTL after the latest sighting, less at
\* most what the last caller had waited for the lock.
THEOREM RetransmitCorrect == Spec => []RetransmitWindow
  <1>1. Init => RetransmitWindow /\ SightingsPast
    BY DEF Init, RetransmitWindow, SightingsPast
  <1> QED BY TypeInit, TypeStep, PastStep, RetransmitStep, <1>1, PTL DEF Spec

\* The same for the records: what the table keeps of a text other than the
\* caller's, it keeps unchanged; what it drops has expired by the clock.
LEMMA PrunedRecs ==
    ASSUME TypeInv, NEW t \in Threads, pc[t] = "lock", NEW x \in DOMAIN dedup
    PROVE  \/ x \in DOMAIN LiveRecs(Now(t)) /\ LiveRecs(Now(t))[x] = dedup[x]
           \/ dedup[x].expire <= clock
  <1>1. /\ Now(t) \in Nat /\ Now(t) <= clock /\ clock \in Nat
        /\ IsDict(dedup, Texts, Rec)
    BY TablesDict DEF TypeInv, TypeOK
  <1>2. dedup[x].expire \in Nat
    BY <1>1 DEF IsDict, Rec
  <1>3. CASE dedup[x].expire > Now(t)
    BY <1>3 DEF LiveRecs
  <1>4. CASE dedup[x].expire <= Now(t)
    BY <1>1, <1>2, <1>4
  <1> QED BY <1>1, <1>2, <1>3, <1>4

LEMMA GlobalStep ==
    TypeInv /\ SightingsPast /\ SightingsPast' /\ GlobalWindow /\ [Next]_vars => GlobalWindow'
  <1> SUFFICES ASSUME TypeInv, SightingsPast, SightingsPast', GlobalWindow, [Next]_vars
               PROVE  GlobalWindow'
    OBVIOUS
  <1>0. /\ clock \in Nat /\ IsDict(lastHeard, Texts, Sighting)
        /\ IsDict(dedup, Texts, Rec) /\ GLOBAL_DEDUP_WINDOW \in Nat
        /\ \A x \in DOMAIN lastHeard : lastHeard[x].at \in Nat /\ lastHeard[x].late \in Nat
        /\ \A x \in DOMAIN dedup : dedup[x].expire \in Nat
    BY WindowsAssumption DEF TypeInv, TypeOK, IsDict, Sighting, Rec
  <1>k. \A x \in DOMAIN lastHeard :
            Remembered(lastHeard[x], GLOBAL_DEDUP_WINDOW, x \in DOMAIN dedup, dedup[x].expire)
    BY DEF GlobalWindow
  <1>1. ASSUME NEW t \in Threads, AddRetransmit(t)
        PROVE  GlobalWindow'
    <2>1. pc[t] = "lock" /\ dedup' = LiveRecs(Now(t)) /\ clock' = clock /\ lastHeard' = lastHeard
      BY <1>1 DEF AddRetransmit
    <2>2. DOMAIN dedup' \subseteq DOMAIN dedup /\ \A x \in DOMAIN dedup' : dedup'[x] = dedup[x]
      BY <2>1 DEF LiveRecs
    <2>3. \A x \in DOMAIN dedup : x \in DOMAIN dedup' \/ dedup[x].expire <= clock
      BY <2>1, PrunedRecs
    <2>4. ASSUME NEW x \in DOMAIN lastHeard
          PROVE  Remembered(lastHeard[x], GLOBAL_DEDUP_WINDOW, x \in DOMAIN dedup', dedup'[x].expire)
      <3>1. CASE x \in DOMAIN dedup'
        BY <1>k, <2>2, <3>1 DEF Remembered
      <3>2. CASE x \notin DOMAIN dedup'
        BY <1>0, <1>k, <2>3, <3>2 DEF Remembered
      <3> QED BY <3>1, <3>2
    <2> QED BY <2>1, <2>4 DEF GlobalWindow, Remembered
  <1>2. ASSUME NEW t \in Threads, AddRepeat(t) \/ AddPromote(t) \/ AddNew(t)
        PROVE  GlobalWindow'
    <2> DEFINE key == TextKey(t)
    <2>1. /\ pc[t] = "lock" /\ clock' = clock
          /\ lastHeard' = Noted(lastHeard, key, t)
      BY <1>2 DEF AddRepeat, AddPromote, AddNew, PassFirst
    <2>2. PICK rec : /\ dedup' = Entry(LiveRecs(Now(t)), key, rec)
                     /\ rec.expire = Now(t) + GLOBAL_DEDUP_WINDOW
      <3>1. CASE AddRepeat(t) \/ AddPromote(t)
        BY <3>1 DEF AddRepeat, AddPromote, Widened
      <3>2. CASE AddNew(t)
        BY <3>2 DEF AddNew
      <3> QED BY <1>2, <3>1, <3>2
    <2>3. Now(t) \in Nat /\ Now(t) <= clock /\ key \in Texts
      BY <2>1, TablesDict
    <2> HIDE DEF key
    <2>4. /\ IsDict(lastHeard', Texts, Sighting)
          /\ DOMAIN lastHeard' = DOMAIN lastHeard \cup {key}
          /\ lastHeard'[key].at >= Now(t) /\ lastHeard'[key].late = clock - Now(t)
          /\ \A x \in DOMAIN lastHeard : x # key => lastHeard'[x] = lastHeard[x]
      <3>1. IsDict(Noted(lastHeard, key, t), Texts, Sighting)
        BY <1>0, <2>3, NotedDict
      <3>2. key \in DOMAIN lastHeard => lastHeard[key].at \in Nat
        BY <1>0 DEF IsDict, Sighting
      <3>3. /\ DOMAIN Noted(lastHeard, key, t) = DOMAIN lastHeard \cup {key}
            /\ Noted(lastHeard, key, t)[key].late = clock - Now(t)
            /\ Noted(lastHeard, key, t)[key].at =
                IF key \in DOMAIN lastHeard /\ lastHeard[key].at > Now(t)
                THEN lastHeard[key].at ELSE Now(t)
            /\ \A x \in DOMAIN lastHeard : x # key => Noted(lastHeard, key, t)[x] = lastHeard[x]
        BY DEF Noted, Entry
      <3>4. Noted(lastHeard, key, t)[key].at >= Now(t)
        BY <2>3, <3>2, <3>3
      <3> QED BY <2>1, <3>1, <3>3, <3>4
    <2>5. /\ DOMAIN dedup' \subseteq DOMAIN dedup \cup {key} /\ key \in DOMAIN dedup'
          /\ dedup'[key] = rec
          /\ \A x \in DOMAIN dedup' : x # key => dedup'[x] = dedup[x]
      <3>1. /\ DOMAIN LiveRecs(Now(t)) \subseteq DOMAIN dedup
            /\ \A x \in DOMAIN LiveRecs(Now(t)) : LiveRecs(Now(t))[x] = dedup[x]
        BY DEF LiveRecs
      <3> QED BY <2>2, <3>1 DEF Entry
    <2>6. \A x \in DOMAIN dedup : x \in DOMAIN dedup' \/ dedup[x].expire <= clock
      <3>1. \A x \in DOMAIN dedup : x \in DOMAIN LiveRecs(Now(t)) \/ dedup[x].expire <= clock
        BY <2>1, PrunedRecs
      <3> QED BY <2>2, <3>1 DEF Entry
    <2>7. ASSUME NEW x \in DOMAIN lastHeard'
          PROVE  Remembered(lastHeard'[x], GLOBAL_DEDUP_WINDOW, x \in DOMAIN dedup', dedup'[x].expire)
      <3>1. CASE x = key
        <4>1. lastHeard'[key] \in Sighting /\ lastHeard'[key].at <= clock
          BY <2>1, <2>4 DEF IsDict, SightingsPast
        <4>2. Remembered(lastHeard'[key], GLOBAL_DEDUP_WINDOW, TRUE, Now(t) + GLOBAL_DEDUP_WINDOW)
          BY <1>0, <2>3, <2>4, <4>1, KeptStep
        <4> QED BY <2>2, <2>5, <3>1, <4>2 DEF Remembered
      <3>2. CASE x # key /\ x \in DOMAIN dedup'
        <4>1. /\ x \in DOMAIN lastHeard /\ lastHeard'[x] = lastHeard[x]
              /\ x \in DOMAIN dedup /\ dedup'[x] = dedup[x]
          BY <2>4, <2>5, <3>2
        <4> QED BY <1>k, <3>2, <4>1 DEF Remembered
      <3>3. CASE x # key /\ x \notin DOMAIN dedup'
        <4>1. /\ x \in DOMAIN lastHeard /\ lastHeard'[x] = lastHeard[x]
              /\ x \in DOMAIN dedup => dedup[x].expire <= clock
          BY <2>4, <2>6, <3>3
        <4> QED BY <1>0, <1>k, <3>3, <4>1 DEF Remembered
      <3> QED BY <3>1, <3>2, <3>3
    <2> QED BY <2>1, <2>7 DEF GlobalWindow, Remembered
  <1>3. CASE /\ UNCHANGED <<dedup, lastHeard>>
             /\ clock' = clock \/ clock' = clock + 1
    BY <1>0, <1>3, <1>k DEF GlobalWindow, Remembered
  <1> QED BY <1>1, <1>2, <1>3, StoreSteps

\* The record of a text lives until GLOBAL_DEDUP_WINDOW after a channel last
\* delivered it, less at most what the last caller had waited for the lock.
THEOREM GlobalCorrect == Spec => []GlobalWindow
  <1>1. Init => GlobalWindow /\ SightingsPast
    BY DEF Init, GlobalWindow, SightingsPast
  <1> QED BY TypeInit, TypeStep, PastStep, GlobalStep, <1>1, PTL DEF Spec

-----------------------------------------------------------------------------
(* What a step may do to a stored message *)

LEMMA EarnedStep ==
    ASSUME TypeInv, DedupInv, [Next]_vars, NEW i \in Refs
    PROVE  \/ heap'[i] = heap[i]
           \/ /\ heap'[i] = [heap[i] EXCEPT !.scope = "global"]
              /\ Earned(i)
  <1>1. CASE \E t \in Threads : AddRetransmit(t) \/ AddRepeat(t)
    BY <1>1 DEF AddRetransmit, AddRepeat
  <1>2. ASSUME NEW t \in Threads, AddPromote(t)
        PROVE  \/ heap'[i] = heap[i]
               \/ /\ heap'[i] = [heap[i] EXCEPT !.scope = "global"]
                  /\ Earned(i)
    <2> DEFINE old == dedup[TextKey(t)]
    <2>1. pc[t] = "lock" /\ HeardElsewhere(t) /\ ~old.is_global
      BY <1>2 DEF AddPromote, PassFirst
    <2>2. TextKey(t) \in DOMAIN dedup /\ old.expire > Now(t)
      BY <2>1, WidenedDict
    <2>3. RecOK(TextKey(t), old)
      BY <2>2, DedupPointwise
    <2>4. call[t].channel_id # heap[old.msg].channel_id
      BY <2>1, <2>3 DEF HeardElsewhere, RecOK
    <2>5. Now(t) < heap[old.msg].time + GLOBAL_DEDUP_WINDOW
      <3>1. Now(t) \in Nat /\ heap[old.msg].time \in Nat
        BY <2>1, <2>3, TablesDict, RefMsg DEF RecOK, TypeInv, TypeOK
      <3> QED BY <2>1, <2>2, <2>3, <3>1, WindowsAssumption DEF RecOK
    <2>6. Earned(old.msg)
      BY <2>1, <2>3, <2>4, <2>5 DEF Earned, RecOK, TextKey, Now
    <2>7. heap'[old.msg] = [heap[old.msg] EXCEPT !.scope = "global"]
      BY <1>2, AddPromoteEffect
    <2>8. i # old.msg => heap'[i] = heap[i]
      BY <1>2, AddPromoteEffect
    <2> QED BY <2>6, <2>7, <2>8
  <1>3. CASE \E t \in Threads : AddNew(t)
    BY <1>3, AddNewEffect
  <1>4. CASE UNCHANGED heap
    BY <1>4
  <1> QED BY <1>1, <1>2, <1>3, <1>4, StoreSteps

\* No false promotion, no demotion, no other change of a stored message.
THEOREM PromotionCorrect == Spec => PromotionEarned
  <1>1. Init => DedupInv
    BY DEF Init, DedupInv, DedupConsistent, FreshExpiry
  <1>2. TypeInv /\ DedupInv /\ [Next]_vars =>
          [\A i \in Refs :
              \/ heap'[i] = heap[i]
              \/ /\ heap'[i] = [heap[i] EXCEPT !.scope = "global"]
                 /\ Earned(i)]_vars
    BY EarnedStep
  <1> QED BY TypeInit, TypeStep, DedupStep, <1>1, <1>2, PTL DEF Spec, PromotionEarned

-----------------------------------------------------------------------------
(* Who has been told of what *)

\* The number of a message is its place in the log.
SeqExact == seq = Len(heap) /\ \A i \in Refs : heap[i].seq = i

\* A thread between its locked section and the end of _notify.
Telling(t) == pc[t] \in {"dump", "snapshot", "put"}

\* Queue q holds an event of this type about message i; it holds one that
\* says the message is global.
Told(q, type, i) ==
    \E k \in DOMAIN inbox[q] : inbox[q][k].type = type /\ inbox[q][k].seq = i
ToldGlobal(q, i) ==
    \E k \in DOMAIN inbox[q] : inbox[q][k].scope = "global" /\ inbox[q][k].seq = i

\* An announcement has one author, who has not told anybody it is still going
\* to tell; so nobody is told twice.
OneTeller ==
    \A t, u \in Threads :
        Telling(t) /\ Telling(u) /\ note[t].type = note[u].type /\ note[t].ref = note[u].ref
            => t = u
NotYetTold ==
    \A t \in Threads, q \in Queues :
        Telling(t) /\ Told(q, note[t].type, note[t].ref) => pc[t] = "put" /\ q \notin targets[t]
ToldOnce ==
    \A q \in Queues : \A k, l \in DOMAIN inbox[q] :
        inbox[q][k].type = inbox[q][l].type /\ inbox[q][k].seq = inbox[q][l].seq => k = l

\* What is told, or about to be told, is true of the stored message; and what
\* is put is put for a queue that was registered.
EventTrue(e) ==
    /\ e.seq \in Refs
    /\ e.type = "update" => e.scope = "global"
    /\ e.scope = "global" => heap[e.seq].scope = "global"
EventsTrue == \A q \in Queues : \A k \in DOMAIN inbox[q] : EventTrue(inbox[q][k])
NoteTrue(t) ==
    /\ note[t].type = "update" => heap[note[t].ref].scope = "global"
    /\ pc[t] # "dump" =>
          /\ note[t].type = "update" => note[t].scope = "global"
          /\ note[t].scope = "global" => heap[note[t].ref].scope = "global"
NotesTrue == \A t \in Threads : Telling(t) => NoteTrue(t)
Registered ==
    /\ \A q \in sseQueues : since[q] # 0
    /\ \A t \in Threads : \A q \in targets[t] : since[q] # 0

TellInv == OneTeller /\ NotYetTold /\ ToldOnce /\ EventsTrue /\ NotesTrue /\ Registered

StoreInv == TypeInv /\ DedupInv /\ SeqExact

\* A step that tells nobody anything, and begins or ends no telling.
Still ==
    /\ UNCHANGED <<heap, inbox, sseQueues, since, targets>>
    /\ \A t \in Threads : \/ pc'[t] = pc[t] /\ note'[t] = note[t]
                          \/ ~Telling(t) /\ ~Telling(t)'

LEMMA TellSteps ==
    ASSUME TypeInv, [Next]_vars
    PROVE  \/ Still
           \/ \E t \in Threads : \/ AddNew(t) \/ AddPromote(t) \/ Dump(t) \/ Snapshot(t)
                                 \/ PutDone(t) \/ \E q \in Queues : Put(t, q)
           \/ \E q \in Queues : AddQueue(q) \/ RemoveQueue(q)
  <1> USE DEF sseVars, memVars, callVars, Still, Telling, Goto, Return, TypeInv, TypeOK
  <1>1. CASE Tick \/ UNCHANGED vars
    BY <1>1 DEF Tick, vars
  <1>2. ASSUME NEW t \in Threads, NEW c \in Channels, NEW id \in MsgIds,
               NEW x \in Texts, CallAdd(t, c, id, x)
        PROVE  Still
    BY <1>2 DEF CallAdd
  <1>3. ASSUME NEW t \in Threads, AddRetransmit(t)
        PROVE  Still
    BY <1>3 DEF AddRetransmit
  <1>4. ASSUME NEW t \in Threads, AddRepeat(t)
        PROVE  Still
    BY <1>4 DEF AddRepeat, PassFirst
  <1>5. ASSUME NEW t \in Threads, Save(t)
        PROVE  Still
    BY <1>5 DEF Save
  <1> QED BY <1>1, <1>2, <1>3, <1>4, <1>5 DEF Next, Continue, Locked

LEMMA SeqExactStep == TypeInv /\ SeqExact /\ [Next]_vars => SeqExact'
  <1> SUFFICES ASSUME TypeInv, SeqExact, [Next]_vars PROVE SeqExact'
    OBVIOUS
  <1>1. CASE \E t \in Threads : AddRetransmit(t) \/ AddRepeat(t)
    BY <1>1 DEF AddRetransmit, AddRepeat, SeqExact, Refs
  <1>2. ASSUME NEW t \in Threads, AddPromote(t)
        PROVE  SeqExact'
    <2> DEFINE r == dedup[TextKey(t)].msg
    <2>1. r \in Refs /\ Len(heap') = Len(heap) /\ Refs' = Refs /\ seq' = seq
          /\ \A i \in Refs : i # r => heap'[i] = heap[i]
      BY <1>2, AddPromoteEffect DEF AddPromote
    <2>2. heap'[r] = [heap[r] EXCEPT !.scope = "global"]
      BY <1>2, AddPromoteEffect
    <2>3. heap'[r].seq = heap[r].seq
      BY <2>1, <2>2, RefMsg DEF Msg, TypeInv, TypeOK
    <2> QED BY <2>1, <2>3 DEF SeqExact
  <1>3. ASSUME NEW t \in Threads, AddNew(t)
        PROVE  SeqExact'
    <2>1. /\ Refs' = Refs \cup {Len(heap) + 1} /\ Len(heap') = Len(heap) + 1
          /\ \A i \in Refs : heap'[i] = heap[i]
          /\ heap'[Len(heap) + 1] = NewMsg(t)
      BY <1>3, AddNewEffect
    <2>2. seq' = seq + 1 /\ heap'[Len(heap) + 1].seq = seq + 1
      BY <1>3, <2>1 DEF AddNew, NewMsg
    <2> QED BY <2>1, <2>2 DEF SeqExact
  <1>4. CASE UNCHANGED <<heap, seq>>
    BY <1>4 DEF SeqExact, Refs
  <1> QED BY <1>1, <1>2, <1>3, <1>4, StoreSteps

\* The log only grows, and "global" stays.
LEMMA LogGrows ==
    ASSUME TypeInv, DedupInv, [Next]_vars
    PROVE  \A i \in Refs : i \in Refs' /\ (heap[i].scope = "global" => heap'[i].scope = "global")
  <1> SUFFICES ASSUME NEW i \in Refs
               PROVE  i \in Refs' /\ (heap[i].scope = "global" => heap'[i].scope = "global")
    OBVIOUS
  <1>1. heap'[i] = heap[i] \/ heap'[i] = [heap[i] EXCEPT !.scope = "global"]
    BY EarnedStep
  <1>2. heap[i] \in Msg
    BY RefMsg DEF TypeInv, TypeOK
  <1>3. i \in Refs'
    <2>1. CASE \E t \in Threads : AddRetransmit(t) \/ AddRepeat(t)
      BY <2>1 DEF AddRetransmit, AddRepeat, Refs
    <2>2. CASE \E t \in Threads : AddPromote(t)
      <3>1. PICK t \in Threads : AddPromote(t)
        BY <2>2
      <3>2. Refs' = Refs
        BY <3>1, AddPromoteEffect
      <3> QED BY <3>2
    <2>3. CASE \E t \in Threads : AddNew(t)
      BY <2>3, AddNewEffect
    <2>4. CASE UNCHANGED heap
      BY <2>4 DEF Refs
    <2> QED BY <2>1, <2>2, <2>3, <2>4, StoreSteps
  <1> QED BY <1>1, <1>2, <1>3 DEF Msg

\* The two steps that begin a telling: of a message that nobody is telling or
\* was told of.
Begins(t, type, i) ==
    /\ ~Telling(t)
    /\ pc' = [pc EXCEPT ![t] = "dump"]
    /\ note' = [note EXCEPT ![t] = [type |-> type, ref |-> i, scope |-> "none"]]
    /\ UNCHANGED <<inbox, sseQueues, since, targets>>

LEMMA AddNewBegins ==
    ASSUME TypeInv, NEW t \in Threads, AddNew(t)
    PROVE  Begins(t, "new", Len(heap) + 1)
  BY DEF AddNew, PassFirst, Begins, Telling, Goto, sseVars

LEMMA AddPromoteBegins ==
    ASSUME TypeInv, DedupInv, NEW t \in Threads, AddPromote(t)
    PROVE  LET r == dedup[TextKey(t)].msg IN
           /\ Begins(t, "update", r)
           /\ r \in Refs /\ heap[r].scope # "global" /\ heap'[r].scope = "global"
  <1> DEFINE r == dedup[TextKey(t)].msg
  <1>1. pc[t] = "lock" /\ HeardElsewhere(t) /\ ~dedup[TextKey(t)].is_global
    BY DEF AddPromote, PassFirst
  <1>2. TextKey(t) \in DOMAIN dedup
    BY <1>1, WidenedDict
  <1>3. r \in Refs /\ heap[r].scope # "global"
    BY <1>1, <1>2, DedupPointwise DEF RecOK
  <1>4. heap'[r] = [heap[r] EXCEPT !.scope = "global"]
    BY AddPromoteEffect
  <1>5. heap'[r].scope = "global"
    BY <1>3, <1>4, RefMsg DEF Msg, TypeInv, TypeOK
  <1>6. Begins(t, "update", r)
    BY <1>1 DEF AddPromote, PassFirst, Begins, Telling, Goto, sseVars
  <1> QED BY <1>3, <1>5, <1>6

\* What one put adds to a queue.
LEMMA PutEffect ==
    ASSUME StoreInv, NEW t \in Threads, NEW q \in Queues, Put(t, q)
    PROVE  /\ pc[t] = "put" /\ q \in targets[t] /\ note[t].ref \in Refs
           /\ note[t].type \in {"new", "update"}
           /\ inbox'[q] \in Seq(Events) /\ Len(inbox[q]) \in Nat
           /\ DOMAIN inbox'[q] = DOMAIN inbox[q] \cup {Len(inbox[q]) + 1}
           /\ \A k \in DOMAIN inbox[q] : inbox'[q][k] = inbox[q][k] /\ k # Len(inbox[q]) + 1
           /\ inbox'[q][Len(inbox[q]) + 1] = Event(t)
           /\ Event(t) = [type |-> note[t].type, seq |-> note[t].ref, scope |-> note[t].scope]
           /\ \A p \in Queues : p # q => inbox'[p] = inbox[p]
           /\ targets'[t] = targets[t] \ {q}
           /\ \A u \in Threads : u # t => targets'[u] = targets[u]
           /\ UNCHANGED <<heap, sseQueues, since, pc, note>>
  <1> USE DEF StoreInv, TypeInv
  <1>1. /\ note[t] \in Note /\ note[t].ref \in Refs /\ note[t].scope \in Scopes
        /\ pc[t] = "put" /\ q \in targets[t]
    BY DEF Put, LocalsOK
  <1>2. Event(t) = [type |-> note[t].type, seq |-> note[t].ref, scope |-> note[t].scope]
    BY <1>1 DEF Event, SeqExact
  <1>3. Event(t) \in Events
    BY <1>1, <1>2, RefMsg DEF Events, Note, TypeOK
  <1>4. inbox[q] \in Seq(Events)
    BY DEF TypeOK
  <1>5. inbox'[q] = Append(inbox[q], Event(t)) /\ \A p \in Queues : p # q => inbox'[p] = inbox[p]
    BY DEF Put, TypeOK
  <1> HIDE DEF Event
  <1>6. /\ inbox'[q] \in Seq(Events) /\ Len(inbox[q]) \in Nat
        /\ DOMAIN inbox'[q] = DOMAIN inbox[q] \cup {Len(inbox[q]) + 1}
        /\ \A k \in DOMAIN inbox[q] : inbox'[q][k] = inbox[q][k] /\ k # Len(inbox[q]) + 1
        /\ inbox'[q][Len(inbox[q]) + 1] = Event(t)
    BY <1>3, <1>4, <1>5
  <1>7. /\ targets'[t] = targets[t] \ {q}
        /\ \A u \in Threads : u # t => targets'[u] = targets[u]
        /\ UNCHANGED <<heap, sseQueues, since, pc, note>>
    BY DEF Put, TypeOK, memVars
  <1>8. note[t].type \in {"new", "update"}
    BY <1>1 DEF Note
  <1> QED BY <1>1, <1>2, <1>5, <1>6, <1>7, <1>8

LEMMA PutTold ==
    ASSUME StoreInv, NEW t \in Threads, NEW q \in Queues, Put(t, q)
    PROVE  /\ \A p \in Queues : \A type, i : Told(p, type, i)' <=>
                \/ Told(p, type, i)
                \/ p = q /\ type = note[t].type /\ i = note[t].ref
           /\ \A p \in Queues : \A i : ToldGlobal(p, i)' <=>
                \/ ToldGlobal(p, i)
                \/ p = q /\ note[t].scope = "global" /\ i = note[t].ref
  <1>1. SUFFICES ASSUME NEW p \in Queues, NEW type, NEW i
                 PROVE  /\ Told(p, type, i)' <=>
                             \/ Told(p, type, i)
                             \/ p = q /\ type = note[t].type /\ i = note[t].ref
                        /\ ToldGlobal(p, i)' <=>
                             \/ ToldGlobal(p, i)
                             \/ p = q /\ note[t].scope = "global" /\ i = note[t].ref
    OBVIOUS
  <1>2. CASE p # q
    BY <1>2, PutEffect DEF Told, ToldGlobal
  <1>3. CASE p = q
    <2> DEFINE n == Len(inbox[q]) + 1
    <2>1. /\ DOMAIN inbox'[q] = DOMAIN inbox[q] \cup {n}
          /\ \A k \in DOMAIN inbox[q] : inbox'[q][k] = inbox[q][k]
          /\ inbox'[q][n].type = note[t].type /\ inbox'[q][n].seq = note[t].ref
          /\ inbox'[q][n].scope = note[t].scope
      BY PutEffect
    <2> HIDE DEF n
    <2> QED BY <1>3, <2>1 DEF Told, ToldGlobal
  <1> QED BY <1>2, <1>3

\* What is told stays true as the log grows.
LEMMA StaysTrue ==
    ASSUME StoreInv, TellInv, [Next]_vars
    PROVE  /\ \A q \in Queues : \A k \in DOMAIN inbox[q] : EventTrue(inbox[q][k])'
                \/ inbox'[q][k] # inbox[q][k]
           /\ \A t \in Threads : Telling(t) => note[t].ref \in Refs
           /\ \A t \in Threads :
                Telling(t) /\ pc'[t] = pc[t] /\ note'[t] = note[t] => NoteTrue(t)'
  <1>1. \A i \in Refs : i \in Refs' /\ (heap[i].scope = "global" => heap'[i].scope = "global")
    BY LogGrows DEF StoreInv
  <1>2. \A t \in Threads : Telling(t) => note[t].ref \in Refs
    BY DEF StoreInv, TypeInv, LocalsOK, Telling
  <1>3. ASSUME NEW q \in Queues, NEW k \in DOMAIN inbox[q], inbox'[q][k] = inbox[q][k]
        PROVE  EventTrue(inbox[q][k])'
    <2>1. EventTrue(inbox[q][k])
      BY DEF TellInv, EventsTrue
    <2> QED BY <1>1, <1>3, <2>1 DEF EventTrue
  <1>4. ASSUME NEW t \in Threads, Telling(t), pc'[t] = pc[t], note'[t] = note[t]
        PROVE  NoteTrue(t)'
    <2>1. NoteTrue(t) /\ note[t].ref \in Refs
      BY <1>2, <1>4 DEF TellInv, NotesTrue
    <2> QED BY <1>1, <1>4, <2>1 DEF NoteTrue
  <1> QED BY <1>2, <1>3, <1>4

\* A step that leaves every queue alone keeps what is said of the events.
LEMMA SameInbox ==
    ASSUME StoreInv, TellInv, [Next]_vars, inbox' = inbox
    PROVE  /\ ToldOnce' /\ EventsTrue'
           /\ \A q \in Queues : \A type, i : Told(q, type, i)' <=> Told(q, type, i)
  <1>1. ToldOnce' /\ \A q \in Queues : \A type, i : Told(q, type, i)' <=> Told(q, type, i)
    BY DEF TellInv, ToldOnce, Told
  <1>2. EventsTrue'
    BY StaysTrue DEF EventsTrue
  <1> QED BY <1>1, <1>2

LEMMA BeginTells ==
    ASSUME StoreInv, TellInv, [Next]_vars,
           NEW t \in Threads, NEW type, NEW i, Begins(t, type, i),
           \A u \in Threads : ~(Telling(u) /\ note[u].type = type /\ note[u].ref = i),
           \A q \in Queues : ~Told(q, type, i),
           type = "update" => heap'[i].scope = "global"
    PROVE  TellInv'
  <1>1. /\ inbox' = inbox /\ sseQueues' = sseQueues /\ since' = since /\ targets' = targets
        /\ pc'[t] = "dump" /\ note'[t] = [type |-> type, ref |-> i, scope |-> "none"]
        /\ ~Telling(t) /\ Telling(t)'
        /\ \A u \in Threads : u # t => /\ pc'[u] = pc[u] /\ note'[u] = note[u]
                                       /\ Telling(u)' <=> Telling(u)
    BY DEF Begins, StoreInv, TypeInv, TypeOK, Telling
  <1>2. /\ ToldOnce' /\ EventsTrue'
        /\ \A q \in Queues : \A ty, j : Told(q, ty, j)' <=> Told(q, ty, j)
    BY <1>1, SameInbox
  <1>3. OneTeller'
    BY <1>1 DEF TellInv, OneTeller
  <1>4. NotYetTold'
    BY <1>1, <1>2 DEF TellInv, NotYetTold
  <1>5. NotesTrue'
    <2> SUFFICES ASSUME NEW u \in Threads, Telling(u)' PROVE NoteTrue(u)'
      BY DEF NotesTrue
    <2>1. CASE u = t
      BY <1>1, <2>1 DEF NoteTrue
    <2>2. CASE u # t
      BY <1>1, <2>2, StaysTrue
    <2> QED BY <2>1, <2>2
  <1>6. Registered'
    BY <1>1 DEF TellInv, Registered
  <1> QED BY <1>2, <1>3, <1>4, <1>5, <1>6 DEF TellInv

LEMMA TellStep == StoreInv /\ TellInv /\ [Next]_vars => TellInv'
  <1> SUFFICES ASSUME StoreInv, TellInv, [Next]_vars PROVE TellInv'
    OBVIOUS
  <1>t. TypeInv /\ TypeOK
    BY DEF StoreInv, TypeInv
  <1>1. CASE Still
    <2>1. inbox' = inbox /\ sseQueues' = sseQueues /\ since' = since /\ targets' = targets
      BY <1>1 DEF Still
    <2>2. \A t \in Threads : Telling(t)' =>
              Telling(t) /\ pc'[t] = pc[t] /\ note'[t] = note[t]
      BY <1>1 DEF Still, Telling
    <2>3. /\ ToldOnce' /\ EventsTrue'
          /\ \A q \in Queues : \A ty, j : Told(q, ty, j)' <=> Told(q, ty, j)
      BY <2>1, SameInbox
    <2>4. OneTeller' /\ NotYetTold'
      BY <2>1, <2>2, <2>3 DEF TellInv, OneTeller, NotYetTold
    <2>5. NotesTrue'
      BY <2>2, StaysTrue DEF NotesTrue
    <2>6. Registered'
      BY <2>1 DEF TellInv, Registered
    <2> QED BY <2>3, <2>4, <2>5, <2>6 DEF TellInv
  <1>2. ASSUME NEW t \in Threads, AddNew(t)
        PROVE  TellInv'
    <2> DEFINE n == Len(heap) + 1
    <2>1. Begins(t, "new", n)
      BY <1>t, <1>2, AddNewBegins
    <2>2. \A i \in Refs : i # n
      BY <1>t, <1>2, AddNewEffect
    <2>3. \A u \in Threads : ~(Telling(u) /\ note[u].type = "new" /\ note[u].ref = n)
      BY <2>2, StaysTrue
    <2>4. \A q \in Queues : ~Told(q, "new", n)
      BY <2>2 DEF TellInv, EventsTrue, EventTrue, Told
    <2> HIDE DEF n
    <2> QED BY <2>1, <2>3, <2>4, BeginTells
  <1>3. ASSUME NEW t \in Threads, AddPromote(t)
        PROVE  TellInv'
    <2> DEFINE r == dedup[TextKey(t)].msg
    <2>1. /\ Begins(t, "update", r)
          /\ r \in Refs /\ heap[r].scope # "global" /\ heap'[r].scope = "global"
      BY <1>3, AddPromoteBegins DEF StoreInv
    <2>2. \A u \in Threads : ~(Telling(u) /\ note[u].type = "update" /\ note[u].ref = r)
      BY <2>1 DEF TellInv, NotesTrue, NoteTrue
    <2>3. \A q \in Queues : ~Told(q, "update", r)
      BY <2>1 DEF TellInv, EventsTrue, EventTrue, Told
    <2> HIDE DEF r
    <2> QED BY <2>1, <2>2, <2>3, BeginTells
  <1>4. ASSUME NEW t \in Threads, Dump(t) \/ Snapshot(t) \/ PutDone(t)
        PROVE  TellInv'
    <2>1. /\ inbox' = inbox /\ sseQueues' = sseQueues /\ since' = since /\ heap' = heap
          /\ \A u \in Threads : u # t =>
                pc'[u] = pc[u] /\ note'[u] = note[u] /\ targets'[u] = targets[u]
                /\ (Telling(u)' <=> Telling(u))
          /\ Telling(t)
          /\ Telling(t)' => note'[t].type = note[t].type /\ note'[t].ref = note[t].ref
          /\ pc'[t] # "dump" /\ (pc'[t] = "put" => pc[t] = "snapshot")
          /\ targets'[t] \in {targets[t], sseQueues}
      <3>1. CASE Dump(t)
        BY <1>t, <3>1 DEF Dump, Goto, memVars, sseVars, TypeOK, Telling
      <3>2. CASE Snapshot(t)
        BY <1>t, <3>2 DEF Snapshot, Goto, memVars, sseVars, TypeOK, Telling
      <3>3. CASE PutDone(t)
        BY <1>t, <3>3 DEF PutDone, Goto, Return, memVars, sseVars, TypeOK, Telling
      <3> QED BY <1>4, <3>1, <3>2, <3>3
    <2>2. /\ ToldOnce' /\ EventsTrue'
          /\ \A q \in Queues : \A ty, j : Told(q, ty, j)' <=> Told(q, ty, j)
      BY <2>1, SameInbox
    <2>3. OneTeller'
      BY <2>1 DEF TellInv, OneTeller
    <2>4. NotYetTold'
      <3> SUFFICES ASSUME NEW u \in Threads, NEW q \in Queues,
                          Telling(u)', Told(q, note[u].type, note[u].ref)'
                   PROVE  pc'[u] = "put" /\ q \notin targets'[u]
        BY DEF NotYetTold
      <3>1. Telling(u) /\ Told(q, note[u].type, note[u].ref)
        BY <2>1, <2>2
      <3>2. pc[u] = "put" /\ q \notin targets[u]
        BY <3>1 DEF TellInv, NotYetTold
      <3>3. u # t
        <4>1. CASE Dump(t) \/ Snapshot(t)
          BY <3>2, <4>1 DEF Dump, Snapshot
        <4>2. CASE PutDone(t)
          BY <1>t, <4>2 DEF PutDone, Goto, Return, Telling, TypeOK
        <4> QED BY <1>4, <4>1, <4>2
      <3> QED BY <2>1, <3>2, <3>3
    <2>5. NotesTrue'
      <3> SUFFICES ASSUME NEW u \in Threads, Telling(u)' PROVE NoteTrue(u)'
        BY DEF NotesTrue
      <3>1. CASE u # t
        BY <2>1, <3>1, StaysTrue
      <3>2. CASE u = t
        <4>1. NoteTrue(t)
          BY <2>1 DEF TellInv, NotesTrue
        <4>2. note[t] \in Note
          BY <2>1, <1>t DEF TypeInv, LocalsOK, Telling
        <4>3. CASE Dump(t)
          BY <1>t, <2>1, <3>2, <4>1, <4>2, <4>3 DEF Dump, NoteTrue, TypeOK, Note
        <4>4. CASE Snapshot(t) \/ PutDone(t)
          BY <1>t, <2>1, <3>2, <4>1, <4>4 DEF Snapshot, PutDone, NoteTrue, Goto, Return, TypeOK, Telling
        <4> QED BY <1>4, <4>3, <4>4
      <3> QED BY <3>1, <3>2
    <2>6. Registered'
      BY <2>1 DEF TellInv, Registered
    <2> QED BY <2>2, <2>3, <2>4, <2>5, <2>6 DEF TellInv
  <1>5. ASSUME NEW t \in Threads, NEW q \in Queues, Put(t, q)
        PROVE  TellInv'
    <2> DEFINE n == Len(inbox[q]) + 1
    <2>1. /\ pc[t] = "put" /\ q \in targets[t] /\ note[t].ref \in Refs
          /\ targets'[t] = targets[t] \ {q}
          /\ \A u \in Threads : u # t => targets'[u] = targets[u]
          /\ heap' = heap /\ sseQueues' = sseQueues /\ since' = since /\ pc' = pc /\ note' = note
      BY <1>5, PutEffect
    <2>2. /\ DOMAIN inbox'[q] = DOMAIN inbox[q] \cup {n}
          /\ \A k \in DOMAIN inbox[q] : inbox'[q][k] = inbox[q][k] /\ k # n
          /\ inbox'[q][n] = [type |-> note[t].type, seq |-> note[t].ref, scope |-> note[t].scope]
          /\ \A p \in Queues : p # q => inbox'[p] = inbox[p]
      BY <1>5, PutEffect
    <2>3. \A p \in Queues : \A type, i : Told(p, type, i)' <=>
              Told(p, type, i) \/ (p = q /\ type = note[t].type /\ i = note[t].ref)
      BY <1>5, PutTold
    <2> HIDE DEF n
    <2>4. Telling(t) /\ ~Told(q, note[t].type, note[t].ref)
      BY <2>1 DEF Telling, TellInv, NotYetTold
    <2>5. OneTeller'
      BY <2>1 DEF TellInv, OneTeller, Telling
    <2>6. NotYetTold'
      <3> SUFFICES ASSUME NEW u \in Threads, NEW p \in Queues,
                          Telling(u), Told(p, note[u].type, note[u].ref)'
                   PROVE  pc[u] = "put" /\ p \notin targets'[u]
        BY <2>1 DEF NotYetTold, Telling
      <3>1. CASE Told(p, note[u].type, note[u].ref)
        BY <2>1, <3>1 DEF TellInv, NotYetTold
      <3>2. CASE p = q /\ note[u].type = note[t].type /\ note[u].ref = note[t].ref
        <4>1. u = t
          BY <2>4, <3>2 DEF TellInv, OneTeller
        <4> QED BY <2>1, <3>2, <4>1
      <3> QED BY <2>1, <2>3, <3>1, <3>2
    <2>7. ToldOnce'
      <3> SUFFICES ASSUME NEW p \in Queues, NEW k \in DOMAIN inbox'[p], NEW l \in DOMAIN inbox'[p],
                          inbox'[p][k].type = inbox'[p][l].type, inbox'[p][k].seq = inbox'[p][l].seq
                   PROVE  k = l
        BY DEF ToldOnce
      <3>1. CASE p # q
        BY <2>2, <3>1 DEF TellInv, ToldOnce
      <3>2. CASE p = q /\ k # n /\ l # n
        BY <2>2, <3>2 DEF TellInv, ToldOnce
      <3>3. CASE p = q /\ (k = n \/ l = n)
        BY <2>2, <2>4, <3>3 DEF Told
      <3> QED BY <3>1, <3>2, <3>3
    <2>8. EventsTrue'
      <3> SUFFICES ASSUME NEW p \in Queues, NEW k \in DOMAIN inbox'[p]
                   PROVE  EventTrue(inbox[p][k])'
        BY DEF EventsTrue
      <3>1. CASE p = q /\ k = n
        <4>1. NoteTrue(t)
          BY <2>4 DEF TellInv, NotesTrue
        <4> QED BY <2>1, <2>2, <3>1, <4>1 DEF EventTrue, NoteTrue, Refs
      <3>2. CASE k \in DOMAIN inbox[p] /\ inbox'[p][k] = inbox[p][k]
        BY <3>2, StaysTrue
      <3> QED BY <2>2, <3>1, <3>2
    <2>9. NotesTrue'
      BY <2>1, StaysTrue DEF NotesTrue, Telling
    <2>10. Registered'
      BY <2>1 DEF TellInv, Registered
    <2> QED BY <2>5, <2>6, <2>7, <2>8, <2>9, <2>10 DEF TellInv
  <1>6. ASSUME NEW q \in Queues, AddQueue(q) \/ RemoveQueue(q)
        PROVE  TellInv'
    <2>1. /\ inbox' = inbox /\ heap' = heap /\ pc' = pc /\ note' = note /\ targets' = targets
          /\ \A p \in Queues : since[p] # 0 => since'[p] # 0
          /\ \A p \in sseQueues' : since'[p] # 0
      BY <1>t, <1>6 DEF AddQueue, RemoveQueue, memVars, callVars, TypeOK, TellInv, Registered
    <2>2. /\ ToldOnce' /\ EventsTrue'
          /\ \A p \in Queues : \A ty, j : Told(p, ty, j)' <=> Told(p, ty, j)
      BY <2>1, SameInbox
    <2>3. OneTeller' /\ NotYetTold'
      BY <2>1, <2>2 DEF TellInv, OneTeller, NotYetTold, Telling
    <2>4. NotesTrue'
      BY <2>1, StaysTrue DEF NotesTrue, Telling
    <2>5. Registered'
      BY <1>t, <2>1 DEF TellInv, Registered, TypeOK
    <2> QED BY <2>2, <2>3, <2>4, <2>5 DEF TellInv
  <1> QED BY <1>t, <1>1, <1>2, <1>3, <1>4, <1>5, <1>6, TellSteps

LEMMA StoreInvInit == Init => StoreInv
  <1> SUFFICES ASSUME Init PROVE StoreInv
    OBVIOUS
  <1>1. TypeInv
    BY TypeInit
  <1>2. DedupInv
    BY DEF Init, DedupInv, DedupConsistent, FreshExpiry
  <1>3. SeqExact
    BY DEF Init, SeqExact, Refs
  <1> QED BY <1>1, <1>2, <1>3 DEF StoreInv

LEMMA StoreInvStep == StoreInv /\ [Next]_vars => StoreInv'
  BY TypeStep, DedupStep, SeqExactStep DEF StoreInv

LEMMA TellInit == Init => TellInv
  BY DEF Init, TellInv, OneTeller, NotYetTold, ToldOnce, EventsTrue, NotesTrue, Registered,
         Telling, Told

\* Nobody is told anything twice, or anything that is not so.
THEOREM AnnouncedCorrect == Spec => []AnnouncedOnce
  <1>1. StoreInv /\ TellInv => AnnouncedOnce
    <2> SUFFICES ASSUME StoreInv, TellInv, NEW q \in Queues, NEW k \in DOMAIN inbox[q]
                 PROVE  LET e == inbox[q][k] IN
                        /\ \E i \in Refs : heap[i].seq = e.seq
                                /\ (e.scope = "global" => heap[i].scope = "global")
                        /\ Heard(q, e.type, e.seq) = {k}
      BY DEF AnnouncedOnce
    <2>1. EventTrue(inbox[q][k])
      BY DEF TellInv, EventsTrue
    <2>2. inbox[q][k].seq \in Refs /\ heap[inbox[q][k].seq].seq = inbox[q][k].seq
      BY <2>1 DEF EventTrue, StoreInv, SeqExact
    <2>3. \A l \in DOMAIN inbox[q] :
              inbox[q][l].type = inbox[q][k].type /\ inbox[q][l].seq = inbox[q][k].seq => l = k
      BY DEF TellInv, ToldOnce
    <2>4. Heard(q, inbox[q][k].type, inbox[q][k].seq) = {k}
      BY <2>3 DEF Heard
    <2> QED BY <2>1, <2>2, <2>4 DEF EventTrue
  <1> QED BY StoreInvInit, StoreInvStep, TellInit, TellStep, <1>1, PTL DEF Spec

-----------------------------------------------------------------------------
(* Nobody is left out *)

\* Thread t has still to tell queue q: it will copy the list of queues, or has
\* copied it with q in it and has not come to q yet.
WillTell(t, q, type, i) ==
    /\ Telling(t) /\ note[t].type = type /\ note[t].ref = i
    /\ pc[t] = "put" => q \in targets[t]

CoveredBy(q, i) ==
    /\ Told(q, "new", i) \/ \E t \in Threads : WillTell(t, q, "new", i)
    /\ heap[i].scope = "global" =>
          ToldGlobal(q, i) \/ \E t \in Threads : WillTell(t, q, "update", i)

\* A message stored since q was registered has reached q, or somebody is on
\* the way to tell it; and so has its promotion.
Coverage == \A q \in sseQueues : \A i \in Refs : i >= since[q] => CoveredBy(q, i)

\* A step keeps what covers a message when the log says no more of it, no
\* event leaves a queue, and no teller of it gives up.
LEMMA CoverKept ==
    ASSUME NEW q, NEW i, CoveredBy(q, i),
           heap'[i].scope = "global" => heap[i].scope = "global",
           Told(q, "new", i) => Told(q, "new", i)',
           ToldGlobal(q, i) => ToldGlobal(q, i)',
           \A t \in Threads :
              /\ WillTell(t, q, "new", i) => WillTell(t, q, "new", i)' \/ Told(q, "new", i)'
              /\ WillTell(t, q, "update", i) => WillTell(t, q, "update", i)' \/ ToldGlobal(q, i)'
    PROVE  CoveredBy(q, i)'
  BY DEF CoveredBy

LEMMA CoverageStep == StoreInv /\ TellInv /\ Coverage /\ [Next]_vars => Coverage'
  <1> SUFFICES ASSUME StoreInv, TellInv, Coverage, [Next]_vars,
                      NEW q \in sseQueues', NEW i \in Refs', i >= since'[q]
               PROVE  CoveredBy(q, i)'
    BY DEF Coverage
  <1>t. TypeInv /\ TypeOK
    BY DEF StoreInv, TypeInv
  <1>1. CASE Still
    <2>1. /\ inbox' = inbox /\ heap' = heap /\ q \in sseQueues /\ i \in Refs /\ i >= since[q]
          /\ targets' = targets
          /\ \A t \in Threads : Telling(t) =>
                Telling(t)' /\ pc'[t] = pc[t] /\ note'[t] = note[t]
      BY <1>1 DEF Still, Telling, Refs
    <2>2. CoveredBy(q, i)
      BY <2>1 DEF Coverage
    <2>3. (Told(q, "new", i) <=> Told(q, "new", i)') /\ (ToldGlobal(q, i) <=> ToldGlobal(q, i)')
      BY <2>1 DEF Told, ToldGlobal
    <2>4. \A t \in Threads : \A type : WillTell(t, q, type, i) => WillTell(t, q, type, i)'
      BY <2>1 DEF WillTell
    <2> QED BY <2>1, <2>2, <2>3, <2>4, CoverKept
  <1>2. ASSUME NEW t \in Threads, AddNew(t)
        PROVE  CoveredBy(q, i)'
    <2> DEFINE n == Len(heap) + 1
    <2>1. Begins(t, "new", n)
      BY <1>t, <1>2, AddNewBegins
    <2>2. /\ Refs' = Refs \cup {n}
          /\ \A j \in Refs : heap'[j] = heap[j]
          /\ heap'[n] = NewMsg(t)
      BY <1>t, <1>2, AddNewEffect
    <2>3. heap'[n].scope = "server"
      BY <2>2 DEF NewMsg
    <2> HIDE DEF n
    <2>4. /\ pc'[t] = "dump" /\ note'[t] = [type |-> "new", ref |-> n, scope |-> "none"]
          /\ \A u \in Threads : u # t => pc'[u] = pc[u] /\ note'[u] = note[u]
          /\ inbox' = inbox /\ sseQueues' = sseQueues /\ since' = since /\ targets' = targets
          /\ ~Telling(t)
      BY <1>t, <2>1 DEF Begins, TypeOK
    <2>5. CASE i = n
      BY <2>3, <2>4, <2>5 DEF CoveredBy, WillTell, Telling
    <2>6. CASE i \in Refs
      <3>1. CoveredBy(q, i)
        BY <2>4, <2>6 DEF Coverage
      <3>2. (Told(q, "new", i) <=> Told(q, "new", i)') /\ (ToldGlobal(q, i) <=> ToldGlobal(q, i)')
        BY <2>4 DEF Told, ToldGlobal
      <3>3. \A u \in Threads : \A type : WillTell(u, q, type, i) => WillTell(u, q, type, i)'
        BY <2>4 DEF WillTell, Telling
      <3> QED BY <2>2, <2>6, <3>1, <3>2, <3>3, CoverKept
    <2> QED BY <2>2, <2>5, <2>6
  <1>3. ASSUME NEW t \in Threads, AddPromote(t)
        PROVE  CoveredBy(q, i)'
    <2> DEFINE r == dedup[TextKey(t)].msg
    <2>1. /\ Begins(t, "update", r)
          /\ r \in Refs /\ heap'[r].scope = "global"
      BY <1>3, AddPromoteBegins DEF StoreInv
    <2>2. Refs' = Refs /\ \A j \in Refs : j # r => heap'[j] = heap[j]
      BY <1>t, <1>3, AddPromoteEffect
    <2> HIDE DEF r
    <2>3. /\ pc'[t] = "dump" /\ note'[t] = [type |-> "update", ref |-> r, scope |-> "none"]
          /\ \A u \in Threads : u # t => pc'[u] = pc[u] /\ note'[u] = note[u]
          /\ inbox' = inbox /\ sseQueues' = sseQueues /\ since' = since /\ targets' = targets
          /\ ~Telling(t)
      BY <1>t, <2>1 DEF Begins, TypeOK
    <2>4. CoveredBy(q, i)
      BY <2>2, <2>3 DEF Coverage
    <2>5. (Told(q, "new", i) <=> Told(q, "new", i)') /\ (ToldGlobal(q, i) <=> ToldGlobal(q, i)')
      BY <2>3 DEF Told, ToldGlobal
    <2>6. \A u \in Threads : \A type : WillTell(u, q, type, i) => WillTell(u, q, type, i)'
      BY <2>3 DEF WillTell, Telling
    <2>7. CASE i # r
      BY <2>2, <2>4, <2>5, <2>6, <2>7, CoverKept
    <2>8. CASE i = r
      <3>1. WillTell(t, q, "update", i)'
        BY <2>3, <2>8 DEF WillTell, Telling
      <3> QED BY <2>4, <2>5, <2>6, <3>1 DEF CoveredBy
    <2> QED BY <2>7, <2>8
  <1>4. ASSUME NEW t \in Threads, Dump(t) \/ Snapshot(t) \/ PutDone(t)
        PROVE  CoveredBy(q, i)'
    <2>1. /\ inbox' = inbox /\ heap' = heap /\ q \in sseQueues /\ i \in Refs /\ i >= since[q]
          /\ \A u \in Threads : u # t =>
                pc'[u] = pc[u] /\ note'[u] = note[u] /\ targets'[u] = targets[u]
      <3>1. CASE Dump(t)
        BY <1>t, <3>1 DEF Dump, Goto, memVars, sseVars, TypeOK, Refs
      <3>2. CASE Snapshot(t)
        BY <1>t, <3>2 DEF Snapshot, Goto, memVars, sseVars, TypeOK, Refs
      <3>3. CASE PutDone(t)
        BY <1>t, <3>3 DEF PutDone, Goto, Return, memVars, sseVars, TypeOK, Refs
      <3> QED BY <1>4, <3>1, <3>2, <3>3
    <2>2. CoveredBy(q, i)
      BY <2>1 DEF Coverage
    <2>3. (Told(q, "new", i) <=> Told(q, "new", i)') /\ (ToldGlobal(q, i) <=> ToldGlobal(q, i)')
      BY <2>1 DEF Told, ToldGlobal
    <2>4. \A type : WillTell(t, q, type, i) => WillTell(t, q, type, i)'
      <3>1. CASE Dump(t)
        BY <1>t, <3>1 DEF Dump, Goto, TypeOK, WillTell, Telling
      <3>2. CASE Snapshot(t)
        BY <1>t, <2>1, <3>2 DEF Snapshot, Goto, TypeOK, WillTell, Telling
      <3>3. CASE PutDone(t)
        BY <3>3 DEF PutDone, WillTell
      <3> QED BY <1>4, <3>1, <3>2, <3>3
    <2>5. \A u \in Threads : \A type : WillTell(u, q, type, i) => WillTell(u, q, type, i)'
      BY <2>1, <2>4 DEF WillTell, Telling
    <2> QED BY <2>1, <2>2, <2>3, <2>5, CoverKept
  <1>5. ASSUME NEW t \in Threads, NEW p \in Queues, Put(t, p)
        PROVE  CoveredBy(q, i)'
    <2>1. /\ targets'[t] = targets[t] \ {p}
          /\ \A u \in Threads : u # t => targets'[u] = targets[u]
          /\ heap' = heap /\ sseQueues' = sseQueues /\ since' = since /\ pc' = pc /\ note' = note
      BY <1>5, PutEffect
    <2>2. q \in Queues /\ q \in sseQueues /\ CoveredBy(q, i)
      BY <1>t, <2>1 DEF Coverage, TypeOK, Refs
    <2>3. /\ \A type, j : Told(q, type, j)' <=>
              Told(q, type, j) \/ (q = p /\ type = note[t].type /\ j = note[t].ref)
          /\ \A j : ToldGlobal(q, j)' <=>
              ToldGlobal(q, j) \/ (q = p /\ note[t].scope = "global" /\ j = note[t].ref)
      BY <1>5, <2>2, PutTold
    <2>4. ASSUME NEW u \in Threads, NEW type, WillTell(u, q, type, i), ~WillTell(u, q, type, i)'
          PROVE  u = t /\ q = p /\ note[t].type = type /\ note[t].ref = i
      BY <2>1, <2>4 DEF WillTell, Telling
    <2>5. pc[t] = "put" /\ (note[t].type = "update" => note[t].scope = "global")
      BY <1>5, PutEffect DEF TellInv, NotesTrue, NoteTrue, Telling
    <2> QED BY <2>1, <2>2, <2>3, <2>4, <2>5, CoverKept
  <1>6. ASSUME NEW p \in Queues, AddQueue(p) \/ RemoveQueue(p)
        PROVE  CoveredBy(q, i)'
    <2>1. /\ inbox' = inbox /\ heap' = heap /\ pc' = pc /\ note' = note /\ targets' = targets
          /\ Len(heap) \in Nat /\ i \in Refs
      BY <1>t, <1>6 DEF AddQueue, RemoveQueue, memVars, callVars, TypeOK, Refs
    <2>2. q \in sseQueues /\ since'[q] = since[q]
      <3>1. CASE AddQueue(p)
        <4>1. q # p
          BY <1>t, <2>1, <3>1 DEF AddQueue, TypeOK, Refs
        <4> QED BY <1>t, <3>1, <4>1 DEF AddQueue, TypeOK
      <3>2. CASE RemoveQueue(p)
        BY <3>2 DEF RemoveQueue
      <3> QED BY <1>6, <3>1, <3>2
    <2>3. CoveredBy(q, i)
      BY <2>1, <2>2 DEF Coverage
    <2> QED BY <2>1, <2>3 DEF CoveredBy, Told, ToldGlobal, WillTell, Telling
  <1> QED BY <1>t, <1>1, <1>2, <1>3, <1>4, <1>5, <1>6, TellSteps

\* Once no call of add() is under way, every registered queue has the
\* announcement of every message stored since it came, and every promotion.
THEOREM NobodyMissed == Spec => []NoSubscriberMissed
  <1>1. Init => Coverage
    BY DEF Init, Coverage, Refs
  <1>2. StoreInv /\ Coverage => NoSubscriberMissed
    <2> SUFFICES ASSUME StoreInv, Coverage, Quiet,
                        NEW q \in sseQueues, NEW i \in Refs, i >= since[q]
                 PROVE  /\ Heard(q, "new", heap[i].seq) # {}
                        /\ heap[i].scope = "global" =>
                              \E k \in DOMAIN inbox[q] :
                                  inbox[q][k].seq = heap[i].seq /\ inbox[q][k].scope = "global"
      BY DEF NoSubscriberMissed
    <2>1. CoveredBy(q, i) /\ heap[i].seq = i
      BY DEF Coverage, StoreInv, SeqExact
    <2>2. \A t \in Threads : ~Telling(t)
      BY DEF Quiet, Telling
    <2>3. Told(q, "new", i) /\ (heap[i].scope = "global" => ToldGlobal(q, i))
      BY <2>1, <2>2 DEF CoveredBy, WillTell
    <2> QED BY <2>1, <2>3 DEF Told, ToldGlobal, Heard
  <1> QED BY StoreInvInit, StoreInvStep, TellInit, TellStep, CoverageStep, <1>1, <1>2, PTL DEF Spec

-----------------------------------------------------------------------------
(* The store implements the feed *)

\* The names of StoreFeed's mapping.
HeardOf == [q \in Queues |-> About(q, "new")]
ToldOf == [q \in Queues |-> About(q, "update")]
Entries == [channel_id : Channels, text : Texts, scope : Scopes]

\* The log is as long as the heap, and shows three fields of each message.
LogShaped ==
    /\ LogOf \in Seq(Entries) /\ Len(LogOf) = Len(heap) /\ DOMAIN LogOf = Refs
    /\ \A i \in Refs : LogOf[i] = [channel_id |-> heap[i].channel_id,
                                   text |-> heap[i].text, scope |-> heap[i].scope]

LEMMA LogShape == TypeOK => LogShaped
  <1> SUFFICES ASSUME TypeOK PROVE LogShaped
    OBVIOUS
  <1>1. heap \in Seq(Msg) /\ DOMAIN heap = 1..Len(heap) /\ Len(heap) \in Nat
    BY DEF TypeOK
  <1>2. \A i \in 1..Len(heap) : heap[i] \in Msg
    BY <1>1
  <1>3. LogOf \in [1..Len(heap) -> Entries]
    BY <1>1, <1>2 DEF LogOf, Entries, Msg
  <1>4. LogOf \in Seq(Entries) /\ Len(LogOf) = Len(heap) /\ DOMAIN LogOf = 1..Len(heap)
    BY <1>1, <1>3 DEF LogOf
  <1> QED BY <1>1, <1>4 DEF LogOf, LogShaped, Refs

\* With SeqExact a number is an index, so what is told of is what has an event.
LEMMA AboutTold ==
    StoreInv => \A p \in Queues, type \in {"new", "update"} :
                    About(p, type) = {i \in Refs : Told(p, type, i)}
  <1> SUFFICES ASSUME StoreInv, NEW q \in Queues, NEW type \in {"new", "update"}
               PROVE  About(q, type) = {i \in Refs : Told(q, type, i)}
    OBVIOUS
  <1>1. heap \in Seq(Msg)
    BY DEF StoreInv, TypeInv, TypeOK
  <1>2. DOMAIN heap = Refs
    BY <1>1 DEF Refs
  <1>3. \A i \in Refs : heap[i].seq = i
    BY DEF StoreInv, SeqExact
  <1> QED BY <1>2, <1>3 DEF About, Told

LEMMA FeedInit == Init => Feed!Init
  <1> SUFFICES ASSUME Init PROVE Feed!Init
    OBVIOUS
  <1>1. heap = << >> /\ sseQueues = {} /\ since = [q \in Queues |-> 0]
    BY DEF Init
  <1>2. LogOf = << >>
    BY <1>1 DEF LogOf
  <1>3. \A q, type : About(q, type) = {}
    BY <1>1 DEF About
  <1> QED BY <1>1, <1>2, <1>3 DEF Feed!Init

\* Steps that change neither the heap nor a queue change neither the log nor
\* what anybody has heard.
LEMMA FeedSame ==
    ASSUME StoreInv, heap' = heap, inbox' = inbox
    PROVE  LogOf' = LogOf /\ HeardOf' = HeardOf /\ ToldOf' = ToldOf
  BY DEF LogOf, HeardOf, ToldOf, About

\* Storing a message is publishing it.
LEMMA FeedPublish ==
    ASSUME StoreInv, StoreInv', TellInv, NEW t \in Threads, AddNew(t)
    PROVE  Feed!Publish(call[t].channel_id, TextKey(t))
  <1>t. TypeInv /\ TypeOK /\ TypeOK'
    BY DEF StoreInv, TypeInv
  <1>s. LogShaped'
    <2>1. (TypeOK => LogShaped)'
      BY LogShape, PTL
    <2> QED BY <1>t, <2>1
  <1>a. \A q \in Queues, type \in {"new", "update"} :
            About(q, type)' = {i \in Refs' : Told(q, type, i)'}
    <2>1. (StoreInv => \A p \in Queues, type \in {"new", "update"} :
                           About(p, type) = {i \in Refs : Told(p, type, i)})'
      BY AboutTold, PTL
    <2> QED BY <2>1
  <1> DEFINE e == [channel_id |-> call[t].channel_id, text |-> TextKey(t), scope |-> "server"]
             n == Len(heap) + 1
  <1>1. /\ Refs' = Refs \cup {n} /\ Len(heap') = n /\ Len(heap) \in Nat
        /\ \A i \in Refs : heap'[i] = heap[i] /\ i # n
        /\ heap'[n] = NewMsg(t)
    BY <1>t, AddNewEffect
  <1>2. UNCHANGED <<inbox, sseQueues, since>>
    BY <1>t, AddNewBegins DEF Begins
  <1>3. LogOf' = Append(LogOf, e)
    <2>1. /\ LogOf \in Seq(Entries) /\ Len(LogOf) = Len(heap) /\ DOMAIN LogOf = Refs
          /\ \A i \in Refs : LogOf[i] = [channel_id |-> heap[i].channel_id,
                                         text |-> heap[i].text, scope |-> heap[i].scope]
      BY <1>t, LogShape DEF LogShaped
    <2>2. /\ LogOf' \in Seq(Entries) /\ Len(LogOf') = n /\ DOMAIN LogOf' = Refs'
          /\ \A i \in Refs' : LogOf'[i] = [channel_id |-> heap'[i].channel_id,
                                           text |-> heap'[i].text, scope |-> heap'[i].scope]
      BY <1>1, <1>s DEF LogShaped
    <2>3. \A i \in Refs : LogOf'[i] = LogOf[i]
      BY <1>1, <2>1, <2>2
    <2>4. LogOf'[n] = e
      BY <1>1, <2>2 DEF NewMsg
    <2>5. e \in Entries
      <3>1. LogOf'[n] \in Entries
        BY <1>1, <2>2
      <3> QED BY <2>4, <3>1
    <2> HIDE DEF e
    <2>6. /\ Append(LogOf, e) \in Seq(Entries) /\ Len(Append(LogOf, e)) = n
          /\ \A i \in Refs : Append(LogOf, e)[i] = LogOf[i]
          /\ Append(LogOf, e)[n] = e
      BY <1>1, <2>1, <2>5 DEF Refs
    <2>7. \A i \in 1..n : LogOf'[i] = Append(LogOf, e)[i]
      BY <1>1, <2>3, <2>4, <2>6 DEF Refs
    <2> QED BY <2>2, <2>6, <2>7
  <1>4. HeardOf' = HeardOf /\ ToldOf' = ToldOf
    <2>1. ASSUME NEW q \in Queues, NEW type \in {"new", "update"}
          PROVE  About(q, type)' = About(q, type)
      <3>1. \A i : Told(q, type, i) => i \in Refs
        BY DEF TellInv, EventsTrue, EventTrue, Told
      <3>2. \A i : Told(q, type, i)' <=> Told(q, type, i)
        BY <1>2 DEF Told
      <3>3. About(q, type)' = {i \in Refs' : Told(q, type, i)'}
        BY <1>a
      <3>4. About(q, type) = {i \in Refs : Told(q, type, i)}
        BY AboutTold
      <3> QED BY <1>1, <3>1, <3>2, <3>3, <3>4
    <2> QED BY <2>1 DEF HeardOf, ToldOf
  <1> QED BY <1>2, <1>3, <1>4 DEF Feed!Publish, HeardOf, ToldOf

\* Making a message global is promoting it.
LEMMA FeedPromote ==
    ASSUME StoreInv, StoreInv', TellInv, NEW t \in Threads, AddPromote(t)
    PROVE  \E i \in DOMAIN LogOf : Feed!Promote(i)
  <1>t. TypeInv /\ TypeOK /\ TypeOK'
    BY DEF StoreInv, TypeInv
  <1>s. LogShaped'
    <2>1. (TypeOK => LogShaped)'
      BY LogShape, PTL
    <2> QED BY <1>t, <2>1
  <1>a. \A q \in Queues, type \in {"new", "update"} :
            About(q, type)' = {i \in Refs' : Told(q, type, i)'}
    <2>1. (StoreInv => \A p \in Queues, type \in {"new", "update"} :
                           About(p, type) = {i \in Refs : Told(p, type, i)})'
      BY AboutTold, PTL
    <2> QED BY <2>1
  <1> DEFINE r == dedup[TextKey(t)].msg
  <1>1. /\ Begins(t, "update", r)
        /\ r \in Refs /\ heap[r].scope # "global" /\ heap'[r].scope = "global"
    BY AddPromoteBegins DEF StoreInv
  <1>2. Refs' = Refs /\ Len(heap') = Len(heap) /\ \A i \in Refs : i # r => heap'[i] = heap[i]
    BY <1>t, AddPromoteEffect
  <1>3. heap'[r] = [heap[r] EXCEPT !.scope = "global"]
    BY <1>t, AddPromoteEffect
  <1> HIDE DEF r
  <1>4. heap[r].scope = "server"
    BY <1>1, <1>t, RefMsg DEF TypeOK, Scopes
  <1>5. LogOf' = [LogOf EXCEPT ![r].scope = "global"] /\ LogOf[r].scope = "server"
    <2>1. /\ LogOf \in Seq(Entries) /\ DOMAIN LogOf = Refs
          /\ \A i \in Refs : LogOf[i] = [channel_id |-> heap[i].channel_id,
                                         text |-> heap[i].text, scope |-> heap[i].scope]
      BY <1>t, LogShape DEF LogShaped
    <2>2. /\ DOMAIN LogOf' = Refs /\ LogOf' \in Seq(Entries)
          /\ \A i \in Refs : LogOf'[i] = [channel_id |-> heap'[i].channel_id,
                                          text |-> heap'[i].text, scope |-> heap'[i].scope]
      BY <1>2, <1>s DEF LogShaped
    <2>3. heap[r] \in Msg
      BY <1>1, <1>t, RefMsg DEF TypeOK
    <2>4. LogOf'[r] = [LogOf[r] EXCEPT !.scope = "global"]
      BY <1>1, <1>3, <2>1, <2>2, <2>3 DEF Msg
    <2>5. \A i \in Refs : i # r => LogOf'[i] = LogOf[i]
      BY <1>2, <2>1, <2>2
    <2>6. LogOf = [i \in Refs |-> LogOf[i]] /\ LogOf' = [i \in Refs |-> LogOf'[i]]
      BY <2>1, <2>2
    <2>7. LogOf[r].scope = "server"
      BY <1>1, <1>4, <2>1
    <2> QED BY <2>1, <2>2, <2>4, <2>5, <2>6, <2>7
  <1>6. UNCHANGED <<inbox, sseQueues, since>>
    BY <1>1 DEF Begins
  <1>7. HeardOf' = HeardOf /\ ToldOf' = ToldOf
    <2>1. ASSUME NEW q \in Queues, NEW type \in {"new", "update"}
          PROVE  About(q, type)' = About(q, type)
      <3>1. About(q, type)' = {i \in Refs' : Told(q, type, i)'}
        BY <1>a
      <3>2. About(q, type) = {i \in Refs : Told(q, type, i)}
        BY AboutTold
      <3> QED BY <1>2, <1>6, <3>1, <3>2 DEF Told
    <2> QED BY <2>1 DEF HeardOf, ToldOf
  <1>8. r \in DOMAIN LogOf
    BY <1>1, <1>t, LogShape DEF LogShaped
  <1> QED BY <1>5, <1>6, <1>7, <1>8 DEF Feed!Promote, HeardOf, ToldOf

\* Putting an event into a queue is telling the subscriber of it.
LEMMA FeedHear ==
    ASSUME StoreInv, StoreInv', TellInv, NEW t \in Threads, NEW q \in Queues, Put(t, q)
    PROVE  \E i \in DOMAIN LogOf : Feed!Hear(q, i) \/ Feed!Tell(q, i)
  <1>t. TypeInv /\ TypeOK /\ TypeOK'
    BY DEF StoreInv, TypeInv
  <1>s. LogShaped'
    <2>1. (TypeOK => LogShaped)'
      BY LogShape, PTL
    <2> QED BY <1>t, <2>1
  <1>a. \A p \in Queues, type \in {"new", "update"} :
            About(p, type)' = {i \in Refs' : Told(p, type, i)'}
    <2>1. (StoreInv => \A p \in Queues, type \in {"new", "update"} :
                           About(p, type) = {i \in Refs : Told(p, type, i)})'
      BY AboutTold, PTL
    <2> QED BY <2>1
  <1> DEFINE r == note[t].ref
  <1>1. /\ pc[t] = "put" /\ q \in targets[t] /\ r \in Refs /\ note[t].type \in {"new", "update"}
        /\ UNCHANGED <<heap, sseQueues, since, pc, note>>
    BY PutEffect
  <1>2. \A p \in Queues : \A type, i : Told(p, type, i)' <=>
            Told(p, type, i) \/ (p = q /\ type = note[t].type /\ i = r)
    BY PutTold
  <1>3. ~Told(q, note[t].type, r) /\ since[q] # 0 /\ NoteTrue(t)
    BY <1>1 DEF TellInv, NotYetTold, Registered, NotesTrue, Telling
  <1>4. Refs' = Refs /\ LogOf' = LogOf /\ r \in DOMAIN LogOf
    BY <1>t, <1>1, LogShape DEF LogShaped, Refs, LogOf
  <1> HIDE DEF r
  <1>5. ASSUME NEW p \in Queues, NEW type \in {"new", "update"}
        PROVE  About(p, type)' = IF p = q /\ type = note[t].type
                                 THEN About(p, type) \cup {r} ELSE About(p, type)
    <2>1. About(p, type)' = {i \in Refs' : Told(p, type, i)'}
      BY <1>a
    <2>2. About(p, type) = {i \in Refs : Told(p, type, i)}
      BY AboutTold
    <2> QED BY <1>1, <1>2, <1>4, <2>1, <2>2
  <1>6. r \notin About(q, note[t].type)
    BY <1>1, <1>3, AboutTold
  <1>7. CASE note[t].type = "new"
    <2>1. HeardOf' = [HeardOf EXCEPT ![q] = @ \cup {r}] /\ ToldOf' = ToldOf
      BY <1>5, <1>7 DEF HeardOf, ToldOf
    <2>2. r \notin HeardOf[q]
      BY <1>6, <1>7 DEF HeardOf
    <2>3. Feed!Hear(q, r)
      BY <1>1, <1>3, <1>4, <2>1, <2>2 DEF Feed!Hear, HeardOf, ToldOf
    <2> QED BY <1>4, <2>3
  <1>8. CASE note[t].type = "update"
    <2>1. ToldOf' = [ToldOf EXCEPT ![q] = @ \cup {r}] /\ HeardOf' = HeardOf
      BY <1>5, <1>8 DEF HeardOf, ToldOf
    <2>2. r \notin ToldOf[q]
      BY <1>6, <1>8 DEF ToldOf
    <2>3. LogOf[r].scope = "global"
      <3>1. heap[r].scope = "global"
        BY <1>3, <1>8 DEF NoteTrue, r
      <3> QED BY <1>t, <1>1, <3>1, LogShape DEF LogShaped, r
    <2>4. Feed!Tell(q, r)
      BY <1>1, <1>3, <1>4, <2>1, <2>2, <2>3 DEF Feed!Tell, HeardOf, ToldOf
    <2> QED BY <1>4, <2>4
  <1> QED BY <1>1, <1>7, <1>8

LEMMA FeedStep ==
    StoreInv /\ StoreInv' /\ TellInv /\ [Next]_vars => [Feed!Next]_(Feed!vars)
  <1> SUFFICES ASSUME StoreInv, StoreInv', TellInv, [Next]_vars
               PROVE  Feed!Next \/ UNCHANGED Feed!vars
    OBVIOUS
  <1>t. TypeInv /\ TypeOK
    BY DEF StoreInv, TypeInv
  <1>1. CASE Still
    BY <1>1, FeedSame DEF Still, Feed!vars, HeardOf, ToldOf
  <1>2. ASSUME NEW t \in Threads, AddNew(t)
        PROVE  Feed!Next
    <2>1. call[t].channel_id \in Channels /\ TextKey(t) \in Texts
      BY <1>t, <1>2, TablesDict DEF AddNew, PassFirst
    <2> QED BY <1>2, <2>1, FeedPublish DEF Feed!Next
  <1>3. ASSUME NEW t \in Threads, AddPromote(t)
        PROVE  Feed!Next
    BY <1>3, FeedPromote DEF Feed!Next
  <1>4. ASSUME NEW t \in Threads, Dump(t) \/ Snapshot(t) \/ PutDone(t)
        PROVE  UNCHANGED Feed!vars
    <2>1. UNCHANGED <<heap, inbox, sseQueues, since>>
      BY <1>4 DEF Dump, Snapshot, PutDone, memVars, sseVars
    <2> QED BY <2>1, FeedSame DEF Feed!vars, HeardOf, ToldOf
  <1>5. ASSUME NEW t \in Threads, NEW q \in Queues, Put(t, q)
        PROVE  Feed!Next
    BY <1>5, FeedHear DEF Feed!Next
  <1>6. ASSUME NEW q \in Queues, AddQueue(q) \/ RemoveQueue(q)
        PROVE  Feed!Next
    <2>1. UNCHANGED <<heap, inbox>>
      BY <1>6 DEF AddQueue, RemoveQueue, memVars
    <2>2. LogOf' = LogOf /\ HeardOf' = HeardOf /\ ToldOf' = ToldOf /\ Len(LogOf) = Len(heap)
      BY <1>t, <2>1, FeedSame, LogShape DEF LogShaped
    <2>3. CASE AddQueue(q)
      <3>1. Len(LogOf) + 1 = 1 + Len(heap)
        BY <1>t, <2>2 DEF TypeOK
      <3>2. Feed!Subscribe(q)
        BY <2>2, <2>3, <3>1 DEF AddQueue, Feed!Subscribe, HeardOf, ToldOf
      <3> QED BY <3>2 DEF Feed!Next
    <2>4. CASE RemoveQueue(q)
      <3>1. Feed!Unsubscribe(q)
        BY <2>2, <2>4 DEF RemoveQueue, Feed!Unsubscribe, HeardOf, ToldOf
      <3> QED BY <3>1 DEF Feed!Next
    <2> QED BY <1>6, <2>3, <2>4
  <1> QED BY <1>t, <1>1, <1>2, <1>3, <1>4, <1>5, <1>6, TellSteps

\* Threads, clocks, records, retransmits and queues together do nothing that
\* the feed does not promise.
THEOREM FeedCorrect == Spec => ImplementsFeed
  <1>1. Spec => [](StoreInv /\ TellInv)
    BY StoreInvInit, StoreInvStep, TellInit, TellStep, PTL DEF Spec
  <1>2. [](StoreInv /\ TellInv) /\ [][Next]_vars => [][Feed!Next]_(Feed!vars)
    BY FeedStep, PTL
  <1> QED BY FeedInit, <1>1, <1>2, PTL DEF Spec, ImplementsFeed, Feed!Spec
=============================================================================
