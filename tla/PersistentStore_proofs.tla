------------------------ MODULE PersistentStore_proofs ------------------------
(***************************************************************************)
(* Theorems of PersistentStore, for any number of threads and channels,    *)
(* any capacity, interval and bounds, and a disk that may fail.            *)
(***************************************************************************)
EXTENDS PersistentStore, FiniteSetTheorems, SequenceTheorems, TLAPS

-----------------------------------------------------------------------------
(* The helpers: order, deques, and what the load makes of a list *)

\* A finite set of integers can be listed in increasing order: an element's
\* place is the number of elements up to it.
LEMMA OrderedExists ==
    ASSUME NEW P \in SUBSET Int, IsFiniteSet(P)
    PROVE  \E s \in [1..Cardinality(P) -> P] :
              \A i, j \in DOMAIN s : i < j => s[i] < s[j]
  <1> DEFINE n == Cardinality(P)
             UpTo(i) == {j \in P : j <= i}
             rank == [i \in P |-> Cardinality(UpTo(i))]
             s == [k \in 1..n |-> CHOOSE i \in P : rank[i] = k]
  <1>0. n \in Nat
    BY FS_CardinalityType
  <1>1. \A i \in P : IsFiniteSet(UpTo(i)) /\ rank[i] \in 1..n
    <2>1. TAKE i \in P
    <2>2. UpTo(i) \in SUBSET P /\ i \in UpTo(i)
      BY <2>1
    <2>3. IsFiniteSet(UpTo(i)) /\ Cardinality(UpTo(i)) <= n
      BY <2>2, FS_Subset
    <2>4. Cardinality(UpTo(i)) \in Nat /\ Cardinality(UpTo(i)) # 0
      BY <2>2, <2>3, FS_CardinalityType, FS_EmptySet
    <2> QED BY <1>0, <2>1, <2>3, <2>4
  <1>2. ASSUME NEW i \in P, NEW j \in P, i < j
        PROVE  rank[i] < rank[j]
    <2>0. \A k \in P : k <= i => k <= j
      <3>1. i \in Int /\ j \in Int /\ \A k \in P : k \in Int
        OBVIOUS
      <3> QED BY <1>2, <3>1
    <2>1. UpTo(i) \in SUBSET UpTo(j)
      BY <2>0
    <2>2. j \in UpTo(j) /\ j \notin UpTo(i)
      BY <1>2
    <2>3. Cardinality(UpTo(i)) <= Cardinality(UpTo(j)) /\ Cardinality(UpTo(i)) # Cardinality(UpTo(j))
      BY <1>1, <2>1, <2>2, FS_Subset
    <2>4. rank[i] = Cardinality(UpTo(i)) /\ rank[j] = Cardinality(UpTo(j))
      OBVIOUS
    <2>5. rank[i] \in Int /\ rank[j] \in Int
      BY <1>0, <1>1
    <2> HIDE DEF rank, UpTo
    <2> QED BY <2>3, <2>4, <2>5
  <1>3. rank \in Injection(P, 1..n)
    <2>1. rank \in [P -> 1..n]
      BY <1>1
    <2>2. \A i, j \in P : rank[i] = rank[j] => i = j
      <3>1. \A i \in P : rank[i] \in Int
        BY <1>0, <1>1
      <3> HIDE DEF rank
      <3> QED BY <1>2, <3>1
    <2> QED BY <2>1, <2>2 DEF Injection, IsInjective
  <1>4. \A k \in 1..n : \E i \in P : rank[i] = k
    <2>1. IsFiniteSet(1..n) /\ Cardinality(1..n) = n
      BY <1>0, FS_Interval
    <2>2. rank \in Surjection(P, 1..n)
      BY <1>3, <2>1, FS_Injection
    <2> QED BY <2>2 DEF Surjection
  <1> HIDE DEF rank
  <1>5. \A k \in 1..n : s[k] \in P /\ rank[s[k]] = k
    BY <1>4
  <1>6. s \in [1..n -> P]
    BY <1>5
  <1>7. \A i, j \in DOMAIN s : i < j => s[i] < s[j]
    <2>1. SUFFICES ASSUME NEW i \in 1..n, NEW j \in 1..n, i < j
                   PROVE  s[i] < s[j]
      OBVIOUS
    <2>2. s[i] \in P /\ s[j] \in P /\ rank[s[i]] = i /\ rank[s[j]] = j
      BY <1>5
    <2> HIDE DEF s
    <2>3. s[j] < s[i] => j < i
      BY <1>2, <2>2
    <2>4. s[i] # s[j]
      BY <2>1, <2>2
    <2>5. s[i] \in Int /\ s[j] \in Int
      BY <2>2
    <2> QED BY <1>0, <2>1, <2>3, <2>4, <2>5
  <1> QED BY <1>6, <1>7

\* ... and Ordered(P) is that list: it has every element once.
LEMMA OrderedCorrect ==
    ASSUME NEW P \in SUBSET Int, IsFiniteSet(P)
    PROVE  /\ Cardinality(P) \in Nat
           /\ Ordered(P) \in [1..Cardinality(P) -> P]
           /\ \A i, j \in 1..Cardinality(P) : i < j => Ordered(P)[i] < Ordered(P)[j]
           /\ \A p \in P : \E i \in 1..Cardinality(P) : Ordered(P)[i] = p
  <1> DEFINE n == Cardinality(P)
             o == Ordered(P)
  <1>0. n \in Nat
    BY FS_CardinalityType
  <1>1. o \in [1..n -> P] /\ \A i, j \in DOMAIN o : i < j => o[i] < o[j]
    BY OrderedExists DEF Ordered
  <1> HIDE DEF o
  <1>2. o \in Injection(1..n, P)
    <2>1. \A i, j \in 1..n : o[i] = o[j] => i = j
      <3>1. \A i \in 1..n : o[i] \in Int
        BY <1>1
      <3> QED BY <1>0, <1>1, <3>1
    <2> QED BY <1>1, <2>1 DEF Injection, IsInjective
  <1>3. o \in Surjection(1..n, P)
    <2>1. Cardinality(1..n) = n
      BY <1>0, FS_Interval
    <2> QED BY <1>2, <2>1, FS_Injection
  <1> QED BY <1>0, <1>1, <1>3 DEF Surjection, o

\* The places of a list with some property.
LEMMA PlacesFinite ==
    ASSUME NEW T, NEW s \in Seq(T), NEW P \in SUBSET DOMAIN s
    PROVE  P \in SUBSET Int /\ IsFiniteSet(P) /\ DOMAIN s = 1..Len(s) /\ Len(s) \in Nat
  <1>1. DOMAIN s = 1..Len(s) /\ Len(s) \in Nat
    BY LenProperties
  <1>2. IsFiniteSet(1..Len(s))
    BY <1>1, FS_Interval
  <1> QED BY <1>1, <1>2, FS_Subset

\* The end of a list: what is left out is at its beginning.
LEMMA LastOfShape ==
    ASSUME NEW T, NEW s \in Seq(T), NEW n \in Nat
    PROVE  \E d \in 0..Len(s) :
              /\ LastOf(s, n) \in [1..(Len(s) - d) -> T]
              /\ \A i \in 1..(Len(s) - d) : LastOf(s, n)[i] = s[i + d]
              /\ d = 0 => LastOf(s, n) = s
              /\ d > 0 => n > 0 /\ Len(s) - d = n
              /\ n > 0 => Len(s) - d <= n
  <1>1. Len(s) \in Nat /\ s \in [1..Len(s) -> T]
    BY LenProperties
  <1>2. CASE n > 0 /\ Len(s) > n
    <2>1. LastOf(s, n) = SubSeq(s, Len(s) - n + 1, Len(s))
      BY <1>2 DEF LastOf
    <2>2. SubSeq(s, Len(s) - n + 1, Len(s)) \in [1..n -> T]
      <3>1. \A i \in 1..n : i + (Len(s) - n) \in 1..Len(s)
        BY <1>1, <1>2
      <3>2. SubSeq(s, Len(s) - n + 1, Len(s)) = [i \in 1..n |-> s[i + (Len(s) - n)]]
        BY <1>1, <1>2
      <3> QED BY <1>1, <3>1, <3>2
    <2>3. \A i \in 1..n : SubSeq(s, Len(s) - n + 1, Len(s))[i] = s[i + (Len(s) - n)]
      BY <1>1, <1>2
    <2>4. PICK d : d = Len(s) - n
      OBVIOUS
    <2>5. d \in 0..Len(s) /\ d > 0 /\ Len(s) - d = n
      BY <1>1, <1>2, <2>4
    <2>6. LastOf(s, n) \in [1..(Len(s) - d) -> T]
      BY <2>1, <2>2, <2>5
    <2>7. \A i \in 1..(Len(s) - d) : LastOf(s, n)[i] = s[i + d]
      BY <2>1, <2>3, <2>4, <2>5
    <2>8. d # 0 /\ n <= n
      BY <2>5
    <2> QED BY <1>2, <2>5, <2>6, <2>7, <2>8
  <1>3. CASE ~(n > 0 /\ Len(s) > n)
    <2>1. LastOf(s, n) = s
      BY <1>3 DEF LastOf
    <2>2. PICK d : d = 0
      OBVIOUS
    <2>3. d \in 0..Len(s) /\ Len(s) - d = Len(s) /\ ~(d > 0) /\ \A i \in 1..Len(s) : i + d = i
      BY <1>1, <2>2
    <2>4. n > 0 => Len(s) <= n
      BY <1>1, <1>3
    <2>5. LastOf(s, n) \in [1..(Len(s) - d) -> T]
      BY <1>1, <2>1, <2>3
    <2>6. \A i \in 1..(Len(s) - d) : LastOf(s, n)[i] = s[i + d]
      BY <2>1, <2>3
    <2> QED BY <2>1, <2>3, <2>4, <2>5, <2>6
  <1> QED BY <1>2, <1>3

\* What the end of a list inherits.
LEMMA LastOfCorrect ==
    ASSUME NEW T, NEW s \in Seq(T), NEW n \in Nat,
           \A i \in 1..Len(s) : s[i].seq \in Int
    PROVE  /\ LastOf(s, n) \in Seq(T)
           /\ Range(LastOf(s, n)) \subseteq Range(s)
           /\ Increasing(s) => Increasing(LastOf(s, n))
           /\ n > 0 => Len(LastOf(s, n)) <= n
           /\ n = 0 => LastOf(s, n) = s
  <1> DEFINE l == LastOf(s, n)
  <1>1. Len(s) \in Nat /\ s \in [1..Len(s) -> T]
    BY LenProperties
  <1>2. PICK d \in 0..Len(s) :
              /\ l \in [1..(Len(s) - d) -> T]
              /\ \A i \in 1..(Len(s) - d) : l[i] = s[i + d]
              /\ d = 0 => l = s
              /\ d > 0 => n > 0 /\ Len(s) - d = n
              /\ n > 0 => Len(s) - d <= n
    BY LastOfShape
  <1> HIDE DEF l
  <1>3. Len(s) - d \in Nat /\ \A i \in 1..(Len(s) - d) : i + d \in 1..Len(s)
    BY <1>1
  <1>4. l \in Seq(T) /\ Len(l) = Len(s) - d /\ DOMAIN l = 1..(Len(s) - d)
    <2>1. l \in Seq(T)
      BY <1>2, <1>3, SeqDef
    <2>2. DOMAIN l = 1..Len(l) /\ Len(l) \in Nat
      BY <2>1, LenProperties
    <2> QED BY <1>2, <1>3, <2>1, <2>2
  <1>5. Range(l) \subseteq Range(s)
    BY <1>1, <1>2, <1>3, <1>4 DEF Range
  <1>6. ASSUME Increasing(s) PROVE Increasing(l)
    <2>1. SUFFICES ASSUME NEW i \in 1..(Len(s) - d), NEW j \in 1..(Len(s) - d), i < j
                   PROVE  l[i].seq < l[j].seq
      BY <1>4 DEF Increasing
    <2>2. i + d \in 1..Len(s) /\ j + d \in 1..Len(s) /\ i + d < j + d
      BY <1>1, <1>3, <2>1
    <2> QED BY <1>1, <1>2, <1>6, <2>2 DEF Increasing
  <1>7. n = 0 => l = s
    <2>1. n = 0 => d = 0
      BY <1>2
    <2> QED BY <1>2, <2>1
  <1>8. n > 0 => Len(l) <= n
    BY <1>2, <1>4
  <1> QED BY <1>4, <1>5, <1>6, <1>7, <1>8 DEF l

\* The load makes a key of every channel of the list.
LEMMA FirstKeysCorrect ==
    ASSUME NEW ms \in Seq(Msg)
    PROVE  /\ FirstKeys(ms) \in Seq(Channels)
           /\ \A i \in 1..Len(ms) : ms[i].channel_id \in Range(FirstKeys(ms))
  <1> DEFINE firsts == {i \in DOMAIN ms :
                           \A j \in 1..(i - 1) : ms[j].channel_id # ms[i].channel_id}
             f == Ordered(firsts)
             n == Cardinality(firsts)
             ks == [k \in DOMAIN f |-> ms[f[k]].channel_id]
  <1>1. DOMAIN ms = 1..Len(ms) /\ Len(ms) \in Nat
    BY LenProperties
  <1>2. firsts \in SUBSET DOMAIN ms
    OBVIOUS
  <1>3. firsts \in SUBSET Int /\ IsFiniteSet(firsts)
    BY <1>2, PlacesFinite
  <1>4. /\ n \in Nat /\ f \in [1..n -> firsts]
        /\ \A p \in firsts : \E k \in 1..n : f[k] = p
    BY <1>3, OrderedCorrect
  <1>5. FirstKeys(ms) = ks
    BY DEF FirstKeys
  <1>6. \A i \in DOMAIN ms : ms[i].channel_id \in Channels
    <2>1. \A i \in DOMAIN ms : ms[i] \in Msg
      BY ElementOfSeq, <1>1
    <2> QED BY <2>1 DEF Msg
  <1>7. ks \in Seq(Channels)
    <2>1. ks \in [1..n -> Channels]
      BY <1>2, <1>4, <1>6
    <2> HIDE DEF ks, n
    <2> QED BY <1>4, <2>1, SeqDef
  <1>8. ASSUME NEW i \in 1..Len(ms)
        PROVE  ms[i].channel_id \in Range(ks)
    <2> DEFINE same == {j \in DOMAIN ms : ms[j].channel_id = ms[i].channel_id}
               o == Ordered(same)
               m == Cardinality(same)
    <2>1. same \in SUBSET DOMAIN ms /\ i \in same
      BY <1>1
    <2>2. same \in SUBSET Int /\ IsFiniteSet(same)
      BY <2>1, PlacesFinite
    <2>3. /\ m \in Nat /\ o \in [1..m -> same]
          /\ \A a, b \in 1..m : a < b => o[a] < o[b]
          /\ \A p \in same : \E k \in 1..m : o[k] = p
      BY <2>2, OrderedCorrect
    <2> HIDE DEF o, m
    <2>4. 1 \in 1..m /\ o[1] \in same
      BY <2>1, <2>3
    <2>5. \A j \in same : o[1] <= j
      <3>1. TAKE j \in same
      <3>2. PICK k \in 1..m : o[k] = j
        BY <2>3, <3>1
      <3>3. k = 1 \/ 1 < k
        BY <2>3, <3>2
      <3>4. o[1] \in Int /\ o[k] \in Int
        BY <2>2, <2>3, <2>4
      <3> QED BY <2>3, <2>4, <3>2, <3>3, <3>4
    <2>6. o[1] \in firsts
      <3>1. ASSUME NEW j \in 1..(o[1] - 1) PROVE ms[j].channel_id # ms[o[1]].channel_id
        <4>1. o[1] \in 1..Len(ms)
          BY <1>1, <2>4
        <4>2. j \in 1..Len(ms) /\ j < o[1]
          BY <1>1, <4>1
        <4>3. j \notin same
          BY <2>5, <4>1, <4>2
        <4> QED BY <1>1, <2>4, <4>2, <4>3
      <3> QED BY <2>4, <3>1
    <2>7. PICK k \in 1..n : f[k] = o[1]
      BY <1>4, <2>6
    <2>8. ks[k] = ms[i].channel_id /\ k \in DOMAIN ks
      BY <1>4, <2>4, <2>7
    <2> QED BY <2>8 DEF Range
  <1> QED BY <1>5, <1>7, <1>8

\* The load gives a channel the last of its messages in the list, in its order.
LEMMA OfChannelCorrect ==
    ASSUME NEW T \in SUBSET Msg, NEW ms \in Seq(T), NEW c \in Channels
    PROVE  /\ OfChannel(ms, c) \in Seq(T)
           /\ Range(OfChannel(ms, c)) \subseteq Range(ms)
           /\ \A m \in Range(OfChannel(ms, c)) : m.channel_id = c
           /\ Increasing(ms) => Increasing(OfChannel(ms, c))
           /\ Len(OfChannel(ms, c)) <= MAX_MESSAGES_PER_CHANNEL
  <1> DEFINE places == {i \in DOMAIN ms : ms[i].channel_id = c}
             f == Ordered(places)
             n == Cardinality(places)
             own == [k \in DOMAIN f |-> ms[f[k]]]
  <1>1. DOMAIN ms = 1..Len(ms) /\ Len(ms) \in Nat
    BY LenProperties
  <1>2. places \in SUBSET DOMAIN ms
    OBVIOUS
  <1>3. places \in SUBSET Int /\ IsFiniteSet(places)
    BY <1>2, PlacesFinite
  <1>4. /\ n \in Nat /\ f \in [1..n -> places]
        /\ \A a, b \in 1..n : a < b => f[a] < f[b]
    BY <1>3, OrderedCorrect
  <1>5. OfChannel(ms, c) = LastOf(own, MAX_MESSAGES_PER_CHANNEL)
    BY DEF OfChannel
  <1>6. \A i \in DOMAIN ms : ms[i] \in T
    BY ElementOfSeq, <1>1
  <1>7. own \in [1..n -> T] /\ DOMAIN own = 1..n
    BY <1>2, <1>4, <1>6
  <1>8. own \in Seq(T) /\ Len(own) = n
    <2>1. own \in Seq(T)
      BY <1>4, <1>7, SeqDef
    <2>2. DOMAIN own = 1..Len(own) /\ Len(own) \in Nat
      BY <2>1, LenProperties
    <2> QED BY <1>4, <1>7, <2>1, <2>2
  <1>9. \A k \in 1..n : f[k] \in DOMAIN ms /\ own[k] = ms[f[k]] /\ own[k].channel_id = c
    BY <1>4
  <1> HIDE DEF own, f
  <1>10. Range(own) \subseteq Range(ms) /\ \A m \in Range(own) : m.channel_id = c
    BY <1>7, <1>9 DEF Range
  <1>11. Increasing(ms) => Increasing(own)
    BY <1>4, <1>7, <1>9 DEF Increasing
  <1>12. \A i \in 1..Len(own) : own[i].seq \in Int
    BY <1>7, <1>8 DEF Msg
  <1>13. /\ MAX_MESSAGES_PER_CHANNEL \in Nat /\ MAX_MESSAGES_PER_CHANNEL > 0
    BY CapacityAssumption
  <1>14. /\ LastOf(own, MAX_MESSAGES_PER_CHANNEL) \in Seq(T)
         /\ Range(LastOf(own, MAX_MESSAGES_PER_CHANNEL)) \subseteq Range(own)
         /\ Increasing(own) => Increasing(LastOf(own, MAX_MESSAGES_PER_CHANNEL))
         /\ Len(LastOf(own, MAX_MESSAGES_PER_CHANNEL)) <= MAX_MESSAGES_PER_CHANNEL
    BY <1>8, <1>12, <1>13, LastOfCorrect
  <1> QED BY <1>5, <1>10, <1>11, <1>14

\* The sort keeps every message, once, if their numbers differ.
LEMMA InOrderCorrect ==
    ASSUME NEW S \in SUBSET Msg, IsFiniteSet(S),
           \A m, n \in S : m.seq = n.seq => m = n
    PROVE  /\ InOrder(S) \in Seq(S)
           /\ Increasing(InOrder(S))
           /\ Range(InOrder(S)) = S
  <1> DEFINE numbers == {m.seq : m \in S}
             number == [m \in S |-> m.seq]
             f == Ordered(numbers)
             n == Cardinality(numbers)
             ms == [k \in DOMAIN f |-> CHOOSE m \in S : m.seq = f[k]]
  <1>1. \A m \in S : m.seq \in Int
    BY DEF Msg
  <1>2. numbers \in SUBSET Int /\ IsFiniteSet(numbers)
    <2>1. number \in Surjection(S, numbers)
      BY DEF Surjection
    <2> QED BY <1>1, <2>1, FS_Surjection
  <1>3. /\ n \in Nat /\ f \in [1..n -> numbers]
        /\ \A a, b \in 1..n : a < b => f[a] < f[b]
        /\ \A p \in numbers : \E k \in 1..n : f[k] = p
    BY <1>2, OrderedCorrect
  <1>4. InOrder(S) = ms
    BY DEF InOrder
  <1>d. DOMAIN ms = 1..n
    BY <1>3
  <1>5. \A k \in 1..n : ms[k] \in S /\ ms[k].seq = f[k]
    <2>1. TAKE k \in 1..n
    <2>2. f[k] \in numbers
      <3> HIDE DEF f, numbers, n
      <3> QED BY <1>3, <2>1
    <2>3. \E m \in S : m.seq = f[k]
      <3> HIDE DEF f
      <3> QED BY <2>2
    <2>4. ms[k] = CHOOSE m \in S : m.seq = f[k]
      BY <1>3, <2>1
    <2> QED BY <2>3, <2>4
  <1>6. ms \in [1..n -> S]
    <2>1. \A k \in DOMAIN f : (CHOOSE m \in S : m.seq = f[k]) \in S
      BY <1>5, <1>d
    <2>2. ms \in [DOMAIN f -> S]
      <3> HIDE DEF f
      <3> QED BY <2>1
    <2> QED BY <1>d, <2>2
  <1> HIDE DEF ms, n, f
  <1>7. ms \in Seq(S)
    BY <1>3, <1>6, SeqDef
  <1>8. Increasing(ms)
    BY <1>3, <1>5, <1>d DEF Increasing
  <1>9. ASSUME NEW m \in S PROVE m \in Range(ms)
    <2>1. PICK k \in 1..n : f[k] = m.seq
      BY <1>3
    <2>2. ms[k] = m
      BY <1>5, <2>1
    <2> QED BY <1>d, <2>2 DEF Range
  <1>10. Range(ms) \subseteq S
    BY <1>5, <1>d DEF Range
  <1> QED BY <1>4, <1>7, <1>8, <1>9, <1>10

-----------------------------------------------------------------------------
(* What is pushed out of a deque *)

\* The messages of its channel in S that are newer than m.
Newer(S, m) == {n \in S : n.channel_id = m.channel_id /\ n.born > m.born}
Out(S, m) == Cardinality(Newer(S, m)) >= MAX_MESSAGES_PER_CHANNEL

\* Numbers and births tell the same order.
Agree(S) == \A m, n \in S : m.seq <= n.seq <=> m.born <= n.born

\* What was pushed out stays so.
LEMMA OutStays ==
    ASSUME NEW S, IsFiniteSet(S), NEW R \in SUBSET S, NEW m, Out(R, m)
    PROVE  Out(S, m)
  <1>1. Newer(R, m) \in SUBSET Newer(S, m) /\ Newer(S, m) \in SUBSET S
    BY DEF Newer
  <1>2. IsFiniteSet(Newer(S, m))
    BY <1>1, FS_Subset
  <1>3. /\ Cardinality(Newer(R, m)) <= Cardinality(Newer(S, m))
        /\ IsFiniteSet(Newer(R, m))
    BY <1>1, <1>2, FS_Subset
  <1>4. Cardinality(Newer(R, m)) \in Nat /\ Cardinality(Newer(S, m)) \in Nat
    BY <1>2, <1>3, FS_CardinalityType
  <1> QED BY <1>3, <1>4, CapacityAssumption DEF Out

\* deque.append: a message that a full deque loses is older than as many stored
\* messages of its channel as the deque holds.
LEMMA PushedCorrect ==
    ASSUME NEW S \in SUBSET Msg, IsFiniteSet(S), NEW q \in Seq(S), NEW m \in S,
           Increasing(q), Agree(Range(q) \cup {m}),
           \A n \in Range(q) : n.channel_id = m.channel_id /\ n.seq < m.seq
    PROVE  /\ Pushed(q, m) \in Seq(S)
           /\ Len(Pushed(q, m)) <= MAX_MESSAGES_PER_CHANNEL
           /\ Increasing(Pushed(q, m))
           /\ Range(Pushed(q, m)) \subseteq Range(q) \cup {m}
           /\ \A n \in Range(q) : n \in Range(Pushed(q, m)) \/ Out(S, n)
  <1> DEFINE a == Append(q, m)
             l == LastOf(a, MAX_MESSAGES_PER_CHANNEL)
             size == Len(q)
  <1>1. size \in Nat /\ DOMAIN q = 1..size /\ \A i \in 1..size : q[i] \in S
    BY LenProperties, ElementOfSeq
  <1>2. /\ a \in Seq(S) /\ Len(a) = size + 1 /\ DOMAIN a = 1..(size + 1)
        /\ \A i \in 1..size : a[i] = q[i]
        /\ a[size + 1] = m
    BY <1>1
  <1>3. MAX_MESSAGES_PER_CHANNEL \in Nat /\ MAX_MESSAGES_PER_CHANNEL > 0
    BY CapacityAssumption
  <1>4. Pushed(q, m) = l
    BY DEF Pushed
  <1> HIDE DEF a, size
  <1>5. \A i \in 1..(size + 1) : i \in 1..size \/ i = size + 1
    BY <1>1
  <1>6. \A i \in 1..(size + 1) : /\ a[i] \in S /\ a[i] \in Msg /\ a[i].seq \in Int /\ a[i].born \in Int
                                 /\ a[i] \in Range(q) \cup {m}
                                 /\ a[i].channel_id = m.channel_id
    <2>1. TAKE i \in 1..(size + 1)
    <2>2. a[i] \in Range(q) \cup {m}
      BY <1>1, <1>2, <1>5, <2>1 DEF Range
    <2>3. a[i] \in S
      BY <1>1, <1>2, <1>5, <2>1
    <2>4. a[i].seq \in Int /\ a[i].born \in Int
      BY <2>3 DEF Msg
    <2> QED BY <2>2, <2>3, <2>4
  <1>7. Increasing(a)
    <2>1. SUFFICES ASSUME NEW i \in 1..(size + 1), NEW j \in 1..(size + 1), i < j
                   PROVE  a[i].seq < a[j].seq
      BY <1>2 DEF Increasing
    <2>2. i \in 1..size /\ a[i] = q[i]
      BY <1>1, <1>2, <2>1
    <2>3. CASE j \in 1..size
      BY <1>1, <1>2, <2>1, <2>2, <2>3 DEF Increasing
    <2>4. CASE j = size + 1
      BY <1>1, <1>2, <2>2, <2>4 DEF Range
    <2> QED BY <1>5, <2>3, <2>4
  <1>8. /\ l \in Seq(S) /\ Range(l) \subseteq Range(a) /\ Increasing(l)
        /\ Len(l) <= MAX_MESSAGES_PER_CHANNEL
    BY <1>2, <1>3, <1>6, <1>7, LastOfCorrect
  <1>9. Range(l) \subseteq Range(q) \cup {m}
    BY <1>2, <1>6, <1>8 DEF Range
  <1>10. ASSUME NEW n \in Range(q)
         PROVE  n \in Range(l) \/ Out(S, n)
    <2>1. PICK i \in 1..size : n = q[i]
      BY <1>1 DEF Range
    <2>2. i \in 1..(size + 1) /\ n = a[i]
      BY <1>1, <1>2, <2>1
    <2>3. PICK d \in 0..Len(a) :
              /\ l \in [1..(Len(a) - d) -> S]
              /\ \A k \in 1..(Len(a) - d) : l[k] = a[k + d]
              /\ d = 0 => l = a
              /\ d > 0 => MAX_MESSAGES_PER_CHANNEL > 0 /\ Len(a) - d = MAX_MESSAGES_PER_CHANNEL
              /\ MAX_MESSAGES_PER_CHANNEL > 0 => Len(a) - d <= MAX_MESSAGES_PER_CHANNEL
      BY <1>2, <1>3, LastOfShape
    <2> HIDE DEF l
    <2>4. CASE d < i
      <3>1. i - d \in 1..(Len(a) - d) /\ (i - d) + d = i
        BY <1>1, <1>2, <2>1, <2>4
      <3>2. l[i - d] = n
        BY <2>2, <2>3, <3>1
      <3>3. DOMAIN l = 1..(Len(a) - d)
        BY <2>3
      <3> QED BY <3>1, <3>2, <3>3 DEF Range
    <2>5. CASE ~(d < i)
      <3> DEFINE MAX == MAX_MESSAGES_PER_CHANNEL
      <3>0. Len(a) - d = MAX /\ d \in Int /\ i <= d
        BY <1>1, <1>2, <2>1, <2>3, <2>5
      <3>1. l \in [1..MAX -> S] /\ \A k \in 1..MAX : l[k] = a[k + d] /\ k + d \in 1..(size + 1) /\ i < k + d
        <4>1. l \in [1..MAX -> S] /\ \A k \in 1..MAX : l[k] = a[k + d]
          BY <2>3, <3>0
        <4>2. \A k \in 1..MAX : k + d \in 1..(size + 1) /\ i < k + d
          BY <1>1, <1>2, <1>3, <2>1, <3>0
        <4> QED BY <4>1, <4>2
      <3>2. ASSUME NEW k \in 1..MAX PROVE l[k] \in Newer(S, n)
        <4>1. PICK j \in 1..(size + 1) : j = k + d
          BY <3>1
        <4>2. l[k] = a[j] /\ i < j
          BY <3>1, <4>1
        <4>3. a[i].seq < a[j].seq
          BY <1>2, <1>7, <2>2, <4>2 DEF Increasing
        <4>4. ~(a[j].seq <= a[i].seq)
          BY <1>6, <2>2, <4>3
        <4>5. ~(a[j].born <= a[i].born)
          BY <1>6, <2>2, <4>4 DEF Agree
        <4>6. a[j].born > a[i].born
          BY <1>6, <2>2, <4>5
        <4> QED BY <1>6, <2>2, <4>2, <4>6 DEF Newer
      <3>3. l \in Injection(1..MAX, Newer(S, n))
        <4>1. l \in [1..MAX -> Newer(S, n)]
          BY <3>1, <3>2
        <4>2. DOMAIN l = 1..MAX /\ \A k \in 1..MAX : l[k].seq \in Int
          BY <1>6, <3>1
        <4>3. \A j, k \in 1..MAX : l[j] = l[k] => j = k
          BY <1>3, <1>8, <4>2 DEF Increasing
        <4> QED BY <4>1, <4>2, <4>3 DEF Injection, IsInjective
      <3>4. Newer(S, n) \in SUBSET S
        BY DEF Newer
      <3>5. IsFiniteSet(Newer(S, n))
        BY <3>4, FS_Subset
      <3>6. Cardinality(1..MAX) <= Cardinality(Newer(S, n))
        BY <3>3, <3>5, FS_Injection
      <3>7. Cardinality(1..MAX) = MAX
        BY <1>3, FS_Interval
      <3>8. Cardinality(Newer(S, n)) \in Nat
        BY <3>5, FS_CardinalityType
      <3> QED BY <1>3, <3>6, <3>7, <3>8 DEF Out
    <2> QED BY <2>4, <2>5
  <1> QED BY <1>4, <1>8, <1>9, <1>10

-----------------------------------------------------------------------------
(* The inductive invariant *)

Copies(S) == [size : Nat, done : Nat, got : SUBSET S, base : SUBSET S, shared : BOOLEAN]
Files(S) == [state : {"absent", "whole", "broken"}, msgs : Seq(S), len : Nat, base : SUBSET S]

\* What deques, copies and the file hold has been stored.
TypeInv ==
    /\ clock \in 0..MaxClock /\ up \in BOOLEAN /\ refused \in BOOLEAN /\ stops \in 0..MaxStops
    /\ stored \in SUBSET Msg /\ IsFiniteSet(stored) /\ durable \in SUBSET stored
    /\ keys \in Seq(Channels) /\ messages \in [Channels -> Seq(stored)]
    /\ seq \in Nat /\ born \in 0..MaxBorn /\ lastSave \in Int
    /\ file \in Files(stored)
    /\ pc \in [All -> {"idle", "lock", "throttle", "copy", "write", "saved", "flushed"}]
    /\ now \in [All -> Nat]
    /\ copy \in [All -> Copies(stored)]
    /\ \A t \in All : copy[t].done <= copy[t].size

\* Births are unique, and ahead of the numbers, which may be given again.
StoredInv ==
    /\ seq <= born
    /\ \A m \in stored : m.seq <= m.born /\ m.born <= born
    /\ \A m, n \in stored : m.born = n.born => m = n

\* What the process holds: in its deques, and in the copies being saved.
Held == {m \in stored : \/ \E c \in Channels : m \in Range(messages[c])
                        \/ \E t \in All : m \in copy[t].got}
HeldInv == Agree(Held) /\ \A m \in Held : m.seq <= seq

\* A process that has ended does nothing more.
EndInv == ~up => copy = [t \in All |-> NoCopy] /\ pc = [t \in All |-> "idle"]

DequeInv ==
    \A c \in Channels :
        /\ Increasing(messages[c])
        /\ \A m \in Range(messages[c]) : m.channel_id = c
        /\ messages[c] # << >> => c \in Range(keys)

\* The copy is never behind its beginning: what it has not got is in a deque
\* that comes later, or was pushed out.
CopyOK(label, cp, ks, ms, S) ==
    /\ label = "copy" =>
          /\ cp.size <= Len(ks)
          /\ \A m \in cp.base : \/ m \in cp.got \/ Out(S, m)
                               \/ \E k \in (cp.done + 1)..cp.size : m \in Range(ms[ks[k]])
    /\ label = "write" => \A m \in cp.base : m \in cp.got \/ Out(S, m)
CopyInv == \A t \in All : CopyOK(pc[t], copy[t], keys, messages, stored)

FileOK(f, S) ==
    /\ Increasing(f.msgs) /\ Agree(Range(f.msgs))
    /\ MAX_PERSISTED = 0 /\ f.state = "whole" =>
          \A m \in f.base : m \in Range(f.msgs) \/ Out(S, m)
FileInv == FileOK(file, stored)

IInv == TypeInv /\ StoredInv /\ HeldInv /\ EndInv /\ DequeInv /\ CopyInv /\ FileInv

LEMMA EmptyList == /\ \A S : << >> \in Seq(S)
                   /\ Len(<< >>) = 0 /\ Range(<< >>) = {}
                   /\ Increasing(<< >>)
  BY DEF Range, Increasing

LEMMA InvInit == Init => IInv
  <1> SUFFICES ASSUME Init PROVE IInv
    OBVIOUS
  <1>1. TypeInv
    <2>1. file \in Files(stored)
      BY EmptyList DEF Init, Files, Absent
    <2>2. copy \in [All -> Copies(stored)] /\ \A t \in All : copy[t].done <= copy[t].size
      BY DEF Init, Copies, NoCopy
    <2>3. stored \in SUBSET Msg /\ IsFiniteSet(stored) /\ durable \in SUBSET stored
      BY FS_EmptySet DEF Init
    <2>4. keys \in Seq(Channels) /\ messages \in [Channels -> Seq(stored)]
      BY EmptyList DEF Init
    <2>5. lastSave \in Int
      BY IntervalAssumption DEF Init, Never
    <2>6. clock \in 0..MaxClock /\ stops \in 0..MaxStops /\ seq \in Nat /\ born \in 0..MaxBorn
      BY BoundsAssumption DEF Init
    <2>8. up \in BOOLEAN /\ refused \in BOOLEAN
      BY DEF Init
    <2>7. /\ pc \in [All -> {"idle", "lock", "throttle", "copy", "write", "saved", "flushed"}]
          /\ now \in [All -> Nat]
      BY DEF Init
    <2> QED BY <2>1, <2>2, <2>3, <2>4, <2>5, <2>6, <2>7, <2>8 DEF TypeInv
  <1>2. StoredInv /\ HeldInv
    BY DEF Init, StoredInv, HeldInv, Held, Agree
  <1>3. EndInv /\ CopyInv
    BY DEF Init, EndInv, CopyInv, CopyOK
  <1>4. DequeInv
    BY EmptyList DEF Init, DequeInv
  <1>5. FileInv
    BY EmptyList DEF Init, FileInv, FileOK, Absent, Agree
  <1> QED BY <1>1, <1>2, <1>3, <1>4, <1>5 DEF IInv

-----------------------------------------------------------------------------
(* The steps that change neither the memory nor its history *)

Memory == <<keys, messages, seq, born, stored>>

\* They keep what is said of the memory, if no thread copies from elsewhere.
LEMMA MemoryKept ==
    ASSUME IInv, UNCHANGED Memory,
           \A t \in All : copy'[t].got \subseteq Held,
           \A t \in All : CopyOK(pc'[t], copy'[t], keys, messages, stored)
    PROVE  StoredInv' /\ HeldInv' /\ DequeInv' /\ CopyInv'
  <1>1. StoredInv' /\ DequeInv'
    BY DEF IInv, StoredInv, DequeInv, Memory
  <1>2. Held' \subseteq Held
    BY DEF Held, Memory
  <1>3. HeldInv'
    BY <1>2 DEF IInv, HeldInv, Agree, Memory
  <1>4. CopyInv'
    BY DEF CopyInv, Memory
  <1> QED BY <1>1, <1>3, <1>4

\* A thread that neither copies nor writes has nothing to show.
LEMMA NotSaving ==
    ASSUME NEW label, label \notin {"copy", "write"}, NEW cp, NEW ks, NEW ms, NEW S
    PROVE  CopyOK(label, cp, ks, ms, S)
  BY DEF CopyOK

\* A thread does something outside its copy: the others are where they were.
LEMMA CopiesKept ==
    ASSUME IInv, UNCHANGED <<Memory, copy>>, NEW t \in All, NEW label, Goto(t, label),
           label \notin {"copy", "write"}
    PROVE  StoredInv' /\ HeldInv' /\ DequeInv' /\ CopyInv'
  <1>1. \A u \in All : copy'[u].got \subseteq Held
    BY DEF IInv, TypeInv, Held, Copies
  <1>2. \A u \in All : pc'[u] = IF u = t THEN label ELSE pc[u]
    BY DEF Goto, IInv, TypeInv
  <1>3. \A u \in All : CopyOK(pc'[u], copy'[u], keys, messages, stored)
    BY <1>2, NotSaving DEF IInv, CopyInv
  <1> QED BY <1>1, <1>3, MemoryKept

\* The clock, and a start of the process that fails.
LEMMA IdleSteps ==
    ASSUME IInv, \/ Tick
                 \/ RestartRaises
    PROVE  IInv'
  <1>1. UNCHANGED <<Memory, copy, pc, file, up, now, stops, lastSave, durable>>
    BY DEF Tick, RestartRaises, Memory
  <1>2. clock' \in 0..MaxClock /\ refused' \in BOOLEAN
    <2>1. clock \in 0..MaxClock /\ refused \in BOOLEAN
      BY DEF IInv, TypeInv
    <2>2. CASE Tick
      <3>1. clock' \in 0..MaxClock
        BY <2>1, <2>2, BoundsAssumption DEF Tick
      <3>2. refused' = refused
        BY <2>2 DEF Tick
      <3> QED BY <2>1, <3>1, <3>2
    <2>3. CASE RestartRaises
      BY <2>1, <2>3 DEF RestartRaises
    <2> QED BY <2>2, <2>3
  <1>3. TypeInv'
    BY <1>1, <1>2 DEF IInv, TypeInv, Memory
  <1>4. EndInv' /\ FileInv'
    BY <1>1 DEF IInv, EndInv, FileInv, Memory
  <1>5. StoredInv' /\ DequeInv' /\ CopyInv'
    BY <1>1 DEF IInv, StoredInv, DequeInv, CopyInv, Memory
  <1>6. HeldInv'
    BY <1>1 DEF IInv, HeldInv, Held, Memory
  <1> QED BY <1>3, <1>4, <1>5, <1>6 DEF IInv

\* A thread that saves, or is inside add(), belongs to a running process.
LEMMA Running ==
    ASSUME IInv, NEW t \in All, pc[t] # "idle"
    PROVE  up
  BY DEF IInv, EndInv, TypeInv

\* A thread enters add(), finds that a save is not due, or cannot open the file.
LEMMA PlaceSteps ==
    ASSUME IInv, NEW t \in All,
           \/ t \in Threads /\ CallAdd(t)
           \/ t \in Threads /\ Throttle(t) /\ UNCHANGED copy /\ Goto(t, "idle")
           \/ OpenFails(t)
    PROVE  IInv'
  <1>1. /\ UNCHANGED <<Memory, copy, file, up, refused, clock, stops, lastSave, durable>>
        /\ \E label \in {"idle", "lock", "saved"} : Goto(t, label)
    BY DEF CallAdd, Throttle, OpenFails, Memory
  <1>2. now' \in [All -> Nat]
    BY DEF CallAdd, Throttle, OpenFails, IInv, TypeInv
  <1>3. up
    BY Running DEF CallAdd, Throttle, OpenFails
  <1>4. PICK label \in {"idle", "lock", "saved"} : Goto(t, label)
    BY <1>1
  <1>5. TypeInv'
    BY <1>1, <1>2, <1>4 DEF IInv, TypeInv, Memory, Goto
  <1>6. EndInv' /\ FileInv'
    BY <1>1, <1>3 DEF IInv, EndInv, FileInv, Memory
  <1>7. StoredInv' /\ HeldInv' /\ DequeInv' /\ CopyInv'
    BY <1>1, <1>4, CopiesKept
  <1> QED BY <1>5, <1>6, <1>7 DEF IInv

\* A save begins: everything in memory is in a deque that comes later.
LEMMA BeginSteps ==
    ASSUME IInv, NEW t \in All,
           up, Begin(t), Goto(t, "copy"),
           UNCHANGED <<Memory, file, up, refused, clock, stops, lastSave, durable, now>>
    PROVE  IInv'
  <1> DEFINE new == [size |-> Len(keys), done |-> 0, got |-> {}, base |-> InMemory,
                     shared |-> FALSE]
  <1>1. /\ Len(keys) \in Nat
        /\ \A c \in Channels : Range(messages[c]) \subseteq stored
    BY LenProperties, RangeOfSeq DEF IInv, TypeInv
  <1>2. new \in Copies(stored)
    BY <1>1 DEF Copies, InMemory
  <1>3. copy' = [copy EXCEPT ![t] = new]
    BY DEF Begin
  <1>4. \A u \in All : copy'[u] = IF u = t THEN new ELSE copy[u]
    BY <1>3 DEF IInv, TypeInv
  <1>5. \A u \in All : pc'[u] = IF u = t THEN "copy" ELSE pc[u]
    BY DEF Goto, IInv, TypeInv
  <1>6. TypeInv'
    <2>1. copy' \in [All -> Copies(stored)]
      BY <1>2, <1>3 DEF IInv, TypeInv
    <2>2. \A u \in All : copy'[u].done <= copy'[u].size
      <3>1. \A u \in All : copy[u].done <= copy[u].size
        BY DEF IInv, TypeInv
      <3>2. new.done <= new.size
        BY <1>1
      <3> HIDE DEF new
      <3> QED BY <1>4, <3>1, <3>2
    <2> HIDE DEF new
    <2> QED BY <2>1, <2>2 DEF IInv, TypeInv, Memory, Goto
  <1>7. EndInv' /\ FileInv'
    BY DEF IInv, EndInv, FileInv, Memory
  <1>8. \A u \in All : copy'[u].got \subseteq Held
    <2>1. \A u \in All : copy[u].got \subseteq Held
      BY DEF IInv, TypeInv, Held, Copies
    <2>2. new.got = {}
      OBVIOUS
    <2> HIDE DEF new
    <2> QED BY <1>4, <2>1, <2>2
  <1>9. CopyOK("copy", new, keys, messages, stored)
    <2>1. ASSUME NEW m \in InMemory
          PROVE  \E k \in 1..Len(keys) : m \in Range(messages[keys[k]])
      <3>1. PICK c \in Channels : m \in Range(messages[c])
        BY <2>1 DEF InMemory
      <3>2. messages[c] # << >>
        BY <3>1 DEF Range
      <3>3. c \in Range(keys) /\ DOMAIN keys = 1..Len(keys)
        BY <3>2, LenProperties DEF IInv, DequeInv, TypeInv
      <3> QED BY <3>1, <3>3 DEF Range
    <2>2. Len(keys) <= Len(keys)
      BY <1>1
    <2> QED BY <2>1, <2>2 DEF CopyOK
  <1>10. \A u \in All : CopyOK(pc'[u], copy'[u], keys, messages, stored)
    <2> HIDE DEF new
    <2> QED BY <1>4, <1>5, <1>9 DEF IInv, CopyInv
  <1>11. StoredInv' /\ HeldInv' /\ DequeInv' /\ CopyInv'
    BY <1>8, <1>10, MemoryKept
  <1> QED BY <1>6, <1>7, <1>11 DEF IInv

-----------------------------------------------------------------------------
(* The steps of a save *)

\* What the copies hold is held.
LEMMA GotIsHeld == IInv => \A t \in All : copy[t].got \subseteq Held
  BY DEF IInv, TypeInv, Held, Copies

\* The next deque is copied as it is now.
LEMMA CopyStep ==
    ASSUME IInv, NEW t \in All, CopyChannel(t)
    PROVE  IInv'
  <1> DEFINE old == copy[t]
             next == messages[keys[old.done + 1]]
             new == [old EXCEPT !.done = old.done + 1, !.got = old.got \cup Range(next)]
  <1>1. /\ pc[t] = "copy" /\ Len(keys) = old.size /\ old.done < old.size
        /\ copy' = [copy EXCEPT ![t] = new]
        /\ UNCHANGED <<Memory, pc, file, up, refused, clock, stops, lastSave, durable, now>>
    BY DEF CopyChannel, Memory, IInv, TypeInv
  <1>2. old \in Copies(stored)
    BY DEF IInv, TypeInv
  <1>3. old.done + 1 \in 1..Len(keys) /\ DOMAIN keys = 1..Len(keys)
    BY <1>1, <1>2, LenProperties DEF IInv, TypeInv, Copies
  <1>4. PICK c \in Channels : c = keys[old.done + 1]
    BY <1>3, ElementOfSeq DEF IInv, TypeInv
  <1>5. next = messages[c] /\ Range(next) \in SUBSET stored
    BY <1>4, RangeOfSeq DEF IInv, TypeInv
  <1>6. /\ new \in Copies(stored)
        /\ new.size = old.size /\ new.done = old.done + 1
        /\ new.got = old.got \cup Range(next) /\ new.base = old.base
    <2>1. PICK d, g : d = old.done + 1 /\ g = old.got \cup Range(next)
      OBVIOUS
    <2>2. d \in Nat /\ g \in SUBSET stored
      BY <1>2, <1>5, <2>1 DEF Copies
    <2>3. new = [old EXCEPT !.done = d, !.got = g]
      BY <2>1
    <2> HIDE DEF new, old, next
    <2>4. /\ new \in Copies(stored) /\ new.size = old.size /\ new.done = d
          /\ new.got = g /\ new.base = old.base
      BY <1>2, <2>2, <2>3 DEF Copies
    <2> QED BY <2>1, <2>4
  <1> HIDE DEF new
  <1>7. \A u \in All : copy'[u] = IF u = t THEN new ELSE copy[u]
    BY <1>1 DEF IInv, TypeInv
  <1>8. TypeInv'
    <2>1. copy' \in [All -> Copies(stored)]
      BY <1>1, <1>6 DEF IInv, TypeInv
    <2>2. new.done <= new.size
      BY <1>1, <1>2, <1>6 DEF Copies
    <2>3. \A u \in All : copy'[u].done <= copy'[u].size
      BY <1>7, <2>2 DEF IInv, TypeInv
    <2> QED BY <1>1, <2>1, <2>3 DEF IInv, TypeInv, Memory
  <1>9. EndInv' /\ FileInv'
    <2>1. up
      BY <1>1, Running
    <2> QED BY <1>1, <2>1 DEF IInv, EndInv, FileInv, Memory
  <1>10. \A u \in All : copy'[u].got \subseteq Held
    <2>1. Range(next) \subseteq Held
      BY <1>5 DEF Held
    <2> QED BY <1>6, <1>7, <2>1, GotIsHeld
  <1>11. CopyOK("copy", new, keys, messages, stored)
    <2>1. CopyOK("copy", old, keys, messages, stored)
      BY <1>1 DEF IInv, CopyInv
    <2>2. ASSUME NEW m \in old.base
          PROVE  \/ m \in new.got \/ Out(stored, m)
                 \/ \E k \in (new.done + 1)..new.size : m \in Range(messages[keys[k]])
      <3>1. CASE m \in old.got \/ Out(stored, m)
        BY <1>6, <3>1
      <3>2. CASE \E k \in (old.done + 1)..old.size : m \in Range(messages[keys[k]])
        <4>1. PICK k \in (old.done + 1)..old.size : m \in Range(messages[keys[k]])
          BY <3>2
        <4>2. k = old.done + 1 \/ k \in (old.done + 1 + 1)..old.size
          BY <1>2 DEF Copies
        <4>3. CASE k = old.done + 1
          BY <1>6, <4>1, <4>3
        <4>4. CASE k \in (old.done + 1 + 1)..old.size
          BY <1>6, <4>1, <4>4
        <4> QED BY <4>2, <4>3, <4>4
      <3> QED BY <2>1, <2>2, <3>1, <3>2 DEF CopyOK
    <2>3. new.size <= Len(keys)
      BY <1>1, <1>2, <1>6 DEF Copies
    <2> QED BY <1>6, <2>2, <2>3 DEF CopyOK
  <1>12. \A u \in All : CopyOK(pc'[u], copy'[u], keys, messages, stored)
    BY <1>1, <1>7, <1>11 DEF IInv, CopyInv
  <1>13. StoredInv' /\ HeldInv' /\ DequeInv' /\ CopyInv'
    BY <1>1, <1>10, <1>12, MemoryKept
  <1> QED BY <1>8, <1>9, <1>13 DEF IInv

\* A save is over, by an exception or in the end: the copy is dropped.
LEMMA DropSteps ==
    ASSUME IInv, NEW t \in All, CopyRaises(t) \/ Saved(t)
    PROVE  IInv'
  <1>1. /\ pc[t] # "idle" /\ copy' = [copy EXCEPT ![t] = NoCopy]
        /\ \E label \in {"idle", "flushed"} : Goto(t, label)
        /\ UNCHANGED <<Memory, file, up, refused, clock, stops, durable, now>>
    BY DEF CopyRaises, Saved, Returned, Memory
  <1>2. PICK label \in {"idle", "flushed"} : Goto(t, label)
    BY <1>1
  <1>3. lastSave' \in Int
    <2>1. clock \in Int /\ lastSave \in Int /\ now[t] \in Int
      BY DEF IInv, TypeInv
    <2>2. lastSave' = lastSave \/ lastSave' = clock \/ lastSave' = now[t]
      BY DEF CopyRaises, Saved
    <2> QED BY <2>1, <2>2
  <1>4. NoCopy \in Copies(stored) /\ NoCopy.done <= NoCopy.size /\ NoCopy.got = {}
    BY DEF NoCopy, Copies
  <1>5. \A u \in All : copy'[u] = IF u = t THEN NoCopy ELSE copy[u]
    BY <1>1 DEF IInv, TypeInv
  <1>6. \A u \in All : pc'[u] = IF u = t THEN label ELSE pc[u]
    BY <1>2 DEF Goto, IInv, TypeInv
  <1>7. TypeInv'
    <2>1. copy' \in [All -> Copies(stored)]
      BY <1>1, <1>4 DEF IInv, TypeInv
    <2>2. \A u \in All : copy'[u].done <= copy'[u].size
      BY <1>4, <1>5 DEF IInv, TypeInv
    <2> QED BY <1>1, <1>2, <1>3, <2>1, <2>2 DEF IInv, TypeInv, Memory, Goto
  <1>8. EndInv' /\ FileInv'
    <2>1. up
      BY <1>1, Running
    <2> QED BY <1>1, <2>1 DEF IInv, EndInv, FileInv, Memory
  <1>9. \A u \in All : copy'[u].got \subseteq Held
    BY <1>4, <1>5, GotIsHeld
  <1>10. \A u \in All : CopyOK(pc'[u], copy'[u], keys, messages, stored)
    BY <1>5, <1>6, NotSaving DEF IInv, CopyInv
  <1>11. StoredInv' /\ HeldInv' /\ DequeInv' /\ CopyInv'
    BY <1>1, <1>9, <1>10, MemoryKept
  <1> QED BY <1>7, <1>8, <1>11 DEF IInv

\* What is not whole has nothing to show.
LEMMA BrokenOK ==
    ASSUME NEW f, f.msgs = << >>, f.state # "whole", NEW S
    PROVE  FileOK(f, S)
  BY EmptyList DEF FileOK, Agree

\* The file is opened: what was in it is gone, all that was to be copied is.
LEMMA OpenStep ==
    ASSUME IInv, NEW t \in All, OpenFile(t)
    PROVE  IInv'
  <1> DEFINE new(u) == [copy[u] EXCEPT !.shared = copy[u].shared \/ u \in Writing
                                                     \/ (u = t /\ Writing # {})]
  <1>1. /\ pc[t] = "copy" /\ Len(keys) = copy[t].size /\ copy[t].done = copy[t].size
        /\ file' = Truncated /\ Goto(t, "write")
        /\ UNCHANGED <<Memory, up, refused, clock, stops, lastSave, durable, now>>
    BY DEF OpenFile, Memory
  <1>2. copy' = [u \in All |-> new(u)]
    BY DEF OpenFile
  <1>3. \A u \in All : /\ copy'[u] \in Copies(stored)
                       /\ copy'[u].size = copy[u].size /\ copy'[u].done = copy[u].done
                       /\ copy'[u].got = copy[u].got /\ copy'[u].base = copy[u].base
    <2>1. TAKE u \in All
    <2>2. PICK b \in BOOLEAN : b = (copy[u].shared \/ u \in Writing \/ (u = t /\ Writing # {}))
      OBVIOUS
    <2>3. copy'[u] = [copy[u] EXCEPT !.shared = b]
      BY <1>2, <2>1, <2>2
    <2>4. copy[u] \in Copies(stored)
      BY <2>1 DEF IInv, TypeInv
    <2> QED BY <2>2, <2>3, <2>4 DEF Copies
  <1>4. \A u \in All : pc'[u] = IF u = t THEN "write" ELSE pc[u]
    BY <1>1 DEF Goto, IInv, TypeInv
  <1>5. TypeInv'
    <2>1. copy' \in [All -> Copies(stored)]
      BY <1>2, <1>3
    <2>2. \A u \in All : copy'[u].done <= copy'[u].size
      BY <1>3 DEF IInv, TypeInv
    <2>3. file' \in Files(stored)
      BY <1>1, EmptyList DEF Files, Truncated
    <2> QED BY <1>1, <2>1, <2>2, <2>3 DEF IInv, TypeInv, Memory, Goto
  <1>6. EndInv'
    <2>1. up
      BY <1>1, Running
    <2> QED BY <1>1, <2>1 DEF EndInv
  <1>7. FileInv'
    <2>1. file'.msgs = << >> /\ file'.state # "whole"
      BY <1>1 DEF Truncated
    <2> QED BY <2>1, BrokenOK DEF FileInv
  <1>8. \A u \in All : copy'[u].got \subseteq Held
    BY <1>3, GotIsHeld
  <1>9. ASSUME NEW u \in All
        PROVE  CopyOK(pc'[u], copy'[u], keys, messages, stored)
    <2>1. CopyOK(pc[u], copy[u], keys, messages, stored)
      BY DEF IInv, CopyInv
    <2>2. CASE u # t
      BY <1>3, <1>4, <2>1, <2>2 DEF CopyOK
    <2>3. CASE u = t
      <3>1. (copy[t].done + 1)..copy[t].size = {}
        BY <1>1 DEF IInv, TypeInv, Copies
      <3>2. \A m \in copy[t].base : m \in copy[t].got \/ Out(stored, m)
        BY <1>1, <2>1, <2>3, <3>1 DEF CopyOK
      <3> QED BY <1>3, <1>4, <2>3, <3>2 DEF CopyOK
    <2> QED BY <2>2, <2>3
  <1>10. StoredInv' /\ HeldInv' /\ DequeInv' /\ CopyInv'
    BY <1>1, <1>8, <1>9, MemoryKept
  <1> QED BY <1>5, <1>6, <1>7, <1>10 DEF IInv

\* A write that leaves something else than a whole file.
LEMMA SpoilSteps ==
    ASSUME IInv, NEW t \in All, WriteSome(t) \/ WriteMixed(t) \/ WriteFails(t)
    PROVE  IInv'
  <1>1. /\ pc[t] = "write"
        /\ file' = Broken \/ file' = [Broken EXCEPT !.len = 1]
        /\ UNCHANGED <<Memory, copy, up, refused, clock, stops, lastSave, durable, now>>
        /\ Goto(t, "saved") \/ UNCHANGED pc
    BY DEF WriteSome, WriteMixed, WriteFails, Memory
  <1>2. file' \in Files(stored) /\ file'.msgs = << >> /\ file'.state = "broken"
    <2>1. file \in Files(stored)
      BY DEF IInv, TypeInv
    <2>2. {} \in SUBSET stored /\ << >> \in Seq(stored)
      BY EmptyList
    <2>3. /\ Broken \in Files(stored) /\ Broken.msgs = << >> /\ Broken.state = "broken"
      BY <2>1, <2>2 DEF Broken, Files
    <2>4. PICK b : b = Broken
      OBVIOUS
    <2>5. /\ [b EXCEPT !.len = 1] \in Files(stored)
          /\ [b EXCEPT !.len = 1].msgs = << >> /\ [b EXCEPT !.len = 1].state = "broken"
      BY <2>3, <2>4 DEF Files
    <2> QED BY <1>1, <2>3, <2>4, <2>5
  <1>3. TypeInv'
    BY <1>1, <1>2 DEF IInv, TypeInv, Memory, Goto
  <1>4. EndInv'
    <2>1. up
      BY <1>1, Running
    <2> QED BY <1>1, <2>1 DEF EndInv
  <1>5. FileInv'
    BY <1>2, BrokenOK DEF FileInv
  <1>6. StoredInv' /\ HeldInv' /\ DequeInv' /\ CopyInv'
    <2>1. CASE Goto(t, "saved")
      BY <1>1, <2>1, CopiesKept
    <2>2. CASE UNCHANGED pc
      <3>1. \A u \in All : CopyOK(pc'[u], copy'[u], keys, messages, stored)
        BY <1>1, <2>2 DEF IInv, CopyInv
      <3> QED BY <1>1, <3>1, GotIsHeld, MemoryKept
    <2> QED BY <1>1, <2>1, <2>2
  <1> QED BY <1>3, <1>4, <1>5, <1>6 DEF IInv

\* A whole text is written, or hides behind the rest of a longer one.
LEMMA WriteStep ==
    ASSUME IInv, NEW t \in All, WriteFile(t)
    PROVE  IInv'
  <1> DEFINE got == copy[t].got
             mine == Content(t)
  <1>1. /\ pc[t] = "write" /\ Goto(t, "saved")
        /\ UNCHANGED <<Memory, copy, up, refused, clock, stops, lastSave, now>>
        /\ durable' = durable \cup Range(file'.msgs)
        /\ \/ file' = [state |-> "whole", msgs |-> mine, len |-> Len(mine), base |-> copy[t].base]
           \/ file' = Broken
    BY DEF WriteFile, Memory
  <1>2. copy[t] \in Copies(stored) /\ stored \in SUBSET Msg /\ IsFiniteSet(stored)
    BY DEF IInv, TypeInv
  <1>3. got \in SUBSET stored /\ IsFiniteSet(got) /\ Agree(got)
    <2>1. got \in SUBSET stored /\ got \subseteq Held
      BY <1>2, GotIsHeld DEF Copies
    <2> QED BY <1>2, <2>1, FS_Subset DEF IInv, HeldInv, Agree
  <1>4. \A m, n \in got : m.seq = n.seq => m = n
    <2>1. \A m \in got : m.seq \in Int /\ m.born \in Int
      BY <1>2, <1>3 DEF Msg
    <2>2. \A m, n \in got : m.born = n.born => m = n
      BY <1>3 DEF IInv, StoredInv
    <2> HIDE DEF got
    <2> QED BY <1>3, <2>1, <2>2 DEF Agree
  <1>5. /\ InOrder(got) \in Seq(got) /\ Increasing(InOrder(got)) /\ Range(InOrder(got)) = got
    BY <1>2, <1>3, <1>4, InOrderCorrect
  <1>6. /\ mine \in Seq(got) /\ Range(mine) \subseteq got /\ Increasing(mine)
        /\ MAX_PERSISTED = 0 => Range(mine) = got
    <2>1. mine = LastOf(InOrder(got), MAX_PERSISTED)
      BY DEF Content
    <2>2. \A i \in 1..Len(InOrder(got)) : InOrder(got)[i].seq \in Int
      BY <1>2, <1>3, <1>5, ElementOfSeq DEF Msg
    <2> HIDE DEF got, mine
    <2>3. /\ LastOf(InOrder(got), MAX_PERSISTED) \in Seq(got)
          /\ Range(LastOf(InOrder(got), MAX_PERSISTED)) \subseteq Range(InOrder(got))
          /\ Increasing(InOrder(got)) => Increasing(LastOf(InOrder(got), MAX_PERSISTED))
          /\ MAX_PERSISTED = 0 => LastOf(InOrder(got), MAX_PERSISTED) = InOrder(got)
      BY <1>5, <2>2, CapacityAssumption, LastOfCorrect
    <2> QED BY <1>5, <2>1, <2>3
  <1>7. file' \in Files(stored) /\ Range(file'.msgs) \subseteq stored /\ FileOK(file', stored)
    <2> HIDE DEF mine, got
    <2>1. CASE file' = Broken
      <3>1. file \in Files(stored)
        BY DEF IInv, TypeInv
      <3>2. {} \in SUBSET stored /\ << >> \in Seq(stored)
        BY EmptyList
      <3>3. /\ file' \in Files(stored) /\ file'.msgs = << >> /\ file'.state = "broken"
        BY <2>1, <3>1, <3>2 DEF Broken, Files
      <3> QED BY <3>3, BrokenOK, EmptyList
    <2>2. CASE file' = [state |-> "whole", msgs |-> mine, len |-> Len(mine), base |-> copy[t].base]
      <3>1. mine \in Seq(stored) /\ Len(mine) \in Nat /\ copy[t].base \in SUBSET stored
        BY <1>2, <1>3, <1>6, SeqMonotonic, LenProperties DEF Copies
      <3>2. file' \in Files(stored) /\ file'.msgs = mine /\ file'.base = copy[t].base
        BY <2>2, <3>1 DEF Files
      <3>3. \A m \in copy[t].base : m \in copy[t].got \/ Out(stored, m)
        BY <1>1 DEF IInv, CopyInv, CopyOK
      <3>4. Agree(Range(mine))
        BY <1>3, <1>6 DEF Agree
      <3>5. FileOK(file', stored)
        BY <1>6, <3>2, <3>3, <3>4 DEF FileOK, got
      <3> QED BY <1>3, <1>6, <3>2, <3>5
    <2> QED BY <1>1, <2>1, <2>2 DEF mine
  <1>8. TypeInv'
    <2>1. durable' \in SUBSET stored
      BY <1>1, <1>7 DEF IInv, TypeInv
    <2> QED BY <1>1, <1>7, <2>1 DEF IInv, TypeInv, Memory, Goto
  <1>9. EndInv'
    <2>1. up
      BY <1>1, Running
    <2> QED BY <1>1, <2>1 DEF EndInv
  <1>10. FileInv'
    BY <1>1, <1>7 DEF FileInv, Memory
  <1>11. StoredInv' /\ HeldInv' /\ DequeInv' /\ CopyInv'
    BY <1>1, CopiesKept
  <1> QED BY <1>8, <1>9, <1>10, <1>11 DEF IInv

-----------------------------------------------------------------------------
(* The steps of the memory *)

\* A message is stored: it is newer than all that the process holds.
LEMMA StoreStep ==
    ASSUME IInv, NEW t \in Threads, NEW c \in Channels, StoreNew(t, c)
    PROVE  IInv'
  <1> DEFINE m == [seq |-> seq + 1, channel_id |-> c, born |-> born + 1]
             S == stored \cup {m}
  <1>1. /\ pc[t] = "lock" /\ born < MaxBorn /\ Goto(t, "throttle")
        /\ seq' = seq + 1 /\ born' = born + 1 /\ stored' = S
        /\ messages' = [messages EXCEPT ![c] = Pushed(messages[c], m)]
        /\ keys' = IF c \in Range(keys) THEN keys ELSE Append(keys, c)
        /\ UNCHANGED <<clock, up, refused, stops, lastSave, file, now, copy, durable>>
    BY DEF StoreNew, IInv, TypeInv
  <1>2. /\ seq \in Nat /\ born \in Nat /\ MaxBorn \in Nat /\ born <= MaxBorn /\ seq <= born
        /\ stored \in SUBSET Msg /\ IsFiniteSet(stored) /\ t \in All
    BY BoundsAssumption DEF IInv, TypeInv, StoredInv, All
  <1>3. m \in Msg /\ m.seq = seq + 1 /\ m.born = born + 1 /\ m.channel_id = c
    <2>1. seq + 1 \in 1..MaxBorn /\ born + 1 \in 1..MaxBorn
      BY <1>1, <1>2
    <2> QED BY <2>1 DEF Msg
  <1> HIDE DEF m
  <1>4. S \in SUBSET Msg /\ IsFiniteSet(S) /\ stored \in SUBSET S /\ m \in S
    BY <1>2, <1>3, FS_AddElement
  <1>5. \A n \in stored : n.seq \in Int /\ n.born \in Int /\ n.born < m.born /\ n # m
    <2>1. \A n \in stored : n.seq \in Int /\ n.born \in Int /\ n.born <= born
      BY <1>2 DEF IInv, StoredInv, Msg
    <2> QED BY <1>2, <1>3, <2>1
  <1>6. \A n \in Held : n \in stored /\ n.seq < m.seq
    <2>1. \A n \in Held : n \in stored /\ n.seq <= seq
      BY DEF IInv, HeldInv, Held
    <2> QED BY <1>2, <1>3, <1>5, <2>1
  <1>7. Agree(Held \cup {m})
    <2>1. Agree(Held)
      BY DEF IInv, HeldInv
    <2>2. m.seq \in Int /\ m.born \in Int
      BY <1>2, <1>3
    <2>3. ASSUME NEW n \in Held
          PROVE  /\ n.seq <= m.seq /\ n.born <= m.born
                 /\ ~(m.seq <= n.seq) /\ ~(m.born <= n.born)
      BY <1>5, <1>6, <2>2
    <2>4. m.seq <= m.seq /\ m.born <= m.born
      BY <2>2
    <2> QED BY <2>1, <2>3, <2>4 DEF Agree
  <1> DEFINE q == messages[c]
             p == Pushed(q, m)
  <1>8. q \in Seq(stored) /\ q \in Seq(S) /\ Range(q) \subseteq Held /\ Increasing(q)
        /\ \A n \in Range(q) : n.channel_id = c
    <2>1. q \in Seq(stored)
      BY DEF IInv, TypeInv
    <2>2. q \in Seq(S)
      BY <1>4, <2>1, SeqMonotonic
    <2>3. Range(q) \subseteq Held
      BY <2>1, RangeOfSeq DEF Held
    <2> QED BY <2>1, <2>2, <2>3 DEF IInv, DequeInv
  <1>9. /\ p \in Seq(S) /\ Increasing(p)
        /\ Range(p) \subseteq Range(q) \cup {m}
        /\ \A n \in Range(q) : n \in Range(p) \/ Out(S, n)
    <2>1. Agree(Range(q) \cup {m})
      BY <1>7, <1>8 DEF Agree
    <2>2. \A n \in Range(q) : n.channel_id = m.channel_id /\ n.seq < m.seq
      BY <1>3, <1>6, <1>8
    <2> HIDE DEF q, S
    <2> QED BY <1>4, <1>8, <2>1, <2>2, PushedCorrect
  <1> HIDE DEF p
  <1>10. \A d \in Channels : messages'[d] = IF d = c THEN p ELSE messages[d]
    BY <1>1 DEF IInv, TypeInv, p
  <1>11. /\ keys' \in Seq(Channels) /\ Len(keys) <= Len(keys')
         /\ \A k \in 1..Len(keys) : keys'[k] = keys[k]
         /\ Range(keys) \subseteq Range(keys') /\ c \in Range(keys')
         /\ Len(keys) \in Nat /\ DOMAIN keys = 1..Len(keys)
    <2>1. keys \in Seq(Channels) /\ Len(keys) \in Nat /\ DOMAIN keys = 1..Len(keys)
      BY LenProperties DEF IInv, TypeInv
    <2>2. CASE c \in Range(keys)
      <3>1. Len(keys) <= Len(keys)
        BY <2>1
      <3> QED BY <1>1, <2>1, <2>2, <3>1
    <2>3. CASE c \notin Range(keys)
      <3>1. keys' = Append(keys, c)
        BY <1>1, <2>3
      <3>2. /\ keys' \in Seq(Channels) /\ Len(keys') = Len(keys) + 1
            /\ DOMAIN keys' = 1..(Len(keys) + 1)
            /\ \A k \in 1..Len(keys) : keys'[k] = keys[k]
            /\ keys'[Len(keys) + 1] = c
        BY <2>1, <3>1
      <3>3. Len(keys) <= Len(keys') /\ Len(keys) + 1 \in DOMAIN keys'
            /\ \A k \in 1..Len(keys) : k \in DOMAIN keys'
        BY <2>1, <3>2
      <3>4. Range(keys) \subseteq Range(keys') /\ c \in Range(keys')
        BY <2>1, <3>2, <3>3 DEF Range
      <3> QED BY <2>1, <3>2, <3>3, <3>4
    <2> QED BY <2>2, <2>3
  <1>12. \A u \in All : pc'[u] = IF u = t THEN "throttle" ELSE pc[u]
    BY <1>1 DEF Goto, IInv, TypeInv
  <1> HIDE DEF S
  <1>13. TypeInv'
    <2>1. messages' \in [Channels -> Seq(S)]
      <3>1. \A d \in Channels : messages'[d] \in Seq(S)
        BY <1>4, <1>9, <1>10, SeqMonotonic DEF IInv, TypeInv
      <3>2. messages' = [d \in Channels |-> messages'[d]]
        BY <1>1 DEF IInv, TypeInv
      <3> QED BY <3>1, <3>2
    <2>2. file' \in Files(S)
      <3>1. file \in Files(stored)
        BY DEF IInv, TypeInv
      <3>2. file.msgs \in Seq(S)
        BY <1>4, <3>1, SeqMonotonic DEF Files
      <3> QED BY <1>1, <1>4, <3>1, <3>2 DEF Files
    <2>3. copy' \in [All -> Copies(S)]
      <3>1. copy \in [All -> Copies(stored)]
        BY DEF IInv, TypeInv
      <3>2. Copies(stored) \subseteq Copies(S)
        BY <1>4 DEF Copies
      <3> QED BY <1>1, <3>1, <3>2
    <2>4. durable' \in SUBSET S
      BY <1>1, <1>4 DEF IInv, TypeInv
    <2>5. seq' \in Nat /\ born' \in 0..MaxBorn
      BY <1>1, <1>2
    <2>6. pc' \in [All -> {"idle", "lock", "throttle", "copy", "write", "saved", "flushed"}]
      BY <1>1 DEF Goto, IInv, TypeInv
    <2>7. /\ clock' \in 0..MaxClock /\ up' \in BOOLEAN /\ refused' \in BOOLEAN
          /\ stops' \in 0..MaxStops /\ lastSave' \in Int /\ now' \in [All -> Nat]
          /\ \A u \in All : copy'[u].done <= copy'[u].size
      BY <1>1 DEF IInv, TypeInv
    <2> QED BY <1>1, <1>4, <1>11, <2>1, <2>2, <2>3, <2>4, <2>5, <2>6, <2>7 DEF TypeInv
  <1>14. StoredInv'
    <2>1. \A n \in stored : n.seq <= n.born /\ n.born <= born
      BY DEF IInv, StoredInv
    <2>2. \A n, o \in stored : n.born = o.born => n = o
      BY DEF IInv, StoredInv
    <2>3. ASSUME NEW n \in S PROVE n.seq <= n.born /\ n.born <= born'
      BY <1>1, <1>2, <1>3, <1>5, <2>1, <2>3 DEF S
    <2>4. ASSUME NEW n \in S, NEW o \in S, n.born = o.born PROVE n = o
      <3>1. m.born \in Int
        BY <1>2, <1>3
      <3>2. \A k \in stored : k.born # m.born
        BY <1>5, <3>1
      <3> QED BY <2>2, <2>4, <3>2 DEF S
    <2>5. seq' <= born'
      BY <1>1, <1>2
    <2> QED BY <1>1, <2>3, <2>4, <2>5 DEF StoredInv
  <1>15. HeldInv'
    <2>1. Held' \subseteq Held \cup {m}
      <3>1. ASSUME NEW n \in Held', n # m PROVE n \in Held
        <4>1. n \in stored
          BY <1>1, <3>1 DEF Held, S
        <4>2. CASE \E u \in All : n \in copy'[u].got
          BY <1>1, <4>1, <4>2 DEF Held
        <4>3. CASE \E d \in Channels : n \in Range(messages'[d])
          <5>1. PICK d \in Channels : n \in Range(messages'[d])
            BY <4>3
          <5>2. n \in Range(messages[d])
            BY <1>9, <1>10, <3>1, <5>1
          <5> QED BY <4>1, <5>2 DEF Held
        <4> QED BY <3>1, <4>2, <4>3 DEF Held
      <3> QED BY <3>1
    <2>2. Agree(Held')
      BY <1>7, <2>1 DEF Agree
    <2>3. ASSUME NEW n \in Held' PROVE n.seq <= seq'
      <3>1. n = m \/ n \in Held
        BY <2>1
      <3>2. CASE n = m
        BY <1>1, <1>2, <1>3, <3>2
      <3>3. CASE n \in Held
        BY <1>1, <1>2, <1>3, <1>5, <1>6, <3>3
      <3> QED BY <3>1, <3>2, <3>3
    <2> QED BY <2>2, <2>3 DEF HeldInv
  <1>16. EndInv'
    <2>1. up
      BY <1>1, <1>2, Running
    <2> QED BY <1>1, <2>1 DEF EndInv
  <1>17. DequeInv'
    <2>1. SUFFICES ASSUME NEW d \in Channels
                   PROVE  /\ Increasing(messages'[d])
                          /\ \A n \in Range(messages'[d]) : n.channel_id = d
                          /\ messages'[d] # << >> => d \in Range(keys')
      BY DEF DequeInv
    <2>2. CASE d = c
      BY <1>3, <1>8, <1>9, <1>10, <1>11, <2>2
    <2>3. CASE d # c
      BY <1>10, <1>11, <2>3 DEF IInv, DequeInv
    <2> QED BY <2>2, <2>3
  <1>18. \A n : Out(stored, n) => Out(S, n)
    BY <1>4, OutStays
  <1>19. CopyInv'
    <2>1. SUFFICES ASSUME NEW u \in All
                   PROVE  CopyOK(pc'[u], copy'[u], keys', messages', S)
      BY <1>1 DEF CopyInv
    <2>2. CASE u = t
      BY <1>12, <2>2, NotSaving
    <2>3. CASE u # t
      <3>1. CopyOK(pc[u], copy[u], keys, messages, stored) /\ pc'[u] = pc[u] /\ copy'[u] = copy[u]
        BY <1>1, <1>12, <2>3 DEF IInv, CopyInv
      <3>2. copy[u].size \in Nat /\ copy[u].done \in Nat
        BY DEF IInv, TypeInv, Copies
      <3>3. ASSUME pc[u] = "copy", NEW n \in copy[u].base
            PROVE  \/ n \in copy[u].got \/ Out(S, n)
                   \/ \E k \in (copy[u].done + 1)..copy[u].size : n \in Range(messages'[keys'[k]])
        <4>1. CASE n \in copy[u].got \/ Out(stored, n)
          BY <1>18, <4>1
        <4>2. CASE \E k \in (copy[u].done + 1)..copy[u].size : n \in Range(messages[keys[k]])
          <5>1. PICK k \in (copy[u].done + 1)..copy[u].size : n \in Range(messages[keys[k]])
            BY <4>2
          <5>2. k \in 1..Len(keys)
            BY <1>11, <3>1, <3>2, <3>3, <5>1 DEF CopyOK
          <5>3. PICK d \in Channels : d = keys[k] /\ d = keys'[k]
            BY <1>11, <5>2, ElementOfSeq DEF IInv, TypeInv
          <5>4. n \in Range(messages'[d]) \/ Out(S, n)
            BY <1>9, <1>10, <5>1, <5>3
          <5> QED BY <5>1, <5>3, <5>4
        <4> QED BY <3>1, <3>3, <4>1, <4>2 DEF CopyOK
      <3>4. pc[u] = "copy" => copy[u].size <= Len(keys')
        BY <1>11, <3>1, <3>2, LenProperties DEF CopyOK
      <3>5. pc[u] = "write" => \A n \in copy[u].base : n \in copy[u].got \/ Out(S, n)
        BY <1>18, <3>1 DEF CopyOK
      <3> QED BY <3>1, <3>3, <3>4, <3>5 DEF CopyOK
    <2> QED BY <2>2, <2>3
  <1>20. FileInv'
    BY <1>1, <1>18 DEF IInv, FileInv, FileOK
  <1> QED BY <1>13, <1>14, <1>15, <1>16, <1>17, <1>19, <1>20 DEF IInv

-----------------------------------------------------------------------------
(* The end of the process and its restart *)

LEMMA StopStep ==
    ASSUME IInv, Stop
    PROVE  IInv'
  <1>1. /\ up' = FALSE /\ refused' = FALSE /\ stops < MaxStops /\ stops' = stops + 1
        /\ pc' = [t \in All |-> "idle"] /\ copy' = [t \in All |-> NoCopy]
        /\ now' = [t \in All |-> 0]
        /\ UNCHANGED <<Memory, clock, lastSave, file, durable>>
    BY DEF Stop, Memory
  <1>2. NoCopy \in Copies(stored) /\ NoCopy.done <= NoCopy.size /\ NoCopy.got = {}
    BY DEF NoCopy, Copies
  <1>3. TypeInv'
    <2>1. stops' \in 0..MaxStops
      BY <1>1, BoundsAssumption DEF IInv, TypeInv
    <2>2. copy' \in [All -> Copies(stored)] /\ \A t \in All : copy'[t].done <= copy'[t].size
      BY <1>1, <1>2
    <2>3. /\ pc' \in [All -> {"idle", "lock", "throttle", "copy", "write", "saved", "flushed"}]
          /\ now' \in [All -> Nat]
      BY <1>1
    <2>4. up' \in BOOLEAN /\ refused' \in BOOLEAN
      BY <1>1
    <2> QED BY <1>1, <2>1, <2>2, <2>3, <2>4 DEF IInv, TypeInv, Memory
  <1>4. EndInv' /\ FileInv'
    BY <1>1 DEF IInv, EndInv, FileInv, Memory
  <1>5. \A t \in All : copy'[t].got \subseteq Held
    BY <1>1, <1>2
  <1>6. \A t \in All : CopyOK(pc'[t], copy'[t], keys, messages, stored)
    BY <1>1, NotSaving
  <1>7. StoredInv' /\ HeldInv' /\ DequeInv' /\ CopyInv'
    BY <1>1, <1>5, <1>6, MemoryKept
  <1> QED BY <1>3, <1>4, <1>7 DEF IInv

\* The load finds the messages in the order of their numbers, and the counter
\* continues behind the last of them.
LEMMA RestartStep ==
    ASSUME IInv, Restart
    PROVE  IInv'
  <1> DEFINE ms == file.msgs
             n == Len(ms)
  <1>1. /\ ~up /\ up' = TRUE /\ refused' = FALSE /\ lastSave' = Never
        /\ messages' = [c \in Channels |-> OfChannel(ms, c)]
        /\ keys' = FirstKeys(ms)
        /\ seq' = IF ms = << >> THEN 0 ELSE ms[n].seq
        /\ UNCHANGED <<clock, stops, file, pc, now, copy, born, stored, durable>>
    BY DEF Restart
  <1>2. copy = [t \in All |-> NoCopy] /\ pc = [t \in All |-> "idle"]
    BY <1>1 DEF IInv, EndInv
  <1>3. /\ ms \in Seq(stored) /\ ms \in Seq(Msg) /\ stored \in SUBSET Msg
        /\ n \in Nat /\ DOMAIN ms = 1..n
        /\ Range(ms) \subseteq stored /\ Increasing(ms) /\ Agree(Range(ms))
    <2>1. ms \in Seq(stored) /\ stored \in SUBSET Msg
      BY DEF IInv, TypeInv, Files
    <2>2. ms \in Seq(Msg)
      BY <2>1, SeqMonotonic
    <2> QED BY <2>1, <2>2, LenProperties, RangeOfSeq DEF IInv, FileInv, FileOK
  <1> HIDE DEF ms
  <1>4. ASSUME NEW c \in Channels
        PROVE  /\ messages'[c] \in Seq(stored)
               /\ Range(messages'[c]) \subseteq Range(ms)
               /\ \A m \in Range(messages'[c]) : m.channel_id = c
               /\ Increasing(messages'[c])
    <2>1. messages'[c] = OfChannel(ms, c)
      BY <1>1
    <2> QED BY <1>3, <2>1, OfChannelCorrect
  <1>5. keys' \in Seq(Channels) /\ \A i \in 1..n : ms[i].channel_id \in Range(keys')
    BY <1>1, <1>3, FirstKeysCorrect
  <1>6. seq' \in Nat /\ seq' <= born /\ \A m \in Range(ms) : m.seq <= seq'
    <2>1. CASE ms = << >>
      <3>1. born \in Nat
        BY DEF IInv, TypeInv
      <3> QED BY <1>1, <2>1, <3>1, EmptyList
    <2>2. CASE ms # << >>
      <3>1. n \in 1..n
        BY <1>3, <2>2, EmptySeq
      <3>2. ms[n] \in stored /\ seq' = ms[n].seq
        BY <1>1, <1>3, <2>2, <3>1 DEF Range
      <3>3. \A m \in stored : m.seq \in Nat /\ m.born \in Nat /\ m.seq <= m.born /\ m.born <= born
        BY <1>3 DEF IInv, StoredInv, Msg
      <3>4. born \in Nat
        BY DEF IInv, TypeInv
      <3>5. ASSUME NEW m \in Range(ms) PROVE m.seq <= ms[n].seq
        <4>1. PICK i \in 1..n : m = ms[i]
          BY <1>3 DEF Range
        <4>2. i = n \/ i < n
          <5>1. n \in Nat /\ i \in 1..n
            BY <1>3
          <5> HIDE DEF n
          <5> QED BY <5>1
        <4>3. m.seq \in Nat
          BY <1>3, <3>3
        <4>4. CASE i = n
          BY <4>1, <4>3, <4>4
        <4>5. CASE i < n
          <5>1. i \in DOMAIN ms /\ n \in DOMAIN ms
            BY <1>3, <3>1
          <5>2. ms[i].seq < ms[n].seq
            BY <1>3, <4>5, <5>1 DEF Increasing
          <5> QED BY <3>2, <3>3, <4>1, <4>3, <5>2
        <4> QED BY <4>2, <4>4, <4>5
      <3> QED BY <3>2, <3>3, <3>4, <3>5
    <2> QED BY <2>1, <2>2
  <1>7. TypeInv'
    <2>1. messages' \in [Channels -> Seq(stored)]
      BY <1>1, <1>4
    <2>2. lastSave' \in Int
      BY <1>1, IntervalAssumption DEF Never
    <2>3. up' \in BOOLEAN /\ refused' \in BOOLEAN
      BY <1>1
    <2> QED BY <1>1, <1>5, <1>6, <2>1, <2>2, <2>3 DEF IInv, TypeInv
  <1>8. StoredInv'
    BY <1>1, <1>6 DEF IInv, StoredInv
  <1>9. HeldInv'
    <2>1. \A t \in All : copy'[t].got = {}
      BY <1>1, <1>2 DEF NoCopy
    <2>2. Held' \subseteq Range(ms)
      BY <1>4, <2>1 DEF Held
    <2> QED BY <1>3, <1>6, <2>2 DEF HeldInv, Agree
  <1>10. DequeInv'
    <2>1. SUFFICES ASSUME NEW c \in Channels, messages'[c] # << >>
                   PROVE  c \in Range(keys')
      BY <1>4 DEF DequeInv
    <2>2. 1 \in DOMAIN messages'[c]
      <3>1. messages'[c] \in Seq(stored)
        BY <1>4
      <3>2. Len(messages'[c]) \in Nat /\ DOMAIN messages'[c] = 1..Len(messages'[c])
        BY <3>1, LenProperties
      <3>3. Len(messages'[c]) # 0
        BY <2>1, <3>1, EmptySeq
      <3> QED BY <3>2, <3>3
    <2>3. PICK m \in Range(ms) : m.channel_id = c
      <3>1. messages'[c][1] \in Range(messages'[c])
        BY <2>2 DEF Range
      <3> QED BY <1>4, <3>1
    <2>4. PICK i \in 1..n : m = ms[i]
      BY <1>3 DEF Range
    <2> QED BY <1>5, <2>3, <2>4
  <1>11. CopyInv'
    BY <1>1, <1>2, NotSaving DEF CopyInv
  <1>12. EndInv' /\ FileInv'
    BY <1>1 DEF IInv, EndInv, FileInv
  <1> QED BY <1>7, <1>8, <1>9, <1>10, <1>11, <1>12 DEF IInv

\* Every step keeps the invariant.
LEMMA InvStep == IInv /\ [Next]_vars => IInv'
  <1> SUFFICES ASSUME IInv, [Next]_vars PROVE IInv'
    OBVIOUS
  <1>a. \A t \in Threads : t \in All
    BY DEF All
  <1>m. Main \in All
    BY DEF All
  <1>1. CASE Tick \/ RestartRaises
    BY <1>1, IdleSteps
  <1>2. ASSUME NEW t \in Threads, CallAdd(t) PROVE IInv'
    BY <1>2, <1>a, PlaceSteps
  <1>3. ASSUME NEW t \in Threads, Throttle(t) PROVE IInv'
    <2>1. CASE Goto(t, "idle") /\ UNCHANGED copy
      BY <1>3, <1>a, <2>1, PlaceSteps
    <2>2. CASE Goto(t, "copy") /\ Begin(t)
      <3>1. up
        BY <1>3, <1>a, Running DEF Throttle
      <3>2. UNCHANGED <<Memory, file, up, refused, clock, stops, lastSave, durable, now>>
        BY <1>3 DEF Throttle, Memory
      <3> QED BY <1>a, <2>2, <3>1, <3>2, BeginSteps
    <2> QED BY <1>3, <2>1, <2>2 DEF Throttle
  <1>4. ASSUME NEW t \in Threads, NEW c \in Channels, StoreNew(t, c) PROVE IInv'
    BY <1>4, StoreStep
  <1>5. ASSUME NEW t \in All, Save(t) PROVE IInv'
    BY <1>5, CopyStep, DropSteps, OpenStep, PlaceSteps, SpoilSteps, WriteStep DEF Save
  <1>6. CASE Flush
    <2>1. UNCHANGED <<Memory, file, up, refused, clock, stops, lastSave, durable, now>>
      BY <1>6 DEF Flush, Memory
    <2> QED BY <1>6, <1>m, <2>1, BeginSteps DEF Flush
  <1>7. CASE Exit \/ Crash
    BY <1>7, StopStep DEF Exit, Crash
  <1>8. CASE Restart
    BY <1>8, RestartStep
  <1>9. CASE UNCHANGED vars
    BY <1>9 DEF vars, IInv, TypeInv, StoredInv, HeldInv, Held, EndInv, DequeInv, CopyInv, FileInv
  <1> QED BY <1>1, <1>2, <1>3, <1>4, <1>5, <1>6, <1>7, <1>8, <1>9 DEF Next

-----------------------------------------------------------------------------
(* The theorems *)

\* The invariant holds throughout, whatever saves, failures, crashes and
\* restarts went before (store.py:32-127, 207-210, 238-307).
THEOREM InvCorrect == Spec => []IInv
  BY InvInit, InvStep, PTL DEF Spec

\* In memory the numbers of a channel increase, no two channels share one, and
\* the counter is not behind, whichever file was loaded: the load relies on
\* the order of the file, and the file on the unique numbers of a life
\* (store.py:258-272, 279-302).
THEOREM NumbersCorrect == Spec => []NumbersAhead
  <1>1. ASSUME IInv PROVE NumbersAhead
    <2>1. /\ TypeInv /\ StoredInv /\ HeldInv /\ DequeInv
          /\ stored \in SUBSET Msg
      BY <1>1 DEF IInv, TypeInv
    <2>2. TypeOK
      <3>1. messages \in [Channels -> Seq(Msg)]
        BY <2>1, SeqMonotonic DEF TypeInv
      <3>2. file.state \in {"absent", "whole", "broken"} /\ file.msgs \in Seq(Msg) /\ file.len \in Nat
        BY <2>1, SeqMonotonic DEF TypeInv, Files
      <3>3. \A t \in All : copy[t].got \subseteq Msg /\ copy[t].done <= copy[t].size
        BY <2>1 DEF TypeInv, Copies
      <3> QED BY <2>1, <3>1, <3>2, <3>3 DEF TypeInv, TypeOK
    <2>3. InMemory \subseteq Held
      BY <2>1, RangeOfSeq DEF InMemory, Held, TypeInv
    <2>4. ASSUME NEW m \in InMemory
          PROVE  m.seq <= seq /\ m.channel_id \in Range(keys)
      <3>1. m.seq <= seq
        BY <2>1, <2>3 DEF HeldInv
      <3>2. PICK c \in Channels : m \in Range(messages[c])
        BY <2>4 DEF InMemory
      <3>3. messages[c] # << >>
        BY <3>2, EmptyList
      <3> QED BY <2>1, <3>1, <3>2, <3>3 DEF DequeInv
    <2>5. ASSUME NEW m \in InMemory, NEW n \in InMemory, m.seq = n.seq
          PROVE  m = n
      <3>1. m \in Held /\ n \in Held /\ m \in stored /\ n \in stored
        BY <2>3 DEF Held
      <3>2. m.seq \in Int /\ n.seq \in Int /\ m.born \in Int /\ n.born \in Int
        BY <2>1, <3>1 DEF Msg
      <3>3. m.born = n.born
        BY <2>1, <2>5, <3>1, <3>2 DEF HeldInv, Agree
      <3> QED BY <2>1, <3>1, <3>3 DEF StoredInv
    <2> QED BY <2>1, <2>2, <2>4, <2>5 DEF NumbersAhead, DequeInv
  <1> QED BY <1>1, InvCorrect, PTL

\* A whole file has every message that was in memory when its writer began to
\* copy and that no newer ones have pushed out, in order, although the copy
\* takes no lock; for a file without a limit, which is the default
\* (config.py:53, store.py:279-302).
THEOREM CompleteCorrect ==
    ASSUME MAX_PERSISTED = 0
    PROVE  Spec => []WholeFileIsComplete
  <1>1. ASSUME IInv PROVE WholeFileIsComplete
    <2>1. \A m : Out(stored, m) <=> PushedOut(m)
      BY DEF Out, Newer, PushedOut
    <2>2. file.msgs \in Seq(stored)
      BY <1>1 DEF IInv, TypeInv, Files
    <2>3. Range(file.msgs) \subseteq stored
      BY <2>2, RangeOfSeq
    <2> QED BY <1>1, <2>1, <2>3 DEF IInv, FileInv, FileOK, WholeFileIsComplete
  <1> QED BY <1>1, InvCorrect, PTL

=============================================================================
