--------------------------- MODULE AdaptiveProofs ---------------------------
(***************************************************************************)
(* The adaptive clocks implement clocks without representation             *)
(* (ClockStore), and their comparisons are those of the clocks they        *)
(* represent but for the one exception ComparisonsAgree names.             *)
(***************************************************************************)
EXTENDS AdaptiveVectorClock, FiniteSetTheorems, TLAPS

-----------------------------------------------------------------------------
(* The threads, and sets of them in their order.                           *)

\* There are as many threads as THREAD_COUNT says, all of them numbers.
LEMMA ThreadsAreNumbers ==
    /\ IsFiniteSet(Threads) /\ Threads \subseteq Nat
    /\ ThreadCount \in Nat
    /\ \A t : t \in Threads <=> t \in Nat /\ t < ThreadCount
<1>1. Cardinality(Threads) \in Nat
  BY AdaptiveAssumption, FS_CardinalityType
<1> QED
  BY <1>1, AdaptiveAssumption DEF ThreadCount

\* How many members a set of numbers has up to t.
UpTo(S, t) == {u \in S : u <= t}
Rank(S) == [t \in S |-> Cardinality(UpTo(S, t))]

\* A greater member has more of them up to itself.
LEMMA RankIncreases ==
    ASSUME NEW S \in SUBSET Nat, IsFiniteSet(S),
           NEW t \in S, NEW u \in S, t < u
    PROVE  Rank(S)[t] < Rank(S)[u]
<1>1. UpTo(S, t) \subseteq UpTo(S, u) /\ UpTo(S, u) \subseteq S
  <2>1. t \in Nat /\ u \in Nat /\ \A x \in S : x \in Nat
    OBVIOUS
  <2>2. \A x \in Nat : x <= t => x <= u
    BY <2>1
  <2>3. \A x \in UpTo(S, t) : x \in UpTo(S, u)
    BY <2>1, <2>2 DEF UpTo
  <2>4. UpTo(S, u) \subseteq S
    BY DEF UpTo
  <2> QED
    BY <2>3, <2>4
<1>2. u \in UpTo(S, u) /\ u \notin UpTo(S, t)
  BY DEF UpTo
<1>3. IsFiniteSet(UpTo(S, u))
  BY <1>1, FS_Subset
<1>4. Cardinality(UpTo(S, t)) < Cardinality(UpTo(S, u))
  BY <1>1, <1>2, <1>3, FS_Subset, FS_CardinalityType
<1> QED
  BY <1>4 DEF Rank

\* Every number up to the size of a set is the rank of one of its members.
LEMMA RankIsOnto ==
    ASSUME NEW S \in SUBSET Nat, IsFiniteSet(S), NEW i \in 1..Cardinality(S)
    PROVE  \E t \in S : Rank(S)[t] = i
<1> DEFINE n == Cardinality(S)
<1>1. n \in Nat
  BY FS_CardinalityType
<1>2. Rank(S) \in [S -> 1..n]
  <2> SUFFICES ASSUME NEW t \in S PROVE Cardinality(UpTo(S, t)) \in 1..n
    BY DEF Rank
  <2>1. UpTo(S, t) \subseteq S /\ t \in UpTo(S, t)
    BY DEF UpTo
  <2>2. IsFiniteSet(UpTo(S, t)) /\ Cardinality(UpTo(S, t)) <= n
    BY <2>1, FS_Subset
  <2>3. Cardinality(UpTo(S, t)) \in Nat /\ Cardinality(UpTo(S, t)) # 0
    BY <2>1, <2>2, FS_CardinalityType, FS_EmptySet
  <2> QED
    BY <1>1, <2>2, <2>3
<1>3. \A t, u \in S : Rank(S)[t] = Rank(S)[u] => t = u
  <2> SUFFICES ASSUME NEW t \in S, NEW u \in S, t < u
               PROVE  Rank(S)[t] # Rank(S)[u]
    OBVIOUS
  <2>1. Rank(S)[t] \in Nat /\ Rank(S)[u] \in Nat
    BY <1>1, <1>2
  <2> QED
    BY <2>1, RankIncreases
<1>4. IsFiniteSet(1..n) /\ Cardinality(1..n) = n
  BY <1>1, FS_Interval
<1>5. Rank(S) \in Injection(S, 1..n)
  BY <1>2, <1>3 DEF Injection, IsInjective
<1>6. Rank(S) \in Surjection(S, 1..n)
  BY <1>4, <1>5, FS_Injection
<1> QED
  BY <1>6 DEF Surjection

\* Ascending lists the members of a set, each once, in their order.
LEMMA AscendingFacts ==
    ASSUME NEW S \in SUBSET Nat, IsFiniteSet(S)
    PROVE  /\ DOMAIN Ascending(S) = 1..Cardinality(S)
           /\ \A i \in 1..Cardinality(S) : Ascending(S)[i] \in S
           /\ \A t \in S : \E i \in 1..Cardinality(S) : Ascending(S)[i] = t
           /\ \A i, j \in 1..Cardinality(S) : i < j => Ascending(S)[i] < Ascending(S)[j]
<1> DEFINE n == Cardinality(S)
<1>1. n \in Nat
  BY FS_CardinalityType
<1>2. \A i \in 1..n : Ascending(S)[i] \in S /\ Rank(S)[Ascending(S)[i]] = i
  <2> TAKE i \in 1..n
  <2>1. Ascending(S)[i] = CHOOSE t \in S : Cardinality(UpTo(S, t)) = i
    BY DEF Ascending, UpTo
  <2>2. \E t \in S : Cardinality(UpTo(S, t)) = i
    BY RankIsOnto DEF Rank
  <2>3. Ascending(S)[i] \in S /\ Cardinality(UpTo(S, Ascending(S)[i])) = i
    BY <2>1, <2>2
  <2> QED
    BY <2>3 DEF Rank
<1>3. \A i, j \in 1..n : i < j => Ascending(S)[i] < Ascending(S)[j]
  <2> SUFFICES ASSUME NEW i \in 1..n, NEW j \in 1..n, i < j
               PROVE  Ascending(S)[i] < Ascending(S)[j]
    OBVIOUS
  <2> DEFINE t == Ascending(S)[i]
             u == Ascending(S)[j]
  <2>1. t \in S /\ u \in S /\ Rank(S)[t] = i /\ Rank(S)[u] = j
    BY <1>2
  <2> HIDE DEF t, u
  <2>2. t \in Nat /\ u \in Nat
    BY <2>1
  <2>3. i \in Nat /\ j \in Nat
    BY <1>1
  <2>4. ~(u < t)
    BY <2>1, <2>3, RankIncreases
  <2>5. u # t
    BY <2>1, <2>3
  <2>6. t < u
    BY <2>2, <2>4, <2>5
  <2> QED
    BY <2>6 DEF t, u
<1>4. \A t \in S : \E i \in 1..n : Ascending(S)[i] = t
  <2> TAKE t \in S
  <2>1. UpTo(S, t) \subseteq S /\ t \in UpTo(S, t)
    BY DEF UpTo
  <2>2. IsFiniteSet(UpTo(S, t)) /\ Cardinality(UpTo(S, t)) <= n
    BY <2>1, FS_Subset
  <2>3. Cardinality(UpTo(S, t)) \in Nat /\ Cardinality(UpTo(S, t)) # 0
    BY <2>1, <2>2, FS_CardinalityType, FS_EmptySet
  <2>4. Rank(S)[t] \in 1..n
    BY <1>1, <2>2, <2>3 DEF Rank
  <2> DEFINE i == Rank(S)[t]
             u == Ascending(S)[i]
  <2>5. u \in S /\ Rank(S)[u] = Rank(S)[t]
    BY <1>2, <2>4
  <2> HIDE DEF u
  <2>6. ~(t < u) /\ ~(u < t)
    BY <1>1, <2>4, <2>5, RankIncreases
  <2>7. u = t
    BY <2>5, <2>6
  <2> QED
    BY <2>4, <2>7 DEF u
<1> QED
  BY <1>2, <1>3, <1>4 DEF Ascending

-----------------------------------------------------------------------------
(* The representations.                                                    *)

Entry == [tid : Threads, val : Nat]
Rep == [isDense : BOOLEAN, raw : Seq(Entry) \cup [Threads -> Nat], ownerIdx : Int]

\* One entry for each of the threads in S, sorted by them.
Lists(raw, S) ==
    /\ S \subseteq Threads
    /\ raw \in [1..Cardinality(S) -> Entry]
    /\ \A i \in 1..Cardinality(S) : raw[i].tid = Ascending(S)[i]

\* A dense vector has a time for every thread, a sparse one sorted entries, and
\* the index of the owner is one of the vector's.
WellFormed(c) ==
    /\ c \in Rep
    /\ c.isDense => c.raw \in [Threads -> Nat] /\ c.ownerIdx \in {Invalid} \cup Threads
    /\ ~c.isDense => Lists(c.raw, Heard(c)) /\ c.ownerIdx \in {Invalid} \cup DOMAIN c.raw

\* A sorted vector has one entry for each of its threads.
LEMMA ListsFacts ==
    ASSUME NEW raw, NEW S, Lists(raw, S)
    PROVE  /\ IsFiniteSet(S) /\ Cardinality(S) \in Nat
           /\ DOMAIN raw = 1..Cardinality(S)
           /\ raw \in Seq(Entry) /\ Len(raw) = Cardinality(S)
           /\ \A i \in 1..Cardinality(S) : raw[i] \in Entry /\ raw[i].tid \in S
           /\ \A t \in S : \E i \in 1..Cardinality(S) : raw[i].tid = t
           /\ \A i, j \in 1..Cardinality(S) : raw[i].tid = raw[j].tid => i = j
<1> DEFINE n == Cardinality(S)
<1>1. S \in SUBSET Nat /\ IsFiniteSet(S)
  BY ThreadsAreNumbers, FS_Subset DEF Lists
<1>2. n \in Nat
  BY <1>1, FS_CardinalityType
<1>3. raw \in [1..n -> Entry] /\ \A i \in 1..n : raw[i].tid = Ascending(S)[i]
  BY DEF Lists
<1>4. /\ \A i \in 1..n : Ascending(S)[i] \in S
      /\ \A t \in S : \E i \in 1..n : Ascending(S)[i] = t
      /\ \A i, j \in 1..n : i < j => Ascending(S)[i] < Ascending(S)[j]
  BY <1>1, AscendingFacts
<1> HIDE DEF n
<1>5. raw \in Seq(Entry) /\ Len(raw) = n
  BY <1>2, <1>3
<1>6. \A i, j \in 1..n : raw[i].tid = raw[j].tid => i = j
  <2> SUFFICES ASSUME NEW i \in 1..n, NEW j \in 1..n, i < j
               PROVE  raw[i].tid # raw[j].tid
    BY <1>2
  <2>1. Ascending(S)[i] \in Nat /\ Ascending(S)[j] \in Nat
    BY <1>1, <1>4
  <2>2. Ascending(S)[i] < Ascending(S)[j]
    BY <1>4
  <2> QED
    BY <1>3, <2>1, <2>2
<1>7. \A t \in S : \E i \in 1..n : raw[i].tid = t
  BY <1>3, <1>4
<1>8. \A i \in 1..n : raw[i] \in Entry /\ raw[i].tid \in S
  BY <1>3, <1>4
<1> QED
  BY <1>1, <1>2, <1>3, <1>5, <1>6, <1>7, <1>8 DEF n

\* What a sparse clock has heard of, and its times.
LEMMA SparseFacts ==
    ASSUME NEW c, ~c.isDense, NEW S, Lists(c.raw, S)
    PROVE  /\ Heard(c) = S
           /\ \A i \in DOMAIN c.raw : Val(c, c.raw[i].tid) = c.raw[i].val
           /\ \A t : t \notin S => Val(c, t) = 0
<1> DEFINE n == Cardinality(S)
<1>1. /\ n \in Nat /\ DOMAIN c.raw = 1..n
      /\ \A i \in 1..n : c.raw[i].tid \in S
      /\ \A t \in S : \E i \in 1..n : c.raw[i].tid = t
      /\ \A i, j \in 1..n : c.raw[i].tid = c.raw[j].tid => i = j
  BY ListsFacts
<1> HIDE DEF n
<1>2. Heard(c) = S
  BY <1>1 DEF Heard
<1>3. \A i \in 1..n : Val(c, c.raw[i].tid) = c.raw[i].val
  <2> TAKE i \in 1..n
  <2> DEFINE at == {j \in DOMAIN c.raw : c.raw[j].tid = c.raw[i].tid}
  <2>1. at = {i}
    BY <1>1
  <2>2. Val(c, c.raw[i].tid) = IF at = {} THEN 0 ELSE c.raw[CHOOSE j \in at : TRUE].val
    BY DEF Val
  <2>3. at # {} /\ (CHOOSE j \in at : TRUE) = i
    BY <2>1
  <2> QED
    BY <2>2, <2>3
<1>4. \A t : t \notin S => Val(c, t) = 0
  <2> SUFFICES ASSUME NEW t, t \notin S PROVE Val(c, t) = 0
    OBVIOUS
  <2> DEFINE at == {j \in DOMAIN c.raw : c.raw[j].tid = t}
  <2>1. at = {}
    BY <1>1
  <2>2. Val(c, t) = IF at = {} THEN 0 ELSE c.raw[CHOOSE j \in at : TRUE].val
    BY DEF Val
  <2> QED
    BY <2>1, <2>2
<1> QED
  BY <1>1, <1>2, <1>3, <1>4

\* A clock has heard of threads only, and its times are numbers, zero for the
\* threads it has not heard of.
LEMMA ValFacts ==
    ASSUME NEW c, WellFormed(c)
    PROVE  /\ Heard(c) \subseteq Threads /\ IsFiniteSet(Heard(c))
           /\ Cardinality(Heard(c)) \in Nat
           /\ \A t \in Threads : Val(c, t) \in Nat
           /\ \A t \in Threads : t \notin Heard(c) => Val(c, t) = 0
<1>1. CASE c.isDense
  <2>1. Heard(c) = Threads /\ \A t \in Threads : Val(c, t) \in Nat
    BY <1>1 DEF Heard, Val, WellFormed
  <2> QED
    BY <2>1, ThreadsAreNumbers, FS_CardinalityType
<1>2. CASE ~c.isDense
  <2> DEFINE S == Heard(c)
  <2>1. Lists(c.raw, S)
    BY <1>2 DEF WellFormed
  <2> HIDE DEF S
  <2>2. /\ \A i \in DOMAIN c.raw : Val(c, c.raw[i].tid) = c.raw[i].val
        /\ \A t : t \notin S => Val(c, t) = 0
    BY <1>2, <2>1, SparseFacts
  <2>3. /\ DOMAIN c.raw = 1..Cardinality(S)
        /\ IsFiniteSet(S) /\ Cardinality(S) \in Nat
        /\ \A i \in 1..Cardinality(S) : c.raw[i] \in Entry
        /\ \A t \in S : \E i \in 1..Cardinality(S) : c.raw[i].tid = t
    BY <2>1, ListsFacts
  <2>4. \A t \in S : Val(c, t) \in Nat
    BY <2>2, <2>3 DEF Entry
  <2>5. S \subseteq Threads
    BY <2>1 DEF Lists
  <2> QED
    BY <2>2, <2>3, <2>4, <2>5 DEF S
<1> QED
  BY <1>1, <1>2

\* The owner of a clock is a thread it has heard of.
LEMMA OwnerFacts ==
    ASSUME NEW c, WellFormed(c)
    PROVE  /\ c.ownerIdx = Invalid => OwnerOf(c) = Invalid
           /\ c.ownerIdx # Invalid => OwnerOf(c) \in Heard(c) /\ OwnerOf(c) # Invalid
           /\ c.ownerIdx # Invalid => OwnVal(c) = Val(c, OwnerOf(c))
<1>1. CASE c.ownerIdx = Invalid
  BY <1>1 DEF OwnerOf
<1>2. CASE c.ownerIdx # Invalid /\ c.isDense
  BY <1>2, ThreadsAreNumbers DEF OwnerOf, OwnVal, Val, Heard, WellFormed, Invalid
<1>3. CASE c.ownerIdx # Invalid /\ ~c.isDense
  <2>1. Lists(c.raw, Heard(c)) /\ c.ownerIdx \in DOMAIN c.raw
    BY <1>3 DEF WellFormed
  <2>2. OwnerOf(c) = c.raw[c.ownerIdx].tid /\ OwnVal(c) = c.raw[c.ownerIdx].val
    BY <1>3 DEF OwnerOf, OwnVal
  <2>3. OwnVal(c) = Val(c, OwnerOf(c))
    BY <1>3, <2>1, <2>2, SparseFacts
  <2>4. OwnerOf(c) \in Heard(c)
    BY <2>1, <2>2, ListsFacts
  <2>5. OwnerOf(c) \in Nat
    BY <2>4, ValFacts, ThreadsAreNumbers
  <2> QED
    BY <1>3, <2>3, <2>4, <2>5 DEF Invalid
<1> QED
  BY <1>1, <1>2, <1>3

-----------------------------------------------------------------------------
(* merge_into.                                                             *)

Larger(m, n) == IF m < n THEN n ELSE m

\* The two numbers merge_into compares are those of the merge of two functions.
LEMMA MaxValIsLarger ==
    ASSUME NEW c, WellFormed(c), NEW d, WellFormed(d), NEW t \in Threads
    PROVE  MaxVal(c, d, t) \in Nat /\ MaxVal(c, d, t) = Larger(Val(c, t), Val(d, t))
<1> DEFINE m == Val(c, t)
           n == Val(d, t)
<1>1. m \in Nat /\ n \in Nat
  BY ValFacts
<1>2. MaxVal(c, d, t) = CHOOSE x \in {m, n} : \A y \in {m, n} : x >= y
  BY DEF MaxVal, Max
<1> HIDE DEF m, n
<1>3. \E x \in {m, n} : \A y \in {m, n} : x >= y
  BY <1>1
<1>4. /\ MaxVal(c, d, t) \in {m, n}
      /\ MaxVal(c, d, t) >= m /\ MaxVal(c, d, t) >= n
  BY <1>2, <1>3
<1>5. MaxVal(c, d, t) \in Nat /\ MaxVal(c, d, t) = Larger(m, n)
  BY <1>1, <1>4 DEF Larger
<1> QED
  BY <1>5 DEF m, n

\* The entries of two clocks are those of all the threads they have heard of.
LEMMA MergedFacts ==
    ASSUME NEW c, WellFormed(c), NEW d, WellFormed(d),
           NEW S, S = Heard(c) \cup Heard(d), NEW m, m = MergedEntries(c, d)
    PROVE  /\ Lists(m, S)
           /\ \A i \in DOMAIN m : m[i].val = Larger(Val(c, m[i].tid), Val(d, m[i].tid))
<1> DEFINE n == Cardinality(S)
<1>1. S \subseteq Threads /\ S \in SUBSET Nat /\ IsFiniteSet(S)
  BY ValFacts, ThreadsAreNumbers, FS_Union
<1>2. DOMAIN Ascending(S) = 1..n /\ \A i \in 1..n : Ascending(S)[i] \in S
  BY <1>1, AscendingFacts
<1>3. m = [i \in DOMAIN Ascending(S) |->
             [tid |-> Ascending(S)[i], val |-> MaxVal(c, d, Ascending(S)[i])]]
  BY DEF MergedEntries
<1> HIDE DEF n
<1>4. ASSUME NEW i \in 1..n
      PROVE  /\ m[i] \in Entry /\ m[i].tid = Ascending(S)[i]
             /\ m[i].val = Larger(Val(c, m[i].tid), Val(d, m[i].tid))
  <2> DEFINE t == Ascending(S)[i]
  <2>1. t \in Threads
    BY <1>1, <1>2
  <2>2. m[i] = [tid |-> t, val |-> MaxVal(c, d, t)]
    BY <1>2, <1>3
  <2> HIDE DEF t
  <2>3. m[i].tid = t /\ m[i].val = MaxVal(c, d, t)
    BY <2>2
  <2>4. MaxVal(c, d, t) \in Nat /\ MaxVal(c, d, t) = Larger(Val(c, t), Val(d, t))
    BY <2>1, MaxValIsLarger
  <2>5. m[i] \in Entry
    BY <2>1, <2>2, <2>4 DEF Entry
  <2>6. m[i].val = Larger(Val(c, m[i].tid), Val(d, m[i].tid))
    BY <2>3, <2>4
  <2> QED
    BY <2>3, <2>5, <2>6 DEF t
<1>5. m \in [1..n -> Entry]
  BY <1>2, <1>3, <1>4
<1> QED
  BY <1>1, <1>2, <1>3, <1>4, <1>5 DEF Lists, n

\* e holds the merged times of c and d for the owner of c.
Merged(c, d, e) ==
    /\ WellFormed(e)
    /\ \A t \in Threads : Val(e, t) = Larger(Val(c, t), Val(d, t))
    /\ OwnerOf(e) = OwnerOf(c)
    /\ e.ownerIdx = Invalid <=> c.ownerIdx = Invalid

\* Two sparse clocks: the index of the owner follows its entry.
LEMMA MergeSparseMerges ==
    ASSUME NEW c, WellFormed(c), NEW d, WellFormed(d), ~c.isDense, ~d.isDense,
           NEW e, e = MergeSparse(c, d).clock
    PROVE  Merged(c, d, e) /\ ~e.isDense /\ Heard(e) = Heard(c) \cup Heard(d)
<1> DEFINE m == MergedEntries(c, d)
           S == Heard(c) \cup Heard(d)
           owner == IF c.ownerIdx = Invalid THEN Invalid
                    ELSE CHOOSE i \in DOMAIN m : m[i].tid = OwnerOf(c)
<1>1. e = [c EXCEPT !.raw = m, !.ownerIdx = owner]
  BY DEF MergeSparse
<1>2. /\ Lists(m, S)
      /\ \A i \in DOMAIN m : m[i].val = Larger(Val(c, m[i].tid), Val(d, m[i].tid))
  BY MergedFacts
<1>3. owner \in {Invalid} \cup DOMAIN m /\ owner \in Int
      /\ (owner = Invalid <=> c.ownerIdx = Invalid)
      /\ (owner # Invalid => m[owner].tid = OwnerOf(c))
  <2>1. CASE c.ownerIdx = Invalid
    BY <2>1 DEF Invalid
  <2>2. CASE c.ownerIdx # Invalid
    <3>1. OwnerOf(c) \in S
      BY <2>2, OwnerFacts
    <3>2. DOMAIN m = 1..Cardinality(S) /\ Cardinality(S) \in Nat
          /\ \E i \in DOMAIN m : m[i].tid = OwnerOf(c)
      BY <1>2, <3>1, ListsFacts, SMTT(30)
    <3>3. owner = CHOOSE i \in DOMAIN m : m[i].tid = OwnerOf(c)
      BY <2>2
    <3> HIDE DEF owner, m, S
    <3>4. owner \in DOMAIN m /\ m[owner].tid = OwnerOf(c)
      BY <3>2, <3>3
    <3>5. owner \in Int /\ owner # Invalid
      BY <3>2, <3>4 DEF Invalid
    <3> QED
      BY <2>2, <3>4, <3>5
  <2> QED
    BY <2>1, <2>2
<1>4. m \in Seq(Entry)
  BY <1>2, ListsFacts
<1> HIDE DEF m, S, owner
<1>5. c \in Rep
  BY DEF WellFormed
<1>6. e \in Rep /\ ~e.isDense /\ e.raw = m /\ e.ownerIdx = owner
  BY <1>1, <1>3, <1>4, <1>5 DEF Rep
<1>7. Heard(e) = S /\ \A i \in DOMAIN m : Val(e, m[i].tid) = m[i].val
  BY <1>2, <1>6, SparseFacts
<1>8. WellFormed(e)
  BY <1>2, <1>3, <1>6, <1>7 DEF WellFormed
<1>9. ASSUME NEW t \in Threads
      PROVE  Val(e, t) = Larger(Val(c, t), Val(d, t))
  <2>1. CASE t \in S
    <3>1. PICK i \in DOMAIN m : m[i].tid = t
      BY <1>2, <2>1, ListsFacts
    <3> QED
      BY <1>2, <1>7, <3>1
  <2>2. CASE t \notin S
    <3>1. Val(e, t) = 0 /\ Val(c, t) = 0 /\ Val(d, t) = 0
      BY <1>7, <1>8, <2>2, ValFacts DEF S
    <3> QED
      BY <3>1 DEF Larger
  <2> QED
    BY <2>1, <2>2
<1>10. OwnerOf(e) = OwnerOf(c)
  <2>1. CASE c.ownerIdx = Invalid
    BY <1>3, <1>6, <2>1 DEF OwnerOf
  <2>2. CASE c.ownerIdx # Invalid
    BY <1>3, <1>6, <2>2 DEF OwnerOf
  <2> QED
    BY <2>1, <2>2
<1> QED
  BY <1>3, <1>6, <1>7, <1>8, <1>9, <1>10 DEF Merged, S

\* A dense vector with the merged times and the same owner.
LEMMA DenseFacts ==
    ASSUME NEW e, NEW f \in [Threads -> Nat], NEW owner \in {Invalid} \cup Threads,
           e \in Rep, e.isDense, e.raw = f, e.ownerIdx = owner
    PROVE  /\ WellFormed(e) /\ Heard(e) = Threads /\ OwnerOf(e) = owner
           /\ \A t \in Threads : Val(e, t) = f[t]
  BY DEF WellFormed, Heard, OwnerOf, Val

\* A dense clock, merged into a sparse one, makes it dense.
LEMMA SparseMergeDenseMerges ==
    ASSUME NEW c, WellFormed(c), NEW d, WellFormed(d), ~c.isDense, d.isDense,
           NEW e, e = SparseMergeDense(c, d).clock
    PROVE  Merged(c, d, e) /\ e.isDense
<1> DEFINE f == [t \in Threads |-> MaxVal(c, d, t)]
<1>1. e = [isDense |-> TRUE, raw |-> f, ownerIdx |-> OwnerOf(c)]
  BY DEF SparseMergeDense
<1>2. f \in [Threads -> Nat] /\ \A t \in Threads : f[t] = Larger(Val(c, t), Val(d, t))
  BY MaxValIsLarger
<1>3. /\ OwnerOf(c) \in {Invalid} \cup Threads /\ OwnerOf(c) \in Int
      /\ OwnerOf(c) = Invalid <=> c.ownerIdx = Invalid
  BY OwnerFacts, ValFacts, ThreadsAreNumbers DEF Invalid
<1> HIDE DEF f
<1>4. e \in Rep /\ e.isDense /\ e.raw = f /\ e.ownerIdx = OwnerOf(c)
  BY <1>1, <1>2, <1>3 DEF Rep
<1> QED
  BY <1>2, <1>3, <1>4, DenseFacts DEF Merged

\* A dense clock stays dense.
LEMMA MergeDenseMerges ==
    ASSUME NEW c, WellFormed(c), NEW d, WellFormed(d), c.isDense,
           NEW e, e = MergeDense(c, d).clock
    PROVE  Merged(c, d, e) /\ e.isDense
<1> DEFINE f == [t \in Threads |-> MaxVal(c, d, t)]
<1>1. e = [c EXCEPT !.raw = f]
  BY DEF MergeDense
<1>2. f \in [Threads -> Nat] /\ \A t \in Threads : f[t] = Larger(Val(c, t), Val(d, t))
  BY MaxValIsLarger
<1>3. c \in Rep /\ c.ownerIdx \in {Invalid} \cup Threads /\ OwnerOf(c) = c.ownerIdx
  BY DEF WellFormed, OwnerOf
<1> HIDE DEF f
<1>4. e \in Rep /\ e.isDense /\ e.raw = f /\ e.ownerIdx = c.ownerIdx
  BY <1>1, <1>2, <1>3 DEF Rep
<1> QED
  BY <1>2, <1>3, <1>4, DenseFacts DEF Merged

\* try_convert_to_dense keeps times and owner.
LEMMA TryConvertKeeps ==
    ASSUME NEW c, WellFormed(c), NEW e, e = TryConvert(c)
    PROVE  /\ WellFormed(e)
           /\ \A t \in Threads : Val(e, t) = Val(c, t)
           /\ OwnerOf(e) = OwnerOf(c)
           /\ e.ownerIdx = Invalid <=> c.ownerIdx = Invalid
           /\ e = c \/ e.isDense
           /\ ~e.isDense => 2 * Len(e.raw) < ThreadCount
           /\ e.isDense => c.isDense \/ 2 * Cardinality(Heard(c)) >= ThreadCount
<1>1. CASE c.isDense
  BY <1>1 DEF TryConvert
<1>2. CASE ~c.isDense
  <2>1. Len(c.raw) = Cardinality(Heard(c)) /\ Cardinality(Heard(c)) \in Nat
    BY <1>2, ListsFacts DEF WellFormed
  <2>2. ThreadCount \in Nat
    BY ThreadsAreNumbers
  <2>3. CASE 2 * Len(c.raw) < ThreadCount
    BY <1>2, <2>3 DEF TryConvert
  <2>4. CASE ~(2 * Len(c.raw) < ThreadCount)
    <3> DEFINE f == [t \in Threads |-> Val(c, t)]
    <3>1. e = [isDense |-> TRUE, raw |-> f, ownerIdx |-> OwnerOf(c)]
      BY <1>2, <2>4 DEF TryConvert
    <3>2. f \in [Threads -> Nat] /\ \A t \in Threads : f[t] = Val(c, t)
      BY ValFacts
    <3>3. /\ OwnerOf(c) \in {Invalid} \cup Threads /\ OwnerOf(c) \in Int
          /\ OwnerOf(c) = Invalid <=> c.ownerIdx = Invalid
      BY OwnerFacts, ValFacts, ThreadsAreNumbers DEF Invalid
    <3> HIDE DEF f
    <3>4. e \in Rep /\ e.isDense /\ e.raw = f /\ e.ownerIdx = OwnerOf(c)
      BY <3>1, <3>2, <3>3 DEF Rep
    <3>5. 2 * Cardinality(Heard(c)) >= ThreadCount
      BY <2>1, <2>2, <2>4
    <3> QED
      BY <3>2, <3>3, <3>4, <3>5, DenseFacts
  <2> QED
    BY <2>3, <2>4
<1> QED
  BY <1>1, <1>2

\* merge_into merges the times, whatever the representations, and keeps the
\* owner; it is sparse only where both were, and less than half full.
LEMMA MergeIntoMerges ==
    ASSUME NEW c, WellFormed(c), NEW d, WellFormed(d), NEW e, e = MergeInto(c, d).clock
    PROVE  /\ Merged(c, d, e)
           /\ ~e.isDense => /\ ~c.isDense /\ ~d.isDense
                            /\ Heard(e) = Heard(c) \cup Heard(d)
                            /\ 2 * Len(e.raw) < ThreadCount
           /\ e.isDense => \/ c.isDense \/ d.isDense
                           \/ 2 * Cardinality(Heard(c) \cup Heard(d)) >= ThreadCount
<1>0. c.isDense \in BOOLEAN /\ d.isDense \in BOOLEAN
  BY DEF WellFormed, Rep
<1>1. CASE ~c.isDense /\ ~d.isDense
  <2> DEFINE m == MergeSparse(c, d).clock
  <2>1. e = TryConvert(m)
    BY <1>1 DEF MergeInto, MergeSparse
  <2>2. Merged(c, d, m) /\ ~m.isDense /\ Heard(m) = Heard(c) \cup Heard(d)
    BY <1>1, MergeSparseMerges
  <2> HIDE DEF m
  <2> QED
    BY <1>1, <2>1, <2>2, TryConvertKeeps DEF Merged
<1>2. CASE ~c.isDense /\ d.isDense
  <2> DEFINE m == SparseMergeDense(c, d).clock
  <2>1. e = TryConvert(m)
    BY <1>2 DEF MergeInto, SparseMergeDense
  <2>2. Merged(c, d, m) /\ m.isDense
    BY <1>2, SparseMergeDenseMerges
  <2> HIDE DEF m
  <2> QED
    BY <1>2, <2>1, <2>2 DEF TryConvert
<1>3. CASE c.isDense
  <2> DEFINE m == MergeDense(c, d).clock
  <2>1. e = TryConvert(m)
    BY <1>3 DEF MergeInto, MergeDense
  <2>2. Merged(c, d, m) /\ m.isDense
    BY <1>3, MergeDenseMerges
  <2> HIDE DEF m
  <2> QED
    BY <1>3, <2>1, <2>2 DEF TryConvert
<1> QED
  BY <1>0, <1>1, <1>2, <1>3

-----------------------------------------------------------------------------
(* The clocks of events and the clock of the closure.                      *)

Positives(c) == {t \in Threads : Val(c, t) > 0}

\* The clock of an event of t: t owns it, it holds no zeros when it is sparse
\* and at least as many times as half the threads when it is dense.
EventClock(c, t) ==
    /\ WellFormed(c)
    /\ c.ownerIdx # Invalid /\ OwnerOf(c) = t
    /\ ~c.isDense => Heard(c) \subseteq Positives(c)
    /\ c.isDense => 2 * Cardinality(Positives(c)) >= ThreadCount

\* The clock of a closure: nobody owns it, and while it is sparse less than half
\* the threads are in it.
ClosureClock(c) ==
    /\ WellFormed(c)
    /\ c.ownerIdx = Invalid
    /\ ~c.isDense => 2 * Len(c.raw) < ThreadCount

\* No more threads have a time than the clock has heard of.
LEMMA PositivesFacts ==
    ASSUME NEW c, WellFormed(c)
    PROVE  /\ IsFiniteSet(Positives(c)) /\ Cardinality(Positives(c)) \in Nat
           /\ Positives(c) \subseteq Heard(c)
           /\ Cardinality(Positives(c)) <= Cardinality(Heard(c))
           /\ \A t \in Threads : t \notin Positives(c) => Val(c, t) = 0
<1>1. \A t \in Threads : Val(c, t) \in Nat /\ (t \notin Heard(c) => Val(c, t) = 0)
  BY ValFacts
<1>2. Positives(c) \subseteq Heard(c)
  BY <1>1 DEF Positives
<1>3. \A t \in Threads : t \notin Positives(c) => Val(c, t) = 0
  BY <1>1 DEF Positives
<1> QED
  BY <1>2, <1>3, ValFacts, FS_Subset, FS_CardinalityType

\* A new thread's clock holds its own time, which is one.
LEMMA OwnedFacts ==
    ASSUME NEW t \in Threads
    PROVE  /\ EventClock(Owned(t), t)
           /\ \A u \in Threads : Val(Owned(t), u) = IF u = t THEN 1 ELSE 0
<1> DEFINE c == Owned(t)
           entry == [tid |-> t, val |-> 1]
           S == {t}
<1>1. c = [isDense |-> FALSE, raw |-> <<entry>>, ownerIdx |-> 1]
  BY DEF Owned
<1>2. S \in SUBSET Nat /\ IsFiniteSet(S) /\ Cardinality(S) = 1
  BY ThreadsAreNumbers, FS_Singleton
<1>3. Ascending(S)[1] \in S
  BY <1>2, AscendingFacts
<1>4. entry \in Entry /\ entry.tid = t /\ entry.val = 1
  BY DEF Entry
<1>5. Ascending(S)[1] = t /\ S \subseteq Threads
  BY <1>3
<1> HIDE DEF entry, S, c
<1>6. <<entry>> \in [1..1 -> Entry] /\ <<entry>>[1] = entry /\ DOMAIN <<entry>> = 1..1
  BY <1>4
<1>7. Lists(<<entry>>, S)
  BY <1>2, <1>4, <1>5, <1>6 DEF Lists
<1>8. ~c.isDense /\ c.raw = <<entry>> /\ c.ownerIdx = 1
  BY <1>1
<1>9. /\ Heard(c) = S /\ Val(c, t) = 1
      /\ \A u : u \notin S => Val(c, u) = 0
  BY <1>4, <1>6, <1>7, <1>8, SparseFacts
<1>10. c \in Rep
  BY <1>1, <1>7, ListsFacts DEF Rep
<1>11. WellFormed(c)
  BY <1>6, <1>7, <1>8, <1>9, <1>10 DEF WellFormed
<1>12. OwnerOf(c) = t /\ c.ownerIdx # Invalid
  BY <1>4, <1>6, <1>8 DEF OwnerOf, Invalid
<1>13. Heard(c) \subseteq Positives(c)
  BY <1>9 DEF Positives, S
<1> QED
  BY <1>8, <1>9, <1>11, <1>12, <1>13 DEF EventClock, S, c

\* The clock of a closure that begins has heard of nobody.
LEMMA EmptyFacts ==
    ASSUME ThreadCount > 0
    PROVE  /\ ClosureClock(Empty)
           /\ \A t \in Threads : Val(Empty, t) = 0
<1> DEFINE c == Empty
<1>1. /\ c \in Rep
      /\ ~c.isDense /\ c.raw = <<>> /\ c.ownerIdx = Invalid
  BY DEF Empty, Rep, Invalid
<1> HIDE DEF c
<1>2. Cardinality({}) = 0
  BY FS_EmptySet
<1>3. Lists(<<>>, {})
  BY <1>2 DEF Lists
<1>4. Lists(c.raw, {})
  BY <1>1, <1>3
<1>5. Heard(c) = {} /\ \A t : Val(c, t) = 0
  BY <1>1, <1>4, SparseFacts
<1>6. WellFormed(c)
  BY <1>1, <1>4, <1>5 DEF WellFormed
<1>7. 2 * Len(c.raw) < ThreadCount
  BY <1>1, ThreadsAreNumbers
<1> QED
  BY <1>1, <1>5, <1>6, <1>7 DEF ClosureClock, c

\* Setting the owner's time leaves the others and the representation.
LEMMA SetOwnFacts ==
    ASSUME NEW c, WellFormed(c), c.ownerIdx # Invalid, NEW v \in Nat,
           NEW e, e = SetOwn(c, v)
    PROVE  /\ WellFormed(e) /\ e.isDense = c.isDense /\ e.ownerIdx = c.ownerIdx
           /\ Heard(e) = Heard(c) /\ OwnerOf(e) = OwnerOf(c)
           /\ \A t \in Threads : Val(e, t) = IF t = OwnerOf(c) THEN v ELSE Val(c, t)
<1>0. c \in Rep
  BY DEF WellFormed
<1>1. CASE c.isDense
  <2> DEFINE f == [c.raw EXCEPT ![c.ownerIdx] = v]
  <2>1. e = [c EXCEPT !.raw = f]
    BY <1>1 DEF SetOwn
  <2>2. /\ c.raw \in [Threads -> Nat] /\ c.ownerIdx \in Threads /\ OwnerOf(c) = c.ownerIdx
        /\ Heard(c) = Threads /\ \A t \in Threads : Val(c, t) = c.raw[t]
    BY <1>1 DEF WellFormed, OwnerOf, Heard, Val
  <2>3. /\ f \in [Threads -> Nat]
        /\ \A t \in Threads : f[t] = IF t = c.ownerIdx THEN v ELSE c.raw[t]
    BY <2>2
  <2> HIDE DEF f
  <2>4. /\ e \in Rep /\ e.raw = f /\ e.ownerIdx = c.ownerIdx
        /\ e.isDense = c.isDense
    BY <1>0, <2>1, <2>3 DEF Rep
  <2>5. e.isDense /\ c.ownerIdx \in {Invalid} \cup Threads
    BY <1>1, <2>2, <2>4
  <2>6. /\ WellFormed(e) /\ Heard(e) = Threads /\ OwnerOf(e) = c.ownerIdx
        /\ \A t \in Threads : Val(e, t) = f[t]
    BY <2>3, <2>4, <2>5, DenseFacts
  <2> QED
    BY <2>2, <2>3, <2>4, <2>6
<1>2. CASE ~c.isDense
  <2> DEFINE S == Heard(c)
             n == Cardinality(S)
             own == c.ownerIdx
             m == [c.raw EXCEPT ![own] = [@ EXCEPT !.val = v]]
  <2>1. e = [c EXCEPT !.raw = m]
    BY <1>2 DEF SetOwn
  <2>2. Lists(c.raw, S) /\ own \in DOMAIN c.raw
    BY <1>2 DEF WellFormed
  <2>3. /\ n \in Nat /\ DOMAIN c.raw = 1..n
        /\ c.raw \in [1..n -> Entry]
        /\ \A t \in S : \E i \in 1..n : c.raw[i].tid = t
        /\ \A i, j \in 1..n : c.raw[i].tid = c.raw[j].tid => i = j
    BY <2>2, ListsFacts DEF Lists
  <2> HIDE DEF S, n, own
  <2>4. [c.raw[own] EXCEPT !.val = v] \in Entry
        /\ [c.raw[own] EXCEPT !.val = v].tid = c.raw[own].tid
        /\ [c.raw[own] EXCEPT !.val = v].val = v
    BY <2>2, <2>3 DEF Entry
  <2>5. /\ m \in [1..n -> Entry]
        /\ \A i \in 1..n : m[i] = IF i = own THEN [c.raw[own] EXCEPT !.val = v] ELSE c.raw[i]
    BY <2>2, <2>3, <2>4
  <2>6. \A i \in 1..n : /\ m[i].tid = c.raw[i].tid
                        /\ m[i].val = IF i = own THEN v ELSE c.raw[i].val
    BY <2>4, <2>5
  <2> HIDE DEF m
  <2>7. Lists(m, S)
    BY <2>2, <2>5, <2>6 DEF Lists, n
  <2>8. m \in Seq(Entry) /\ DOMAIN m = 1..n
    BY <2>3, <2>5
  <2>9. e \in Rep /\ ~e.isDense /\ e.raw = m /\ e.ownerIdx = own /\ e.isDense = c.isDense
    BY <1>0, <1>2, <2>1, <2>8 DEF Rep, own
  <2>10. /\ Heard(e) = S /\ \A i \in 1..n : Val(e, m[i].tid) = m[i].val
         /\ \A t : t \notin S => Val(e, t) = 0
    BY <2>7, <2>8, <2>9, SparseFacts
  <2>11. /\ \A i \in 1..n : Val(c, c.raw[i].tid) = c.raw[i].val
         /\ \A t : t \notin S => Val(c, t) = 0
    BY <1>2, <2>2, <2>3, SparseFacts
  <2>12. WellFormed(e)
    BY <2>2, <2>3, <2>7, <2>8, <2>9, <2>10 DEF WellFormed
  <2>13. OwnerOf(c) = c.raw[own].tid /\ OwnerOf(e) = c.raw[own].tid
    BY <1>2, <2>2, <2>3, <2>6, <2>9 DEF OwnerOf, own
  <2>14. ASSUME NEW t \in Threads
         PROVE  Val(e, t) = IF t = OwnerOf(c) THEN v ELSE Val(c, t)
    <3>1. CASE t \in S
      <4>1. PICK i \in 1..n : c.raw[i].tid = t
        BY <2>3, <3>1
      <4>2. Val(e, t) = m[i].val /\ Val(c, t) = c.raw[i].val
        BY <2>6, <2>10, <2>11, <4>1
      <4>3. t = OwnerOf(c) <=> i = own
        BY <2>2, <2>3, <2>13, <4>1
      <4> QED
        BY <2>6, <4>2, <4>3
    <3>2. CASE t \notin S
      <4>1. OwnerOf(c) # t
        BY <3>2, OwnerFacts DEF S
      <4> QED
        BY <2>10, <2>11, <3>2, <4>1
    <3> QED
      BY <3>1, <3>2
  <2> QED
    BY <2>9, <2>10, <2>12, <2>13, <2>14 DEF own, S
<1> QED
  BY <1>1, <1>2

\* The clock of an event stays one when another is merged into it.
LEMMA MergeEventClock ==
    ASSUME NEW c, NEW t, EventClock(c, t), NEW d, NEW u, EventClock(d, u),
           NEW e, e = MergeInto(c, d).clock
    PROVE  EventClock(e, t) /\ Merged(c, d, e)
<1>1. WellFormed(c) /\ WellFormed(d)
  BY DEF EventClock
<1>2. /\ Merged(c, d, e)
      /\ ~e.isDense => /\ ~c.isDense /\ ~d.isDense
                       /\ Heard(e) = Heard(c) \cup Heard(d)
      /\ e.isDense => \/ c.isDense \/ d.isDense
                      \/ 2 * Cardinality(Heard(c) \cup Heard(d)) >= ThreadCount
  BY <1>1, MergeIntoMerges
<1>3. /\ WellFormed(e) /\ e.ownerIdx # Invalid /\ OwnerOf(e) = t
      /\ \A s \in Threads : Val(e, s) = Larger(Val(c, s), Val(d, s))
  BY <1>2 DEF Merged, EventClock
<1>4. Positives(c) \cup Positives(d) \subseteq Positives(e)
  <2> SUFFICES ASSUME NEW s \in Threads, Val(c, s) > 0 \/ Val(d, s) > 0
               PROVE  Val(e, s) > 0
    BY DEF Positives
  <2>1. Val(c, s) \in Nat /\ Val(d, s) \in Nat
    BY <1>1, ValFacts
  <2> QED
    BY <1>3, <2>1 DEF Larger
<1>5. ASSUME ~e.isDense PROVE Heard(e) \subseteq Positives(e)
  BY <1>2, <1>4, <1>5 DEF EventClock
<1>6. ASSUME e.isDense PROVE 2 * Cardinality(Positives(e)) >= ThreadCount
  <2>1. \A P \in SUBSET Positives(e) : /\ Cardinality(P) \in Nat
                                       /\ Cardinality(P) <= Cardinality(Positives(e))
    BY <1>3, PositivesFacts, FS_Subset, FS_CardinalityType
  <2>2. Cardinality(Positives(e)) \in Nat /\ ThreadCount \in Nat
    BY <1>3, PositivesFacts, ThreadsAreNumbers
  <2>3. \E P \in SUBSET Positives(e) : 2 * Cardinality(P) >= ThreadCount
    <3>1. CASE c.isDense
      BY <1>4, <3>1 DEF EventClock
    <3>2. CASE d.isDense
      BY <1>4, <3>2 DEF EventClock
    <3>3. CASE ~c.isDense /\ ~d.isDense
      <4>1. Heard(c) \cup Heard(d) \subseteq Positives(e)
        BY <1>4, <3>3 DEF EventClock
      <4> QED
        BY <1>2, <1>6, <3>3, <4>1
    <3> QED
      BY <3>1, <3>2, <3>3
  <2> QED
    BY <2>1, <2>2, <2>3
<1> QED
  BY <1>2, <1>3, <1>5, <1>6 DEF EventClock

\* So does the clock of the closure, whatever is merged into it.
LEMMA MergeClosureClock ==
    ASSUME NEW c, ClosureClock(c), NEW d, WellFormed(d), NEW e, e = MergeInto(c, d).clock
    PROVE  ClosureClock(e) /\ Merged(c, d, e)
<1>1. WellFormed(c) /\ c.ownerIdx = Invalid
  BY DEF ClosureClock
<1>2. Merged(c, d, e) /\ (~e.isDense => 2 * Len(e.raw) < ThreadCount)
  BY <1>1, MergeIntoMerges
<1> QED
  BY <1>1, <1>2 DEF Merged, ClosureClock

\* A dense clock of an event has a time for a thread that a sparse clock of a
\* closure has not heard of.
LEMMA DenseIsNotBelowSparse ==
    ASSUME NEW c, NEW t, EventClock(c, t), c.isDense, NEW d, ClosureClock(d), ~d.isDense
    PROVE  \E u \in Threads : Val(c, u) > 0 /\ Val(d, u) = 0
<1>1. WellFormed(c) /\ 2 * Cardinality(Positives(c)) >= ThreadCount
  BY DEF EventClock
<1>2. WellFormed(d) /\ 2 * Len(d.raw) < ThreadCount
  BY DEF ClosureClock
<1>3. Len(d.raw) = Cardinality(Heard(d)) /\ IsFiniteSet(Heard(d))
      /\ Cardinality(Heard(d)) \in Nat
  BY <1>2, ListsFacts DEF WellFormed
<1>4. Cardinality(Positives(c)) \in Nat /\ ThreadCount \in Nat
  BY <1>1, PositivesFacts, ThreadsAreNumbers
<1>5. ~(Positives(c) \subseteq Heard(d))
  <2> SUFFICES ASSUME Positives(c) \subseteq Heard(d) PROVE FALSE
    OBVIOUS
  <2>1. Cardinality(Positives(c)) <= Cardinality(Heard(d))
    BY <1>3, FS_Subset
  <2> QED
    BY <1>1, <1>2, <1>3, <1>4, <2>1
<1>6. PICK u \in Positives(c) : u \notin Heard(d)
  BY <1>5
<1> QED
  BY <1>2, <1>6, ValFacts DEF Positives

-----------------------------------------------------------------------------
(* What the predictor's clocks keep to.                                    *)

RepInv ==
    /\ clock \in [Actors -> Rep]
    /\ \A t \in Actors : EventClock(clock[t], t)
    /\ \E t \in Actors : EventClock(kept, t)
    /\ ClosureClock(sum)

\* The merged times are those of the merged functions.
LEMMA MergedAbstract ==
    ASSUME NEW c, NEW d, NEW e, Merged(c, d, e)
    PROVE  Abstract(e) = Store!Merge(Abstract(c), Abstract(d))
<1>1. \A t \in Threads : Val(e, t) = IF Val(c, t) < Val(d, t) THEN Val(d, t) ELSE Val(c, t)
  BY DEF Merged, Larger
<1>2. Store!Merge(Abstract(c), Abstract(d)) =
        [t \in Threads |-> IF Val(c, t) < Val(d, t) THEN Val(d, t) ELSE Val(c, t)]
  BY DEF Abstract, Store!Merge
<1> QED
  BY <1>1, <1>2 DEF Abstract

\* The owner's next event is one more, and nothing else.
LEMMA IncrementFacts ==
    ASSUME NEW c, NEW t \in Actors, EventClock(c, t), NEW e, e = IncrementOwn(c)
    PROVE  EventClock(e, t) /\ Abstract(e) = Store!Increment(Abstract(c), t)
<1>1. /\ WellFormed(c) /\ c.ownerIdx # Invalid /\ OwnerOf(c) = t /\ t \in Threads
      /\ OwnVal(c) = Val(c, t)
  BY OwnerFacts, AdaptiveAssumption DEF EventClock
<1>2. Val(c, t) + 1 \in Nat /\ \A u \in Threads : Val(c, u) \in Nat
  BY <1>1, ValFacts
<1>3. /\ WellFormed(e) /\ e.isDense = c.isDense /\ e.ownerIdx = c.ownerIdx
      /\ Heard(e) = Heard(c) /\ OwnerOf(e) = t
      /\ \A u \in Threads : Val(e, u) = IF u = t THEN Val(c, t) + 1 ELSE Val(c, u)
  <2>1. e = SetOwn(c, Val(c, t) + 1)
    BY <1>1 DEF IncrementOwn
  <2> QED
    BY <1>1, <1>2, <2>1, SetOwnFacts
<1>4. \A u \in Threads : Val(c, u) > 0 => Val(e, u) > 0
  BY <1>2, <1>3
<1>5. Positives(c) \subseteq Positives(e)
  BY <1>4 DEF Positives
<1>6. Cardinality(Positives(c)) <= Cardinality(Positives(e))
  BY <1>3, <1>5, PositivesFacts, FS_Subset
<1>7. /\ Cardinality(Positives(c)) \in Nat /\ Cardinality(Positives(e)) \in Nat
      /\ ThreadCount \in Nat
  BY <1>1, <1>3, PositivesFacts, ThreadsAreNumbers
<1>8. e.isDense => 2 * Cardinality(Positives(e)) >= ThreadCount
  BY <1>3, <1>6, <1>7 DEF EventClock
<1>9. ~e.isDense => Heard(e) \subseteq Positives(e)
  BY <1>3, <1>5 DEF EventClock
<1>10. Abstract(e) = Store!Increment(Abstract(c), t)
  BY <1>1, <1>3 DEF Abstract, Store!Increment
<1> QED
  BY <1>1, <1>3, <1>8, <1>9, <1>10 DEF EventClock

\* th_pred_merge_into's decrement takes the owner's last event back.
LEMMA DecrementFacts ==
    ASSUME NEW c, NEW t \in Actors, EventClock(c, t), NEW e, e = DecrementOwn(c)
    PROVE  WellFormed(e) /\ Abstract(e) = Store!Decrement(Abstract(c), t)
<1>1. /\ WellFormed(c) /\ c.ownerIdx # Invalid /\ OwnerOf(c) = t /\ t \in Threads
      /\ OwnVal(c) = Val(c, t)
  BY OwnerFacts, AdaptiveAssumption DEF EventClock
<1> DEFINE m == Val(c, t)
           v == IF m = 0 THEN 0 ELSE m - 1
<1>2. m \in Nat
  BY <1>1, ValFacts
<1>3. e = SetOwn(c, v)
  <2>1. e = SetOwn(c, Max({0, m - 1}))
    BY <1>1 DEF DecrementOwn
  <2> HIDE DEF m
  <2>2. Max({0, m - 1}) = CHOOSE x \in {0, m - 1} : \A y \in {0, m - 1} : x >= y
    BY DEF Max
  <2>3. \E x \in {0, m - 1} : \A y \in {0, m - 1} : x >= y
    BY <1>2
  <2>4. /\ Max({0, m - 1}) \in {0, m - 1}
        /\ Max({0, m - 1}) >= 0 /\ Max({0, m - 1}) >= m - 1
    BY <2>2, <2>3
  <2>5. Max({0, m - 1}) = v
    BY <1>2, <2>4
  <2> QED
    BY <2>1, <2>5
<1>4. v \in Nat
  BY <1>2
<1>5. /\ WellFormed(e)
      /\ \A u \in Threads : Val(e, u) = IF u = t THEN v ELSE Val(c, u)
  BY <1>1, <1>3, <1>4, SetOwnFacts
<1>6. Abstract(e) = [u \in Threads |-> IF u = t THEN v ELSE Val(c, u)]
  BY <1>5 DEF Abstract
<1>7. Abstract(e) = Store!Decrement(Abstract(c), t)
  BY <1>1, <1>6 DEF Abstract, Store!Decrement
<1> QED
  BY <1>5, <1>7

\* One thread's clock is replaced by that of an event of its own.
LEMMA ClockReplaced ==
    ASSUME RepInv, NEW t \in Actors, NEW e, EventClock(e, t),
           clock' = [clock EXCEPT ![t] = e], UNCHANGED <<kept, sum>>
    PROVE  /\ RepInv'
           /\ [s \in Actors |-> Abstract(clock'[s])]
                = [[s \in Actors |-> Abstract(clock[s])] EXCEPT ![t] = Abstract(e)]
<1>1. clock \in [Actors -> Rep] /\ e \in Rep
  BY DEF RepInv, EventClock, WellFormed
<1>2. /\ clock' \in [Actors -> Rep]
      /\ \A s \in Actors : clock'[s] = IF s = t THEN e ELSE clock[s]
  BY <1>1
<1>3. \A s \in Actors : EventClock(clock'[s], s)
  BY <1>2 DEF RepInv
<1>4. RepInv'
  BY <1>2, <1>3 DEF RepInv
<1>5. [s \in Actors |-> Abstract(clock'[s])]
        = [s \in Actors |-> IF s = t THEN Abstract(e) ELSE Abstract(clock[s])]
  BY <1>2
<1> QED
  BY <1>4, <1>5

\* The predictor begins as the store does.
LEMMA InitImplements ==
    ASSUME Init
    PROVE  RepInv /\ Store!Init
<1>1. PICK k \in Actors : kept = Owned(k)
  BY DEF Init
<1>2. clock = [t \in Actors |-> Owned(t)] /\ sum = Empty /\ changed = FALSE
  BY DEF Init
<1>3. \A t \in Actors : t \in Threads
  BY AdaptiveAssumption
<1>4. ThreadCount > 0
  BY <1>1, <1>3, ThreadsAreNumbers
<1>5. \A t \in Actors : EventClock(Owned(t), t) /\ Owned(t) \in Rep
  BY <1>3, OwnedFacts DEF EventClock, WellFormed
<1>6. RepInv
  BY <1>1, <1>2, <1>4, <1>5, EmptyFacts DEF RepInv
<1>7. \A t \in Actors : Abstract(Owned(t)) = Store!OwnedClock(t)
  BY <1>3, OwnedFacts DEF Abstract, Store!OwnedClock
<1>8. Abstract(sum) = Store!EmptyClock
  BY <1>2, <1>4, EmptyFacts DEF Abstract, Store!EmptyClock
<1>9. OwnerOf(kept) = k
  BY <1>1, <1>5 DEF EventClock
<1>10. [t \in Actors |-> Abstract(clock[t])] = [t \in Actors |-> Store!OwnedClock(t)]
  BY <1>2, <1>7
<1> QED
  BY <1>1, <1>2, <1>6, <1>7, <1>8, <1>9, <1>10 DEF Store!Init

\* A thread's event is its tick in the store.
LEMMA TickImplements ==
    ASSUME RepInv, NEW t \in Actors, Tick(t)
    PROVE  RepInv' /\ Store!Tick(t)
<1> DEFINE e == IncrementOwn(clock[t])
<1>1. EventClock(clock[t], t) /\ clock \in [Actors -> Rep]
  BY DEF RepInv
<1>2. EventClock(e, t) /\ Abstract(e) = Store!Increment(Abstract(clock[t]), t)
  BY <1>1, IncrementFacts
<1>3. /\ clock' = [clock EXCEPT ![t] = e]
      /\ changed' = FALSE /\ kept' = kept /\ sum' = sum
  BY DEF Tick
<1> HIDE DEF e
<1>4. /\ RepInv'
      /\ [s \in Actors |-> Abstract(clock'[s])]
           = [[s \in Actors |-> Abstract(clock[s])] EXCEPT ![t] = Abstract(e)]
  BY <1>2, <1>3, ClockReplaced
<1> QED
  BY <1>2, <1>3, <1>4 DEF Store!Tick

\* A thread that merges another's clock does so in the store.
LEMMA MergeThreadImplements ==
    ASSUME RepInv, NEW t \in Actors, NEW u \in Actors, MergeThread(t, u)
    PROVE  RepInv' /\ Store!MergeThread(t, u)
<1> DEFINE e == MergeInto(clock[t], clock[u]).clock
<1>1. EventClock(clock[t], t) /\ EventClock(clock[u], u)
  BY DEF RepInv
<1>2. EventClock(e, t) /\ Merged(clock[t], clock[u], e)
  BY <1>1, MergeEventClock
<1>3. clock \in [Actors -> Rep]
  BY DEF RepInv
<1>4. /\ clock' = [clock EXCEPT ![t] = e] /\ t # u
      /\ changed' = FALSE /\ kept' = kept /\ sum' = sum
  BY <1>3 DEF MergeThread
<1> HIDE DEF e
<1>5. Abstract(e) = Store!Merge(Abstract(clock[t]), Abstract(clock[u]))
  BY <1>2, MergedAbstract
<1>6. /\ RepInv'
      /\ [s \in Actors |-> Abstract(clock'[s])]
           = [[s \in Actors |-> Abstract(clock[s])] EXCEPT ![t] = Abstract(e)]
  BY <1>2, <1>4, ClockReplaced
<1> QED
  BY <1>4, <1>5, <1>6 DEF Store!MergeThread

\* So does one that merges the clock of a kept event.
LEMMA MergeKeptImplements ==
    ASSUME RepInv, NEW t \in Actors, MergeKept(t)
    PROVE  RepInv' /\ Store!MergeKept(t)
<1> DEFINE e == MergeInto(clock[t], kept).clock
<1>1. EventClock(clock[t], t) /\ \E k \in Actors : EventClock(kept, k)
  BY DEF RepInv
<1>2. EventClock(e, t) /\ Merged(clock[t], kept, e)
  BY <1>1, MergeEventClock
<1>3. clock \in [Actors -> Rep]
  BY DEF RepInv
<1>4. /\ clock' = [clock EXCEPT ![t] = e]
      /\ changed' = FALSE /\ kept' = kept /\ sum' = sum
  BY <1>3 DEF MergeKept
<1> HIDE DEF e
<1>5. Abstract(e) = Store!Merge(Abstract(clock[t]), Abstract(kept))
  BY <1>2, MergedAbstract
<1>6. /\ RepInv'
      /\ [s \in Actors |-> Abstract(clock'[s])]
           = [[s \in Actors |-> Abstract(clock[s])] EXCEPT ![t] = Abstract(e)]
  BY <1>2, <1>4, ClockReplaced
<1> QED
  BY <1>4, <1>5, <1>6 DEF Store!MergeKept

\* The clock that is kept is known to be the thread's.
LEMMA KeepImplements ==
    ASSUME RepInv, NEW t \in Actors, Keep(t)
    PROVE  RepInv' /\ Store!Keep(t)
<1>1. kept' = clock[t] /\ changed' = FALSE /\ clock' = clock /\ sum' = sum
  BY DEF Keep
<1>2. EventClock(clock[t], t)
  BY DEF RepInv
<1>3. RepInv'
  BY <1>1, <1>2 DEF RepInv
<1>4. OwnerOf(kept') = t
  BY <1>1, <1>2 DEF EventClock
<1>5. Abstract(kept') = [s \in Actors |-> Abstract(clock[s])][t]
  BY <1>1
<1> QED
  BY <1>1, <1>3, <1>4, <1>5 DEF Store!Keep

\* A closure begins with the empty clock.
LEMMA StartClosureImplements ==
    ASSUME RepInv, StartClosure
    PROVE  RepInv' /\ Store!StartClosure
<1>1. sum' = Empty /\ changed' = FALSE /\ clock' = clock /\ kept' = kept
  BY DEF StartClosure
<1>2. ThreadCount > 0
  BY AdaptiveAssumption, ThreadsAreNumbers DEF RepInv
<1>3. RepInv'
  BY <1>1, <1>2, EmptyFacts DEF RepInv
<1>4. Abstract(sum') = Store!EmptyClock
  BY <1>1, <1>2, EmptyFacts DEF Abstract, Store!EmptyClock
<1> QED
  BY <1>1, <1>3, <1>4 DEF Store!StartClosure

\* th_pred_merge_into is the merge with the owner's component one lower.
LEMMA MergePredecessorImplements ==
    ASSUME RepInv, MergePredecessor
    PROVE  RepInv' /\ Store!MergePredecessor
<1> DEFINE d == DecrementOwn(kept)
           e == MergeInto(sum, d).clock
<1>1. sum' = e /\ changed' = FALSE /\ clock' = clock /\ kept' = kept
  BY DEF MergePredecessor
<1>2. PICK k \in Actors : EventClock(kept, k)
  BY DEF RepInv
<1>3. WellFormed(d) /\ Abstract(d) = Store!Decrement(Abstract(kept), k)
  BY <1>2, DecrementFacts
<1>4. OwnerOf(kept) = k /\ ClosureClock(sum)
  BY <1>2 DEF EventClock, RepInv
<1> HIDE DEF d
<1>5. ClosureClock(e) /\ Merged(sum, d, e)
  BY <1>3, <1>4, MergeClosureClock
<1> HIDE DEF e
<1>6. RepInv'
  BY <1>1, <1>5 DEF RepInv
<1>7. Abstract(sum') = Store!PredMerge(Abstract(sum), Abstract(kept), OwnerOf(kept))
  BY <1>1, <1>3, <1>4, <1>5, MergedAbstract DEF Store!PredMerge
<1> QED
  BY <1>1, <1>6, <1>7 DEF Store!MergePredecessor

\* Merging leaves the times alone if none of the other clock's is greater.
LEMMA UnchangedTimes ==
    ASSUME NEW c, WellFormed(c), NEW d, WellFormed(d), NEW e, Merged(c, d, e)
    PROVE  Abstract(e) = Abstract(c) <=> \A t \in Threads : Val(d, t) <= Val(c, t)
<1>1. \A t \in Threads : Val(e, t) = Val(c, t) <=> Val(d, t) <= Val(c, t)
  <2> TAKE t \in Threads
  <2>1. Val(e, t) = Larger(Val(c, t), Val(d, t))
    BY DEF Merged
  <2>2. Val(c, t) \in Nat /\ Val(d, t) \in Nat
    BY ValFacts
  <2> QED
    BY <2>1, <2>2 DEF Larger
<1>2. Abstract(e) = Abstract(c) <=> \A t \in Threads : Val(e, t) = Val(c, t)
  <2>1. Abstract(e) = Abstract(c) => \A t \in Threads : Abstract(e)[t] = Abstract(c)[t]
    OBVIOUS
  <2>2. \A t \in Threads : Abstract(e)[t] = Val(e, t) /\ Abstract(c)[t] = Val(c, t)
    BY DEF Abstract
  <2>3. (\A t \in Threads : Val(e, t) = Val(c, t)) => Abstract(e) = Abstract(c)
    BY DEF Abstract
  <2> QED
    BY <2>1, <2>2, <2>3
<1> QED
  BY <1>1, <1>2

\* Two sparse clocks, of which the second holds no zeros: the merged entries are
\* the old ones exactly when none of the second's times is greater.
LEMMA SparseChanged ==
    ASSUME NEW c, WellFormed(c), ~c.isDense,
           NEW d, WellFormed(d), ~d.isDense, Heard(d) \subseteq Positives(d),
           NEW m, m = MergedEntries(c, d)
    PROVE  m = c.raw <=> \A t \in Threads : Val(d, t) <= Val(c, t)
<1> DEFINE S == Heard(c) \cup Heard(d)
<1>1. /\ Lists(m, S)
      /\ \A i \in DOMAIN m : m[i].val = Larger(Val(c, m[i].tid), Val(d, m[i].tid))
  BY MergedFacts
<1>2. /\ Lists(c.raw, Heard(c))
      /\ \A i \in DOMAIN c.raw : Val(c, c.raw[i].tid) = c.raw[i].val
  BY SparseFacts DEF WellFormed
<1>3. /\ \A t \in Threads : Val(c, t) \in Nat /\ Val(d, t) \in Nat
      /\ \A t \in Threads : t \notin Heard(c) => Val(c, t) = 0
      /\ \A t \in Threads : t \notin Heard(d) => Val(d, t) = 0
      /\ Heard(c) \subseteq Threads /\ Heard(d) \subseteq Threads
  BY ValFacts
<1>4. ASSUME m = c.raw, NEW t \in Threads
      PROVE  Val(d, t) <= Val(c, t)
  <2>1. CASE t \in S
    <3> HIDE DEF S
    <3>1. DOMAIN m = 1..Cardinality(S) /\ \E i \in 1..Cardinality(S) : m[i].tid = t
      BY <1>1, <2>1, ListsFacts
    <3>2. PICK i \in DOMAIN m : m[i].tid = t
      BY <3>1
    <3>3. m[i].val = Larger(Val(c, t), Val(d, t)) /\ m[i].val = Val(c, t)
      BY <1>1, <1>2, <1>4, <3>2
    <3> QED
      BY <1>3, <3>3 DEF Larger
  <2>2. CASE t \notin S
    BY <1>3, <2>2
  <2> QED
    BY <2>1, <2>2
<1>5. ASSUME \A t \in Threads : Val(d, t) <= Val(c, t)
      PROVE  m = c.raw
  <2>1. Heard(d) \subseteq Heard(c)
    <3> SUFFICES ASSUME NEW t \in Heard(d) PROVE t \in Heard(c)
      OBVIOUS
    <3>1. t \in Threads /\ Val(d, t) > 0 /\ Val(d, t) <= Val(c, t)
      BY <1>3, <1>5 DEF Positives
    <3> QED
      BY <1>3, <3>1
  <2>2. S = Heard(c)
    BY <2>1
  <2> DEFINE n == Cardinality(Heard(c))
  <2>3. /\ m \in [1..n -> Entry] /\ c.raw \in [1..n -> Entry]
        /\ \A i \in 1..n : m[i].tid = c.raw[i].tid
    BY <1>1, <1>2, <2>2 DEF Lists
  <2> HIDE DEF n
  <2>4. ASSUME NEW i \in 1..n PROVE m[i] = c.raw[i]
    <3>1. m[i] \in Entry /\ c.raw[i] \in Entry /\ m[i].tid = c.raw[i].tid
      BY <2>3
    <3> DEFINE t == c.raw[i].tid
    <3>2. t \in Threads
      BY <3>1 DEF Entry
    <3>3. m[i].val = Larger(Val(c, t), Val(d, t)) /\ c.raw[i].val = Val(c, t)
      BY <1>1, <1>2, <2>3, <3>1
    <3> HIDE DEF t
    <3>4. m[i].val = c.raw[i].val
      BY <1>3, <1>5, <3>2, <3>3 DEF Larger
    <3> QED
      BY <3>1, <3>4 DEF Entry
  <2>5. m = [i \in 1..n |-> m[i]] /\ c.raw = [i \in 1..n |-> c.raw[i]]
    BY <2>3
  <2>6. [i \in 1..n |-> m[i]] = [i \in 1..n |-> c.raw[i]]
    BY <2>4
  <2> QED
    BY <2>5, <2>6
<1> QED
  BY <1>4, <1>5

\* A dense clock changes exactly when one of the other's times is greater.
LEMMA DenseChanged ==
    ASSUME NEW c, WellFormed(c), c.isDense, NEW d, WellFormed(d)
    PROVE  (\E t \in Heard(d) : Val(d, t) > c.raw[t])
             <=> ~ \A t \in Threads : Val(d, t) <= Val(c, t)
<1>1. \A t \in Threads : Val(c, t) = c.raw[t]
  BY DEF Val
<1>2. /\ \A t \in Threads : Val(c, t) \in Nat /\ Val(d, t) \in Nat
      /\ \A t \in Threads : t \notin Heard(d) => Val(d, t) = 0
      /\ Heard(d) \subseteq Threads
  BY ValFacts
<1>3. \A t \in Threads : Val(d, t) > Val(c, t) <=> ~(Val(d, t) <= Val(c, t))
  BY <1>2
<1>4. \A t \in Threads : Val(d, t) > Val(c, t) => t \in Heard(d)
  BY <1>2
<1> QED
  BY <1>1, <1>2, <1>3, <1>4

\* What merge_into returns: whether the times of a closure's clock changed.
LEMMA ChangedIsTrue ==
    ASSUME NEW c, ClosureClock(c), NEW d, NEW t, EventClock(d, t)
    PROVE  MergeInto(c, d).changed <=> ~ \A u \in Threads : Val(d, u) <= Val(c, u)
<1>0. WellFormed(c) /\ WellFormed(d) /\ c.isDense \in BOOLEAN /\ d.isDense \in BOOLEAN
  BY DEF ClosureClock, EventClock, WellFormed, Rep
<1>1. CASE ~c.isDense /\ ~d.isDense
  <2>1. MergeInto(c, d).changed <=> MergedEntries(c, d) # c.raw
    BY <1>1 DEF MergeInto, MergeSparse
  <2>2. Heard(d) \subseteq Positives(d)
    BY <1>1 DEF EventClock
  <2> QED
    BY <1>0, <1>1, <2>1, <2>2, SparseChanged
<1>2. CASE ~c.isDense /\ d.isDense
  <2>1. MergeInto(c, d).changed
    BY <1>2 DEF MergeInto, SparseMergeDense
  <2>2. PICK u \in Threads : Val(d, u) > 0 /\ Val(c, u) = 0
    BY <1>2, DenseIsNotBelowSparse
  <2>3. Val(d, u) \in Nat
    BY <1>0, ValFacts
  <2>4. ~(Val(d, u) <= Val(c, u))
    BY <2>2, <2>3
  <2> QED
    BY <2>1, <2>4
<1>3. CASE c.isDense
  <2>1. MergeInto(c, d).changed <=> \E u \in Heard(d) : Val(d, u) > c.raw[u]
    BY <1>3 DEF MergeInto, MergeDense
  <2> QED
    BY <1>0, <1>3, <2>1, DenseChanged
<1> QED
  BY <1>0, <1>1, <1>2, <1>3

\* The closure is told the truth about a change.
LEMMA MergeReleaseImplements ==
    ASSUME RepInv, MergeRelease
    PROVE  RepInv' /\ Store!MergeRelease
<1> DEFINE e == MergeInto(sum, kept).clock
<1>1. /\ sum' = e /\ changed' = MergeInto(sum, kept).changed
      /\ clock' = clock /\ kept' = kept
  BY DEF MergeRelease
<1>2. PICK k \in Actors : EventClock(kept, k)
  BY DEF RepInv
<1>3. ClosureClock(sum) /\ WellFormed(sum) /\ WellFormed(kept)
  BY <1>2 DEF RepInv, ClosureClock, EventClock
<1>4. ClosureClock(e) /\ Merged(sum, kept, e)
  BY <1>3, MergeClosureClock
<1>5. changed' = (Abstract(e) # Abstract(sum))
  <2>1. changed' <=> ~ \A u \in Threads : Val(kept, u) <= Val(sum, u)
    BY <1>1, <1>2, <1>3, ChangedIsTrue
  <2>2. changed' \in BOOLEAN
    <3>1. sum.isDense \in BOOLEAN /\ kept.isDense \in BOOLEAN
      BY <1>3 DEF WellFormed, Rep
    <3> QED
      BY <1>1, <3>1 DEF MergeInto, MergeSparse, SparseMergeDense, MergeDense
  <2>3. Abstract(e) = Abstract(sum) <=> \A u \in Threads : Val(kept, u) <= Val(sum, u)
    BY <1>3, <1>4, UnchangedTimes
  <2> QED
    BY <2>1, <2>2, <2>3
<1> HIDE DEF e
<1>6. RepInv'
  BY <1>1, <1>4 DEF RepInv
<1>7. Abstract(sum') = Store!Merge(Abstract(sum), Abstract(kept))
  BY <1>1, <1>4, MergedAbstract
<1>8. changed' = (Abstract(sum') # Abstract(sum))
  BY <1>1, <1>5
<1> QED
  BY <1>1, <1>6, <1>7, <1>8 DEF Store!MergeRelease

\* Every step keeps the representations in order and is the store's.
LEMMA StepImplements ==
    ASSUME RepInv, [Next]_vars
    PROVE  RepInv' /\ [Store!Next]_Store!vars
<1>1. CASE UNCHANGED vars
  <2>1. clock' = clock /\ kept' = kept /\ sum' = sum /\ changed' = changed
    BY <1>1 DEF vars
  <2>2. RepInv'
    BY <2>1 DEF RepInv
  <2>3. UNCHANGED Store!vars
    BY <2>1 DEF Store!vars
  <2> QED
    BY <2>2, <2>3
<1>2. ASSUME NEW t \in Actors, Tick(t) PROVE RepInv' /\ Store!Next
  BY <1>2, TickImplements DEF Store!Next
<1>3. ASSUME NEW t \in Actors, MergeKept(t) PROVE RepInv' /\ Store!Next
  BY <1>3, MergeKeptImplements DEF Store!Next
<1>4. ASSUME NEW t \in Actors, Keep(t) PROVE RepInv' /\ Store!Next
  BY <1>4, KeepImplements DEF Store!Next
<1>5. ASSUME NEW t \in Actors, NEW u \in Actors, MergeThread(t, u)
      PROVE  RepInv' /\ Store!Next
  BY <1>5, MergeThreadImplements DEF Store!Next
<1>6. ASSUME StartClosure PROVE RepInv' /\ Store!Next
  BY <1>6, StartClosureImplements DEF Store!Next
<1>7. ASSUME MergePredecessor PROVE RepInv' /\ Store!Next
  BY <1>7, MergePredecessorImplements DEF Store!Next
<1>8. ASSUME MergeRelease PROVE RepInv' /\ Store!Next
  BY <1>8, MergeReleaseImplements DEF Store!Next
<1> QED
  BY <1>1, <1>2, <1>3, <1>4, <1>5, <1>6, <1>7, <1>8 DEF Next

\* The representations are always in order: sorted, with the owner's index at
\* the owner's entry, and dense only where there are enough times.
THEOREM ClocksStayWellFormed == Spec => []RepInv
<1>1. Init => RepInv
  BY InitImplements
<1>2. RepInv /\ [Next]_vars => RepInv'
  BY StepImplements
<1> QED
  BY <1>1, <1>2, PTL DEF Spec

\* The clocks of the predictor hold the times that clocks without
\* representation would, the right component ticks, and merge_into is right
\* about whether it changed the closure's.
THEOREM ClocksImplementStore == Spec => ImplementsStore
<1>1. Init => Store!Init
  BY InitImplements
<1>2. RepInv /\ [Next]_vars => [Store!Next]_Store!vars
  BY StepImplements
<1> QED
  BY <1>1, <1>2, ClocksStayWellFormed, PTL DEF Spec, ImplementsStore, Store!Spec

-----------------------------------------------------------------------------
(* The comparisons.                                                        *)

\* operator<=: a clock of an event is below the closure's exactly when each of
\* its times is.
LEMMA LessEqualAgrees ==
    ASSUME NEW c, NEW k, EventClock(c, k), NEW d, ClosureClock(d)
    PROVE  LessEqual(c, d) <=> \A t \in Threads : Val(c, t) <= Val(d, t)
<1>1. WellFormed(c) /\ WellFormed(d) /\ c.isDense \in BOOLEAN /\ d.isDense \in BOOLEAN
  BY DEF ClosureClock, EventClock, WellFormed, Rep
<1>2. /\ \A t \in Threads : Val(c, t) \in Nat /\ Val(d, t) \in Nat
      /\ \A t \in Threads : t \notin Heard(c) => Val(c, t) = 0
      /\ \A t \in Threads : t \notin Heard(d) => Val(d, t) = 0
      /\ Heard(c) \subseteq Threads
  BY <1>1, ValFacts
<1>3. CASE c.isDense /\ ~d.isDense
  <2>1. PICK u \in Threads : Val(c, u) > 0 /\ Val(d, u) = 0
    BY <1>3, DenseIsNotBelowSparse
  <2>2. ~(Val(c, u) <= Val(d, u))
    BY <1>2, <2>1
  <2> QED
    BY <1>3, <2>2 DEF LessEqual
<1>4. CASE ~(c.isDense /\ ~d.isDense)
  <2>1. ASSUME NEW t \in Heard(c), Val(c, t) <= Val(d, t) PROVE t \in Heard(d)
    <3>1. CASE c.isDense
      BY <1>1, <1>2, <1>4, <2>1, <3>1 DEF Heard
    <3>2. CASE ~c.isDense
      <4>1. t \in Threads /\ Val(c, t) > 0
        BY <2>1, <3>2 DEF EventClock, Positives
      <4> QED
        BY <1>2, <2>1, <4>1
    <3> QED
      BY <1>1, <3>1, <3>2
  <2>2. AllLeq(c, d) <=> \A t \in Heard(c) : Val(c, t) <= Val(d, t)
    BY <2>1 DEF AllLeq
  <2>3. \A t \in Threads : t \notin Heard(c) => Val(c, t) <= Val(d, t)
    BY <1>2
  <2> QED
    BY <1>2, <1>4, <2>2, <2>3 DEF LessEqual
<1> QED
  BY <1>1, <1>3, <1>4

\* operator<: the exception is a sparse clock with the closure's times, when the
\* closure's is dense or has heard of other threads.
LEMMA LessThanAgrees ==
    ASSUME NEW c, NEW k, EventClock(c, k), NEW d, ClosureClock(d)
    PROVE  LessThan(c, d) <=>
             /\ \A t \in Threads : Val(c, t) <= Val(d, t)
             /\ \/ \E t \in Threads : Val(c, t) < Val(d, t)
                \/ ~c.isDense /\ (d.isDense \/ Heard(c) # Heard(d))
<1>1. WellFormed(c) /\ WellFormed(d) /\ c.isDense \in BOOLEAN /\ d.isDense \in BOOLEAN
  BY DEF ClosureClock, EventClock, WellFormed, Rep
<1>2. /\ \A t \in Threads : Val(c, t) \in Nat /\ Val(d, t) \in Nat
      /\ \A t \in Threads : t \notin Heard(c) => Val(c, t) = 0
      /\ \A t \in Threads : t \notin Heard(d) => Val(d, t) = 0
      /\ Heard(c) \subseteq Threads /\ Heard(d) \subseteq Threads
  BY <1>1, ValFacts
<1>3. LessEqual(c, d) <=> \A t \in Threads : Val(c, t) <= Val(d, t)
  BY LessEqualAgrees
<1>4. CASE c.isDense /\ ~d.isDense
  <2>1. ~LessEqual(c, d) /\ ~LessThan(c, d)
    BY <1>4 DEF LessEqual, LessThan
  <2> QED
    BY <1>3, <2>1
<1>5. CASE ~c.isDense /\ d.isDense
  <2>1. LessThan(c, d) <=> LessEqual(c, d)
    BY <1>5 DEF LessEqual, LessThan
  <2> QED
    BY <1>3, <1>5, <2>1
<1>6. CASE (c.isDense /\ d.isDense) \/ (~c.isDense /\ ~d.isDense)
  <2> DEFINE Greater == \E t \in Heard(d) : Val(c, t) < Val(d, t) \/ t \notin Heard(c)
  <2>1. LessThan(c, d) <=> LessEqual(c, d) /\ Greater
    BY <1>6 DEF LessEqual, LessThan
  <2>2. CASE c.isDense /\ d.isDense
    <3>1. Heard(c) = Threads /\ Heard(d) = Threads
      BY <2>2 DEF Heard
    <3>2. Greater <=> \E t \in Threads : Val(c, t) < Val(d, t)
      BY <3>1
    <3> QED
      BY <1>3, <2>1, <2>2, <3>2
  <2>3. CASE ~c.isDense /\ ~d.isDense
    <3>1. ASSUME LessEqual(c, d) PROVE Heard(c) \subseteq Heard(d)
      BY <3>1, <2>3 DEF LessEqual, AllLeq
    <3>2. \A t \in Threads : Val(c, t) < Val(d, t) => t \in Heard(d)
      BY <1>2
    <3>3. ASSUME LessEqual(c, d)
          PROVE  Greater <=> \/ \E t \in Threads : Val(c, t) < Val(d, t)
                             \/ Heard(c) # Heard(d)
      BY <1>2, <3>1, <3>2, <3>3
    <3> QED
      BY <1>3, <2>1, <2>3, <3>3
  <2> QED
    BY <1>6, <2>2, <2>3
<1> QED
  BY <1>1, <1>4, <1>5, <1>6

\* What the comparisons say of the clock of an event and the closure's, which is
\* what halves the checker's queues.
LEMMA AgreementHolds ==
    ASSUME RepInv
    PROVE  ComparisonsAgree
<1> DEFINE v == Abstract(kept)
           w == Abstract(sum)
<1>1. PICK k \in Actors : EventClock(kept, k)
  BY DEF RepInv
<1>2. ClosureClock(sum) /\ WellFormed(sum) /\ WellFormed(kept)
  BY <1>1 DEF RepInv, ClosureClock, EventClock
<1>3. \A t \in Threads : /\ v[t] = Val(kept, t) /\ w[t] = Val(sum, t)
                         /\ Val(kept, t) \in Nat /\ Val(sum, t) \in Nat
  BY <1>2, ValFacts DEF Abstract
<1>4. Store!Leq(v, w) <=> \A t \in Threads : Val(kept, t) <= Val(sum, t)
  BY <1>3 DEF Store!Leq
<1>5. Store!Less(v, w) <=> /\ Store!Leq(v, w)
                           /\ \E t \in Threads : Val(kept, t) < Val(sum, t)
  BY <1>3 DEF Store!Less
<1>6. v = w <=> \A t \in Threads : Val(kept, t) = Val(sum, t)
  <2>1. v = w => \A t \in Threads : v[t] = w[t]
    OBVIOUS
  <2>2. (\A t \in Threads : Val(kept, t) = Val(sum, t)) => v = w
    BY DEF Abstract
  <2> QED
    BY <1>3, <2>1, <2>2
<1>7. v = w <=> Store!Leq(v, w) /\ ~ \E t \in Threads : Val(kept, t) < Val(sum, t)
  <2>1. \A t \in Threads : Val(kept, t) = Val(sum, t)
          <=> Val(kept, t) <= Val(sum, t) /\ ~(Val(kept, t) < Val(sum, t))
    BY <1>3
  <2> HIDE DEF v, w
  <2> QED
    BY <1>4, <1>6, <2>1
<1> HIDE DEF v, w
<1>8. LessEqual(kept, sum) <=> Store!Leq(v, w)
  BY <1>1, <1>2, <1>4, LessEqualAgrees
<1>9. LessThan(kept, sum) <=>
        /\ Store!Leq(v, w)
        /\ \/ \E t \in Threads : Val(kept, t) < Val(sum, t)
           \/ ~kept.isDense /\ (sum.isDense \/ Heard(kept) # Heard(sum))
  BY <1>1, <1>2, <1>4, LessThanAgrees
<1>10. LessThan(kept, sum) <=>
         \/ Store!Less(v, w)
         \/ v = w /\ ~kept.isDense /\ (sum.isDense \/ Heard(kept) # Heard(sum))
  BY <1>5, <1>7, <1>9
<1> QED
  BY <1>8, <1>10 DEF ComparisonsAgree, v, w

\* The comparisons of an event's clock with the closure's agree with the order
\* of clocks, but for an equal clock with fewer entries, which is reported less.
THEOREM ComparisonsAgreeAlways == Spec => []ComparisonsAgree
  BY ClocksStayWellFormed, AgreementHolds, PTL

=============================================================================
