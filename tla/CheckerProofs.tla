---------------------------- MODULE CheckerProofs ----------------------------
(***************************************************************************)
(* What holds of the predictor for any trace and any number of threads and *)
(* locks: the checker's searches are right, its closures hold what every   *)
(* sync-preserving reordering must and no more, what it reports are        *)
(* deadlocks and what it gives up on has none.                             *)
(***************************************************************************)
EXTENDS RequestProofs, Predictor

-----------------------------------------------------------------------------
(* The loops of the closure.                                               *)

\* Finitely many numbers have a greatest one.
LEMMA GreatestNatural ==
    ASSUME NEW P, IsFiniteSet(P), P \subseteq Nat, P # {}
    PROVE  Max(P) \in P /\ \A q \in P : q <= Max(P)
<1>1. PICK n \in Nat : \E f : f \in Surjection(1..n, P)
  BY FS_NatSurjection DEF ExistsSurjection
<1>2. PICK f : f \in Surjection(1..n, P)
  BY <1>1
<1>3. f \in [1..n -> P] /\ \A q \in P : \E i \in 1..n : f[i] = q
  BY <1>2 DEF Surjection
<1>4. ASSUME NEW i \in 1..n
      PROVE  f[i] \in Nat
  <2>1. f[i] \in P
    BY <1>3
  <2> QED
    BY <2>1
<1> DEFINE G == {k \in 0..n : \E m \in Nat : \A i \in 1..k : f[i] <= m}
<1>5. 0 \in G
  <2>1. 0 \in 0..n /\ 0 \in Nat /\ \A i \in 1..0 : f[i] <= 0
    OBVIOUS
  <2> QED
    BY <2>1
<1>6. ASSUME NEW k \in 1..n, k - 1 \in G
      PROVE  k \in G
  <2>1. PICK m \in Nat : \A i \in 1..(k-1) : f[i] <= m
    BY <1>6
  <2>2. f[k] \in Nat /\ k \in 0..n
    BY <1>4
  <2>3. CASE f[k] <= m
    <3>1. \A i \in 1..k : i = k \/ i \in 1..(k-1)
      OBVIOUS
    <3>2. \A i \in 1..k : f[i] <= m
      BY <2>1, <2>3, <3>1
    <3> QED
      BY <2>2, <3>2
  <2>4. CASE m < f[k]
    <3>1. \A i \in 1..k : i = k \/ i \in 1..(k-1)
      OBVIOUS
    <3>2. \A i \in 1..(k-1) : f[i] \in Nat
      BY <1>4
    <3>3. \A i \in 1..k : f[i] <= f[k]
      BY <2>1, <2>2, <2>4, <3>1, <3>2
    <3> QED
      BY <2>2, <3>3
  <2> QED
    BY <2>2, <2>3, <2>4
<1>7. n \in G
  <2> HIDE DEF G
  <2>1. \A k \in 0..n : k \in G
    BY <1>5, <1>6, InductionUpTo
  <2> QED
    BY <2>1
<1>8. PICK m \in Nat : \A i \in 1..n : f[i] <= m
  BY <1>7
<1>9. P \subseteq 0..m
  <2> SUFFICES ASSUME NEW q \in P
               PROVE  q \in 0..m
    OBVIOUS
  <2>1. PICK i \in 1..n : f[i] = q
    BY <1>3
  <2>2. q \in Nat
    OBVIOUS
  <2> QED
    BY <1>8, <2>1, <2>2
<1> QED
  BY <1>9, MaxFacts

\* Threads have a greatest one.
LEMMA GreatestThread ==
    /\ Max(Threads) \in Threads /\ Max(Threads) \in Nat
    /\ \A t \in Threads : t \in Nat /\ t <= Max(Threads)
<1>1. IsFiniteSet(Threads) /\ Threads \subseteq Nat /\ Main \in Threads
  BY GraphAssumption, HandlerAssumption
<1>2. Max(Threads) \in Threads /\ \A q \in Threads : q <= Max(Threads)
  BY <1>1, GreatestNatural
<1> QED
  BY <1>1, <1>2

\* What LatestStarted compares: the sections of any two threads that started one have
\* different places in the trace, and the comparison tells which comes first.
Comparable(sections, started) ==
    \A t, u \in started : t # u =>
        /\ sections[t].lock.pos \in Nat /\ sections[u].lock.pos \in Nat
        /\ sections[t].lock.pos # sections[u].lock.pos
        /\ LessThanTr(sections[t], sections[u]) <=> sections[t].lock.pos < sections[u].lock.pos

\* It is one of the threads that started a section, and none has started one after it.
LEMMA LatestStartedFacts ==
    ASSUME NEW l, NEW popped, NEW started, started = {t \in Threads : popped[t] > 0},
           NEW sections, \A t \in started : sections[t] = csHist[l][t][popped[t]],
           Comparable(sections, started), NEW last, last = LatestStarted(l, popped)
    PROVE  \A t \in started :
              /\ last \in started
              /\ t # last => sections[t].lock.pos < sections[last].lock.pos
<1> DEFINE N == Max(Threads) + 1
           A == Threads \cup {NoThread}
           startedOne(n) == n \in Threads /\ popped[n] > 0
           section(n) == csHist[l][n][popped[n]]
           Round(n, x) == IF startedOne(n - 1) /\ (x = NoThread \/ LessThanTr(section(x), section(n - 1)))
                          THEN n - 1 ELSE x
           Rec(f) == [n \in 0..N |-> IF n = 0 THEN NoThread
                                     ELSE IF /\ startedOne(n - 1)
                                             /\ \/ f[n-1] = NoThread
                                                \/ LessThanTr(section(f[n-1]), section(n - 1))
                                          THEN n - 1 ELSE f[n-1]]
           g == CHOOSE f : f = Rec(f)
           F == [x \in (1..N) \X A |-> Round(x[1], x[2])]
<1>1. last = g[N]
  BY DEF LatestStarted
<1>2. N \in Nat /\ \A t \in Threads : t \in 0..(N - 1)
  BY GreatestThread
<1>3. \A i \in 1..N, x \in A : F[<<i, x>>] = Round(i, x) /\ Round(i, x) \in A
  OBVIOUS
<1> HIDE DEF F
<1>4. PICK f : Iterates(f, N, A, NoThread, F)
  <2> HIDE DEF Round, N
  <2>1. NoThread \in A
    OBVIOUS
  <2> HIDE DEF A
  <2> QED
    BY <1>2, <1>3, <2>1, IterationExists
<1>5. f = Rec(f)
  <2>1. f = [i \in 0..N |-> IF i = 0 THEN NoThread ELSE F[<<i, f[i-1]>>]]
    BY <1>2, <1>4, IterationOf
  <2>2. \A i \in 0..N : i # 0 => F[<<i, f[i-1]>>] = Round(i, f[i-1])
    <3>1. \A i \in 0..N : i # 0 => i - 1 \in 0..N /\ i \in 1..N
      BY <1>2
    <3>2. f \in [0..N -> A]
      BY <1>4 DEF Iterates
    <3> HIDE DEF N, A, Round
    <3> QED
      BY <1>3, <3>1, <3>2
  <2> HIDE DEF N
  <2> QED
    BY <2>1, <2>2
<1>6. g = Rec(g)
  BY <1>5
<1>7. /\ g[0] = NoThread
      /\ \A n \in 1..N : g[n] = Round(n, g[n-1])
  <2> HIDE DEF g
  <2>1. \A n \in 0..N : g[n] = IF n = 0 THEN NoThread
                               ELSE IF /\ startedOne(n - 1)
                                       /\ \/ g[n-1] = NoThread
                                          \/ LessThanTr(section(g[n-1]), section(n - 1))
                                    THEN n - 1 ELSE g[n-1]
    BY <1>6
  <2>2. 0 \in 0..N /\ \A n \in 1..N : n \in 0..N /\ n # 0
    BY <1>2
  <2> HIDE DEF N
  <2> QED
    BY <2>1, <2>2
<1> HIDE DEF g, N
<1> DEFINE Good(n) == /\ g[n] = NoThread => \A t \in started : ~(t < n)
                      /\ g[n] # NoThread =>
                            /\ g[n] \in started /\ g[n] < n
                            /\ \A t \in started : t < n /\ t # g[n] =>
                                  sections[t].lock.pos < sections[g[n]].lock.pos
           G == {n \in 0..N : Good(n)}
<1>8. \A t \in started : t \in Threads /\ t \in Nat /\ t # NoThread
  <2> TAKE t \in started
  <2>1. t \in Threads
    OBVIOUS
  <2>2. t \in Nat
    BY <2>1, GreatestThread
  <2>3. t # NoThread
    BY <2>2 DEF NoThread
  <2> QED
    BY <2>1, <2>2, <2>3
<1>9. 0 \in G
  <2>1. \A t \in started : ~(t < 0)
    <3> TAKE t \in started
    <3>1. t \in Nat
      BY <1>8
    <3> QED
      BY <3>1
  <2>2. Good(0)
    BY <1>7, <2>1
  <2>3. 0 \in 0..N
    BY <1>2
  <2> HIDE DEF Good
  <2> QED
    BY <2>2, <2>3
<1>10. ASSUME NEW n \in 1..N, n - 1 \in G
       PROVE  n \in G
  <2>1. n \in 0..N /\ n \in Nat /\ n - 1 \in Nat
    BY <1>2
  <2>2. Good(n - 1)
    BY <1>10
  <2>3. \A t \in started : t < n => t < n - 1 \/ t = n - 1
    BY <1>8, <2>1
  <2>4. g[n] = Round(n, g[n-1])
    BY <1>7
  <2>5. startedOne(n - 1) <=> n - 1 \in started
    OBVIOUS
  <2>6. CASE n - 1 \notin started
    <3>1. g[n] = g[n-1]
      BY <2>4, <2>5, <2>6
    <3>2. \A t \in started : t < n => t < n - 1
      BY <2>3, <2>6
    <3>3. g[n-1] \in started /\ g[n-1] < n - 1 => g[n-1] < n
      BY <1>8, <2>1
    <3>4. Good(n)
      BY <2>2, <3>1, <3>2, <3>3
    <3> QED
      BY <2>1, <3>4
  <2>7. CASE n - 1 \in started /\ g[n-1] = NoThread
    <3>1. g[n] = n - 1 /\ n - 1 # NoThread /\ n - 1 < n
      BY <1>8, <2>1, <2>4, <2>5, <2>7
    <3>2. \A t \in started : t < n => t = n - 1
      BY <2>2, <2>3, <2>7
    <3>3. Good(n)
      BY <2>7, <3>1, <3>2
    <3> QED
      BY <2>1, <3>3
  <2>8. CASE n - 1 \in started /\ g[n-1] # NoThread
    <3> DEFINE u == g[n-1]
    <3>1. /\ u \in started /\ u < n - 1
          /\ \A t \in started : t < n - 1 /\ t # u => sections[t].lock.pos < sections[u].lock.pos
      BY <2>2, <2>8
    <3> HIDE DEF u
    <3>2. u # n - 1 /\ u < n /\ u \in Nat
      BY <1>8, <2>1, <3>1
    <3>3. /\ sections[u].lock.pos \in Nat /\ sections[n-1].lock.pos \in Nat
          /\ sections[u].lock.pos # sections[n-1].lock.pos
          /\ LessThanTr(sections[u], sections[n-1])
                <=> sections[u].lock.pos < sections[n-1].lock.pos
      BY <2>8, <3>1, <3>2 DEF Comparable
    <3>4. sections[u] = section(u) /\ sections[n-1] = section(n-1)
      BY <2>8, <3>1
    <3>5. \A t \in started : t # u => sections[t].lock.pos \in Nat
      BY <3>1 DEF Comparable
    <3>6. CASE sections[u].lock.pos < sections[n-1].lock.pos
      <4>1. g[n] = n - 1 /\ n - 1 # NoThread /\ n - 1 < n
        <5>1. LessThanTr(section(u), section(n-1))
          BY <3>3, <3>4, <3>6
        <5>2. Round(n, u) = n - 1
          BY <2>5, <2>8, <5>1
        <5>3. g[n] = Round(n, u)
          BY <2>4 DEF u
        <5>4. n - 1 # NoThread
          BY <1>8, <2>8
        <5> HIDE DEF Round
        <5> QED
          BY <2>1, <5>2, <5>3, <5>4
      <4>2. \A t \in started : t < n /\ t # n - 1 =>
               sections[t].lock.pos < sections[n-1].lock.pos
        BY <2>3, <3>1, <3>3, <3>5, <3>6
      <4>3. Good(n)
        BY <2>8, <4>1, <4>2
      <4> QED
        BY <2>1, <4>3
    <3>7. CASE ~(sections[u].lock.pos < sections[n-1].lock.pos)
      <4>1. g[n] = u /\ u # NoThread
        BY <2>4, <2>8, <3>3, <3>4, <3>7 DEF u
      <4>2. sections[n-1].lock.pos < sections[u].lock.pos
        BY <3>3, <3>7
      <4>3. \A t \in started : t < n /\ t # u => sections[t].lock.pos < sections[u].lock.pos
        BY <2>3, <3>1, <4>2
      <4>4. Good(n)
        BY <3>1, <3>2, <4>1, <4>3
      <4> QED
        BY <2>1, <4>4
    <3> QED
      BY <3>6, <3>7
  <2> QED
    BY <2>6, <2>7, <2>8
<1>11. Good(N)
  <2> HIDE DEF G
  <2>1. \A n \in 0..N : n \in G
    BY <1>2, <1>9, <1>10, InductionUpTo
  <2> QED
    BY <1>2, <2>1 DEF G
<1>12. \A t \in started : t < N
  <2> TAKE t \in started
  <2>1. t \in 0..(N - 1)
    BY <1>2
  <2> QED
    BY <1>2, <2>1
<1> HIDE DEF Good
<1>13. /\ last = NoThread => \A t \in started : ~(t < N)
       /\ last # NoThread =>
             /\ last \in started
             /\ \A t \in started : t < N /\ t # last =>
                   sections[t].lock.pos < sections[last].lock.pos
  BY <1>1, <1>11 DEF Good
<1> QED
  BY <1>12, <1>13

-----------------------------------------------------------------------------
(* Merging many clocks.                                                    *)

\* The clocks that w gives to the members of I, and S together with the sets that R gives
\* them.
Values(w, I) == {w[i] : i \in I}
Together(S, I, R) == S \cup UNION {R[i] : i \in I}

\* The least clock above v and finitely many others: each component is that of one of them.
Joins(v, I, w, m) ==
    /\ m \in Clock
    /\ \A t \in Threads : v[t] <= m[t]
    /\ \A i \in I : \A t \in Threads : w[i][t] <= m[t]
    /\ \A t \in Threads : m[t] = v[t] \/ \E i \in I : m[t] = w[i][t]

\* MergeAll yields it.
LEMMA MergeAllFacts ==
    ASSUME NEW v \in Clock, NEW I, IsFiniteSet(I), NEW w \in [I -> Clock],
           NEW m, m = MergeAll(v, Values(w, I))
    PROVE  Joins(v, I, w, m)
<1> DEFINE clocks == {w[i] : i \in I}
           P(t) == {v[t]} \cup {x[t] : x \in clocks}
<1>1. m = [t \in Threads |-> Max(P(t))]
  BY DEF MergeAll, Values
<1>2. ASSUME NEW t \in Threads
      PROVE  /\ m[t] \in Nat /\ v[t] <= m[t] /\ \A i \in I : w[i][t] <= m[t]
             /\ m[t] = v[t] \/ \E i \in I : m[t] = w[i][t]
  <2> DEFINE f == [i \in I |-> w[i][t]]
             T == {w[i][t] : i \in I}
  <2>1. P(t) = T \cup {v[t]}
    OBVIOUS
  <2>2. f \in Surjection(I, T)
    BY DEF Surjection
  <2>3. IsFiniteSet(T)
    <3> HIDE DEF f, T
    <3> QED
      BY <2>2, FS_Surjection
  <2>4. IsFiniteSet(P(t))
    <3> HIDE DEF T
    <3> QED
      BY <2>1, <2>3, FS_AddElement
  <2>5. v[t] \in Nat /\ \A i \in I : w[i][t] \in Nat
    BY DEF Clock
  <2>6. P(t) \subseteq Nat /\ P(t) # {}
    BY <2>1, <2>5
  <2>7. m[t] \in P(t) /\ \A q \in P(t) : q <= m[t]
    <3>1. m[t] = Max(P(t))
      BY <1>1
    <3> HIDE DEF P
    <3> QED
      BY <2>4, <2>6, <3>1, GreatestNatural
  <2>8. v[t] \in P(t) /\ \A i \in I : w[i][t] \in P(t)
    BY <2>1
  <2>9. m[t] = v[t] \/ m[t] \in T
    BY <2>1, <2>7
  <2> HIDE DEF P
  <2> QED
    BY <2>6, <2>7, <2>8, <2>9
<1>3. m \in Clock
  <2>1. \A t \in Threads : m[t] \in Nat
    BY <1>2
  <2>2. m = [t \in Threads |-> m[t]]
    BY <1>1
  <2> QED
    BY <2>1, <2>2 DEF Clock
<1> QED
  BY <1>2, <1>3 DEF Joins

\* Merging many clocks joins what they reflect.
LEMMA ReflectsMergeAll ==
    ASSUME NEW lg \in Seq(LogEntry), NEW kept, kept \subseteq Event,
           \A e \in kept : e.pos \in PositionsOf(lg),
           NEW v \in Clock, NEW I, IsFiniteSet(I), NEW w \in [I -> Clock],
           NEW m, m = MergeAll(v, Values(w, I)),
           NEW S, Reflects(lg, kept, v, S), NEW R, \A i \in I : Reflects(lg, kept, w[i], R[i])
    PROVE  Reflects(lg, kept, m, Together(S, I, R))
<1>0. Joins(v, I, w, m)
  BY MergeAllFacts
<1>1. /\ m \in Clock
      /\ \A t \in Threads : v[t] <= m[t]
      /\ \A i \in I : \A t \in Threads : w[i][t] <= m[t]
      /\ \A t \in Threads : m[t] = v[t] \/ \E i \in I : m[t] = w[i][t]
  BY <1>0 DEF Joins
<1> SUFFICES ASSUME NEW e \in kept, NEW o, o = lg[e.pos + 1].tid
             PROVE  /\ e.pos \in S \cup UNION {R[i] : i \in I} => Leq(e.vc, m)
                    /\ e.vc[o] <= m[o] => e.pos \in S \cup UNION {R[i] : i \in I}
  BY DEF Reflects, Together
<1>2. e.vc \in Clock
  BY DEF Event
<1>3. o \in Threads
  <2>1. e.pos + 1 \in 1..Len(lg)
    BY DEF PositionsOf
  <2>2. lg[e.pos + 1] \in LogEntry
    BY <2>1
  <2> QED
    BY <2>2 DEF LogEntry
<1>4. ASSUME NEW x \in Clock, Leq(e.vc, x), \A t \in Threads : x[t] <= m[t]
      PROVE  Leq(e.vc, m)
  <2> SUFFICES ASSUME NEW t \in Threads
               PROVE  e.vc[t] <= m[t]
    BY DEF Leq
  <2>1. e.vc[t] \in Nat /\ x[t] \in Nat /\ m[t] \in Nat
    BY <1>1, <1>2, <1>4 DEF Clock
  <2>2. e.vc[t] <= x[t] /\ x[t] <= m[t]
    BY <1>4 DEF Leq
  <2> QED
    BY <2>1, <2>2
<1>5. ASSUME e.pos \in S \cup UNION {R[i] : i \in I}
      PROVE  Leq(e.vc, m)
  <2>1. CASE e.pos \in S
    <3>1. Leq(e.vc, v)
      BY <2>1 DEF Reflects
    <3> QED
      BY <1>1, <1>4, <3>1
  <2>2. CASE \E i \in I : e.pos \in R[i]
    <3>1. PICK i \in I : e.pos \in R[i]
      BY <2>2
    <3>2. Leq(e.vc, w[i])
      BY <3>1 DEF Reflects
    <3>3. w[i] \in Clock
      OBVIOUS
    <3> QED
      BY <1>1, <1>4, <3>2, <3>3
  <2> QED
    BY <1>5, <2>1, <2>2
<1>6. ASSUME e.vc[o] <= m[o]
      PROVE  e.pos \in S \cup UNION {R[i] : i \in I}
  <2>1. CASE m[o] = v[o]
    BY <1>6, <2>1 DEF Reflects
  <2>2. ASSUME NEW i \in I, m[o] = w[i][o]
        PROVE  e.pos \in R[i]
    BY <1>6, <2>2 DEF Reflects
  <2>3. m[o] = v[o] \/ \E i \in I : m[o] = w[i][o]
    BY <1>1, <1>3
  <2>4. CASE \E i \in I : m[o] = w[i][o]
    <3>1. PICK i \in I : m[o] = w[i][o]
      BY <2>4
    <3>2. e.pos \in R[i]
      BY <2>2, <3>1
    <3> QED
      BY <3>2
  <2> QED
    BY <2>1, <2>3, <2>4
<1> QED
  BY <1>5, <1>6

-----------------------------------------------------------------------------
(* The least prefix.                                                       *)

\* f are the sets that Ideal goes through.
Grows(f, S) ==
    /\ f \in [0..Len(log) -> SUBSET Positions]
    /\ f[0] = S
    /\ \A n \in 1..Len(log) : f[n] = f[n-1] \cup Forced(f[n-1])
    /\ Ideal(S) = f[Len(log)]

\* There are such sets.
LEMMA GrowthExists ==
    ASSUME Len(log) \in Nat, NEW S \in SUBSET Positions,
           \A T \in SUBSET Positions : Forced(T) \in SUBSET Positions
    PROVE  \E f : Grows(f, S)
<1> DEFINE N == Len(log)
           A == SUBSET Positions
           F == [x \in (1..N) \X A |-> x[2] \cup Forced(x[2])]
           Rec(f) == [n \in 0..N |-> IF n = 0 THEN S ELSE LET H == f[n-1] IN H \cup Forced(H)]
           g == CHOOSE f : f = Rec(f)
<1>1. Ideal(S) = g[N]
  BY DEF Ideal
<1>2. N \in Nat /\ S \in A
  OBVIOUS
<1>3. \A x \in A : x \cup Forced(x) \in A
  OBVIOUS
<1>4. \A i \in 1..N, x \in A : F[<<i, x>>] = x \cup Forced(x)
  OBVIOUS
<1> HIDE DEF F, N, A
<1>5. PICK f : Iterates(f, N, A, S, F)
  BY <1>2, <1>3, <1>4, IterationExists
<1>6. f = [i \in 0..N |-> IF i = 0 THEN S ELSE F[<<i, f[i-1]>>]]
  BY <1>2, <1>5, IterationOf
<1>7. \A i \in 0..N : i # 0 => F[<<i, f[i-1]>>] = f[i-1] \cup Forced(f[i-1])
  <2>1. \A i \in 0..N : i # 0 => i - 1 \in 0..N /\ i \in 1..N
    BY <1>2
  <2> QED
    BY <1>4, <1>5, <2>1 DEF Iterates
<1>8. f = Rec(f)
  BY <1>6, <1>7
<1>9. g = Rec(g)
  BY <1>8
<1>10. \A n \in 0..N : g[n] = IF n = 0 THEN S ELSE g[n-1] \cup Forced(g[n-1])
  BY <1>9
<1>11. DOMAIN g = 0..N
  BY <1>9
<1>12. g = [n \in 0..N |-> g[n]]
  BY <1>9
<1> HIDE DEF g, Rec
<1> DEFINE G == {n \in 0..N : g[n] \in A}
<1>13. \A n \in 0..N : n \in G
  <2>1. 0 \in 0..N /\ \A n \in 1..N : n \in 0..N /\ n # 0
    BY <1>2
  <2>2. g[0] = S
    BY <1>10, <2>1
  <2>3. 0 \in G
    BY <1>2, <2>1, <2>2
  <2>4. ASSUME NEW n \in 1..N, n - 1 \in G
        PROVE  n \in G
    <3>1. g[n] = g[n-1] \cup Forced(g[n-1])
      BY <1>10, <2>1
    <3>2. g[n-1] \in A
      BY <2>4
    <3> QED
      BY <1>3, <2>1, <3>1, <3>2
  <2> HIDE DEF G
  <2> QED
    BY <1>2, <2>3, <2>4, InductionUpTo
<1>14. g \in [0..N -> A]
  BY <1>12, <1>13
<1>15. g[0] = S /\ \A n \in 1..N : g[n] = g[n-1] \cup Forced(g[n-1])
  <2>1. 0 \in 0..N /\ \A n \in 1..N : n \in 0..N /\ n # 0
    BY <1>2
  <2> QED
    BY <1>10, <2>1
<1> QED
  BY <1>1, <1>14, <1>15 DEF Grows, N, A

\* More events force no fewer.
LEMMA ForcedMonotone ==
    ASSUME NEW S, NEW T, S \subseteq T
    PROVE  Forced(S) \subseteq Forced(T)
BY DEF Forced

\* The least prefix that contains S: it is one, and every other one contains it.
LEMMA IdealFacts ==
    ASSUME Len(log) \in Nat, NEW S \in SUBSET Positions,
           \A T \in SUBSET Positions : Forced(T) \in SUBSET Positions
    PROVE  /\ S \subseteq Ideal(S) /\ Ideal(S) \subseteq Positions
           /\ Forced(Ideal(S)) \subseteq Ideal(S)
           /\ \A T : S \subseteq T /\ Forced(T) \subseteq T => Ideal(S) \subseteq T
<1> DEFINE N == Len(log)
<1>1. PICK f : Grows(f, S)
  BY GrowthExists
<1>2. /\ f \in [0..N -> SUBSET Positions]
      /\ f[0] = S
      /\ \A n \in 1..N : f[n] = f[n-1] \cup Forced(f[n-1])
      /\ Ideal(S) = f[N]
  BY <1>1 DEF Grows
<1>3. N \in Nat /\ N \in 0..N
  OBVIOUS
<1> HIDE DEF N
<1>4. S \subseteq f[N]
  <2> DEFINE G == {n \in 0..N : S \subseteq f[n]}
  <2>1. 0 \in G
    BY <1>2, <1>3
  <2>2. \A n \in 1..N : n - 1 \in G => n \in G
    BY <1>2, <1>3
  <2> HIDE DEF G
  <2>3. N \in G
    BY <1>3, <2>1, <2>2, InductionUpTo
  <2> QED
    BY <2>3 DEF G
<1>5. ASSUME NEW T, S \subseteq T, Forced(T) \subseteq T
      PROVE  f[N] \subseteq T
  <2> DEFINE G == {n \in 0..N : f[n] \subseteq T}
  <2>1. 0 \in G
    BY <1>2, <1>3, <1>5
  <2>2. ASSUME NEW n \in 1..N, n - 1 \in G
        PROVE  n \in G
    <3>1. f[n-1] \subseteq T
      BY <2>2
    <3>2. Forced(f[n-1]) \subseteq T
      BY <1>5, <3>1, ForcedMonotone
    <3>3. n \in 0..N
      BY <1>3
    <3> QED
      BY <1>2, <3>1, <3>2, <3>3
  <2> HIDE DEF G
  <2>3. N \in G
    BY <1>3, <2>1, <2>2, InductionUpTo
  <2> QED
    BY <2>3 DEF G
<1>6. IsFiniteSet(Positions) /\ Cardinality(Positions) = N
  <2>1. Positions = 0..(N - 1)
    BY DEF Positions, N
  <2> QED
    BY <1>3, <2>1, FS_Interval
<1>7. \A n \in 0..N : IsFiniteSet(f[n]) /\ Cardinality(f[n]) \in Nat
  BY <1>2, <1>6, FS_Subset, FS_CardinalityType
<1>8. Forced(f[N]) \subseteq f[N] \/ Cardinality(f[N]) >= N
  <2> DEFINE G == {n \in 0..N : Forced(f[n]) \subseteq f[n] \/ Cardinality(f[n]) >= n}
  <2>1. 0 \in G
    BY <1>3, <1>7
  <2>2. ASSUME NEW n \in 1..N, n - 1 \in G
        PROVE  n \in G
    <3>1. n \in 0..N /\ n - 1 \in 0..N /\ n \in Nat
      BY <1>3
    <3>2. f[n] = f[n-1] \cup Forced(f[n-1])
      BY <1>2
    <3>3. CASE Forced(f[n-1]) \subseteq f[n-1]
      <4>1. f[n] = f[n-1]
        BY <3>2, <3>3
      <4> QED
        BY <3>1, <3>3, <4>1
    <3>4. CASE ~(Forced(f[n-1]) \subseteq f[n-1])
      <4>1. f[n-1] \in SUBSET f[n] /\ f[n-1] # f[n]
        BY <3>2, <3>4
      <4>2. Cardinality(f[n-1]) <= Cardinality(f[n]) /\ Cardinality(f[n-1]) # Cardinality(f[n])
        BY <1>7, <3>1, <4>1, FS_Subset
      <4>3. Cardinality(f[n-1]) >= n - 1
        BY <2>2, <3>4
      <4>4. Cardinality(f[n]) >= n
        BY <1>7, <3>1, <4>2, <4>3
      <4> QED
        BY <3>1, <4>4
    <3> QED
      BY <3>3, <3>4
  <2> HIDE DEF G
  <2>3. N \in G
    BY <1>3, <2>1, <2>2, InductionUpTo
  <2> QED
    BY <2>3 DEF G
<1>9. f[N] \in SUBSET Positions
  BY <1>2, <1>3
<1>10. ASSUME Cardinality(f[N]) >= N
       PROVE  Forced(f[N]) \subseteq f[N]
  <2>1. Cardinality(f[N]) <= N
    BY <1>6, <1>9, FS_Subset
  <2>2. Cardinality(f[N]) = Cardinality(Positions)
    BY <1>3, <1>6, <1>7, <1>10, <2>1
  <2>3. f[N] = Positions
    BY <1>6, <1>9, <2>2, FS_Subset
  <2> QED
    BY <1>9, <2>3
<1> QED
  BY <1>2, <1>4, <1>5, <1>8, <1>9, <1>10

-----------------------------------------------------------------------------
(* What the handler leaves to the checker, beside what the other proofs     *)
(* establish.                                                              *)

\* The past of an event holds that of its events, and what its thread did before.
Causal(lg) ==
    \A q \in PositionsOf(lg) :
        /\ \A p \in lg[q + 1].past : lg[p + 1].past \subseteq lg[q + 1].past
        /\ \A p \in PositionsOf(lg) :
              p < q /\ lg[p + 1].tid = lg[q + 1].tid => p \in lg[q + 1].past

\* The clock of a kept event counts the event.
KeptTicked == \A e \in Kept : e.vc[log[e.pos + 1].tid] > 0

\* What a thread keeps, it knows from then on.
GoingUp ==
    /\ \A e \in Kept : Leq(e.vc, clock[log[e.pos + 1].tid])
    /\ \A d, e \in Kept :
          d.pos < e.pos /\ log[d.pos + 1].tid = log[e.pos + 1].tid => Leq(d.vc, e.vc)

\* The events of a critical section are its thread's.
SectionThreads ==
    \A l \in Locks, t \in Threads : \A s \in Elements(csHist[l][t]) :
        /\ log[s.lock.pos + 1].tid = t
        /\ s.unlock # NoEvent => log[s.unlock.pos + 1].tid = t

\* Every step is an event.
LEMMA StepIsEvent ==
    ASSUME TypeOK, OwnTimeInv, LogNext
    PROVE  \E t \in Threads : \E type, target, loc, clk : EventStep(t, type, target, loc, clk)
<1> DEFINE Goal == \E t \in Threads : \E type, target, loc, clk : EventStep(t, type, target, loc, clk)
<1>1. ASSUME NEW t \in Threads, NEW type, NEW target, NEW loc, NEW clk,
             EventStep(t, type, target, loc, clk)
      PROVE  Goal
  BY <1>1
<1> HIDE DEF Goal
<1>2. ASSUME NEW t \in Threads, NEW x \in Vars
      PROVE  /\ ReadEvent(t, x) /\ Record(t, "RD", x, 0) => Goal
             /\ WriteEvent(t, x) /\ Record(t, "WR", x, 0) => Goal
  BY <1>1, TickingEvents
<1>3. ASSUME NEW t \in Threads, NEW c \in CondVars, NEW loc \in SrcLocs,
             WaitEvent(t, c, loc), Record(t, "WAIT", c, loc)
      PROVE  Goal
  BY <1>1, <1>3, TickingEvents
<1>4. ASSUME NEW t \in Threads, NEW c \in CondVars, NEW all \in BOOLEAN,
             NotifyEvent(t, c, all), Record(t, "NOTIFY", c, 0)
      PROVE  Goal
  BY <1>1, <1>4, TickingEvents
<1>5. ASSUME NEW t \in Threads, NEW l \in Locks, NEW loc \in SrcLocs,
             RequestEvent(t, l, loc), Record(t, "REQ", l, loc)
      PROVE  Goal
  BY <1>1, <1>5, RequestIsEvent
<1>6. ASSUME NEW t \in Threads, NEW l \in Locks
      PROVE  /\ AcquireEvent(t, l) /\ Record(t, "LK", l, 0) => Goal
             /\ ReleaseEvent(t, l) /\ Record(t, "UK", l, 0) => Goal
  BY <1>1, TickingEvents
<1>7. ASSUME NEW t \in Threads, NEW u \in Threads
      PROVE  /\ ForkEvent(t, u) /\ Record(t, "FORK", u, 0) => Goal
             /\ JoinEvent(t, u) /\ Record(t, "JOIN", u, 0) => Goal
  BY <1>1, OtherEvents
<1>8. ASSUME NEW t \in Threads, InvalidEvent(t), Record(t, "OTHER", 0, 0)
      PROVE  Goal
  BY <1>1, <1>8, OtherEvents
<1>9. Goal
  BY <1>2, <1>3, <1>4, <1>5, <1>6, <1>7, <1>8 DEF LogNext
<1> QED
  BY <1>9 DEF Goal

\* An event has the past of those right before it.
LEMMA CausalOfEvent ==
    ASSUME LogInv, LogInv', PastInv, Causal(log), NEW t \in Threads, NEW type, NEW target,
           NEW loc, NEW clk, EventStep(t, type, target, loc, clk)
    PROVE  Causal(log')
<1> DEFINE x == NextEntry(t, type, target, loc)
           past == PastOf(t, type, target, loc)
           now == Immediate(t, type, target)
<1>1. /\ Known(log, t) \subseteq past /\ past \subseteq PositionsOf(log)
      /\ PositionsOf(log') = PositionsOf(log) \cup {pos} /\ pos \notin PositionsOf(log)
      /\ \A p \in PositionsOf(log) : log'[p + 1] = log[p + 1]
  BY KnownAfter
<1>2. log'[pos + 1].past = past /\ log'[pos + 1].tid = t
  <2>1. Record(t, type, target, loc)
    BY DEF EventStep
  <2>2. log'[pos + 1] = x /\ x.tid = t
    BY <2>1, RecordedEntry
  <2> QED
    BY <2>2 DEF PastOf
<1>3. past = now \cup UNION {log[p + 1].past : p \in now} /\ now \subseteq PositionsOf(log)
  <2>1. now \subseteq PositionsOf(log)
    BY ImmediateFacts DEF Positions, PositionsOf
  <2>2. past = now \cup UNION {log[p + 1].past : p \in now}
    BY DEF PastOf, NextEntry, Entry
  <2> QED
    BY <2>1, <2>2
<1>4. Mine(log, t) \subseteq past
  BY <1>1 DEF PastInv
<1>5. \A q \in PositionsOf(log) : log[q + 1].past \subseteq PositionsOf(log)
  <2>1. \A q \in PositionsOf(log) : log[q + 1].past \subseteq 0..(q - 1)
    BY DEF LogInv, Positions, PositionsOf, Entry
  <2>2. Len(log) \in Nat
    BY DEF LogInv
  <2>3. \A q \in PositionsOf(log) : 0..(q - 1) \subseteq PositionsOf(log)
    BY <2>2 DEF PositionsOf
  <2> QED
    BY <2>1, <2>3
<1> HIDE DEF past, now, x
<1> SUFFICES ASSUME NEW q \in PositionsOf(log')
             PROVE  /\ \A p \in log'[q + 1].past : log'[p + 1].past \subseteq log'[q + 1].past
                    /\ \A p \in PositionsOf(log') :
                          p < q /\ log'[p + 1].tid = log'[q + 1].tid => p \in log'[q + 1].past
  BY DEF Causal
<1>6. PositionsOf(log') \subseteq Int
  BY DEF PositionsOf
<1>7. pos \in Nat /\ \A p \in PositionsOf(log) : p < pos
  BY DEF LogInv, PositionsOf
<1>8. CASE q = pos
  <2>1. ASSUME NEW p \in past
        PROVE  log[p + 1].past \subseteq past
    <3>1. CASE p \in now
      BY <1>3, <3>1
    <3>2. ASSUME NEW r \in now, p \in log[r + 1].past
          PROVE  log[p + 1].past \subseteq past
      <4>1. log[p + 1].past \subseteq log[r + 1].past
        BY <1>3, <3>2 DEF Causal
      <4> QED
        BY <1>3, <4>1
    <3> QED
      BY <1>3, <2>1, <3>1, <3>2
  <2>2. \A p \in past : log'[p + 1] = log[p + 1]
    BY <1>1
  <2>3. ASSUME NEW p \in PositionsOf(log'), p < q, log'[p + 1].tid = t
        PROVE  p \in past
    <3>1. p \in PositionsOf(log)
      BY <1>1, <1>6, <1>8, <2>3
    <3>2. log[p + 1].tid = t
      BY <1>1, <2>3, <3>1
    <3>3. p \in Mine(log, t)
      BY <3>1, <3>2 DEF Mine
    <3> QED
      BY <1>4, <3>3
  <2> QED
    BY <1>2, <1>8, <2>1, <2>2, <2>3
<1>9. CASE q \in PositionsOf(log)
  <2>1. log'[q + 1] = log[q + 1]
    BY <1>1, <1>9
  <2>2. \A p \in log[q + 1].past : log'[p + 1] = log[p + 1]
    BY <1>1, <1>5, <1>9
  <2>3. \A p \in log[q + 1].past : log[p + 1].past \subseteq log[q + 1].past
    BY <1>9 DEF Causal
  <2>4. ASSUME NEW p \in PositionsOf(log'), p < q, log'[p + 1].tid = log'[q + 1].tid
        PROVE  p \in log'[q + 1].past
    <3>1. p \in PositionsOf(log)
      <4>1. q < pos
        BY <1>7, <1>9
      <4>2. p # pos
        BY <1>6, <1>7, <2>4, <4>1
      <4> QED
        BY <1>1, <4>2
    <3>2. log[p + 1].tid = log[q + 1].tid
      BY <1>1, <2>1, <2>4, <3>1
    <3> QED
      BY <1>9, <2>1, <2>4, <3>1, <3>2 DEF Causal
  <2> QED
    BY <2>1, <2>2, <2>3, <2>4
<1> QED
  BY <1>1, <1>8, <1>9

\* A new event is kept with a clock that counts it.
LEMMA TickedOfEvent ==
    ASSUME TypeOK, OwnTimeInv, LogInv, LogInv', PastInv, KeptTicked, NEW t \in Threads,
           NEW type, NEW target, NEW loc, NEW clk, EventStep(t, type, target, loc, clk)
    PROVE  KeptTicked'
<1>1. /\ \A p \in PositionsOf(log) : log'[p + 1] = log[p + 1]
      /\ log'[pos + 1].tid = t
  <2>1. Record(t, type, target, loc)
    BY DEF EventStep
  <2> DEFINE x == NextEntry(t, type, target, loc)
  <2>2. log'[pos + 1] = x /\ x.tid = t /\ \A p \in PositionsOf(log) : log'[p + 1] = log[p + 1]
    BY <2>1, RecordedEntry
  <2> QED
    BY <2>2
<1>2. clk[t] > 0
  BY DEF EventStep, OwnTimeInv
<1> SUFFICES ASSUME NEW e \in Kept'
             PROVE  e.vc[log'[e.pos + 1].tid] > 0
  BY DEF KeptTicked
<1>3. e \in Kept \/ e = [vc |-> clk, pos |-> pos]
  BY DEF EventStep
<1>4. CASE e \in Kept
  <2>1. e.pos \in PositionsOf(log)
    BY <1>4 DEF PastInv
  <2> QED
    BY <1>1, <1>4, <2>1 DEF KeptTicked
<1>5. CASE e = [vc |-> clk, pos |-> pos]
  <2>1. e.vc = clk /\ e.pos = pos
    BY <1>5
  <2> QED
    BY <1>1, <1>2, <2>1
<1> QED
  BY <1>3, <1>4, <1>5

\* Clocks are compared component by component.
LEMMA LeqTransitive ==
    ASSUME NEW u \in Clock, NEW v \in Clock, NEW w \in Clock, Leq(u, v), Leq(v, w)
    PROVE  Leq(u, w)
<1> SUFFICES ASSUME NEW t \in Threads
             PROVE  u[t] <= w[t]
  BY DEF Leq
<1>1. u[t] \in Nat /\ v[t] \in Nat /\ w[t] \in Nat
  BY DEF Clock
<1>2. u[t] <= v[t] /\ v[t] <= w[t]
  BY DEF Leq
<1> QED
  BY <1>1, <1>2

\* A thread's clock grows, and a new event is kept with one that has not shrunk.
LEMMA GoingUpOfEvent ==
    ASSUME TypeOK, LogInv, LogInv', PastInv, GoingUp, NEW t \in Threads,
           NEW type, NEW target, NEW loc, NEW clk, EventStep(t, type, target, loc, clk)
    PROVE  GoingUp'
<1>1. /\ \A p \in PositionsOf(log) : log'[p + 1] = log[p + 1]
      /\ log'[pos + 1].tid = t
  <2>1. Record(t, type, target, loc)
    BY DEF EventStep
  <2> DEFINE x == NextEntry(t, type, target, loc)
  <2>2. log'[pos + 1] = x /\ x.tid = t /\ \A p \in PositionsOf(log) : log'[p + 1] = log[p + 1]
    BY <2>1, RecordedEntry
  <2> QED
    BY <2>2
<1>2. \A e \in Kept' : e \in Kept \/ (e.vc = clk /\ e.pos = pos)
  BY DEF EventStep
<1>3. ASSUME NEW e \in Kept
      PROVE  /\ e.pos \in PositionsOf(log) /\ e.pos \in Nat /\ e.pos < pos /\ e.vc \in Clock
             /\ log'[e.pos + 1] = log[e.pos + 1]
  <2>1. e.pos \in PositionsOf(log)
    BY DEF PastInv
  <2>2. e.pos \in Nat /\ e.pos < pos
    BY <2>1 DEF LogInv, PositionsOf
  <2>3. e \in Event
    BY KeptType
  <2> QED
    BY <1>1, <2>1, <2>2, <2>3 DEF Event
<1>4. clk \in Clock /\ Leq(clock[t], clk) /\ \A u \in Threads : clock[u] \in Clock
  BY DEF EventStep, TypeOK
<1>5. ASSUME NEW u \in Threads
      PROVE  Leq(clock[u], clock'[u]) /\ clock'[u] \in Clock /\ (u = t => Leq(clk, clock'[u]))
  <2>1. /\ Leq(clk, clk) /\ Leq(clk, Increment(clk, t)) /\ Increment(clk, t) \in Clock
        /\ Leq(clock[u], clock[u])
        /\ Leq(clock[u], Merge(clock[u], clk)) /\ Merge(clock[u], clk) \in Clock
    BY <1>4, ClocksGrow, ClockTypes
  <2>2. \/ u = t /\ clock'[u] \in {clk, Increment(clk, t)}
        \/ u # t /\ clock'[u] \in {clock[u], Merge(clock[u], clk)}
    BY DEF EventStep
  <2>3. CASE u = t
    <3>1. Leq(clk, clock'[u]) /\ clock'[u] \in Clock
      BY <1>4, <2>1, <2>2, <2>3
    <3> QED
      BY <1>4, <2>3, <3>1, LeqTransitive
  <2>4. CASE u # t
    BY <1>4, <2>1, <2>2, <2>4
  <2> QED
    BY <2>3, <2>4
<1>6. pos \in Nat
  BY DEF TypeOK
<1>7. ASSUME NEW e \in Kept'
      PROVE  Leq(e.vc, clock'[log'[e.pos + 1].tid])
  <2>1. CASE e \in Kept
    <3>1. log[e.pos + 1].tid \in Threads
      <4>1. log \in Seq(LogEntry) /\ e.pos + 1 \in 1..Len(log)
        BY <1>3, <2>1 DEF LogInv, PositionsOf
      <4>2. log[e.pos + 1] \in LogEntry
        BY <4>1
      <4> QED
        BY <4>2 DEF LogEntry
    <3>2. Leq(e.vc, clock[log[e.pos + 1].tid])
      BY <2>1 DEF GoingUp
    <3> QED
      BY <1>3, <1>4, <1>5, <2>1, <3>1, <3>2, LeqTransitive
  <2>2. CASE e.vc = clk /\ e.pos = pos
    BY <1>1, <1>5, <2>2
  <2> QED
    BY <1>2, <2>1, <2>2
<1>8. ASSUME NEW d \in Kept', NEW e \in Kept', d.pos < e.pos,
             log'[d.pos + 1].tid = log'[e.pos + 1].tid
      PROVE  Leq(d.vc, e.vc)
  <2>1. CASE d \in Kept /\ e \in Kept
    BY <1>3, <1>8, <2>1 DEF GoingUp
  <2>2. CASE d \in Kept /\ e.vc = clk /\ e.pos = pos
    <3>1. log[d.pos + 1].tid = t
      BY <1>1, <1>3, <1>8, <2>2
    <3>2. Leq(d.vc, clock[t])
      BY <2>2, <3>1 DEF GoingUp
    <3> QED
      BY <1>3, <1>4, <2>2, <3>2, LeqTransitive
  <2>3. CASE d.pos = pos
    <3>1. e.pos \in Nat /\ e.pos <= pos
      BY <1>2, <1>3, <1>6
    <3> QED
      BY <1>6, <1>8, <2>3, <3>1
  <2> QED
    BY <1>2, <2>1, <2>2, <2>3
<1> QED
  BY <1>7, <1>8 DEF GoingUp

\* The events of a section are kept, and in the log.
LEMMA SectionEvents ==
    ASSUME TypeOK, LogInv, PastInv, SectionsInv, NEW l \in Locks, NEW t \in Threads,
           NEW s \in Elements(csHist[l][t])
    PROVE  /\ s.lock \in Kept /\ s.lock.pos \in PositionsOf(log)
           /\ s.unlock # NoEvent => s.unlock \in Kept /\ s.unlock.pos \in PositionsOf(log)
<1>1. PICK i \in DOMAIN csHist[l][t] : s = csHist[l][t][i]
  BY DEF Elements
<1>2. s.lock.pos \in 0..(pos - 1)
  BY <1>1 DEF SectionsInv, LockSections, ThreadSections
<1>3. s.lock.pos \in PositionsOf(log)
  BY <1>2 DEF LogInv, PositionsOf
<1>4. s.lock # NoEvent
  <2>1. s.lock.pos # -1
    BY <1>2
  <2> QED
    BY <2>1 DEF NoEvent
<1>5. s.lock \in KeptEvents /\ s.unlock \in KeptEvents
  BY KeptSections
<1> QED
  BY <1>3, <1>4, <1>5 DEF Kept, PastInv

\* An event that opens or closes no section leaves them to their threads.
LEMMA SectionThreadsOfOther ==
    ASSUME TypeOK, LogInv, LogInv', PastInv, SectionsInv, SectionThreads,
           NEW t \in Threads, NEW type, NEW target, NEW loc, Record(t, type, target, loc),
           NEW l \in Locks, NEW u \in Threads, NEW s \in Elements(csHist[l][u])
    PROVE  /\ log'[s.lock.pos + 1].tid = u
           /\ s.unlock # NoEvent => log'[s.unlock.pos + 1].tid = u
<1>1. \A p \in PositionsOf(log) : log'[p + 1] = log[p + 1]
  BY RecordedEntry
<1>2. /\ s.lock.pos \in PositionsOf(log)
      /\ s.unlock # NoEvent => s.unlock.pos \in PositionsOf(log)
  BY SectionEvents
<1> QED
  BY <1>1, <1>2 DEF SectionThreads

\* A thread that takes or gives back a lock records its own event.
LEMMA SectionThreadsOfLock ==
    ASSUME TypeOK, LogInv, LogInv', PastInv, SectionsInv, SectionThreads,
           NEW t \in Threads, NEW l \in Locks
    PROVE  /\ AcquireEvent(t, l) /\ Record(t, "LK", l, 0) => SectionThreads'
           /\ ReleaseEvent(t, l) /\ Record(t, "UK", l, 0) => SectionThreads'
<1>1. csHist \in [Locks -> [Threads -> Seq(CriticalSection)]]
  BY DEF TypeOK
<1> DEFINE cs == csHist[l][t]
<1>2. cs \in Seq(CriticalSection)
  BY <1>1
<1>3. ASSUME NEW type, Record(t, type, l, 0),
             \A m \in Locks, u \in Threads : \A s \in Elements(csHist'[m][u]) :
                \/ s \in Elements(csHist[m][u])
                \/ /\ u = t
                   /\ s.lock.pos = pos \/ \E r \in Elements(csHist[m][u]) : s.lock = r.lock
                   /\ s.unlock # NoEvent => s.unlock.pos = pos
      PROVE  SectionThreads'
  <2>1. log'[pos + 1].tid = t
    BY <1>3, RecordedEntry
  <2> SUFFICES ASSUME NEW m \in Locks, NEW u \in Threads, NEW s \in Elements(csHist'[m][u])
               PROVE  /\ log'[s.lock.pos + 1].tid = u
                      /\ s.unlock # NoEvent => log'[s.unlock.pos + 1].tid = u
    BY DEF SectionThreads
  <2>2. CASE s \in Elements(csHist[m][u])
    BY <1>3, <2>2, SectionThreadsOfOther
  <2>3. CASE /\ u = t
             /\ s.lock.pos = pos \/ \E r \in Elements(csHist[m][u]) : s.lock = r.lock
             /\ s.unlock # NoEvent => s.unlock.pos = pos
    <3>1. CASE s.lock.pos = pos
      BY <2>1, <2>3, <3>1
    <3>2. ASSUME NEW r \in Elements(csHist[m][u]), s.lock = r.lock
          PROVE  log'[s.lock.pos + 1].tid = u
      BY <1>3, <3>2, SectionThreadsOfOther
    <3> QED
      BY <2>1, <2>3, <3>1, <3>2
  <2> QED
    BY <1>3, <2>2, <2>3
<1>4. ASSUME AcquireEvent(t, l), Record(t, "LK", l, 0)
      PROVE  SectionThreads'
  <2> DEFINE s == [lock |-> [vc |-> clock[t], pos |-> pos], unlock |-> NoEvent]
  <2>1. csHist' = csHist \/ csHist' = [csHist EXCEPT ![l][t] = Append(cs, s)]
    BY <1>4 DEF AcquireEvent
  <2>2. \A m \in Locks, u \in Threads :
           csHist'[m][u] = csHist[m][u] \/ (u = t /\ m = l /\ csHist'[m][u] = Append(cs, s))
    BY <1>1, <2>1
  <2>3. \A r \in Elements(Append(cs, s)) : r \in Elements(cs) \/ r = s
    BY <1>2 DEF Elements
  <2>4. s.lock.pos = pos /\ s.unlock = NoEvent
    OBVIOUS
  <2> HIDE DEF s
  <2> QED
    BY <1>3, <1>4, <2>2, <2>3, <2>4
<1>5. ASSUME ReleaseEvent(t, l), Record(t, "UK", l, 0)
      PROVE  SectionThreads'
  <2> DEFINE e == [vc |-> clock[t], pos |-> pos]
             ds == CloseLast(cs, e)
  <2>1. csHist' = csHist \/ csHist' = [csHist EXCEPT ![l][t] = ds]
    BY <1>5 DEF ReleaseEvent
  <2>2. \A m \in Locks, u \in Threads :
           csHist'[m][u] = csHist[m][u] \/ (u = t /\ m = l /\ csHist'[m][u] = ds)
    <3> HIDE DEF ds
    <3> QED
      BY <1>1, <2>1
  <2>3. e \in Event /\ e.pos = pos
    BY DEF TypeOK, Event
  <2>4. /\ ds \in Seq(CriticalSection) /\ Len(ds) = Len(cs)
        /\ \A i \in 1..Len(cs) : /\ ds[i].lock = cs[i].lock
                                 /\ ds[i].unlock = IF i = Len(cs) THEN e ELSE cs[i].unlock
    BY <1>2, <2>3, CloseLastFacts
  <2> HIDE DEF e, ds
  <2>5. ASSUME NEW s \in Elements(ds)
        PROVE  \/ s \in Elements(cs)
               \/ (\E r \in Elements(cs) : s.lock = r.lock) /\ s.unlock.pos = pos
    <3>1. PICK i \in 1..Len(cs) : s = ds[i]
      BY <2>4 DEF Elements
    <3>2. cs[i] \in Elements(cs) /\ cs[i] \in CriticalSection /\ ds[i] \in CriticalSection
      BY <1>2, <2>4 DEF Elements
    <3>3. s.lock = cs[i].lock
      BY <2>4, <3>1
    <3>4. CASE i = Len(cs)
      BY <2>3, <2>4, <3>1, <3>2, <3>3, <3>4
    <3>5. CASE i # Len(cs)
      <4>1. s.unlock = cs[i].unlock
        BY <2>4, <3>1, <3>5
      <4>2. s = cs[i]
        BY <3>1, <3>2, <3>3, <4>1 DEF CriticalSection
      <4> QED
        BY <3>2, <4>2
    <3> QED
      BY <3>4, <3>5
  <2> QED
    BY <1>3, <1>5, <2>2, <2>5
<1> QED
  BY <1>4, <1>5

\* Every event leaves sections to their threads, one step per action.
LEMMA SectionThreadsOfStep ==
    TypeOK /\ LogInv /\ LogInv' /\ PastInv /\ SectionsInv /\ SectionThreads /\ [LogNext]_logVars
       => SectionThreads'
<1> SUFFICES ASSUME TypeOK, LogInv, LogInv', PastInv, SectionsInv, SectionThreads,
                    [LogNext]_logVars
             PROVE  SectionThreads'
  OBVIOUS
<1>1. CASE UNCHANGED logVars
  BY <1>1 DEF logVars, vars, SectionThreads
<1>2. ASSUME NEW t \in Threads, NEW type, NEW target, NEW loc, Record(t, type, target, loc),
             csHist' = csHist
      PROVE  SectionThreads'
  BY <1>2, SectionThreadsOfOther DEF SectionThreads
<1>3. ASSUME NEW t \in Threads, NEW x \in Vars
      PROVE  /\ ReadEvent(t, x) /\ Record(t, "RD", x, 0) => SectionThreads'
             /\ WriteEvent(t, x) /\ Record(t, "WR", x, 0) => SectionThreads'
  BY <1>2 DEF ReadEvent, WriteEvent
<1>4. ASSUME NEW t \in Threads, NEW c \in CondVars, NEW loc \in SrcLocs,
             WaitEvent(t, c, loc), Record(t, "WAIT", c, loc)
      PROVE  SectionThreads'
  BY <1>2, <1>4 DEF WaitEvent
<1>5. ASSUME NEW t \in Threads, NEW c \in CondVars, NEW all \in BOOLEAN,
             NotifyEvent(t, c, all), Record(t, "NOTIFY", c, 0)
      PROVE  SectionThreads'
  BY <1>2, <1>5 DEF NotifyEvent
<1>6. ASSUME NEW t \in Threads, NEW l \in Locks, NEW loc \in SrcLocs,
             RequestEvent(t, l, loc), Record(t, "REQ", l, loc)
      PROVE  SectionThreads'
  BY <1>2, <1>6 DEF RequestEvent
<1>7. ASSUME NEW t \in Threads, NEW l \in Locks
      PROVE  /\ AcquireEvent(t, l) /\ Record(t, "LK", l, 0) => SectionThreads'
             /\ ReleaseEvent(t, l) /\ Record(t, "UK", l, 0) => SectionThreads'
  BY SectionThreadsOfLock
<1>8. ASSUME NEW t \in Threads, NEW u \in Threads
      PROVE  /\ ForkEvent(t, u) /\ Record(t, "FORK", u, 0) => SectionThreads'
             /\ JoinEvent(t, u) /\ Record(t, "JOIN", u, 0) => SectionThreads'
  BY <1>2 DEF ForkEvent, JoinEvent
<1>9. ASSUME NEW t \in Threads, InvalidEvent(t), Record(t, "OTHER", 0, 0)
      PROVE  SectionThreads'
  BY <1>2, <1>9 DEF InvalidEvent
<1> QED
  BY <1>1, <1>3, <1>4, <1>5, <1>6, <1>7, <1>8, <1>9 DEF LogNext

\* While no wait ends without a notify, none has.
LEMMA NotifiedOfStep ==
    ASSUME ~SpuriousWakes, TypeOK, LogInv, LogInv', AllNotified, [LogNext]_logVars
    PROVE  AllNotified'
<1>1. CASE UNCHANGED logVars
  BY <1>1 DEF logVars, AllNotified, Positions, Entry
<1>2. ASSUME NEW t \in Threads, NEW type, NEW target, NEW loc, Record(t, type, target, loc),
             ~(type = "REQ" /\ status[t] = "sleeping" /\ wokenBy[t] = NotWoken)
      PROVE  AllNotified'
  <2>1. log' \in Seq(LogEntry)
    BY DEF LogInv
  <2>2. /\ Positions' = Positions \cup {pos}
        /\ \A p \in Positions : Entry(p)' = Entry(p)
        /\ log'[pos + 1] = NextEntry(t, type, target, loc)
    BY <1>2, <2>1, RecordFacts
  <2>3. log'[pos + 1].unnotified = FALSE
    <3>1. NextEntry(t, type, target, loc).unnotified =
             (type = "REQ" /\ status[t] = "sleeping" /\ wokenBy[t] = NotWoken)
      BY DEF NextEntry
    <3> QED
      BY <1>2, <2>2, <3>1
  <2> SUFFICES ASSUME NEW p \in Positions'
               PROVE  log'[p + 1].unnotified = FALSE
    BY DEF AllNotified, Entry
  <2>4. CASE p = pos
    BY <2>3, <2>4
  <2>5. CASE p \in Positions
    <3>1. log'[p + 1] = log[p + 1]
      BY <2>2, <2>5 DEF Entry
    <3>2. log[p + 1] \in LogEntry
      BY <2>5 DEF LogInv, Positions
    <3>3. log[p + 1].unnotified \in BOOLEAN
      BY <3>2 DEF LogEntry
    <3> QED
      BY <2>5, <3>1, <3>3 DEF AllNotified, Entry
  <2> QED
    BY <2>2, <2>4, <2>5
<1> QED
  BY <1>1, <1>2 DEF LogNext, RequestEvent, MayWake

-----------------------------------------------------------------------------
(* What holds of the handler's state beside the log.                       *)

HandlerInv ==
    /\ TypeOK /\ OwnTimeInv /\ SleepInv /\ LogInv /\ PastInv
    /\ IndexConsistent /\ SectionsInv /\ RequestsInv /\ ExactInv
    /\ Causal(log) /\ KeptTicked /\ GoingUp /\ SectionThreads

\* Every wait ended with a notify, and the clocks know what happened.
AllKnown == AllNotified /\ (\A c \in CondVars : Matched(c)) /\ KnowInv

\* Nothing has happened at first.
LEMMA HandlerOfInit == LogInit => HandlerInv /\ AllKnown
<1> SUFFICES ASSUME LogInit
             PROVE  HandlerInv /\ AllKnown
  OBVIOUS
<1>1. /\ TypeOK /\ OwnTimeInv /\ SleepInv /\ LogInv /\ PastInv
      /\ IndexConsistent /\ SectionsInv /\ RequestsInv /\ ExactInv /\ KnowInv
      /\ \A c \in CondVars : Matched(c)
  BY TypeOfInit, OwnTimeOfInit, SleepOfInit, LogOfInit, IndexOfInit, SectionsOfInit,
     RequestsOfInit, ExactOfInit, KnowOfInit, MatchedOfInit DEF LogInit
<1>2. PositionsOf(log) = {} /\ Positions = {}
  BY DEF LogInit, PositionsOf, Positions
<1>3. Kept = {}
  BY <1>1, <1>2 DEF PastInv
<1>4. Causal(log) /\ KeptTicked /\ GoingUp /\ AllNotified
  BY <1>2, <1>3 DEF Causal, KeptTicked, GoingUp, AllNotified
<1>5. SectionThreads
  <2>1. \A l \in Locks, t \in Threads : csHist[l][t] = <<>>
    BY DEF LogInit, Init
  <2>2. Elements(<<>>) = {}
    BY DEF Elements
  <2>3. \A l \in Locks, t \in Threads : Elements(csHist[l][t]) = {}
    BY <2>1, <2>2
  <2> QED
    BY <2>3 DEF SectionThreads
<1> QED
  BY <1>1, <1>4, <1>5 DEF HandlerInv, AllKnown

\* It is kept by every event.
LEMMA HandlerOfStep == HandlerInv /\ [LogNext]_logVars => HandlerInv'
<1> SUFFICES ASSUME HandlerInv, [LogNext]_logVars
             PROVE  HandlerInv'
  OBVIOUS
<1>1. /\ TypeOK /\ OwnTimeInv /\ SleepInv /\ LogInv /\ PastInv
      /\ IndexConsistent /\ SectionsInv /\ RequestsInv /\ ExactInv
      /\ Causal(log) /\ KeptTicked /\ GoingUp /\ SectionThreads
  BY DEF HandlerInv
<1>2. [Next]_vars
  BY LogStepIsStep
<1>3. TypeOK' /\ OwnTimeInv' /\ SleepInv' /\ IndexConsistent' /\ SectionsInv'
  BY <1>1, <1>2, TypeOfStep, OwnTimeOfStep, SleepOfStep, IndexOfStep, SectionsOfStep
<1>4. LogInv'
  BY <1>1, LogOfStep
<1>5. PastInv' /\ RequestsInv' /\ ExactInv' /\ SectionThreads'
  BY <1>1, <1>4, PastOfStep, RequestsOfStep, ExactOfStep, SectionThreadsOfStep
<1>6. Causal(log') /\ KeptTicked' /\ GoingUp'
  <2>1. CASE LogNext
    <3>1. PICK t \in Threads : \E type, target, loc, clk : EventStep(t, type, target, loc, clk)
      BY <1>1, <2>1, StepIsEvent
    <3>2. PICK type, target, loc, clk : EventStep(t, type, target, loc, clk)
      BY <3>1
    <3> QED
      BY <1>1, <1>4, <3>2, CausalOfEvent, TickedOfEvent, GoingUpOfEvent
  <2>2. CASE UNCHANGED logVars
    <3>1. log' = log /\ index' = index /\ csHist' = csHist /\ clock' = clock
      BY <2>2 DEF logVars, vars
    <3>2. Kept' = Kept
      BY <3>1 DEF Kept, KeptEvents, DepEvents, EventsIn, Sections
    <3> QED
      BY <1>1, <3>1, <3>2 DEF KeptTicked, GoingUp
  <2> QED
    BY <2>1, <2>2
<1> QED
  BY <1>3, <1>4, <1>5, <1>6 DEF HandlerInv

\* The clocks go on knowing what happened.
LEMMA KnownOfStep ==
    ASSUME FifoWake, ~SpuriousWakes
    PROVE  HandlerInv /\ AllKnown /\ [LogNext]_logVars => AllKnown'
<1> SUFFICES ASSUME HandlerInv, AllKnown, [LogNext]_logVars
             PROVE  AllKnown'
  OBVIOUS
<1>1. TypeOK /\ OwnTimeInv /\ SleepInv /\ LogInv /\ PastInv
  BY DEF HandlerInv
<1>2. LogInv'
  BY <1>1, LogOfStep
<1>3. AllNotified'
  BY <1>1, <1>2, NotifiedOfStep DEF AllKnown
<1>4. /\ AllNotified => \A c \in CondVars : Matched(c)
      /\ AllNotified => KnowInv
  BY DEF AllKnown
<1>5. (AllNotified => \A c \in CondVars : Matched(c))'
  BY <1>1, <1>2, <1>4, MatchedOfStep
<1>6. (AllNotified => KnowInv)'
  BY <1>1, <1>2, <1>4, KnowOfStep
<1> QED
  BY <1>3, <1>5, <1>6 DEF AllKnown

-----------------------------------------------------------------------------
(* What the clocks of kept events say of the trace.                        *)

\* S holds the past of each of its events.
PastClosed(S) == S \subseteq PositionsOf(log) /\ \A p \in S : log[p + 1].past \subseteq S

\* Pasts do.
LEMMA PastsClosed ==
    ASSUME HandlerInv, NEW q \in PositionsOf(log)
    PROVE  /\ PastClosed(log[q + 1].past) /\ PastClosed({q} \cup log[q + 1].past)
           /\ Upto(log, {q}) = {q} \cup log[q + 1].past
           /\ \A p \in log[q + 1].past : p < q
<1>1. LogInv /\ Causal(log)
  BY DEF HandlerInv
<1>2. log[q + 1].past \subseteq 0..(q - 1)
  BY <1>1 DEF LogInv, Positions, PositionsOf, Entry
<1>3. 0..(q - 1) \subseteq PositionsOf(log) /\ q \in Nat
  BY <1>1 DEF LogInv, PositionsOf
<1>4. \A p \in log[q + 1].past : log[p + 1].past \subseteq log[q + 1].past
  BY <1>1 DEF Causal
<1>5. \A p \in log[q + 1].past : p < q
  BY <1>2, <1>3
<1> QED
  BY <1>2, <1>3, <1>4, <1>5 DEF PastClosed, Upto

\* The clock of a kept event reflects the event and its past.
LEMMA ReflectsKept ==
    ASSUME HandlerInv, AllKnown, NEW e \in Kept
    PROVE  /\ e.vc \in Clock /\ e.pos \in PositionsOf(log) /\ log[e.pos + 1].tid \in Threads
           /\ Reflects(log, Kept, e.vc, {e.pos} \cup log[e.pos + 1].past)
<1>1. Kept \subseteq Event /\ e.pos \in PositionsOf(log)
  BY KeptType DEF HandlerInv, PastInv
<1>2. e.vc \in Clock
  BY <1>1 DEF Event
<1>3. log[e.pos + 1].tid \in Threads
  <2>1. e.pos + 1 \in 1..Len(log) /\ log \in Seq(LogEntry)
    BY <1>1 DEF PositionsOf, HandlerInv, LogInv
  <2>2. log[e.pos + 1] \in LogEntry
    BY <2>1
  <2> QED
    BY <2>2 DEF LogEntry
<1>4. Reflects(log, Kept, e.vc, Upto(log, {e.pos}))
  BY DEF AllKnown, KnowInv, ClockInv
<1> QED
  BY <1>1, <1>2, <1>3, <1>4, PastsClosed

\* Without its own last event, it reflects the past.
LEMMA ReflectsPredecessors ==
    ASSUME HandlerInv, AllKnown, NEW e \in Kept, NEW t, t = log[e.pos + 1].tid,
           NEW v, v = Decrement(e.vc, t)
    PROVE  v \in Clock /\ Reflects(log, Kept, v, log[e.pos + 1].past)
<1> DEFINE past == log[e.pos + 1].past
<1>1. /\ e.vc \in Clock /\ e.pos \in PositionsOf(log) /\ t \in Threads
      /\ Reflects(log, Kept, e.vc, {e.pos} \cup past)
  BY ReflectsKept
<1>2. \A p \in past : p < e.pos
  BY <1>1, PastsClosed
<1>3. e.vc[t] > 0 /\ e.vc[t] \in Nat
  BY <1>1 DEF HandlerInv, KeptTicked, Clock
<1>4. v = [e.vc EXCEPT ![t] = e.vc[t] - 1]
  BY <1>3 DEF Decrement
<1>5. /\ v \in Clock /\ v[t] = e.vc[t] - 1
      /\ \A u \in Threads : u # t => v[u] = e.vc[u]
  BY <1>1, <1>3, <1>4 DEF Clock
<1> HIDE DEF past
<1> SUFFICES ASSUME NEW f \in Kept, NEW o, o = log[f.pos + 1].tid
             PROVE  /\ f.pos \in past => Leq(f.vc, v)
                    /\ f.vc[o] <= v[o] => f.pos \in past
  BY <1>5 DEF Reflects, past
<1> DEFINE past2 == log[f.pos + 1].past
<1>6. /\ f.vc \in Clock /\ f.pos \in PositionsOf(log) /\ o \in Threads
      /\ Reflects(log, Kept, f.vc, {f.pos} \cup past2)
  BY ReflectsKept
<1>7. \A p \in past2 : p < f.pos
  BY <1>6, PastsClosed
<1>8. e.pos \in Nat /\ f.pos \in Nat
  BY <1>1, <1>6 DEF PositionsOf
<1>9. f.vc[t] \in Nat /\ \A u \in Threads : f.vc[u] \in Nat /\ e.vc[u] \in Nat /\ v[u] \in Nat
  BY <1>1, <1>5, <1>6 DEF Clock
<1> HIDE DEF past2
<1>10. ASSUME f.pos \in past
       PROVE  Leq(f.vc, v)
  <2>1. Leq(f.vc, e.vc)
    BY <1>1, <1>10 DEF Reflects
  <2>2. ~(e.vc[t] <= f.vc[t])
    <3> SUFFICES ASSUME e.vc[t] <= f.vc[t]
                 PROVE  FALSE
      OBVIOUS
    <3>1. e.pos \in {f.pos} \cup past2
      BY <1>6 DEF Reflects
    <3>2. f.pos < e.pos
      BY <1>2, <1>10
    <3>3. e.pos = f.pos \/ e.pos < f.pos
      BY <1>7, <3>1
    <3> QED
      BY <1>8, <3>2, <3>3
  <2> SUFFICES ASSUME NEW u \in Threads
               PROVE  f.vc[u] <= v[u]
    BY DEF Leq
  <2>3. f.vc[u] <= e.vc[u]
    BY <2>1 DEF Leq
  <2>4. CASE u = t
    BY <1>3, <1>5, <1>9, <2>2, <2>4
  <2>5. CASE u # t
    BY <1>5, <2>3, <2>5
  <2> QED
    BY <2>4, <2>5
<1>11. ASSUME f.vc[o] <= v[o]
       PROVE  f.pos \in past
  <2>1. f.vc[o] <= e.vc[o]
    <3>1. v[o] <= e.vc[o]
      BY <1>3, <1>5, <1>6, <1>9
    <3> QED
      BY <1>6, <1>9, <1>11, <3>1
  <2>2. f.pos \in {e.pos} \cup past
    BY <1>1, <2>1 DEF Reflects
  <2>3. f.pos # e.pos
    <3> SUFFICES ASSUME f.pos = e.pos
                 PROVE  FALSE
      OBVIOUS
    <3>1. Leq(e.vc, f.vc)
      BY <1>6 DEF Reflects
    <3>2. o = t /\ e.vc[t] <= f.vc[t]
      BY <1>1, <3>1 DEF Leq
    <3> QED
      BY <1>3, <1>5, <1>9, <1>11, <3>2
  <2> QED
    BY <2>2, <2>3
<1> QED
  BY <1>10, <1>11

\* The empty clock reflects nothing.
LEMMA ReflectsNothing ==
    ASSUME HandlerInv, AllKnown
    PROVE  EmptyClock \in Clock /\ Reflects(log, Kept, EmptyClock, {}) /\ PastClosed({})
<1>1. EmptyClock \in Clock
  BY InitialClocks
<1>2. ASSUME NEW e \in Kept, NEW o, o = log[e.pos + 1].tid, e.vc[o] <= EmptyClock[o]
      PROVE  FALSE
  <2>1. e.vc \in Clock /\ o \in Threads
    BY <1>2, ReflectsKept
  <2>2. EmptyClock[o] = 0 /\ e.vc[o] \in Nat
    BY <2>1 DEF EmptyClock, Clock
  <2>3. e.vc[o] > 0
    BY <1>2 DEF HandlerInv, KeptTicked
  <2> QED
    BY <1>2, <2>2, <2>3
<1>3. Reflects(log, Kept, EmptyClock, {})
  BY <1>2 DEF Reflects
<1> QED
  BY <1>1, <1>3 DEF PastClosed

-----------------------------------------------------------------------------
(* The critical sections, as the checker reads them.                       *)

\* How two sections of a lock relate: the earlier one has ended before the later begins.
EndsBefore(s, r) ==
    /\ s.unlock # NoEvent /\ s.unlock.pos \in PositionsOf(log)
    /\ s.lock.pos < s.unlock.pos /\ s.unlock.pos < r.lock.pos

\* The sections of one thread are in the order of the trace.
LEMMA SectionsInOrder ==
    ASSUME HandlerInv, NEW l \in Locks, NEW t \in Threads,
           NEW i \in 1..Len(csHist[l][t]), NEW j \in 1..Len(csHist[l][t]), i < j
    PROVE  EndsBefore(csHist[l][t][i], csHist[l][t][j])
<1> DEFINE cs == csHist[l][t]
<1>1. ThreadSections(cs, t \in Owners(l), pos) /\ cs \in Seq(CriticalSection)
  BY DEF HandlerInv, SectionsInv, LockSections, TypeOK
<1>2. DOMAIN cs = 1..Len(cs) /\ i # Len(cs)
  BY <1>1
<1>3. Before(cs[i], cs[j]) /\ cs[i].lock.pos < cs[i].unlock.pos
  BY <1>1, <1>2 DEF ThreadSections
<1>4. cs[i] \in Elements(cs)
  BY <1>2 DEF Elements
<1>5. cs[i].unlock # NoEvent => cs[i].unlock.pos \in PositionsOf(log)
  BY <1>4, SectionEvents DEF HandlerInv
<1> QED
  BY <1>3, <1>5 DEF EndsBefore, Before

\* Of two sections of different threads, one ends before the other begins.
LEMMA SectionsApart ==
    ASSUME HandlerInv, NEW l \in Locks, NEW t \in Threads, NEW u \in Threads, t # u,
           NEW s \in Elements(csHist[l][t]), NEW r \in Elements(csHist[l][u])
    PROVE  EndsBefore(s, r) \/ EndsBefore(r, s)
<1>1. /\ Apart(csHist[l][t], csHist[l][u])
      /\ ThreadSections(csHist[l][t], t \in Owners(l), pos)
      /\ ThreadSections(csHist[l][u], u \in Owners(l), pos)
  BY DEF HandlerInv, SectionsInv, LockSections
<1>2. PICK i \in DOMAIN csHist[l][t] : s = csHist[l][t][i]
  BY DEF Elements
<1>3. PICK j \in DOMAIN csHist[l][u] : r = csHist[l][u][j]
  BY DEF Elements
<1>4. Before(s, r) \/ Before(r, s)
  BY <1>1, <1>2, <1>3 DEF Apart
<1>5. /\ s.unlock # NoEvent => s.lock.pos < s.unlock.pos
      /\ r.unlock # NoEvent => r.lock.pos < r.unlock.pos
  BY <1>1, <1>2, <1>3 DEF ThreadSections
<1>6. /\ s.unlock # NoEvent => s.unlock.pos \in PositionsOf(log)
      /\ r.unlock # NoEvent => r.unlock.pos \in PositionsOf(log)
  BY SectionEvents DEF HandlerInv
<1> QED
  BY <1>4, <1>5, <1>6 DEF Before, EndsBefore

\* So the earlier of two sections of a lock has ended before the later begins.
LEMMA EarlierEnds ==
    ASSUME HandlerInv, NEW l \in Locks, NEW s \in CriticalSections(l),
           NEW r \in CriticalSections(l), s.lock.pos < r.lock.pos
    PROVE  EndsBefore(s, r)
<1>1. PICK t \in Threads : s \in Elements(csHist[l][t])
  BY DEF CriticalSections
<1>2. PICK u \in Threads : r \in Elements(csHist[l][u])
  BY DEF CriticalSections
<1>3. s.lock.pos \in Int /\ r.lock.pos \in Int
  BY <1>1, <1>2, SectionEvents DEF HandlerInv, PositionsOf
<1>4. ASSUME EndsBefore(r, s)
      PROVE  FALSE
  BY <1>3, <1>4 DEF EndsBefore, PositionsOf
<1>5. CASE t # u
  BY <1>1, <1>2, <1>4, <1>5, SectionsApart
<1>6. CASE t = u
  <2>1. PICK i \in DOMAIN csHist[l][t] : s = csHist[l][t][i]
    BY <1>1 DEF Elements
  <2>2. PICK j \in DOMAIN csHist[l][t] : r = csHist[l][t][j]
    BY <1>2, <1>6 DEF Elements
  <2>3. DOMAIN csHist[l][t] = 1..Len(csHist[l][t])
    BY DEF HandlerInv, TypeOK
  <2>4. i # j
    BY <1>3, <2>1, <2>2
  <2>5. ~(j < i)
    BY <1>4, <2>1, <2>2, <2>3, SectionsInOrder
  <2>6. i < j
    BY <2>3, <2>4, <2>5
  <2> QED
    BY <2>1, <2>2, <2>3, <2>6, SectionsInOrder
<1> QED
  BY <1>5, <1>6

\* The clocks of a thread's sections at a lock go up, and the later acquire has the
\* earlier section in its past.
LEMMA SectionsGoUp ==
    ASSUME HandlerInv, NEW l \in Locks, NEW t \in Threads,
           NEW i \in 1..Len(csHist[l][t]), NEW j \in 1..Len(csHist[l][t]), i < j
    PROVE  /\ Leq(csHist[l][t][i].lock.vc, csHist[l][t][j].lock.vc)
           /\ csHist[l][t][i].unlock.pos \in log[csHist[l][t][j].lock.pos + 1].past
<1> DEFINE s == csHist[l][t][i]
           r == csHist[l][t][j]
<1>1. EndsBefore(s, r)
  BY SectionsInOrder
<1>2. s \in Elements(csHist[l][t]) /\ r \in Elements(csHist[l][t])
  BY DEF HandlerInv, TypeOK, Elements
<1>3. /\ s.lock \in Kept /\ s.lock.pos \in PositionsOf(log)
      /\ r.lock \in Kept /\ r.lock.pos \in PositionsOf(log)
  BY <1>2, SectionEvents DEF HandlerInv
<1>4. log[s.lock.pos + 1].tid = t /\ log[r.lock.pos + 1].tid = t
  BY <1>2 DEF HandlerInv, SectionThreads
<1>5. log[s.unlock.pos + 1].tid = t
  BY <1>1, <1>2 DEF HandlerInv, SectionThreads, EndsBefore
<1> HIDE DEF s, r
<1>6. s.lock.pos < r.lock.pos
  BY <1>1, <1>3 DEF EndsBefore, PositionsOf
<1>7. Leq(s.lock.vc, r.lock.vc)
  BY <1>3, <1>4, <1>6 DEF HandlerInv, GoingUp
<1>8. s.unlock.pos \in log[r.lock.pos + 1].past
  BY <1>1, <1>3, <1>4, <1>5 DEF HandlerInv, Causal, EndsBefore
<1> QED
  BY <1>7, <1>8 DEF s, r

\* What comes below a clock that is below another is strictly below that too.
LEMMA LessBelow ==
    ASSUME NEW u \in Clock, NEW v \in Clock, NEW w \in Clock
    PROVE  /\ Leq(u, v) /\ Less(v, w) => Less(u, w)
           /\ Less(u, v) /\ Leq(v, w) => Less(u, w)
           /\ Leq(u, v) /\ u # v => Less(u, v)
<1>1. \A t \in Threads : u[t] \in Nat /\ v[t] \in Nat /\ w[t] \in Nat
  BY DEF Clock
<1>2. Leq(u, v) /\ Less(v, w) => Less(u, w)
  BY <1>1 DEF Leq, Less
<1>3. Less(u, v) /\ Leq(v, w) => Less(u, w)
  BY <1>1 DEF Leq, Less
<1>4. ASSUME Leq(u, v), u # v
      PROVE  Less(u, v)
  <2>1. \E t \in Threads : u[t] # v[t]
    BY <1>4 DEF Clock
  <2> QED
    BY <1>1, <1>4, <2>1 DEF Leq, Less
<1> QED
  BY <1>2, <1>3, <1>4

\* So the sections that start below a clock come first: the search by halving is right.
LEMMA SectionsPartitioned ==
    ASSUME HandlerInv, NEW l \in Locks, NEW t \in Threads, NEW v \in Clock,
           NEW first \in Nat \ {0}
    PROVE  Partitioned(first, StartsBelow(l, t, v))
<1> DEFINE cs == csHist[l][t]
<1>1. cs \in Seq(CriticalSection)
  BY DEF HandlerInv, TypeOK
<1>2. /\ DOMAIN cs = 1..Len(cs) /\ Len(cs) \in Nat
      /\ Len(StartsBelow(l, t, v)) = Len(cs)
      /\ \A k \in 1..Len(cs) : StartsBelow(l, t, v)[k] = Less(cs[k].lock.vc, v)
  BY <1>1 DEF StartsBelow
<1> SUFFICES ASSUME NEW i \in first..Len(cs), NEW j \in first..Len(cs), i < j,
                    StartsBelow(l, t, v)[j]
             PROVE  StartsBelow(l, t, v)[i]
  BY <1>2 DEF Partitioned
<1>3. i \in 1..Len(cs) /\ j \in 1..Len(cs)
  BY <1>2
<1>4. cs[i].lock.vc \in Clock /\ cs[j].lock.vc \in Clock
  <2>1. cs[i] \in CriticalSection /\ cs[j] \in CriticalSection
    BY <1>1, <1>3
  <2> QED
    BY <2>1 DEF CriticalSection, Event
<1>5. Leq(cs[i].lock.vc, cs[j].lock.vc)
  BY <1>3, SectionsGoUp
<1>6. Less(cs[j].lock.vc, v)
  BY <1>2, <1>3
<1>7. Less(cs[i].lock.vc, v)
  BY <1>4, <1>5, <1>6, LessBelow
<1> QED
  BY <1>2, <1>3, <1>7

-----------------------------------------------------------------------------
(* The patterns that the checker looks at.                                 *)

\* p is the pattern of the cycle c of n dependencies at the source locations locs.
PatternOf(p, n, c, locs) ==
    /\ n \in Nat /\ n >= 2
    /\ c \in [1..n -> index.absDeps] /\ locs \in [1..n -> SrcLocs]
    /\ IsCycle(index, c)
    /\ DOMAIN p.events = 1..n /\ Len(p.events) = n
    /\ \A i \in 1..n : /\ p.nodes[i].tid = c[i].tid
                       /\ p.events[i] = index.depEvents[c[i]][locs[i]]
                       /\ p.events[i] # <<>>

\* Each pattern is that of a cycle.
LEMMA PatternHasCycle ==
    ASSUME NEW p \in Patterns(index)
    PROVE  \E n, c, locs : PatternOf(p, n, c, locs)
<1>1. PICK c \in PatternCycles(index) : p \in PatternsOf(index, c)
  BY DEF Patterns
<1>2. PICK n \in 2..Cardinality(Threads) : c \in [1..n -> index.absDeps]
  BY <1>1 DEF PatternCycles
<1>3. n \in Nat /\ n >= 2
  BY GraphAssumption, FS_CardinalityType
<1>4. DOMAIN c = 1..n
  BY <1>2
<1>5. IsCycle(index, c)
  BY <1>1 DEF PatternCycles
<1> DEFINE nodesOf(locs) == [i \in DOMAIN c |-> [tid |-> c[i].tid, res |-> c[i].res, loc |-> locs[i]]]
           eventsOf(locs) == [i \in DOMAIN c |-> index.depEvents[c[i]][locs[i]]]
<1>6. PICK locs \in [DOMAIN c -> SrcLocs] :
         /\ p = [nodes |-> nodesOf(locs), events |-> eventsOf(locs)]
         /\ \A i \in DOMAIN c : index.depEvents[c[i]][locs[i]] # <<>>
  BY <1>1 DEF PatternsOf
<1>7. p.nodes = nodesOf(locs) /\ p.events = eventsOf(locs)
  BY <1>6
<1>8. DOMAIN p.events = 1..n
  BY <1>4, <1>7
<1>9. Len(p.events) = n
  <2>1. eventsOf(locs) = [i \in 1..n |-> index.depEvents[c[i]][locs[i]]]
    BY <1>4
  <2> QED
    BY <1>3, <1>7, <2>1
<1>10. \A i \in 1..n : /\ p.nodes[i].tid = c[i].tid
                       /\ p.events[i] = index.depEvents[c[i]][locs[i]]
                       /\ p.events[i] # <<>>
  BY <1>4, <1>6, <1>7
<1>11. PatternOf(p, n, c, locs)
  BY <1>2, <1>3, <1>4, <1>5, <1>6, <1>8, <1>9, <1>10 DEF PatternOf
<1> QED
  BY <1>11

\* The queues of a pattern hold kept events of the threads of its nodes.
LEMMA QueueFacts ==
    ASSUME HandlerInv, NEW p, NEW n, NEW c, NEW locs, PatternOf(p, n, c, locs), NEW i \in 1..n
    PROVE  /\ c[i] \in Dependency /\ locs[i] \in SrcLocs
           /\ p.events[i] \in Seq(Event) /\ Len(p.events[i]) \in Nat /\ Len(p.events[i]) >= 1
           /\ \A k \in 1..Len(p.events[i]) :
                 /\ p.events[i][k] \in Kept
                 /\ ListedAt(index, c[i], locs[i], k, p.events[i][k].pos)
                 /\ InstanceOf(log[p.events[i][k].pos + 1], Since(log)[p.events[i][k].pos], c[i], locs[i])
                 /\ p.nodes[i].tid = log[p.events[i][k].pos + 1].tid
<1> DEFINE q == p.events[i]
<1>1. IndexType(index) /\ DOMAIN index.depEvents = index.absDeps
  BY DEF HandlerInv, TypeOK, IndexConsistent, IndexLinked
<1>2. c[i] \in index.absDeps /\ locs[i] \in SrcLocs
  BY DEF PatternOf
<1>3. c[i] \in Dependency
  BY <1>1, <1>2 DEF IndexType
<1>4. q = index.depEvents[c[i]][locs[i]] /\ q # <<>>
  BY DEF PatternOf
<1>5. q \in Seq(Event)
  <2>1. index.depEvents[c[i]] \in [SrcLocs -> Seq(Event)]
    BY <1>1, <1>2 DEF IndexType
  <2> QED
    BY <1>2, <1>4, <2>1
<1>6. Len(q) \in Nat /\ Len(q) >= 1
  BY <1>4, <1>5
<1>7. EventsOf(index, c[i])[locs[i]] = q
  BY <1>1, <1>2, <1>4 DEF EventsOf
<1> HIDE DEF q
<1>8. ASSUME NEW k \in 1..Len(q)
      PROVE  /\ q[k] \in Kept
             /\ ListedAt(index, c[i], locs[i], k, q[k].pos)
             /\ InstanceOf(log[q[k].pos + 1], Since(log)[q[k].pos], c[i], locs[i])
             /\ p.nodes[i].tid = log[q[k].pos + 1].tid
  <2>1. ListedAt(index, c[i], locs[i], k, q[k].pos)
    BY <1>7 DEF ListedAt
  <2>2. /\ q[k].pos \in PositionsOf(log)
        /\ InstanceOf(log[q[k].pos + 1], Since(log)[q[k].pos], c[i], locs[i])
    BY <1>2, <1>3, <2>1 DEF HandlerInv, RequestsInv, Listed
  <2>3. q[k] # NoEvent
    BY <2>2 DEF PositionsOf, NoEvent
  <2>4. q[k] \in Elements(index.depEvents[c[i]][locs[i]])
    BY <1>4, <1>5 DEF Elements, q
  <2>5. q[k] \in KeptEvents
    BY <1>1, <1>2, <2>4 DEF KeptEvents, DepEvents, EventsIn
  <2>6. p.nodes[i].tid = log[q[k].pos + 1].tid
    BY <2>2 DEF PatternOf, InstanceOf
  <2> QED
    BY <2>1, <2>2, <2>3, <2>5, <2>6 DEF Kept
<1> QED
  BY <1>2, <1>3, <1>5, <1>6, <1>8 DEF q

\* While nothing is forgotten, the events of a queue are in the order of the trace.
LEMMA QueueInOrder ==
    ASSUME HandlerInv, NothingForgotten, NEW p, NEW n, NEW c, NEW locs,
           PatternOf(p, n, c, locs), NEW i \in 1..n,
           NEW j \in 1..Len(p.events[i]), NEW k \in 1..Len(p.events[i]), j < k
    PROVE  /\ p.events[i][j].pos \in log[p.events[i][k].pos + 1].past
           /\ log[p.events[i][j].pos + 1].past \subseteq log[p.events[i][k].pos + 1].past
           /\ Leq(p.events[i][j].vc, p.events[i][k].vc)
<1> DEFINE d == p.events[i][j]
           e == p.events[i][k]
<1>1. /\ d \in Kept /\ ListedAt(index, c[i], locs[i], j, d.pos)
      /\ log[d.pos + 1].tid = p.nodes[i].tid
      /\ e \in Kept /\ ListedAt(index, c[i], locs[i], k, e.pos)
      /\ log[e.pos + 1].tid = p.nodes[i].tid
  BY QueueFacts
<1>2. c[i] \in Dependency /\ locs[i] \in SrcLocs
  BY QueueFacts
<1>3. NoneFull(log)
  BY DEF NothingForgotten, NoneFull, Relevant, MustKeep, Entry, Positions, PositionsOf
<1>4. d.pos < e.pos
  <2>1. InOrder(index)
    BY <1>3 DEF HandlerInv, ExactInv
  <2> HIDE DEF d, e
  <2> QED
    BY <1>1, <1>2, <2>1 DEF InOrder
<1>5. d.pos \in PositionsOf(log) /\ e.pos \in PositionsOf(log)
  BY <1>1 DEF HandlerInv, PastInv
<1> HIDE DEF d, e
<1>6. d.pos \in log[e.pos + 1].past
  BY <1>1, <1>4, <1>5 DEF HandlerInv, Causal
<1>7. log[d.pos + 1].past \subseteq log[e.pos + 1].past
  BY <1>5, <1>6 DEF HandlerInv, Causal
<1>8. Leq(d.vc, e.vc)
  BY <1>1, <1>4 DEF HandlerInv, GoingUp
<1> QED
  BY <1>6, <1>7, <1>8 DEF d, e

-----------------------------------------------------------------------------
(* Where the checker is in what it searches.                               *)

Searching == {"merge", "close", "check", "advance"}

\* start is a place in each queue of a pattern.
AtPattern ==
    /\ pattern \in Patterns(index) /\ DOMAIN start = DOMAIN pattern.events
    /\ \A i \in DOMAIN start : start[i] \in 1..(Len(pattern.events[i]) + 1)

\* The checker's state has its types, and no search starts beyond what it searches.
CheckerShape ==
    /\ phase \in Phases /\ vc \in Clock /\ changed \in BOOLEAN
    /\ csStart \in [Locks -> [Threads -> Nat]]
    /\ \A l \in Locks, t \in Threads : csStart[l][t] <= Len(csHist[l][t])
    /\ todo \subseteq Patterns(index)
    /\ start = <<>> \/ AtPattern
    /\ phase = "recording" => todo = {} /\ start = <<>> /\ csStart = NothingPopped
    /\ phase \in Searching =>
          AtPattern /\ \A i \in DOMAIN start : start[i] <= Len(pattern.events[i])

\* What the search pops of the sections of a thread at a lock.
LEMMA PoppedFacts ==
    ASSUME HandlerInv, CheckerShape, NEW l \in Locks, NEW t \in Threads, NEW v,
           NEW k, k = PoppedBelow(l, t, v)
    PROVE  /\ k \in Nat /\ csStart[l][t] <= k /\ k <= Len(csHist[l][t])
           /\ k > csStart[l][t] => Less(csHist[l][t][k].lock.vc, v)
<1> DEFINE cs == csHist[l][t]
           first == csStart[l][t] + 1
           below == StartsBelow(l, t, v)
<1>1. cs \in Seq(CriticalSection)
  BY DEF HandlerInv, TypeOK
<1>2. /\ DOMAIN cs = 1..Len(cs) /\ Len(cs) \in Nat
      /\ below \in Seq(BOOLEAN) /\ Len(below) = Len(cs)
      /\ \A i \in 1..Len(cs) : below[i] = Less(cs[i].lock.vc, v)
  <2>1. DOMAIN cs = 1..Len(cs) /\ Len(cs) \in Nat
    BY <1>1
  <2>2. below = [i \in 1..Len(cs) |-> Less(cs[i].lock.vc, v)]
    BY <2>1 DEF StartsBelow
  <2>3. \A i \in 1..Len(cs) : Less(cs[i].lock.vc, v) \in BOOLEAN
    BY DEF Less
  <2> QED
    BY <2>1, <2>2, <2>3
<1>3. first \in Nat /\ first >= 1 /\ first <= Len(cs) + 1
  BY <1>2 DEF CheckerShape
<1> DEFINE p == PartitionPoint(first, below)
<1>4. k = p - 1
  BY DEF PoppedBelow
<1> HIDE DEF below, p
<1>5. first \in 1..(Len(below) + 1) /\ first \in Int
  BY <1>2, <1>3
<1>6. /\ p \in first..(Len(below) + 1)
      /\ p > first => below[p - 1]
  BY <1>2, <1>5, PointFacts DEF p
<1>7. k \in Nat /\ csStart[l][t] <= k /\ k <= Len(cs)
  <2>1. csStart[l][t] \in Nat
    BY DEF CheckerShape
  <2> QED
    BY <1>2, <1>3, <1>4, <1>6, <2>1
<1>8. ASSUME k > csStart[l][t]
      PROVE  Less(cs[k].lock.vc, v)
  <2>1. csStart[l][t] \in Nat
    BY DEF CheckerShape
  <2>2. below[k] /\ k \in 1..Len(cs)
    BY <1>2, <1>4, <1>6, <1>7, <1>8, <2>1
  <2> QED
    BY <1>2, <2>2
<1> QED
  BY <1>7, <1>8

\* In sections whose clocks go up it pops all that start below v.
LEMMA PoppedAll ==
    ASSUME HandlerInv, CheckerShape, NEW l \in Locks, NEW t \in Threads,
           NEW v \in Clock, NEW i \in 1..Len(csHist[l][t]), Less(csHist[l][t][i].lock.vc, v)
    PROVE  i <= PoppedBelow(l, t, v)
<1> DEFINE cs == csHist[l][t]
           first == csStart[l][t] + 1
           below == StartsBelow(l, t, v)
           k == PoppedBelow(l, t, v)
<1>1. cs \in Seq(CriticalSection)
  BY DEF HandlerInv, TypeOK
<1>2. /\ Len(cs) \in Nat
      /\ below \in Seq(BOOLEAN) /\ Len(below) = Len(cs)
      /\ \A j \in 1..Len(cs) : below[j] = Less(cs[j].lock.vc, v)
  <2>1. DOMAIN cs = 1..Len(cs) /\ Len(cs) \in Nat
    BY <1>1
  <2>2. below = [j \in 1..Len(cs) |-> Less(cs[j].lock.vc, v)]
    BY <2>1 DEF StartsBelow
  <2>3. \A j \in 1..Len(cs) : Less(cs[j].lock.vc, v) \in BOOLEAN
    BY DEF Less
  <2> QED
    BY <2>1, <2>2, <2>3
<1>3. csStart[l][t] \in Nat /\ csStart[l][t] <= Len(cs)
  BY DEF CheckerShape
<1>4. first \in 1..(Len(below) + 1) /\ first \in Int /\ first \in Nat \ {0}
  BY <1>2, <1>3
<1>5. Partitioned(first, below)
  BY <1>4, SectionsPartitioned
<1> DEFINE p == PartitionPoint(first, below)
<1>6. k = p - 1
  BY DEF PoppedBelow
<1>7. csStart[l][t] <= k /\ k \in Nat
  BY PoppedFacts
<1> HIDE DEF below, p, k
<1>8. \A j \in first..Len(below) : below[j] <=> j < p
  BY <1>2, <1>4, <1>5, PointOfPartition DEF p
<1>9. CASE i < first
  BY <1>2, <1>3, <1>7, <1>9 DEF k
<1>10. CASE i >= first
  <2>1. i \in first..Len(below) /\ below[i]
    BY <1>2, <1>3, <1>10
  <2>2. i < p
    BY <1>8, <2>1
  <2>3. p = k + 1 /\ i \in Nat /\ k \in Nat
    <3>1. p \in Int
      BY <1>2, <1>4, PointFacts DEF p
    <3> QED
      BY <1>6, <1>7, <3>1
  <2> QED
    BY <2>2, <2>3 DEF k
<1> QED
  BY <1>2, <1>3, <1>9, <1>10

\* One section of each thread that started one at l.
Popping(l, popped) ==
    /\ popped \in [Threads -> Nat]
    /\ \A t \in Threads : popped[t] <= Len(csHist[l][t])

SectionAt(l, popped, t) == csHist[l][t][popped[t]]

\* They are sections.
LEMMA SectionAtFacts ==
    ASSUME HandlerInv, NEW l \in Locks, NEW popped, Popping(l, popped),
           NEW t \in Threads, popped[t] > 0
    PROVE  /\ popped[t] \in 1..Len(csHist[l][t])
           /\ SectionAt(l, popped, t) \in Elements(csHist[l][t])
           /\ SectionAt(l, popped, t) \in CriticalSections(l)
           /\ SectionAt(l, popped, t) \in CriticalSection
<1>1. csHist[l][t] \in Seq(CriticalSection)
  BY DEF HandlerInv, TypeOK
<1>2. popped[t] \in 1..Len(csHist[l][t])
  BY <1>1 DEF Popping
<1>3. SectionAt(l, popped, t) \in Elements(csHist[l][t]) /\ SectionAt(l, popped, t) \in CriticalSection
  BY <1>1, <1>2 DEF SectionAt, Elements
<1> QED
  BY <1>2, <1>3 DEF CriticalSections

\* The sections that must end: those that end before that of some other thread begins.
LEMMA MustEndFacts ==
    ASSUME HandlerInv, NEW l \in Locks, NEW popped, Popping(l, popped)
    PROVE  /\ \A t \in MustEnd(l, popped) : t \in Threads /\ popped[t] > 0
           /\ \A t \in MustEnd(l, popped) : \E u \in Threads :
                 popped[u] > 0 /\ EndsBefore(SectionAt(l, popped, t), SectionAt(l, popped, u))
           /\ \A t, u \in Threads :
                 /\ popped[t] > 0 /\ popped[u] > 0
                 /\ SectionAt(l, popped, t).lock.pos < SectionAt(l, popped, u).lock.pos
                 => t \in MustEnd(l, popped)
<1> DEFINE started == {t \in Threads : popped[t] > 0}
           sections == [t \in started |-> SectionAt(l, popped, t)]
           last == LatestStarted(l, popped)
<1>1. \A t \in started : sections[t] = csHist[l][t][popped[t]] /\ sections[t] = SectionAt(l, popped, t)
  BY DEF SectionAt
<1>2. \A t \in started : /\ sections[t] \in Elements(csHist[l][t])
                         /\ sections[t] \in CriticalSections(l)
  BY <1>1, SectionAtFacts
<1>3. \A t \in started : sections[t].lock.pos \in Nat
  <2> SUFFICES ASSUME NEW t \in started
               PROVE  sections[t].lock.pos \in Nat
    OBVIOUS
  <2>1. t \in Threads /\ sections[t] \in Elements(csHist[l][t])
    BY <1>2
  <2>2. sections[t].lock.pos \in PositionsOf(log)
    BY <2>1, SectionEvents DEF HandlerInv
  <2> QED
    BY <2>2 DEF PositionsOf
<1> HIDE DEF sections
<1>4. Comparable(sections, started)
  <2> SUFFICES ASSUME NEW t \in started, NEW u \in started, t # u
               PROVE  /\ sections[t].lock.pos # sections[u].lock.pos
                      /\ LessThanTr(sections[t], sections[u]) <=>
                            sections[t].lock.pos < sections[u].lock.pos
    BY <1>3 DEF Comparable
  <2>1. sections[t].lock.pos \in Nat /\ sections[u].lock.pos \in Nat
    BY <1>3
  <2>2. EndsBefore(sections[t], sections[u]) \/ EndsBefore(sections[u], sections[t])
    BY <1>2, SectionsApart
  <2> QED
    BY <2>1, <2>2 DEF EndsBefore, LessThanTr, PositionsOf
<1>5. \A t \in started : /\ last \in started
                         /\ t # last => sections[t].lock.pos < sections[last].lock.pos
  BY <1>1, <1>4, LatestStartedFacts, ZenonT(40)
<1>6. MustEnd(l, popped) = started \ {last}
  BY DEF MustEnd
<1> HIDE DEF started, last
<1>7. ASSUME NEW t \in MustEnd(l, popped)
      PROVE  \E u \in Threads :
                popped[u] > 0 /\ EndsBefore(SectionAt(l, popped, t), SectionAt(l, popped, u))
  <2>1. t \in started /\ last \in started /\ sections[t].lock.pos < sections[last].lock.pos
    BY <1>5, <1>6, <1>7
  <2>2. EndsBefore(sections[t], sections[last])
    BY <1>2, <2>1, EarlierEnds
  <2>3. EndsBefore(SectionAt(l, popped, t), SectionAt(l, popped, last))
    BY <1>1, <2>1, <2>2
  <2> QED
    BY <2>1, <2>3 DEF started
<1>8. ASSUME NEW t \in Threads, NEW u \in Threads, popped[t] > 0, popped[u] > 0,
             SectionAt(l, popped, t).lock.pos < SectionAt(l, popped, u).lock.pos
      PROVE  t \in MustEnd(l, popped)
  <2>1. t \in started /\ u \in started
    BY <1>8 DEF started
  <2>2. sections[t].lock.pos < sections[u].lock.pos
    BY <1>1, <1>8, <2>1
  <2>3. t # last
    <3> SUFFICES ASSUME t = last
                 PROVE  FALSE
      OBVIOUS
    <3>1. u = t \/ sections[u].lock.pos < sections[t].lock.pos
      BY <1>5, <2>1
    <3>2. sections[u].lock.pos \in Nat /\ sections[t].lock.pos \in Nat
      BY <1>3, <2>1
    <3> QED
      BY <2>2, <3>1, <3>2
  <2> QED
    BY <1>6, <2>1, <2>3
<1>9. \A t \in MustEnd(l, popped) : t \in Threads /\ popped[t] > 0
  BY <1>6 DEF started
<1> QED
  BY <1>7, <1>8, <1>9

-----------------------------------------------------------------------------
(* What each step of the checker does to its state.                        *)

\* The clocks that the first steps of the closure merge.
PredecessorsOf(i) == Decrement(CurrentEvents[i].vc, pattern.nodes[i].tid)

\* The current events are in their queues.
LEMMA CurrentFacts ==
    ASSUME HandlerInv, CheckerShape, phase \in Searching,
           NEW n, NEW c, NEW locs, PatternOf(pattern, n, c, locs)
    PROVE  /\ DOMAIN start = 1..n /\ Len(CurrentEvents) = n
           /\ \A i \in 1..n : /\ start[i] \in 1..Len(pattern.events[i])
                              /\ CurrentEvents[i] = pattern.events[i][start[i]]
                              /\ CurrentEvents[i] \in Kept
                              /\ pattern.nodes[i].tid = log[CurrentEvents[i].pos + 1].tid
                              /\ pattern.nodes[i].tid \in Threads
           /\ CurrentSet = {CurrentEvents[i] : i \in 1..n}
<1>1. DOMAIN start = 1..n /\ n \in Nat
  BY DEF CheckerShape, AtPattern, PatternOf
<1>2. CurrentEvents = [i \in 1..n |-> pattern.events[i][start[i]]]
  BY <1>1 DEF CurrentEvents
<1>3. Len(CurrentEvents) = n
  BY <1>1, <1>2
<1>4. CurrentSet = {CurrentEvents[i] : i \in 1..n}
  BY <1>1 DEF CurrentSet
<1>5. ASSUME NEW i \in 1..n
      PROVE  /\ start[i] \in 1..Len(pattern.events[i])
             /\ CurrentEvents[i] = pattern.events[i][start[i]]
             /\ CurrentEvents[i] \in Kept
             /\ pattern.nodes[i].tid = log[CurrentEvents[i].pos + 1].tid
             /\ pattern.nodes[i].tid \in Threads
  <2>1. Len(pattern.events[i]) \in Nat
    BY QueueFacts
  <2>2. start[i] \in 1..Len(pattern.events[i])
    BY <1>1, <2>1 DEF CheckerShape, AtPattern
  <2>3. CurrentEvents[i] = pattern.events[i][start[i]]
    BY <1>2
  <2>4. /\ pattern.events[i][start[i]] \in Kept
        /\ pattern.nodes[i].tid = log[pattern.events[i][start[i]].pos + 1].tid
    BY <2>2, QueueFacts
  <2>5. pattern.nodes[i].tid \in Threads
    <3>1. c[i] \in Dependency
      BY QueueFacts
    <3> QED
      BY <3>1 DEF PatternOf, Dependency
  <2> QED
    BY <2>2, <2>3, <2>4, <2>5
<1> QED
  BY <1>1, <1>3, <1>4, <1>5

\* A clock without the last event of a thread is one.
LEMMA DecrementType ==
    ASSUME NEW v \in Clock, NEW t \in Threads
    PROVE  Decrement(v, t) \in Clock
  BY DEF Decrement, Clock

\* The merge of the predecessors yields a clock.
LEMMA MergedPredecessors ==
    ASSUME HandlerInv, CheckerShape, MergePredecessors
    PROVE  vc' \in Clock /\ Leq(vc, vc')
<1>1. phase \in Searching /\ pattern \in Patterns(index) /\ vc \in Clock
  BY DEF MergePredecessors, Searching, CheckerShape, AtPattern
<1>2. PICK n, c, locs : PatternOf(pattern, n, c, locs)
  BY <1>1, PatternHasCycle
<1>3. DOMAIN start = 1..n /\ n \in Nat
  BY <1>1, <1>2, CurrentFacts DEF PatternOf
<1> DEFINE w == [i \in 1..n |-> PredecessorsOf(i)]
<1>4. \A i \in 1..n : PredecessorsOf(i) \in Clock
  <2> SUFFICES ASSUME NEW i \in 1..n
               PROVE  PredecessorsOf(i) \in Clock
    OBVIOUS
  <2>1. CurrentEvents[i] \in Kept /\ pattern.nodes[i].tid \in Threads
    BY <1>1, <1>2, CurrentFacts
  <2>2. CurrentEvents[i].vc \in Clock
    BY <2>1, KeptType DEF HandlerInv, Event
  <2> QED
    BY <2>1, <2>2, DecrementType DEF PredecessorsOf
<1>5. w \in [1..n -> Clock]
  BY <1>4
<1>6. vc' = MergeAll(vc, Values(w, 1..n))
  <2>1. {Decrement(CurrentEvents[i].vc, pattern.nodes[i].tid) : i \in DOMAIN start} = Values(w, 1..n)
    BY <1>3 DEF PredecessorsOf, Values
  <2> QED
    BY <2>1 DEF MergePredecessors
<1>7. IsFiniteSet(1..n)
  BY <1>3, FS_Interval
<1> HIDE DEF w
<1>8. Joins(vc, 1..n, w, vc')
  BY <1>1, <1>5, <1>6, <1>7, MergeAllFacts
<1> QED
  BY <1>8 DEF Joins, Leq

-----------------------------------------------------------------------------

\* What a round pops at a lock.
Popped(l) == [t \in Threads |-> PoppedBelow(l, t, vc)]

\* The clocks of the releases of those sections.
ReleasesOf(l, popped, ends) == [t \in ends |-> SectionAt(l, popped, t).unlock.vc]

\* It is no more than there is.
LEMMA PoppedIsPopping ==
    ASSUME HandlerInv, CheckerShape, NEW l \in Locks
    PROVE  Popping(l, Popped(l))
<1>1. \A t \in Threads : /\ PoppedBelow(l, t, vc) \in Nat
                         /\ PoppedBelow(l, t, vc) <= Len(csHist[l][t])
  BY PoppedFacts
<1> QED
  BY <1>1 DEF Popping, Popped

\* A round pops sections and merges the releases of those that must end.
LEMMA RoundFacts ==
    ASSUME HandlerInv, CheckerShape, CloseOverLock, NEW l, l = lockAt,
           NEW popped, popped = Popped(l), NEW ends, ends = MustEnd(l, popped)
    PROVE  /\ l \in Locks /\ phase = "close" /\ phase' = "close" /\ IsFiniteSet(ends)
           /\ csStart' = [csStart EXCEPT ![l] = popped]
           /\ vc' = MergeAll(vc, Values(ReleasesOf(l, popped, ends), ends))
           /\ ReleasesOf(l, popped, ends) \in [ends -> Clock]
           /\ vc' \in Clock /\ Leq(vc, vc')
           /\ UNCHANGED <<todo, verified, pattern, start>>
           /\ changed' \in BOOLEAN
<1>1. /\ l \in Locks /\ phase = "close" /\ phase' = "close"
      /\ csStart' = [csStart EXCEPT ![l] = popped]
      /\ UNCHANGED <<todo, verified, pattern, start>>
  BY DEF CloseOverLock, Popped
<1>2. csStart'[lockAt] = popped
  BY <1>1 DEF CheckerShape
<1>3. Popping(l, popped)
  BY <1>1, PoppedIsPopping
<1>4. \A t \in ends : t \in Threads /\ popped[t] > 0
  BY <1>1, <1>3, MustEndFacts
<1> DEFINE w == ReleasesOf(l, popped, ends)
<1>5. w \in [ends -> Clock]
  <2>1. ASSUME NEW t \in ends
        PROVE  SectionAt(l, popped, t).unlock.vc \in Clock
    <3>1. SectionAt(l, popped, t) \in CriticalSection
      BY <1>1, <1>3, <1>4, SectionAtFacts
    <3> QED
      BY <3>1 DEF CriticalSection, Event
  <2> QED
    BY <2>1 DEF ReleasesOf
<1>6. IsFiniteSet(ends)
  BY <1>4, GraphAssumption, FS_Subset
<1> DEFINE releases == {csHist[lockAt][t][csStart'[lockAt][t]].unlock.vc : t \in MustEnd(lockAt, csStart'[lockAt])}
<1>7. vc' = MergeAll(vc, releases) /\ changed' \in BOOLEAN
  <2>1. vc' = MergeAll(vc, releases)
    BY DEF CloseOverLock
  <2>2. \A u, v : Leq(u, v) \in BOOLEAN
    BY DEF Leq
  <2>3. changed \in BOOLEAN
    BY DEF CheckerShape
  <2>4. \E u, v : changed' = changed \/ changed' = ~Leq(u, v)
    BY DEF CloseOverLock
  <2>5. changed' \in BOOLEAN
    BY <2>2, <2>3, <2>4
  <2> QED
    BY <2>1, <2>5
<1>8. releases = Values(w, ends)
  BY <1>2 DEF ReleasesOf, SectionAt, Values
<1> HIDE DEF releases, w
<1>9. vc' = MergeAll(vc, Values(w, ends))
  BY <1>7, <1>8
<1>10. vc \in Clock
  BY DEF CheckerShape
<1>11. vc' \in Clock /\ Leq(vc, vc')
  <2>1. Joins(vc, ends, w, vc')
    BY <1>5, <1>6, <1>9, <1>10, MergeAllFacts
  <2> QED
    BY <2>1 DEF Joins, Leq
<1> QED
  BY <1>1, <1>5, <1>6, <1>7, <1>9, <1>11 DEF w

-----------------------------------------------------------------------------

\* The events of a queue that the closure covers, as the search reads them.
LEMMA AdvancedFacts ==
    ASSUME HandlerInv, CheckerShape, phase \in Searching,
           NEW n, NEW c, NEW locs, PatternOf(pattern, n, c, locs), NEW i \in 1..n
    PROVE  /\ InClosureOf(i) \in Seq(BOOLEAN)
           /\ Len(InClosureOf(i)) = Len(pattern.events[i])
           /\ \A k \in 1..Len(pattern.events[i]) :
                 InClosureOf(i)[k] = Leq(pattern.events[i][k].vc, vc)
           /\ Advanced(i) \in start[i]..(Len(pattern.events[i]) + 1)
           /\ start[i] \in 1..Len(pattern.events[i]) /\ Len(pattern.events[i]) \in Nat
<1> DEFINE q == pattern.events[i]
           covered == InClosureOf(i)
<1>1. q \in Seq(Event) /\ Len(q) \in Nat /\ DOMAIN q = 1..Len(q)
  BY QueueFacts
<1>2. covered = [k \in 1..Len(q) |-> Leq(q[k].vc, vc)]
  BY <1>1 DEF InClosureOf
<1>3. \A k \in 1..Len(q) : Leq(q[k].vc, vc) \in BOOLEAN
  BY DEF Leq
<1>4. /\ covered \in Seq(BOOLEAN) /\ Len(covered) = Len(q)
      /\ \A k \in 1..Len(q) : covered[k] = Leq(q[k].vc, vc)
  BY <1>1, <1>2, <1>3
<1>5. start[i] \in 1..Len(q)
  BY CurrentFacts
<1>6. start[i] \in 1..(Len(covered) + 1) /\ start[i] \in Int
  BY <1>1, <1>4, <1>5
<1> HIDE DEF covered
<1>7. PartitionPoint(start[i], covered) \in start[i]..(Len(covered) + 1)
  BY <1>4, <1>6, PointFacts
<1> QED
  BY <1>1, <1>4, <1>5, <1>7 DEF Advanced, covered

-----------------------------------------------------------------------------
(* The checker's state keeps its shape.                                    *)

\* At first it has it.
LEMMA ShapeOfInit == PredictorInit => CheckerShape
<1> SUFFICES ASSUME PredictorInit
             PROVE  CheckerShape
  OBVIOUS
<1>1. /\ phase = "recording" /\ todo = {} /\ start = <<>> /\ vc = EmptyClock
      /\ csStart = NothingPopped /\ changed = FALSE
  BY DEF PredictorInit, CheckerInit
<1>2. EmptyClock \in Clock
  BY InitialClocks
<1>3. /\ NothingPopped \in [Locks -> [Threads -> Nat]]
      /\ \A l \in Locks, t \in Threads : NothingPopped[l][t] = 0
  BY DEF NothingPopped
<1>4. \A l \in Locks, t \in Threads : csHist[l][t] = <<>>
  BY DEF PredictorInit, LogInit, Init
<1>5. Len(<<>>) = 0
  OBVIOUS
<1>6. \A l \in Locks, t \in Threads : csStart[l][t] <= Len(csHist[l][t])
  BY <1>1, <1>3, <1>4, <1>5
<1>7. phase \in Phases /\ phase \notin Searching
  BY <1>1 DEF Phases, Searching
<1> QED
  BY <1>1, <1>2, <1>3, <1>6, <1>7 DEF CheckerShape

\* While the trace is handled the checker waits.
LEMMA ShapeOfTrace ==
    ASSUME HandlerInv', CheckerShape, HandleTrace
    PROVE  CheckerShape'
<1>1. /\ phase = "recording" /\ todo = {} /\ start = <<>> /\ csStart = NothingPopped
      /\ UNCHANGED <<phase, todo, start, csStart, vc, changed>>
  BY DEF HandleTrace, CheckerShape, checkerVars
<1>2. \A l \in Locks, t \in Threads : Len(csHist'[l][t]) \in Nat
  <2>1. csHist' \in [Locks -> [Threads -> Seq(CriticalSection)]]
    BY DEF HandlerInv, TypeOK
  <2> QED
    BY <2>1
<1>3. \A l \in Locks, t \in Threads : NothingPopped[l][t] = 0
  BY DEF NothingPopped
<1>4. \A l \in Locks, t \in Threads : csStart'[l][t] <= Len(csHist'[l][t])
  BY <1>1, <1>2, <1>3
<1>5. /\ phase \in Phases /\ vc \in Clock /\ changed \in BOOLEAN
      /\ csStart \in [Locks -> [Threads -> Nat]]
  BY DEF CheckerShape
<1>6. phase \notin Searching
  BY <1>1 DEF Searching
<1> QED
  BY <1>1, <1>4, <1>5, <1>6 DEF CheckerShape

\* A step of the checker leaves what it reads.
LEMMA CheckReads ==
    ASSUME Check
    PROVE  csHist' = csHist /\ index' = index /\ log' = log
  BY DEF Check, logVars, vars

\* It collects patterns, skips and begins them, in each of whose queues it starts at the
\* first event.
LEMMA ShapeOfPatterns ==
    ASSUME HandlerInv, CheckerShape, Check
    PROVE  /\ CollectPatterns \/ NoMorePatterns => CheckerShape'
           /\ \A p \in todo : SkipPattern(p) \/ BeginPattern(p) => CheckerShape'
<1>1. csHist' = csHist /\ index' = index
  BY CheckReads
<1>2. CASE CollectPatterns
  <2>1. /\ phase' = "patterns" /\ todo' = Patterns(index)
        /\ UNCHANGED <<start, pattern, vc, csStart, changed>>
    BY <1>2 DEF CollectPatterns
  <2> QED
    BY <1>1, <2>1 DEF CheckerShape, AtPattern, Phases, Searching
<1>3. CASE NoMorePatterns
  <2>1. phase' = "done" /\ UNCHANGED <<todo, start, pattern, vc, csStart, changed>>
    BY <1>3 DEF NoMorePatterns
  <2> QED
    BY <1>1, <2>1 DEF CheckerShape, AtPattern, Phases, Searching
<1>4. ASSUME NEW p \in todo, SkipPattern(p)
      PROVE  CheckerShape'
  <2>1. /\ phase = "patterns" /\ todo' = todo \ {p}
        /\ UNCHANGED <<phase, start, pattern, vc, csStart, changed>>
    BY <1>4 DEF SkipPattern
  <2> QED
    BY <1>1, <2>1 DEF CheckerShape, AtPattern, Phases, Searching
<1>5. ASSUME NEW p \in todo, BeginPattern(p)
      PROVE  CheckerShape'
  <2>1. /\ phase' = "merge" /\ todo' = todo \ {p} /\ pattern' = p
        /\ start' = [i \in DOMAIN p.events |-> 1]
        /\ vc' = EmptyClock /\ csStart' = NothingPopped /\ changed' = changed
    BY <1>5 DEF BeginPattern
  <2>2. p \in Patterns(index)
    BY DEF CheckerShape
  <2>3. PICK n, c, locs : PatternOf(p, n, c, locs)
    BY <2>2, PatternHasCycle
  <2>4. \A i \in 1..n : Len(p.events[i]) \in Nat /\ Len(p.events[i]) >= 1
    BY <2>3, QueueFacts
  <2>5. DOMAIN p.events = 1..n
    BY <2>3 DEF PatternOf
  <2>6. \A l \in Locks, t \in Threads : Len(csHist[l][t]) \in Nat
    <3>1. csHist \in [Locks -> [Threads -> Seq(CriticalSection)]]
      BY DEF HandlerInv, TypeOK
    <3> QED
      BY <3>1
  <2>7. /\ NothingPopped \in [Locks -> [Threads -> Nat]]
        /\ \A l \in Locks, t \in Threads : NothingPopped[l][t] = 0
    BY DEF NothingPopped
  <2>8. EmptyClock \in Clock
    BY InitialClocks
  <2>9. changed' \in BOOLEAN /\ todo' \subseteq Patterns(index')
    BY <1>1, <2>1 DEF CheckerShape
  <2>10. DOMAIN start' = 1..n /\ \A i \in 1..n : start'[i] = 1
    BY <2>1, <2>5
  <2>11. \A i \in 1..n : start'[i] \in 1..(Len(pattern'.events[i]) + 1)
                         /\ start'[i] <= Len(pattern'.events[i])
    BY <2>1, <2>4, <2>10
  <2>12. AtPattern'
    BY <1>1, <2>1, <2>2, <2>5, <2>10, <2>11 DEF AtPattern
  <2>13. phase' \in Phases /\ phase' # "recording"
    BY <2>1 DEF Phases
  <2>14. \A l \in Locks, t \in Threads : csStart'[l][t] <= Len(csHist'[l][t])
    BY <1>1, <2>1, <2>6, <2>7
  <2>15. \A i \in DOMAIN start' : start'[i] <= Len(pattern'.events[i])
    BY <2>10, <2>11
  <2> QED
    BY <2>1, <2>7, <2>8, <2>9, <2>12, <2>13, <2>14, <2>15 DEF CheckerShape
<1> QED
  BY <1>2, <1>3, <1>4, <1>5

\* It closes over the current events, and checks them.
LEMMA ShapeOfClosure ==
    ASSUME HandlerInv, CheckerShape, Check
    PROVE  MergePredecessors \/ CloseOverLock \/ EndOfRound \/ CheckClosure => CheckerShape'
<1>1. csHist' = csHist /\ index' = index
  BY CheckReads
<1>2. CASE MergePredecessors
  <2>1. /\ phase = "merge" /\ phase' = "close" /\ changed' = FALSE
        /\ UNCHANGED <<todo, start, pattern, csStart>>
    BY <1>2 DEF MergePredecessors
  <2>2. vc' \in Clock
    BY <1>2, MergedPredecessors
  <2> QED
    BY <1>1, <2>1, <2>2 DEF CheckerShape, AtPattern, Phases, Searching
<1>3. CASE CloseOverLock
  <2> DEFINE l == lockAt
             popped == Popped(l)
  <2>1. /\ l \in Locks /\ phase = "close" /\ phase' = "close"
        /\ csStart' = [csStart EXCEPT ![l] = popped]
        /\ UNCHANGED <<todo, verified, pattern, start>>
        /\ changed' \in BOOLEAN
    BY <1>3, RoundFacts
  <2>2. vc' \in Clock
    BY <1>3, RoundFacts
  <2>3. Popping(l, popped)
    BY <2>1, PoppedIsPopping
  <2>4. popped \in [Threads -> Nat] /\ \A t \in Threads : popped[t] <= Len(csHist[l][t])
    BY <2>3 DEF Popping
  <2> HIDE DEF popped, l
  <2>5. csStart' \in [Locks -> [Threads -> Nat]]
    BY <2>1, <2>4 DEF CheckerShape
  <2>6. \A m \in Locks, t \in Threads : csStart'[m][t] <= Len(csHist[m][t])
    <3> SUFFICES ASSUME NEW m \in Locks, NEW t \in Threads
                 PROVE  csStart'[m][t] <= Len(csHist[m][t])
      OBVIOUS
    <3>1. csStart \in [Locks -> [Threads -> Nat]] /\ csStart[m][t] <= Len(csHist[m][t])
      BY DEF CheckerShape
    <3>2. csStart'[m] = IF m = l THEN popped ELSE csStart[m]
      BY <2>1, <3>1
    <3> QED
      BY <2>4, <3>1, <3>2
  <2> QED
    BY <1>1, <2>1, <2>2, <2>5, <2>6 DEF CheckerShape, AtPattern, Phases, Searching
<1>4. CASE EndOfRound
  <2>1. /\ phase = "close" /\ phase' \in {"close", "check"}
        /\ UNCHANGED <<todo, start, pattern, vc, csStart, changed>>
    BY <1>4 DEF EndOfRound
  <2> QED
    BY <1>1, <2>1 DEF CheckerShape, AtPattern, Phases, Searching
<1>5. CASE CheckClosure
  <2>1. /\ phase = "check" /\ phase' \in {"advance", "patterns"}
        /\ UNCHANGED <<todo, start, pattern, vc, csStart, changed>>
    BY <1>5 DEF CheckClosure
  <2> QED
    BY <1>1, <2>1 DEF CheckerShape, AtPattern, Phases, Searching
<1> QED
  BY <1>2, <1>3, <1>4, <1>5

\* Queues that are over: their next event would be beyond the last.
Over == {i \in DOMAIN start : Advanced(i) > Len(pattern.events[i])}

\* An advance moves each queue on, or leaves it.
LEMMA AdvanceFacts ==
    ASSUME HandlerInv, CheckerShape, AdvanceStarts,
           NEW n, NEW c, NEW locs, PatternOf(pattern, n, c, locs)
    PROVE  /\ phase = "advance" /\ phase \in Searching
           /\ DOMAIN start' = 1..n
           /\ \A i \in 1..n : start'[i] \in start[i]..Advanced(i)
           /\ Over = {} => phase' = "merge" /\ \A i \in 1..n :
                 start'[i] = Advanced(i) /\ Advanced(i) <= Len(pattern.events[i])
           /\ Over # {} => phase' = "patterns"
           /\ UNCHANGED <<todo, verified, pattern, vc, csStart, lockAt, changed>>
<1>1. /\ phase = "advance" /\ phase \in Searching
      /\ start' = [i \in DOMAIN start |-> IF \E j \in Over : j < i THEN start[i] ELSE Advanced(i)]
      /\ phase' = IF Over = {} THEN "merge" ELSE "patterns"
      /\ UNCHANGED <<todo, verified, pattern, vc, csStart, lockAt, changed>>
  BY DEF AdvanceStarts, Over, Searching
<1>2. DOMAIN start = 1..n
  BY <1>1, CurrentFacts
<1>3. \A i \in 1..n : /\ Advanced(i) \in start[i]..(Len(pattern.events[i]) + 1)
                      /\ start[i] \in 1..Len(pattern.events[i]) /\ Len(pattern.events[i]) \in Nat
  BY <1>1, AdvancedFacts
<1>4. \A i \in 1..n : start'[i] = start[i] \/ start'[i] = Advanced(i)
  BY <1>1, <1>2
<1>5. \A i \in 1..n : start'[i] \in start[i]..Advanced(i)
  BY <1>3, <1>4
<1>6. Over = {} => \A i \in 1..n : start'[i] = Advanced(i)
  BY <1>1, <1>2
<1>7. Over = {} => \A i \in 1..n : Advanced(i) <= Len(pattern.events[i])
  <2> SUFFICES ASSUME Over = {}, NEW i \in 1..n
               PROVE  Advanced(i) <= Len(pattern.events[i])
    OBVIOUS
  <2>1. ~(Advanced(i) > Len(pattern.events[i]))
    BY <1>2 DEF Over
  <2> QED
    BY <1>3, <2>1
<1> QED
  BY <1>1, <1>2, <1>5, <1>6, <1>7

\* It goes on to later events.
LEMMA ShapeOfAdvance ==
    ASSUME HandlerInv, CheckerShape, Check, AdvanceStarts
    PROVE  CheckerShape'
<1>1. csHist' = csHist /\ index' = index
  BY CheckReads
<1>2. phase \in Searching /\ pattern \in Patterns(index) /\ DOMAIN start = DOMAIN pattern.events
  BY DEF AdvanceStarts, CheckerShape, Searching, AtPattern
<1>3. PICK n, c, locs : PatternOf(pattern, n, c, locs)
  BY <1>2, PatternHasCycle
<1>4. /\ DOMAIN start' = 1..n
      /\ \A i \in 1..n : start'[i] \in start[i]..Advanced(i)
      /\ Over = {} => phase' = "merge" /\ \A i \in 1..n :
            start'[i] = Advanced(i) /\ Advanced(i) <= Len(pattern.events[i])
      /\ Over # {} => phase' = "patterns"
      /\ UNCHANGED <<todo, pattern, vc, csStart, changed>>
  BY <1>3, AdvanceFacts
<1>5. \A i \in 1..n : /\ Advanced(i) \in start[i]..(Len(pattern.events[i]) + 1)
                      /\ start[i] \in 1..Len(pattern.events[i]) /\ Len(pattern.events[i]) \in Nat
  BY <1>2, <1>3, AdvancedFacts
<1>6. \A i \in 1..n : start'[i] \in 1..(Len(pattern.events[i]) + 1)
  BY <1>4, <1>5
<1>7. DOMAIN pattern.events = 1..n
  BY <1>3 DEF PatternOf
<1>8. AtPattern'
  BY <1>1, <1>2, <1>4, <1>6, <1>7 DEF AtPattern
<1>9. phase' \in Searching => \A i \in DOMAIN start' : start'[i] <= Len(pattern'.events[i])
  BY <1>4 DEF Searching
<1>10. phase' \in Phases /\ phase' # "recording"
  BY <1>4 DEF Phases
<1> QED
  BY <1>1, <1>4, <1>8, <1>9, <1>10 DEF CheckerShape

\* Every step keeps the shape.
LEMMA ShapeOfStep ==
    HandlerInv /\ HandlerInv' /\ CheckerShape /\ [PredictorNext]_predictorVars => CheckerShape'
<1> SUFFICES ASSUME HandlerInv, HandlerInv', CheckerShape, [PredictorNext]_predictorVars
             PROVE  CheckerShape'
  OBVIOUS
<1>1. CASE HandleTrace
  BY <1>1, ShapeOfTrace
<1>2. CASE Check
  BY <1>2, ShapeOfPatterns, ShapeOfClosure, ShapeOfAdvance DEF Check, CheckerNext
<1>3. CASE UNCHANGED predictorVars
  <2>1. UNCHANGED <<phase, todo, pattern, start, vc, csStart, changed, index, csHist>>
    BY <1>3 DEF predictorVars, checkerVars, logVars, vars
  <2> QED
    BY <2>1 DEF CheckerShape, AtPattern
<1> QED
  BY <1>1, <1>2, <1>3 DEF PredictorNext

-----------------------------------------------------------------------------
(* What the shape says of the searches.                                    *)

\* Only the last section of a lock can be open, and it need not end.
LEMMA OpenUntouched ==
    ASSUME HandlerInv, CheckerShape
    PROVE  OpenSectionsUntouched
<1> SUFFICES ASSUME lockAt \in Locks, NEW popped, popped = Popped(lockAt)
             PROVE  /\ \A t \in MustEnd(lockAt, popped) :
                          csHist[lockAt][t][popped[t]].unlock # NoEvent
                    /\ \A t, u \in {t \in Threads : popped[t] > 0} :
                          csHist[lockAt][t][popped[t]].lock.pos < csHist[lockAt][u][popped[u]].lock.pos
                             => csHist[lockAt][t][popped[t]].unlock # NoEvent
  BY DEF OpenSectionsUntouched, Popped
<1>1. Popping(lockAt, popped)
  BY PoppedIsPopping
<1>2. \A t \in MustEnd(lockAt, popped) : SectionAt(lockAt, popped, t).unlock # NoEvent
  BY <1>1, MustEndFacts DEF EndsBefore
<1>3. \A t, u \in Threads :
         /\ popped[t] > 0 /\ popped[u] > 0
         /\ SectionAt(lockAt, popped, t).lock.pos < SectionAt(lockAt, popped, u).lock.pos
         => t \in MustEnd(lockAt, popped)
  BY <1>1, MustEndFacts
<1> QED
  BY <1>2, <1>3 DEF SectionAt

\* The handler's invariants hold of the whole predictor.
LEMMA HandlerOfPredictor == PredictorSpec => [](HandlerInv /\ CheckerShape)
<1>1. PredictorInit => HandlerInv /\ CheckerShape
  BY HandlerOfInit, ShapeOfInit DEF PredictorInit
<1>2. HandlerInv /\ CheckerShape /\ [PredictorNext]_predictorVars => (HandlerInv /\ CheckerShape)'
  <2>1. [PredictorNext]_predictorVars => [LogNext]_logVars
    BY DEF PredictorNext, HandleTrace, Check, predictorVars
  <2> QED
    BY <2>1, HandlerOfStep, ShapeOfStep
<1> QED
  BY <1>1, <1>2, PTL DEF PredictorSpec

\* The checker's state has its types: no search goes beyond what it searches.
THEOREM CheckerStateIsTyped == PredictorSpec => []CheckerTypeOK
<1>1. HandlerInv /\ CheckerShape => CheckerTypeOK
  <2> SUFFICES ASSUME CheckerShape
               PROVE  CheckerTypeOK
    OBVIOUS
  <2>1. \A i \in DOMAIN start : start[i] \in 1..(Len(pattern.events[i]) + 1)
    <3>1. CASE start = <<>>
      BY <3>1
    <3>2. CASE AtPattern
      BY <3>2 DEF AtPattern
    <3> QED
      BY <3>1, <3>2 DEF CheckerShape
  <2> QED
    BY <2>1 DEF CheckerShape, CheckerTypeOK
<1> QED
  BY <1>1, HandlerOfPredictor, PTL

\* Whatever the trace, the closure compares no release of a section that was open when the
\* trace ended, and merges none.
THEOREM OpenSectionsStayUntouched == PredictorSpec => []OpenSectionsUntouched
<1>1. HandlerInv /\ CheckerShape => OpenSectionsUntouched
  BY OpenUntouched
<1> QED
  BY <1>1, HandlerOfPredictor, PTL

-----------------------------------------------------------------------------
(* The searches find their place.                                          *)

\* Events of a queue that come first are below those that come later.
LEMMA QueuePartitioned ==
    ASSUME HandlerInv, CheckerShape, phase \in Searching, NothingForgotten,
           NEW n, NEW c, NEW locs, PatternOf(pattern, n, c, locs), NEW i \in 1..n
    PROVE  Partitioned(start[i], InClosureOf(i))
<1> DEFINE q == pattern.events[i]
           covered == InClosureOf(i)
<1>1. /\ Len(covered) = Len(q) /\ Len(q) \in Nat
      /\ \A k \in 1..Len(q) : covered[k] = Leq(q[k].vc, vc)
      /\ start[i] \in 1..Len(q)
  BY AdvancedFacts
<1> HIDE DEF covered
<1> SUFFICES ASSUME NEW j \in start[i]..Len(q), NEW k \in start[i]..Len(q), j < k, covered[k]
             PROVE  covered[j]
  BY <1>1 DEF Partitioned, covered
<1>2. j \in 1..Len(q) /\ k \in 1..Len(q)
  BY <1>1
<1>3. Leq(q[j].vc, q[k].vc)
  BY <1>2, QueueInOrder
<1>4. Leq(q[k].vc, vc)
  BY <1>1, <1>2
<1>5. q[j].vc \in Clock /\ q[k].vc \in Clock /\ vc \in Clock
  <2>1. q[j] \in Kept /\ q[k] \in Kept
    BY <1>2, QueueFacts
  <2> QED
    BY <2>1, KeptType DEF HandlerInv, Event, CheckerShape
<1>6. Leq(q[j].vc, vc)
  <2> SUFFICES ASSUME NEW t \in Threads
               PROVE  q[j].vc[t] <= vc[t]
    BY DEF Leq
  <2>1. q[j].vc[t] \in Nat /\ q[k].vc[t] \in Nat /\ vc[t] \in Nat
    BY <1>5 DEF Clock
  <2>2. q[j].vc[t] <= q[k].vc[t] /\ q[k].vc[t] <= vc[t]
    BY <1>3, <1>4 DEF Leq
  <2> QED
    BY <2>1, <2>2
<1> QED
  BY <1>1, <1>2, <1>6

\* So both searches of the checker are right.
LEMMA SearchesPartitioned ==
    ASSUME HandlerInv, CheckerShape
    PROVE  QueuesPartitioned
<1>1. ASSUME NEW l \in Locks, NEW t \in Threads
      PROVE  Partitioned(csStart[l][t] + 1, StartsBelow(l, t, vc))
  <2>1. csStart[l][t] + 1 \in Nat \ {0} /\ vc \in Clock
    BY DEF CheckerShape
  <2> QED
    BY <2>1, SectionsPartitioned
<1>2. ASSUME phase = "advance", NothingForgotten, NEW i \in DOMAIN start
      PROVE  Partitioned(start[i], InClosureOf(i))
  <2>1. phase \in Searching /\ pattern \in Patterns(index)
    BY <1>2 DEF Searching, CheckerShape, AtPattern
  <2>2. PICK n, c, locs : PatternOf(pattern, n, c, locs)
    BY <2>1, PatternHasCycle
  <2>3. DOMAIN start = 1..n
    BY <2>1, <2>2, CurrentFacts
  <2> QED
    BY <1>2, <2>1, <2>2, <2>3, QueuePartitioned
<1> QED
  BY <1>1, <1>2 DEF QueuesPartitioned

\* The checker searches by halving only what is partitioned, whatever the trace: the critical
\* sections of a thread at a lock and, while no dependency is forgotten, the events of a node.
THEOREM QueuesStayPartitioned == PredictorSpec => []QueuesPartitioned
<1>1. HandlerInv /\ CheckerShape => QueuesPartitioned
  BY SearchesPartitioned
<1> QED
  BY <1>1, HandlerOfPredictor, PTL

\* The clocks know what happened, in the whole predictor.
LEMMA KnownOfPredictor ==
    ASSUME FifoWake, ~SpuriousWakes
    PROVE  PredictorSpec => [](HandlerInv /\ AllKnown /\ CheckerShape)
<1>1. PredictorInit => AllKnown
  BY HandlerOfInit DEF PredictorInit
<1>2. HandlerInv /\ AllKnown /\ [PredictorNext]_predictorVars => AllKnown'
  <2>1. [PredictorNext]_predictorVars => [LogNext]_logVars
    BY DEF PredictorNext, HandleTrace, Check, predictorVars
  <2> QED
    BY <2>1, KnownOfStep
<1> QED
  BY <1>1, <1>2, HandlerOfPredictor, PTL DEF PredictorSpec

-----------------------------------------------------------------------------
(* The least prefix that reaches the current events.                       *)

\* What is forced is in the trace.
LEMMA ForcedInTrace ==
    ASSUME HandlerInv
    PROVE  /\ Len(log) \in Nat /\ Positions = PositionsOf(log)
           /\ \A T \in SUBSET Positions : Forced(T) \in SUBSET Positions
<1>1. Len(log) \in Nat /\ Positions = PositionsOf(log)
  BY DEF HandlerInv, LogInv, TypeOK, Positions, PositionsOf
<1>2. ASSUME NEW T \in SUBSET Positions, NEW q \in Forced(T)
      PROVE  q \in Positions
  <2>1. \/ \E p \in T : q \in Entry(p).past
        \/ \E l \in Locks : \E s, r \in CriticalSections(l) :
              s.lock.pos < r.lock.pos /\ q = s.unlock.pos
    BY <1>2 DEF Forced
  <2>2. ASSUME NEW p \in T, q \in Entry(p).past
        PROVE  q \in Positions
    <3>1. PastClosed(log[p + 1].past)
      BY <1>1, PastsClosed
    <3> QED
      BY <1>1, <2>2, <3>1 DEF PastClosed, Entry
  <2>3. ASSUME NEW l \in Locks, NEW s \in CriticalSections(l), NEW r \in CriticalSections(l),
               s.lock.pos < r.lock.pos, q = s.unlock.pos
        PROVE  q \in Positions
    BY <1>1, <2>3, EarlierEnds DEF EndsBefore
  <2> QED
    BY <2>1, <2>2, <2>3
<1> QED
  BY <1>1, <1>2

\* The least prefix that contains a set of events of the trace.
LEMMA PrefixFacts ==
    ASSUME HandlerInv, NEW S, S \subseteq Positions
    PROVE  /\ S \subseteq Ideal(S) /\ Ideal(S) \subseteq Positions
           /\ Forced(Ideal(S)) \subseteq Ideal(S)
           /\ \A T : S \subseteq T /\ Forced(T) \subseteq T => Ideal(S) \subseteq T
  BY ForcedInTrace, IdealFacts

\* More events need no smaller one.
LEMMA IdealMonotone ==
    ASSUME HandlerInv, NEW S, NEW T, S \subseteq T, T \subseteq Positions
    PROVE  Ideal(S) \subseteq Ideal(T)
<1>1. T \subseteq Ideal(T) /\ Forced(Ideal(T)) \subseteq Ideal(T)
  BY PrefixFacts
<1>2. \A R : S \subseteq R /\ Forced(R) \subseteq R => Ideal(S) \subseteq R
  BY PrefixFacts
<1> QED
  BY <1>1, <1>2

\* A prefix has the past of its events, and the end of a section if it has begun a later
\* one of the lock.
LEMMA ForcedMeans ==
    ASSUME NEW S
    PROVE  /\ Forced(S) \subseteq S => \A p \in S : log[p + 1].past \subseteq S
           /\ Forced(S) \subseteq S => \A l \in Locks : \A s, r \in CriticalSections(l) :
                 s.lock.pos \in S /\ r.lock.pos \in S /\ s.lock.pos < r.lock.pos => s.unlock.pos \in S
           /\ (/\ \A p \in S : log[p + 1].past \subseteq S
               /\ \A l \in Locks : \A s, r \in CriticalSections(l) :
                     s.lock.pos \in S /\ r.lock.pos \in S /\ s.lock.pos < r.lock.pos => s.unlock.pos \in S)
              => Forced(S) \subseteq S
<1>1. \A p \in S : log[p + 1].past \subseteq Forced(S)
  BY DEF Forced, Entry
<1>2. \A l \in Locks : \A s, r \in CriticalSections(l) :
         s.lock.pos \in S /\ r.lock.pos \in S /\ s.lock.pos < r.lock.pos => s.unlock.pos \in Forced(S)
  BY DEF Forced
<1>3. \A q \in Forced(S) :
         \/ \E p \in S : q \in log[p + 1].past
         \/ \E l \in Locks : \E s, r \in CriticalSections(l) :
               /\ s.lock.pos \in S /\ r.lock.pos \in S /\ s.lock.pos < r.lock.pos
               /\ q = s.unlock.pos
  BY DEF Forced, Entry
<1> QED
  BY <1>1, <1>2, <1>3

-----------------------------------------------------------------------------
(* What the closure covers.                                                *)

EventsAt(p, st) == {p.events[i][st[i]] : i \in DOMAIN st}

\* S are the events that the clock v has reached.  While nothing is forgotten, all of them
\* are in every prefix that reaches the events.
Covers(S, v, events) ==
    /\ PastClosed(S) /\ Reflects(log, Kept, v, S)
    /\ NothingForgotten => S \subseteq Ideal(JointPast(events))

\* No reordering reaches events of the queues of p of which one is before st.
NoneSkipped(p, st) ==
    NothingForgotten => \A f \in ChoicesOf(p) :
        SyncPreserving({p.events[i][f[i]] : i \in DOMAIN f}) => \A i \in DOMAIN st : st[i] <= f[i]

\* The search for a reordering that reaches the current events: the sections that it has
\* popped start below its clock.
PoppedInv ==
    \A l \in Locks, t \in Threads : csStart[l][t] > 0 =>
        Less(csHist[l][t][csStart[l][t]].lock.vc, vc)

ClosureInv ==
    phase \in Searching =>
        /\ \E S : /\ Covers(S, vc, CurrentSet)
                  /\ phase # "merge" => JointPast(CurrentSet) \subseteq S
        /\ NoneSkipped(pattern, start)

\* None of it changes but with what the handler has kept and the trace.
LEMMA SameLog ==
    ASSUME csHist' = csHist, index' = index, log' = log
    PROVE  /\ Kept' = Kept /\ (NothingForgotten' <=> NothingForgotten)
           /\ \A S : Ideal(S)' = Ideal(S)
           /\ \A S, v, events : Covers(S, v, events)' <=> Covers(S, v, events)
           /\ \A events : JointPast(events)' = JointPast(events)
           /\ \A p, st : NoneSkipped(p, st)' <=> NoneSkipped(p, st)
<1>1. csHist' = csHist /\ index' = index /\ log' = log
  OBVIOUS
<1>2. Kept' = Kept
  BY <1>1 DEF Kept, KeptEvents, DepEvents, Sections
<1>3. NothingForgotten' <=> NothingForgotten
  BY <1>1 DEF NothingForgotten, Positions, Relevant, Entry
<1>4. \A S : Ideal(S)' = Ideal(S)
  BY <1>1 DEF Ideal, Forced, CriticalSections, Entry
<1>5. \A events : JointPast(events)' = JointPast(events)
  BY <1>1 DEF JointPast, Entry
<1>6. \A S : PastClosed(S)' <=> PastClosed(S)
  BY <1>1 DEF PastClosed
<1>7. \A S, v, events : Covers(S, v, events)' <=> Covers(S, v, events)
  BY <1>1, <1>2, <1>3, <1>4, <1>5, <1>6 DEF Covers
<1>8. \A events : SyncPreserving(events)' <=> SyncPreserving(events)
  BY <1>4, <1>5 DEF SyncPreserving
<1>9. \A p, st : NoneSkipped(p, st)' <=> NoneSkipped(p, st)
  BY <1>3, <1>8 DEF NoneSkipped
<1> QED
  BY <1>2, <1>3, <1>4, <1>5, <1>7, <1>9

\* A step of the checker does not.
LEMMA SameTrace ==
    ASSUME Check
    PROVE  /\ Kept' = Kept /\ (NothingForgotten' <=> NothingForgotten)
           /\ \A S : Ideal(S)' = Ideal(S)
           /\ \A S, v, events : Covers(S, v, events)' <=> Covers(S, v, events)
           /\ \A events : JointPast(events)' = JointPast(events)
           /\ \A p, st : NoneSkipped(p, st)' <=> NoneSkipped(p, st)
BY CheckReads, SameLog

\* An event that the clock has reached is one of those it covers.
LEMMA CoversOrder ==
    ASSUME HandlerInv, AllKnown, NEW S, NEW v, Reflects(log, Kept, v, S), NEW e \in Kept
    PROVE  Leq(e.vc, v) <=> e.pos \in S
<1>1. log[e.pos + 1].tid \in Threads
  BY ReflectsKept
<1> QED
  BY <1>1, ReflectsOrder

\* The past of events of the trace is in it.
LEMMA JointPastInTrace ==
    ASSUME HandlerInv, NEW events, \A e \in events : e.pos \in PositionsOf(log)
    PROVE  JointPast(events) \subseteq Positions
<1>1. \A e \in events : log[e.pos + 1].past \subseteq Positions
  <2> SUFFICES ASSUME NEW e \in events
               PROVE  log[e.pos + 1].past \subseteq Positions
    OBVIOUS
  <2>1. PastClosed(log[e.pos + 1].past)
    BY PastsClosed
  <2> QED
    BY <2>1, ForcedInTrace DEF PastClosed
<1> QED
  BY <1>1 DEF JointPast, Entry

-----------------------------------------------------------------------------
(* The closure grows only by what must have happened.                      *)

\* Sets that hold the past of their events, together.
LEMMA PastClosedTogether ==
    ASSUME NEW S, PastClosed(S), NEW I, NEW R, \A i \in I : PastClosed(R[i])
    PROVE  PastClosed(Together(S, I, R))
  BY DEF PastClosed, Together

\* A merge of clocks covers what each of them does.
LEMMA CoversTogether ==
    ASSUME HandlerInv, AllKnown, NEW v \in Clock, NEW S, NEW events, Covers(S, v, events),
           NEW I, IsFiniteSet(I), NEW w \in [I -> Clock], NEW R,
           \A i \in I : Reflects(log, Kept, w[i], R[i]),
           \A i \in I : PastClosed(R[i]),
           NothingForgotten => \A i \in I : R[i] \subseteq Ideal(JointPast(events)),
           NEW m, m = MergeAll(v, Values(w, I))
    PROVE  Covers(Together(S, I, R), m, events)
<1>1. log \in Seq(LogEntry) /\ Kept \subseteq Event /\ \A e \in Kept : e.pos \in PositionsOf(log)
  BY KeptType DEF HandlerInv, LogInv, PastInv
<1>2. Reflects(log, Kept, v, S) /\ PastClosed(S)
  BY DEF Covers
<1>3. Reflects(log, Kept, m, Together(S, I, R))
  BY <1>1, <1>2, ReflectsMergeAll
<1>4. PastClosed(Together(S, I, R))
  BY <1>2, PastClosedTogether
<1>5. NothingForgotten => Together(S, I, R) \subseteq Ideal(JointPast(events))
  BY DEF Covers, Together
<1> QED
  BY <1>3, <1>4, <1>5 DEF Covers

\* The current events are in the trace.
LEMMA CurrentInTrace ==
    ASSUME HandlerInv, CheckerShape, phase \in Searching
    PROVE  /\ \A e \in CurrentSet : e \in Kept /\ e.pos \in PositionsOf(log)
           /\ JointPast(CurrentSet) \subseteq Positions
<1>1. pattern \in Patterns(index)
  BY DEF CheckerShape, AtPattern
<1>2. PICK n, c, locs : PatternOf(pattern, n, c, locs)
  BY <1>1, PatternHasCycle
<1>3. \A e \in CurrentSet : e \in Kept
  BY <1>2, CurrentFacts
<1>4. \A e \in CurrentSet : e.pos \in PositionsOf(log)
  BY <1>3 DEF HandlerInv, PastInv
<1> QED
  BY <1>3, <1>4, JointPastInTrace

\* What the first step merges: the past of the current events.
LEMMA CoversPredecessors ==
    ASSUME HandlerInv, AllKnown, CheckerShape, MergePredecessors,
           NEW S, Covers(S, vc, CurrentSet)
    PROVE  \E R : Covers(R, vc', CurrentSet) /\ JointPast(CurrentSet) \subseteq R
<1>1. phase \in Searching /\ pattern \in Patterns(index) /\ vc \in Clock
  BY DEF MergePredecessors, Searching, CheckerShape, AtPattern
<1>2. PICK n, c, locs : PatternOf(pattern, n, c, locs)
  BY <1>1, PatternHasCycle
<1>3. DOMAIN start = 1..n /\ n \in Nat
  BY <1>1, <1>2, CurrentFacts DEF PatternOf
<1> DEFINE w == [i \in 1..n |-> PredecessorsOf(i)]
           past == [i \in 1..n |-> log[CurrentEvents[i].pos + 1].past]
           I == 1..n
           R == Together(S, I, past)
<1>4. ASSUME NEW i \in I
      PROVE  /\ w[i] \in Clock /\ Reflects(log, Kept, w[i], past[i])
             /\ PastClosed(past[i])
  <2>1. CurrentEvents[i] \in Kept /\ pattern.nodes[i].tid = log[CurrentEvents[i].pos + 1].tid
    BY <1>1, <1>2, CurrentFacts
  <2>2. w[i] = Decrement(CurrentEvents[i].vc, log[CurrentEvents[i].pos + 1].tid)
    BY <2>1 DEF PredecessorsOf
  <2>3. past[i] = log[CurrentEvents[i].pos + 1].past
    OBVIOUS
  <2>4. CurrentEvents[i].pos \in PositionsOf(log)
    BY <2>1 DEF HandlerInv, PastInv
  <2> HIDE DEF w, past
  <2>5. w[i] \in Clock /\ Reflects(log, Kept, w[i], past[i])
    BY <2>1, <2>2, <2>3, ReflectsPredecessors
  <2> QED
    BY <2>3, <2>4, <2>5, PastsClosed
<1>5. vc' = MergeAll(vc, Values(w, I))
  <2>1. {Decrement(CurrentEvents[i].vc, pattern.nodes[i].tid) : i \in DOMAIN start} = Values(w, I)
    BY <1>3 DEF PredecessorsOf, Values
  <2> QED
    BY <2>1 DEF MergePredecessors
<1>6. IsFiniteSet(I)
  BY <1>3, FS_Interval
<1>7. JointPast(CurrentSet) = UNION {past[i] : i \in I}
  <2>1. CurrentSet = {CurrentEvents[i] : i \in I}
    BY <1>1, <1>2, CurrentFacts
  <2>2. \A i \in I : past[i] = Entry(CurrentEvents[i].pos).past
    BY DEF Entry
  <2> HIDE DEF past, I
  <2> QED
    BY <2>1, <2>2 DEF JointPast
<1>8. w \in [I -> Clock]
  BY <1>4
<1> HIDE DEF w, past, I
<1>9. NothingForgotten => \A i \in I : past[i] \subseteq Ideal(JointPast(CurrentSet))
  <2>1. JointPast(CurrentSet) \subseteq Ideal(JointPast(CurrentSet))
    BY <1>1, CurrentInTrace, PrefixFacts
  <2> QED
    BY <1>7, <2>1
<1>10. Covers(R, vc', CurrentSet)
  BY <1>1, <1>4, <1>5, <1>6, <1>8, <1>9, CoversTogether
<1>11. JointPast(CurrentSet) \subseteq R
  BY <1>7 DEF Together
<1> QED
  BY <1>10, <1>11

\* What it merges at a lock: sections that end before one that has begun.
LEMMA CoversRound ==
    ASSUME HandlerInv, AllKnown, CheckerShape, PoppedInv, CloseOverLock,
           NEW S, Covers(S, vc, CurrentSet), JointPast(CurrentSet) \subseteq S
    PROVE  \E R : Covers(R, vc', CurrentSet) /\ JointPast(CurrentSet) \subseteq R
<1> DEFINE l == lockAt
           popped == Popped(l)
           ends == MustEnd(l, popped)
           w == ReleasesOf(l, popped, ends)
<1>1. /\ l \in Locks /\ IsFiniteSet(ends)
      /\ vc' = MergeAll(vc, Values(w, ends)) /\ w \in [ends -> Clock]
  BY RoundFacts
<1>2. phase \in Searching /\ vc \in Clock
  BY DEF CloseOverLock, Searching, CheckerShape
<1>3. Popping(l, popped)
  BY <1>1, PoppedIsPopping
<1>4. \A t \in Threads : popped[t] = PoppedBelow(l, t, vc)
  BY DEF Popped
<1> HIDE DEF popped, ends, l
<1>5. ASSUME NEW t \in Threads, popped[t] > 0
      PROVE  SectionAt(l, popped, t).lock.pos \in S
  <2>1. Less(csHist[l][t][popped[t]].lock.vc, vc)
    <3>1. CASE popped[t] > csStart[l][t]
      BY <1>1, <1>4, <3>1, PoppedFacts
    <3>2. CASE popped[t] = csStart[l][t]
      BY <1>1, <1>5, <3>2 DEF PoppedInv
    <3>3. csStart[l][t] \in Nat /\ popped[t] \in Nat /\ csStart[l][t] <= popped[t]
      BY <1>1, <1>4, PoppedFacts DEF CheckerShape
    <3> QED
      BY <3>1, <3>2, <3>3
  <2>2. SectionAt(l, popped, t) \in Elements(csHist[l][t])
    BY <1>1, <1>3, <1>5, SectionAtFacts
  <2>3. SectionAt(l, popped, t).lock \in Kept
    BY <1>1, <2>2, SectionEvents DEF HandlerInv
  <2>4. Leq(SectionAt(l, popped, t).lock.vc, vc)
    BY <2>1 DEF SectionAt, Less
  <2> QED
    BY <2>3, <2>4, CoversOrder DEF Covers
<1> DEFINE unlockOf(t) == SectionAt(l, popped, t).unlock
           past == [t \in ends |-> {unlockOf(t).pos} \cup log[unlockOf(t).pos + 1].past]
           R == Together(S, ends, past)
<1>6. ASSUME NEW t \in ends
      PROVE  /\ w[t] = unlockOf(t).vc /\ unlockOf(t) \in Kept /\ unlockOf(t).pos \in PositionsOf(log)
             /\ NothingForgotten => unlockOf(t).pos \in Ideal(JointPast(CurrentSet))
  <2>1. t \in Threads /\ popped[t] > 0
    BY <1>1, <1>3, MustEndFacts DEF ends
  <2>2. PICK u \in Threads : popped[u] > 0 /\ EndsBefore(SectionAt(l, popped, t), SectionAt(l, popped, u))
    BY <1>1, <1>3, MustEndFacts DEF ends
  <2>3. /\ SectionAt(l, popped, t) \in Elements(csHist[l][t])
        /\ SectionAt(l, popped, t) \in CriticalSections(l)
        /\ SectionAt(l, popped, u) \in CriticalSections(l)
        /\ SectionAt(l, popped, u) \in Elements(csHist[l][u])
    BY <1>1, <1>3, <2>1, <2>2, SectionAtFacts
  <2>4. unlockOf(t) \in Kept /\ unlockOf(t).pos \in PositionsOf(log)
    BY <1>1, <2>1, <2>2, <2>3, SectionEvents DEF HandlerInv, EndsBefore
  <2>5. SectionAt(l, popped, t).lock.pos \in S /\ SectionAt(l, popped, u).lock.pos \in S
    BY <1>5, <2>1, <2>2
  <2>6. SectionAt(l, popped, t).lock.pos < SectionAt(l, popped, u).lock.pos
    <3>1. /\ SectionAt(l, popped, t).lock.pos \in Int /\ SectionAt(l, popped, t).unlock.pos \in Int
          /\ SectionAt(l, popped, u).lock.pos \in Int
      <4>1. SectionAt(l, popped, t).lock.pos \in PositionsOf(log) /\ SectionAt(l, popped, u).lock.pos \in PositionsOf(log)
        BY <1>1, <2>1, <2>3, SectionEvents DEF HandlerInv
      <4> QED
        BY <2>4, <4>1 DEF PositionsOf
    <3> QED
      BY <2>2, <3>1 DEF EndsBefore
  <2>7. ASSUME NothingForgotten
        PROVE  unlockOf(t).pos \in Ideal(JointPast(CurrentSet))
    <3> DEFINE ideal == Ideal(JointPast(CurrentSet))
    <3>1. S \subseteq ideal
      BY <2>7 DEF Covers
    <3>2. Forced(ideal) \subseteq ideal
      BY <1>2, CurrentInTrace, PrefixFacts
    <3> HIDE DEF ideal
    <3>3. \A s, r \in CriticalSections(l) :
             s.lock.pos \in ideal /\ r.lock.pos \in ideal /\ s.lock.pos < r.lock.pos => s.unlock.pos \in ideal
      BY <1>1, <3>2, ForcedMeans
    <3> QED
      BY <2>3, <2>5, <2>6, <3>1, <3>3 DEF ideal
  <2> QED
    BY <2>4, <2>7 DEF ReleasesOf
<1>7. ASSUME NEW t \in ends
      PROVE  /\ Reflects(log, Kept, w[t], past[t]) /\ PastClosed(past[t])
             /\ NothingForgotten => past[t] \subseteq Ideal(JointPast(CurrentSet))
  <2>1. past[t] = {unlockOf(t).pos} \cup log[unlockOf(t).pos + 1].past
    OBVIOUS
  <2>2. w[t] = unlockOf(t).vc
    BY <1>6
  <2> HIDE DEF past, w
  <2>3. Reflects(log, Kept, w[t], past[t]) /\ PastClosed(past[t])
    BY <1>6, <2>1, <2>2, ReflectsKept, PastsClosed
  <2>4. ASSUME NothingForgotten
        PROVE  past[t] \subseteq Ideal(JointPast(CurrentSet))
    <3>1. Forced(Ideal(JointPast(CurrentSet))) \subseteq Ideal(JointPast(CurrentSet))
      BY <1>2, CurrentInTrace, PrefixFacts
    <3>2. \A p \in Ideal(JointPast(CurrentSet)) : log[p + 1].past \subseteq Ideal(JointPast(CurrentSet))
      BY <3>1, ForcedMeans
    <3> QED
      BY <1>6, <2>1, <2>4, <3>2
  <2> QED
    BY <2>3, <2>4
<1> HIDE DEF w, past
<1>8. Covers(R, vc', CurrentSet)
  BY <1>1, <1>2, <1>7, CoversTogether
<1>9. S \subseteq R
  BY DEF Together
<1> QED
  BY <1>8, <1>9

-----------------------------------------------------------------------------
(* What the search covers, step by step.                                   *)

\* A larger clock still covers the sections that were popped.
LEMMA PoppedStay ==
    ASSUME HandlerInv, CheckerShape, PoppedInv, NEW v \in Clock, Leq(vc, v)
    PROVE  \A l \in Locks, t \in Threads : csStart[l][t] > 0 =>
              Less(csHist[l][t][csStart[l][t]].lock.vc, v)
<1> SUFFICES ASSUME NEW l \in Locks, NEW t \in Threads, csStart[l][t] > 0
             PROVE  Less(csHist[l][t][csStart[l][t]].lock.vc, v)
  OBVIOUS
<1>1. csStart[l][t] \in 1..Len(csHist[l][t]) /\ vc \in Clock
  <2>1. csHist[l][t] \in Seq(CriticalSection)
    BY DEF HandlerInv, TypeOK
  <2>2. Len(csHist[l][t]) \in Nat
    BY <2>1
  <2>3. csStart[l][t] \in Nat /\ csStart[l][t] <= Len(csHist[l][t])
    BY DEF CheckerShape
  <2> QED
    BY <2>2, <2>3 DEF CheckerShape
<1>2. csHist[l][t][csStart[l][t]] \in CriticalSection
  BY <1>1 DEF HandlerInv, TypeOK
<1>3. csHist[l][t][csStart[l][t]].lock.vc \in Clock
  BY <1>2 DEF CriticalSection, Event
<1>4. Less(csHist[l][t][csStart[l][t]].lock.vc, vc)
  BY DEF PoppedInv
<1> QED
  BY <1>1, <1>3, <1>4, LessBelow

\* A round pops sections that start below the clock it starts from.
LEMMA PoppedOfRound ==
    ASSUME HandlerInv, CheckerShape, PoppedInv, Check, CloseOverLock
    PROVE  PoppedInv'
<1>1. csHist' = csHist
  BY CheckReads
<1> DEFINE l == lockAt
           popped == Popped(l)
<1>2. /\ l \in Locks /\ vc' \in Clock /\ Leq(vc, vc')
      /\ csStart' = [csStart EXCEPT ![l] = popped]
  BY RoundFacts
<1>3. Popping(l, popped)
  BY <1>2, PoppedIsPopping
<1>4. \A t \in Threads : popped[t] = PoppedBelow(l, t, vc)
  BY DEF Popped
<1> HIDE DEF popped, l
<1>5. ASSUME NEW m \in Locks, NEW t \in Threads, csStart'[m][t] > 0
      PROVE  Less(csHist[m][t][csStart'[m][t]].lock.vc, vc')
  <2>1. csStart \in [Locks -> [Threads -> Nat]] /\ vc \in Clock
    BY DEF CheckerShape
  <2>2. CASE csStart'[m][t] = csStart[m][t]
    BY <1>2, <1>5, <2>2, PoppedStay
  <2>3. CASE csStart'[m][t] # csStart[m][t]
    <3>1. m = l /\ csStart'[m][t] = popped[t]
      BY <1>2, <2>1, <2>3
    <3>2. popped[t] \in Nat /\ csStart[l][t] \in Nat /\ csStart[l][t] <= popped[t]
      BY <1>2, <1>4, <2>1, PoppedFacts
    <3>3. popped[t] > csStart[l][t]
      BY <2>3, <3>1, <3>2
    <3>4. Less(csHist[l][t][popped[t]].lock.vc, vc)
      BY <1>2, <1>4, <3>3, PoppedFacts
    <3>5. csHist[l][t][popped[t]].lock.vc \in Clock
      <4>1. popped[t] > 0
        BY <1>5, <3>1
      <4>2. SectionAt(l, popped, t) \in CriticalSection
        BY <1>2, <1>3, <4>1, SectionAtFacts
      <4> QED
        BY <4>2 DEF SectionAt, CriticalSection, Event
    <3> QED
      BY <1>2, <2>1, <3>1, <3>4, <3>5, LessBelow
  <2> QED
    BY <2>2, <2>3
<1> QED
  BY <1>1, <1>5 DEF PoppedInv

\* So what was popped always starts below the clock.
LEMMA PoppedOfStep ==
    ASSUME HandlerInv, CheckerShape, CheckerShape', PoppedInv, [PredictorNext]_predictorVars
    PROVE  PoppedInv'
<1>1. ASSUME csStart' = NothingPopped
      PROVE  PoppedInv'
  <2>1. \A l \in Locks, t \in Threads : csStart'[l][t] = 0
    BY <1>1 DEF NothingPopped
  <2>2. \A l \in Locks, t \in Threads : ~(csStart'[l][t] > 0)
    BY <2>1
  <2> QED
    BY <2>2 DEF PoppedInv
<1>2. CASE HandleTrace
  <2>1. phase = "recording" /\ csStart' = csStart
    BY <1>2 DEF HandleTrace, checkerVars
  <2> QED
    BY <1>1, <2>1 DEF CheckerShape
<1>3. CASE UNCHANGED predictorVars
  <2>1. csStart' = csStart /\ csHist' = csHist /\ vc' = vc
    BY <1>3 DEF predictorVars, logVars, vars, checkerVars
  <2> QED
    BY <2>1 DEF PoppedInv
<1>4. ASSUME Check
      PROVE  PoppedInv'
  <2>1. csHist' = csHist
    BY <1>4, CheckReads
  <2>2. ASSUME csStart' = csStart, vc' = vc
        PROVE  PoppedInv'
    BY <2>1, <2>2 DEF PoppedInv
  <2>3. CASE CollectPatterns
    BY <2>2, <2>3 DEF CollectPatterns
  <2>4. CASE \E p \in todo : SkipPattern(p) \/ BeginPattern(p)
    <3>1. PICK p \in todo : SkipPattern(p) \/ BeginPattern(p)
      BY <2>4
    <3>2. CASE SkipPattern(p)
      BY <2>2, <3>2 DEF SkipPattern
    <3>3. CASE BeginPattern(p)
      BY <1>1, <3>3 DEF BeginPattern
    <3> QED
      BY <3>1, <3>2, <3>3
  <2>5. CASE NoMorePatterns
    BY <2>2, <2>5 DEF NoMorePatterns
  <2>6. CASE MergePredecessors
    <3>1. csStart' = csStart
      BY <2>6 DEF MergePredecessors
    <3>2. vc' \in Clock /\ Leq(vc, vc')
      BY <2>6, MergedPredecessors
    <3> QED
      BY <2>1, <3>1, <3>2, PoppedStay DEF PoppedInv
  <2>7. CASE CloseOverLock
    BY <1>4, <2>7, PoppedOfRound
  <2>8. CASE EndOfRound
    BY <2>2, <2>8 DEF EndOfRound
  <2>9. CASE CheckClosure
    BY <2>2, <2>9 DEF CheckClosure
  <2>10. CASE AdvanceStarts
    BY <2>2, <2>10 DEF AdvanceStarts
  <2> QED
    BY <1>4, <2>3, <2>4, <2>5, <2>6, <2>7, <2>8, <2>9, <2>10 DEF Check, CheckerNext
<1> QED
  BY <1>2, <1>3, <1>4 DEF PredictorNext

-----------------------------------------------------------------------------
(* What an advance gives up.                                               *)

\* A choice is one event of each queue.
LEMMA ChoicesFacts ==
    ASSUME HandlerInv, NEW p, NEW n, NEW c, NEW locs, PatternOf(p, n, c, locs),
           NEW f \in ChoicesOf(p)
    PROVE  DOMAIN f = 1..n /\ \A i \in 1..n : f[i] \in 1..Len(p.events[i])
<1> DEFINE lengths == {Len(p.events[i]) : i \in 1..n}
<1>1. DOMAIN p.events = 1..n /\ n \in Nat /\ n >= 2
  BY DEF PatternOf
<1>2. \A i \in 1..n : Len(p.events[i]) \in Nat
  BY QueueFacts
<1>3. IsFiniteSet(lengths)
  <2> DEFINE g == [i \in 1..n |-> Len(p.events[i])]
  <2>1. IsFiniteSet(1..n)
    BY <1>1, FS_Interval
  <2>2. g \in Surjection(1..n, lengths)
    BY DEF Surjection
  <2> HIDE DEF g, lengths
  <2> QED
    BY <2>1, <2>2, FS_Surjection
<1>4. lengths \subseteq Nat
  BY <1>2
<1>5. lengths # {}
  <2>1. 1 \in 1..n
    BY <1>1
  <2> QED
    BY <2>1
<1>6. f \in [1..n -> 1..Max(lengths)] /\ \A i \in DOMAIN f : f[i] <= Len(p.events[i])
  BY <1>1 DEF ChoicesOf
<1> HIDE DEF lengths
<1>7. Max(lengths) \in Nat
  BY <1>3, <1>4, <1>5, GreatestNatural
<1> QED
  BY <1>2, <1>6, <1>7

\* Events of the trace at the places that f gives.
LEMMA EventsInTrace ==
    ASSUME HandlerInv, NEW p, NEW n, NEW c, NEW locs, PatternOf(p, n, c, locs),
           NEW f, DOMAIN f = 1..n, \A i \in 1..n : f[i] \in 1..Len(p.events[i])
    PROVE  /\ \A e \in EventsAt(p, f) : e \in Kept /\ e.pos \in PositionsOf(log)
           /\ JointPast(EventsAt(p, f)) \subseteq Positions
<1>1. ASSUME NEW i \in 1..n
      PROVE  p.events[i][f[i]] \in Kept
  BY QueueFacts
<1>2. \A e \in EventsAt(p, f) : e \in Kept
  BY <1>1 DEF EventsAt
<1>3. \A e \in EventsAt(p, f) : e.pos \in PositionsOf(log)
  BY <1>2 DEF HandlerInv, PastInv
<1> QED
  BY <1>2, <1>3, JointPastInTrace

\* Later events of the queues need no less to have happened.
LEMMA LaterNeedMore ==
    ASSUME HandlerInv, NothingForgotten,
           NEW p, NEW n, NEW c, NEW locs, PatternOf(p, n, c, locs),
           NEW f, DOMAIN f = 1..n, \A i \in 1..n : f[i] \in 1..Len(p.events[i]),
           NEW g, DOMAIN g = 1..n, \A i \in 1..n : g[i] \in 1..Len(p.events[i]),
           \A i \in 1..n : f[i] <= g[i]
    PROVE  Ideal(JointPast(EventsAt(p, f))) \subseteq Ideal(JointPast(EventsAt(p, g)))
<1>1. ASSUME NEW i \in 1..n
      PROVE  log[p.events[i][f[i]].pos + 1].past \subseteq log[p.events[i][g[i]].pos + 1].past
  <2>1. f[i] \in 1..Len(p.events[i]) /\ g[i] \in 1..Len(p.events[i]) /\ f[i] <= g[i]
    OBVIOUS
  <2>2. Len(p.events[i]) \in Nat
    BY QueueFacts
  <2>3. CASE f[i] = g[i]
    BY <2>3
  <2>4. CASE f[i] < g[i]
    BY <2>1, <2>4, QueueInOrder
  <2>5. f[i] = g[i] \/ f[i] < g[i]
    <3>1. \A l \in Nat : \A a, b \in 1..l : a <= b => a = b \/ a < b
      OBVIOUS
    <3> QED
      BY <2>1, <2>2, <3>1
  <2> QED
    BY <2>3, <2>4, <2>5
<1>2. JointPast(EventsAt(p, f)) \subseteq JointPast(EventsAt(p, g))
  <2> SUFFICES ASSUME NEW i \in 1..n, NEW q \in log[p.events[i][f[i]].pos + 1].past
               PROVE  q \in JointPast(EventsAt(p, g))
    BY DEF JointPast, EventsAt, Entry
  <2>1. p.events[i][g[i]] \in EventsAt(p, g)
    BY DEF EventsAt
  <2>2. q \in Entry(p.events[i][g[i]].pos).past
    BY <1>1 DEF Entry
  <2> QED
    BY <2>1, <2>2 DEF JointPast
<1> QED
  BY <1>2, EventsInTrace, IdealMonotone

\* The current events are those at start.
LEMMA CurrentAtStart == CurrentSet = EventsAt(pattern, start)
BY DEF CurrentSet, CurrentEvents, EventsAt

\* A reordering that reaches an event of each queue reaches none that the search is about to
\* skip: those are in every prefix that reaches the current events, which come no later.
LEMMA NoneMissed ==
    ASSUME HandlerInv, AllKnown, CheckerShape, ClosureInv, phase = "advance", NothingForgotten,
           NEW n, NEW c, NEW locs, PatternOf(pattern, n, c, locs),
           NEW f \in ChoicesOf(pattern), SyncPreserving(EventsAt(pattern, f)), NEW i \in 1..n
    PROVE  Advanced(i) <= f[i]
<1>1. phase \in Searching
  BY DEF Searching
<1>2. DOMAIN f = 1..n /\ \A j \in 1..n : f[j] \in 1..Len(pattern.events[j])
  BY ChoicesFacts
<1>3. DOMAIN start = 1..n /\ \A j \in 1..n : start[j] \in 1..Len(pattern.events[j])
  BY <1>1, CurrentFacts
<1>4. \A j \in 1..n : start[j] <= f[j]
  <2>1. NoneSkipped(pattern, start)
    BY <1>1 DEF ClosureInv
  <2>2. {pattern.events[j][f[j]] : j \in DOMAIN f} = EventsAt(pattern, f)
    BY DEF EventsAt
  <2> QED
    BY <1>3, <2>1, <2>2 DEF NoneSkipped
<1>5. Ideal(JointPast(CurrentSet)) \subseteq Ideal(JointPast(EventsAt(pattern, f)))
  BY <1>2, <1>3, <1>4, CurrentAtStart, LaterNeedMore
<1> SUFFICES ASSUME ~(Advanced(i) <= f[i])
             PROVE  FALSE
  OBVIOUS
<1> DEFINE e == pattern.events[i][f[i]]
           covered == InClosureOf(i)
<1>6. /\ covered \in Seq(BOOLEAN) /\ Len(covered) = Len(pattern.events[i])
      /\ \A k \in 1..Len(pattern.events[i]) : covered[k] = Leq(pattern.events[i][k].vc, vc)
      /\ Advanced(i) \in start[i]..(Len(pattern.events[i]) + 1)
      /\ start[i] \in 1..Len(pattern.events[i]) /\ Len(pattern.events[i]) \in Nat
  BY <1>1, AdvancedFacts
<1>7. Partitioned(start[i], covered)
  BY <1>1, QueuePartitioned
<1>8. Leq(e.vc, vc)
  <2>1. Advanced(i) = PartitionPoint(start[i], covered)
    BY DEF Advanced
  <2> HIDE DEF covered
  <2>2. start[i] \in Int /\ start[i] \in 1..(Len(covered) + 1)
    BY <1>6
  <2>3. \A k \in start[i]..Len(covered) : covered[k] <=> k < Advanced(i)
    BY <1>6, <1>7, <2>1, <2>2, PointOfPartition
  <2>4. f[i] \in 1..Len(pattern.events[i]) /\ start[i] <= f[i]
    BY <1>2, <1>4
  <2>5. f[i] \in start[i]..Len(covered) /\ f[i] < Advanced(i)
    BY <1>6, <2>4
  <2> QED
    BY <1>6, <2>3, <2>4, <2>5
<1>9. PICK S : Covers(S, vc, CurrentSet)
  BY <1>1 DEF ClosureInv
<1>10. e \in Kept /\ e \in EventsAt(pattern, f)
  BY <1>2, EventsInTrace DEF EventsAt
<1>11. e.pos \in S
  <2> HIDE DEF e, covered
  <2> QED
    BY <1>8, <1>9, <1>10, CoversOrder DEF Covers
<1>12. e.pos \in Ideal(JointPast(EventsAt(pattern, f)))
  BY <1>5, <1>9, <1>11 DEF Covers
<1> QED
  BY <1>10, <1>12 DEF SyncPreserving

-----------------------------------------------------------------------------
(* The search covers what it must and no more.                             *)

\* What it takes that it does after a step.
LEMMA ClosureAfter ==
    ASSUME Check, NEW R, Covers(R, vc', CurrentSet'),
           phase' # "merge" => JointPast(CurrentSet') \subseteq R, NoneSkipped(pattern', start')
    PROVE  ClosureInv'
<1>1. /\ \A S, v, events : Covers(S, v, events)' <=> Covers(S, v, events)
      /\ \A events : JointPast(events)' = JointPast(events)
      /\ \A p, st : NoneSkipped(p, st)' <=> NoneSkipped(p, st)
  BY SameTrace
<1> QED
  BY <1>1 DEF ClosureInv

\* It begins with nothing.
LEMMA ClosureOfBegin ==
    ASSUME HandlerInv, AllKnown, CheckerShape, Check, NEW p \in todo, BeginPattern(p)
    PROVE  ClosureInv'
<1>1. /\ phase' = "merge" /\ vc' = EmptyClock /\ pattern' = p
      /\ start' = [i \in DOMAIN p.events |-> 1]
  BY DEF BeginPattern
<1>2. Covers({}, vc', CurrentSet')
  BY <1>1, ReflectsNothing DEF Covers
<1>3. PICK n, c, locs : PatternOf(p, n, c, locs)
  BY PatternHasCycle DEF CheckerShape
<1>4. NoneSkipped(p, start')
  <2> SUFFICES ASSUME NEW f \in ChoicesOf(p), NEW i \in DOMAIN start'
               PROVE  start'[i] <= f[i]
    BY DEF NoneSkipped
  <2>1. i \in 1..n /\ start'[i] = 1
    BY <1>1, <1>3 DEF PatternOf
  <2>2. f[i] \in 1..Len(p.events[i]) /\ Len(p.events[i]) \in Nat
    BY <1>3, <2>1, ChoicesFacts, QueueFacts
  <2> QED
    BY <2>1, <2>2
<1> QED
  BY <1>1, <1>2, <1>4, ClosureAfter

\* It grows by the steps of the closure.
LEMMA ClosureOfClosing ==
    ASSUME HandlerInv, AllKnown, CheckerShape, PoppedInv, ClosureInv, Check
    PROVE  MergePredecessors \/ CloseOverLock \/ EndOfRound \/ CheckClosure => ClosureInv'
<1>1. ASSUME UNCHANGED <<pattern, start>>
      PROVE  CurrentSet' = CurrentSet
  BY <1>1 DEF CurrentSet, CurrentEvents
<1>2. CASE MergePredecessors
  <2>1. phase \in Searching /\ UNCHANGED <<pattern, start>>
    BY <1>2 DEF MergePredecessors, Searching
  <2>2. PICK S : Covers(S, vc, CurrentSet)
    BY <2>1 DEF ClosureInv
  <2>3. PICK R : Covers(R, vc', CurrentSet) /\ JointPast(CurrentSet) \subseteq R
    BY <1>2, <2>2, CoversPredecessors
  <2>4. NoneSkipped(pattern, start)
    BY <2>1 DEF ClosureInv
  <2> QED
    BY <1>1, <2>1, <2>3, <2>4, ClosureAfter
<1>3. CASE CloseOverLock
  <2>1. phase \in Searching /\ phase # "merge" /\ UNCHANGED <<pattern, start>>
    BY <1>3 DEF CloseOverLock, Searching
  <2>2. PICK S : Covers(S, vc, CurrentSet) /\ JointPast(CurrentSet) \subseteq S
    BY <2>1 DEF ClosureInv
  <2>3. PICK R : Covers(R, vc', CurrentSet) /\ JointPast(CurrentSet) \subseteq R
    BY <1>3, <2>2, CoversRound
  <2>4. NoneSkipped(pattern, start)
    BY <2>1 DEF ClosureInv
  <2> QED
    BY <1>1, <2>1, <2>3, <2>4, ClosureAfter
<1>4. CASE EndOfRound \/ CheckClosure
  <2>1. phase \in Searching /\ phase # "merge" /\ UNCHANGED <<pattern, start, vc>>
    BY <1>4 DEF EndOfRound, CheckClosure, Searching
  <2>2. PICK S : Covers(S, vc, CurrentSet) /\ JointPast(CurrentSet) \subseteq S
    BY <2>1 DEF ClosureInv
  <2>3. NoneSkipped(pattern, start)
    BY <2>1 DEF ClosureInv
  <2> QED
    BY <1>1, <2>1, <2>2, <2>3, ClosureAfter
<1> QED
  BY <1>2, <1>3, <1>4

\* It goes on to later events with what it covered for the last ones.
LEMMA ClosureOfAdvance ==
    ASSUME HandlerInv, AllKnown, CheckerShape, ClosureInv, Check, AdvanceStarts
    PROVE  ClosureInv'
<1>1. phase = "advance" /\ phase \in Searching /\ pattern \in Patterns(index)
  BY DEF AdvanceStarts, Searching, CheckerShape, AtPattern
<1>2. PICK n, c, locs : PatternOf(pattern, n, c, locs)
  BY <1>1, PatternHasCycle
<1>3. /\ DOMAIN start' = 1..n
      /\ Over = {} => phase' = "merge" /\ \A i \in 1..n :
            start'[i] = Advanced(i) /\ Advanced(i) <= Len(pattern.events[i])
      /\ Over # {} => phase' = "patterns"
      /\ UNCHANGED <<pattern, vc>>
  BY <1>2, AdvanceFacts
<1>4. CASE Over # {}
  BY <1>3, <1>4 DEF ClosureInv, Searching
<1>5. CASE Over = {}
  <2>1. /\ DOMAIN start = 1..n
        /\ \A i \in 1..n : start[i] \in 1..Len(pattern.events[i])
    BY <1>1, <1>2, CurrentFacts
  <2>2. \A i \in 1..n : /\ Advanced(i) \in start[i]..(Len(pattern.events[i]) + 1)
                        /\ start[i] \in 1..Len(pattern.events[i]) /\ Len(pattern.events[i]) \in Nat
    BY <1>1, <1>2, AdvancedFacts
  <2>3. \A i \in 1..n : start'[i] \in 1..Len(pattern.events[i]) /\ start[i] <= start'[i]
    BY <1>3, <1>5, <2>2
  <2>4. CurrentSet' = EventsAt(pattern, start')
    BY <1>3 DEF CurrentSet, CurrentEvents, EventsAt
  <2>5. NothingForgotten => Ideal(JointPast(CurrentSet)) \subseteq Ideal(JointPast(CurrentSet'))
    BY <1>2, <1>3, <2>1, <2>3, <2>4, CurrentAtStart, LaterNeedMore
  <2>6. PICK S : Covers(S, vc, CurrentSet)
    BY <1>1 DEF ClosureInv
  <2>7. Covers(S, vc', CurrentSet')
    BY <1>3, <2>5, <2>6 DEF Covers
  <2>8. NoneSkipped(pattern, start')
    <3> SUFFICES ASSUME NothingForgotten, NEW f \in ChoicesOf(pattern),
                        SyncPreserving(EventsAt(pattern, f)), NEW i \in DOMAIN start'
                 PROVE  start'[i] <= f[i]
      BY DEF NoneSkipped, EventsAt
    <3>1. i \in 1..n /\ start'[i] = Advanced(i)
      BY <1>3, <1>5
    <3> QED
      BY <1>1, <1>2, <3>1, NoneMissed
  <2> QED
    BY <1>3, <1>5, <2>7, <2>8, ClosureAfter
<1> QED
  BY <1>4, <1>5

\* Every step keeps it so.
LEMMA ClosureOfStep ==
    HandlerInv /\ AllKnown /\ CheckerShape /\ PoppedInv /\ ClosureInv /\ [PredictorNext]_predictorVars
        => ClosureInv'
<1> SUFFICES ASSUME HandlerInv, AllKnown, CheckerShape, PoppedInv, ClosureInv,
                    [PredictorNext]_predictorVars
             PROVE  ClosureInv'
  OBVIOUS
<1>1. CASE HandleTrace
  BY <1>1 DEF HandleTrace, checkerVars, ClosureInv, Searching
<1>2. CASE UNCHANGED predictorVars
  <2>1. UNCHANGED <<logVars, checkerVars>>
    BY <1>2 DEF predictorVars
  <2>2. index' = index /\ csHist' = csHist /\ log' = log
    BY <2>1 DEF logVars, vars
  <2>3. phase' = phase /\ vc' = vc /\ pattern' = pattern /\ start' = start
    BY <2>1 DEF checkerVars
  <2>4. CurrentSet' = CurrentSet
    BY <2>3 DEF CurrentSet, CurrentEvents
  <2>5. /\ \A S, v, events : Covers(S, v, events)' <=> Covers(S, v, events)
        /\ \A events : JointPast(events)' = JointPast(events)
        /\ \A p, st : NoneSkipped(p, st)' <=> NoneSkipped(p, st)
    BY <2>2, SameLog
  <2> QED
    BY <2>3, <2>4, <2>5 DEF ClosureInv
<1>3. CASE Check
  <2>1. ASSUME phase' \notin Searching
        PROVE  ClosureInv'
    BY <2>1 DEF ClosureInv
  <2>2. CASE CollectPatterns \/ NoMorePatterns
    <3>1. phase' \in {"patterns", "done"}
      BY <2>2 DEF CollectPatterns, NoMorePatterns
    <3> QED
      BY <2>1, <3>1 DEF Searching
  <2>3. CASE \E p \in todo : SkipPattern(p) \/ BeginPattern(p)
    <3>1. PICK p \in todo : SkipPattern(p) \/ BeginPattern(p)
      BY <2>3
    <3>2. CASE SkipPattern(p)
      BY <2>1, <3>2 DEF SkipPattern, Searching
    <3>3. CASE BeginPattern(p)
      BY <1>3, <3>3, ClosureOfBegin
    <3> QED
      BY <3>1, <3>2, <3>3
  <2>4. CASE MergePredecessors \/ CloseOverLock \/ EndOfRound \/ CheckClosure
    BY <1>3, <2>4, ClosureOfClosing
  <2>5. CASE AdvanceStarts
    BY <1>3, <2>5, ClosureOfAdvance
  <2> QED
    BY <1>3, <2>2, <2>3, <2>4, <2>5 DEF Check, CheckerNext
<1> QED
  BY <1>1, <1>2, <1>3 DEF PredictorNext

-----------------------------------------------------------------------------
(* What a report shows.                                                    *)

\* A section of a lock that the clock has reached is among those that the last round popped.
LEMMA ReachedArePopped ==
    ASSUME HandlerInv, AllKnown, CheckerShape, NoAcquireAt(vc),
           NEW S, Reflects(log, Kept, vc, S),
           NEW l \in Locks, NEW t \in Threads, NEW i \in 1..Len(csHist[l][t]),
           csHist[l][t][i].lock.pos \in S
    PROVE  i <= Popped(l)[t]
<1> DEFINE s == csHist[l][t][i]
<1>1. csHist[l][t] \in Seq(CriticalSection) /\ vc \in Clock
  BY DEF HandlerInv, TypeOK, CheckerShape
<1>2. s \in Elements(csHist[l][t]) /\ s \in CriticalSection
  BY <1>1 DEF Elements
<1>3. s \in CriticalSections(l)
  BY <1>2 DEF CriticalSections
<1>4. s.lock.vc \in Clock /\ s.lock \in Kept
  BY <1>2, SectionEvents DEF HandlerInv, CriticalSection, Event
<1>5. Leq(s.lock.vc, vc)
  BY <1>4, CoversOrder
<1>6. s.lock.vc # vc
  BY <1>3 DEF NoAcquireAt
<1>7. Less(s.lock.vc, vc)
  BY <1>1, <1>4, <1>5, <1>6, LessBelow
<1> QED
  BY <1>1, <1>7, PoppedAll DEF Popped

\* What the last round popped has been reached.
LEMMA PoppedAreReached ==
    ASSUME HandlerInv, AllKnown, CheckerShape, PoppedInv, NEW S, Reflects(log, Kept, vc, S),
           NEW l \in Locks, NEW t \in Threads, Popped(l)[t] > 0
    PROVE  SectionAt(l, Popped(l), t).lock.pos \in S
<1> DEFINE popped == Popped(l)
<1>1. popped[t] = PoppedBelow(l, t, vc)
  BY DEF Popped
<1>2. Popping(l, popped)
  BY PoppedIsPopping
<1> HIDE DEF popped
<1>3. Less(csHist[l][t][popped[t]].lock.vc, vc)
  <2>1. csStart[l][t] \in Nat /\ popped[t] \in Nat /\ csStart[l][t] <= popped[t]
    BY <1>1, PoppedFacts DEF CheckerShape
  <2>2. CASE popped[t] > csStart[l][t]
    BY <1>1, <2>2, PoppedFacts
  <2>3. CASE popped[t] = csStart[l][t]
    <3>1. csStart[l][t] > 0
      BY <2>3 DEF popped
    <3> QED
      BY <2>3, <3>1 DEF PoppedInv
  <2> QED
    BY <2>1, <2>2, <2>3
<1>4. popped[t] > 0
  BY DEF popped
<1>5. SectionAt(l, popped, t) \in Elements(csHist[l][t])
  BY <1>2, <1>4, SectionAtFacts
<1>6. SectionAt(l, popped, t).lock \in Kept
  BY <1>5, SectionEvents DEF HandlerInv
<1>7. Leq(SectionAt(l, popped, t).lock.vc, vc)
  BY <1>3 DEF SectionAt, Less
<1>8. SectionAt(l, popped, t).lock.pos \in S
  BY <1>6, <1>7, CoversOrder
<1> QED
  BY <1>8 DEF popped

\* Where the sections of a thread are in the trace.
LEMMA SectionPlaces ==
    ASSUME HandlerInv, NEW l \in Locks, NEW t \in Threads, NEW i \in 1..Len(csHist[l][t])
    PROVE  /\ csHist[l][t][i].lock.pos \in Nat /\ csHist[l][t][i].lock.pos \in PositionsOf(log)
           /\ csHist[l][t][i] \in Elements(csHist[l][t])
<1>1. csHist[l][t] \in Seq(CriticalSection)
  BY DEF HandlerInv, TypeOK
<1>2. csHist[l][t][i] \in Elements(csHist[l][t])
  BY <1>1 DEF Elements
<1>3. csHist[l][t][i].lock.pos \in PositionsOf(log)
  BY <1>2, SectionEvents DEF HandlerInv
<1> QED
  BY <1>2, <1>3 DEF PositionsOf

\* Sections of a thread come in the order of the trace.
LEMMA LaterSection ==
    ASSUME HandlerInv, NEW l \in Locks, NEW t \in Threads,
           NEW i \in 1..Len(csHist[l][t]), NEW j \in 1..Len(csHist[l][t]), i < j
    PROVE  csHist[l][t][i].lock.pos < csHist[l][t][j].lock.pos
<1>1. /\ csHist[l][t][i].lock.pos \in Nat /\ csHist[l][t][j].lock.pos \in Nat
  BY SectionPlaces
<1>2. /\ csHist[l][t][i].lock.pos < csHist[l][t][i].unlock.pos
      /\ csHist[l][t][i].unlock.pos < csHist[l][t][j].lock.pos
      /\ csHist[l][t][i].unlock.pos \in Nat
  <2>1. EndsBefore(csHist[l][t][i], csHist[l][t][j])
    BY SectionsInOrder
  <2> QED
    BY <2>1 DEF EndsBefore, PositionsOf
<1> QED
  BY <1>1, <1>2

\* A closure that converged has reached a prefix: of two sections of a lock that it has
\* reached, it has reached the end of the first.
LEMMA ConvergedIsPrefix ==
    ASSUME HandlerInv, AllKnown, CheckerShape, PoppedInv, Converged(vc), NoAcquireAt(vc),
           NEW S, PastClosed(S), Reflects(log, Kept, vc, S)
    PROVE  Forced(S) \subseteq S
<1>1. \A p \in S : log[p + 1].past \subseteq S
  BY DEF PastClosed
<1>2. ASSUME NEW l \in Locks, NEW s \in CriticalSections(l), NEW r \in CriticalSections(l),
             s.lock.pos \in S, r.lock.pos \in S, s.lock.pos < r.lock.pos
      PROVE  s.unlock.pos \in S
  <2> DEFINE popped == Popped(l)
  <2>1. PICK t \in Threads : s \in Elements(csHist[l][t])
    BY DEF CriticalSections
  <2>2. PICK u \in Threads : r \in Elements(csHist[l][u])
    BY DEF CriticalSections
  <2>3. csHist[l][t] \in Seq(CriticalSection) /\ csHist[l][u] \in Seq(CriticalSection)
    BY DEF HandlerInv, TypeOK
  <2>4. PICK i \in 1..Len(csHist[l][t]) : s = csHist[l][t][i]
    BY <2>1, <2>3 DEF Elements
  <2>5. PICK j \in 1..Len(csHist[l][u]) : r = csHist[l][u][j]
    BY <2>2, <2>3 DEF Elements
  <2>6. i <= popped[t] /\ j <= popped[u]
    BY <1>2, <2>4, <2>5, ReachedArePopped
  <2>7. Popping(l, popped)
    BY PoppedIsPopping
  <2>8. /\ i \in Nat /\ j \in Nat /\ i > 0 /\ j > 0 /\ popped[t] \in Nat /\ popped[u] \in Nat
        /\ popped[t] > 0 /\ popped[u] > 0
    BY <2>6, <2>7 DEF Popping
  <2>9. popped[t] \in 1..Len(csHist[l][t]) /\ popped[u] \in 1..Len(csHist[l][u])
    BY <2>7, <2>8, SectionAtFacts
  <2>10. CASE i < popped[t]
    <3>1. s.unlock.pos \in log[csHist[l][t][popped[t]].lock.pos + 1].past
      <4> HIDE DEF popped
      <4> QED
        BY <2>4, <2>9, <2>10, SectionsGoUp
    <3>2. SectionAt(l, popped, t).lock.pos \in S
      BY <2>8, PoppedAreReached
    <3> HIDE DEF popped
    <3>3. csHist[l][t][popped[t]].lock.pos \in S
      BY <3>2 DEF SectionAt
    <3> QED
      BY <1>1, <3>1, <3>3
  <2>11. CASE i = popped[t]
    <3>1. s.lock.pos < SectionAt(l, popped, u).lock.pos
      <4> HIDE DEF popped
      <4>1. /\ s.lock.pos \in Nat /\ r.lock.pos \in Nat
            /\ csHist[l][u][popped[u]].lock.pos \in Nat
        BY <2>4, <2>5, <2>9, SectionPlaces
      <4>2. CASE j = popped[u]
        BY <1>2, <2>5, <4>2 DEF SectionAt
      <4>3. CASE j < popped[u]
        <5>1. csHist[l][u][j].lock.pos < csHist[l][u][popped[u]].lock.pos
          BY <2>9, <4>3, LaterSection
        <5>2. s.lock.pos < r.lock.pos /\ r.lock.pos < csHist[l][u][popped[u]].lock.pos
          BY <1>2, <2>5, <5>1
        <5>3. \A a, b, c \in Nat : a < b /\ b < c => a < c
          OBVIOUS
        <5>4. s.lock.pos < csHist[l][u][popped[u]].lock.pos
          BY <4>1, <5>2, <5>3
        <5> QED
          BY <5>4 DEF SectionAt
      <4>4. j = popped[u] \/ j < popped[u]
        <5>1. \A a, b \in Nat : a <= b => a = b \/ a < b
          OBVIOUS
        <5> QED
          BY <2>6, <2>8, <5>1
      <4> QED
        BY <4>2, <4>3, <4>4
    <3>2. SectionAt(l, popped, t) = s
      BY <2>4, <2>11 DEF SectionAt
    <3>3. t \in MustEnd(l, popped)
      BY <2>7, <2>8, <3>1, <3>2, MustEndFacts
    <3>4. Leq(s.unlock.vc, vc)
      <4>1. \A w \in MustEnd(l, popped) : Leq(csHist[l][w][popped[w]].unlock.vc, vc)
        BY DEF Converged, Popped
      <4> QED
        BY <2>4, <2>11, <3>3, <4>1
    <3>5. s.unlock \in Kept
      BY <1>2, <2>1, EarlierEnds, SectionEvents DEF EndsBefore, HandlerInv
    <3> QED
      BY <3>4, <3>5, CoversOrder
  <2> QED
    BY <2>6, <2>8, <2>10, <2>11
<1> QED
  BY <1>1, <1>2, ForcedMeans

\* In a cycle each dependency has what the one before it wants.
LEMMA CycleNeighbours ==
    ASSUME HandlerInv, NEW p, NEW n, NEW c, NEW locs, PatternOf(p, n, c, locs),
           NEW i \in 1..n, NEW j, j = (IF i = n THEN 1 ELSE i + 1)
    PROVE  j \in 1..n /\ c[i].res \in c[j].lockset
<1>1. /\ n \in Nat /\ n >= 2 /\ c \in [1..n -> index.absDeps] /\ IsCycle(index, c)
  BY DEF PatternOf
<1>2. Len(c) = n
  BY <1>1
<1>3. j \in 1..n
  BY <1>1
<1>4. c[j] \in Neighbours(index, c[i])
  <2>1. CASE i = n
    BY <1>1, <1>2, <2>1 DEF IsCycle
  <2>2. CASE i # n
    <3>1. i \in 1..(Len(c) - 1) /\ j = i + 1
      BY <1>1, <1>2, <2>2
    <3> QED
      BY <1>1, <3>1 DEF IsCycle
  <2> QED
    BY <2>1, <2>2
<1>5. c[i].res \in Resources
  <2>1. c[i] \in Dependency
    BY QueueFacts
  <2> QED
    BY <2>1 DEF Dependency
<1>6. Elements(index.lockDepMap[c[i].res]) = {d \in index.absDeps : c[i].res \in d.lockset}
  BY <1>5 DEF HandlerInv, IndexConsistent, IndexLinked, PointTo
<1> QED
  BY <1>3, <1>4, <1>6 DEF Neighbours

\* So whatever events of the queues the threads are about to do, each waits for the next.
LEMMA EachWaits ==
    ASSUME HandlerInv, CheckerShape, phase \in Searching,
           NEW n, NEW c, NEW locs, PatternOf(pattern, n, c, locs),
           NEW i \in 1..n, NEW j, j = (IF i = n THEN 1 ELSE i + 1)
    PROVE  WaitsFor(CurrentEvents[i], CurrentEvents[j])
<1>1. j \in 1..n /\ c[i].res \in c[j].lockset
  BY CycleNeighbours
<1>2. ASSUME NEW k \in 1..n
      PROVE  LET e == CurrentEvents[k]
             IN /\ InstanceOf(log[e.pos + 1], Since(log)[e.pos], c[k], locs[k])
                /\ e.pos \in PositionsOf(log)
                /\ c[k] \in Dependency
  <2>1. /\ start[k] \in 1..Len(pattern.events[k])
        /\ CurrentEvents[k] = pattern.events[k][start[k]]
    BY CurrentFacts
  <2>2. CurrentEvents[k] \in Kept
    BY CurrentFacts
  <2>3. CurrentEvents[k].pos \in PositionsOf(log)
    BY <2>2 DEF HandlerInv, PastInv
  <2> QED
    BY <2>1, <2>3, QueueFacts
<1> DEFINE d == CurrentEvents[i]
           e == CurrentEvents[j]
<1>3. log[d.pos + 1].target = c[i].res
  BY <1>2 DEF InstanceOf
<1>4. /\ c[j].lockset \cap Locks = log[e.pos + 1].locks
      /\ c[j].lockset \cap CondVars \subseteq Since(log)[e.pos]
      /\ e.pos \in PositionsOf(log) /\ c[j] \in Dependency
  BY <1>1, <1>2 DEF InstanceOf
<1>5. Since(log)[e.pos] = NotifiedSince(e.pos)
  <2>1. Positions = PositionsOf(log)
    BY ForcedInTrace
  <2> QED
    BY <1>4, <2>1 DEF Since, NotifiedSince, Entry
<1>6. c[i].res \in Locks \cup CondVars
  BY <1>1, <1>4 DEF Dependency, Resources
<1> QED
  BY <1>1, <1>3, <1>4, <1>5, <1>6 DEF WaitsFor, Entry

-----------------------------------------------------------------------------
(* The verdicts.                                                           *)

CheckerInv == HandlerInv /\ AllKnown /\ CheckerShape /\ PoppedInv /\ ClosureInv

\* It holds all the time.
LEMMA CheckerInvHolds ==
    ASSUME FifoWake, ~SpuriousWakes
    PROVE  PredictorSpec => []CheckerInv
<1>1. PredictorInit => PoppedInv /\ ClosureInv
  <2> SUFFICES ASSUME PredictorInit
               PROVE  PoppedInv /\ ClosureInv
    OBVIOUS
  <2>1. \A l \in Locks, t \in Threads : ~(csStart[l][t] > 0)
    BY DEF PredictorInit, CheckerInit, NothingPopped
  <2>2. phase = "recording"
    BY DEF PredictorInit, CheckerInit
  <2> QED
    BY <2>1, <2>2 DEF PoppedInv, ClosureInv, Searching
<1>2. /\ HandlerInv /\ AllKnown /\ CheckerShape /\ CheckerShape' /\ PoppedInv /\ ClosureInv
      /\ [PredictorNext]_predictorVars
      => PoppedInv' /\ ClosureInv'
  BY PoppedOfStep, ClosureOfStep
<1> QED
  BY <1>1, <1>2, KnownOfPredictor, PTL DEF PredictorSpec, CheckerInv

\* When every wait ends with a notify, and threads that were notified go on in that order,
\* the closure never goes too far: of what the handler kept, the checker finds in it only what
\* happens in every sync-preserving reordering that reaches the current events, while no
\* dependency is forgotten.
THEOREM ClosureStaysSound ==
    ASSUME FifoWake, ~SpuriousWakes
    PROVE  PredictorSpec => []ClosureSound
<1>1. CheckerInv => ClosureSound
  <2> SUFFICES ASSUME CheckerInv, phase = "check", NothingForgotten
               PROVE  InClosure \subseteq Ideal(JointPast(CurrentSet))
    BY DEF ClosureSound
  <2>1. PICK S : Covers(S, vc, CurrentSet)
    BY DEF CheckerInv, ClosureInv, Searching
  <2> SUFFICES ASSUME NEW e \in Kept, Leq(e.vc, vc)
               PROVE  e.pos \in Ideal(JointPast(CurrentSet))
    BY DEF InClosure, Kept
  <2>2. e.pos \in S
    BY <2>1, CoversOrder DEF CheckerInv, Covers
  <2> QED
    BY <2>1, <2>2 DEF Covers
<1> QED
  BY <1>1, CheckerInvHolds, PTL

\* Under the same assumptions, a report of a closure that converged, and whose clock is not
\* that of an acquire, is a deadlock of some reordering of the trace.
THEOREM ReportsAreReal ==
    ASSUME FifoWake, ~SpuriousWakes
    PROVE  PredictorSpec => ReportsAreDeadlocks
<1>1. CheckerInv /\ [PredictorNext]_predictorVars
         => [\A v \in verified' \ verified :
                Converged(vc) /\ NoAcquireAt(vc) => IsDeadlock(v.events)]_predictorVars
  <2> SUFFICES ASSUME CheckerInv, [PredictorNext]_predictorVars,
                      NEW v \in verified' \ verified, Converged(vc), NoAcquireAt(vc)
               PROVE  IsDeadlock(v.events)
    OBVIOUS
  <2>1. CheckClosure
    <3>1. verified' # verified
      OBVIOUS
    <3>2. ~HandleTrace /\ ~UNCHANGED predictorVars
      BY <3>1 DEF HandleTrace, checkerVars, predictorVars
    <3>3. Check
      BY <3>2 DEF PredictorNext
    <3>4. /\ ~CollectPatterns /\ ~NoMorePatterns /\ ~MergePredecessors /\ ~CloseOverLock
          /\ ~EndOfRound /\ ~AdvanceStarts
          /\ ~\E p \in todo : SkipPattern(p) \/ BeginPattern(p)
      BY <3>1 DEF CollectPatterns, NoMorePatterns, MergePredecessors, CloseOverLock, EndOfRound,
                  AdvanceStarts, SkipPattern, BeginPattern
    <3> QED
      BY <3>3, <3>4 DEF Check, CheckerNext
  <2>2. /\ phase = "check" /\ phase \in Searching /\ v.events = CurrentEvents
        /\ \A i \in DOMAIN start : ~Leq(CurrentEvents[i].vc, vc)
    BY <2>1 DEF CheckClosure, Searching
  <2>3. PICK n, c, locs : PatternOf(pattern, n, c, locs)
    BY <2>2, PatternHasCycle DEF CheckerInv, CheckerShape, AtPattern
  <2>4. DOMAIN start = 1..n /\ Len(CurrentEvents) = n
        /\ CurrentSet = {CurrentEvents[i] : i \in 1..n}
    BY <2>2, <2>3, CurrentFacts DEF CheckerInv
  <2>5. DOMAIN CurrentEvents = 1..n
    BY <2>4 DEF CurrentEvents
  <2>6. PICK S : Covers(S, vc, CurrentSet) /\ JointPast(CurrentSet) \subseteq S
    BY <2>2 DEF CheckerInv, ClosureInv
  <2>7. PastClosed(S) /\ Reflects(log, Kept, vc, S)
    BY <2>6 DEF Covers
  <2>8. Forced(S) \subseteq S
    BY <2>7, ConvergedIsPrefix DEF CheckerInv
  <2>9. Ideal(JointPast(CurrentSet)) \subseteq S
    <3>1. JointPast(CurrentSet) \subseteq Positions
      BY <2>2, CurrentInTrace DEF CheckerInv
    <3> QED
      BY <2>6, <2>8, <3>1, PrefixFacts DEF CheckerInv
  <2>10. SyncPreserving(CurrentSet)
    <3> SUFFICES ASSUME NEW i \in 1..n
                 PROVE  CurrentEvents[i].pos \notin Ideal(JointPast(CurrentSet))
      BY <2>4 DEF SyncPreserving
    <3>1. CurrentEvents[i] \in Kept
      BY <2>2, <2>3, CurrentFacts DEF CheckerInv
    <3>2. ~Leq(CurrentEvents[i].vc, vc)
      BY <2>2, <2>4
    <3>3. CurrentEvents[i].pos \notin S
      BY <2>7, <3>1, <3>2, CoversOrder DEF CheckerInv
    <3> QED
      BY <2>9, <3>3
  <2>11. \A i \in 1..n : WaitsFor(CurrentEvents[i], CurrentEvents[IF i = n THEN 1 ELSE i + 1])
    BY <2>2, <2>3, EachWaits DEF CheckerInv
  <2>12. {CurrentEvents[i] : i \in DOMAIN CurrentEvents} = CurrentSet
    BY <2>4, <2>5
  <2>13. IsDeadlock(CurrentEvents)
    <3> HIDE DEF CheckerInv
    <3> QED
      BY <2>4, <2>5, <2>10, <2>11, <2>12 DEF IsDeadlock
  <2> QED
    BY <2>2, <2>13
<1> QED
  BY <1>1, CheckerInvHolds, PTL DEF PredictorSpec, ReportsAreDeadlocks

\* Under the same assumptions, and while no dependency is forgotten, the checker gives a pattern
\* up only if no sync-preserving reordering reaches an event of each of its queues.
THEOREM NoDeadlockIsMissed ==
    ASSUME FifoWake, ~SpuriousWakes
    PROVE  PredictorSpec => NoDeadlockMissed
<1>1. CheckerInv /\ [PredictorNext]_predictorVars
         => [(phase = "advance" /\ phase' = "patterns" /\ NothingForgotten) =>
               \A f \in ChoicesOf(pattern) :
                  ~SyncPreserving({pattern.events[i][f[i]] : i \in DOMAIN f})]_predictorVars
  <2> SUFFICES ASSUME CheckerInv, [PredictorNext]_predictorVars, phase = "advance",
                      phase' = "patterns", NothingForgotten, NEW f \in ChoicesOf(pattern),
                      SyncPreserving(EventsAt(pattern, f))
               PROVE  FALSE
    BY DEF EventsAt
  <2>1. AdvanceStarts
    <3>1. ~HandleTrace /\ ~UNCHANGED predictorVars
      BY DEF HandleTrace, predictorVars, checkerVars
    <3>2. /\ ~CollectPatterns /\ ~NoMorePatterns /\ ~MergePredecessors /\ ~CloseOverLock
          /\ ~EndOfRound /\ ~CheckClosure
          /\ ~\E p \in todo : SkipPattern(p) \/ BeginPattern(p)
      BY DEF CollectPatterns, NoMorePatterns, MergePredecessors, CloseOverLock, EndOfRound,
             CheckClosure, SkipPattern, BeginPattern
    <3> QED
      BY <3>1, <3>2 DEF PredictorNext, Check, CheckerNext
  <2>2. phase \in Searching /\ pattern \in Patterns(index)
    BY DEF Searching, CheckerInv, CheckerShape, AtPattern
  <2>3. PICK n, c, locs : PatternOf(pattern, n, c, locs)
    BY <2>2, PatternHasCycle
  <2>4. DOMAIN start = 1..n
    BY <2>2, <2>3, CurrentFacts DEF CheckerInv
  <2>5. Over # {}
    BY <2>1, <2>3, AdvanceFacts DEF CheckerInv
  <2>6. PICK i \in 1..n : Advanced(i) > Len(pattern.events[i])
    BY <2>4, <2>5 DEF Over
  <2>7. Advanced(i) <= f[i]
    BY <2>3, NoneMissed DEF CheckerInv
  <2>8. f[i] \in 1..Len(pattern.events[i])
    BY <2>3, ChoicesFacts DEF CheckerInv
  <2>9. /\ Advanced(i) \in start[i]..(Len(pattern.events[i]) + 1)
        /\ start[i] \in 1..Len(pattern.events[i]) /\ Len(pattern.events[i]) \in Nat
    BY <2>2, <2>3, AdvancedFacts DEF CheckerInv
  <2> QED
    BY <2>6, <2>7, <2>8, <2>9
<1> QED
  BY <1>1, CheckerInvHolds, PTL DEF PredictorSpec, NoDeadlockMissed
=============================================================================
