--------------------------- MODULE PipelineProofs ---------------------------
(***************************************************************************)
(* From a program's events to the event handler, for any program and any   *)
(* number of conversions: what a file holds stays faithful to the program, *)
(* so that the parser indexes no vector outside its range, loses only what *)
(* it may, and keeps objects and threads apart.                            *)
(***************************************************************************)
EXTENDS TracePipeline, SequenceTheorems, FiniteSetTheorems, TLAPS

\* Lemmas on induction, loops and sequences, which do not depend on the capacity.
Lists == INSTANCE RecentListProofs WITH Capacity <- 2

LEMMA InductionUpTo ==
    ASSUME NEW n \in Nat, NEW G, 0 \in G, \A i \in 1..n : i - 1 \in G => i \in G
    PROVE  \A i \in 0..n : i \in G
  BY Lists!InductionUpTo

Iterates(f, n, A, a, F) ==
    /\ f \in [0..n -> A]
    /\ f[0] = a
    /\ \A i \in 1..n : f[i] = F[<<i, f[i-1]>>]

LEMMA IterationExists ==
    ASSUME NEW n \in Nat, NEW A, NEW a \in A, NEW F, \A i \in 1..n, x \in A : F[<<i, x>>] \in A
    PROVE  \E f : Iterates(f, n, A, a, F)
<1>0. 2 \in Nat /\ 2 >= 2
  OBVIOUS
<1>1. PICK f : Lists!Iterates(f, n, A, a, F)
  BY <1>0, Lists!IterationExists, Zenon
<1>2. Iterates(f, n, A, a, F)
  BY <1>1 DEF Iterates, Lists!Iterates
<1> QED
  BY <1>2

LEMMA IterationOf ==
    ASSUME NEW n \in Nat, NEW A, NEW a, NEW F, NEW f, Iterates(f, n, A, a, F)
    PROVE  f = [i \in 0..n |-> IF i = 0 THEN a ELSE F[<<i, f[i-1]>>]]
  BY Lists!IterationOf DEF Iterates, Lists!Iterates

-----------------------------------------------------------------------------
(* Numbers with a lowest digit.                                            *)

LEMMA LowDigit ==
    ASSUME NEW n \in Nat \ {0}, NEW x \in 0..(n-1), NEW y \in Nat
    PROVE  (x + n * y) % n = x /\ (x + n * y) \div n = y
  OBVIOUS

LEMMA TwoDigits ==
    ASSUME NEW n \in Nat \ {0}, NEW m \in Nat \ {0}, NEW x \in 0..(n-1), NEW y \in 0..(m-1)
    PROVE  x + n * y \in 0..(n * m - 1) /\ n * m \in Nat \ {0}
<1>1. n * y \in Nat /\ n * m \in Nat /\ n * m # 0
  OBVIOUS
<1>2. n * y <= n * (m - 1)
  OBVIOUS
<1>3. n * (m - 1) = n * m - n
  OBVIOUS
<1> QED
  BY <1>1, <1>2, <1>3

LEMMA ModSmall ==
    ASSUME NEW n \in Nat \ {0}, NEW x \in 0..(n-1)
    PROVE  x % n = x
  OBVIOUS

LEMMA ModRange ==
    ASSUME NEW n \in Nat \ {0}, NEW x \in Int
    PROVE  x % n \in 0..(n-1)
  OBVIOUS

\* A signed number that fits comes back from two's complement.
LEMMA NarrowFacts ==
    ASSUME NEW r \in Nat \ {0}, r % 2 = 0, NEW g \in Nat \ {0}, g % r = 0,
           NEW v \in Int, -(r \div 2) <= v, v < r \div 2
    PROVE  Narrow(v % g, r) = v
<1> DEFINE h == r \div 2
           q == g \div r
<1>1. h \in Nat /\ r = 2 * h /\ h >= 1
  OBVIOUS
<1>2. q \in Nat /\ g = r * q
  <2>1. g = r * (g \div r) + (g % r)
    OBVIOUS
  <2> QED
    BY <2>1
<1>3. q >= 1
  BY <1>2
<1>4. r <= g
  BY <1>2, <1>3
<1> HIDE DEF h, q
<1>5. (v % g) % r = IF v >= 0 THEN v ELSE v + r
  <2>1. CASE v >= 0
    <3>1. v \in 0..(g-1) /\ v \in 0..(r-1)
      BY <1>1, <1>4, <2>1 DEF h
    <3> QED
      BY <2>1, <3>1, ModSmall
  <2>2. CASE v < 0
    <3>1. v + g \in 0..(g-1) /\ v + r \in 0..(r-1)
      BY <1>1, <1>4, <2>2 DEF h
    <3>2. v % g = v + g
      <4>1. v = (v + g) + g * (-1)
        OBVIOUS
      <4> QED
        BY <3>1, <4>1
    <3>3. v + g = (v + r) + r * (q - 1)
      BY <1>2
    <3> DEFINE x == v + r
               y == q - 1
    <3>4. x \in 0..(r-1) /\ y \in Nat /\ v + g = x + r * y
      BY <1>2, <1>3, <3>1, <3>3
    <3> HIDE DEF x, y
    <3>5. (x + r * y) % r = x
      BY <3>4, LowDigit
    <3> QED
      BY <2>2, <3>2, <3>4, <3>5 DEF x
  <2> QED
    BY <2>1, <2>2
<1> QED
  BY <1>1, <1>5 DEF Narrow, h

-----------------------------------------------------------------------------
(* An event that fits comes back from its word, but for a cut thread.      *)

AllTypes == {EventNames[i] : i \in DOMAIN EventNames}
Half == ResourceRange \div 2
Events == [tid : Nat, type : AllTypes, target : (-Half)..(Half - 1), loc : 0..(SrcLocRange - 1)]

LEMMA RangeFacts ==
    /\ ThreadRange \in Nat \ {0} /\ TargetRange \in Nat \ {0} /\ SrcLocRange \in Nat \ {0}
    /\ ResourceRange \in Nat \ {0} /\ CountRange \in Nat \ {0} /\ OpRange \in Nat \ {0}
    /\ Half \in Nat /\ ResourceRange = 2 * Half /\ SrcLocRange <= Half /\ CountRange <= Half
<1>1. /\ ThreadRange \in Nat \ {0} /\ TargetRange \in Nat \ {0} /\ SrcLocRange \in Nat \ {0}
      /\ ResourceRange \in Nat \ {0} /\ CountRange \in Nat \ {0} /\ OpRange \in Nat \ {0}
  BY FormatAssumption DEF OpRange
<1>2. Half \in Nat /\ ResourceRange = 2 * Half
  BY <1>1, FormatAssumption DEF Half
<1> QED
  BY <1>1, <1>2, FormatAssumption

LEMMA TypeValues ==
    ASSUME NEW t \in AllTypes
    PROVE  /\ ValueOf(t) \in 0..(OpRange - 1) /\ FromInt16(ValueOf(t)) = t /\ t # NoType
<1>1. DOMAIN EventNames = 1..13
  BY DEF EventNames
<1> DEFINE i == CHOOSE k \in DOMAIN EventNames : EventNames[k] = t
<1>2. i \in 1..13 /\ EventNames[i] = t
  BY <1>1 DEF AllTypes
<1>3. ValueOf(t) = i - 1
  BY DEF ValueOf
<1> HIDE DEF i
<1>4. FromInt16(i - 1) = t
  BY <1>1, <1>2 DEF FromInt16
<1>5. \A k \in 1..13 : EventNames[k] # "NONE"
  BY DEF EventNames
<1> QED
  BY <1>1, <1>2, <1>3, <1>4, <1>5 DEF OpRange, NoType

\* Every word is of some event, if only of no type.
LEMMA WordType ==
    ASSUME NEW w \in Nat
    PROVE  LET e == BinToEv(w)
           IN /\ e = [tid |-> e.tid, type |-> e.type, target |-> e.target, loc |-> e.loc]
              /\ e.tid \in Nat /\ e.loc \in Nat /\ e.target \in Int
              /\ e.type \in AllTypes \cup {NoType} /\ e.type = ExtractEvType(w)
<1> DEFINE T == ThreadRange
<1>1. \A n \in Nat \ {0} : w \div n \in Nat
  OBVIOUS
<1>2. \A n, m \in Nat \ {0} : (w \div n) % m \in Nat
  BY <1>1
<1>3. /\ ThreadRange * OpRange \in Nat \ {0}
      /\ ThreadRange * OpRange * TargetRange \in Nat \ {0}
  <2>1. \A a, b \in Nat \ {0} : a * b \in Nat \ {0}
    OBVIOUS
  <2> QED
    BY <2>1, RangeFacts
<1>4. /\ BinToComp(ThreadField, w) \in Nat /\ BinToComp(OpField, w) \in Nat
      /\ BinToComp(TargetField, w) \in Nat /\ BinToComp(SrcLocField, w) \in Nat
  BY <1>2, <1>3, RangeFacts DEF BinToComp, ThreadField, OpField, TargetField, SrcLocField
<1>5. ExtractEvType(w) \in AllTypes \cup {NoType}
  BY DEF ExtractEvType, FromInt16, AllTypes
<1>6. ExtractTarget(w) \in Int
  BY <1>4, RangeFacts DEF ExtractTarget, Narrow
<1> QED
  BY <1>4, <1>5, <1>6 DEF BinToEv

LEMMA WordIsNumber ==
    ASSUME NEW e, e.tid \in Int, e.target \in Int, e.loc \in Int, ValueOf(e.type) \in Int
    PROVE  EvToBin(e) \in Nat
<1>1. \A n \in Nat \ {0}, u \in Nat \ {0}, v \in Int : (v % n) * u \in Nat
  <2>1. \A n \in Nat \ {0}, v \in Int : v % n \in Nat
    OBVIOUS
  <2>2. \A a \in Nat, u \in Nat \ {0} : a * u \in Nat
    OBVIOUS
  <2> QED
    BY <2>1, <2>2
<1>2. /\ ThreadRange * OpRange \in Nat \ {0}
      /\ ThreadRange * OpRange * TargetRange \in Nat \ {0}
  <2>1. \A a, b \in Nat \ {0} : a * b \in Nat \ {0}
    OBVIOUS
  <2> QED
    BY <2>1, RangeFacts
<1>3. 1 \in Nat \ {0}
  OBVIOUS
<1>4. /\ CompToBin(ThreadField, e.tid) \in Nat /\ CompToBin(OpField, ValueOf(e.type)) \in Nat
      /\ CompToBin(TargetField, e.target) \in Nat /\ CompToBin(SrcLocField, e.loc) \in Nat
  BY <1>1, <1>2, <1>3, RangeFacts DEF CompToBin, ThreadField, OpField, TargetField, SrcLocField
<1> QED
  BY <1>4 DEF EvToBin

\* The round trip: type, target and location come back from the word of an event, and its
\* thread but for what does not fit the field.
THEOREM WordRoundTrip ==
    ASSUME NEW e \in Events
    PROVE  BinToEv(EvToBin(e)) = [e EXCEPT !.tid = @ % ThreadRange]
<1> DEFINE T == ThreadRange
           O == OpRange
           G == TargetRange
           L == SrcLocRange
           a == e.tid % T
           v == ValueOf(e.type)
           w == e.target % G
           l == e.loc
           word == EvToBin(e)
<1>1. /\ T \in Nat \ {0} /\ O \in Nat \ {0} /\ G \in Nat \ {0} /\ L \in Nat \ {0}
  BY RangeFacts
<1>2. /\ e = [tid |-> e.tid, type |-> e.type, target |-> e.target, loc |-> l]
      /\ e.tid \in Nat /\ e.type \in AllTypes /\ e.target \in Int /\ l \in 0..(L-1)
      /\ -Half <= e.target /\ e.target < Half
  BY RangeFacts DEF Events
<1>3. a \in 0..(T-1) /\ w \in 0..(G-1) /\ v \in 0..(O-1)
  BY <1>1, <1>2, TypeValues
<1>4. /\ (v % O) = v /\ (l % L) = l
  BY <1>1, <1>2, <1>3, ModSmall
<1>5. word = a * 1 + v * T + w * (T * O) + l * (T * O * G)
  BY <1>4 DEF EvToBin, CompToBin, ThreadField, OpField, TargetField, SrcLocField
<1>6. v \in Nat /\ a \in Nat /\ w \in Nat /\ l \in Nat
  BY <1>2, <1>3
<1> HIDE DEF T, O, G, L, a, v, w, l, word
<1> DEFINE x1 == a + T * v
           x2 == x1 + (T * O) * w
           M == T * O
           N == T * O * G
<1>7. x1 \in 0..(M-1) /\ M \in Nat \ {0}
  BY <1>1, <1>3, TwoDigits
<1>8. N = M * G
  OBVIOUS
<1> HIDE DEF x1, M, N
<1>9. x2 = x1 + M * w
  BY DEF M
<1>10. x2 \in 0..(N-1) /\ N \in Nat \ {0}
  BY <1>1, <1>3, <1>7, <1>8, <1>9, TwoDigits
<1>11. word = x2 + N * l
  BY <1>1, <1>5, <1>6, <1>9, <1>7, <1>10 DEF x1, M, N
<1> HIDE DEF x2
<1>12. word \div N = l
  BY <1>6, <1>10, <1>11, LowDigit
<1>13. word \div M = w + G * l
  <2> DEFINE y == w + G * l
  <2>1. y \in Nat
    BY <1>1, <1>6
  <2>2. word = x1 + M * y
    BY <1>1, <1>6, <1>7, <1>8, <1>9, <1>11
  <2> HIDE DEF y
  <2>3. word \div M = y
    BY <1>7, <2>1, <2>2, LowDigit
  <2> QED
    BY <2>3 DEF y
<1>14. word \div T = v + O * (w + G * l) /\ word % T = a
  <2> DEFINE y == v + O * (w + G * l)
  <2>1. y \in Nat
    BY <1>1, <1>6
  <2>2. word = a + T * y
    BY <1>1, <1>5, <1>6
  <2> HIDE DEF y
  <2>3. word \div T = y /\ word % T = a
    BY <1>1, <1>3, <2>1, <2>2, LowDigit
  <2> QED
    BY <2>3 DEF y
<1>15. (v + O * (w + G * l)) % O = v
  <2> DEFINE y == w + G * l
  <2>1. y \in Nat
    BY <1>1, <1>6
  <2> HIDE DEF y
  <2>2. (v + O * y) % O = v
    BY <1>1, <1>3, <2>1, LowDigit
  <2> QED
    BY <2>2 DEF y
<1>16. (w + G * l) % G = w
  BY <1>1, <1>3, <1>6, LowDigit
<1>17. word \in Nat /\ word \div 1 = word
  BY <1>6, <1>10, <1>11
<1>18. BinToComp(ThreadField, word) = a
  BY <1>14, <1>17 DEF BinToComp, ThreadField, T
<1>19. BinToComp(OpField, word) = v
  BY <1>14, <1>15 DEF BinToComp, OpField, T, O
<1>20. BinToComp(TargetField, word) = w
  BY <1>13, <1>16 DEF BinToComp, TargetField, T, O, G, M
<1>21. BinToComp(SrcLocField, word) = l
  <2>1. l % L = l
    BY <1>1, <1>2, ModSmall
  <2> QED
    BY <1>12, <2>1 DEF BinToComp, SrcLocField, T, O, G, L, N
<1>22. ExtractEvType(word) = e.type
  BY <1>2, <1>19, TypeValues DEF ExtractEvType, v
<1>23. ExtractTarget(word) = e.target
  <2>1. Narrow(w, ResourceRange) = e.target
    BY <1>2, RangeFacts, FormatAssumption, NarrowFacts DEF Half, w, G
  <2> QED
    BY <1>20, <2>1 DEF ExtractTarget
<1>24. BinToEv(word) = [tid |-> a, type |-> e.type, target |-> e.target, loc |-> l]
  BY <1>18, <1>21, <1>22, <1>23 DEF BinToEv
<1>25. [e EXCEPT !.tid = e.tid % ThreadRange] = [tid |-> a, type |-> e.type, target |-> e.target, loc |-> l]
  BY <1>2 DEF a, T
<1> QED
  BY <1>24, <1>25 DEF word

-----------------------------------------------------------------------------
(* Elements that are chosen.                                               *)

\* The elements of t are those of the first k of s that are chosen, f tells where they were.
Picks(f, t, s, isChosen, k) ==
    /\ f \in [1..Len(t) -> 1..k]
    /\ \A j \in 1..Len(t) : t[j] = s[f[j]] /\ isChosen[f[j]]
    /\ \A i, j \in 1..Len(t) : i < j => f[i] < f[j]
    /\ \A i \in 1..k : isChosen[i] => \E j \in 1..Len(t) : f[j] = i

LEMMA ChosenFacts ==
    ASSUME NEW S, NEW s \in Seq(S), NEW isChosen, \A i \in 1..Len(s) : isChosen[i] \in BOOLEAN
    PROVE  /\ Chosen(s, isChosen) \in Seq(S)
           /\ \E f : Picks(f, Chosen(s, isChosen), s, isChosen, Len(s))
<1> DEFINE n == Len(s)
           Q == Seq(S)
           F == [x \in (1..n) \X Q |-> IF isChosen[x[1]] THEN Append(x[2], s[x[1]]) ELSE x[2]]
           Rec(f) == [i \in 0..n |-> IF i = 0 THEN <<>>
                                     ELSE IF isChosen[i] THEN Append(f[i-1], s[i]) ELSE f[i-1]]
           g == CHOOSE f : f = Rec(f)
<1>1. Chosen(s, isChosen) = g[n]
  BY DEF Chosen
<1>2. n \in Nat /\ \A i \in 1..n : s[i] \in S
  <2>1. n \in Nat /\ DOMAIN s = 1..n
    BY LenProperties
  <2> QED
    BY <2>1, ElementOfSeq
<1>3. \A i \in 1..n, x \in Q : F[<<i, x>>] = IF isChosen[i] THEN Append(x, s[i]) ELSE x
  OBVIOUS
<1>4. \A i \in 1..n, x \in Q : F[<<i, x>>] \in Q
  BY <1>2, <1>3, AppendProperties
<1>5. <<>> \in Q
  OBVIOUS
<1> HIDE DEF F, n
<1>6. PICK h : Iterates(h, n, Q, <<>>, F)
  <2> HIDE DEF Q
  <2> QED
    BY <1>2, <1>4, <1>5, IterationExists
<1>7. h = [i \in 0..n |-> IF i = 0 THEN <<>> ELSE F[<<i, h[i-1]>>]]
  <2> HIDE DEF Q
  <2> QED
    BY <1>2, <1>6, IterationOf
<1>8. \A i \in 0..n : i # 0 =>
         F[<<i, h[i-1]>>] = IF isChosen[i] THEN Append(h[i-1], s[i]) ELSE h[i-1]
  <2>1. \A i \in 0..n : i # 0 => i - 1 \in 0..n /\ i \in 1..n
    BY <1>2
  <2> QED
    BY <1>3, <1>6, <2>1 DEF Iterates
<1>9. h = Rec(h)
  BY <1>7, <1>8
<1>10. g = Rec(g)
  BY <1>9
<1>11. \A i \in 0..n : g[i] = IF i = 0 THEN <<>>
                              ELSE IF isChosen[i] THEN Append(g[i-1], s[i]) ELSE g[i-1]
  BY <1>10
<1> HIDE DEF g, Rec
<1> DEFINE G == {k \in 0..n : g[k] \in Seq(S) /\ \E f : Picks(f, g[k], s, isChosen, k)}
<1>12. 0 \in G
  <2>1. g[0] = <<>> /\ Len(<<>>) = 0 /\ <<>> \in Seq(S)
    BY <1>2, <1>11
  <2>2. Picks([i \in 1..0 |-> 0], <<>>, s, isChosen, 0)
    BY DEF Picks
  <2>3. (\E f : Picks(f, g[0], s, isChosen, 0)) /\ g[0] \in Seq(S)
    BY <2>1, <2>2
  <2>4. 0 \in 0..n
    BY <1>2
  <2> QED
    BY <2>3, <2>4, Zenon
<1>13. ASSUME NEW k \in 1..n, k - 1 \in G
       PROVE  k \in G
  <2> DEFINE t == g[k-1]
  <2>1. k \in 0..n /\ k - 1 \in 0..n /\ k \in Nat
    BY <1>2
  <2>2. t \in Seq(S) /\ Len(t) \in Nat /\ s[k] \in S
    BY <1>2, <1>13, LenProperties
  <2>3. PICK f : Picks(f, t, s, isChosen, k - 1)
    BY <1>13
  <2>4. g[k] = IF isChosen[k] THEN Append(t, s[k]) ELSE t
    BY <1>11, <2>1
  <2> HIDE DEF t
  <2>5. /\ f \in [1..Len(t) -> 1..(k-1)] /\ f \in [1..Len(t) -> 1..k]
        /\ \A j \in 1..Len(t) : t[j] = s[f[j]] /\ isChosen[f[j]] /\ f[j] < k
        /\ \A i, j \in 1..Len(t) : i < j => f[i] < f[j]
        /\ \A i \in 1..(k-1) : isChosen[i] => \E j \in 1..Len(t) : f[j] = i
    <3>1. f \in [1..Len(t) -> 1..(k-1)]
      BY <2>3 DEF Picks
    <3>2. \A j \in 1..Len(t) : f[j] \in 1..k /\ f[j] < k
      BY <2>1, <3>1
    <3> QED
      BY <2>3, <3>1, <3>2 DEF Picks
  <2>6. CASE ~isChosen[k]
    <3>1. Picks(f, t, s, isChosen, k)
      <4>1. \A i \in 1..k : isChosen[i] => i \in 1..(k-1)
        BY <2>1, <2>6
      <4> QED
        BY <2>5, <4>1 DEF Picks
    <3> QED
      BY <2>1, <2>2, <2>4, <2>6, <3>1
  <2>7. CASE isChosen[k]
    <3> DEFINE u == Append(t, s[k])
               m == Len(t) + 1
               e == [j \in 1..m |-> IF j = m THEN k ELSE f[j]]
    <3>1. u \in Seq(S) /\ Len(u) = m /\ u[m] = s[k] /\ \A j \in 1..Len(t) : u[j] = t[j]
      BY <2>2, AppendProperties
    <3>2. m \in Nat /\ \A j \in 1..m : j = m \/ (j \in 1..Len(t) /\ j # m)
      BY <2>2
    <3>3. e[m] = k /\ \A j \in 1..Len(t) : e[j] = f[j] /\ j \in 1..m
      BY <2>2
    <3>4. e \in [1..m -> 1..k]
      BY <2>1, <2>5, <3>2
    <3> HIDE DEF u, e
    <3>5. \A j \in 1..m : u[j] = s[e[j]] /\ isChosen[e[j]]
      BY <2>5, <2>7, <3>1, <3>2, <3>3
    <3>6. ASSUME NEW i \in 1..m, NEW j \in 1..m, i < j
          PROVE  e[i] < e[j]
      <4>1. i \in 1..Len(t)
        BY <2>2, <3>6
      <4> QED
        BY <2>5, <3>2, <3>3, <3>6, <4>1
    <3>7. \A i \in 1..k : isChosen[i] => \E j \in 1..m : e[j] = i
      <4> TAKE i \in 1..k
      <4>1. CASE i = k
        <5>1. m \in 1..m
          BY <2>2
        <5> QED
          BY <3>3, <4>1, <5>1
      <4>2. CASE i # k
        <5>1. i \in 1..(k-1)
          BY <2>1, <4>2
        <5>2. ASSUME isChosen[i]
              PROVE  \E j \in 1..m : e[j] = i
          <6>1. PICK j \in 1..Len(t) : f[j] = i
            BY <2>5, <5>1, <5>2
          <6> QED
            BY <3>3, <6>1
        <5> QED
          BY <5>2
      <4> QED
        BY <4>1, <4>2
    <3>8. Picks(e, u, s, isChosen, k)
      BY <3>1, <3>4, <3>5, <3>6, <3>7 DEF Picks
    <3>9. g[k] = u
      BY <2>4, <2>7 DEF u
    <3> QED
      BY <2>1, <3>1, <3>8, <3>9
  <2>8. isChosen[k] \in BOOLEAN
    BY DEF n
  <2> QED
    BY <2>6, <2>7, <2>8
<1>14. n \in G
  <2> HIDE DEF G
  <2>1. \A i \in 0..n : i \in G
    BY <1>2, <1>12, <1>13, InductionUpTo
  <2> QED
    BY <1>2, <2>1
<1> QED
  BY <1>1, <1>14 DEF n

-----------------------------------------------------------------------------
(* Faithful to the program.  o are the program's events; an item is a line *)
(* of text or the event of a word.                                         *)

\* Not a line or word that is no event, or whose location is no number.
Real(x) == x.type # NoType /\ x.loc # NoNumber

\* What text calls a condition variable, or what a word does.
LockOf(target, text) == IF text THEN target ELSE -target

\* Items x and y are about the same things exactly if d and e are.  fit: if threads fit
\* their field; paired: if locks keep their condition variables.
Alike(x, y, text, d, e, textOfE, fit, paired) ==
    /\ SameClass(d.type, e.type) => (x.target = y.target <=> d.target = e.target)
    /\ fit => (x.tid = y.tid <=> d.tid = e.tid)
    /\ fit /\ d.type \in ThreadTypes => (x.target = y.tid <=> d.target = e.tid)
    /\ paired /\ d.type \in LockTypes /\ e.type \in CondVarTypes =>
          (x.target = LockOf(y.target, text) <=> d.target = LockOf(e.target, textOfE))

Faithful(s, o, text, fit, paired) ==
    /\ \A i \in DOMAIN s : Real(s[i]) => s[i].loc \in DOMAIN o /\ s[i].type = o[s[i].loc].type
    /\ \A i, j \in DOMAIN s : i < j /\ Real(s[i]) /\ Real(s[j]) => s[i].loc < s[j].loc
    /\ \A i, j \in DOMAIN s : Real(s[i]) /\ Real(s[j]) =>
          Alike(s[i], s[j], text, o[s[i].loc], o[s[j].loc], TRUE, fit, paired)

\* An event is missing only if no tool uses it, or it went through a Java file.
Excused(type, java) == type \in UnusedTypes \/ (type \in CondVarTypes /\ java)
Complete(s, o, java) ==
    \A k \in DOMAIN o : (\E i \in DOMAIN s : Real(s[i]) /\ s[i].loc = k) \/ Excused(o[k].type, java)

\* The items of r are those of s that f names, possibly with other identifiers.
Follows(r, s, f) ==
    /\ \A j \in DOMAIN r : Real(r[j]) =>
          /\ f[j] \in DOMAIN s /\ Real(s[f[j]])
          /\ r[j].type = s[f[j]].type /\ r[j].loc = s[f[j]].loc
    /\ \A i, j \in DOMAIN r : i < j /\ Real(r[i]) /\ Real(r[j]) => f[i] < f[j]

LEMMA FollowsFaithful ==
    ASSUME NEW s, NEW o, NEW text, NEW fit, NEW paired, Faithful(s, o, text, fit, paired),
           NEW r, NEW f, Follows(r, s, f), NEW textOfR, NEW pairedOfR, pairedOfR => paired,
           \A i, j \in DOMAIN r : Real(r[i]) /\ Real(r[j]) =>
              Alike(r[i], r[j], textOfR, s[f[i]], s[f[j]], text, fit, pairedOfR)
    PROVE  Faithful(r, o, textOfR, fit, pairedOfR)
<1>1. \A i \in DOMAIN r : Real(r[i]) =>
         /\ r[i].loc \in DOMAIN o /\ r[i].type = o[r[i].loc].type
         /\ f[i] \in DOMAIN s /\ Real(s[f[i]]) /\ r[i].loc = s[f[i]].loc
         /\ s[f[i]].type = o[r[i].loc].type
  BY DEF Faithful, Follows
<1>2. \A i, j \in DOMAIN r : i < j /\ Real(r[i]) /\ Real(r[j]) => r[i].loc < r[j].loc
  BY <1>1 DEF Faithful, Follows
<1>3. ASSUME NEW i \in DOMAIN r, NEW j \in DOMAIN r, Real(r[i]), Real(r[j])
      PROVE  Alike(r[i], r[j], textOfR, o[r[i].loc], o[r[j].loc], TRUE, fit, pairedOfR)
  <2> DEFINE x == r[i]
             y == r[j]
             u == s[f[i]]
             v == s[f[j]]
             d == o[x.loc]
             e == o[y.loc]
  <2>1. Alike(x, y, textOfR, u, v, text, fit, pairedOfR)
    BY <1>3
  <2>2. Alike(u, v, text, d, e, TRUE, fit, paired)
    BY <1>1, <1>3 DEF Faithful
  <2>3. u.type = d.type /\ v.type = e.type
    BY <1>1, <1>3
  <2> HIDE DEF x, y, u, v, d, e
  <2>4. Alike(x, y, textOfR, d, e, TRUE, fit, pairedOfR)
    BY <2>1, <2>2, <2>3 DEF Alike
  <2> QED
    BY <2>4 DEF x, y, d, e
<1> QED
  BY <1>1, <1>2, <1>3 DEF Faithful

LEMMA FollowsComplete ==
    ASSUME NEW s, NEW o, NEW java, Complete(s, o, java), NEW r, NEW f, Follows(r, s, f),
           NEW javaOfR, java => javaOfR,
           \A i \in DOMAIN s : Real(s[i]) =>
              s[i].loc \in DOMAIN o /\ s[i].type = o[s[i].loc].type,
           \A i \in DOMAIN s : Real(s[i]) =>
              (\E j \in DOMAIN r : Real(r[j]) /\ f[j] = i) \/ Excused(s[i].type, javaOfR)
    PROVE  Complete(r, o, javaOfR)
<1> SUFFICES ASSUME NEW k \in DOMAIN o, ~Excused(o[k].type, javaOfR)
             PROVE  \E j \in DOMAIN r : Real(r[j]) /\ r[j].loc = k
  BY DEF Complete
<1>1. ~Excused(o[k].type, java)
  BY DEF Excused
<1>2. PICK i \in DOMAIN s : Real(s[i]) /\ s[i].loc = k
  BY <1>1 DEF Complete
<1>3. PICK j \in DOMAIN r : Real(r[j]) /\ f[j] = i
  BY <1>2
<1>4. r[j].loc = k
  BY <1>2, <1>3 DEF Follows
<1> QED
  BY <1>3, <1>4

-----------------------------------------------------------------------------
(* What a file holds.  o are the program's events, n is how many threads   *)
(* they have, and viaT and viaJ say whether they went through text printed *)
(* by conv_trace and through a Java file.                                  *)

Item == [tid : Int, type : AllTypes \cup {NoType}, target : Int, loc : Int]
Header == [threads : Nat, locks : Nat, vars : Nat, events : Nat]

EventsOf(words) == [i \in DOMAIN words |-> BinToEv(words[i])]

\* The identifiers of an event are below the counts of the header.
InCounts(x, header) ==
    /\ x.tid \in 0..(header.threads - 1)
    /\ x.type \in ThreadTypes => x.target \in 0..(header.threads - 1)
    /\ x.type \in LockTypes => x.target \in 0..(header.locks - 1)
    /\ x.type \in CondVarTypes => -x.target \in 0..(header.locks - 1)
    /\ x.type \in AccessTypes => x.target \in 0..(header.vars - 1)

\* The names of threads are among n numbers.
NamesFrom(a, n, x) ==
    /\ x.tid \in a..(a + n - 1)
    /\ x.type \in ThreadTypes => x.target \in a..(a + n - 1)

TextOK(lines, o, n, viaT, viaJ) ==
    /\ lines \in Seq(Item)
    /\ Faithful(lines, o, TRUE, n <= ThreadRange, ~viaT)
    /\ lines # <<>> => Complete(lines, o, viaJ)
    /\ \E a \in Int : \A i \in DOMAIN lines : lines[i].type # NoType => NamesFrom(a, n, lines[i])

\* The lines as the text parser understands them.
Understood(lines) == [i \in DOMAIN lines |-> Prefixed(lines[i])]

WordsOK(words, header, o, n, viaT, viaJ) ==
    /\ words \in Seq(Nat)
    /\ header \in Header /\ header.events = Len(words) /\ header.threads <= n
    /\ Faithful(EventsOf(words), o, FALSE, n <= ThreadRange, ~viaT)
    /\ words # <<>> => Complete(EventsOf(words), o, viaJ)
    /\ \A i \in DOMAIN words : Real(BinToEv(words[i])) => InCounts(BinToEv(words[i]), header)

AllReal(words) == \A i \in DOMAIN words : Real(BinToEv(words[i]))

LEMMA EventsOfFacts ==
    ASSUME NEW words \in Seq(Nat)
    PROVE  /\ DOMAIN words = 1..Len(words) /\ Len(words) \in Nat
           /\ EventsOf(words) \in Seq(Item)
           /\ DOMAIN EventsOf(words) = 1..Len(words) /\ Len(EventsOf(words)) = Len(words)
           /\ \A i \in 1..Len(words) :
                 /\ words[i] \in Nat /\ EventsOf(words)[i] = BinToEv(words[i])
                 /\ BinToEv(words[i]) \in Item /\ BinToEv(words[i]).loc \in Nat
                 /\ BinToEv(words[i]).type = ExtractEvType(words[i])
                 /\ Real(BinToEv(words[i])) <=> ExtractEvType(words[i]) # NoType
<1>1. DOMAIN words = 1..Len(words) /\ Len(words) \in Nat /\ \A i \in 1..Len(words) : words[i] \in Nat
  BY LenProperties, ElementOfSeq
<1>2. \A w \in Nat : /\ BinToEv(w) \in Item /\ BinToEv(w).loc \in Nat
                     /\ BinToEv(w).type = ExtractEvType(w)
  BY WordType DEF Item
<1>3. \A x \in Nat : x # NoNumber
  BY DEF NoNumber
<1>4. EventsOf(words) = [i \in 1..Len(words) |-> BinToEv(words[i])]
  BY <1>1 DEF EventsOf
<1>5. EventsOf(words) \in [1..Len(words) -> Item]
  BY <1>1, <1>2, <1>4
<1>6. EventsOf(words) \in Seq(Item) /\ Len(EventsOf(words)) = Len(words)
  BY <1>1, <1>5
<1> QED
  BY <1>1, <1>2, <1>3, <1>4, <1>5, <1>6 DEF Real

\* A thread has the same name with or without its "T".
LEMMA PrefixedFacts ==
    ASSUME NEW x \in Item
    PROVE  /\ Prefixed(x) \in Item /\ Prefixed(x).type = x.type /\ Prefixed(x).loc = x.loc
           /\ (x.type \in ThreadTypes => x.target \in Nat) =>
                 Prefixed(x) = x /\ Bare(x) \in Item /\ Prefixed(Bare(x)) = x
<1> DEFINE y == Respelled(x.target)
           z == [x EXCEPT !.target = y]
<1>1. /\ x = [tid |-> x.tid, type |-> x.type, target |-> x.target, loc |-> x.loc]
      /\ x.tid \in Int /\ x.type \in AllTypes \cup {NoType} /\ x.target \in Int /\ x.loc \in Int
  BY DEF Item
<1>2. y \in Int /\ Respelled(y) = x.target /\ (x.target \in Nat => y < 0)
  BY <1>1 DEF Respelled
<1>3. /\ Prefixed(x) = IF x.type \in ThreadTypes /\ x.target < 0 THEN z ELSE x
      /\ Bare(x) = IF x.type \in ThreadTypes THEN z ELSE x
  BY DEF Prefixed, Bare
<1> HIDE DEF y
<1>4. /\ z = [tid |-> x.tid, type |-> x.type, target |-> y, loc |-> x.loc]
      /\ z \in Item /\ z.type = x.type /\ z.loc = x.loc /\ z.target = y
  BY <1>1, <1>2 DEF Item
<1>5. [z EXCEPT !.target = Respelled(y)] = x
  BY <1>1, <1>2, <1>4
<1>6. x.type \in ThreadTypes /\ x.target \in Nat => Prefixed(z) = x /\ Prefixed(x) = x
  <2> SUFFICES ASSUME x.type \in ThreadTypes, x.target \in Nat
               PROVE  Prefixed(z) = x /\ Prefixed(x) = x
    OBVIOUS
  <2>1. z.type \in ThreadTypes /\ z.target < 0 /\ ~(x.target < 0)
    BY <1>2, <1>4
  <2>2. Prefixed(z) = [z EXCEPT !.target = Respelled(y)]
    BY <1>4, <2>1 DEF Prefixed
  <2> QED
    BY <1>3, <1>5, <2>1, <2>2
<1> HIDE DEF z
<1> QED
  BY <1>3, <1>4, <1>6

LEMMA UnderstoodFacts ==
    ASSUME NEW lines \in Seq(Item)
    PROVE  /\ Understood(lines) \in Seq(Item) /\ Len(Understood(lines)) = Len(lines)
           /\ DOMAIN lines = 1..Len(lines) /\ Len(lines) \in Nat
           /\ \A i \in 1..Len(lines) : lines[i] \in Item /\ Understood(lines)[i] = Prefixed(lines[i])
<1>1. DOMAIN lines = 1..Len(lines) /\ Len(lines) \in Nat /\ \A i \in 1..Len(lines) : lines[i] \in Item
  BY LenProperties, ElementOfSeq
<1>2. Understood(lines) = [i \in 1..Len(lines) |-> Prefixed(lines[i])]
  BY <1>1 DEF Understood
<1>3. Understood(lines) \in [1..Len(lines) -> Item]
  BY <1>1, <1>2, PrefixedFacts
<1>4. Understood(lines) \in Seq(Item) /\ Len(Understood(lines)) = Len(lines)
  BY <1>1, <1>3
<1> QED
  BY <1>1, <1>2, <1>4

\* Lines whose threads all have their "T" are understood as they are.
LEMMA UnderstoodAsWritten ==
    ASSUME NEW lines \in Seq(Item),
           \A i \in DOMAIN lines : lines[i].type \in ThreadTypes => lines[i].target \in Nat
    PROVE  Understood(lines) = lines
<1>1. \A i \in DOMAIN lines : Prefixed(lines[i]) = lines[i]
  BY UnderstoodFacts, PrefixedFacts
<1>2. lines = [i \in DOMAIN lines |-> lines[i]]
  OBVIOUS
<1> QED
  BY <1>1, <1>2 DEF Understood

\* The same things are about the same things.
LEMMA AlikeSelf ==
    ASSUME NEW x, NEW y, NEW text, NEW fit, NEW paired
    PROVE  Alike(x, y, text, x, y, text, fit, paired)
  BY DEF Alike

WithCount(header, words) == [header EXCEPT !.events = Len(words)]

\* A file of some words of another is as good, if what is left out is excused.
LEMMA KeepWords ==
    ASSUME NEW words, NEW header, NEW o, NEW n \in Nat, NEW viaT \in BOOLEAN, NEW viaJ \in BOOLEAN,
           WordsOK(words, header, o, n, viaT, viaJ),
           NEW isChosen, \A i \in 1..Len(words) : isChosen[i] \in BOOLEAN,
           NEW newViaJ \in BOOLEAN, viaJ => newViaJ,
           \A i \in 1..Len(words) : ~isChosen[i] =>
              ~Real(BinToEv(words[i])) \/ Excused(BinToEv(words[i]).type, newViaJ),
           NEW w, w = Chosen(words, isChosen)
    PROVE  /\ WordsOK(w, WithCount(header, w), o, n, viaT, newViaJ)
           /\ (\A i \in 1..Len(words) : isChosen[i] => Real(BinToEv(words[i]))) => AllReal(w)
<1> DEFINE s == EventsOf(words)
           r == EventsOf(w)
           h == [header EXCEPT !.events = Len(w)]
<1>1. words \in Seq(Nat) /\ header \in Header /\ header.threads <= n
  BY DEF WordsOK
<1>2. /\ DOMAIN words = 1..Len(words) /\ DOMAIN s = 1..Len(words) /\ Len(words) \in Nat
      /\ \A i \in 1..Len(words) : s[i] = BinToEv(words[i])
  BY <1>1, EventsOfFacts
<1>3. w \in Seq(Nat)
  BY <1>1, ChosenFacts
<1>4. PICK f : Picks(f, w, words, isChosen, Len(words))
  BY <1>1, ChosenFacts
<1>5. /\ DOMAIN w = 1..Len(w) /\ DOMAIN r = 1..Len(w) /\ Len(w) \in Nat
      /\ \A i \in 1..Len(w) : r[i] = BinToEv(w[i])
  BY <1>3, EventsOfFacts
<1>6. \A j \in 1..Len(w) : f[j] \in 1..Len(words) /\ isChosen[f[j]] /\ r[j] = s[f[j]] /\ w[j] = words[f[j]]
  BY <1>2, <1>4, <1>5 DEF Picks
<1> HIDE DEF s, r
<1>7. Follows(r, s, f)
  BY <1>2, <1>4, <1>5, <1>6 DEF Follows, Picks
<1>8. Faithful(s, o, FALSE, n <= ThreadRange, ~viaT)
  BY DEF WordsOK, s
<1>9. Faithful(r, o, FALSE, n <= ThreadRange, ~viaT)
  <2>1. \A i, j \in DOMAIN r :
           Alike(r[i], r[j], FALSE, s[f[i]], s[f[j]], FALSE, n <= ThreadRange, ~viaT)
    BY <1>5, <1>6, AlikeSelf
  <2> QED
    BY <1>7, <1>8, <2>1, FollowsFaithful, ZenonT(40)
<1>10. w # <<>> => Complete(r, o, newViaJ)
  <2> SUFFICES ASSUME w # <<>>
               PROVE  Complete(r, o, newViaJ)
    OBVIOUS
  <2>1. words # <<>>
    <3>1. 1 \in 1..Len(w)
      BY <1>3, <1>5, EmptySeq
    <3>2. f[1] \in 1..Len(words)
      BY <1>6, <3>1
    <3> QED
      BY <1>2, <3>2
  <2>2. Complete(s, o, viaJ)
    BY <2>1 DEF WordsOK, s
  <2>3. \A i \in DOMAIN s : Real(s[i]) => s[i].loc \in DOMAIN o /\ s[i].type = o[s[i].loc].type
    BY <1>8 DEF Faithful
  <2>4. ASSUME NEW i \in DOMAIN s, Real(s[i])
        PROVE  (\E j \in DOMAIN r : Real(r[j]) /\ f[j] = i) \/ Excused(s[i].type, newViaJ)
    <3>1. CASE isChosen[i]
      <4>1. PICK j \in 1..Len(w) : f[j] = i
        BY <1>2, <1>4, <3>1 DEF Picks
      <4>2. Real(r[j])
        BY <1>6, <2>4, <4>1
      <4> QED
        BY <1>5, <4>1, <4>2
    <3>2. CASE ~isChosen[i]
      BY <1>2, <2>4, <3>2
    <3> QED
      BY <3>1, <3>2
  <2> QED
    BY <1>7, <2>2, <2>3, <2>4, FollowsComplete
<1>11. h \in Header /\ h.events = Len(w) /\ h.threads <= n
       /\ h.threads = header.threads /\ h.locks = header.locks /\ h.vars = header.vars
  BY <1>1, <1>5 DEF Header
<1> HIDE DEF h
<1>12. \A i \in DOMAIN w : Real(BinToEv(w[i])) => InCounts(BinToEv(w[i]), h)
  <2>1. \A i \in DOMAIN words : Real(BinToEv(words[i])) => InCounts(BinToEv(words[i]), header)
    BY DEF WordsOK
  <2>2. \A i \in DOMAIN w : Real(BinToEv(w[i])) => InCounts(BinToEv(w[i]), header)
    BY <1>2, <1>5, <1>6, <2>1
  <2>3. \A x : InCounts(x, header) => InCounts(x, h)
    BY <1>11 DEF InCounts
  <2> QED
    BY <2>2, <2>3
<1>13. WordsOK(w, h, o, n, viaT, newViaJ)
  BY <1>3, <1>9, <1>10, <1>11, <1>12 DEF WordsOK, r
<1>14. (\A i \in 1..Len(words) : isChosen[i] => Real(BinToEv(words[i]))) => AllReal(w)
  BY <1>5, <1>6 DEF AllReal
<1> QED
  BY <1>13, <1>14 DEF h, WithCount

\* With the count of the header right, a file is read as it was written.
LEMMA ReadWordsFacts ==
    ASSUME NEW f, f.words \in Seq(Nat), f.header.events = Len(f.words)
    PROVE  ReadWords(f) = f.words
<1> DEFINE w == f.words
<1>1. DOMAIN w = 1..Len(w) /\ Len(w) \in Nat
  BY LenProperties
<1>2. ReadWords(f) = [i \in 1..Len(w) |-> w[i]]
  BY <1>1 DEF ReadWords
<1>3. w = [i \in 1..Len(w) |-> w[i]]
  BY <1>1
<1> QED
  BY <1>2, <1>3

-----------------------------------------------------------------------------
(* The conversions of words.                                               *)

FileOK(f, o, n, viaT, viaJ) ==
    \/ f.enc = "none"
    \/ f.enc = "std" /\ f.lines \in Seq(Item) /\ TextOK(Understood(f.lines), o, n, viaT, viaJ)
    \/ /\ f.enc \in {"local", "java"}
       /\ WordsOK(f.words, f.header, o, n, viaT, viaJ)
       /\ f.enc = "local" => AllReal(f.words)

LEMMA JavaToLocalKeeps ==
    ASSUME NEW o, NEW n \in Nat, NEW viaT \in BOOLEAN, NEW viaJ \in BOOLEAN,
           FileOK(file, o, n, viaT, viaJ), JavaToLocal
    PROVE  FileOK(file', o, n, viaT, viaJ) /\ file'.enc = "local"
<1> DEFINE words == file.words
           isChosen == [i \in DOMAIN words |->
                           ExtractEvType(words[i]) \notin UnusedTypes \cup {NoType}]
           w == Chosen(words, isChosen)
           h == [file.header EXCEPT !.events = Len(w)]
<1>1. WordsOK(words, file.header, o, n, viaT, viaJ)
  BY DEF FileOK, JavaToLocal
<1>2. words \in Seq(Nat) /\ file.header.events = Len(words)
  BY <1>1 DEF WordsOK
<1>3. ReadWords(file) = words
  BY <1>2, ReadWordsFacts
<1>4. file' = BinFile("local", h, w)
  BY <1>3 DEF JavaToLocal, WithEvents
<1>5. DOMAIN words = 1..Len(words)
  BY <1>2, EventsOfFacts
<1>6. \A i \in 1..Len(words) :
         /\ isChosen[i] \in BOOLEAN
         /\ isChosen[i] <=> ExtractEvType(words[i]) \notin UnusedTypes \cup {NoType}
         /\ BinToEv(words[i]).type = ExtractEvType(words[i])
         /\ Real(BinToEv(words[i])) <=> ExtractEvType(words[i]) # NoType
  BY <1>2, <1>5, EventsOfFacts
<1> HIDE DEF words, isChosen, w, h
<1>7. \A i \in 1..Len(words) : ~isChosen[i] =>
         ~Real(BinToEv(words[i])) \/ Excused(BinToEv(words[i]).type, viaJ)
  BY <1>6 DEF Excused
<1>8. w = Chosen(words, isChosen) /\ \A i \in 1..Len(words) : isChosen[i] \in BOOLEAN
  BY <1>6 DEF w
<1>9. WordsOK(w, WithCount(file.header, w), o, n, viaT, viaJ) /\ AllReal(w)
  <2>1. \A i \in 1..Len(words) : isChosen[i] => Real(BinToEv(words[i]))
    BY <1>6
  <2>2. /\ WordsOK(w, WithCount(file.header, w), o, n, viaT, viaJ)
        /\ (\A i \in 1..Len(words) : isChosen[i] => Real(BinToEv(words[i]))) => AllReal(w)
    BY <1>1, <1>7, <1>8, KeepWords
  <2> QED
    BY <2>1, <2>2
<1>10. WordsOK(w, h, o, n, viaT, viaJ)
  BY <1>9 DEF h, WithCount
<1> QED
  BY <1>4, <1>9, <1>10 DEF FileOK, BinFile

LEMMA SpdTypes ==
    ASSUME NEW t \in AllTypes, ~IsSpdType(t)
    PROVE  t \in CondVarTypes
<1>1. DOMAIN EventNames = 1..13
  BY DEF EventNames
<1> DEFINE i == CHOOSE k \in DOMAIN EventNames : EventNames[k] = t
           j == CHOOSE k \in DOMAIN EventNames : EventNames[k] = "BRANCH"
<1>2. i \in 1..13 /\ EventNames[i] = t
  BY <1>1 DEF AllTypes
<1>3. j \in 1..13 /\ EventNames[j] = "BRANCH"
  <2>1. EventNames[10] = "BRANCH" /\ 10 \in 1..13
    BY DEF EventNames
  <2> QED
    BY <1>1, <2>1
<1>4. ValueOf(t) = i - 1 /\ ValueOf("BRANCH") = j - 1
  BY DEF ValueOf
<1> HIDE DEF i, j
<1>5. j = 10
  BY <1>3 DEF EventNames
<1>6. t # NoType
  BY TypeValues
<1>7. i \in 11..13
  BY <1>2, <1>4, <1>5, <1>6 DEF IsSpdType
<1>8. t \in {EventNames[11], EventNames[12], EventNames[13]}
  BY <1>2, <1>7
<1> QED
  BY <1>8 DEF EventNames, CondVarTypes, NotifTypes

LEMMA LocalToJavaKeeps ==
    ASSUME NEW o, NEW n \in Nat, NEW viaT \in BOOLEAN, NEW viaJ \in BOOLEAN,
           FileOK(file, o, n, viaT, viaJ), LocalToJava
    PROVE  FileOK(file', o, n, viaT, TRUE) /\ file'.enc = "java"
<1> DEFINE words == file.words
           isChosen == [i \in DOMAIN words |-> IsSpdType(ExtractEvType(words[i]))]
           w == Chosen(words, isChosen)
           h == [file.header EXCEPT !.events = Len(w)]
<1>1. WordsOK(words, file.header, o, n, viaT, viaJ)
  BY DEF FileOK, LocalToJava
<1>2. words \in Seq(Nat) /\ file.header.events = Len(words)
  BY <1>1 DEF WordsOK
<1>3. ReadWords(file) = words
  BY <1>2, ReadWordsFacts
<1>4. file' = BinFile("java", h, w)
  BY <1>3 DEF LocalToJava, WithEvents
<1>5. DOMAIN words = 1..Len(words)
  BY <1>2, EventsOfFacts
<1>6. \A i \in 1..Len(words) :
         /\ isChosen[i] \in BOOLEAN
         /\ isChosen[i] <=> IsSpdType(ExtractEvType(words[i]))
         /\ BinToEv(words[i]).type = ExtractEvType(words[i])
         /\ BinToEv(words[i]) \in Item
         /\ Real(BinToEv(words[i])) <=> ExtractEvType(words[i]) # NoType
  BY <1>2, <1>5, EventsOfFacts DEF IsSpdType
<1> HIDE DEF words, isChosen, w, h
<1>7. ASSUME NEW i \in 1..Len(words), ~isChosen[i]
      PROVE  ~Real(BinToEv(words[i])) \/ Excused(BinToEv(words[i]).type, TRUE)
  <2>1. CASE ExtractEvType(words[i]) = NoType
    BY <1>6, <2>1
  <2>2. CASE ExtractEvType(words[i]) # NoType
    <3>1. ExtractEvType(words[i]) \in AllTypes
      BY <1>6, <2>2 DEF Item
    <3>2. ExtractEvType(words[i]) \in CondVarTypes
      BY <1>6, <1>7, <3>1, SpdTypes
    <3> QED
      BY <1>6, <3>2 DEF Excused
  <2> QED
    BY <2>1, <2>2
<1>8. w = Chosen(words, isChosen)
  BY DEF w
<1>9. WordsOK(w, WithCount(file.header, w), o, n, viaT, TRUE)
  BY <1>1, <1>6, <1>7, <1>8, KeepWords, ZenonT(40)
<1>10. WordsOK(w, h, o, n, viaT, TRUE)
  BY <1>9 DEF h, WithCount
<1> QED
  BY <1>4, <1>10 DEF FileOK, BinFile

LEMMA LocalToStdKeeps ==
    ASSUME NEW o, NEW n \in Nat, NEW viaT \in BOOLEAN, NEW viaJ \in BOOLEAN,
           FileOK(file, o, n, viaT, viaJ), LocalToStd
    PROVE  FileOK(file', o, n, TRUE, viaJ) /\ file'.enc = "std"
<1> DEFINE words == file.words
           s == EventsOf(words)
           isChosen == [i \in DOMAIN words |-> s[i].type # NoType]
           lines == Chosen(s, isChosen)
<1>1. WordsOK(words, file.header, o, n, viaT, viaJ) /\ AllReal(words)
  BY DEF FileOK, LocalToStd
<1>2. /\ words \in Seq(Nat) /\ file.header.events = Len(words)
      /\ file.header \in Header /\ file.header.threads <= n
  BY <1>1 DEF WordsOK
<1>3. ReadWords(file) = words
  BY <1>2, ReadWordsFacts
<1>4. file' = TextFile(lines)
  BY <1>3 DEF LocalToStd, EventsOf
<1>5. /\ DOMAIN words = 1..Len(words) /\ DOMAIN s = 1..Len(words) /\ Len(s) = Len(words)
      /\ s \in Seq(Item) /\ Len(words) \in Nat
      /\ \A i \in 1..Len(words) : s[i] = BinToEv(words[i]) /\ Real(s[i])
  BY <1>1, <1>2, EventsOfFacts DEF AllReal
<1>6. \A i \in 1..Len(s) : isChosen[i] \in BOOLEAN /\ isChosen[i]
  BY <1>5 DEF Real
<1> HIDE DEF words, s, isChosen
<1>7. lines \in Seq(Item)
  BY <1>5, <1>6, ChosenFacts
<1>8. PICK f : Picks(f, lines, s, isChosen, Len(s))
  BY <1>5, <1>6, ChosenFacts
<1> HIDE DEF lines
<1>9. DOMAIN lines = 1..Len(lines) /\ Len(lines) \in Nat
  BY <1>7, LenProperties
<1>10. \A j \in 1..Len(lines) : f[j] \in 1..Len(words) /\ lines[j] = s[f[j]]
  BY <1>5, <1>8 DEF Picks
<1>11. Follows(lines, s, f)
  BY <1>5, <1>8, <1>9, <1>10 DEF Follows, Picks
<1>12. Faithful(s, o, FALSE, n <= ThreadRange, ~viaT)
  BY <1>1 DEF WordsOK, s
<1>13. Faithful(lines, o, TRUE, n <= ThreadRange, FALSE)
  <2>1. \A i, j \in DOMAIN lines :
           Alike(lines[i], lines[j], TRUE, s[f[i]], s[f[j]], FALSE, n <= ThreadRange, FALSE)
    BY <1>9, <1>10 DEF Alike
  <2> QED
    BY <1>11, <1>12, <2>1, FollowsFaithful
<1>14. lines # <<>> => Complete(lines, o, viaJ)
  <2> SUFFICES ASSUME lines # <<>>
               PROVE  Complete(lines, o, viaJ)
    OBVIOUS
  <2>1. words # <<>>
    <3>1. 1 \in 1..Len(lines)
      BY <1>7, <1>9, EmptySeq
    <3>2. f[1] \in 1..Len(words)
      BY <1>10, <3>1
    <3> QED
      BY <3>2
  <2>2. Complete(s, o, viaJ)
    BY <1>1, <2>1 DEF WordsOK, s
  <2>3. \A i \in DOMAIN s : Real(s[i]) => s[i].loc \in DOMAIN o /\ s[i].type = o[s[i].loc].type
    BY <1>12 DEF Faithful
  <2>4. \A i \in DOMAIN s : \E j \in DOMAIN lines : Real(lines[j]) /\ f[j] = i
    BY <1>5, <1>6, <1>8, <1>9, <1>10 DEF Picks
  <2> QED
    BY <1>11, <2>2, <2>3, <2>4, FollowsComplete
<1>15. \A i \in DOMAIN lines : NamesFrom(0, n, lines[i])
  <2> TAKE i \in DOMAIN lines
  <2>1. f[i] \in 1..Len(words) /\ lines[i] = s[f[i]] /\ Real(s[f[i]])
    BY <1>5, <1>9, <1>10
  <2>2. InCounts(lines[i], file.header)
    BY <1>1, <1>5, <2>1 DEF WordsOK
  <2>3. file.header.threads \in Nat
    BY <1>2 DEF Header
  <2>4. \A x \in 0..(file.header.threads - 1) : x \in 0..(0 + n - 1)
    BY <1>2, <2>3
  <2> QED
    BY <2>2, <2>4 DEF InCounts, NamesFrom
<1>16. TextOK(lines, o, n, TRUE, viaJ)
  BY <1>7, <1>13, <1>14, <1>15, 0 \in Int DEF TextOK
<1>17. Understood(lines) = lines
  <2>1. ASSUME NEW i \in DOMAIN lines, lines[i].type \in ThreadTypes
        PROVE  lines[i].target \in Nat
    <3>1. lines[i].target \in 0..(0 + n - 1)
      BY <1>15, <2>1 DEF NamesFrom
    <3> QED
      BY <3>1
  <2> QED
    BY <1>7, <2>1, UnderstoodAsWritten
<1> QED
  BY <1>4, <1>7, <1>16, <1>17 DEF FileOK, TextFile

-----------------------------------------------------------------------------
(* The text parser's maps of names.                                        *)

Distinct(map) == \A i, j \in 1..Len(map) : map[i] = map[j] => i = j
NameMap == {map \in Seq(Int) : Distinct(map)}

\* An identifier is the index of its name, less one.
LEMMA IdFacts ==
    ASSUME NEW map \in NameMap, NEW i \in 1..Len(map)
    PROVE  IdOf(map, map[i]) = i - 1
<1> DEFINE I == {k \in 1..Len(map) : map[k] = map[i]}
<1>1. IdOf(map, map[i]) = (IF I # {} THEN Min(I) ELSE 0) - 1
  BY DEF IdOf, SelectInSeq
<1>2. I = {i}
  BY DEF NameMap, Distinct
<1>3. Min({i}) = i
  <2>1. \E x \in {i} : \A y \in {i} : x <= y
    OBVIOUS
  <2> QED
    BY <2>1 DEF Min
<1> QED
  BY <1>1, <1>2, <1>3

LEMMA KnownIds ==
    ASSUME NEW map \in NameMap
    PROVE  /\ \A x : Contains(map, x) => IdOf(map, x) \in 0..(Len(map) - 1)
           /\ \A x, y : Contains(map, x) /\ Contains(map, y) =>
                 (IdOf(map, x) = IdOf(map, y) <=> x = y)
<1>1. Len(map) \in Nat
  BY LenProperties DEF NameMap
<1>2. \A x : Contains(map, x) =>
         \E i \in 1..Len(map) : map[i] = x /\ IdOf(map, x) = i - 1
  <2> SUFFICES ASSUME NEW x, Contains(map, x)
               PROVE  \E i \in 1..Len(map) : map[i] = x /\ IdOf(map, x) = i - 1
    OBVIOUS
  <2>1. PICK i \in 1..Len(map) : map[i] = x
    BY DEF Contains
  <2>2. IdOf(map, map[i]) = i - 1
    BY IdFacts
  <2> QED
    BY <2>1, <2>2
<1> QED
  BY <1>1, <1>2

\* A map that grew keeps the identifiers of its names.
Grows(map, larger) ==
    /\ larger \in NameMap
    /\ \A x : Contains(map, x) => Contains(larger, x) /\ IdOf(larger, x) = IdOf(map, x)

LEMMA WithNameFacts ==
    ASSUME NEW map \in NameMap, NEW name \in Int
    PROVE  /\ Grows(map, WithName(map, name)) /\ Contains(WithName(map, name), name)
           /\ Len(WithName(map, name)) <= Len(map) + 1
           /\ \A x : Contains(WithName(map, name), x) => Contains(map, x) \/ x = name
<1>1. map \in Seq(Int) /\ Distinct(map) /\ Len(map) \in Nat
  BY LenProperties DEF NameMap
<1>2. CASE Contains(map, name)
  BY <1>1, <1>2 DEF WithName, Grows
<1>3. CASE ~Contains(map, name)
  <2> DEFINE m == Append(map, name)
             k == Len(map) + 1
  <2>1. /\ m \in Seq(Int) /\ Len(m) = k /\ m[k] = name
        /\ \A i \in 1..Len(map) : m[i] = map[i]
    BY <1>1, AppendProperties
  <2>2. WithName(map, name) = m
    BY <1>3 DEF WithName
  <2> HIDE DEF m
  <2>3. \A i \in 1..k : i \in 1..Len(map) \/ i = k
    BY <1>1
  <2>4. Distinct(m)
    <3>1. \A i \in 1..Len(map) : m[i] # name
      BY <1>3, <2>1 DEF Contains
    <3> QED
      BY <1>1, <2>1, <2>3, <3>1 DEF Distinct
  <2>5. m \in NameMap
    BY <2>1, <2>4 DEF NameMap
  <2>6. ASSUME NEW x, Contains(map, x)
        PROVE  Contains(m, x) /\ IdOf(m, x) = IdOf(map, x)
    <3>1. PICK i \in 1..Len(map) : map[i] = x
      BY <2>6 DEF Contains
    <3>2. i \in 1..Len(m) /\ m[i] = x
      BY <1>1, <2>1, <3>1
    <3>3. IdOf(m, m[i]) = i - 1
      BY <2>5, <3>2, IdFacts
    <3>4. IdOf(map, map[i]) = i - 1
      BY IdFacts
    <3> QED
      BY <3>1, <3>2, <3>3, <3>4 DEF Contains
  <2>7. \A x : Contains(m, x) => Contains(map, x) \/ x = name
    BY <2>1, <2>3 DEF Contains
  <2>8. Contains(m, name)
    <3>1. k \in 1..Len(m)
      BY <1>1, <2>1
    <3> QED
      BY <2>1, <3>1 DEF Contains
  <2>9. Grows(map, m)
    BY <1>1, <2>1, <2>5, <2>6 DEF Grows
  <2> QED
    BY <1>1, <2>1, <2>2, <2>7, <2>8, <2>9
<1> QED
  BY <1>2, <1>3

LEMMA SameGrows ==
    ASSUME NEW map \in NameMap
    PROVE  Grows(map, map)
  BY DEF Grows

LEMMA GrowsTwice ==
    ASSUME NEW map, NEW larger, NEW largest, Grows(map, larger), Grows(larger, largest)
    PROVE  Grows(map, largest)
  BY DEF Grows

\* A map whose names are among n numbers has at most n names.
LEMMA FewNames ==
    ASSUME NEW map \in NameMap, NEW a \in Int, NEW n \in Nat,
           \A i \in 1..Len(map) : map[i] \in a..(a + n - 1)
    PROVE  Len(map) <= n
<1> DEFINE S == 1..Len(map)
           T == a..(a + n - 1)
<1>1. Len(map) \in Nat /\ DOMAIN map = S
  BY LenProperties DEF NameMap
<1>2. IsFiniteSet(S) /\ Cardinality(S) = Len(map)
  <2>1. IsFiniteSet(S) /\ Cardinality(S) = IF 1 > Len(map) THEN 0 ELSE Len(map) - 1 + 1
    BY <1>1, FS_Interval
  <2> QED
    BY <1>1, <2>1
<1>3. IsFiniteSet(T) /\ Cardinality(T) = n
  <2> DEFINE b == a + n - 1
  <2>1. b \in Int
    OBVIOUS
  <2> HIDE DEF b
  <2>2. IsFiniteSet(a..b) /\ Cardinality(a..b) = IF a > b THEN 0 ELSE b - a + 1
    BY <2>1, FS_Interval
  <2> QED
    BY <2>2 DEF b
<1>4. map \in [S -> T]
  BY <1>1 DEF NameMap
<1>5. ASSUME n < Len(map)
      PROVE  FALSE
  <2> HIDE DEF S, T
  <2>1. PICK x \in S, y \in S : x # y /\ map[x] = map[y]
    BY <1>2, <1>3, <1>4, <1>5, FS_PigeonHole
  <2> QED
    BY <2>1 DEF NameMap, Distinct, S
<1> QED
  BY <1>1, <1>5

-----------------------------------------------------------------------------
(* The text parser, line by line.                                          *)

TextParser ==
    [threads : NameMap, locks : NameMap, vars : NameMap, lineIndex : Nat, words : Seq(Nat),
     failed : BOOLEAN]

\* The names of a line have identifiers, and those make its event.
Known(p, line) ==
    /\ Contains(p.threads, line.tid)
    /\ line.type \in ThreadTypes => Contains(p.threads, line.target)
    /\ line.type \in LockTypes \cup CondVarTypes => Contains(p.locks, line.target)
    /\ line.type \in AccessTypes => Contains(p.vars, line.target)

TargetOf(p, line) ==
    CASE line.type \in ThreadTypes -> IdOf(p.threads, line.target)
      [] line.type \in LockTypes -> IdOf(p.locks, line.target)
      [] line.type \in CondVarTypes -> AssSyncObj(IdOf(p.locks, line.target))
      [] OTHER -> IdOf(p.vars, line.target)

EventFor(p, line) ==
    [tid |-> IdOf(p.threads, line.tid), type |-> line.type, loc |-> line.loc,
     target |-> TargetOf(p, line)]

LEMMA TypesApart ==
    /\ ThreadTypes \cap LockTypes = {} /\ ThreadTypes \cap CondVarTypes = {}
    /\ ThreadTypes \cap AccessTypes = {} /\ LockTypes \cap CondVarTypes = {}
    /\ LockTypes \cap AccessTypes = {} /\ CondVarTypes \cap AccessTypes = {}
    /\ AllTypes = ThreadTypes \cup LockTypes \cup CondVarTypes \cup AccessTypes \cup UnusedTypes
    /\ UnusedTypes \cap (ThreadTypes \cup LockTypes \cup CondVarTypes \cup AccessTypes) = {}
    /\ StdTypes = AllTypes \ UnusedTypes /\ NoType \notin AllTypes
    /\ NotifTypes \subseteq CondVarTypes /\ "LK" \in LockTypes
<1>1. DOMAIN EventNames = 1..13
  BY DEF EventNames
<1>2. AllTypes = {EventNames[1], EventNames[2], EventNames[3], EventNames[4], EventNames[5],
                  EventNames[6], EventNames[7], EventNames[8], EventNames[9], EventNames[10],
                  EventNames[11], EventNames[12], EventNames[13]}
  <2>1. \A i \in 1..13 : i \in {1, 2, 3, 4, 5, 6, 7, 8, 9, 10, 11, 12, 13}
    OBVIOUS
  <2> QED
    BY <1>1, <2>1 DEF AllTypes
<1>3. AllTypes = {"LK", "UK", "RD", "WR", "FORK", "JOIN", "BEGIN", "END", "REQ",
                  "BRANCH", "WAIT", "NOTIFY", "NOTIFYALL"}
  BY <1>2 DEF EventNames
<1>4. StdTypes = AllTypes \ UnusedTypes
  BY DEF StdTypes, AllTypes
<1> QED
  BY <1>3, <1>4 DEF ThreadTypes, LockTypes, CondVarTypes, AccessTypes, UnusedTypes, NotifTypes, NoType

\* A larger parser gives a known line the same event.
ParserGrows(p, q) == Grows(p.threads, q.threads) /\ Grows(p.locks, q.locks) /\ Grows(p.vars, q.vars)

LEMMA EventForStays ==
    ASSUME NEW p, NEW q, ParserGrows(p, q), NEW line, Known(p, line), line.type \in StdTypes
    PROVE  Known(q, line) /\ EventFor(q, line) = EventFor(p, line)
<1>1. Known(q, line)
  BY DEF Known, ParserGrows, Grows
<1>2. IdOf(q.threads, line.tid) = IdOf(p.threads, line.tid)
  BY DEF Known, ParserGrows, Grows
<1>3. TargetOf(q, line) = TargetOf(p, line)
  <2>1. line.type \in ThreadTypes \cup LockTypes \cup CondVarTypes \cup AccessTypes
    BY TypesApart
  <2>2. /\ line.type \in ThreadTypes => IdOf(q.threads, line.target) = IdOf(p.threads, line.target)
        /\ line.type \in LockTypes \cup CondVarTypes =>
              IdOf(q.locks, line.target) = IdOf(p.locks, line.target)
        /\ line.type \in AccessTypes => IdOf(q.vars, line.target) = IdOf(p.vars, line.target)
    BY DEF Known, ParserGrows, Grows
  <2> QED
    BY <2>1, <2>2, TypesApart DEF TargetOf
<1> QED
  BY <1>1, <1>2, <1>3 DEF EventFor

LEMMA FromStdFacts ==
    ASSUME NEW p \in TextParser, NEW line \in Item, line.type \in StdTypes,
           NEW q, q = FromStd(p, line).parser
    PROVE  /\ q \in TextParser /\ ParserGrows(p, q) /\ Known(q, line)
           /\ FromStd(p, line).event = EventFor(q, line)
           /\ q.words = p.words /\ q.lineIndex = p.lineIndex /\ q.failed = p.failed
           /\ Len(q.locks) <= Len(p.locks) + 1 /\ Len(q.vars) <= Len(p.vars) + 1
           /\ \A x : Contains(q.threads, x) =>
                 Contains(p.threads, x) \/ x = line.tid \/ (line.type \in ThreadTypes /\ x = line.target)
<1> DEFINE t1 == WithName(p.threads, line.tid)
           t2 == IF line.type \in ThreadTypes THEN WithName(t1, line.target) ELSE t1
           l2 == IF line.type \in LockTypes \cup CondVarTypes
                 THEN WithName(p.locks, line.target) ELSE p.locks
           v2 == IF line.type \in AccessTypes THEN WithName(p.vars, line.target) ELSE p.vars
<1>1. /\ p = [threads |-> p.threads, locks |-> p.locks, vars |-> p.vars,
              lineIndex |-> p.lineIndex, words |-> p.words, failed |-> p.failed]
      /\ p.threads \in NameMap /\ p.locks \in NameMap /\ p.vars \in NameMap
      /\ p.lineIndex \in Nat /\ p.words \in Seq(Nat) /\ p.failed \in BOOLEAN
      /\ line.tid \in Int /\ line.target \in Int
  BY DEF TextParser, Item
<1>2. /\ Grows(p.threads, t1) /\ Contains(t1, line.tid) /\ t1 \in NameMap
      /\ \A x : Contains(t1, x) => Contains(p.threads, x) \/ x = line.tid
  <2>1. /\ Grows(p.threads, t1) /\ Contains(t1, line.tid)
        /\ \A x : Contains(t1, x) => Contains(p.threads, x) \/ x = line.tid
    BY <1>1, WithNameFacts
  <2> QED
    BY <2>1 DEF Grows
<1> HIDE DEF t1
<1>3. /\ Grows(t1, t2) /\ (line.type \in ThreadTypes => Contains(t2, line.target))
      /\ \A x : Contains(t2, x) => Contains(t1, x) \/ (line.type \in ThreadTypes /\ x = line.target)
  <2>1. CASE line.type \in ThreadTypes
    <3>1. /\ Grows(t1, WithName(t1, line.target)) /\ Contains(WithName(t1, line.target), line.target)
          /\ \A x : Contains(WithName(t1, line.target), x) => Contains(t1, x) \/ x = line.target
      BY <1>1, <1>2, WithNameFacts
    <3> QED
      BY <2>1, <3>1
  <2>2. CASE line.type \notin ThreadTypes
    BY <1>2, <2>2, SameGrows
  <2> QED
    BY <2>1, <2>2
<1>4. /\ Grows(p.locks, l2) /\ Len(l2) <= Len(p.locks) + 1
      /\ line.type \in LockTypes \cup CondVarTypes => Contains(l2, line.target)
  <2>1. CASE line.type \in LockTypes \cup CondVarTypes
    BY <1>1, <2>1, WithNameFacts
  <2>2. CASE line.type \notin LockTypes \cup CondVarTypes
    <3>1. Len(p.locks) \in Nat
      BY <1>1, LenProperties DEF NameMap
    <3> QED
      BY <1>1, <2>2, <3>1, SameGrows
  <2> QED
    BY <2>1, <2>2
<1>5. /\ Grows(p.vars, v2) /\ Len(v2) <= Len(p.vars) + 1
      /\ line.type \in AccessTypes => Contains(v2, line.target)
  <2>1. CASE line.type \in AccessTypes
    BY <1>1, <2>1, WithNameFacts
  <2>2. CASE line.type \notin AccessTypes
    <3>1. Len(p.vars) \in Nat
      BY <1>1, LenProperties DEF NameMap
    <3> QED
      BY <1>1, <2>2, <3>1, SameGrows
  <2> QED
    BY <2>1, <2>2
<1>6. FromStd(p, line).parser = [p EXCEPT !.threads = t2, !.locks = l2, !.vars = v2]
  BY <1>1 DEF FromStd, t1
<1>7. q = [threads |-> t2, locks |-> l2, vars |-> v2, lineIndex |-> p.lineIndex,
           words |-> p.words, failed |-> p.failed]
  BY <1>1, <1>6
<1>8. FromStd(p, line).event = EventFor(q, line)
  <2>1. FromStd(p, line).event =
           [tid |-> IdOf(q.threads, line.tid), type |-> line.type, loc |-> line.loc,
            target |-> CASE line.type \in ThreadTypes -> IdOf(q.threads, line.target)
                         [] line.type \in LockTypes -> IdOf(q.locks, line.target)
                         [] line.type \in CondVarTypes ->
                                 AssSyncObj(IdOf(q.locks, line.target))
                         [] OTHER -> IdOf(q.vars, line.target)]
    <3> DEFINE EventOf(r) ==
                 [tid |-> IdOf(r.threads, line.tid), type |-> line.type, loc |-> line.loc,
                  target |-> CASE line.type \in ThreadTypes -> IdOf(r.threads, line.target)
                               [] line.type \in LockTypes -> IdOf(r.locks, line.target)
                               [] line.type \in CondVarTypes ->
                                       AssSyncObj(IdOf(r.locks, line.target))
                               [] OTHER -> IdOf(r.vars, line.target)]
    <3>1. FromStd(p, line).event = EventOf(FromStd(p, line).parser)
      BY DEF FromStd
    <3> QED
      BY <3>1
  <2> QED
    BY <2>1 DEF EventFor, TargetOf
<1> HIDE DEF t2, l2, v2
<1>9. Grows(p.threads, t2)
  BY <1>2, <1>3, GrowsTwice
<1>10. Contains(t2, line.tid)
  BY <1>2, <1>3 DEF Grows
<1>11. t2 \in NameMap /\ l2 \in NameMap /\ v2 \in NameMap
  BY <1>3, <1>4, <1>5 DEF Grows
<1>12. q \in TextParser
  BY <1>1, <1>7, <1>11 DEF TextParser
<1>13. ParserGrows(p, q) /\ Known(q, line)
  BY <1>3, <1>4, <1>5, <1>7, <1>9, <1>10 DEF ParserGrows, Known
<1> QED
  BY <1>2, <1>3, <1>4, <1>5, <1>7, <1>8, <1>12, <1>13

LEMMA EventForWord ==
    ASSUME NEW q \in TextParser, NEW line \in Item, line.type \in StdTypes, Known(q, line)
    PROVE  EvToBin(EventFor(q, line)) \in Nat
<1>1. q.threads \in NameMap /\ q.locks \in NameMap /\ q.vars \in NameMap
  BY DEF TextParser
<1>2. IdOf(q.threads, line.tid) \in Int
  BY <1>1, KnownIds DEF Known
<1>3. TargetOf(q, line) \in Int
  <2>1. line.type \in ThreadTypes \cup LockTypes \cup CondVarTypes \cup AccessTypes
    BY TypesApart
  <2>2. /\ line.type \in ThreadTypes => IdOf(q.threads, line.target) \in Int
        /\ line.type \in LockTypes \cup CondVarTypes => IdOf(q.locks, line.target) \in Int
        /\ line.type \in AccessTypes => IdOf(q.vars, line.target) \in Int
    BY <1>1, KnownIds DEF Known
  <2> QED
    BY <2>1, <2>2, TypesApart DEF TargetOf, AssSyncObj
<1>4. ValueOf(line.type) \in Int /\ line.loc \in Int
  <2>1. line.type \in AllTypes
    BY TypesApart
  <2> QED
    BY <2>1, TypeValues, RangeFacts DEF Item
<1> DEFINE e == EventFor(q, line)
<1>5. e.tid \in Int /\ e.target \in Int /\ e.loc \in Int /\ ValueOf(e.type) \in Int
  BY <1>2, <1>3, <1>4 DEF EventFor
<1> HIDE DEF e
<1>6. EvToBin(e) \in Nat
  BY <1>5, WordIsNumber
<1> QED
  BY <1>6 DEF e

\* What the parser has after i lines: a word for each line that is an event, f says which.
ParsedOK(p, lines, i, f) ==
    /\ f \in [1..Len(p.words) -> 1..i]
    /\ \A j, k \in 1..Len(p.words) : j < k => f[j] < f[k]
    /\ \A j \in 1..Len(p.words) :
          /\ lines[f[j]].type \in StdTypes /\ lines[f[j]].loc # NoNumber /\ Known(p, lines[f[j]])
          /\ p.words[j] = EvToBin(EventFor(p, lines[f[j]]))
    /\ \A k \in 1..i : lines[k].type \in StdTypes => \E j \in 1..Len(p.words) : f[j] = k
    /\ \A x : Contains(p.threads, x) =>
          \E k \in 1..i : /\ lines[k].type \in StdTypes
                          /\ x = lines[k].tid \/ (lines[k].type \in ThreadTypes /\ x = lines[k].target)
    /\ Len(p.locks) <= Len(p.words) /\ Len(p.vars) <= Len(p.words) /\ p.lineIndex = Len(p.words)

LEMMA NextEventFacts ==
    ASSUME NEW p \in TextParser, NEW written \in Seq(Item), NEW i \in 1..Len(written),
           NEW lines, lines = Understood(written),
           NEW q, q = NextEvent(p, written[i])
    PROVE  /\ q \in TextParser
           /\ ~q.failed =>
                /\ ~p.failed
                /\ \A f : ParsedOK(p, lines, i - 1, f) => \E g : ParsedOK(q, lines, i, g)
<1> DEFINE line == lines[i]
<1>1. line \in Item /\ i \in Nat
  BY UnderstoodFacts, PrefixedFacts
<1>0. q = IF p.failed \/ line.type \notin StdTypes THEN p
          ELSE [FromStd(p, line).parser EXCEPT
                  !.failed = line.loc = NoNumber, !.lineIndex = @ + 1,
                  !.words = Append(@, EvToBin(FromStd(p, line).event))]
  <2> DEFINE raw == written[i]
  <2>1. line = Prefixed(raw) /\ line.type = raw.type /\ line.loc = raw.loc
    BY UnderstoodFacts, PrefixedFacts
  <2>2. q = NextEvent(p, raw)
    OBVIOUS
  <2> HIDE DEF line, raw
  <2> QED
    BY <2>1, <2>2 DEF NextEvent
<1>2. CASE p.failed
  BY <1>2, <1>0
<1>3. CASE ~p.failed /\ line.type \notin StdTypes
  <2>1. q = p
    BY <1>3, <1>0
  <2>2. ASSUME NEW f, ParsedOK(p, lines, i - 1, f)
        PROVE  ParsedOK(q, lines, i, f)
    <3>1. \A k \in 1..(i-1) : k \in 1..i
      BY <1>1
    <3>2. \A k \in 1..i : k = i \/ k \in 1..(i-1)
      BY <1>1
    <3>3. f \in [1..Len(p.words) -> 1..i]
      BY <2>2, <3>1 DEF ParsedOK
    <3>4. \A k \in 1..i : lines[k].type \in StdTypes => k \in 1..(i-1)
      BY <1>3, <3>2
    <3>5. \A x : Contains(p.threads, x) =>
            \E k \in 1..i : /\ lines[k].type \in StdTypes
                            /\ x = lines[k].tid \/ (lines[k].type \in ThreadTypes /\ x = lines[k].target)
      BY <2>2, <3>1 DEF ParsedOK
    <3> QED
      BY <2>1, <2>2, <3>3, <3>4, <3>5 DEF ParsedOK
  <2> QED
    BY <1>3, <2>1, <2>2
<1>4. CASE ~p.failed /\ line.type \in StdTypes
  <2> DEFINE r == FromStd(p, line).parser
             word == EvToBin(EventFor(r, line))
             m == Len(p.words) + 1
             bad == line.loc = NoNumber
  <2>1. /\ r \in TextParser /\ ParserGrows(p, r) /\ Known(r, line)
        /\ FromStd(p, line).event = EventFor(r, line)
        /\ r.words = p.words /\ r.lineIndex = p.lineIndex /\ r.failed = p.failed
        /\ Len(r.locks) <= Len(p.locks) + 1 /\ Len(r.vars) <= Len(p.vars) + 1
        /\ \A x : Contains(r.threads, x) =>
              Contains(p.threads, x) \/ x = line.tid \/ (line.type \in ThreadTypes /\ x = line.target)
    BY <1>1, <1>4, FromStdFacts
  <2>2. q = [r EXCEPT !.failed = bad, !.lineIndex = @ + 1,
                      !.words = Append(@, word)]
    BY <1>4, <1>0, <2>1
  <2>0. bad \in BOOLEAN
    OBVIOUS
  <2> HIDE DEF r, bad
  <2>3. word \in Nat
    BY <1>1, <1>4, <2>1, EventForWord
  <2> HIDE DEF word
  <2>4. /\ r = [threads |-> r.threads, locks |-> r.locks, vars |-> r.vars,
                lineIndex |-> r.lineIndex, words |-> r.words, failed |-> r.failed]
        /\ r.threads \in NameMap /\ r.locks \in NameMap /\ r.vars \in NameMap
        /\ p.lineIndex \in Nat /\ p.words \in Seq(Nat)
    BY <2>1 DEF TextParser
  <2>5. q = [threads |-> r.threads, locks |-> r.locks, vars |-> r.vars,
             lineIndex |-> p.lineIndex + 1, words |-> Append(p.words, word),
             failed |-> bad]
    BY <2>1, <2>2, <2>4, ZenonT(40)
  <2>6. /\ Append(p.words, word) \in Seq(Nat) /\ Len(Append(p.words, word)) = m
        /\ Append(p.words, word)[m] = word
        /\ \A j \in 1..Len(p.words) : Append(p.words, word)[j] = p.words[j]
        /\ Len(p.words) \in Nat
    BY <2>3, <2>4, AppendProperties, LenProperties
  <2>7. q \in TextParser
    BY <2>0, <2>4, <2>5, <2>6 DEF TextParser
  <2>8. ASSUME NEW f, ParsedOK(p, lines, i - 1, f), ~q.failed
        PROVE  \E g : ParsedOK(q, lines, i, g)
    <3> DEFINE g == [j \in 1..m |-> IF j = m THEN i ELSE f[j]]
    <3>1. \A j \in 1..m : j = m \/ (j \in 1..Len(p.words) /\ j # m)
      BY <2>6
    <3>2. g[m] = i /\ \A j \in 1..Len(p.words) : g[j] = f[j] /\ j \in 1..m
      BY <2>6
    <3>3. \A j \in 1..Len(p.words) : f[j] \in 1..(i-1) /\ f[j] < i /\ f[j] \in 1..i
      <4>1. \A k \in 1..(i-1) : k < i /\ k \in 1..i
        BY <1>1
      <4> QED
        BY <2>8, <4>1 DEF ParsedOK
    <3>4. g \in [1..m -> 1..i]
      BY <3>1, <3>3
    <3> HIDE DEF g
    <3>5. ASSUME NEW j \in 1..m, NEW k \in 1..m, j < k
          PROVE  g[j] < g[k]
      <4>1. j \in 1..Len(p.words)
        BY <2>6, <3>5
      <4> QED
        BY <2>8, <3>1, <3>2, <3>3, <3>5, <4>1 DEF ParsedOK
    <3>6. ASSUME NEW j \in 1..m
          PROVE  /\ lines[g[j]].type \in StdTypes /\ lines[g[j]].loc # NoNumber
                 /\ Known(r, lines[g[j]])
                 /\ Append(p.words, word)[j] = EvToBin(EventFor(r, lines[g[j]]))
      <4>1. CASE j = m
        <5>1. line.loc # NoNumber
          <6>1. q.failed = bad
            BY <2>5
          <6>2. ~bad
            BY <2>8, <6>1
          <6> QED
            BY <6>2 DEF bad
        <5>2. g[j] = i /\ Append(p.words, word)[j] = word
          BY <2>6, <3>2, <4>1
        <5> QED
          BY <1>4, <2>1, <5>1, <5>2 DEF word
      <4>2. CASE j \in 1..Len(p.words)
        <5>1. /\ g[j] = f[j] /\ lines[f[j]].type \in StdTypes /\ lines[f[j]].loc # NoNumber
              /\ Known(p, lines[f[j]])
              /\ Append(p.words, word)[j] = EvToBin(EventFor(p, lines[f[j]]))
          BY <2>6, <2>8, <3>2, <4>2 DEF ParsedOK
        <5>2. Known(r, lines[f[j]]) /\ EventFor(r, lines[f[j]]) = EventFor(p, lines[f[j]])
          BY <2>1, <5>1, EventForStays
        <5> QED
          BY <5>1, <5>2
      <4> QED
        BY <3>1, <4>1, <4>2
    <3>7. ASSUME NEW k \in 1..i, lines[k].type \in StdTypes
          PROVE  \E j \in 1..m : g[j] = k
      <4>1. CASE k = i
        <5>1. m \in 1..m
          BY <2>6
        <5> QED
          BY <3>2, <4>1, <5>1
      <4>2. CASE k # i
        <5>1. k \in 1..(i-1)
          BY <1>1, <4>2
        <5>2. PICK j \in 1..Len(p.words) : f[j] = k
          BY <2>8, <3>7, <5>1 DEF ParsedOK
        <5> QED
          BY <3>2, <5>2
      <4> QED
        BY <4>1, <4>2
    <3>8. ASSUME NEW x, Contains(r.threads, x)
          PROVE  \E k \in 1..i : /\ lines[k].type \in StdTypes
                                 /\ \/ x = lines[k].tid
                                    \/ lines[k].type \in ThreadTypes /\ x = lines[k].target
      <4>1. CASE Contains(p.threads, x)
        <5>1. \A k \in 1..(i-1) : k \in 1..i
          BY <1>1
        <5> QED
          BY <2>8, <4>1, <5>1 DEF ParsedOK
      <4>2. CASE ~Contains(p.threads, x)
        <5>1. i \in 1..i
          BY <1>1
        <5> QED
          BY <1>4, <2>1, <3>8, <4>2, <5>1
      <4> QED
        BY <4>1, <4>2
    <3>9. Len(r.locks) <= m /\ Len(r.vars) <= m /\ p.lineIndex + 1 = m
      <4>1. Len(p.locks) <= Len(p.words) /\ Len(p.vars) <= Len(p.words) /\ p.lineIndex = Len(p.words)
        BY <2>8 DEF ParsedOK
      <4>2. Len(p.locks) \in Nat /\ Len(p.vars) \in Nat /\ Len(r.locks) \in Nat /\ Len(r.vars) \in Nat
        BY <2>4, LenProperties DEF NameMap, TextParser
      <4>3. Len(r.locks) <= Len(p.locks) + 1 /\ Len(r.vars) <= Len(p.vars) + 1 /\ Len(p.words) \in Nat
        BY <2>1, <2>6
      <4> QED
        BY <4>1, <4>2, <4>3, SMTT(30)
    <3>10. /\ q.words = Append(p.words, word) /\ Len(q.words) = m /\ q.threads = r.threads
           /\ q.locks = r.locks /\ q.vars = r.vars /\ q.lineIndex = p.lineIndex + 1
      BY <2>5, <2>6
    <3>11. \A l : Known(q, l) <=> Known(r, l)
      BY <3>10 DEF Known
    <3>12. \A l : EventFor(q, l) = EventFor(r, l)
      BY <3>10 DEF EventFor, TargetOf
    <3>13. \A j \in 1..m :
             /\ lines[g[j]].type \in StdTypes /\ lines[g[j]].loc # NoNumber /\ Known(q, lines[g[j]])
             /\ q.words[j] = EvToBin(EventFor(q, lines[g[j]]))
      BY <3>6, <3>10, <3>11, <3>12
    <3> HIDE DEF m
    <3>14. ParsedOK(q, lines, i, g)
      BY <3>4, <3>5, <3>7, <3>8, <3>9, <3>10, <3>13 DEF ParsedOK
    <3> QED
      BY <3>14
  <2> QED
    BY <1>4, <2>7, <2>8
<1> QED
  BY <1>2, <1>3, <1>4

\* to_bin_fmt: the parser after the last line.
ParsedUpTo(lines) ==
    LET parsed[i \in 0..Len(lines)] ==
            IF i = 0 THEN NewParser ELSE NextEvent(parsed[i-1], lines[i])
    IN parsed[Len(lines)]

LEMMA ParsedFacts ==
    ASSUME NEW written \in Seq(Item), NEW lines, lines = Understood(written)
    PROVE  /\ ParsedUpTo(written) \in TextParser
           /\ \/ ParsedUpTo(written).failed
              \/ \E f : ParsedOK(ParsedUpTo(written), lines, Len(lines), f)
<1> DEFINE n == Len(written)
           F == [x \in (1..n) \X TextParser |-> NextEvent(x[2], written[x[1]])]
           Rec(f) == [i \in 0..n |-> IF i = 0 THEN NewParser ELSE NextEvent(f[i-1], written[i])]
           g == CHOOSE f : f = Rec(f)
<1>1. ParsedUpTo(written) = g[n]
  BY DEF ParsedUpTo
<1>2. n \in Nat
  BY LenProperties
<1>3. \A i \in 1..n, p \in TextParser : F[<<i, p>>] = NextEvent(p, written[i])
  OBVIOUS
<1>4. \A i \in 1..n, p \in TextParser : F[<<i, p>>] \in TextParser
  BY <1>3, NextEventFacts
<1>5. NewParser \in TextParser /\ NewParser.words = <<>> /\ NewParser.threads = <<>>
      /\ NewParser.locks = <<>> /\ NewParser.vars = <<>> /\ NewParser.lineIndex = 0
  <2>1. <<>> \in NameMap
    BY DEF NameMap, Distinct
  <2> QED
    BY <2>1 DEF NewParser, TextParser
<1> HIDE DEF F, n
<1>6. PICK h : Iterates(h, n, TextParser, NewParser, F)
  BY <1>2, <1>4, <1>5, IterationExists
<1>7. h = [i \in 0..n |-> IF i = 0 THEN NewParser ELSE F[<<i, h[i-1]>>]]
  BY <1>2, <1>6, IterationOf
<1>8. \A i \in 0..n : i # 0 => F[<<i, h[i-1]>>] = NextEvent(h[i-1], written[i])
  <2>1. \A i \in 0..n : i # 0 => i - 1 \in 0..n /\ i \in 1..n
    BY <1>2
  <2> QED
    BY <1>3, <1>6, <2>1 DEF Iterates
<1>9. h = Rec(h)
  BY <1>7, <1>8
<1>10. g = Rec(g)
  BY <1>9
<1>11. \A i \in 0..n : g[i] = IF i = 0 THEN NewParser ELSE NextEvent(g[i-1], written[i])
  BY <1>10
<1> HIDE DEF g, Rec
<1> DEFINE G == {i \in 0..n : g[i] \in TextParser /\ (g[i].failed \/ \E f : ParsedOK(g[i], lines, i, f))}
<1>12. 0 \in G
  <2>1. g[0] = NewParser /\ 0 \in 0..n
    BY <1>2, <1>11
  <2>2. ParsedOK(NewParser, lines, 0, [j \in 1..0 |-> 0])
    <3>1. Len(<<>>) = 0 /\ 1..0 = {}
      OBVIOUS
    <3> QED
      BY <1>5, <3>1 DEF ParsedOK, Contains
  <2>3. \E f : ParsedOK(g[0], lines, 0, f)
    BY <2>1, <2>2
  <2> QED
    BY <1>5, <2>1, <2>3
<1>13. ASSUME NEW i \in 1..n, i - 1 \in G
       PROVE  i \in G
  <2>1. i \in 0..n /\ i # 0 /\ g[i] = NextEvent(g[i-1], written[i]) /\ g[i-1] \in TextParser
    BY <1>2, <1>11, <1>13
  <2>2. /\ g[i] \in TextParser
        /\ ~g[i].failed =>
             /\ ~g[i-1].failed
             /\ \A f : ParsedOK(g[i-1], lines, i - 1, f) => \E e : ParsedOK(g[i], lines, i, e)
    <3> DEFINE p == g[i-1]
    <3>1. p \in TextParser /\ i \in 1..Len(written) /\ g[i] = NextEvent(p, written[i])
      BY <2>1 DEF n
    <3> HIDE DEF p
    <3>2. /\ g[i] \in TextParser
          /\ ~g[i].failed =>
               /\ ~p.failed
               /\ \A f : ParsedOK(p, lines, i - 1, f) => \E e : ParsedOK(g[i], lines, i, e)
      BY <3>1, NextEventFacts
    <3> QED
      BY <3>2 DEF p
  <2>3. g[i-1].failed \/ \E f : ParsedOK(g[i-1], lines, i - 1, f)
    BY <1>13
  <2> QED
    BY <2>1, <2>2, <2>3
<1>14. n \in G
  <2> HIDE DEF G
  <2>1. \A i \in 0..n : i \in G
    BY <1>2, <1>12, <1>13, InductionUpTo
  <2> QED
    BY <1>2, <2>1
<1>15. Len(lines) = n
  BY UnderstoodFacts DEF n
<1> QED
  BY <1>1, <1>14, <1>15

\* Distinct numbers of 1..n are at most n.
LEMMA FewPositions ==
    ASSUME NEW m \in Nat, NEW n \in Nat, NEW f \in [1..m -> 1..n],
           \A i, j \in 1..m : i < j => f[i] < f[j]
    PROVE  m <= n
<1>1. IsFiniteSet(1..m) /\ Cardinality(1..m) = m /\ IsFiniteSet(1..n) /\ Cardinality(1..n) = n
  <2>1. /\ IsFiniteSet(1..m) /\ Cardinality(1..m) = IF 1 > m THEN 0 ELSE m - 1 + 1
        /\ IsFiniteSet(1..n) /\ Cardinality(1..n) = IF 1 > n THEN 0 ELSE n - 1 + 1
    BY FS_Interval
  <2> QED
    BY <2>1
<1> DEFINE S == 1..m
           T == 1..n
<1>2. ASSUME n < m
      PROVE  FALSE
  <2>1. IsFiniteSet(S) /\ IsFiniteSet(T) /\ Cardinality(T) < Cardinality(S) /\ f \in [S -> T]
    BY <1>1, <1>2
  <2> HIDE DEF S, T
  <2>2. PICK i \in S, j \in S : i # j /\ f[i] = f[j]
    BY <2>1, FS_PigeonHole
  <2>3. i \in 1..m /\ j \in 1..m /\ (i < j \/ j < i) /\ f[i] \in Int /\ f[j] \in Int
    BY <2>2 DEF S
  <2> QED
    BY <2>2, <2>3
<1> QED
  BY <1>2

\* Words tell the same about things as the lines they were parsed from.
LEMMA ParsedAlike ==
    ASSUME NEW p \in TextParser, NEW c, NEW d, NEW fit,
           Known(p, c), Known(p, d), c.type \in StdTypes, d.type \in StdTypes,
           NEW x, NEW y,
           x.type = c.type, x.target = EventFor(p, c).target,
           y.type = d.type, y.target = EventFor(p, d).target,
           fit => x.tid = EventFor(p, c).tid /\ y.tid = EventFor(p, d).tid,
           NEW paired
    PROVE  Alike(x, y, FALSE, c, d, TRUE, fit, paired)
<1>1. p.threads \in NameMap /\ p.locks \in NameMap /\ p.vars \in NameMap
  BY DEF TextParser
<1> DEFINE Id(map, a) == IdOf(map, a)
<1>2. \A map \in NameMap : \A a, b : Contains(map, a) /\ Contains(map, b) =>
         /\ IdOf(map, a) \in Int /\ IdOf(map, b) \in Int
         /\ (IdOf(map, a) = IdOf(map, b) <=> a = b)
  BY KnownIds
<1>3. /\ c.type \in ThreadTypes => x.target = IdOf(p.threads, c.target)
      /\ c.type \in LockTypes => x.target = IdOf(p.locks, c.target)
      /\ c.type \in CondVarTypes => x.target = -IdOf(p.locks, c.target)
      /\ c.type \in AccessTypes => x.target = IdOf(p.vars, c.target)
  BY TypesApart DEF EventFor, TargetOf, AssSyncObj
<1>4. /\ d.type \in ThreadTypes => y.target = IdOf(p.threads, d.target)
      /\ d.type \in LockTypes => y.target = IdOf(p.locks, d.target)
      /\ d.type \in CondVarTypes => y.target = -IdOf(p.locks, d.target)
      /\ d.type \in AccessTypes => y.target = IdOf(p.vars, d.target)
  BY TypesApart DEF EventFor, TargetOf, AssSyncObj
<1>5. fit => x.tid = IdOf(p.threads, c.tid) /\ y.tid = IdOf(p.threads, d.tid)
  BY DEF EventFor
<1>6. /\ Contains(p.threads, c.tid) /\ Contains(p.threads, d.tid)
      /\ c.type \in ThreadTypes => Contains(p.threads, c.target)
      /\ d.type \in ThreadTypes => Contains(p.threads, d.target)
      /\ c.type \in LockTypes \cup CondVarTypes => Contains(p.locks, c.target)
      /\ d.type \in LockTypes \cup CondVarTypes => Contains(p.locks, d.target)
      /\ c.type \in AccessTypes => Contains(p.vars, c.target)
      /\ d.type \in AccessTypes => Contains(p.vars, d.target)
  BY DEF Known
<1>7. SameClass(c.type, d.type) => (x.target = y.target <=> c.target = d.target)
  <2>1. CASE c.type \in LockTypes /\ d.type \in LockTypes
    BY <1>1, <1>2, <1>3, <1>4, <1>6, <2>1
  <2>2. CASE c.type \in AccessTypes /\ d.type \in AccessTypes
    BY <1>1, <1>2, <1>3, <1>4, <1>6, <2>2
  <2>3. CASE c.type \in CondVarTypes /\ d.type \in CondVarTypes
    <3>1. /\ IdOf(p.locks, c.target) \in Int /\ IdOf(p.locks, d.target) \in Int
          /\ IdOf(p.locks, c.target) = IdOf(p.locks, d.target) <=> c.target = d.target
      BY <1>1, <1>2, <1>6, <2>3
    <3>2. x.target = -IdOf(p.locks, c.target) /\ y.target = -IdOf(p.locks, d.target)
      BY <1>3, <1>4, <2>3
    <3> QED
      BY <3>1, <3>2
  <2>4. CASE c.type \in ThreadTypes /\ d.type \in ThreadTypes
    BY <1>1, <1>2, <1>3, <1>4, <1>6, <2>4
  <2> QED
    BY <2>1, <2>2, <2>3, <2>4 DEF SameClass
<1>8. fit => (x.tid = y.tid <=> c.tid = d.tid)
  BY <1>1, <1>2, <1>5, <1>6
<1>9. fit /\ c.type \in ThreadTypes => (x.target = y.tid <=> c.target = d.tid)
  BY <1>1, <1>2, <1>3, <1>5, <1>6
<1>10. c.type \in LockTypes /\ d.type \in CondVarTypes =>
          (x.target = LockOf(y.target, FALSE) <=> c.target = LockOf(d.target, TRUE))
  <2> SUFFICES ASSUME c.type \in LockTypes, d.type \in CondVarTypes
               PROVE  x.target = -y.target <=> c.target = d.target
    BY DEF LockOf
  <2>1. /\ IdOf(p.locks, c.target) \in Int /\ IdOf(p.locks, d.target) \in Int
        /\ IdOf(p.locks, c.target) = IdOf(p.locks, d.target) <=> c.target = d.target
    BY <1>1, <1>2, <1>6
  <2>2. x.target = IdOf(p.locks, c.target) /\ y.target = -IdOf(p.locks, d.target)
    BY <1>3, <1>4
  <2> QED
    BY <2>1, <2>2
<1> QED
  BY <1>7, <1>8, <1>9, <1>10 DEF Alike

LEMMA EmptyFileOK ==
    ASSUME NEW o, NEW n \in Nat, NEW viaT, NEW viaJ
    PROVE  WordsOK(<<>>, EmptyHeader, o, n, viaT, viaJ) /\ AllReal(<<>>)
<1>1. <<>> \in Seq(Nat) /\ Len(<<>>) = 0 /\ DOMAIN <<>> = {}
  OBVIOUS
<1>2. DOMAIN EventsOf(<<>>) = {}
  BY DEF EventsOf
<1>3. EmptyHeader \in Header /\ EmptyHeader.events = 0 /\ EmptyHeader.threads = 0
  BY DEF EmptyHeader, Header
<1>4. Faithful(EventsOf(<<>>), o, FALSE, n <= ThreadRange, ~viaT)
  BY <1>2 DEF Faithful
<1>5. WordsOK(<<>>, EmptyHeader, o, n, viaT, viaJ)
  <2>1. EmptyHeader.threads <= n /\ EmptyHeader.events = Len(<<>>)
    BY <1>1, <1>3
  <2>2. \A i \in DOMAIN <<>> : Real(BinToEv((<<>>)[i])) => InCounts(BinToEv((<<>>)[i]), EmptyHeader)
    BY <1>1
  <2> QED
    BY <1>1, <1>3, <1>4, <2>1, <2>2 DEF WordsOK
<1>6. AllReal(<<>>)
  BY <1>1 DEF AllReal
<1> QED
  BY <1>5, <1>6

\* The events of a text file have no number, lock or variable that does not fit.
LEMMA StdToLocalKeeps ==
    ASSUME NEW o, Len(o) \in Nat, DOMAIN o = 1..Len(o), Len(o) <= SrcLocRange - 1,
           NEW n \in Nat, n <= CountRange - 1, NEW viaT \in BOOLEAN, NEW viaJ \in BOOLEAN,
           FileOK(file, o, n, viaT, viaJ), StdToLocal
    PROVE  FileOK(file', o, n, viaT, viaJ) /\ file'.enc = "local"
<1> DEFINE written == file.lines
           lines == Understood(written)
           p == ParsedUpTo(written)
           w == p.words
           r == EventsOf(w)
           fit == n <= ThreadRange
<1>1. TextOK(lines, o, n, viaT, viaJ) /\ written \in Seq(Item)
  BY DEF FileOK, StdToLocal
<1>2. lines \in Seq(Item) /\ Faithful(lines, o, TRUE, fit, ~viaT)
  BY <1>1 DEF TextOK
<1>3. DOMAIN lines = 1..Len(lines) /\ Len(lines) \in Nat /\ \A i \in 1..Len(lines) : lines[i] \in Item
  BY <1>2, LenProperties, ElementOfSeq
<1>4. /\ p \in TextParser
      /\ p.failed \/ \E f : ParsedOK(p, lines, Len(lines), f)
  BY <1>1, ParsedFacts
<1>5. file' = IF p.failed THEN BinFile("local", EmptyHeader, <<>>)
              ELSE BinFile("local", MetaData(p), w)
  BY DEF StdToLocal, ParsedUpTo
<1> HIDE DEF written, lines, p
<1>6. CASE p.failed
  <2>1. WordsOK(<<>>, EmptyHeader, o, n, viaT, viaJ) /\ AllReal(<<>>)
    BY EmptyFileOK
  <2> QED
    BY <1>5, <1>6, <2>1 DEF FileOK, BinFile
<1>7. CASE ~p.failed
  <2>1. PICK f : ParsedOK(p, lines, Len(lines), f)
    BY <1>4, <1>7
  <2>2. /\ w \in Seq(Nat) /\ Len(w) \in Nat /\ DOMAIN w = 1..Len(w)
        /\ p.threads \in NameMap /\ p.locks \in NameMap /\ p.vars \in NameMap
        /\ Len(p.threads) \in Nat /\ Len(p.locks) \in Nat /\ Len(p.vars) \in Nat
        /\ p.lineIndex \in Nat
    BY <1>4, LenProperties DEF TextParser, NameMap
  <2>3. /\ DOMAIN r = 1..Len(w) /\ r \in Seq(Item)
        /\ \A j \in 1..Len(w) : r[j] = BinToEv(w[j])
    BY <2>2, EventsOfFacts
  <2>4. \A j \in 1..Len(w) :
           /\ f[j] \in 1..Len(lines) /\ lines[f[j]] \in Item /\ lines[f[j]].type \in StdTypes
           /\ Real(lines[f[j]]) /\ Known(p, lines[f[j]])
           /\ w[j] = EvToBin(EventFor(p, lines[f[j]]))
    BY <1>3, <2>1, TypesApart DEF ParsedOK, Real
  <2>5. \A i, j \in 1..Len(w) : i < j => f[i] < f[j]
    BY <2>1 DEF ParsedOK
  <2>6. /\ Len(p.locks) <= Len(w) /\ Len(p.vars) <= Len(w) /\ p.lineIndex = Len(w)
    BY <2>1 DEF ParsedOK
  <2>7. Len(w) <= Len(o)
    <3> DEFINE locs == [j \in 1..Len(w) |-> lines[f[j]].loc]
    <3>1. locs \in [1..Len(w) -> 1..Len(o)]
      BY <1>2, <1>3, <2>4 DEF Faithful
    <3>2. \A i, j \in 1..Len(w) : i < j => locs[i] < locs[j]
      BY <1>2, <1>3, <2>4, <2>5 DEF Faithful
    <3> HIDE DEF locs
    <3> QED
      BY <2>2, <3>1, <3>2, FewPositions
  <2>8. Len(p.threads) <= n
    <3>1. PICK a \in Int :
             \A i \in DOMAIN lines : lines[i].type # NoType => NamesFrom(a, n, lines[i])
      BY <1>1 DEF TextOK
    <3>2. ASSUME NEW i \in 1..Len(p.threads)
          PROVE  p.threads[i] \in a..(a + n - 1)
      <4> DEFINE x == p.threads[i]
      <4>1. Contains(p.threads, x)
        BY DEF Contains
      <4>2. PICK k \in 1..Len(lines) :
               /\ lines[k].type \in StdTypes
               /\ x = lines[k].tid \/ (lines[k].type \in ThreadTypes /\ x = lines[k].target)
        BY <2>1, <4>1 DEF ParsedOK
      <4>3. NamesFrom(a, n, lines[k])
        BY <1>3, <3>1, <4>2, TypesApart
      <4> QED
        BY <4>2, <4>3 DEF NamesFrom
    <3> QED
      BY <2>2, <3>1, <3>2, FewNames
  <2>9. SrcLocRange <= Half /\ CountRange <= Half /\ SrcLocRange \in Nat /\ CountRange \in Nat
        /\ Half \in Nat /\ ThreadRange \in Nat \ {0}
    BY RangeFacts
  <2>18. Len(p.threads) \in 0..Half /\ Len(p.locks) \in 0..Half /\ Len(p.vars) \in 0..Half
    <3> DEFINE a == Len(p.threads)
               b == Len(p.locks)
               c == Len(p.vars)
               k == Len(w)
               l == Len(o)
    <3>1. /\ a \in Nat /\ b \in Nat /\ c \in Nat /\ k \in Nat /\ l \in Nat
          /\ a <= n /\ b <= k /\ c <= k /\ k <= l
          /\ l <= SrcLocRange - 1 /\ n <= CountRange - 1
      BY <2>2, <2>6, <2>7, <2>8
    <3> HIDE DEF a, b, c, k, l
    <3>2. a \in 0..Half /\ b \in 0..Half /\ c \in 0..Half
      BY <2>9, <3>1
    <3> QED
      BY <3>2 DEF a, b, c
  <2>10. ASSUME NEW j \in 1..Len(w)
         PROVE  /\ r[j].type = lines[f[j]].type /\ r[j].loc = lines[f[j]].loc
                /\ r[j].target = EventFor(p, lines[f[j]]).target
                /\ fit => r[j].tid = EventFor(p, lines[f[j]]).tid
                /\ r[j].tid \in 0..(Len(p.threads) - 1)
                /\ r[j].type \in ThreadTypes => r[j].target \in 0..(Len(p.threads) - 1)
                /\ r[j].type \in LockTypes => r[j].target \in 0..(Len(p.locks) - 1)
                /\ r[j].type \in CondVarTypes => -r[j].target \in 0..(Len(p.locks) - 1)
                /\ r[j].type \in AccessTypes => r[j].target \in 0..(Len(p.vars) - 1)
    <3> DEFINE l == lines[f[j]]
               e == EventFor(p, l)
    <3>1. l \in Item /\ l.type \in StdTypes /\ Real(l) /\ Known(p, l) /\ w[j] = EvToBin(e)
      BY <2>4
    <3>2. l.loc \in 1..Len(o)
      BY <1>2, <1>3, <2>4 DEF Faithful
    <3> HIDE DEF l
    <3>3. IdOf(p.threads, l.tid) \in 0..(Len(p.threads) - 1)
      BY <2>2, <3>1, KnownIds DEF Known
    <3>4. /\ l.type \in ThreadTypes => IdOf(p.threads, l.target) \in 0..(Len(p.threads) - 1)
          /\ l.type \in LockTypes \cup CondVarTypes =>
                IdOf(p.locks, l.target) \in 0..(Len(p.locks) - 1)
          /\ l.type \in AccessTypes => IdOf(p.vars, l.target) \in 0..(Len(p.vars) - 1)
      BY <2>2, <3>1, KnownIds DEF Known
    <3>5. /\ l.type \in ThreadTypes => e.target \in 0..(Len(p.threads) - 1)
          /\ l.type \in LockTypes => e.target \in 0..(Len(p.locks) - 1)
          /\ l.type \in CondVarTypes => -e.target \in 0..(Len(p.locks) - 1) /\ e.target \in Int
          /\ l.type \in AccessTypes => e.target \in 0..(Len(p.vars) - 1)
      <4>1. /\ l.type \in ThreadTypes => e.target = IdOf(p.threads, l.target)
            /\ l.type \in LockTypes => e.target = IdOf(p.locks, l.target)
            /\ l.type \in CondVarTypes => e.target = -IdOf(p.locks, l.target)
            /\ l.type \in AccessTypes => e.target = IdOf(p.vars, l.target)
        BY TypesApart DEF EventFor, TargetOf, AssSyncObj
      <4> QED
        BY <2>2, <3>4, <4>1, SMTT(30)
    <3>6. /\ e = [tid |-> e.tid, type |-> e.type, loc |-> e.loc, target |-> e.target]
          /\ e.tid = IdOf(p.threads, l.tid) /\ e.type = l.type /\ e.loc = l.loc
      BY DEF EventFor
    <3> HIDE DEF e
    <3>7. e.target \in (-Half)..(Half - 1)
      <4>1. l.type \in ThreadTypes \cup LockTypes \cup CondVarTypes \cup AccessTypes
        BY <3>1, TypesApart
      <4> DEFINE t == e.target
      <4>2. \E k \in 0..Half : t \in 0..(k - 1) \/ (t \in Int /\ -t \in 0..(k - 1))
        BY <2>18, <3>5, <4>1
      <4> HIDE DEF t
      <4>3. t \in (-Half)..(Half - 1)
        <5>1. PICK k \in 0..Half : t \in 0..(k - 1) \/ (t \in Int /\ -t \in 0..(k - 1))
          BY <4>2
        <5> QED
          BY <2>9, <5>1
      <4> QED
        BY <4>3 DEF t
    <3>8. e \in Events
      <4>1. e.tid \in Nat /\ e.type \in AllTypes
        BY <2>2, <3>1, <3>3, <3>6, TypesApart
      <4>2. e.loc \in 0..(SrcLocRange - 1)
        <5> DEFINE k == e.loc
        <5>1. k \in 1..Len(o)
          BY <3>2, <3>6
        <5> HIDE DEF k
        <5>2. k \in 0..(SrcLocRange - 1)
          BY <2>9, <5>1
        <5> QED
          BY <5>2 DEF k
      <4> QED
        BY <3>6, <3>7, <4>1, <4>2 DEF Events
    <3>9. BinToEv(w[j]) = [e EXCEPT !.tid = @ % ThreadRange]
      BY <3>1, <3>8, WordRoundTrip
    <3>10. /\ r[j].tid = e.tid % ThreadRange /\ r[j].type = e.type /\ r[j].loc = e.loc
           /\ r[j].target = e.target
      BY <2>3, <3>6, <3>9
    <3>11. e.tid \in 0..(Len(p.threads) - 1)
      BY <3>3, <3>6
    <3>12. fit => r[j].tid = e.tid
      <4> SUFFICES ASSUME fit
                   PROVE  r[j].tid = e.tid
        OBVIOUS
      <4>1. e.tid \in 0..(ThreadRange - 1)
        BY <2>2, <2>8, <2>9, <3>11
      <4> QED
        BY <2>9, <3>10, <4>1, ModSmall
    <3>13. r[j].tid \in 0..(Len(p.threads) - 1)
      <4> DEFINE t == e.tid
                 m == Len(p.threads)
                 cut == r[j].tid
      <4>1. /\ t \in 0..(m - 1) /\ m \in Nat /\ ThreadRange \in Nat \ {0}
            /\ cut = t % ThreadRange
        BY <2>2, <2>9, <3>10, <3>11
      <4> HIDE DEF t, m, cut
      <4>2. cut \in 0..(ThreadRange - 1)
        BY <4>1, ModRange
      <4>3. CASE t < ThreadRange
        <5>1. t \in 0..(ThreadRange - 1)
          BY <4>1, <4>3
        <5>2. cut = t
          BY <4>1, <5>1, ModSmall
        <5>3. cut \in 0..(m - 1)
          BY <4>1, <5>2
        <5> QED
          BY <5>3 DEF cut, m
      <4>4. CASE ThreadRange <= t
        <5>1. cut \in 0..(m - 1)
          BY <4>1, <4>2, <4>4
        <5> QED
          BY <5>1 DEF cut, m
      <4>5. t < ThreadRange \/ ThreadRange <= t
        BY <4>1
      <4> QED
        BY <4>3, <4>4, <4>5
    <3> QED
      BY <3>5, <3>6, <3>10, <3>12, <3>13 DEF e, l
  <2> DEFINE h == MetaData(p)
  <2>11. /\ h \in Header /\ h.threads = Len(p.threads) /\ h.locks = Len(p.locks)
         /\ h.vars = Len(p.vars) /\ h.events = Len(w)
    <3>1. Len(p.threads) \in 0..(CountRange - 1) /\ CountRange \in Nat \ {0}
      BY <2>2, <2>8, <2>9
    <3>2. MaskThreadCount(Len(p.threads)) = Len(p.threads)
      BY <3>1, ModSmall DEF MaskThreadCount
    <3> QED
      BY <2>2, <2>6, <3>2 DEF MetaData, Header
  <2> HIDE DEF w, r, h, fit
  <2>12. Follows(r, lines, f)
    BY <1>3, <2>3, <2>4, <2>5, <2>10 DEF Follows
  <2>13. Faithful(r, o, FALSE, fit, ~viaT)
    <3>1. ASSUME NEW i \in DOMAIN r, NEW j \in DOMAIN r
          PROVE  Alike(r[i], r[j], FALSE, lines[f[i]], lines[f[j]], TRUE, fit, ~viaT)
      <4> DEFINE c == lines[f[i]]
                 d == lines[f[j]]
                 x == r[i]
                 y == r[j]
      <4>1. /\ Known(p, c) /\ Known(p, d) /\ c.type \in StdTypes /\ d.type \in StdTypes
            /\ x.type = c.type /\ x.target = EventFor(p, c).target
            /\ y.type = d.type /\ y.target = EventFor(p, d).target
            /\ fit => x.tid = EventFor(p, c).tid /\ y.tid = EventFor(p, d).tid
        BY <2>3, <2>4, <2>10
      <4> HIDE DEF c, d, x, y
      <4>2. Alike(x, y, FALSE, c, d, TRUE, fit, ~viaT)
        BY <1>4, <4>1, ParsedAlike
      <4> QED
        BY <4>2 DEF c, d, x, y
    <3> QED
      BY <1>2, <2>12, <3>1, FollowsFaithful
  <2>14. w # <<>> => Complete(r, o, viaJ)
    <3> SUFFICES ASSUME w # <<>>
                 PROVE  Complete(r, o, viaJ)
      OBVIOUS
    <3>1. lines # <<>>
      <4>1. 1 \in 1..Len(w)
        BY <2>2, EmptySeq
      <4> QED
        BY <2>4, <4>1
    <3>2. Complete(lines, o, viaJ)
      BY <1>1, <3>1 DEF TextOK
    <3>3. \A i \in DOMAIN lines :
             Real(lines[i]) => lines[i].loc \in DOMAIN o /\ lines[i].type = o[lines[i].loc].type
      BY <1>2 DEF Faithful
    <3>4. ASSUME NEW i \in DOMAIN lines, Real(lines[i])
          PROVE  (\E j \in DOMAIN r : Real(r[j]) /\ f[j] = i) \/ Excused(lines[i].type, viaJ)
      <4>1. CASE lines[i].type \in StdTypes
        <5>1. PICK j \in 1..Len(w) : f[j] = i
          BY <1>3, <2>1, <4>1 DEF ParsedOK, w
        <5>2. Real(r[j])
          BY <2>10, <3>4, <5>1 DEF Real
        <5> QED
          BY <2>3, <5>1, <5>2
      <4>2. CASE lines[i].type \notin StdTypes
        BY <1>3, <3>4, <4>2, TypesApart DEF Excused, Real, Item
      <4> QED
        BY <4>1, <4>2
    <3> QED
      BY <2>12, <3>2, <3>3, <3>4, FollowsComplete
  <2>15. \A i \in DOMAIN w : InCounts(BinToEv(w[i]), h)
    <3> TAKE j \in DOMAIN w
    <3>1. r[j] = BinToEv(w[j]) /\ j \in 1..Len(w)
      BY <2>2, <2>3
    <3>2. InCounts(r[j], h)
      BY <2>10, <2>11, <3>1 DEF InCounts
    <3> QED
      BY <3>1, <3>2
  <2>16. AllReal(w)
    <3>1. \A j \in 1..Len(w) : Real(r[j])
      BY <2>4, <2>10 DEF Real
    <3>2. \A j \in DOMAIN w : r[j] = BinToEv(w[j]) /\ j \in 1..Len(w)
      BY <2>2, <2>3
    <3> QED
      BY <3>1, <3>2 DEF AllReal
  <2>17. WordsOK(w, h, o, n, viaT, viaJ)
    BY <2>2, <2>8, <2>11, <2>13, <2>14, <2>15 DEF WordsOK, r, fit
  <2> QED
    BY <1>5, <1>7, <2>16, <2>17 DEF FileOK, BinFile, h
<1> QED
  BY <1>6, <1>7

-----------------------------------------------------------------------------
(* The program and its recorder.                                           *)

LEMMA MaxFacts ==
    ASSUME NEW n \in Nat, NEW P, P \subseteq 0..n, P # {}
    PROVE  Max(P) \in P /\ \A q \in P : q <= Max(P)
<1> DEFINE T == {n - q : q \in P}
<1>1. T \subseteq Nat /\ T # {}
  <2>1. \A q \in P : n - q \in Nat
    OBVIOUS
  <2> QED
    BY <2>1
<1>2. PICK x \in T : \A y \in T : x <= y
  <2>0. 2 \in Nat /\ 2 >= 2
    OBVIOUS
  <2> HIDE DEF T
  <2> QED
    BY <1>1, <2>0, Lists!LeastNatural, Zenon
<1>3. PICK p \in P : x = n - p
  BY <1>2
<1>4. \A q \in P : p >= q
  <2> TAKE q \in P
  <2>1. n - p <= n - q
    BY <1>2, <1>3
  <2>2. p \in Int /\ q \in Int
    OBVIOUS
  <2> QED
    BY <2>1, <2>2
<1>5. \E z \in P : \A y \in P : z >= y
  BY <1>4
<1>6. Max(P) \in P /\ \A y \in P : Max(P) >= y
  BY <1>5 DEF Max
<1>7. \A y \in P : y \in Int
  OBVIOUS
<1> QED
  BY <1>6, <1>7

LEMMA CountNewFacts ==
    ASSUME NEW m \in Nat, NEW used, used \subseteq 0..(m - 1)
    PROVE  CountNew(used) \in 0..m /\ \A x \in used : x \in 0..(CountNew(used) - 1)
<1>1. CASE used = {}
  BY <1>1 DEF CountNew
<1>2. CASE used # {}
  <2>1. m - 1 \in Nat
    <3>1. PICK x \in used : TRUE
      BY <1>2
    <3>2. x \in 0..(m - 1)
      OBVIOUS
    <3> QED
      BY <3>2
  <2> DEFINE n == m - 1
  <2>2. n \in Nat /\ used \subseteq 0..n
    BY <2>1
  <2> HIDE DEF n
  <2>3. Max(used) \in used /\ \A q \in used : q <= Max(used)
    BY <1>2, <2>2, MaxFacts
  <2>4. \A q \in used : q \in 0..(m - 1)
    OBVIOUS
  <2> DEFINE x == Max(used)
  <2>5. x \in 0..(m - 1) /\ \A q \in used : q <= x
    BY <2>3, <2>4
  <2>6. CountNew(used) = 1 + x
    BY <1>2 DEF CountNew
  <2> HIDE DEF x
  <2> QED
    BY <2>4, <2>5, <2>6
<1> QED
  BY <1>1, <1>2

\* What the program did.
Threads == CountNew(UsedThreads)

ProgramEvent ==
    [tid : 0..(MaxThreads - 1), type : StdTypes \cup UnusedTypes, target : Nat, loc : Nat]

TargetFits(e) ==
    /\ e.type \in ThreadTypes => e.target \in 0..(MaxThreads - 1)
    /\ e.type \in LockTypes \cup CondVarTypes => e.target \in 0..(MaxLocks - 1)
    /\ e.type \in AccessTypes => e.target \in 0..(MaxVars - 1)
    /\ e.type \in UnusedTypes => e.target = 0

OriginOK ==
    /\ origin \in Seq(ProgramEvent) /\ Len(origin) <= MaxEvents
    /\ \A k \in DOMAIN origin :
          /\ origin[k].loc = k /\ TargetFits(origin[k])
          /\ origin[k].type \in CondVarTypes =>
                \E i \in DOMAIN origin : origin[i].type = "LK" /\ origin[i].target = origin[k].target

LEMMA Bounds ==
    /\ MaxThreads \in Nat /\ MaxThreads <= CountRange - 1 /\ MaxThreads <= Half
    /\ MaxEvents \in Nat /\ MaxEvents <= SrcLocRange - 1 /\ MaxEvents <= Half
    /\ MaxLocks \in Nat /\ MaxLocks <= Half /\ MaxVars \in Nat /\ MaxVars <= Half
<1>1. CountRange \in Nat /\ SrcLocRange \in Nat /\ Half \in Nat /\ CountRange <= Half /\ SrcLocRange <= Half
  BY RangeFacts
<1>2. MaxEvents \in Nat /\ MaxEvents <= SrcLocRange - 1
  BY <1>1, PipelineAssumption
<1> QED
  BY <1>1, <1>2, PipelineAssumption

LEMMA OriginFacts ==
    ASSUME OriginOK
    PROVE  /\ DOMAIN origin = 1..Len(origin) /\ Len(origin) \in Nat
           /\ \A k \in 1..Len(origin) : origin[k] \in ProgramEvent
           /\ Range(origin) = {origin[k] : k \in 1..Len(origin)}
  BY LenProperties, ElementOfSeq DEF OriginOK, Range

LEMMA TargetsOfFacts ==
    ASSUME OriginOK, NEW types
    PROVE  /\ \A k \in 1..Len(origin) : origin[k].type \in types => origin[k].target \in TargetsOf(types)
           /\ \A x \in TargetsOf(types) :
                 \E k \in 1..Len(origin) : origin[k].type \in types /\ x = origin[k].target
  BY OriginFacts DEF TargetsOf

\* How many threads, locks and variables a program has.
LEMMA OriginCounts ==
    ASSUME OriginOK
    PROVE  /\ Threads \in 0..MaxThreads
           /\ CountNew(TargetsOf(LockTypes)) \in Nat /\ CountNew(TargetsOf(AccessTypes)) \in Nat
           /\ \A k \in 1..Len(origin) : LET e == origin[k] IN
                 /\ e.tid \in 0..(Threads - 1)
                 /\ e.type \in ThreadTypes => e.target \in 0..(Threads - 1)
                 /\ e.type \in LockTypes \cup CondVarTypes =>
                       e.target \in 0..(CountNew(TargetsOf(LockTypes)) - 1)
                 /\ e.type \in AccessTypes =>
                       e.target \in 0..(CountNew(TargetsOf(AccessTypes)) - 1)
<1>1. UsedThreads \subseteq 0..(MaxThreads - 1)
  <2>1. \A x \in TargetsOf(ThreadTypes) : x \in 0..(MaxThreads - 1)
    BY TargetsOfFacts, OriginFacts DEF OriginOK, TargetFits
  <2>2. \A e \in Range(origin) : e.tid \in 0..(MaxThreads - 1)
    BY OriginFacts DEF ProgramEvent
  <2> QED
    BY <2>1, <2>2 DEF UsedThreads
<1>2. \A k \in 1..Len(origin) :
         /\ origin[k].tid \in UsedThreads
         /\ origin[k].type \in ThreadTypes => origin[k].target \in UsedThreads
  BY TargetsOfFacts, OriginFacts DEF UsedThreads
<1>3. TargetsOf(LockTypes) \subseteq 0..(MaxLocks - 1)
  BY TargetsOfFacts, OriginFacts DEF OriginOK, TargetFits
<1>4. TargetsOf(AccessTypes) \subseteq 0..(MaxVars - 1)
  BY TargetsOfFacts, OriginFacts DEF OriginOK, TargetFits
<1> DEFINE L == TargetsOf(LockTypes)
           V == TargetsOf(AccessTypes)
<1>5. Threads \in 0..MaxThreads /\ \A x \in UsedThreads : x \in 0..(Threads - 1)
  BY <1>1, Bounds, CountNewFacts DEF Threads
<1>6. CountNew(L) \in 0..MaxLocks /\ \A x \in L : x \in 0..(CountNew(L) - 1)
  <2> HIDE DEF L
  <2> QED
    BY <1>3, Bounds, CountNewFacts DEF L
<1>7. CountNew(V) \in 0..MaxVars /\ \A x \in V : x \in 0..(CountNew(V) - 1)
  <2> HIDE DEF V
  <2> QED
    BY <1>4, Bounds, CountNewFacts DEF V
<1>8. \A k \in 1..Len(origin) : origin[k].type \in LockTypes \cup CondVarTypes => origin[k].target \in L
  <2> TAKE k \in 1..Len(origin)
  <2>1. CASE origin[k].type \in LockTypes
    BY <2>1, TargetsOfFacts
  <2>2. CASE origin[k].type \in CondVarTypes
    <3>1. PICK i \in DOMAIN origin : origin[i].type = "LK" /\ origin[i].target = origin[k].target
      BY <2>2, OriginFacts DEF OriginOK
    <3>2. "LK" \in LockTypes
      BY TypesApart
    <3> QED
      BY <3>1, <3>2, OriginFacts, TargetsOfFacts
  <2> QED
    BY <2>1, <2>2
<1>9. \A k \in 1..Len(origin) : origin[k].type \in AccessTypes => origin[k].target \in V
  BY TargetsOfFacts
<1> HIDE DEF L, V
<1>10. CountNew(L) \in Nat /\ CountNew(V) \in Nat
  BY <1>6, <1>7
<1>11. \A k \in 1..Len(origin) : LET e == origin[k] IN
         /\ e.tid \in 0..(Threads - 1)
         /\ e.type \in ThreadTypes => e.target \in 0..(Threads - 1)
         /\ e.type \in LockTypes \cup CondVarTypes => e.target \in 0..(CountNew(L) - 1)
         /\ e.type \in AccessTypes => e.target \in 0..(CountNew(V) - 1)
  BY <1>2, <1>5, <1>6, <1>7, <1>8, <1>9
<1> QED
  BY <1>5, <1>10, <1>11 DEF L, V

LEMMA HappenKeeps ==
    ASSUME OriginOK, NEW type \in Types, Happen(type)
    PROVE  OriginOK'
<1>1. PICK tid \in UpToNew(UsedThreads, MaxThreads) : \E target \in Targets(type, tid) :
         origin' = Append(origin, [tid |-> tid, type |-> type, target |-> target,
                                   loc |-> Len(origin) + 1])
  BY DEF Happen
<1>0. PICK target \in Targets(type, tid) :
         origin' = Append(origin, [tid |-> tid, type |-> type, target |-> target,
                                   loc |-> Len(origin) + 1])
  BY <1>1
<1> DEFINE e == [tid |-> tid, type |-> type, target |-> target, loc |-> Len(origin) + 1]
           n == Len(origin)
<1>2. origin \in Seq(ProgramEvent) /\ n \in Nat /\ n < MaxEvents
  BY OriginFacts, Bounds DEF OriginOK, Happen
<1>3. type \in StdTypes \cup UnusedTypes
  BY PipelineAssumption
<1>4. type \in ThreadTypes \cup LockTypes \cup CondVarTypes \cup AccessTypes \cup UnusedTypes
  BY <1>3, TypesApart
<1>5. \A used, max : UpToNew(used, max) \subseteq 0..(max - 1)
  BY DEF UpToNew
<1>6. tid \in 0..(MaxThreads - 1)
  BY <1>5
<1>7. /\ type \in ThreadTypes => target \in 0..(MaxThreads - 1)
      /\ type \in LockTypes => target \in 0..(MaxLocks - 1)
      /\ type \in AccessTypes => target \in 0..(MaxVars - 1)
      /\ type \in UnusedTypes => target = 0
      /\ type \in CondVarTypes =>
            \E f \in Range(origin) : f.type = "LK" /\ f.target = target
  <2>1. CASE type \in ThreadTypes
    <3>1. target \in UpToNew(UsedThreads \cup {tid}, MaxThreads)
      BY <2>1, TypesApart DEF Targets
    <3> QED
      BY <1>5, <2>1, <3>1, TypesApart
  <2>2. CASE type \in LockTypes
    <3>1. target \in UpToNew(TargetsOf(LockTypes), MaxLocks)
      BY <2>2, TypesApart DEF Targets
    <3> QED
      BY <1>5, <2>2, <3>1, TypesApart
  <2>3. CASE type \in AccessTypes
    <3>1. target \in UpToNew(TargetsOf(AccessTypes), MaxVars)
      BY <2>3, TypesApart DEF Targets
    <3> QED
      BY <1>5, <2>3, <3>1, TypesApart
  <2>4. CASE type \in CondVarTypes
    <3>1. target \in {f.target : f \in {g \in Range(origin) : g.type = "LK" /\ g.tid = tid}}
      BY <2>4, TypesApart DEF Targets
    <3> QED
      BY <2>4, <3>1, TypesApart
  <2>5. CASE type \in UnusedTypes
    <3>1. target \in {0}
      BY <2>5, TypesApart DEF Targets
    <3> QED
      BY <2>5, <3>1, TypesApart
  <2> QED
    BY <1>4, <2>1, <2>2, <2>3, <2>4, <2>5
<1>8. type \in CondVarTypes =>
         \E i \in 1..n : origin[i].type = "LK" /\ origin[i].target = target
  BY <1>7, OriginFacts
<1>9. type \in CondVarTypes => target \in 0..(MaxLocks - 1)
  <2> SUFFICES ASSUME type \in CondVarTypes
               PROVE  target \in 0..(MaxLocks - 1)
    OBVIOUS
  <2>1. PICK i \in 1..n : origin[i].type = "LK" /\ origin[i].target = target
    BY <1>8
  <2>2. TargetFits(origin[i])
    BY OriginFacts DEF OriginOK
  <2> QED
    BY <2>1, <2>2, TypesApart DEF TargetFits
<1>10. target \in Nat
  <2>1. MaxThreads \in Nat /\ MaxLocks \in Nat /\ MaxVars \in Nat
    BY Bounds
  <2> QED
    BY <1>4, <1>7, <1>9, <2>1
<1>11. e \in ProgramEvent /\ TargetFits(e) /\ e.loc = n + 1 /\ e.type = type /\ e.target = target
  BY <1>2, <1>3, <1>6, <1>7, <1>9, <1>10 DEF ProgramEvent, TargetFits
<1> HIDE DEF e
<1>12. /\ origin' \in Seq(ProgramEvent) /\ Len(origin') = n + 1 /\ origin'[n + 1] = e
       /\ \A k \in 1..n : origin'[k] = origin[k]
  <2>1. origin' = Append(origin, e)
    BY <1>0 DEF e
  <2> QED
    BY <1>2, <1>11, <2>1, AppendProperties
<1>13. DOMAIN origin' = 1..(n + 1) /\ \A k \in 1..(n + 1) : k = n + 1 \/ k \in 1..n
  BY <1>2, <1>12, LenProperties
<1>14. \A k \in 1..n : k \in 1..(n + 1)
  BY <1>2
<1>15. ASSUME NEW k \in 1..(n + 1)
       PROVE  /\ origin'[k].loc = k /\ TargetFits(origin'[k])
              /\ origin'[k].type \in CondVarTypes =>
                   \E i \in 1..(n + 1) : origin'[i].type = "LK" /\ origin'[i].target = origin'[k].target
  <2>1. CASE k = n + 1
    BY <1>8, <1>11, <1>12, <1>14, <2>1
  <2>2. CASE k \in 1..n
    <3>1. /\ origin[k].loc = k /\ TargetFits(origin[k])
          /\ origin[k].type \in CondVarTypes =>
                \E i \in 1..n : origin[i].type = "LK" /\ origin[i].target = origin[k].target
      BY <2>2, OriginFacts DEF OriginOK
    <3> QED
      BY <1>12, <1>14, <2>2, <3>1
  <2> QED
    BY <1>13, <2>1, <2>2
<1>16. \A x : TargetFits(x)' <=> TargetFits(x)
  BY DEF TargetFits
<1>17. Len(origin') <= MaxEvents
  BY <1>2, <1>12, Bounds
<1>18. /\ origin' \in Seq(ProgramEvent) /\ Len(origin') <= MaxEvents
       /\ \A k \in DOMAIN origin' :
             /\ origin'[k].loc = k /\ TargetFits(origin'[k])
             /\ origin'[k].type \in CondVarTypes =>
                   \E i \in DOMAIN origin' :
                      origin'[i].type = "LK" /\ origin'[i].target = origin'[k].target
  BY <1>12, <1>13, <1>15, <1>17
<1> QED
  BY <1>18 DEF OriginOK, TargetFits

LEMMA RecordTextKeeps ==
    ASSUME OriginOK, RecordText, NEW viaT \in BOOLEAN, NEW viaJ \in BOOLEAN
    PROVE  FileOK(file', origin, Threads, viaT, viaJ) /\ file'.enc = "std"
<1> DEFINE n == Len(origin)
           s == [i \in DOMAIN origin |-> Line(origin[i])]
<1>1. PICK rest \in {<<>>, <<Junk, BadLine>>}, bare \in BOOLEAN :
         LET lines == <<Junk>> \o s \o rest
         IN file' = TextFile([i \in DOMAIN lines |-> IF bare THEN Bare(lines[i]) ELSE lines[i]])
  BY DEF RecordText
<1> DEFINE lines == <<Junk>> \o s \o rest
           m == n + 1
<1>2. /\ n \in Nat /\ n # 0 /\ DOMAIN origin = 1..n
      /\ \A k \in 1..n : origin[k] \in ProgramEvent /\ origin[k].loc = k
  <2>1. n # 0
    BY EmptySeq DEF RecordText, OriginOK
  <2> QED
    BY <2>1, OriginFacts DEF OriginOK
<1>3. \A e \in ProgramEvent :
         /\ Line(e) = [tid |-> e.tid + 10, type |-> e.type, target |-> e.target + 10, loc |-> e.loc]
         /\ Line(e) \in Item /\ Line(e).tid = e.tid + 10 /\ Line(e).type = e.type
         /\ Line(e).target = e.target + 10 /\ Line(e).loc = e.loc
         /\ e.tid \in Nat /\ e.target \in Nat
  <2> TAKE e \in ProgramEvent
  <2>1. /\ e = [tid |-> e.tid, type |-> e.type, target |-> e.target, loc |-> e.loc]
        /\ e.tid \in Nat /\ e.target \in Nat /\ e.loc \in Nat /\ e.type \in StdTypes \cup UnusedTypes
    BY Bounds DEF ProgramEvent
  <2> DEFINE a == NameOf(e.tid)
             b == NameOf(e.target)
  <2>3. Line(e) = [e EXCEPT !.tid = a, !.target = b]
    BY DEF Line
  <2>4. a = e.tid + 10 /\ b = e.target + 10
    BY DEF NameOf
  <2> HIDE DEF a, b
  <2>5. Line(e) = [tid |-> a, type |-> e.type, target |-> b, loc |-> e.loc]
    BY <2>1, <2>3
  <2>2. Line(e) = [tid |-> e.tid + 10, type |-> e.type, target |-> e.target + 10, loc |-> e.loc]
    BY <2>4, <2>5
  <2> QED
    BY <2>1, <2>2, TypesApart DEF Item
<1>4. /\ Junk \in Item /\ Junk.type = NoType /\ ~Real(Junk)
      /\ BadLine \in Item /\ ~Real(BadLine) /\ BadLine.tid = 10 /\ BadLine.type = "LK"
  <2>1. Junk = [tid |-> 10, type |-> NoType, target |-> 10, loc |-> 0]
    BY DEF Junk, NameOf
  <2>2. BadLine = [tid |-> 10, type |-> "LK", target |-> 10, loc |-> NoNumber]
    <3> DEFINE half == [Junk EXCEPT !.type = "LK"]
    <3>1. half = [tid |-> 10, type |-> "LK", target |-> 10, loc |-> 0]
      BY <2>1
    <3>2. BadLine = [half EXCEPT !.loc = NoNumber]
      BY DEF BadLine
    <3> HIDE DEF half
    <3> QED
      BY <3>1, <3>2
  <2> QED
    BY <2>1, <2>2, TypesApart DEF Item, Real, NoNumber
<1>5. s \in Seq(Item) /\ Len(s) = n /\ \A i \in 1..n : s[i] = Line(origin[i])
  <2>1. s = [i \in 1..n |-> Line(origin[i])]
    BY <1>2
  <2>2. s \in [1..n -> Item]
    BY <1>2, <1>3, <2>1
  <2> QED
    BY <1>2, <2>1, <2>2
<1> DEFINE t == <<Junk>> \o s
<1>6. t \in Seq(Item) /\ Len(t) = m /\ t[1] = Junk /\ \A i \in 1..n : t[i+1] = s[i]
  <2>1. <<Junk>> \in Seq(Item) /\ Len(<<Junk>>) = 1 /\ <<Junk>>[1] = Junk
    BY <1>4
  <2>2. /\ t \in Seq(Item) /\ Len(t) = 1 + n
        /\ \A i \in 1..(1 + n) : t[i] = IF i <= 1 THEN <<Junk>>[i] ELSE s[i - 1]
    <3> HIDE DEF s
    <3> QED
      BY <1>2, <1>5, <2>1, ConcatProperties
  <2> HIDE DEF t, s
  <2>3. t[1] = Junk
    BY <1>2, <2>1, <2>2
  <2>4. ASSUME NEW i \in 1..n
        PROVE  t[i+1] = s[i]
    <3>1. i + 1 \in 1..(1 + n) /\ ~(i + 1 <= 1) /\ (i + 1) - 1 = i
      BY <1>2
    <3> QED
      BY <2>2, <3>1
  <2> QED
    BY <1>2, <2>2, <2>3, <2>4
<1> HIDE DEF t, s
<1>7. /\ rest \in Seq(Item) /\ Len(rest) \in Nat
      /\ \A i \in 1..Len(rest) : rest[i] = Junk \/ rest[i] = BadLine
  <2>1. CASE rest = <<>>
    BY <2>1
  <2>2. CASE rest = <<Junk, BadLine>>
    <3>1. \A i \in 1..2 : i = 1 \/ i = 2
      OBVIOUS
    <3>2. rest \in Seq(Item) /\ Len(rest) = 2 /\ rest[1] = Junk /\ rest[2] = BadLine
      BY <1>4, <2>2
    <3> QED
      BY <3>1, <3>2
  <2> QED
    BY <2>1, <2>2
<1>8. /\ lines \in Seq(Item) /\ Len(lines) = m + Len(rest)
      /\ \A i \in 1..(m + Len(rest)) : lines[i] = IF i <= m THEN t[i] ELSE rest[i - m]
  <2>1. lines = t \o rest
    BY DEF t, s
  <2>2. t \in Seq(Item) /\ Len(t) = m /\ rest \in Seq(Item)
    BY <1>6, <1>7
  <2> HIDE DEF lines, m
  <2>3. /\ t \o rest \in Seq(Item) /\ Len(t \o rest) = m + Len(rest)
        /\ \A i \in 1..(m + Len(rest)) : (t \o rest)[i] = IF i <= m THEN t[i] ELSE rest[i - m]
    BY <2>2, ConcatProperties
  <2> QED
    BY <2>1, <2>3
<1> HIDE DEF lines
<1>9. DOMAIN lines = 1..(m + Len(rest))
  BY <1>8, LenProperties
<1>10. \A i \in DOMAIN lines :
          \/ lines[i] = Junk \/ lines[i] = BadLine
          \/ i - 1 \in 1..n /\ lines[i] = Line(origin[i-1])
  <2> TAKE i \in DOMAIN lines
  <2>1. CASE i = 1
    <3>1. i <= m /\ i \in 1..(m + Len(rest))
      BY <1>2, <1>9, <2>1
    <3> QED
      BY <1>6, <1>8, <2>1, <3>1
  <2>2. CASE i # 1 /\ i <= m
    <3> DEFINE k == i - 1
    <3>1. k \in 1..n /\ k + 1 = i /\ i \in 1..(m + Len(rest))
      BY <1>2, <1>7, <1>9, <2>2
    <3> HIDE DEF k
    <3>2. lines[i] = t[k+1] /\ t[k+1] = Line(origin[k])
      BY <1>5, <1>6, <1>8, <2>2, <3>1
    <3> QED
      BY <3>1, <3>2 DEF k
  <2>3. CASE ~(i <= m)
    <3> DEFINE k == i - m
    <3>1. k \in 1..Len(rest) /\ i \in 1..(m + Len(rest))
      BY <1>2, <1>7, <1>9, <2>3
    <3>2. lines[i] = rest[k]
      BY <1>8, <2>3, <3>1
    <3> HIDE DEF k
    <3> QED
      BY <1>7, <3>1, <3>2
  <2> QED
    BY <2>1, <2>2, <2>3
<1>11. \A k \in 1..n : k + 1 \in DOMAIN lines /\ lines[k+1] = Line(origin[k])
  <2> TAKE k \in 1..n
  <2> DEFINE i == k + 1
  <2>1. i \in 1..(m + Len(rest)) /\ i <= m
    BY <1>2, <1>7
  <2>2. t[i] = Line(origin[k])
    BY <1>5, <1>6
  <2> HIDE DEF i
  <2>3. lines[i] = t[i] /\ i \in DOMAIN lines
    BY <1>8, <1>9, <2>1
  <2> QED
    BY <2>2, <2>3 DEF i
<1> HIDE DEF m, n
\* A line that is an event.
<1> DEFINE src == [i \in DOMAIN lines |-> i - 1]
<1>12. \A i \in DOMAIN lines : Real(lines[i]) =>
          /\ src[i] \in 1..n /\ lines[i] = Line(origin[src[i]]) /\ origin[src[i]] \in ProgramEvent
          /\ lines[i].loc = src[i] /\ lines[i].type = origin[src[i]].type
          /\ src[i] \in Int /\ i \in Int /\ src[i] = i - 1
  <2> TAKE i \in DOMAIN lines
  <2>1. src[i] = i - 1 /\ i \in Int
    BY <1>9
  <2> HIDE DEF src
  <2>2. Real(lines[i]) => i - 1 \in 1..n /\ lines[i] = Line(origin[i-1])
    BY <1>4, <1>10
  <2> DEFINE k == src[i]
  <2>3. Real(lines[i]) => k \in 1..n /\ lines[i] = Line(origin[k])
    BY <2>1, <2>2
  <2>4. k \in 1..n => origin[k] \in ProgramEvent /\ origin[k].loc = k
    BY <1>2
  <2> HIDE DEF k
  <2>5. Real(lines[i]) =>
           /\ k \in 1..n /\ lines[i] = Line(origin[k]) /\ origin[k] \in ProgramEvent
           /\ lines[i].loc = k /\ lines[i].type = origin[k].type
    BY <1>3, <2>3, <2>4
  <2>6. k \in 1..n => k \in Int
    OBVIOUS
  <2> QED
    BY <2>1, <2>5, <2>6 DEF k
<1> HIDE DEF src
<1>13. Faithful(lines, origin, TRUE, Threads <= ThreadRange, ~viaT)
  <2>1. \A i \in DOMAIN lines : Real(lines[i]) =>
           lines[i].loc \in DOMAIN origin /\ lines[i].type = origin[lines[i].loc].type
    BY <1>2, <1>12
  <2>2. \A i, j \in DOMAIN lines :
           i < j /\ Real(lines[i]) /\ Real(lines[j]) => lines[i].loc < lines[j].loc
    BY <1>12
  <2>3. ASSUME NEW i \in DOMAIN lines, NEW j \in DOMAIN lines, Real(lines[i]), Real(lines[j])
        PROVE  Alike(lines[i], lines[j], TRUE, origin[lines[i].loc], origin[lines[j].loc], TRUE,
                     Threads <= ThreadRange, ~viaT)
    <3> DEFINE d == origin[src[i]]
               e == origin[src[j]]
    <3>1. /\ lines[i] = Line(d) /\ lines[j] = Line(e) /\ d \in ProgramEvent /\ e \in ProgramEvent
          /\ lines[i].loc = src[i] /\ lines[j].loc = src[j]
      BY <1>12, <2>3
    <3>2. Alike(Line(d), Line(e), TRUE, d, e, TRUE, Threads <= ThreadRange, ~viaT)
      <4> HIDE DEF d, e
      <4>1. /\ Line(d).tid = d.tid + 10 /\ Line(e).tid = e.tid + 10
            /\ Line(d).target = d.target + 10 /\ Line(e).target = e.target + 10
            /\ d.tid \in Nat /\ d.target \in Nat /\ e.tid \in Nat /\ e.target \in Nat
        BY <1>3, <3>1
      <4>2. /\ Line(d).tid = Line(e).tid <=> d.tid = e.tid
            /\ Line(d).target = Line(e).target <=> d.target = e.target
            /\ Line(d).target = Line(e).tid <=> d.target = e.tid
        BY <4>1, SMTT(30)
      <4> QED
        BY <4>2 DEF Alike, LockOf
    <3> QED
      BY <3>1, <3>2
  <2> QED
    BY <2>1, <2>2, <2>3 DEF Faithful
<1>14. Complete(lines, origin, viaJ)
  <2> SUFFICES ASSUME NEW k \in DOMAIN origin
               PROVE  \E i \in DOMAIN lines : Real(lines[i]) /\ lines[i].loc = k
    BY DEF Complete
  <2>1. /\ k + 1 \in DOMAIN lines /\ lines[k+1] = Line(origin[k]) /\ k \in 1..n
        /\ origin[k] \in ProgramEvent /\ origin[k].loc = k /\ k \in Nat
    BY <1>2, <1>11
  <2>2. lines[k+1].loc = k /\ lines[k+1].type = origin[k].type
    BY <1>3, <2>1
  <2>3. Real(lines[k+1])
    <3>1. origin[k].type \in AllTypes
      BY <2>1, TypesApart DEF ProgramEvent
    <3> QED
      BY <2>1, <2>2, <3>1, TypesApart DEF Real, NoNumber
  <2> QED
    BY <2>1, <2>2, <2>3
<1>15. \E a \in Int : \A i \in DOMAIN lines :
          lines[i].type # NoType => NamesFrom(a, Threads, lines[i])
  <2> DEFINE N == Threads
             a == 10
  <2>1. /\ N \in Nat
        /\ \A k \in 1..n : /\ origin[k].tid \in 0..(N - 1)
                           /\ origin[k].type \in ThreadTypes => origin[k].target \in 0..(N - 1)
    BY Bounds, OriginCounts DEF n
  <2> HIDE DEF N
  <2>2. a \in Int /\ \A x \in 0..(N - 1) : x + 10 \in a..(a + N - 1)
    BY <2>1
  <2>3. N >= 1
    <3>1. 1 \in 1..n
      BY <1>2
    <3> QED
      BY <2>1, <3>1
  <2>4. 10 \in a..(a + N - 1)
    BY <2>1, <2>3
  <2> HIDE DEF a
  <2>5. ASSUME NEW i \in DOMAIN lines, lines[i].type # NoType
        PROVE  NamesFrom(a, N, lines[i])
    <3>1. CASE lines[i] = BadLine
      BY <1>4, <2>4, <3>1 DEF NamesFrom, ThreadTypes
    <3>2. CASE i - 1 \in 1..n /\ lines[i] = Line(origin[i-1])
      <4> DEFINE d == origin[i-1]
      <4>1. /\ d \in ProgramEvent /\ d.tid \in 0..(N - 1)
            /\ d.type \in ThreadTypes => d.target \in 0..(N - 1)
        BY <1>2, <2>1, <3>2
      <4>2. lines[i].tid = d.tid + 10 /\ lines[i].type = d.type /\ lines[i].target = d.target + 10
        BY <1>3, <3>2, <4>1
      <4> HIDE DEF d
      <4> QED
        BY <2>2, <4>1, <4>2 DEF NamesFrom
    <3> QED
      BY <1>4, <1>10, <2>5, <3>1, <3>2
  <2> QED
    BY <2>2, <2>5 DEF N
<1>16. TextOK(lines, origin, Threads, viaT, viaJ)
  BY <1>8, <1>13, <1>14, <1>15 DEF TextOK
<1> DEFINE written == [i \in DOMAIN lines |-> IF bare THEN Bare(lines[i]) ELSE lines[i]]
<1>17. file' = TextFile(written)
  BY <1>1 DEF lines, s
<1>18. \A i \in DOMAIN lines : lines[i] \in Item /\ written[i] \in Item /\ Prefixed(written[i]) = lines[i]
  <2> TAKE i \in DOMAIN lines
  <2>1. lines[i] \in Item
    BY <1>8, <1>9, ElementOfSeq
  <2>2. lines[i].type \in ThreadTypes => lines[i].target \in Nat
    <3>1. ASSUME i - 1 \in 1..n, lines[i] = Line(origin[i-1])
          PROVE  lines[i].target \in Nat
      <4> DEFINE e == origin[i-1]
      <4>1. e \in ProgramEvent
        BY <1>2, <3>1
      <4> HIDE DEF e
      <4>2. Line(e).target = e.target + 10 /\ e.target \in Nat
        BY <1>3, <4>1
      <4>3. Line(e).target \in Nat
        BY <4>2
      <4> QED
        BY <3>1, <4>3 DEF e
    <3>2. NoType \notin ThreadTypes /\ "LK" \notin ThreadTypes
      BY TypesApart
    <3> QED
      BY <1>4, <1>10, <3>1, <3>2
  <2>3. written[i] = IF bare THEN Bare(lines[i]) ELSE lines[i]
    OBVIOUS
  <2> HIDE DEF written
  <2> QED
    BY <2>1, <2>2, <2>3, PrefixedFacts
<1>19. written \in Seq(Item)
  <2>1. m + Len(rest) \in Nat
    BY <1>2, <1>7 DEF m, n
  <2>2. written \in [1..(m + Len(rest)) -> Item]
    BY <1>9, <1>18
  <2> QED
    BY <2>1, <2>2
<1>20. Understood(written) = lines
  <2>1. Understood(written) = [i \in DOMAIN lines |-> lines[i]]
    BY <1>18 DEF Understood
  <2>2. lines = [i \in DOMAIN lines |-> lines[i]]
    BY <1>8
  <2> QED
    BY <2>1, <2>2
<1> HIDE DEF written
<1> QED
  BY <1>16, <1>17, <1>19, <1>20 DEF FileOK, TextFile

LEMMA NoEventWordFacts ==
    NoEventWord \in Nat /\ BinToEv(NoEventWord).type = NoType
<1> DEFINE T == ThreadRange
<1>1. T \in Nat \ {0} /\ OpRange = 16
  BY RangeFacts DEF OpRange
<1>2. Len(EventNames) = 13 /\ DOMAIN EventNames = 1..13
  BY DEF EventNames
<1>3. NoEventWord = 13 * T
  BY <1>1, <1>2 DEF NoEventWord, CompToBin, OpField
<1> DEFINE w == NoEventWord
<1>4. w \in Nat
  BY <1>1, <1>3
<1> HIDE DEF T
<1>5. w \div T = 13
  <2>1. w = 0 + T * 13
    BY <1>1, <1>3
  <2>2. 0 \in 0..(T-1) /\ 13 \in Nat
    BY <1>1
  <2> DEFINE z == 0
             k == 13
  <2>3. z \in 0..(T-1) /\ k \in Nat /\ w = z + T * k
    BY <2>1, <2>2
  <2> HIDE DEF z, k, w
  <2>4. (z + T * k) \div T = k
    BY <1>1, <2>3, LowDigit
  <2> QED
    BY <2>3, <2>4 DEF k
<1>6. BinToComp(OpField, w) = 13
  <2> HIDE DEF w
  <2>1. BinToComp(OpField, w) = (w \div T) % 16
    BY <1>1 DEF BinToComp, OpField, T
  <2> QED
    BY <1>5, <2>1
<1>7. FromInt16(13) = NoType
  BY <1>2 DEF FromInt16
<1> QED
  BY <1>4, <1>6, <1>7 DEF BinToEv, ExtractEvType

\* What a Java recorder has in a word: the lock of a condition variable is negated.
JavaEvent(e) == IF e.type \in CondVarTypes THEN [e EXCEPT !.target = AssSyncObj(@)] ELSE e

LEMMA JavaWordFacts ==
    ASSUME OriginOK, NEW k \in 1..Len(origin)
    PROVE  LET e == origin[k]  x == BinToEv(JavaWord(e))
           IN /\ JavaWord(e) \in Nat
              /\ x.type = e.type /\ x.loc = k /\ x.tid = e.tid % ThreadRange
              /\ x.target = IF e.type \in CondVarTypes THEN -e.target ELSE e.target
<1> DEFINE e == origin[k]
           d == JavaEvent(e)
           t == IF e.type \in CondVarTypes THEN -e.target ELSE e.target
<1>1. /\ e \in ProgramEvent /\ e.loc = k /\ TargetFits(e) /\ k \in 1..MaxEvents
  BY OriginFacts, Bounds DEF OriginOK
<1> HIDE DEF e
<1>2. /\ e = [tid |-> e.tid, type |-> e.type, target |-> e.target, loc |-> e.loc]
      /\ e.tid \in Nat /\ e.target \in Nat /\ e.type \in AllTypes
  BY <1>1, Bounds, TypesApart DEF ProgramEvent
<1>3. d = [tid |-> e.tid, type |-> e.type, target |-> t, loc |-> e.loc]
  <2>1. CASE e.type \in CondVarTypes
    <3> DEFINE a == -e.target
    <3>1. d = [e EXCEPT !.target = a] /\ t = a
      BY <2>1 DEF JavaEvent, AssSyncObj
    <3> HIDE DEF a, d, t
    <3> QED
      BY <1>2, <3>1
  <2>2. CASE e.type \notin CondVarTypes
    BY <1>2, <2>2 DEF JavaEvent
  <2> QED
    BY <2>1, <2>2
<1>4. e.target \in 0..Half /\ (e.type \notin CondVarTypes => e.target < Half \/ Half = 0)
  <2>1. e.type \in ThreadTypes \cup LockTypes \cup CondVarTypes \cup AccessTypes \cup UnusedTypes
    BY <1>2, TypesApart
  <2>2. /\ e.type \in ThreadTypes => e.target <= MaxThreads - 1
        /\ e.type \in LockTypes \cup CondVarTypes => e.target <= MaxLocks - 1
        /\ e.type \in AccessTypes => e.target <= MaxVars - 1
        /\ e.type \in UnusedTypes => e.target = 0
    BY <1>1, Bounds DEF TargetFits
  <2> DEFINE a == e.target
  <2>3. a <= MaxThreads - 1 \/ a <= MaxLocks - 1 \/ a <= MaxVars - 1 \/ a = 0
    BY <2>1, <2>2
  <2>4. a \in Nat /\ Half \in Nat
    BY <1>2, RangeFacts
  <2> HIDE DEF a
  <2>5. a \in 0..Half /\ (a < Half \/ Half = 0)
    BY <2>3, <2>4, Bounds
  <2> QED
    BY <2>5 DEF a
<1>5. Half # 0 /\ Half \in Nat
  BY RangeFacts
<1>6. t \in (-Half)..(Half - 1)
  <2> DEFINE a == e.target
  <2>1. a \in 0..Half
    BY <1>4
  <2>2. a < Half
    <3>1. MaxLocks - 1 < Half
      BY Bounds, <1>5
    <3>2. e.type \in CondVarTypes => a <= MaxLocks - 1
      BY <1>1, Bounds DEF TargetFits
    <3>3. e.type \in CondVarTypes => a < Half
      BY <1>2, <1>5, <3>1, <3>2, Bounds
    <3> QED
      BY <1>4, <1>5, <3>3
  <2>3. t = a \/ t = -a
    OBVIOUS
  <2> HIDE DEF a, t
  <2> QED
    BY <1>5, <2>1, <2>2, <2>3
<1>7. e.loc \in 0..(SrcLocRange - 1)
  <2>1. k \in Nat /\ k <= MaxEvents /\ MaxEvents \in Nat /\ MaxEvents <= SrcLocRange - 1
    BY <1>1, Bounds
  <2>2. SrcLocRange \in Nat
    BY RangeFacts
  <2>3. k \in 0..(SrcLocRange - 1)
    BY <2>1, <2>2
  <2> QED
    BY <1>1, <2>3
<1> HIDE DEF d, t
<1>8. d \in Events
  BY <1>2, <1>3, <1>6, <1>7 DEF Events
<1>9. BinToEv(EvToBin(d)) = [d EXCEPT !.tid = @ % ThreadRange]
  BY <1>8, WordRoundTrip
<1>10. JavaWord(e) = EvToBin(d)
  BY DEF JavaWord, JavaEvent, d
<1>11. EvToBin(d) \in Nat
  <2>1. d.tid \in Int /\ d.target \in Int /\ d.loc \in Int /\ ValueOf(d.type) \in Int
    BY <1>2, <1>3, <1>6, <1>7, <1>5, TypeValues, RangeFacts
  <2> QED
    BY <2>1, WordIsNumber
<1> DEFINE x == BinToEv(JavaWord(e))
<1>12. x.type = e.type /\ x.loc = e.loc /\ x.tid = e.tid % ThreadRange /\ x.target = t
  BY <1>3, <1>9, <1>10
<1> QED
  BY <1>1, <1>10, <1>11, <1>12 DEF e, t

LEMMA RecordJavaKeeps ==
    ASSUME OriginOK, RecordJava, NEW viaT \in BOOLEAN, NEW viaJ \in BOOLEAN
    PROVE  FileOK(file', origin, Threads, viaT, viaJ) /\ file'.enc = "java"
<1> DEFINE n == Len(origin)
           s == [i \in DOMAIN origin |-> JavaWord(origin[i])]
           words == s \o <<NoEventWord>>
           header == [threads |-> Threads, locks |-> CountNew(TargetsOf(LockTypes)),
                      vars |-> CountNew(TargetsOf(AccessTypes)), events |-> Len(words)]
           r == EventsOf(words)
           fit == Threads <= ThreadRange
<1>1. file' = BinFile("java", header, words)
  BY DEF RecordJava, Threads
<1>2. n \in Nat /\ DOMAIN origin = 1..n /\ \A k \in 1..n : origin[k] \in ProgramEvent
  BY OriginFacts
<1>3. s \in Seq(Nat) /\ Len(s) = n /\ \A k \in 1..n : s[k] = JavaWord(origin[k])
  <2>1. s = [k \in 1..n |-> JavaWord(origin[k])]
    BY <1>2
  <2>2. s \in [1..n -> Nat]
    BY <1>2, <2>1, JavaWordFacts
  <2> QED
    BY <1>2, <2>1, <2>2
<1> HIDE DEF s
<1>4. /\ words \in Seq(Nat) /\ Len(words) = n + 1 /\ words[n + 1] = NoEventWord
      /\ \A k \in 1..n : words[k] = JavaWord(origin[k])
  <2>1. NoEventWord \in Nat
    BY NoEventWordFacts
  <2>2. words = Append(s, NoEventWord)
    BY <1>3, <2>1, AppendIsConcat
  <2> QED
    BY <1>2, <1>3, <2>1, <2>2, AppendProperties
<1> HIDE DEF words
<1>5. /\ DOMAIN words = 1..(n + 1) /\ DOMAIN r = 1..(n + 1)
      /\ \A i \in 1..(n + 1) : r[i] = BinToEv(words[i])
  BY <1>2, <1>4, EventsOfFacts
<1> HIDE DEF r
<1>6. \A i \in 1..(n + 1) : i = n + 1 \/ i \in 1..n
  BY <1>2
<1>7. ~Real(r[n + 1])
  <2>1. n + 1 \in 1..(n + 1)
    BY <1>2
  <2> QED
    BY <1>4, <1>5, <2>1, NoEventWordFacts DEF Real
<1>8. \A k \in 1..n :
         /\ k \in 1..(n + 1) /\ r[k].type = origin[k].type /\ r[k].loc = k
         /\ r[k].tid = origin[k].tid % ThreadRange
         /\ r[k].target = IF origin[k].type \in CondVarTypes THEN -origin[k].target
                          ELSE origin[k].target
         /\ origin[k].type \in AllTypes /\ origin[k].target \in Nat /\ origin[k].tid \in Nat
  <2> TAKE k \in 1..n
  <2>1. k \in 1..(n + 1) /\ r[k] = BinToEv(JavaWord(origin[k]))
    BY <1>2, <1>4, <1>5
  <2>2. origin[k].type \in AllTypes /\ origin[k].target \in Nat /\ origin[k].tid \in Nat
    BY <1>2, Bounds, TypesApart DEF ProgramEvent
  <2> QED
    BY <2>1, <2>2, JavaWordFacts
<1>9. \A k \in 1..n : Real(r[k])
  BY <1>2, <1>8, TypesApart DEF Real, NoNumber
<1>10. \A i \in 1..(n + 1) : Real(r[i]) => i \in 1..n
  BY <1>6, <1>7
<1>11. fit => \A k \in 1..n : r[k].tid = origin[k].tid
  <2> SUFFICES ASSUME fit, NEW k \in 1..n
               PROVE  r[k].tid = origin[k].tid
    OBVIOUS
  <2> DEFINE a == origin[k].tid
  <2>1. a \in 0..(Threads - 1) /\ Threads \in Nat /\ ThreadRange \in Nat \ {0} /\ Threads <= ThreadRange
    BY OriginCounts, Bounds, RangeFacts
  <2>2. r[k].tid = a % ThreadRange
    BY <1>8
  <2> HIDE DEF a
  <2>3. a \in 0..(ThreadRange - 1)
    BY <2>1
  <2>4. a % ThreadRange = a
    BY <2>1, <2>3, ModSmall
  <2> QED
    BY <2>2, <2>4 DEF a
<1>12. Faithful(r, origin, FALSE, fit, ~viaT)
  <2>1. \A i \in DOMAIN r : Real(r[i]) => r[i].loc \in DOMAIN origin /\ r[i].type = origin[r[i].loc].type
    BY <1>2, <1>5, <1>8, <1>10
  <2>2. \A i, j \in DOMAIN r : i < j /\ Real(r[i]) /\ Real(r[j]) => r[i].loc < r[j].loc
    BY <1>5, <1>8, <1>10
  <2>3. ASSUME NEW i \in DOMAIN r, NEW j \in DOMAIN r, Real(r[i]), Real(r[j])
        PROVE  Alike(r[i], r[j], FALSE, origin[r[i].loc], origin[r[j].loc], TRUE, fit, ~viaT)
    <3> DEFINE x == r[i]
               y == r[j]
               d == origin[i]
               e == origin[j]
    <3>1. /\ x.type = d.type /\ y.type = e.type /\ x.loc = i /\ y.loc = j
          /\ x.target = IF d.type \in CondVarTypes THEN -d.target ELSE d.target
          /\ y.target = IF e.type \in CondVarTypes THEN -e.target ELSE e.target
          /\ d.target \in Nat /\ e.target \in Nat
          /\ fit => x.tid = d.tid /\ y.tid = e.tid
      BY <1>5, <1>8, <1>10, <1>11, <2>3
    <3> HIDE DEF x, y, d, e, fit
    <3>2. SameClass(d.type, e.type) => (x.target = y.target <=> d.target = e.target)
      <4>1. SameClass(d.type, e.type) => (d.type \in CondVarTypes <=> e.type \in CondVarTypes)
        BY TypesApart DEF SameClass
      <4> QED
        BY <3>1, <4>1
    <3>3. d.type \in ThreadTypes => x.target = d.target
      BY <3>1, TypesApart
    <3>4. d.type \in LockTypes /\ e.type \in CondVarTypes =>
             (x.target = LockOf(y.target, FALSE) <=> d.target = LockOf(e.target, TRUE))
      BY <3>1, TypesApart DEF LockOf
    <3>5. Alike(x, y, FALSE, d, e, TRUE, fit, ~viaT)
      BY <3>1, <3>2, <3>3, <3>4 DEF Alike
    <3>6. Alike(x, y, FALSE, origin[x.loc], origin[y.loc], TRUE, fit, ~viaT)
      BY <3>1, <3>5 DEF d, e
    <3> QED
      BY <3>6 DEF x, y
  <2> QED
    BY <2>1, <2>2, <2>3 DEF Faithful
<1>13. Complete(r, origin, viaJ)
  BY <1>2, <1>5, <1>8, <1>9 DEF Complete
<1>14. \A i \in DOMAIN words : Real(BinToEv(words[i])) => InCounts(BinToEv(words[i]), header)
  <2> SUFFICES ASSUME NEW i \in 1..(n + 1), Real(r[i])
               PROVE  InCounts(r[i], header)
    BY <1>5
  <2> DEFINE d == origin[i]
             x == r[i]
  <2>1. i \in 1..n
    BY <1>10
  <2>2. /\ x.type = d.type /\ x.tid = d.tid % ThreadRange
        /\ x.target = IF d.type \in CondVarTypes THEN -d.target ELSE d.target
        /\ d.target \in Nat /\ d.tid \in Nat
    BY <1>8, <2>1
  <2>3. /\ d.tid \in 0..(Threads - 1)
        /\ d.type \in ThreadTypes => d.target \in 0..(Threads - 1)
        /\ d.type \in LockTypes \cup CondVarTypes =>
              d.target \in 0..(CountNew(TargetsOf(LockTypes)) - 1)
        /\ d.type \in AccessTypes =>
              d.target \in 0..(CountNew(TargetsOf(AccessTypes)) - 1)
    BY <2>1, OriginCounts
  <2>4. Threads \in Nat /\ ThreadRange \in Nat \ {0}
    BY OriginCounts, Bounds, RangeFacts
  <2> HIDE DEF d, x
  <2>5. x.tid \in 0..(Threads - 1)
    <3> DEFINE a == d.tid
    <3>1. a \in 0..(Threads - 1) /\ x.tid = a % ThreadRange
      BY <2>2, <2>3
    <3> HIDE DEF a
    <3>2. a % ThreadRange \in 0..(ThreadRange - 1)
      BY <2>4, <3>1, ModRange
    <3>3. CASE a < ThreadRange
      <4>1. a \in 0..(ThreadRange - 1)
        BY <2>4, <3>1, <3>3
      <4> QED
        BY <2>4, <3>1, <4>1, ModSmall
    <3>4. CASE ThreadRange <= a
      BY <2>4, <3>1, <3>2, <3>4
    <3> QED
      BY <2>4, <3>1, <3>3, <3>4
  <2>6. /\ header.threads = Threads /\ header.locks = CountNew(TargetsOf(LockTypes))
        /\ header.vars = CountNew(TargetsOf(AccessTypes))
    OBVIOUS
  <2> HIDE DEF header
  <2>7. /\ x.type \in ThreadTypes => x.target \in 0..(header.threads - 1)
        /\ x.type \in LockTypes => x.target \in 0..(header.locks - 1)
        /\ x.type \in CondVarTypes => -x.target \in 0..(header.locks - 1)
        /\ x.type \in AccessTypes => x.target \in 0..(header.vars - 1)
    <3>1. x.type \in CondVarTypes => -x.target = d.target
      BY <2>2
    <3>2. x.type \notin CondVarTypes => x.target = d.target
      BY <2>2
    <3> QED
      BY <2>2, <2>3, <2>6, <3>1, <3>2, TypesApart
  <2>8. InCounts(x, header)
    BY <2>5, <2>6, <2>7 DEF InCounts
  <2> QED
    BY <2>8 DEF x
<1>15. header \in Header /\ header.events = Len(words) /\ header.threads = Threads
  BY <1>2, <1>4, OriginCounts, Bounds DEF Header
<1> HIDE DEF header
<1>16. WordsOK(words, header, origin, Threads, viaT, viaJ)
  <2>1. header.threads <= Threads
    BY <1>15, OriginCounts, Bounds
  <2> QED
    BY <1>4, <1>12, <1>13, <1>14, <1>15, <2>1 DEF WordsOK, r
<1> QED
  BY <1>1, <1>16 DEF FileOK, BinFile

-----------------------------------------------------------------------------
(* The parser's first pass.                                                *)

Tid == Nat \cup {Invalid, IsShared}
TrackMap(size) == [0..(size - 1) -> Tid]

\* What becomes of the entries of a map: a thread stays or gives way to IsShared.
Later(map, next) ==
    \A id \in DOMAIN map :
        /\ map[id] = IsShared => next[id] = IsShared
        /\ map[id] # Invalid => next[id] = map[id] \/ next[id] = IsShared

LEMMA UpdateFacts ==
    ASSUME NEW size \in Nat, NEW map \in TrackMap(size), NEW tid \in Nat, NEW id \in 0..(size - 1),
           NEW next, next = Update(map, tid, id)
    PROVE  /\ next \in TrackMap(size) /\ Later(map, next)
           /\ next[id] = tid \/ next[id] = IsShared
<1> DEFINE v == IF map[id] = IsShared THEN map[id]
                ELSE IF map[id] = Invalid THEN tid
                ELSE IF map[id] # tid THEN IsShared ELSE map[id]
<1>1. next = [map EXCEPT ![id] = v]
  BY DEF Update
<1>2. v \in Tid /\ (v = tid \/ v = IsShared) /\ (map[id] # Invalid => v = map[id] \/ v = IsShared)
      /\ (map[id] = IsShared => v = IsShared)
  BY DEF Tid, TrackMap
<1> HIDE DEF v
<1>3. /\ next \in TrackMap(size) /\ next[id] = v /\ DOMAIN map = 0..(size - 1)
      /\ \A k \in 0..(size - 1) : k # id => next[k] = map[k]
  BY <1>1, <1>2 DEF TrackMap
<1> QED
  BY <1>2, <1>3 DEF Later

Share(map, id) == [map EXCEPT ![id] = IsShared]

LEMMA ShareFacts ==
    ASSUME NEW size \in Nat, NEW map \in TrackMap(size), NEW id \in 0..(size - 1),
           NEW next, next = Share(map, id)
    PROVE  next \in TrackMap(size) /\ Later(map, next) /\ next[id] = IsShared
  BY DEF TrackMap, Tid, Later, Share

LEMMA LaterSelf ==
    ASSUME NEW map
    PROVE  Later(map, map)
  BY DEF Later

\* After the first k events an object's entry tells its only thread, or that it is shared.
Tracks(map, types, events, k) ==
    \A i \in 1..k : events[i].type \in types =>
        map[events[i].target] = events[i].tid \/ map[events[i].target] = IsShared
Notified(map, events, k) ==
    \A i \in 1..k : events[i].type \in NotifTypes => map[-events[i].target] = IsShared

MapsOf(header) == [locks : TrackMap(header.locks), vars : TrackMap(header.vars)]

SeenOK(maps, header, events, k) ==
    /\ maps \in MapsOf(header)
    /\ Tracks(maps.locks, LockTypes, events, k) /\ Tracks(maps.vars, AccessTypes, events, k)
    /\ Notified(maps.locks, events, k)

LEMMA TracksOneMore ==
    ASSUME NEW size \in Nat, NEW map \in TrackMap(size), NEW next, Later(map, next),
           NEW types, NEW events, NEW k \in Nat \ {0}, Tracks(map, types, events, k - 1),
           \A i \in 1..k : events[i].type \in types =>
              events[i].target \in 0..(size - 1) /\ events[i].tid \in Nat,
           events[k].type \in types =>
              next[events[k].target] = events[k].tid \/ next[events[k].target] = IsShared
    PROVE  Tracks(next, types, events, k)
<1> SUFFICES ASSUME NEW i \in 1..k, events[i].type \in types
             PROVE  next[events[i].target] = events[i].tid \/ next[events[i].target] = IsShared
  BY DEF Tracks
<1> DEFINE id == events[i].target
           t == events[i].tid
<1>1. id \in 0..(size - 1) /\ t \in Nat /\ DOMAIN map = 0..(size - 1)
  BY DEF TrackMap
<1>2. CASE i = k
  BY <1>2
<1>3. CASE i # k
  <2>1. i \in 1..(k-1)
    BY <1>3
  <2>2. map[id] = t \/ map[id] = IsShared
    BY <2>1 DEF Tracks
  <2>3. t # Invalid
    BY <1>1 DEF Invalid
  <2> HIDE DEF id, t
  <2>4. next[id] = t \/ next[id] = IsShared
    BY <1>1, <2>2, <2>3 DEF Later
  <2> QED
    BY <2>4 DEF id, t
<1> QED
  BY <1>2, <1>3

LEMMA NotifiedOneMore ==
    ASSUME NEW size \in Nat, NEW map \in TrackMap(size), NEW next, Later(map, next),
           NEW events, NEW k \in Nat \ {0}, Notified(map, events, k - 1),
           \A i \in 1..k : events[i].type \in NotifTypes => -events[i].target \in 0..(size - 1),
           events[k].type \in NotifTypes => next[-events[k].target] = IsShared
    PROVE  Notified(next, events, k)
<1> SUFFICES ASSUME NEW i \in 1..k, events[i].type \in NotifTypes
             PROVE  next[-events[i].target] = IsShared
  BY DEF Notified
<1>1. CASE i = k
  BY <1>1
<1>2. CASE i # k
  <2>1. i \in 1..(k-1)
    BY <1>2
  <2>2. map[-events[i].target] = IsShared /\ -events[i].target \in DOMAIN map
    BY <2>1 DEF Notified, TrackMap
  <2> QED
    BY <2>2 DEF Later
<1> QED
  BY <1>1, <1>2

EventsInCounts(events, header) ==
    /\ events \in Seq(Item) /\ header \in Header
    /\ \A i \in 1..Len(events) : InCounts(events[i], header)

LEMMA SeenStep ==
    ASSUME NEW header \in Header, NEW e, InCounts(e, header), NEW maps \in MapsOf(header),
           NEW next, next = Seen(maps, e)
    PROVE  /\ next \in MapsOf(header)
           /\ Later(maps.locks, next.locks) /\ Later(maps.vars, next.vars)
           /\ e.type \in LockTypes => next.locks[e.target] = e.tid \/ next.locks[e.target] = IsShared
           /\ e.type \in NotifTypes => next.locks[-e.target] = IsShared
           /\ e.type \in AccessTypes => next.vars[e.target] = e.tid \/ next.vars[e.target] = IsShared
<1> DEFINE L == header.locks
           V == header.vars
<1>1. L \in Nat /\ V \in Nat /\ header.threads \in Nat
  BY DEF Header
<1>2. maps.locks \in TrackMap(L) /\ maps.vars \in TrackMap(V)
  BY DEF MapsOf
<1>3. /\ e.tid \in Nat
      /\ e.type \in LockTypes => e.target \in 0..(L - 1)
      /\ e.type \in NotifTypes => -e.target \in 0..(L - 1)
      /\ e.type \in AccessTypes => e.target \in 0..(V - 1)
  BY <1>1, TypesApart DEF InCounts
<1>4. /\ next = [locks |-> next.locks, vars |-> next.vars]
      /\ e.type \in LockTypes => next.locks = Update(maps.locks, e.tid, e.target)
      /\ e.type \in NotifTypes => next.locks = [maps.locks EXCEPT ![-e.target] = IsShared]
      /\ e.type \notin LockTypes \cup NotifTypes => next.locks = maps.locks
      /\ e.type \in AccessTypes => next.vars = Update(maps.vars, e.tid, e.target)
      /\ e.type \notin AccessTypes => next.vars = maps.vars
  <2> DEFINE l == CASE e.type \in LockTypes -> Update(maps.locks, e.tid, e.target)
                    [] e.type \in NotifTypes -> [maps.locks EXCEPT ![-e.target] = IsShared]
                    [] OTHER -> maps.locks
             v == IF e.type \in AccessTypes THEN Update(maps.vars, e.tid, e.target) ELSE maps.vars
  <2>1. next = [locks |-> l, vars |-> v]
    BY DEF Seen, AssSyncObj
  <2>2. /\ e.type \in LockTypes => l = Update(maps.locks, e.tid, e.target)
        /\ e.type \in NotifTypes => l = [maps.locks EXCEPT ![-e.target] = IsShared]
        /\ e.type \notin LockTypes \cup NotifTypes => l = maps.locks
        /\ e.type \in AccessTypes => v = Update(maps.vars, e.tid, e.target)
        /\ e.type \notin AccessTypes => v = maps.vars
    BY TypesApart
  <2> HIDE DEF l, v
  <2>3. next.locks = l /\ next.vars = v
    BY <2>1
  <2> QED
    BY <2>1, <2>2, <2>3
<1> HIDE DEF L, V
<1>5. /\ next.locks \in TrackMap(L) /\ Later(maps.locks, next.locks)
      /\ e.type \in LockTypes => next.locks[e.target] = e.tid \/ next.locks[e.target] = IsShared
      /\ e.type \in NotifTypes => next.locks[-e.target] = IsShared
  <2>1. CASE e.type \in LockTypes
    <3>1. e.type \notin NotifTypes
      BY <2>1, TypesApart
    <3> QED
      BY <1>1, <1>2, <1>3, <1>4, <2>1, <3>1, UpdateFacts
  <2>2. CASE e.type \in NotifTypes
    <3>1. e.type \notin LockTypes
      BY <2>2, TypesApart
    <3> DEFINE id == -e.target
    <3>2. next.locks = Share(maps.locks, id)
      BY <1>4, <2>2 DEF Share
    <3>3. id \in 0..(L - 1)
      BY <1>3, <2>2
    <3> HIDE DEF id
    <3>4. next.locks \in TrackMap(L) /\ Later(maps.locks, next.locks) /\ next.locks[id] = IsShared
      BY <1>1, <1>2, <3>2, <3>3, ShareFacts
    <3> QED
      BY <3>1, <3>4 DEF id
  <2>3. CASE e.type \notin LockTypes \cup NotifTypes
    BY <1>2, <1>4, <2>3, LaterSelf
  <2> QED
    BY <2>1, <2>2, <2>3
<1>6. /\ next.vars \in TrackMap(V) /\ Later(maps.vars, next.vars)
      /\ e.type \in AccessTypes => next.vars[e.target] = e.tid \/ next.vars[e.target] = IsShared
  <2>1. CASE e.type \in AccessTypes
    BY <1>1, <1>2, <1>3, <1>4, <2>1, UpdateFacts
  <2>2. CASE e.type \notin AccessTypes
    BY <1>2, <1>4, <2>2, LaterSelf
  <2> QED
    BY <2>1, <2>2
<1>7. next \in MapsOf(header)
  BY <1>4, <1>5, <1>6 DEF MapsOf, L, V
<1> QED
  BY <1>5, <1>6, <1>7

LEMMA SeenFacts ==
    ASSUME NEW events, NEW header, EventsInCounts(events, header),
           NEW k \in 1..Len(events), NEW maps, SeenOK(maps, header, events, k - 1),
           NEW next, next = Seen(maps, events[k])
    PROVE  SeenOK(next, header, events, k)
<1> DEFINE L == header.locks
           V == header.vars
<1>1. L \in Nat /\ V \in Nat /\ k \in Nat \ {0} /\ Len(events) \in Nat /\ header \in Header
  BY LenProperties DEF EventsInCounts, Header
<1>2. maps \in MapsOf(header) /\ maps.locks \in TrackMap(L) /\ maps.vars \in TrackMap(V)
  BY DEF SeenOK, MapsOf
<1>3. \A i \in 1..k :
         /\ events[i].tid \in Nat
         /\ events[i].type \in LockTypes => events[i].target \in 0..(L - 1)
         /\ events[i].type \in NotifTypes => -events[i].target \in 0..(L - 1)
         /\ events[i].type \in AccessTypes => events[i].target \in 0..(V - 1)
  <2> TAKE i \in 1..k
  <2>1. i \in 1..Len(events)
    BY <1>1
  <2>2. InCounts(events[i], header) /\ header.threads \in Nat
    BY <2>1 DEF EventsInCounts, Header
  <2> QED
    BY <2>2, TypesApart DEF InCounts
<1> HIDE DEF L, V
<1>4. InCounts(events[k], header)
  BY DEF EventsInCounts
<1>5. /\ next \in MapsOf(header)
      /\ Later(maps.locks, next.locks) /\ Later(maps.vars, next.vars)
      /\ events[k].type \in LockTypes =>
            next.locks[events[k].target] = events[k].tid \/ next.locks[events[k].target] = IsShared
      /\ events[k].type \in NotifTypes => next.locks[-events[k].target] = IsShared
      /\ events[k].type \in AccessTypes =>
            next.vars[events[k].target] = events[k].tid \/ next.vars[events[k].target] = IsShared
  BY <1>1, <1>2, <1>4, SeenStep
<1>7. /\ Tracks(maps.locks, LockTypes, events, k - 1) /\ Tracks(maps.vars, AccessTypes, events, k - 1)
      /\ Notified(maps.locks, events, k - 1)
  BY DEF SeenOK
<1>8. Tracks(next.locks, LockTypes, events, k)
  BY <1>1, <1>2, <1>3, <1>5, <1>7, TracksOneMore
<1>9. Tracks(next.vars, AccessTypes, events, k)
  BY <1>1, <1>2, <1>3, <1>5, <1>7, TracksOneMore
<1>10. Notified(next.locks, events, k)
  BY <1>1, <1>2, <1>3, <1>5, <1>7, NotifiedOneMore
<1> QED
  BY <1>5, <1>8, <1>9, <1>10 DEF SeenOK

\* The maps after the first pass.
SeenUpTo(maps, events) ==
    LET seen[i \in 0..Len(events)] ==
            IF i = 0 THEN maps ELSE Seen(seen[i-1], events[i])
    IN seen[Len(events)]

LEMMA SeenUpToFacts ==
    ASSUME NEW events, NEW header, EventsInCounts(events, header),
           NEW maps, SeenOK(maps, header, events, 0)
    PROVE  SeenOK(SeenUpTo(maps, events), header, events, Len(events))
<1> DEFINE n == Len(events)
           A == MapsOf(header)
           F == [x \in (1..n) \X A |-> Seen(x[2], events[x[1]])]
           Rec(f) == [i \in 0..n |-> IF i = 0 THEN maps ELSE Seen(f[i-1], events[i])]
           g == CHOOSE f : f = Rec(f)
<1>1. SeenUpTo(maps, events) = g[n]
  BY DEF SeenUpTo
<1>2. /\ n \in Nat /\ header \in Header /\ maps \in A
      /\ \A i \in 1..n : InCounts(events[i], header)
  BY LenProperties DEF EventsInCounts, SeenOK
<1>3. \A i \in 1..n, m \in A : F[<<i, m>>] = Seen(m, events[i])
  OBVIOUS
<1>4. \A i \in 1..n, m \in A : F[<<i, m>>] \in A
  BY <1>2, <1>3, SeenStep
<1> HIDE DEF F, n, A
<1>6. PICK h : Iterates(h, n, A, maps, F)
  BY <1>2, <1>4, IterationExists
<1>7. h = [i \in 0..n |-> IF i = 0 THEN maps ELSE F[<<i, h[i-1]>>]]
  BY <1>2, <1>6, IterationOf
<1>8. \A i \in 0..n : i # 0 => F[<<i, h[i-1]>>] = Seen(h[i-1], events[i])
  <2>1. \A i \in 0..n : i # 0 => i - 1 \in 0..n /\ i \in 1..n
    BY <1>2
  <2> QED
    BY <1>3, <1>6, <2>1 DEF Iterates
<1>9. h = Rec(h)
  BY <1>7, <1>8
<1>10. g = Rec(g)
  BY <1>9
<1>11. \A i \in 0..n : g[i] = IF i = 0 THEN maps ELSE Seen(g[i-1], events[i])
  BY <1>10
<1> HIDE DEF g, Rec
<1> DEFINE G == {i \in 0..n : SeenOK(g[i], header, events, i)}
<1>12. 0 \in G
  <2>1. g[0] = maps /\ 0 \in 0..n
    BY <1>2, <1>11
  <2> QED
    BY <2>1
<1>13. ASSUME NEW i \in 1..n, i - 1 \in G
       PROVE  i \in G
  <2>1. i \in 0..n /\ i # 0 /\ g[i] = Seen(g[i-1], events[i])
    BY <1>2, <1>11
  <2> DEFINE m == g[i-1]
  <2>2. SeenOK(m, header, events, i - 1) /\ g[i] = Seen(m, events[i]) /\ i \in 1..Len(events)
    BY <1>13, <2>1 DEF n
  <2> HIDE DEF m
  <2>3. SeenOK(g[i], header, events, i)
    BY <2>2, SeenFacts
  <2> QED
    BY <2>1, <2>3
<1>14. n \in G
  <2> HIDE DEF G
  <2>1. \A i \in 0..n : i \in G
    BY <1>2, <1>12, <1>13, InductionUpTo
  <2> QED
    BY <1>2, <2>1
<1> QED
  BY <1>1, <1>14 DEF n

-----------------------------------------------------------------------------
(* The new identifiers.                                                    *)

\* Identifiers that are left are from one to below the total, and of different objects.
Numbered(map, size, total) ==
    /\ DOMAIN map = 0..(size - 1) /\ total \in Nat
    /\ \A id \in DOMAIN map : map[id] = Invalid \/ map[id] \in 1..(total - 1)
    /\ \A i, j \in DOMAIN map : map[i] = map[j] /\ map[i] # Invalid => i = j

LEMMA RenumberFacts ==
    ASSUME NEW size \in Nat, NEW map \in TrackMap(size)
    PROVE  /\ Numbered(Renumber(map), size, CountOf(map)) /\ CountOf(map) \in Nat
           /\ \A id \in 0..(size - 1) : Renumber(map)[id] = Invalid <=> map[id] # IsShared
<1> DEFINE D == 0..(size - 1)
           S == {j \in D : map[j] = IsShared}
           Before(id) == {j \in D : j <= id /\ map[j] = IsShared}
           number == [id \in D |-> Cardinality(Before(id))]
<1>1. DOMAIN map = D
  BY DEF TrackMap
<1>2. IsFiniteSet(S) /\ Cardinality(S) \in Nat
  <2> DEFINE b == size - 1
  <2>1. b \in Int /\ 0 \in Int
    OBVIOUS
  <2> HIDE DEF b
  <2>2. IsFiniteSet(0..b)
    BY <2>1, FS_Interval
  <2>3. IsFiniteSet(D) /\ S \in SUBSET D
    BY <2>2 DEF b
  <2> HIDE DEF D, S
  <2> QED
    BY <2>3, FS_Subset, FS_CardinalityType
<1>3. \A id \in S : number[id] \in 1..Cardinality(S)
  <2> TAKE id \in S
  <2> DEFINE B == Before(id)
  <2>1. B \in SUBSET S /\ id \in B
    OBVIOUS
  <2>2. number[id] = Cardinality(B)
    OBVIOUS
  <2> HIDE DEF B, S, number
  <2>3. IsFiniteSet(B) /\ Cardinality(B) <= Cardinality(S) /\ Cardinality(B) \in Nat
    BY <1>2, <2>1, FS_Subset, FS_CardinalityType
  <2>4. Cardinality(B) # 0
    BY <2>1, <2>3, FS_EmptySet
  <2> QED
    BY <1>2, <2>2, <2>3, <2>4
<1>4. ASSUME NEW i \in S, NEW j \in S, i < j
      PROVE  number[i] < number[j]
  <2> DEFINE B == Before(i)
             C == Before(j)
  <2>1. B \in SUBSET C /\ j \in C /\ j \notin B /\ C \in SUBSET S
    BY <1>4
  <2>2. number[i] = Cardinality(B) /\ number[j] = Cardinality(C)
    OBVIOUS
  <2> HIDE DEF B, C, S, number
  <2>3. IsFiniteSet(C) /\ Cardinality(C) \in Nat
    BY <1>2, <2>1, FS_Subset, FS_CardinalityType
  <2>4. /\ Cardinality(B) <= Cardinality(C) /\ Cardinality(B) \in Nat
        /\ Cardinality(B) = Cardinality(C) => B = C
    BY <2>1, <2>3, FS_Subset, FS_CardinalityType
  <2> QED
    BY <2>1, <2>2, <2>3, <2>4
<1>5. /\ DOMAIN Renumber(map) = D
      /\ \A id \in D : Renumber(map)[id] = IF id \in S THEN number[id] ELSE Invalid
  BY <1>1 DEF Renumber
<1>6. S # {} => D # {} /\ CountOf(map) = 1 + Cardinality(S)
  BY <1>1 DEF CountOf
<1>7. CountOf(map) \in Nat
  <2>1. CountOf(map) = IF D = {} THEN 0 ELSE 1 + Cardinality(S)
    BY <1>1 DEF CountOf
  <2> HIDE DEF D, S
  <2> QED
    BY <1>2, <2>1
<1>8. \A id \in D : Renumber(map)[id] = Invalid <=> id \notin S
  <2> HIDE DEF S, number, D
  <2> QED
    BY <1>2, <1>3, <1>5 DEF Invalid
<1>9. \A id \in S : Renumber(map)[id] \in 1..(CountOf(map) - 1)
  <2>1. \A id \in S : id \in D /\ Renumber(map)[id] = number[id]
    BY <1>5
  <2>2. \A id \in S : CountOf(map) = 1 + Cardinality(S)
    BY <1>6
  <2> HIDE DEF S, number, D
  <2> QED
    BY <1>2, <1>3, <2>1, <2>2
<1>10. ASSUME NEW i \in D, NEW j \in D, Renumber(map)[i] = Renumber(map)[j], Renumber(map)[i] # Invalid
       PROVE  i = j
  <2>1. i \in S /\ j \in S /\ number[i] = number[j]
    BY <1>5, <1>8, <1>10
  <2>2. i \in Int /\ j \in Int
    OBVIOUS
  <2> HIDE DEF S, number, D
  <2>3. number[i] \in Int /\ number[j] \in Int
    BY <1>2, <1>3, <2>1
  <2> QED
    BY <1>4, <2>1, <2>2, <2>3
<1>11. Numbered(Renumber(map), size, CountOf(map))
  BY <1>5, <1>7, <1>8, <1>9, <1>10 DEF Numbered
<1> QED
  BY <1>7, <1>8, <1>11

-----------------------------------------------------------------------------
(* The invariant.                                                          *)

FileInv ==
    /\ viaText \in BOOLEAN /\ viaJava \in BOOLEAN
    /\ FileOK(file, origin, Threads, viaText, viaJava)

\* A map before the first pass.
Untouched(size) == [id \in 0..(size - 1) |-> Invalid]

\* An object without identifier was used by one thread only.
OneUser(map, types, events) ==
    \A i, j \in DOMAIN events :
        LET d == events[i]  e == events[j]
        IN d.type \in types /\ e.type \in types /\ d.target = e.target /\ map[e.target] = Invalid
              => d.tid = e.tid

NotifiedKept(map, events) ==
    \A i \in DOMAIN events : events[i].type \in NotifTypes => map[-events[i].target] # Invalid

Dropped(e) == e.type \in LockTypes \cup AccessTypes /\ NewId(e) = Invalid
Renamed(e, pos) ==
    [tid |-> e.tid, type |-> e.type, loc |-> e.loc, target |-> NewId(e), pos |-> pos]

HandledInv ==
    /\ at \in 1..(Len(trace) + 1)
    /\ handled \in Seq([tid : Int, type : AllTypes \cup {NoType}, loc : Int, target : Int, pos : Nat])
    /\ \A i \in DOMAIN handled : LET k == handled[i].pos + 1 IN
          /\ k < at
          /\ handled[i] = Renamed(trace[k], handled[i].pos)
          /\ ~Dropped(trace[k]) /\ ~NoValue(trace[k])
    /\ \A i, j \in DOMAIN handled : i < j => handled[i].pos < handled[j].pos
    /\ \A k \in 1..(at - 1) : Dropped(trace[k]) \/ \E i \in DOMAIN handled : handled[i].pos = k - 1

ParserInv ==
    /\ phase \in {"closed", "preprocess", "handle", "aborted", "done"}
    /\ phase \in {"closed", "preprocess"} => trace = <<>> /\ handled = <<>> /\ at = 1
    /\ phase # "closed" => file.enc = "local" /\ threadTotal = file.header.threads
    /\ phase = "preprocess" =>
          locks = Untouched(file.header.locks) /\ vars = Untouched(file.header.vars)
    /\ phase \in {"handle", "aborted", "done"} =>
          /\ trace = EventsOf(file.words)
          /\ Numbered(locks, file.header.locks, lockTotal)
          /\ Numbered(vars, file.header.vars, varTotal)
          /\ OneUser(locks, LockTypes, trace) /\ OneUser(vars, AccessTypes, trace)
          /\ NotifiedKept(locks, trace)
          /\ HandledInv
    /\ phase = "done" => at > Len(trace) \/ (handled = <<>> /\ lockTotal <= 1)

PipeInv == OriginOK /\ FileInv /\ ParserInv

LEMMA OriginSame ==
    ASSUME OriginOK, UNCHANGED origin
    PROVE  OriginOK' /\ Threads' = Threads
  BY DEF OriginOK, TargetFits, Threads, UsedThreads, TargetsOf

LEMMA ParserSame ==
    ASSUME ParserInv, UNCHANGED <<parserVars, file>>
    PROVE  ParserInv'
  BY DEF ParserInv, parserVars, totals, Untouched, EventsOf, Numbered, OneUser, NotifiedKept,
         HandledInv, Dropped, Renamed, NewId, NoValue

\* As long as the parser is closed, its invariant does not depend on the file.
LEMMA ParserClosed ==
    ASSUME ParserInv, phase = "closed", UNCHANGED parserVars
    PROVE  ParserInv'
  BY DEF ParserInv, parserVars, totals

\* What the parser reads, once it is open.
LEMMA OpenFileFacts ==
    ASSUME OriginOK, FileInv, file.enc = "local"
    PROVE  /\ EventsInCounts(EventsOf(file.words), file.header)
           /\ WordsOK(file.words, file.header, origin, Threads, viaText, viaJava)
           /\ AllReal(file.words) /\ MaskHeader(file.header) = file.header
<1>1. WordsOK(file.words, file.header, origin, Threads, viaText, viaJava) /\ AllReal(file.words)
  BY DEF FileInv, FileOK
<1>2. /\ file.words \in Seq(Nat) /\ file.header \in Header /\ file.header.threads <= Threads
      /\ \A i \in DOMAIN file.words :
            Real(BinToEv(file.words[i])) => InCounts(BinToEv(file.words[i]), file.header)
  BY <1>1 DEF WordsOK
<1>3. EventsInCounts(EventsOf(file.words), file.header)
  BY <1>1, <1>2, EventsOfFacts DEF EventsInCounts, AllReal
<1>4. MaskThreadCount(file.header.threads) = file.header.threads
  <2> DEFINE n == file.header.threads
  <2>1. n \in Nat /\ n <= Threads /\ Threads \in 0..MaxThreads
    BY <1>2, OriginCounts DEF Header
  <2> HIDE DEF n
  <2>2. CountRange \in Nat \ {0} /\ n \in 0..(CountRange - 1)
    BY <2>1, Bounds, RangeFacts
  <2>3. n % CountRange = n
    BY <2>2, ModSmall
  <2> QED
    BY <2>3 DEF MaskThreadCount, n
<1>5. MaskHeader(file.header) = file.header
  BY <1>2, <1>4 DEF MaskHeader, Header
<1> QED
  BY <1>1, <1>3, <1>5

LEMMA OpenKeeps ==
    ASSUME OriginOK, FileInv, ParserInv, file.enc = "local", OpenFile(file.header), UNCHANGED file
    PROVE  ParserInv'
<1>1. MaskHeader(file.header) = file.header
  BY OpenFileFacts
<1>2. /\ phase' = "preprocess" /\ threadTotal' = file.header.threads
      /\ locks' = Untouched(file.header.locks) /\ vars' = Untouched(file.header.vars)
      /\ trace' = trace /\ handled' = handled /\ at' = at
  BY <1>1 DEF OpenFile, Untouched
<1>3. trace = <<>> /\ handled = <<>> /\ at = 1
  BY DEF ParserInv, OpenFile
<1> QED
  BY <1>2, <1>3 DEF ParserInv, Untouched

LEMMA UntouchedFacts ==
    ASSUME NEW events, NEW header, EventsInCounts(events, header),
           NEW maps, maps = [locks |-> Untouched(header.locks), vars |-> Untouched(header.vars)]
    PROVE  SeenOK(maps, header, events, 0)
<1>1. Untouched(header.locks) \in TrackMap(header.locks) /\ Untouched(header.vars) \in TrackMap(header.vars)
  BY DEF Untouched, TrackMap, Tid
<1> QED
  BY <1>1 DEF SeenOK, MapsOf, Tracks, Notified

\* Objects that the first pass did not find shared have one user.
LEMMA OneUserFacts ==
    ASSUME NEW events, NEW size \in Nat, NEW map \in TrackMap(size), NEW types,
           DOMAIN events = 1..Len(events),
           Tracks(map, types, events, Len(events)),
           \A i \in 1..Len(events) : events[i].type \in types => events[i].target \in 0..(size - 1)
    PROVE  OneUser(Renumber(map), types, events)
<1> SUFFICES ASSUME NEW i \in 1..Len(events), NEW j \in 1..Len(events),
                    events[i].type \in types, events[j].type \in types,
                    events[i].target = events[j].target, Renumber(map)[events[j].target] = Invalid
             PROVE  events[i].tid = events[j].tid
  BY DEF OneUser
<1>1. map[events[j].target] # IsShared
  BY RenumberFacts
<1> QED
  BY <1>1 DEF Tracks

LEMMA PreprocessKeeps ==
    ASSUME OriginOK, FileInv, ParserInv, Preprocess([i \in DOMAIN file.words |-> BinToEv(file.words[i])]),
           UNCHANGED file
    PROVE  ParserInv'
<1> DEFINE events == EventsOf(file.words)
           header == file.header
           start == [locks |-> locks, vars |-> vars]
           maps == SeenUpTo(start, events)
           n == Len(events)
<1>0. Preprocess(events)
  BY DEF EventsOf
<1>1. /\ locks = Untouched(header.locks) /\ vars = Untouched(header.vars) /\ file.enc = "local"
      /\ handled = <<>> /\ at = 1 /\ threadTotal = header.threads
  BY <1>0 DEF ParserInv, Preprocess
<1>2. EventsInCounts(events, header)
  BY <1>1, OpenFileFacts
<1>3. /\ locks' = Renumber(maps.locks) /\ vars' = Renumber(maps.vars)
      /\ lockTotal' = CountOf(maps.locks) /\ varTotal' = CountOf(maps.vars)
      /\ phase' = IF lockTotal' <= 1 THEN "done" ELSE "handle"
      /\ trace' = events /\ threadTotal' = threadTotal /\ handled' = handled /\ at' = at
  BY <1>0 DEF Preprocess, SeenUpTo
<1> HIDE DEF events
<1>4. SeenOK(start, header, events, 0)
  BY <1>1, <1>2, UntouchedFacts
<1> HIDE DEF start
<1>5. SeenOK(maps, header, events, n)
  BY <1>2, <1>4, SeenUpToFacts
<1> HIDE DEF maps
<1>6. /\ events \in Seq(Item) /\ n \in Nat /\ DOMAIN events = 1..n
      /\ header.locks \in Nat /\ header.vars \in Nat /\ header.threads \in Nat
      /\ \A i \in 1..n : InCounts(events[i], header)
  BY <1>2, LenProperties DEF EventsInCounts, Header
<1>7. /\ maps.locks \in TrackMap(header.locks) /\ maps.vars \in TrackMap(header.vars)
      /\ Tracks(maps.locks, LockTypes, events, n) /\ Tracks(maps.vars, AccessTypes, events, n)
      /\ Notified(maps.locks, events, n)
  BY <1>5 DEF SeenOK, MapsOf
<1> HIDE DEF header
<1>8. /\ Numbered(locks', header.locks, lockTotal') /\ Numbered(vars', header.vars, varTotal')
      /\ \A id \in 0..(header.locks - 1) : locks'[id] = Invalid <=> maps.locks[id] # IsShared
  BY <1>3, <1>6, <1>7, RenumberFacts
<1>9. /\ OneUser(locks', LockTypes, events) /\ OneUser(vars', AccessTypes, events)
  <2>1. \A i \in 1..n : /\ events[i].type \in LockTypes => events[i].target \in 0..(header.locks - 1)
                        /\ events[i].type \in AccessTypes => events[i].target \in 0..(header.vars - 1)
    BY <1>6 DEF InCounts
  <2>2. OneUser(Renumber(maps.locks), LockTypes, events)
    BY <1>6, <1>7, <2>1, OneUserFacts
  <2>3. OneUser(Renumber(maps.vars), AccessTypes, events)
    BY <1>6, <1>7, <2>1, OneUserFacts
  <2> QED
    BY <1>3, <2>2, <2>3
<1>10. NotifiedKept(locks', events)
  <2> SUFFICES ASSUME NEW i \in 1..n, events[i].type \in NotifTypes
               PROVE  locks'[-events[i].target] # Invalid
    BY <1>6 DEF NotifiedKept
  <2>1. -events[i].target \in 0..(header.locks - 1)
    BY <1>6, TypesApart DEF InCounts
  <2>2. maps.locks[-events[i].target] = IsShared
    BY <1>7 DEF Notified
  <2> QED
    BY <1>8, <2>1, <2>2
<1>11. HandledInv'
  <2>1. handled' = <<>> /\ at' = 1 /\ trace' = events /\ 1 \in 1..(n + 1)
    BY <1>1, <1>3, <1>6
  <2>2. 1..(1 - 1) = {} /\ DOMAIN <<>> = {}
    OBVIOUS
  <2> QED
    BY <2>1, <2>2 DEF HandledInv
<1>12. phase' \in {"handle", "done"} /\ (phase' = "done" => lockTotal' <= 1)
  BY <1>3
<1>13. file' = file /\ trace' = EventsOf(file.words)
  BY <1>3 DEF events
<1> QED
  BY <1>1, <1>3, <1>8, <1>9, <1>10, <1>11, <1>12, <1>13
     DEF ParserInv, header, Numbered, OneUser, NotifiedKept

\* The parser has its new identifiers, and reads the trace of the file.
Reading == phase \in {"handle", "aborted", "done"}

LEMMA ReadingFacts ==
    ASSUME OriginOK, FileInv, ParserInv, Reading
    PROVE  /\ trace = EventsOf(file.words) /\ trace \in Seq(Item) /\ DOMAIN trace = 1..Len(trace)
           /\ Len(trace) \in Nat
           /\ Numbered(locks, file.header.locks, lockTotal) /\ Numbered(vars, file.header.vars, varTotal)
           /\ OneUser(locks, LockTypes, trace) /\ OneUser(vars, AccessTypes, trace)
           /\ NotifiedKept(locks, trace) /\ HandledInv
           /\ threadTotal = file.header.threads /\ threadTotal \in Nat
           /\ \A k \in 1..Len(trace) :
                 InCounts(trace[k], file.header) /\ Real(trace[k]) /\ trace[k] \in Item
           /\ Faithful(trace, origin, FALSE, Threads <= ThreadRange, ~viaText)
           /\ trace # <<>> => Complete(trace, origin, viaJava)
<1>1. file.enc = "local" /\ threadTotal = file.header.threads
  BY DEF ParserInv, Reading
<1>2. /\ trace = EventsOf(file.words)
      /\ Numbered(locks, file.header.locks, lockTotal) /\ Numbered(vars, file.header.vars, varTotal)
      /\ OneUser(locks, LockTypes, trace) /\ OneUser(vars, AccessTypes, trace)
      /\ NotifiedKept(locks, trace) /\ HandledInv
  BY DEF ParserInv, Reading
<1>3. /\ EventsInCounts(trace, file.header)
      /\ WordsOK(file.words, file.header, origin, Threads, viaText, viaJava) /\ AllReal(file.words)
  BY <1>1, <1>2, OpenFileFacts
<1>4. file.words \in Seq(Nat) /\ file.header \in Header
  BY <1>3 DEF WordsOK
<1>5. /\ Len(trace) = Len(file.words) /\ DOMAIN file.words = 1..Len(trace)
      /\ \A k \in 1..Len(trace) : trace[k] = BinToEv(file.words[k]) /\ trace[k] \in Item
  BY <1>2, <1>4, EventsOfFacts
<1>6. trace \in Seq(Item) /\ DOMAIN trace = 1..Len(trace) /\ Len(trace) \in Nat
  BY <1>3, LenProperties DEF EventsInCounts
<1>7. \A k \in 1..Len(trace) : Real(trace[k])
  BY <1>3, <1>5 DEF AllReal
<1>8. trace # <<>> => file.words # <<>>
  BY <1>4, <1>5, <1>6, EmptySeq
<1> QED
  BY <1>1, <1>2, <1>3, <1>4, <1>5, <1>6, <1>7, <1>8 DEF EventsInCounts, WordsOK, Header

\* What the second pass makes of an identifier that it keeps.
LEMMA NewIdFacts ==
    ASSUME OriginOK, FileInv, ParserInv, Reading,
           NEW k \in 1..Len(trace), ~Dropped(trace[k]), ~NoValue(trace[k])
    PROVE  LET e == trace[k]
           IN /\ e.type \in LockTypes =>
                    /\ e.target \in DOMAIN locks /\ NewId(e) = locks[e.target]
                    /\ locks[e.target] # Invalid /\ NewId(e) \in 1..(lockTotal - 1)
              /\ e.type \in AccessTypes =>
                    /\ e.target \in DOMAIN vars /\ NewId(e) = vars[e.target]
                    /\ vars[e.target] # Invalid /\ NewId(e) \in 1..(varTotal - 1)
              /\ e.type \in CondVarTypes =>
                    /\ -e.target \in DOMAIN locks /\ NewId(e) = -locks[-e.target]
                    /\ locks[-e.target] # Invalid /\ locks[-e.target] \in 1..(lockTotal - 1)
              /\ e.type \notin LockTypes \cup AccessTypes \cup CondVarTypes => NewId(e) = e.target
              /\ NewId(e) \in Int
<1> DEFINE e == trace[k]
<1>1. InCounts(e, file.header) /\ e \in Item
  BY ReadingFacts
<1>2. Numbered(locks, file.header.locks, lockTotal) /\ Numbered(vars, file.header.vars, varTotal)
  BY ReadingFacts
<1>3. ~Dropped(e) /\ ~NoValue(e)
  OBVIOUS
<1> HIDE DEF e
<1>4. /\ e.type \in LockTypes => e.target \in DOMAIN locks
      /\ e.type \in CondVarTypes => -e.target \in DOMAIN locks
      /\ e.type \in AccessTypes => e.target \in DOMAIN vars
  BY <1>1, <1>2 DEF InCounts, Numbered
<1>5. /\ e.type \in LockTypes => NewId(e) = locks[e.target]
      /\ e.type \in AccessTypes => NewId(e) = vars[e.target]
      /\ e.type \in CondVarTypes => NewId(e) = -locks[-e.target]
      /\ e.type \notin LockTypes \cup AccessTypes \cup CondVarTypes => NewId(e) = e.target
  BY TypesApart DEF NewId, AssSyncObj
<1>6. /\ e.type \in LockTypes => locks[e.target] # Invalid
      /\ e.type \in AccessTypes => vars[e.target] # Invalid
      /\ e.type \in CondVarTypes => locks[-e.target] # Invalid
  BY <1>3, <1>5 DEF Dropped, NoValue, AssSyncObj
<1>7. /\ e.type \in LockTypes => locks[e.target] \in 1..(lockTotal - 1)
      /\ e.type \in AccessTypes => vars[e.target] \in 1..(varTotal - 1)
      /\ e.type \in CondVarTypes => locks[-e.target] \in 1..(lockTotal - 1)
  BY <1>2, <1>4, <1>6 DEF Numbered
<1>8. NewId(e) \in Int
  BY <1>1, <1>5, <1>7 DEF Item
<1> QED
  BY <1>4, <1>5, <1>6, <1>7, <1>8 DEF e

Handed == [tid : Int, type : AllTypes \cup {NoType}, loc : Int, target : Int, pos : Nat]

LEMMA HandleKeeps ==
    ASSUME OriginOK, FileInv, ParserInv, HandleEvent, UNCHANGED file
    PROVE  ParserInv'
<1> DEFINE e == trace[at]
           h == Renamed(e, at - 1)
           n == Len(handled)
<1>1. Reading /\ phase = "handle" /\ at <= Len(trace) /\ ~NoValue(e)
  BY DEF HandleEvent, Reading
<1>2. /\ handled' = IF Dropped(e) THEN handled ELSE Append(handled, h)
      /\ at' = at + 1
      /\ UNCHANGED <<phase, trace, locks, vars, threadTotal, lockTotal, varTotal>>
  BY DEF HandleEvent, Dropped, Renamed, totals
<1>3. HandledInv /\ trace \in Seq(Item) /\ Len(trace) \in Nat
  BY <1>1, ReadingFacts
<1>4. at \in 1..Len(trace) /\ at - 1 \in Nat /\ at' \in 1..(Len(trace) + 1)
  BY <1>1, <1>2, <1>3 DEF HandledInv
<1>5. handled \in Seq(Handed) /\ n \in Nat /\ DOMAIN handled = 1..n
  BY <1>3, LenProperties DEF HandledInv, Handed
<1>6. /\ \A i \in 1..n : /\ handled[i].pos + 1 < at /\ handled[i].pos \in Nat
                         /\ handled[i] = Renamed(trace[handled[i].pos + 1], handled[i].pos)
                         /\ ~Dropped(trace[handled[i].pos + 1]) /\ ~NoValue(trace[handled[i].pos + 1])
      /\ \A i, j \in 1..n : i < j => handled[i].pos < handled[j].pos
      /\ \A k \in 1..(at - 1) : Dropped(trace[k]) \/ \E i \in 1..n : handled[i].pos = k - 1
  <2>1. \A i \in 1..n : handled[i].pos \in Nat
    <3> SUFFICES ASSUME NEW i \in 1..n PROVE handled[i].pos \in Nat
      OBVIOUS
    <3> HIDE DEF n
    <3>1. handled[i] \in Handed
      <4>1. 1..n = 1..Len(handled)
        BY DEF n
      <4> QED
        BY <1>5, <4>1, ElementOfSeq
    <3> QED
      BY <3>1 DEF Handed
  <2> QED
    BY <1>3, <1>5, <2>1 DEF HandledInv
<1>7. \A k \in 1..(at' - 1) : k = at \/ k \in 1..(at - 1)
  BY <1>2, <1>4
<1>8. /\ \A x : Dropped(x)' <=> Dropped(x)
      /\ \A x : NoValue(x)' <=> NoValue(x)
      /\ \A x, p : Renamed(x, p)' = Renamed(x, p)
  BY <1>2 DEF Dropped, NoValue, Renamed, NewId
<1> DEFINE HandedOK ==
             /\ handled' \in Seq(Handed)
             /\ \A i \in DOMAIN handled' :
                   /\ handled'[i].pos + 1 < at'
                   /\ handled'[i] = Renamed(trace[handled'[i].pos + 1], handled'[i].pos)
                   /\ ~Dropped(trace[handled'[i].pos + 1]) /\ ~NoValue(trace[handled'[i].pos + 1])
             /\ \A i, j \in DOMAIN handled' : i < j => handled'[i].pos < handled'[j].pos
             /\ \A k \in 1..(at' - 1) :
                   Dropped(trace[k]) \/ \E i \in DOMAIN handled' : handled'[i].pos = k - 1
<1>9. ASSUME Dropped(e) PROVE HandedOK
  <2>1. handled' = handled
    BY <1>2, <1>9
  <2>2. \A i \in 1..n : handled[i].pos + 1 < at'
    BY <1>2, <1>4, <1>6
  <2>3. \A k \in 1..(at' - 1) : Dropped(trace[k]) \/ \E i \in 1..n : handled[i].pos = k - 1
    BY <1>6, <1>7, <1>9
  <2> QED
    BY <1>5, <1>6, <2>1, <2>2, <2>3
<1>10. ASSUME ~Dropped(e) PROVE HandedOK
  <2>1. NewId(e) \in Int /\ e \in Item
    BY <1>1, <1>4, <1>10, NewIdFacts, ReadingFacts
  <2>2. h \in Handed /\ h.pos = at - 1
    BY <1>4, <2>1 DEF Renamed, Handed, Item
  <2>3. handled' = Append(handled, h)
    BY <1>2, <1>10
  <2>4. trace[(at - 1) + 1] = e /\ h = Renamed(e, at - 1) /\ (at - 1) + 1 < at'
    BY <1>2, <1>4
  <2> HIDE DEF e, h
  <2>5. /\ handled' \in Seq(Handed) /\ DOMAIN handled' = 1..(n + 1) /\ handled'[n + 1] = h
        /\ \A i \in 1..n : handled'[i] = handled[i]
    <3>1. /\ Append(handled, h) \in Seq(Handed) /\ Len(Append(handled, h)) = n + 1
          /\ Append(handled, h)[n + 1] = h /\ \A i \in 1..n : Append(handled, h)[i] = handled[i]
      BY <1>5, <2>2, AppendProperties
    <3> QED
      BY <1>5, <2>3, <3>1, LenProperties
  <2>6. \A i \in 1..(n + 1) : i = n + 1 \/ i \in 1..n
    BY <1>5
  <2>7. \A i \in 1..n : i \in 1..(n + 1)
    BY <1>5
  <2>8. ASSUME NEW i \in DOMAIN handled'
        PROVE  /\ handled'[i].pos + 1 < at'
               /\ handled'[i] = Renamed(trace[handled'[i].pos + 1], handled'[i].pos)
               /\ ~Dropped(trace[handled'[i].pos + 1]) /\ ~NoValue(trace[handled'[i].pos + 1])
    <3>1. CASE i = n + 1
      BY <1>1, <1>10, <2>2, <2>4, <2>5, <3>1 DEF e
    <3>2. CASE i \in 1..n
      <4>1. handled[i].pos + 1 < at'
        BY <1>2, <1>4, <1>6, <3>2
      <4> QED
        BY <1>6, <2>5, <3>2, <4>1
    <3> QED
      BY <2>5, <2>6, <3>1, <3>2
  <2>9. ASSUME NEW i \in DOMAIN handled', NEW j \in DOMAIN handled', i < j
        PROVE  handled'[i].pos < handled'[j].pos
    <3>1. i \in 1..n
      BY <1>5, <2>5, <2>9
    <3>2. CASE j = n + 1
      <4>1. handled[i].pos + 1 < at /\ handled[i].pos \in Nat
        BY <1>6, <3>1
      <4> QED
        BY <1>4, <2>2, <2>5, <3>1, <3>2, <4>1
    <3>3. CASE j \in 1..n
      BY <1>6, <2>5, <2>9, <3>1, <3>3
    <3> QED
      BY <2>5, <2>6, <3>2, <3>3
  <2>10. ASSUME NEW k \in 1..(at' - 1), ~Dropped(trace[k])
         PROVE  \E i \in DOMAIN handled' : handled'[i].pos = k - 1
    <3>1. CASE k = at
      <4>1. n + 1 \in DOMAIN handled'
        BY <1>5, <2>5
      <4> QED
        BY <2>2, <2>5, <3>1, <4>1
    <3>2. CASE k \in 1..(at - 1)
      <4>1. PICK i \in 1..n : handled[i].pos = k - 1
        BY <1>6, <2>10, <3>2
      <4> QED
        BY <2>5, <2>7, <4>1
    <3> QED
      BY <1>7, <3>1, <3>2
  <2> QED
    BY <2>5, <2>8, <2>9, <2>10
<1>11. HandedOK
  BY <1>9, <1>10
<1> HIDE DEF HandedOK
<1>12. HandledInv'
  <2>1. HandedOK
    BY <1>11
  <2>2. at' \in 1..(Len(trace') + 1) /\ trace' = trace
    BY <1>2, <1>4
  <2> QED
    BY <1>8, <2>1, <2>2 DEF HandedOK, HandledInv, Handed
<1>13. /\ trace' = EventsOf(file'.words)
       /\ Numbered(locks', file'.header.locks, lockTotal')
       /\ Numbered(vars', file'.header.vars, varTotal')
       /\ OneUser(locks', LockTypes, trace') /\ OneUser(vars', AccessTypes, trace')
       /\ NotifiedKept(locks', trace')
       /\ phase' = "handle" /\ threadTotal' = file'.header.threads /\ file'.enc = "local"
  <2>1. /\ trace = EventsOf(file.words)
        /\ Numbered(locks, file.header.locks, lockTotal)
        /\ Numbered(vars, file.header.vars, varTotal)
        /\ OneUser(locks, LockTypes, trace) /\ OneUser(vars, AccessTypes, trace)
        /\ NotifiedKept(locks, trace)
        /\ phase = "handle" /\ threadTotal = file.header.threads /\ file.enc = "local"
    BY <1>1 DEF ParserInv
  <2> QED
    BY <1>2, <2>1
<1> QED
  BY <1>12, <1>13 DEF ParserInv, Numbered, OneUser, NotifiedKept, EventsOf

\* The invariant does not depend on whether the trace is still being read.
LEMMA PhaseMoves ==
    ASSUME ParserInv, UNCHANGED file, phase = "handle", phase' \in {"aborted", "done"},
           phase' = "done" => at > Len(trace),
           UNCHANGED <<trace, locks, vars, totals, handled, at>>
    PROVE  ParserInv'
<1>1. /\ file' = file /\ trace' = trace /\ locks' = locks /\ vars' = vars
      /\ lockTotal' = lockTotal /\ varTotal' = varTotal /\ threadTotal' = threadTotal
      /\ handled' = handled /\ at' = at
  BY DEF totals
<1>2. /\ trace = EventsOf(file.words)
      /\ Numbered(locks, file.header.locks, lockTotal)
      /\ Numbered(vars, file.header.vars, varTotal)
      /\ OneUser(locks, LockTypes, trace) /\ OneUser(vars, AccessTypes, trace)
      /\ NotifiedKept(locks, trace)
      /\ HandledInv
      /\ file.enc = "local" /\ threadTotal = file.header.threads
  BY DEF ParserInv
<1>3. HandledInv'
  <2>1. /\ \A x : Dropped(x)' <=> Dropped(x)
        /\ \A x : NoValue(x)' <=> NoValue(x)
        /\ \A x, p : Renamed(x, p)' = Renamed(x, p)
    BY <1>1 DEF Dropped, NoValue, Renamed, NewId
  <2> QED
    BY <1>1, <1>2, <2>1 DEF HandledInv
<1>4. /\ trace' = EventsOf(file'.words)
      /\ Numbered(locks', file'.header.locks, lockTotal')
      /\ Numbered(vars', file'.header.vars, varTotal')
      /\ OneUser(locks', LockTypes, trace') /\ OneUser(vars', AccessTypes, trace')
      /\ NotifiedKept(locks', trace')
      /\ file'.enc = "local" /\ threadTotal' = file'.header.threads
  BY <1>1, <1>2
<1>5. phase' # "preprocess" /\ phase' # "closed"
  OBVIOUS
<1>6. phase' = "done" => at' > Len(trace')
  BY <1>1
<1> QED
  BY <1>3, <1>4, <1>5, <1>6 DEF ParserInv, Numbered, OneUser, NotifiedKept, EventsOf

LEMMA AbortKeeps ==
    ASSUME ParserInv, Abort, UNCHANGED file
    PROVE  ParserInv'
  BY PhaseMoves DEF Abort

LEMMA EndKeeps ==
    ASSUME ParserInv, EndOfTrace, UNCHANGED file
    PROVE  ParserInv'
  BY PhaseMoves DEF EndOfTrace

-----------------------------------------------------------------------------
(* Every step keeps the invariant.                                         *)

LEMMA ConvertKeeps ==
    ASSUME OriginOK, FileInv, ConvertFile
    PROVE  FileInv'
<1>1. /\ FileOK(file, origin, Threads, viaText, viaJava) /\ viaText \in BOOLEAN /\ viaJava \in BOOLEAN
      /\ origin' = origin /\ Threads' = Threads
      /\ viaJava' = (viaJava \/ file'.enc = "java") /\ viaText' = (viaText \/ file'.enc = "std")
  BY OriginSame DEF FileInv, ConvertFile
<1>2. Threads \in Nat /\ Threads <= CountRange - 1
  <2>1. Threads \in 0..MaxThreads
    BY OriginCounts
  <2>2. CountRange \in Nat /\ MaxThreads \in Nat /\ MaxThreads <= CountRange - 1
    BY RangeFacts, Bounds
  <2> QED
    BY <2>1, <2>2
<1>3. DOMAIN origin = 1..Len(origin) /\ Len(origin) \in Nat /\ Len(origin) <= SrcLocRange - 1
  <2>1. DOMAIN origin = 1..Len(origin) /\ Len(origin) \in Nat /\ Len(origin) <= MaxEvents
    BY OriginFacts DEF OriginOK
  <2>2. SrcLocRange \in Nat /\ MaxEvents \in Nat /\ MaxEvents <= SrcLocRange - 1
    BY RangeFacts, Bounds
  <2> QED
    BY <2>1, <2>2
<1>4. CASE StdToLocal
  <2>1. FileOK(file', origin, Threads, viaText, viaJava) /\ file'.enc = "local"
    BY <1>1, <1>2, <1>3, <1>4, StdToLocalKeeps
  <2> QED
    BY <1>1, <2>1 DEF FileInv
<1>5. CASE JavaToLocal
  <2>1. FileOK(file', origin, Threads, viaText, viaJava) /\ file'.enc = "local"
    BY <1>1, <1>2, <1>5, JavaToLocalKeeps
  <2> QED
    BY <1>1, <2>1 DEF FileInv
<1>6. CASE LocalToJava
  <2>1. FileOK(file', origin, Threads, viaText, TRUE) /\ file'.enc = "java"
    BY <1>1, <1>2, <1>6, LocalToJavaKeeps
  <2>2. viaJava' = TRUE /\ viaText' = viaText
    BY <1>1, <2>1
  <2> QED
    BY <1>1, <2>1, <2>2 DEF FileInv
<1>7. CASE LocalToStd
  <2>1. FileOK(file', origin, Threads, TRUE, viaJava) /\ file'.enc = "std"
    BY <1>1, <1>2, <1>7, LocalToStdKeeps
  <2>2. viaJava' = viaJava /\ viaText' = TRUE
    BY <1>1, <2>1
  <2> QED
    BY <1>1, <2>1, <2>2 DEF FileInv
<1> QED
  BY <1>4, <1>5, <1>6, <1>7 DEF ConvertFile, Convert

LEMMA ParseKeeps ==
    ASSUME OriginOK, FileInv, ParserInv, Parse
    PROVE  FileInv' /\ ParserInv'
<1>1. UNCHANGED <<file, history>>
  BY DEF Parse
<1>2. FileInv'
  BY <1>1, OriginSame DEF FileInv, history
<1>3. UNCHANGED file
  BY <1>1
<1>4. ASSUME file.enc = "local" /\ OpenFile(file.header) PROVE ParserInv'
  BY <1>3, <1>4, OpenKeeps
<1>5. ASSUME Preprocess([i \in DOMAIN file.words |-> BinToEv(file.words[i])]) PROVE ParserInv'
  BY <1>3, <1>5, PreprocessKeeps
<1>6. ASSUME HandleEvent PROVE ParserInv'
  BY <1>3, <1>6, HandleKeeps
<1>7. ASSUME Abort PROVE ParserInv'
  BY <1>3, <1>7, AbortKeeps
<1>8. ASSUME EndOfTrace PROVE ParserInv'
  BY <1>3, <1>8, EndKeeps
<1> QED
  BY <1>2, <1>4, <1>5, <1>6, <1>7, <1>8 DEF Parse

LEMMA InitHolds ==
    ASSUME Init
    PROVE  PipeInv
<1>1. origin = <<>> /\ file.enc = "none" /\ viaJava = FALSE /\ viaText = FALSE
  BY DEF Init, BinFile
<1>2. phase = "closed" /\ trace = <<>> /\ handled = <<>> /\ at = 1
  BY DEF Init, ParserInit
<1>3. OriginOK
  <2>1. origin \in Seq(ProgramEvent) /\ Len(origin) = 0 /\ DOMAIN origin = {}
    BY <1>1
  <2>2. 0 <= MaxEvents
    BY Bounds
  <2> QED
    BY <2>1, <2>2 DEF OriginOK
<1>4. FileInv
  BY <1>1 DEF FileInv, FileOK
<1>5. ParserInv
  BY <1>2 DEF ParserInv
<1> QED
  BY <1>3, <1>4, <1>5 DEF PipeInv

LEMMA NextKeeps ==
    ASSUME PipeInv, [Next]_pipelineVars
    PROVE  PipeInv'
<1>1. OriginOK /\ FileInv /\ ParserInv
  BY DEF PipeInv
\* Nothing was read from a file that is not there.
<1>2. Recording => phase = "closed"
  BY <1>1 DEF ParserInv, Recording
<1>3. ASSUME NEW type \in Types, Happen(type) PROVE PipeInv'
  <2>1. /\ UNCHANGED <<file, parserVars, viaJava, viaText>> /\ Recording
    BY <1>3 DEF Happen
  <2>2. OriginOK'
    BY <1>1, <1>3, HappenKeeps
  <2>3. FileInv'
    BY <1>1, <2>1 DEF FileInv, FileOK, Recording
  <2>4. ParserInv'
    BY <1>1, <1>2, <2>1, ParserClosed
  <2> QED
    BY <2>2, <2>3, <2>4 DEF PipeInv
<1>4. CASE RecordText
  <2>1. UNCHANGED <<parserVars, history>> /\ Recording
    BY <1>4 DEF RecordText
  <2>2. OriginOK' /\ Threads' = Threads
    BY <1>1, <2>1, OriginSame DEF history
  <2>3. viaText \in BOOLEAN /\ viaJava \in BOOLEAN
    BY <1>1 DEF FileInv
  <2>4. FileOK(file', origin, Threads, viaText, viaJava)
    BY <1>1, <1>4, <2>3, RecordTextKeeps
  <2>5. ParserInv'
    BY <1>1, <1>2, <2>1, ParserClosed
  <2> QED
    BY <2>1, <2>2, <2>3, <2>4, <2>5 DEF PipeInv, FileInv, history
<1>5. CASE RecordJava
  <2>1. UNCHANGED <<parserVars, history>> /\ Recording
    BY <1>5 DEF RecordJava
  <2>2. OriginOK' /\ Threads' = Threads
    BY <1>1, <2>1, OriginSame DEF history
  <2>3. viaText \in BOOLEAN /\ viaJava \in BOOLEAN
    BY <1>1 DEF FileInv
  <2>4. FileOK(file', origin, Threads, viaText, viaJava)
    BY <1>1, <1>5, <2>3, RecordJavaKeeps
  <2>5. ParserInv'
    BY <1>1, <1>2, <2>1, ParserClosed
  <2> QED
    BY <2>1, <2>2, <2>3, <2>4, <2>5 DEF PipeInv, FileInv, history
<1>6. CASE ConvertFile
  <2>1. UNCHANGED <<parserVars, origin>> /\ phase = "closed"
    BY <1>6 DEF ConvertFile
  <2>2. OriginOK'
    BY <1>1, <2>1, OriginSame
  <2>3. FileInv'
    BY <1>1, <1>6, ConvertKeeps
  <2>4. ParserInv'
    BY <1>1, <2>1, ParserClosed
  <2> QED
    BY <2>2, <2>3, <2>4 DEF PipeInv
<1>7. CASE Parse
  <2>1. OriginOK'
    BY <1>1, <1>7, OriginSame DEF Parse, history
  <2> QED
    BY <1>1, <1>7, <2>1, ParseKeeps DEF PipeInv
<1>8. CASE UNCHANGED pipelineVars
  <2>1. OriginOK' /\ Threads' = Threads
    BY <1>1, <1>8, OriginSame DEF pipelineVars
  <2>2. ParserInv'
    BY <1>1, <1>8, ParserSame DEF pipelineVars
  <2> QED
    BY <1>1, <1>8, <2>1, <2>2 DEF PipeInv, FileInv, pipelineVars
<1> QED
  BY <1>3, <1>4, <1>5, <1>6, <1>7, <1>8 DEF Next

\* What the program did, what the file holds of it and what the parser made of
\* the file stay related as PipeInv says, whichever tools run and however often.
THEOREM PipelineInvariant == Spec => []PipeInv
  BY InitHolds, NextKeeps, PTL DEF Spec

-----------------------------------------------------------------------------
(* What follows for the event handler.                                     *)

\* The position in the trace of what was handed on.
PositionOf == [i \in DOMAIN handled |-> handled[i].pos + 1]

\* Everything handed on is an event of the trace, with a new identifier.
LEMMA HandledFacts ==
    ASSUME OriginOK, FileInv, ParserInv, Reading, NEW i \in DOMAIN handled
    PROVE  LET k == PositionOf[i]
           IN /\ k \in 1..Len(trace) /\ k < at
              /\ ~Dropped(trace[k]) /\ ~NoValue(trace[k])
              /\ handled[i].tid = trace[k].tid /\ handled[i].type = trace[k].type
              /\ handled[i].loc = trace[k].loc /\ handled[i].target = NewId(trace[k])
<1> DEFINE k == PositionOf[i]
<1>1. HandledInv /\ Len(trace) \in Nat
  BY ReadingFacts
<1>2. handled \in Seq(Handed) /\ DOMAIN handled = 1..Len(handled)
  BY <1>1, LenProperties DEF HandledInv, Handed
<1>3. handled[i] \in Handed
  BY <1>2, ElementOfSeq
<1>4. k = handled[i].pos + 1 /\ handled[i].pos \in Nat
  BY <1>3 DEF PositionOf, Handed
<1>5. /\ k < at /\ handled[i] = Renamed(trace[k], handled[i].pos)
      /\ ~Dropped(trace[k]) /\ ~NoValue(trace[k]) /\ at \in 1..(Len(trace) + 1)
  BY <1>1, <1>4 DEF HandledInv
<1> HIDE DEF k
<1>6. k \in 1..Len(trace)
  BY <1>1, <1>4, <1>5
<1>7. /\ handled[i].tid = trace[k].tid /\ handled[i].type = trace[k].type
      /\ handled[i].loc = trace[k].loc /\ handled[i].target = NewId(trace[k])
  BY <1>5 DEF Renamed
<1> QED
  BY <1>5, <1>6, <1>7 DEF k

\* Before the second pass there is nothing to ask.
LEMMA NothingRead ==
    ASSUME ParserInv, ~Reading
    PROVE  Range(trace) = {} /\ DOMAIN handled = {}
<1>1. trace = <<>> /\ handled = <<>>
  BY DEF ParserInv, Reading
<1> QED
  BY <1>1 DEF Range

LEMMA InvImpliesIndices ==
    ASSUME PipeInv
    PROVE  IndicesInRange
<1>1. OriginOK /\ FileInv /\ ParserInv
  BY DEF PipeInv
<1>2. CASE ~Reading
  BY <1>1, <1>2, NothingRead DEF IndicesInRange
<1>3. CASE Reading
  <2>1. /\ Numbered(locks, file.header.locks, lockTotal) /\ Numbered(vars, file.header.vars, varTotal)
        /\ threadTotal = file.header.threads /\ threadTotal \in Nat /\ DOMAIN trace = 1..Len(trace)
        /\ \A k \in 1..Len(trace) : InCounts(trace[k], file.header)
    BY <1>1, <1>3, ReadingFacts
  <2>2. ASSUME NEW e \in Range(trace)
        PROVE  /\ e.tid < threadTotal
               /\ e.type \in ThreadTypes => e.target \in 0..(threadTotal - 1)
               /\ e.type \in LockTypes => e.target \in DOMAIN locks
               /\ e.type \in CondVarTypes => -e.target \in DOMAIN locks
               /\ e.type \in AccessTypes => e.target \in DOMAIN vars
    <3>1. InCounts(e, file.header)
      BY <2>1 DEF Range
    <3>2. e.tid \in 0..(threadTotal - 1)
      BY <2>1, <3>1 DEF InCounts
    <3> QED
      BY <2>1, <3>1, <3>2 DEF InCounts, Numbered
  <2>3. ASSUME NEW i \in DOMAIN handled
        PROVE  LET h == handled[i]
               IN /\ h.type \in LockTypes => h.target \in 1..(lockTotal - 1)
                  /\ h.type \in CondVarTypes => -h.target \in 1..(lockTotal - 1)
                  /\ h.type \in AccessTypes => h.target \in 1..(varTotal - 1)
    <3> DEFINE k == PositionOf[i]
               h == handled[i]
    <3>1. /\ k \in 1..Len(trace) /\ ~Dropped(trace[k]) /\ ~NoValue(trace[k])
          /\ h.type = trace[k].type /\ h.target = NewId(trace[k])
      BY <1>1, <1>3, HandledFacts
    <3> HIDE DEF k, h
    <3>2. /\ h.type \in LockTypes => h.target \in 1..(lockTotal - 1)
          /\ h.type \in AccessTypes => h.target \in 1..(varTotal - 1)
      BY <1>1, <1>3, <3>1, NewIdFacts
    <3>3. h.type \in CondVarTypes => -h.target \in 1..(lockTotal - 1)
      <4> SUFFICES ASSUME h.type \in CondVarTypes PROVE -h.target \in 1..(lockTotal - 1)
        OBVIOUS
      <4> DEFINE v == locks[-trace[k].target]
      <4>1. h.target = -v /\ v \in 1..(lockTotal - 1)
        BY <1>1, <1>3, <3>1, NewIdFacts
      <4> HIDE DEF v
      <4>2. v \in Int /\ -(-v) = v
        BY <4>1
      <4> QED
        BY <4>1, <4>2
    <3> QED
      BY <3>2, <3>3 DEF h
  <2> QED
    BY <2>2, <2>3 DEF IndicesInRange
<1> QED
  BY <1>2, <1>3

\* No index of the parser's vectors and no identifier given to the handler is
\* out of range, whatever was converted before.
THEOREM IndicesAlwaysInRange == Spec => []IndicesInRange
  BY PipelineInvariant, InvImpliesIndices, PTL

\* Identifiers in a map of the parser are equal for equal objects only.
LEMMA NumberedApart ==
    ASSUME NEW map, NEW size, NEW total, Numbered(map, size, total),
           NEW i \in DOMAIN map, NEW j \in DOMAIN map, map[i] # Invalid
    PROVE  map[i] = map[j] <=> i = j
  BY DEF Numbered

\* New identifiers are equal, or paired, exactly if the old ones are.
LEMMA HandledAlike ==
    ASSUME OriginOK, FileInv, ParserInv, Reading, NEW fit, NEW paired,
           NEW i \in DOMAIN handled, NEW j \in DOMAIN handled
    PROVE  Alike(handled[i], handled[j], FALSE, trace[PositionOf[i]], trace[PositionOf[j]],
                 FALSE, fit, paired)
<1> DEFINE x == handled[i]
           y == handled[j]
           d == trace[PositionOf[i]]
           e == trace[PositionOf[j]]
<1>1. /\ x.tid = d.tid /\ x.type = d.type /\ x.target = NewId(d)
      /\ y.tid = e.tid /\ y.type = e.type /\ y.target = NewId(e)
      /\ d \in Item /\ e \in Item
  BY HandledFacts, ReadingFacts
<1>2. /\ d.type \in LockTypes => d.target \in DOMAIN locks /\ x.target = locks[d.target]
                                 /\ locks[d.target] # Invalid /\ x.target \in Int
      /\ e.type \in LockTypes => e.target \in DOMAIN locks /\ y.target = locks[e.target]
                                 /\ locks[e.target] # Invalid
  BY <1>1, HandledFacts, NewIdFacts
<1>3. /\ d.type \in AccessTypes => d.target \in DOMAIN vars /\ x.target = vars[d.target]
                                   /\ vars[d.target] # Invalid
      /\ e.type \in AccessTypes => e.target \in DOMAIN vars /\ y.target = vars[e.target]
                                   /\ vars[e.target] # Invalid
  BY <1>1, HandledFacts, NewIdFacts
<1>4. /\ d.type \in CondVarTypes => -d.target \in DOMAIN locks /\ x.target = -locks[-d.target]
                                    /\ locks[-d.target] # Invalid /\ locks[-d.target] \in Int
      /\ e.type \in CondVarTypes => -e.target \in DOMAIN locks /\ y.target = -locks[-e.target]
                                    /\ locks[-e.target] # Invalid /\ locks[-e.target] \in Int
  BY <1>1, HandledFacts, NewIdFacts
<1>5. /\ d.type \in ThreadTypes => x.target = d.target
      /\ e.type \in ThreadTypes => y.target = e.target
  <2>1. \A t \in ThreadTypes : t \notin LockTypes \cup AccessTypes \cup CondVarTypes
    BY TypesApart
  <2> QED
    BY <1>1, <2>1, HandledFacts, NewIdFacts
<1>6. Numbered(locks, file.header.locks, lockTotal) /\ Numbered(vars, file.header.vars, varTotal)
  BY ReadingFacts
<1>7. d.target \in Int /\ e.target \in Int
  BY <1>1 DEF Item
<1> HIDE DEF x, y, d, e
<1>8. ASSUME SameClass(d.type, e.type) PROVE x.target = y.target <=> d.target = e.target
  <2>1. CASE d.type \in LockTypes /\ e.type \in LockTypes
    BY <1>2, <1>6, <2>1, NumberedApart
  <2>2. CASE d.type \in AccessTypes /\ e.type \in AccessTypes
    BY <1>3, <1>6, <2>2, NumberedApart
  <2>3. CASE d.type \in CondVarTypes /\ e.type \in CondVarTypes
    <3> DEFINE u == locks[-d.target]
               v == locks[-e.target]
    <3>1. u = v <=> -d.target = -e.target
      BY <1>4, <1>6, <2>3, NumberedApart
    <3>2. x.target = -u /\ y.target = -v /\ u \in Int /\ v \in Int
      BY <1>4, <2>3
    <3> HIDE DEF u, v
    <3> QED
      BY <1>7, <3>1, <3>2
  <2>4. CASE d.type \in ThreadTypes /\ e.type \in ThreadTypes
    BY <1>5, <2>4
  <2> QED
    BY <1>8, <2>1, <2>2, <2>3, <2>4 DEF SameClass
<1>9. ASSUME d.type \in LockTypes, e.type \in CondVarTypes
      PROVE  x.target = -y.target <=> d.target = -e.target
  <2> DEFINE u == locks[d.target]
             v == locks[-e.target]
  <2>1. u = v <=> d.target = -e.target
    BY <1>2, <1>4, <1>6, <1>9, NumberedApart
  <2>2. x.target = u /\ y.target = -v /\ v \in Int
    BY <1>2, <1>4, <1>9
  <2> HIDE DEF u, v
  <2> QED
    BY <2>1, <2>2
<1>10. Alike(x, y, FALSE, d, e, FALSE, fit, paired)
  BY <1>1, <1>5, <1>8, <1>9 DEF Alike, LockOf
<1> QED
  BY <1>10 DEF x, y, d, e

LEMMA HandledFaithful ==
    ASSUME OriginOK, FileInv, ParserInv, Reading
    PROVE  /\ Faithful(handled, origin, FALSE, ThreadsFit, ~viaText)
           /\ \A i \in DOMAIN handled : Real(handled[i])
<1>1. ThreadsFit <=> Threads <= ThreadRange
  BY DEF ThreadsFit, Threads
<1> DEFINE fit == Threads <= ThreadRange
           paired == ~viaText
<1>2. Faithful(trace, origin, FALSE, fit, paired)
  BY ReadingFacts
<1>3. \A i \in DOMAIN handled :
         /\ PositionOf[i] \in DOMAIN trace /\ Real(trace[PositionOf[i]]) /\ Real(handled[i])
         /\ handled[i].type = trace[PositionOf[i]].type /\ handled[i].loc = trace[PositionOf[i]].loc
  BY HandledFacts, ReadingFacts DEF Real
<1>4. \A i, j \in DOMAIN handled : i < j => PositionOf[i] < PositionOf[j]
  <2> SUFFICES ASSUME NEW i \in DOMAIN handled, NEW j \in DOMAIN handled, i < j
               PROVE  PositionOf[i] < PositionOf[j]
    OBVIOUS
  <2>1. handled \in Seq(Handed) /\ handled[i].pos < handled[j].pos
    BY ReadingFacts DEF HandledInv, Handed
  <2>2. handled[i] \in Handed /\ handled[j] \in Handed
    BY <2>1, ElementOfSeq, LenProperties
  <2>3. handled[i].pos \in Nat /\ handled[j].pos \in Nat
    BY <2>2 DEF Handed
  <2> QED
    BY <2>1, <2>3 DEF PositionOf
<1>5. Follows(handled, trace, PositionOf)
  BY <1>3, <1>4 DEF Follows
<1>6. \A i, j \in DOMAIN handled :
         Alike(handled[i], handled[j], FALSE, trace[PositionOf[i]], trace[PositionOf[j]],
               FALSE, fit, paired)
  BY HandledAlike
<1> HIDE DEF fit, paired
<1>7. Faithful(handled, origin, FALSE, fit, paired)
  BY <1>2, <1>5, <1>6, FollowsFaithful
<1>8. Faithful(handled, origin, FALSE, Threads <= ThreadRange, ~viaText)
  BY <1>7 DEF fit, paired
<1> QED
  BY <1>3, <1>8 DEF ThreadsFit, Threads

LEMMA InvImpliesRenaming ==
    ASSUME PipeInv
    PROVE  RenamingFaithful
<1>1. OriginOK /\ FileInv /\ ParserInv
  BY DEF PipeInv
<1>2. CASE ~Reading
  BY <1>1, <1>2, NothingRead DEF RenamingFaithful
<1>3. CASE Reading
  <2> SUFFICES ASSUME ThreadsFit, NEW i \in DOMAIN handled, NEW j \in DOMAIN handled
               PROVE  LET h == handled[i]  d == origin[h.loc]
                          k == handled[j]  e == origin[k.loc]
                      IN /\ SameClass(d.type, e.type) => ((h.target = k.target) <=> (d.target = e.target))
                         /\ (h.tid = k.tid) <=> (d.tid = e.tid)
                         /\ d.type \in ThreadTypes => ((h.target = k.tid) <=> (d.target = e.tid))
                         /\ (d.type \in LockTypes /\ e.type \in CondVarTypes /\ ~viaText) =>
                               ((h.target = -k.target) <=> (d.target = e.target))
    BY DEF RenamingFaithful
  <2> DEFINE h == handled[i]
             d == origin[h.loc]
             k == handled[j]
             e == origin[k.loc]
  <2>1. Alike(h, k, FALSE, d, e, TRUE, ThreadsFit, ~viaText)
    BY <1>1, <1>3, HandledFaithful DEF Faithful
  <2> HIDE DEF h, d, k, e
  <2>2. /\ SameClass(d.type, e.type) => ((h.target = k.target) <=> (d.target = e.target))
        /\ (h.tid = k.tid) <=> (d.tid = e.tid)
        /\ d.type \in ThreadTypes => ((h.target = k.tid) <=> (d.target = e.tid))
        /\ (d.type \in LockTypes /\ e.type \in CondVarTypes /\ ~viaText) =>
              ((h.target = -k.target) <=> (d.target = e.target))
    BY <2>1 DEF Alike, LockOf
  <2> QED
    BY <2>2 DEF h, d, k, e
<1> QED
  BY <1>2, <1>3

\* However the trace was converted and renumbered, identifiers keep the program's
\* objects and threads apart, and locks paired with their condition variables.
THEOREM RenamingAlwaysFaithful == Spec => []RenamingFaithful
  BY PipelineInvariant, InvImpliesRenaming, PTL

\* The program's event m is the event k of the trace.
At(k, m) == k \in 1..Len(trace) /\ trace[k].loc = m /\ trace[k].type = origin[m].type

LEMMA TraceHolds ==
    ASSUME OriginOK, FileInv, ParserInv, Reading, Readable, NEW m \in DOMAIN origin,
           ~Excused(origin[m].type, viaJava)
    PROVE  \E k \in 1..Len(trace) : At(k, m)
<1>1. file.words # <<>> /\ trace = EventsOf(file.words) /\ DOMAIN trace = 1..Len(trace)
  BY ReadingFacts DEF Readable
<1>2. trace # <<>>
  <2>1. file.words \in Seq(Nat)
    BY OpenFileFacts DEF ParserInv, Reading, WordsOK
  <2>2. DOMAIN file.words # {}
    <3> DEFINE words == file.words
    <3>1. words \in Seq(Nat) /\ words # <<>>
      BY <1>1, <2>1
    <3> HIDE DEF words
    <3>2. Len(words) \in Nat /\ Len(words) # 0 /\ DOMAIN words = 1..Len(words)
      BY <3>1, LenProperties, EmptySeq
    <3>3. 1 \in DOMAIN words
      BY <3>2
    <3> QED
      BY <3>3 DEF words
  <2>3. DOMAIN trace = DOMAIN file.words
    BY <1>1 DEF EventsOf
  <2> QED
    BY <2>2, <2>3
<1>3. Complete(trace, origin, viaJava)
  BY <1>2, ReadingFacts
<1>4. PICK k \in DOMAIN trace : Real(trace[k]) /\ trace[k].loc = m
  BY <1>3 DEF Complete
<1>5. trace[k].type = origin[m].type
  BY <1>4, ReadingFacts DEF Faithful
<1> QED
  BY <1>1, <1>4, <1>5 DEF At

\* A dropped event is of an object that its thread alone uses in the program.
LEMMA DroppedIsPrivate ==
    ASSUME OriginOK, FileInv, ParserInv, Reading, Readable, ThreadsFit,
           NEW m \in DOMAIN origin, NEW k \in 1..Len(trace), At(k, m), Dropped(trace[k])
    PROVE  origin[m].type \in LockTypes \cup AccessTypes /\ Private(origin[m])
<1> DEFINE e == origin[m]
<1>1. e.type \in LockTypes \cup AccessTypes /\ e.type = trace[k].type
  BY DEF At, Dropped
<1>2. ASSUME NEW d \in Range(origin), SameObject(d, e) PROVE d.tid = e.tid
  <2>1. PICK n \in DOMAIN origin : d = origin[n]
    BY OriginFacts
  <2>2. \/ d.type \in LockTypes /\ e.type \in LockTypes
        \/ d.type \in AccessTypes /\ e.type \in AccessTypes
    <3>1. e.type \notin CondVarTypes \cup ThreadTypes
      BY <1>1, TypesApart
    <3> QED
      BY <1>2, <3>1 DEF SameObject, SameClass
  <2>3. d.target = e.target /\ SameClass(d.type, e.type)
    BY <1>2 DEF SameObject
  <2>4. ~Excused(origin[n].type, viaJava)
    BY <2>1, <2>2, TypesApart DEF Excused
  <2>5. PICK l \in 1..Len(trace) : At(l, n)
    BY <2>4, TraceHolds
  <2> DEFINE x == trace[l]
             y == trace[k]
  <2>6. Alike(x, y, FALSE, d, e, TRUE, Threads <= ThreadRange, ~viaText) /\ Threads <= ThreadRange
    <3>1. /\ Faithful(trace, origin, FALSE, Threads <= ThreadRange, ~viaText)
          /\ Real(x) /\ Real(y) /\ l \in DOMAIN trace /\ k \in DOMAIN trace
      BY ReadingFacts
    <3>2. x.loc = n /\ y.loc = m
      BY <2>5 DEF At
    <3> QED
      BY <2>1, <3>1, <3>2 DEF Faithful, ThreadsFit, Threads
  <2>7. x.type = d.type /\ y.type = e.type /\ NewId(y) = Invalid
    BY <2>1, <2>5 DEF At, Dropped
  <2>8. /\ OneUser(locks, LockTypes, trace) /\ OneUser(vars, AccessTypes, trace)
        /\ l \in DOMAIN trace /\ k \in DOMAIN trace
    BY ReadingFacts
  <2>9. x.target = y.target /\ (x.tid = y.tid <=> d.tid = e.tid)
    <3> HIDE DEF x, y, e
    <3> QED
      BY <2>3, <2>6 DEF Alike
  <2>10. /\ y.type \in LockTypes => NewId(y) = locks[y.target]
         /\ y.type \in AccessTypes => NewId(y) = vars[y.target]
    <3> HIDE DEF y
    <3> QED
      BY TypesApart DEF NewId
  <2>11. x.tid = y.tid
    <3>1. CASE d.type \in LockTypes /\ e.type \in LockTypes
      BY <2>7, <2>8, <2>9, <2>10, <3>1 DEF OneUser
    <3>2. CASE d.type \in AccessTypes /\ e.type \in AccessTypes
      BY <2>7, <2>8, <2>9, <2>10, <3>2 DEF OneUser
    <3> QED
      BY <2>2, <3>1, <3>2
  <2> QED
    BY <2>9, <2>11
<1> QED
  BY <1>1, <1>2 DEF Private

\* With no shared lock at all, no event of a lock or of a notification is left.
LEMMA NoLockShared ==
    ASSUME OriginOK, FileInv, ParserInv, Reading, lockTotal <= 1, NEW k \in 1..Len(trace)
    PROVE  trace[k].type \notin NotifTypes /\ (trace[k].type \in LockTypes => Dropped(trace[k]))
<1> DEFINE e == trace[k]
<1>1. /\ InCounts(e, file.header) /\ Numbered(locks, file.header.locks, lockTotal)
      /\ NotifiedKept(locks, trace) /\ k \in DOMAIN trace
  BY ReadingFacts
<1>2. \A id \in DOMAIN locks : locks[id] = Invalid
  BY <1>1 DEF Numbered
<1>3. e.type \notin NotifTypes
  <2>1. e.type \in NotifTypes => -e.target \in DOMAIN locks
    BY <1>1, TypesApart DEF InCounts, Numbered
  <2> QED
    BY <1>1, <1>2, <2>1 DEF NotifiedKept
<1> HIDE DEF e
<1>4. e.type \in LockTypes => e.target \in DOMAIN locks /\ NewId(e) = locks[e.target]
  <2>1. e.type \in LockTypes => e.target \in DOMAIN locks
    BY <1>1 DEF InCounts, Numbered
  <2>2. e.type \in LockTypes => NewId(e) = locks[e.target]
    BY TypesApart DEF NewId
  <2> QED
    BY <2>1, <2>2
<1> QED
  BY <1>2, <1>3, <1>4 DEF Dropped, e

LEMMA InvImpliesDrops ==
    ASSUME PipeInv
    PROVE  DropsOnlyPrivate
<1> SUFFICES ASSUME phase = "done", Readable, ThreadsFit
             PROVE  /\ \A e \in Range(origin) : HandledFrom(e) = {} =>
                          \/ e.type \in LockTypes \cup AccessTypes /\ Private(e)
                          \/ e.type \in UnusedTypes
                          \/ e.type \in CondVarTypes /\ viaJava
                          \/ e.type \notin LockTypes \cup NotifTypes /\ lockTotal <= 1
                    /\ \A i \in DOMAIN handled :
                          handled[i].loc # 0 /\ handled[i].type = origin[handled[i].loc].type
                    /\ \A i, j \in DOMAIN handled : i < j => handled[i].loc < handled[j].loc
  BY DEF DropsOnlyPrivate
<1>1. OriginOK /\ FileInv /\ ParserInv /\ Reading
  BY DEF PipeInv, Reading
<1>2. Faithful(handled, origin, FALSE, ThreadsFit, ~viaText) /\ \A i \in DOMAIN handled : Real(handled[i])
  BY <1>1, HandledFaithful
<1>3. \A i \in DOMAIN handled : handled[i].loc # 0 /\ handled[i].type = origin[handled[i].loc].type
  <2>1. \A m \in DOMAIN origin : m # 0
    BY <1>1, OriginFacts
  <2> QED
    BY <1>2, <2>1 DEF Faithful
<1>4. \A i, j \in DOMAIN handled : i < j => handled[i].loc < handled[j].loc
  BY <1>2 DEF Faithful
<1>5. ASSUME NEW e \in Range(origin), HandledFrom(e) = {}, ~Excused(e.type, viaJava)
      PROVE  \/ e.type \in LockTypes \cup AccessTypes /\ Private(e)
             \/ e.type \notin LockTypes \cup NotifTypes /\ lockTotal <= 1
  <2>1. PICK m \in DOMAIN origin : e = origin[m]
    BY <1>1, OriginFacts
  <2>2. e.loc = m
    BY <1>1, <2>1 DEF OriginOK
  <2>3. PICK k \in 1..Len(trace) : At(k, m)
    BY <1>1, <1>5, <2>1, TraceHolds
  <2>4. Dropped(trace[k]) => e.type \in LockTypes \cup AccessTypes /\ Private(e)
    BY <1>1, <2>1, <2>3, DroppedIsPrivate
  <2>5. CASE at > Len(trace)
    <3>1. HandledInv /\ Len(trace) \in Nat
      BY <1>1, ReadingFacts
    <3>2. k \in 1..(at - 1)
      BY <2>5, <3>1 DEF HandledInv
    <3>3. ASSUME NEW i \in DOMAIN handled, handled[i].pos = k - 1
          PROVE  FALSE
      <4>1. PositionOf[i] = k
        BY <3>3 DEF PositionOf
      <4>2. handled[i].loc = trace[k].loc
        BY <1>1, <4>1, HandledFacts
      <4> QED
        BY <1>5, <2>2, <2>3, <4>2 DEF HandledFrom, At
    <3>4. Dropped(trace[k])
      BY <3>1, <3>2, <3>3 DEF HandledInv
    <3> QED
      BY <2>4, <3>4
  <2>6. CASE lockTotal <= 1
    <3>1. trace[k].type \notin NotifTypes /\ (trace[k].type \in LockTypes => Dropped(trace[k]))
      BY <1>1, <2>6, NoLockShared
    <3> QED
      BY <2>1, <2>3, <2>4, <2>6, <3>1 DEF At
  <2> QED
    BY <1>1, <2>5, <2>6 DEF ParserInv
<1> QED
  BY <1>3, <1>4, <1>5 DEF Excused

\* An event is lost only for the reasons the parser and the tools have, and what
\* the handler gets are the program's events in the program's order.
THEOREM OnlyPrivateDropped == Spec => []DropsOnlyPrivate
  BY PipelineInvariant, InvImpliesDrops, PTL
=============================================================================
