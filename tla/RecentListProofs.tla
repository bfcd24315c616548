-------------------------- MODULE RecentListProofs --------------------------
(***************************************************************************)
(* Facts about sequences without duplicates, and the promise of the recent *)
(* list: pushing keeps it free of duplicates, within its capacity, and     *)
(* brings in nothing but the pushed value.  Then the facts about loops and *)
(* the search by halving that the other proofs share.                      *)
(***************************************************************************)
EXTENDS RecentList, SortedSearch, SequenceTheorems, WellFoundedInduction, TLAPS

\* Every set of natural numbers that is not empty has a least element: what the
\* proofs use for induction.
LEMMA LeastNatural ==
    ASSUME NEW T, T \subseteq Nat, T # {}
    PROVE  \E x \in T : \A y \in T : x <= y
<1> DEFINE R == OpToRel(<, Nat)
<1>1. PICK x \in T : \A y \in T : ~ (<<y, x>> \in R)
  <2>1. IsWellFoundedOn(R, Nat)
    BY NatLessThanWellFounded
  <2> HIDE DEF R
  <2> QED
    BY <2>1, WFMin
<1>2. ASSUME NEW y \in T
      PROVE  x <= y
  <2>1. <<y, x>> \notin R
    BY <1>1
  <2>2. R = {ss \in Nat \X Nat : ss[1] < ss[2]}
    BY DEF OpToRel
  <2>3. x \in Nat /\ y \in Nat
    OBVIOUS
  <2> HIDE DEF R
  <2> QED
    BY <2>1, <2>2, <2>3
<1> QED
  BY <1>1, <1>2

\* Induction up to n, the hypothesis being the set of numbers it holds for.
LEMMA InductionUpTo ==
    ASSUME NEW n \in Nat, NEW G, 0 \in G, \A i \in 1..n : i - 1 \in G => i \in G
    PROVE  \A i \in 0..n : i \in G
<1> DEFINE T == {k \in 0..n : k \notin G}
<1> SUFFICES ASSUME T # {}
             PROVE  FALSE
  OBVIOUS
<1>1. T \subseteq Nat
  OBVIOUS
<1>2. PICK k \in T : \A y \in T : k <= y
  <2> HIDE DEF T
  <2> QED
    BY <1>1, LeastNatural
<1>3. k \in 1..n /\ k \notin G /\ k - 1 \in 0..n
  OBVIOUS
<1>4. k - 1 \notin T
  <2> HIDE DEF T
  <2> QED
    BY <1>2, <1>3
<1> QED
  BY <1>3, <1>4

\* An append adds its value to the elements and keeps the indexes before it.
LEMMA ElementsOfAppend ==
    ASSUME NEW S, NEW s \in Seq(S), NEW x \in S
    PROVE  /\ Append(s, x) \in Seq(S)
           /\ Len(Append(s, x)) = Len(s) + 1
           /\ Elements(Append(s, x)) = Elements(s) \cup {x}
<1>1. /\ Append(s, x) \in Seq(S)
      /\ Len(Append(s, x)) = Len(s) + 1
      /\ \A i \in 1..Len(s) : Append(s, x)[i] = s[i]
      /\ Append(s, x)[Len(s) + 1] = x
  BY AppendProperties
<1>2. DOMAIN s = 1..Len(s) /\ Len(s) \in Nat /\ DOMAIN Append(s, x) = 1..(Len(s) + 1)
  BY <1>1, LenProperties
<1> QED
  BY <1>1, <1>2 DEF Elements

\* A concatenation has the elements of both sequences.
LEMMA ElementsOfConcat ==
    ASSUME NEW S, NEW s \in Seq(S), NEW r \in Seq(S)
    PROVE  /\ s \o r \in Seq(S)
           /\ Elements(s \o r) = Elements(s) \cup Elements(r)
<1>1. /\ s \o r \in Seq(S)
      /\ Len(s \o r) = Len(s) + Len(r)
      /\ \A i \in 1 .. Len(s) + Len(r) :
            (s \o r)[i] = IF i <= Len(s) THEN s[i] ELSE r[i - Len(s)]
  BY ConcatProperties
<1>2. /\ DOMAIN s = 1..Len(s) /\ Len(s) \in Nat
      /\ DOMAIN r = 1..Len(r) /\ Len(r) \in Nat
      /\ DOMAIN (s \o r) = 1..(Len(s) + Len(r))
  BY <1>1, LenProperties
<1>3. Elements(s \o r) \subseteq Elements(s) \cup Elements(r)
  BY <1>1, <1>2 DEF Elements
<1>4. Elements(s) \subseteq Elements(s \o r)
  BY <1>1, <1>2 DEF Elements
<1>5. ASSUME NEW j \in DOMAIN r
      PROVE  r[j] \in Elements(s \o r)
  <2>1. (s \o r)[Len(s) + j] = r[j] /\ Len(s) + j \in DOMAIN (s \o r)
    BY <1>1, <1>2
  <2> QED
    BY <2>1 DEF Elements
<1> QED
  BY <1>1, <1>3, <1>4, <1>5 DEF Elements

\* Appending a value that is not there keeps a recent list free of duplicates.
LEMMA AppendKeepsDistinct ==
    ASSUME NEW S, NEW s \in Seq(S), NEW x \in S, NoDuplicates(s), x \notin Elements(s)
    PROVE  NoDuplicates(Append(s, x))
<1>1. /\ Append(s, x) \in Seq(S)
      /\ Len(Append(s, x)) = Len(s) + 1
      /\ \A i \in 1..Len(s) : Append(s, x)[i] = s[i]
      /\ Append(s, x)[Len(s) + 1] = x
  BY AppendProperties
<1>2. DOMAIN s = 1..Len(s) /\ Len(s) \in Nat /\ DOMAIN Append(s, x) = 1..(Len(s) + 1)
  BY <1>1, LenProperties
<1> QED
  BY <1>1, <1>2 DEF NoDuplicates, Elements

\* What unsafe_update does to the other elements: nothing.
LEMMA RemoveIndexFacts ==
    ASSUME NEW S, NEW s \in Seq(S), NEW i \in DOMAIN s
    PROVE  LET r == RemoveIndex(s, i)
           IN /\ r \in Seq(S)
              /\ Len(r) = Len(s) - 1
              /\ \A k \in 1..(Len(s) - 1) : r[k] = IF k < i THEN s[k] ELSE s[k + 1]
<1> DEFINE p == SubSeq(s, 1, i - 1)
           q == SubSeq(s, i + 1, Len(s))
<1>1. DOMAIN s = 1..Len(s) /\ Len(s) \in Nat /\ i \in 1..Len(s)
  BY LenProperties
<1>2. \A k \in 1..Len(s) : s[k] \in S
  BY <1>1, ElementOfSeq
<1>3. /\ p \in Seq(S)
      /\ Len(p) = i - 1
      /\ \A k \in 1..(i - 1) : p[k] = s[k]
  <2>1. \A k \in 1..(i - 1) : s[k] \in S
    BY <1>1, <1>2
  <2>2. /\ p \in Seq(S)
        /\ Len(p) = IF 1 <= i - 1 THEN i - 1 - 1 + 1 ELSE 0
        /\ \A k \in 1 .. i - 1 - 1 + 1 : p[k] = s[1 + k - 1]
    BY <1>1, <2>1, SubSeqProperties
  <2> QED
    BY <1>1, <2>2
<1>4. /\ q \in Seq(S)
      /\ Len(q) = Len(s) - i
      /\ \A k \in 1..(Len(s) - i) : q[k] = s[i + k]
  <2>1. \A k \in (i + 1)..Len(s) : s[k] \in S
    BY <1>1, <1>2
  <2>2. /\ q \in Seq(S)
        /\ Len(q) = IF i + 1 <= Len(s) THEN Len(s) - (i + 1) + 1 ELSE 0
        /\ \A k \in 1 .. Len(s) - (i + 1) + 1 : q[k] = s[(i + 1) + k - 1]
    BY <1>1, <2>1, SubSeqProperties
  <2> QED
    BY <1>1, <2>2
<1>5. /\ p \o q \in Seq(S)
      /\ Len(p \o q) = Len(p) + Len(q)
      /\ \A k \in 1 .. Len(p) + Len(q) :
            (p \o q)[k] = IF k <= Len(p) THEN p[k] ELSE q[k - Len(p)]
  BY <1>3, <1>4, ConcatProperties
<1>6. RemoveIndex(s, i) = p \o q
  BY DEF RemoveIndex
<1>7. Len(p \o q) = Len(s) - 1
  BY <1>1, <1>3, <1>4, <1>5
<1>8. ASSUME NEW k \in 1..(Len(s) - 1)
      PROVE  (p \o q)[k] = IF k < i THEN s[k] ELSE s[k + 1]
  <2> HIDE DEF p, q
  <2>1. k \in 1..(Len(p) + Len(q)) /\ k \in Nat /\ i \in Nat
    BY <1>1, <1>5, <1>7
  <2>2. CASE k < i
    <3>1. k \in 1..(i - 1) /\ k <= Len(p)
      BY <1>1, <1>3, <2>1, <2>2
    <3> QED
      BY <1>3, <1>5, <2>1, <2>2, <3>1
  <2>3. CASE ~ (k < i)
    <3>1. /\ ~ (k <= Len(p))
          /\ k - Len(p) \in 1..(Len(s) - i)
          /\ i + (k - Len(p)) = k + 1
      BY <1>1, <1>3, <2>1, <2>3
    <3> QED
      BY <1>4, <1>5, <2>1, <2>3, <3>1
  <2> QED
    BY <2>2, <2>3
<1> HIDE DEF p, q
<1> QED
  BY <1>5, <1>6, <1>7, <1>8

\* What is left after the removal of one of the elements of a list without
\* duplicates: the others, in their order.
LEMMA RemoveIndexElements ==
    ASSUME NEW S, NEW s \in Seq(S), NEW i \in DOMAIN s, NoDuplicates(s)
    PROVE  /\ Elements(RemoveIndex(s, i)) = Elements(s) \ {s[i]}
           /\ NoDuplicates(RemoveIndex(s, i))
<1> DEFINE r == RemoveIndex(s, i)
<1>1. /\ r \in Seq(S)
      /\ Len(r) = Len(s) - 1
      /\ \A k \in 1..(Len(s) - 1) : r[k] = IF k < i THEN s[k] ELSE s[k + 1]
  BY RemoveIndexFacts
<1>2. DOMAIN s = 1..Len(s) /\ Len(s) \in Nat /\ i \in 1..Len(s)
  BY LenProperties
<1>3. DOMAIN r = 1..(Len(s) - 1)
  BY <1>1, LenProperties
<1> HIDE DEF r
<1>4. \A k \in DOMAIN r : \E j \in DOMAIN s : r[k] = s[j] /\ j # i
  <2> TAKE k \in DOMAIN r
  <2>1. CASE k < i
    BY <1>1, <1>2, <1>3, <2>1
  <2>2. CASE ~ (k < i)
    <3>1. k + 1 \in DOMAIN s /\ k + 1 # i /\ r[k] = s[k + 1]
      BY <1>1, <1>2, <1>3, <2>2
    <3> QED
      BY <3>1
  <2> QED
    BY <2>1, <2>2
<1>5. \A j \in DOMAIN s : j # i => \E k \in DOMAIN r : r[k] = s[j]
  <2> SUFFICES ASSUME NEW j \in DOMAIN s, j # i
               PROVE  \E k \in DOMAIN r : r[k] = s[j]
    OBVIOUS
  <2>1. CASE j < i
    <3>1. j \in DOMAIN r /\ r[j] = s[j]
      BY <1>1, <1>2, <1>3, <2>1
    <3> QED
      BY <3>1
  <2>2. CASE ~ (j < i)
    <3>1. j - 1 \in DOMAIN r /\ ~ (j - 1 < i) /\ (j - 1) + 1 = j
      BY <1>2, <1>3, <2>2
    <3>2. r[j - 1] = s[j]
      BY <1>1, <1>3, <3>1
    <3> QED
      BY <3>1, <3>2
  <2> QED
    BY <2>1, <2>2
<1>6. Elements(r) = Elements(s) \ {s[i]}
  BY <1>4, <1>5 DEF Elements, NoDuplicates
<1>7. NoDuplicates(r)
  <2> SUFFICES ASSUME NEW k \in DOMAIN r, NEW j \in DOMAIN r, r[k] = r[j]
               PROVE  k = j
    BY DEF NoDuplicates
  <2>1. \A a, b \in DOMAIN s : s[a] = s[b] => a = b
    BY DEF NoDuplicates
  <2>2. PICK a \in DOMAIN s : r[k] = s[a] /\ a = IF k < i THEN k ELSE k + 1
    BY <1>1, <1>2, <1>3
  <2>3. PICK b \in DOMAIN s : r[j] = s[b] /\ b = IF j < i THEN j ELSE j + 1
    BY <1>1, <1>2, <1>3
  <2>4. a = b
    BY <2>1, <2>2, <2>3
  <2> QED
    BY <1>2, <1>3, <2>2, <2>3, <2>4
<1> QED
  BY <1>6, <1>7 DEF r

\* A push yields a sequence again.
LEMMA PushType ==
    ASSUME NEW S, NEW s \in Seq(S), NEW x \in S
    PROVE  Push(s, x) \in Seq(S)
<1>1. CASE x \in Elements(s)
  <2> DEFINE i == CHOOSE j \in DOMAIN s : s[j] = x
  <2>1. i \in DOMAIN s
    BY <1>1 DEF Elements
  <2> HIDE DEF i
  <2>2. RemoveIndex(s, i) \in Seq(S)
    BY <2>1, RemoveIndexFacts
  <2> QED
    BY <1>1, <2>2, ElementsOfAppend DEF Push, i
<1>2. CASE x \notin Elements(s) /\ Len(s) = Capacity
  <2>1. s # <<>>
    BY <1>2, CapacityAssumption
  <2>2. Tail(s) \in Seq(S)
    BY <2>1, HeadTailProperties
  <2> QED
    BY <1>2, <2>2, ElementsOfAppend DEF Push
<1>3. CASE x \notin Elements(s) /\ Len(s) # Capacity
  BY <1>3, ElementsOfAppend DEF Push
<1> QED
  BY <1>1, <1>2, <1>3

\* The promise of the recent list.
THEOREM PushFacts ==
    ASSUME NEW S, NEW s \in Seq(S), NEW x \in S, NoDuplicates(s), Len(s) <= Capacity
    PROVE  /\ Push(s, x) \in Seq(S)
           /\ NoDuplicates(Push(s, x))
           /\ Len(Push(s, x)) <= Capacity
           /\ x \in Elements(Push(s, x))
           /\ Elements(Push(s, x)) \subseteq Elements(s) \cup {x}
<1>1. /\ DOMAIN s = 1..Len(s)
      /\ Len(s) \in Nat
      /\ Capacity \in Nat
      /\ Capacity >= 2
  BY LenProperties, CapacityAssumption
<1>2. CASE x \in Elements(s)
  <2> DEFINE i == CHOOSE j \in DOMAIN s : s[j] = x
             r == RemoveIndex(s, i)
  <2>1. i \in DOMAIN s /\ s[i] = x
    BY <1>2 DEF Elements
  <2>2. r \in Seq(S) /\ Len(r) = Len(s) - 1
    BY <2>1, RemoveIndexFacts
  <2>3. NoDuplicates(r) /\ Elements(r) = Elements(s) \ {x}
    BY <2>1, RemoveIndexElements
  <2>4. Push(s, x) = Append(r, x)
    BY <1>2 DEF Push
  <2> HIDE DEF r
  <2>5. /\ Append(r, x) \in Seq(S)
        /\ Len(Append(r, x)) = Len(r) + 1
        /\ Elements(Append(r, x)) = Elements(r) \cup {x}
        /\ NoDuplicates(Append(r, x))
    BY <2>2, <2>3, ElementsOfAppend, AppendKeepsDistinct
  <2>6. Len(Append(r, x)) = Len(s)
    BY <1>1, <2>2, <2>5
  <2> QED
    BY <2>3, <2>4, <2>5, <2>6
<1>3. CASE x \notin Elements(s) /\ Len(s) = Capacity
  <2> DEFINE r == Tail(s)
  <2>1. s # <<>>
    BY <1>1, <1>3
  <2>2. /\ r \in Seq(S)
        /\ Len(r) = Len(s) - 1
        /\ \A k \in 1..Len(r) : r[k] = s[k + 1]
    BY <2>1, HeadTailProperties
  <2>3. DOMAIN r = 1..(Len(s) - 1)
    BY <2>2, LenProperties
  <2> HIDE DEF r
  <2>4. \A k \in DOMAIN r : k + 1 \in DOMAIN s /\ r[k] = s[k + 1]
    BY <1>1, <2>2, <2>3
  <2>5. Elements(r) \subseteq Elements(s)
    BY <2>4 DEF Elements
  <2>6. NoDuplicates(r)
    BY <1>1, <2>3, <2>4 DEF NoDuplicates
  <2>7. Push(s, x) = Append(r, x)
    BY <1>3 DEF Push, r
  <2>8. /\ Append(r, x) \in Seq(S)
        /\ Len(Append(r, x)) = Len(r) + 1
        /\ Elements(Append(r, x)) = Elements(r) \cup {x}
        /\ NoDuplicates(Append(r, x))
    BY <1>3, <2>2, <2>5, <2>6, ElementsOfAppend, AppendKeepsDistinct
  <2>9. Len(Append(r, x)) = Len(s)
    BY <1>1, <2>2, <2>8
  <2> QED
    BY <2>5, <2>7, <2>8, <2>9
<1>4. CASE x \notin Elements(s) /\ Len(s) # Capacity
  <2>1. Push(s, x) = Append(s, x)
    BY <1>4 DEF Push
  <2>2. /\ Append(s, x) \in Seq(S)
        /\ Len(Append(s, x)) = Len(s) + 1
        /\ Elements(Append(s, x)) = Elements(s) \cup {x}
        /\ NoDuplicates(Append(s, x))
    BY <1>4, ElementsOfAppend, AppendKeepsDistinct
  <2>3. \A n, c \in Nat : n <= c /\ n # c => n + 1 <= c
    OBVIOUS
  <2>4. Len(s) + 1 <= Capacity
    BY <1>1, <1>4, <2>3
  <2> QED
    BY <2>1, <2>2, <2>4
<1> QED
  BY <1>2, <1>3, <1>4

\* A push on a list that is not full forgets nothing.
LEMMA PushKeepsAll ==
    ASSUME NEW S, NEW s \in Seq(S), NEW x \in S, NoDuplicates(s), Len(s) # Capacity
    PROVE  /\ Elements(Push(s, x)) = Elements(s) \cup {x}
           /\ Len(Push(s, x)) <= Len(s) + 1
<1>1. Len(s) \in Nat
  BY LenProperties
<1>2. CASE x \in Elements(s)
  <2> DEFINE i == CHOOSE j \in DOMAIN s : s[j] = x
             r == RemoveIndex(s, i)
  <2>1. i \in DOMAIN s /\ s[i] = x
    BY <1>2 DEF Elements
  <2>2. /\ r \in Seq(S) /\ Len(r) = Len(s) - 1
        /\ Elements(r) = Elements(s) \ {x}
    BY <2>1, RemoveIndexFacts, RemoveIndexElements
  <2>3. Push(s, x) = Append(r, x)
    BY <1>2 DEF Push
  <2> HIDE DEF r
  <2>4. /\ Len(Append(r, x)) = Len(r) + 1
        /\ Elements(Append(r, x)) = Elements(r) \cup {x}
    BY <2>2, ElementsOfAppend
  <2> QED
    BY <1>1, <1>2, <2>2, <2>3, <2>4
<1>3. CASE x \notin Elements(s)
  <2>1. Push(s, x) = Append(s, x)
    BY <1>3 DEF Push
  <2>2. /\ Len(Append(s, x)) = Len(s) + 1
        /\ Elements(Append(s, x)) = Elements(s) \cup {x}
    BY ElementsOfAppend
  <2> QED
    BY <1>1, <2>1, <2>2
<1> QED
  BY <1>2, <1>3

-----------------------------------------------------------------------------
(* Loops.                                                                  *)

\* f are the values of a loop of n rounds over A that starts at a and whose i-th round
\* makes F[<<i, x>>] of x.
Iterates(f, n, A, a, F) ==
    /\ f \in [0..n -> A]
    /\ f[0] = a
    /\ \A i \in 1..n : f[i] = F[<<i, f[i-1]>>]

\* Every loop has such values.
LEMMA IterationExists ==
    ASSUME NEW n \in Nat, NEW A, NEW a \in A, NEW F, \A i \in 1..n, x \in A : F[<<i, x>>] \in A
    PROVE  \E f : Iterates(f, n, A, a, F)
<1> DEFINE G == {k \in 0..n : \E f : Iterates(f, k, A, a, F)}
<1>1. 0 \in G
  <2> DEFINE f == [i \in 0..0 |-> a]
  <2>1. Iterates(f, 0, A, a, F)
    BY DEF Iterates
  <2> QED
    BY <2>1
<1>2. ASSUME NEW k \in 1..n, k - 1 \in G
      PROVE  k \in G
  <2>1. PICK g : Iterates(g, k - 1, A, a, F)
    BY <1>2
  <2>2. k \in Nat /\ k # 0 /\ k \in 0..n /\ k - 1 \in 0..(k-1)
    OBVIOUS
  <2> DEFINE f == [i \in 0..k |-> IF i = k THEN F[<<k, g[k-1]>>] ELSE g[i]]
  <2>3. F[<<k, g[k-1]>>] \in A
    BY <2>1, <2>2 DEF Iterates
  <2>4. f \in [0..k -> A]
    BY <2>1, <2>2, <2>3 DEF Iterates
  <2>5. /\ \A i \in 0..(k-1) : f[i] = g[i]
        /\ f[k] = F[<<k, g[k-1]>>]
    BY <2>2
  <2> HIDE DEF f
  <2>6. f[0] = a
    BY <2>1, <2>2, <2>5 DEF Iterates
  <2>7. ASSUME NEW i \in 1..k
        PROVE  f[i] = F[<<i, f[i-1]>>]
    <3>1. f[i-1] = g[i-1]
      BY <2>2, <2>5
    <3>2. CASE i = k
      BY <2>5, <3>1, <3>2
    <3>3. CASE i # k
      <4>1. i \in 1..(k-1) /\ i \in 0..(k-1)
        BY <2>2, <3>3
      <4>2. g[i] = F[<<i, g[i-1]>>]
        BY <2>1, <4>1 DEF Iterates
      <4> QED
        BY <2>5, <3>1, <4>1, <4>2
    <3> QED
      BY <3>2, <3>3
  <2>8. Iterates(f, k, A, a, F)
    BY <2>4, <2>6, <2>7 DEF Iterates
  <2> QED
    BY <2>2, <2>8
<1>3. n \in G
  <2> HIDE DEF G
  <2>1. \A i \in 0..n : i \in G
    BY <1>1, <1>2, InductionUpTo
  <2> QED
    BY <2>1
<1> QED
  BY <1>3

\* A recursive function with such rounds has the values of the loop.
LEMMA IterationOf ==
    ASSUME NEW n \in Nat, NEW A, NEW a, NEW F, NEW f, Iterates(f, n, A, a, F)
    PROVE  f = [i \in 0..n |-> IF i = 0 THEN a ELSE F[<<i, f[i-1]>>]]
<1>1. \A i \in 0..n : f[i] = IF i = 0 THEN a ELSE F[<<i, f[i-1]>>]
  <2> TAKE i \in 0..n
  <2>1. CASE i = 0
    BY <2>1 DEF Iterates
  <2>2. CASE i # 0
    <3>1. i \in 1..n
      BY <2>2
    <3> QED
      BY <2>2, <3>1 DEF Iterates
  <2> QED
    BY <2>1, <2>2
<1>2. f = [i \in 0..n |-> f[i]]
  BY DEF Iterates
<1> QED
  BY <1>1, <1>2

-----------------------------------------------------------------------------
(* The search by halving.                                                  *)

SearchRange == [first : Int, count : Int]

\* f are the ranges that are left after each round.
RoundsOf(f, first, goesRight) ==
    LET count == Len(goesRight) + 1 - first
    IN /\ f \in [0..count -> SearchRange]
       /\ f[0] = [first |-> first, count |-> count]
       /\ \A n \in 1..count : f[n] = Halve(f[n-1], goesRight)
       /\ PartitionPoint(first, goesRight) = f[count].first

\* The search has such rounds.
LEMMA RoundsExist ==
    ASSUME NEW first \in Int, NEW goesRight, Len(goesRight) + 1 - first \in Nat
    PROVE  \E f : RoundsOf(f, first, goesRight)
<1> DEFINE count == Len(goesRight) + 1 - first
           a == [first |-> first, count |-> count]
           F == [x \in (1..count) \X SearchRange |-> Halve(x[2], goesRight)]
           Rec(f) == [n \in 0..count |-> IF n = 0 THEN a ELSE Halve(f[n-1], goesRight)]
           g == CHOOSE f : f = Rec(f)
<1>1. a \in SearchRange
  BY DEF SearchRange
<1>2. \A x \in SearchRange : Halve(x, goesRight) \in SearchRange
  BY DEF Halve, SearchRange
<1>3. \A i \in 1..count, x \in SearchRange : F[<<i, x>>] = Halve(x, goesRight)
  OBVIOUS
<1>4. count \in Nat
  OBVIOUS
<1>5. PartitionPoint(first, goesRight) = g[count].first
  BY DEF PartitionPoint
<1> HIDE DEF F, a, count
<1>6. PICK f : Iterates(f, count, SearchRange, a, F)
  BY <1>1, <1>2, <1>3, <1>4, IterationExists
<1>7. f = [i \in 0..count |-> IF i = 0 THEN a ELSE F[<<i, f[i-1]>>]]
  BY <1>4, <1>6, IterationOf
<1>8. \A i \in 0..count : i # 0 => F[<<i, f[i-1]>>] = Halve(f[i-1], goesRight)
  <2>1. \A i \in 0..count : i # 0 => i - 1 \in 0..count /\ i \in 1..count
    BY <1>4
  <2> QED
    BY <1>3, <1>6, <2>1 DEF Iterates
<1>9. f = Rec(f)
  BY <1>7, <1>8
<1>10. g = Rec(g)
  BY <1>9
<1> DEFINE G == {n \in 0..count : g[n] \in SearchRange}
<1>11. \A n \in 0..count : g[n] = IF n = 0 THEN a ELSE Halve(g[n-1], goesRight)
  BY <1>10
<1>12. DOMAIN g = 0..count
  BY <1>10
<1> HIDE DEF g, Rec
<1>13. \A n \in 0..count : n \in G
  <2>1. 0 \in G
    BY <1>1, <1>4, <1>11
  <2>2. \A n \in 1..count : n - 1 \in G => n \in G
    BY <1>2, <1>4, <1>11
  <2> HIDE DEF G
  <2> QED
    BY <1>4, <2>1, <2>2, InductionUpTo
<1>14. g \in [0..count -> SearchRange]
  <2>1. g = [n \in 0..count |-> g[n]]
    BY <1>10 DEF Rec
  <2> QED
    BY <1>13, <2>1
<1>15. g[0] = a /\ \A n \in 1..count : g[n] = Halve(g[n-1], goesRight)
  BY <1>4, <1>11
<1> QED
  BY <1>5, <1>14, <1>15 DEF RoundsOf, a, count

\* What the search returns: an index from the first one on whose predecessor, if there is
\* one, goes right, and that does not go right itself, unless it is the end.
LEMMA PointFacts ==
    ASSUME NEW first \in Int, NEW goesRight \in Seq(BOOLEAN),
           first \in 1..(Len(goesRight) + 1),
           NEW p, p = PartitionPoint(first, goesRight)
    PROVE  /\ p \in first..(Len(goesRight) + 1)
           /\ p > first => goesRight[p - 1]
           /\ p <= Len(goesRight) => ~goesRight[p]
<1> DEFINE n == Len(goesRight) + 1 - first
<1>0. Len(goesRight) \in Nat
  BY LenProperties
<1>1. n \in Nat /\ n = Len(goesRight) + 1 - first /\ first >= 1
  BY <1>0
<1> HIDE DEF n
<1>2. PICK f : RoundsOf(f, first, goesRight)
  BY <1>1, RoundsExist
<1>3. /\ f \in [0..n -> SearchRange]
      /\ f[0] = [first |-> first, count |-> n]
      /\ \A k \in 1..n : f[k] = Halve(f[k-1], goesRight)
      /\ p = f[n].first
  BY <1>1, <1>2 DEF RoundsOf
<1> DEFINE end == Len(goesRight) + 1
           Good(r, k) == /\ r.first >= first /\ r.count >= 0 /\ r.first + r.count <= end
                         /\ r.count <= n - k
                         /\ r.first > first => goesRight[r.first - 1]
                         /\ r.first + r.count < end => ~goesRight[r.first + r.count]
           G == {k \in 0..n : Good(f[k], k)}
<1>4. 0 \in G
  BY <1>1, <1>3
<1>5. ASSUME NEW k \in 1..n, k - 1 \in G
      PROVE  k \in G
  <2> DEFINE r == f[k-1]
             half == r.count \div 2
             mid == r.first + half
  <2>1. k - 1 \in 0..n /\ k \in 0..n /\ k \in Nat
    BY <1>1
  <2>2. r \in SearchRange /\ r.first \in Int /\ r.count \in Int
    BY <1>3, <2>1 DEF SearchRange
  <2>3. Good(r, k - 1)
    BY <1>5
  <2>4. f[k] = Halve(r, goesRight)
    BY <1>3
  <2> HIDE DEF r
  <2>5. CASE r.count = 0
    <3>1. Halve(r, goesRight) = r
      BY <2>5 DEF Halve
    <3>2. r.count <= n - k
      BY <1>1, <2>1, <2>5
    <3>3. Good(r, k)
      BY <2>3, <3>2
    <3>4. f[k] = r
      BY <2>4, <3>1
    <3> HIDE DEF Good
    <3> QED
      BY <2>1, <3>3, <3>4
  <2>6. CASE r.count # 0
    <3>1. half \in Int /\ 0 <= half /\ half < r.count
      BY <2>2, <2>3, <2>6
    <3>2. mid = r.first + half
      OBVIOUS
    <3>3. /\ goesRight[mid] => f[k] = [first |-> mid + 1, count |-> r.count - half - 1]
          /\ ~goesRight[mid] => f[k] = [first |-> r.first, count |-> half]
      BY <2>4, <2>6 DEF Halve
    <3> HIDE DEF half, mid, Good
    <3>4. CASE goesRight[mid]
      <4>1. f[k].first = mid + 1 /\ f[k].count = r.count - half - 1
        BY <3>3, <3>4
      <4>2. f[k].first + f[k].count = r.first + r.count /\ f[k].first - 1 = mid
        <5> DEFINE a == r.first
                   b == r.count
        <5>1. a \in Int /\ b \in Int /\ half \in Int /\ mid = a + half
          BY <2>2, <3>1, <3>2
        <5>2. f[k].first = mid + 1 /\ f[k].count = b - half - 1
          BY <4>1
        <5>3. r.first + r.count = a + b
          OBVIOUS
        <5> HIDE DEF a, b
        <5> QED
          BY <5>1, <5>2, <5>3
      <4>3. r.first >= first /\ r.count >= 0 /\ r.count <= n - (k - 1)
        BY <2>3 DEF Good
      <4>4. f[k].first >= first /\ f[k].count >= 0
        BY <2>2, <3>1, <3>2, <4>1, <4>3
      <4>5. f[k].count <= n - k
        BY <1>1, <2>1, <2>2, <3>1, <4>1, <4>3
      <4>6. f[k].first + f[k].count <= end
        BY <2>3, <4>2 DEF Good
      <4>7. f[k].first > first => goesRight[f[k].first - 1]
        BY <3>4, <4>2
      <4>8. f[k].first + f[k].count < end => ~goesRight[f[k].first + f[k].count]
        BY <2>3, <4>2 DEF Good
      <4>9. Good(f[k], k)
        BY <4>4, <4>5, <4>6, <4>7, <4>8 DEF Good
      <4> QED
        BY <2>1, <4>9
    <3>5. CASE ~goesRight[mid]
      <4>1. f[k].first = r.first /\ f[k].count = half
        BY <3>3, <3>5
      <4>2. f[k].first + f[k].count = mid
        BY <2>2, <3>1, <3>2, <4>1
      <4>3. /\ r.first >= first /\ r.count >= 0 /\ r.count <= n - (k - 1)
            /\ r.first + r.count <= end
        BY <2>3 DEF Good
      <4>4. mid <= end
        BY <1>0, <2>2, <3>1, <3>2, <4>3
      <4>5. f[k].first >= first /\ f[k].count >= 0
        BY <2>2, <3>1, <4>1, <4>3
      <4>6. f[k].count <= n - k
        BY <1>1, <2>1, <2>2, <3>1, <4>1, <4>3
      <4>7. f[k].first > first => goesRight[f[k].first - 1]
        BY <2>3, <4>1 DEF Good
      <4>9. Good(f[k], k)
        BY <3>5, <4>2, <4>4, <4>5, <4>6, <4>7 DEF Good
      <4> QED
        BY <2>1, <4>9
    <3> QED
      BY <3>4, <3>5
  <2> QED
    BY <2>5, <2>6
<1>6. n \in G
  <2> HIDE DEF G
  <2>1. \A k \in 0..n : k \in G
    BY <1>1, <1>4, <1>5, InductionUpTo
  <2> QED
    BY <1>1, <2>1
<1>7. n \in 0..n /\ f[n].first \in Int /\ f[n].count \in Int
  <2>1. n \in 0..n
    BY <1>1
  <2>2. f[n] \in SearchRange
    BY <1>3, <2>1
  <2> QED
    BY <2>1, <2>2 DEF SearchRange
<1>8. Good(f[n], n)
  BY <1>6
<1>9. f[n].count = 0
  BY <1>1, <1>7, <1>8
<1>10. f[n].first + f[n].count = f[n].first
  BY <1>7, <1>9
<1>11. Len(goesRight) \in Nat
  BY LenProperties
<1> QED
  BY <1>3, <1>7, <1>8, <1>9, <1>10, <1>11

\* In a partitioned sequence it is the first index that does not go right.
LEMMA PointOfPartition ==
    ASSUME NEW first \in Int, NEW goesRight \in Seq(BOOLEAN),
           first \in 1..(Len(goesRight) + 1), Partitioned(first, goesRight),
           NEW p, p = PartitionPoint(first, goesRight)
    PROVE  \A k \in first..Len(goesRight) : goesRight[k] <=> k < p
<1>1. /\ p \in first..(Len(goesRight) + 1)
      /\ p > first => goesRight[p - 1]
      /\ p <= Len(goesRight) => ~goesRight[p]
  BY PointFacts
<1>2. Len(goesRight) \in Nat
  BY LenProperties
<1> TAKE k \in first..Len(goesRight)
<1>3. CASE k < p
  <2>1. p - 1 \in first..Len(goesRight) /\ k <= p - 1 /\ p > first
    BY <1>1, <1>2, <1>3
  <2>2. goesRight[p - 1]
    BY <1>1, <2>1
  <2>3. k < p - 1 => goesRight[k]
    BY <2>1, <2>2 DEF Partitioned
  <2>4. k = p - 1 => goesRight[k]
    BY <2>2
  <2> QED
    BY <1>1, <1>3, <2>1, <2>3, <2>4
<1>4. CASE ~(k < p)
  <2>1. p \in first..Len(goesRight) /\ p <= k
    BY <1>1, <1>2, <1>4
  <2>2. ~goesRight[p]
    BY <1>1, <2>1
  <2>3. p < k => ~goesRight[k]
    BY <2>1, <2>2 DEF Partitioned
  <2>4. p = k => ~goesRight[k]
    BY <2>2
  <2> QED
    BY <1>4, <2>1, <2>3, <2>4
<1> QED
  BY <1>3, <1>4
=============================================================================
