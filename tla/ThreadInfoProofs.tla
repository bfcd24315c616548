-------------------------- MODULE ThreadInfoProofs --------------------------
(***************************************************************************)
(* What the event handler keeps of one thread that notifies, for any       *)
(* number of locks and any capacity: the slots of the recent list are      *)
(* linked as they should be, and slots, indexes and sorted vectors         *)
(* implement the counts and lists of ThreadState.                          *)
(***************************************************************************)
EXTENDS ThreadInfo, RecentListProofs

-----------------------------------------------------------------------------
(* The linked slots.  V are the values that may be in the list.            *)

Links == Slots \cup {None}

LRU(V) ==
    [data : [Slots -> V \cup {NoValue}], prev : [Slots -> Links], next : [Slots -> Links],
     head : Links, tail : Links, freeHead : Links, size : 0..Capacity,
     idxMap : UNION {[D -> Slots] : D \in SUBSET V}]

\* s are the slots of the list from the oldest to the newest, f the free ones.
Chained(c, s, f) ==
    /\ s \in Seq(Slots) /\ Len(s) = c.size /\ NoDuplicates(s)
    /\ f \in Seq(Slots) /\ Len(f) = Capacity - c.size /\ NoDuplicates(f)
    /\ Elements(s) \cap Elements(f) = {} /\ Elements(s) \cup Elements(f) = Slots
    /\ c.head = IF Len(s) = 0 THEN None ELSE s[1]
    /\ c.tail = IF Len(s) = 0 THEN None ELSE s[Len(s)]
    /\ \A k \in 1..Len(s) : c.next[s[k]] = IF k = Len(s) THEN None ELSE s[k + 1]
    /\ \A k \in 1..Len(s) : c.prev[s[k]] = IF k = 1 THEN None ELSE s[k - 1]
    /\ c.freeHead = IF Len(f) = 0 THEN None ELSE f[1]
    /\ \A k \in 1..Len(f) : c.next[f[k]] = IF k = Len(f) THEN None ELSE f[k + 1]

\* The values of list are in the slots s, and the map knows where.
Mapped(c, s, list) ==
    /\ list = [k \in 1..Len(s) |-> c.data[s[k]]]
    /\ NoDuplicates(list)
    /\ DOMAIN c.idxMap = Elements(list)
    /\ \A k \in 1..Len(s) : c.idxMap[list[k]] = s[k]

Represents(c, V, list) ==
    /\ c \in LRU(V) /\ list \in Seq(V)
    /\ \E s, f : Chained(c, s, f) /\ Mapped(c, s, list)

\* The n elements of s are linked, the first being slot.
Linked(s, slot, links, n) ==
    /\ s = [k \in 1..n |-> s[k]]
    /\ n > 0 => s[1] = slot
    /\ \A k \in 2..n : s[k] = IF s[k-1] = None THEN None ELSE links[s[k-1]]

\* Walking along the links yields the slots that are linked.
LEMMA WalkFacts ==
    ASSUME NEW n \in Nat, NEW s, NEW slot, NEW links, Linked(s, slot, links, n)
    PROVE  WalkFrom(slot, links, n) = s
<1> DEFINE Rec(at) == [k \in 1..n |-> IF k = 1 THEN slot
                                      ELSE IF at[k-1] = None THEN None ELSE links[at[k-1]]]
           g == CHOOSE at : at = Rec(at)
<1>1. WalkFrom(slot, links, n) = [k \in 1..n |-> g[k]]
  BY DEF WalkFrom
<1>2. \A k \in 1..n : s[k] = Rec(s)[k]
  <2> TAKE k \in 1..n
  <2>1. CASE k = 1
    BY <2>1 DEF Linked
  <2>2. CASE k # 1
    <3>1. k \in 2..n
      BY <2>2
    <3> QED
      BY <2>2, <3>1 DEF Linked
  <2> QED
    BY <2>1, <2>2
<1>3. s = Rec(s)
  BY <1>2 DEF Linked
<1>4. g = Rec(g)
  BY <1>3
<1>5. \A k \in 1..n : g[k] = IF k = 1 THEN slot
                             ELSE IF g[k-1] = None THEN None ELSE links[g[k-1]]
  BY <1>4
<1> HIDE DEF g, Rec
<1> DEFINE G == {k \in 0..n : k > 0 => g[k] = s[k]}
<1>6. 0 \in G
  OBVIOUS
<1>7. ASSUME NEW k \in 1..n, k - 1 \in G
      PROVE  k \in G
  <2>1. CASE k = 1
    BY <1>5, <2>1 DEF Linked
  <2>2. CASE k # 1
    <3>1. k \in 2..n /\ k - 1 > 0
      BY <2>2
    <3>2. g[k-1] = s[k-1]
      BY <1>7, <3>1
    <3>3. g[k] = s[k]
      BY <1>5, <2>2, <3>1, <3>2 DEF Linked
    <3> QED
      BY <3>3
  <2> QED
    BY <2>1, <2>2
<1>8. \A k \in 0..n : k \in G
  <2> HIDE DEF G
  <2> QED
    BY <1>6, <1>7, InductionUpTo
<1>9. \A k \in 1..n : g[k] = s[k]
  BY <1>8
<1> QED
  BY <1>1, <1>9 DEF Linked

\* A list that is represented is the one the iterators walk, and its slots are consistent.
LEMMA RepresentsFacts ==
    ASSUME NEW V, NEW c, NEW list, Represents(c, V, list)
    PROVE  /\ ListOf(c) = list
           /\ Len(list) <= Capacity /\ NoDuplicates(list)
           /\ Consistent(c)
<1>1. PICK s, f : Chained(c, s, f) /\ Mapped(c, s, list)
  BY DEF Represents
<1>2. /\ s \in Seq(Slots) /\ Len(s) = c.size /\ c.size \in Nat /\ DOMAIN s = 1..c.size
      /\ f \in Seq(Slots) /\ Len(f) = Capacity - c.size /\ Len(f) \in Nat /\ DOMAIN f = 1..Len(f)
      /\ s = [k \in 1..c.size |-> s[k]] /\ f = [k \in 1..Len(f) |-> f[k]]
  BY <1>1, LenProperties DEF Chained
<1>3. /\ \A k \in 1..c.size : s[k] \in Slots /\ s[k] # None
      /\ \A k \in 1..Len(f) : f[k] \in Slots /\ f[k] # None
  <2>1. \A x \in Slots : x # None
    BY CapacityAssumption DEF Slots, None
  <2> QED
    BY <1>2, <2>1, ElementOfSeq
<1>4. Forward(c) = s
  <2>1. c.size > 0 => s[1] = c.head
    BY <1>1, <1>2 DEF Chained
  <2>2. \A k \in 2..c.size : s[k] = IF s[k-1] = None THEN None ELSE c.next[s[k-1]]
    <3> TAKE k \in 2..c.size
    <3>1. k - 1 \in 1..c.size /\ k - 1 # c.size /\ (k - 1) + 1 = k
      BY <1>2
    <3>2. c.next[s[k-1]] = s[k]
      BY <1>1, <1>2, <3>1 DEF Chained
    <3> QED
      BY <1>3, <3>1, <3>2
  <2> QED
    <3>1. Linked(s, c.head, c.next, c.size)
      BY <1>2, <2>1, <2>2 DEF Linked
    <3> QED
      BY <1>2, <3>1, WalkFacts DEF Forward
<1>5. Backward(c) = s
  <2> DEFINE n == c.size
             r == [k \in 1..n |-> s[n + 1 - k]]
  <2>1. n \in Nat
    BY <1>2
  <2>2. n > 0 => r[1] = c.tail
    BY <1>1, <1>2 DEF Chained
  <2>3. \A k \in 2..n : r[k] = IF r[k-1] = None THEN None ELSE c.prev[r[k-1]]
    <3> TAKE k \in 2..n
    <3>1. /\ k \in 1..n /\ k - 1 \in 1..n /\ n + 1 - (k - 1) \in 1..n
          /\ n + 1 - (k - 1) # 1 /\ (n + 1 - (k - 1)) - 1 = n + 1 - k
      BY <2>1
    <3>2. r[k] = s[n + 1 - k] /\ r[k-1] = s[n + 1 - (k - 1)]
      BY <3>1
    <3>3. c.prev[s[n + 1 - (k - 1)]] = s[n + 1 - k]
      BY <1>1, <1>2, <3>1, ZenonT(40) DEF Chained
    <3> QED
      BY <1>3, <3>1, <3>2, <3>3
  <2>4. r = [k \in 1..n |-> r[k]]
    OBVIOUS
  <2>5. WalkFrom(c.tail, c.prev, n) = r
    <3>1. Linked(r, c.tail, c.prev, n)
      BY <2>2, <2>3, <2>4 DEF Linked
    <3> HIDE DEF r, n
    <3> QED
      BY <2>1, <3>1, WalkFacts
  <2>6. \A k \in 1..n : r[n + 1 - k] = s[k]
    <3> TAKE k \in 1..n
    <3>1. n + 1 - k \in 1..n /\ n + 1 - (n + 1 - k) = k
      BY <2>1
    <3> QED
      BY <3>1
  <2> QED
    BY <1>2, <2>5, <2>6 DEF Backward
<1>6. Free(c) = Elements(f)
  <2>1. Len(f) > 0 => f[1] = c.freeHead
    BY <1>1, <1>2 DEF Chained
  <2>2. \A k \in 2..Len(f) : f[k] = IF f[k-1] = None THEN None ELSE c.next[f[k-1]]
    <3> TAKE k \in 2..Len(f)
    <3>1. k - 1 \in 1..Len(f) /\ k - 1 # Len(f) /\ (k - 1) + 1 = k
      BY <1>2
    <3>2. c.next[f[k-1]] = f[k]
      BY <1>1, <3>1 DEF Chained
    <3> QED
      BY <1>3, <3>1, <3>2
  <2>3. WalkFrom(c.freeHead, c.next, Len(f)) = f
    <3>1. Linked(f, c.freeHead, c.next, Len(f))
      BY <1>2, <2>1, <2>2 DEF Linked
    <3> QED
      BY <1>2, <3>1, WalkFacts
  <2> QED
    BY <1>2, <2>3 DEF Free, Elements
<1>7. ListOf(c) = list
  BY <1>1, <1>2, <1>4 DEF ListOf, Mapped
<1>8. {Forward(c)[k] : k \in 1..c.size} \cup Free(c) = Slots
  <2>1. {Forward(c)[k] : k \in 1..c.size} = Elements(s)
    BY <1>2, <1>4 DEF Elements
  <2> QED
    BY <1>1, <1>6, <2>1 DEF Chained
<1>9. c.size > 0 => c.next[c.tail] = None /\ c.prev[c.head] = None
  <2> SUFFICES ASSUME c.size > 0
               PROVE  c.next[c.tail] = None /\ c.prev[c.head] = None
    OBVIOUS
  <2>1. c.size \in 1..c.size /\ 1 \in 1..c.size /\ c.head = s[1] /\ c.tail = s[c.size]
    BY <1>1, <1>2 DEF Chained
  <2> QED
    BY <1>1, <1>2, <2>1 DEF Chained
<1>10. Elements(list) = {ListOf(c)[k] : k \in 1..c.size}
  <2>1. DOMAIN list = 1..c.size
    BY <1>1, <1>2 DEF Mapped
  <2> QED
    BY <1>7, <2>1 DEF Elements
<1>11. \A x \in DOMAIN c.idxMap : c.data[c.idxMap[x]] = x
  <2> TAKE x \in DOMAIN c.idxMap
  <2>1. DOMAIN list = 1..c.size
    BY <1>1, <1>2 DEF Mapped
  <2>2. PICK k \in 1..c.size : x = list[k]
    BY <1>1, <2>1 DEF Mapped, Elements
  <2> QED
    BY <1>1, <1>2, <2>2 DEF Mapped
<1>12. Consistent(c)
  BY <1>1, <1>4, <1>5, <1>8, <1>9, <1>10, <1>11 DEF Consistent, Mapped
<1>13. Len(list) <= Capacity /\ NoDuplicates(list)
  <2>1. list \in Seq(V) /\ DOMAIN list = 1..c.size
    BY <1>1, <1>2 DEF Represents, Mapped
  <2>2. Len(list) = c.size
    BY <1>2, <2>1, LenProperties
  <2>3. c.size <= Capacity
    BY CapacityAssumption DEF Represents, LRU
  <2> QED
    BY <1>1, <2>2, <2>3 DEF Mapped
<1> QED
  BY <1>7, <1>12, <1>13

\* The empty list.
LEMMA EmptyRepresents ==
    ASSUME NEW V
    PROVE  Represents(EmptyLRU, V, <<>>)
<1> DEFINE c == EmptyLRU
           f == [k \in 1..Capacity |-> k - 1]
           s == <<>>
<1>1. Capacity \in Nat /\ Capacity >= 2 /\ None = -1 /\ Slots = 0..(Capacity - 1)
  BY CapacityAssumption DEF None, Slots
<1>2. c \in LRU(V)
  <2>1. \A i \in Slots : (IF i = Capacity - 1 THEN None ELSE i + 1) \in Links
    BY <1>1 DEF Links
  <2>2. None \in Links /\ 0 \in Links /\ 0 \in 0..Capacity
    BY <1>1 DEF Links
  <2>3. [x \in {} |-> None] \in [{} -> Slots]
    OBVIOUS
  <2> QED
    BY <2>1, <2>2, <2>3 DEF EmptyLRU, LRU
<1>3. f \in Seq(Slots) /\ Len(f) = Capacity /\ DOMAIN f = 1..Capacity
  <2>1. f \in [1..Capacity -> Slots]
    BY <1>1
  <2> QED
    BY <1>1, <2>1
<1>4. s \in Seq(Slots) /\ Len(s) = 0 /\ DOMAIN s = {} /\ s = [k \in 1..0 |-> c.data[s[k]]]
  OBVIOUS
<1>5. NoDuplicates(f) /\ NoDuplicates(s) /\ Elements(s) = {}
  BY <1>1, <1>3, <1>4 DEF NoDuplicates, Elements
<1>6. Elements(f) = Slots
  <2>1. \A i \in Slots : i + 1 \in 1..Capacity /\ f[i + 1] = i
    BY <1>1
  <2>2. \A k \in 1..Capacity : f[k] \in Slots
    BY <1>1
  <2>3. Elements(f) = {f[k] : k \in 1..Capacity}
    BY <1>3 DEF Elements
  <2> HIDE DEF f
  <2> QED
    BY <2>1, <2>2, <2>3
<1>7. /\ c.size = 0 /\ c.head = None /\ c.tail = None /\ c.freeHead = 0
      /\ c.next = [i \in Slots |-> IF i = Capacity - 1 THEN None ELSE i + 1]
      /\ DOMAIN c.idxMap = {}
  BY DEF EmptyLRU
<1>8. f[1] = 0
  BY <1>1
<1>9. \A k \in 1..Capacity : c.next[f[k]] = IF k = Capacity THEN None ELSE f[k + 1]
  BY <1>1, <1>7
<1> HIDE DEF c, f, s
<1>10. Chained(c, s, f)
  <2>1. Capacity - c.size = Capacity /\ Capacity # 0
    BY <1>1, <1>7
  <2>2. \A k \in 1..Len(s) : FALSE
    BY <1>4
  <2> QED
    BY <1>3, <1>4, <1>5, <1>6, <1>7, <1>8, <1>9, <2>1, <2>2 DEF Chained
<1>11. Mapped(c, s, s)
  BY <1>4, <1>5, <1>7 DEF Mapped
<1> QED
  BY <1>2, <1>4, <1>10, <1>11 DEF Represents, c, s

\* unsafe_update moves an index to the end.
LEMMA MovedToEnd ==
    ASSUME NEW S, NEW s \in Seq(S), NEW m \in DOMAIN s
    PROVE  LET r == Append(RemoveIndex(s, m), s[m])
           IN /\ r \in Seq(S) /\ Len(r) = Len(s) /\ DOMAIN r = 1..Len(s)
              /\ \A k \in 1..Len(s) : r[k] = IF k < m THEN s[k]
                                             ELSE IF k < Len(s) THEN s[k + 1] ELSE s[m]
<1> DEFINE q == RemoveIndex(s, m)
           r == Append(q, s[m])
<1>1. /\ q \in Seq(S) /\ Len(q) = Len(s) - 1
      /\ \A k \in 1..(Len(s) - 1) : q[k] = IF k < m THEN s[k] ELSE s[k + 1]
  BY RemoveIndexFacts
<1>2. DOMAIN s = 1..Len(s) /\ Len(s) \in Nat /\ m \in 1..Len(s) /\ s[m] \in S
  BY LenProperties, ElementOfSeq
<1> HIDE DEF q
<1>3. /\ r \in Seq(S) /\ Len(r) = Len(q) + 1
      /\ \A k \in 1..Len(q) : r[k] = q[k]
      /\ r[Len(q) + 1] = s[m]
  BY <1>1, <1>2, AppendProperties
<1>4. Len(r) = Len(s) /\ DOMAIN r = 1..Len(s) /\ r = [k \in 1..Len(s) |-> r[k]]
  BY <1>1, <1>2, <1>3, LenProperties
<1> HIDE DEF r
<1>5. ASSUME NEW k \in 1..Len(s)
      PROVE  r[k] = IF k < m THEN s[k] ELSE IF k < Len(s) THEN s[k + 1] ELSE s[m]
  <2>1. CASE k < Len(s)
    <3>1. k \in 1..(Len(s) - 1) /\ k \in 1..Len(q)
      BY <1>1, <1>2, <2>1
    <3>2. r[k] = q[k] /\ q[k] = IF k < m THEN s[k] ELSE s[k + 1]
      BY <1>1, <1>3, <3>1
    <3> QED
      BY <2>1, <3>2
  <2>2. CASE k = Len(s)
    <3>1. Len(q) + 1 = k /\ ~(k < m) /\ ~(k < Len(s))
      BY <1>1, <1>2, <2>2
    <3> QED
      BY <1>3, <3>1
  <2>3. k < Len(s) \/ k = Len(s)
    <3>1. \A a \in Nat : \A b \in 1..a : b < a \/ b = a
      OBVIOUS
    <3> QED
      BY <1>2, <3>1
  <2> QED
    BY <2>1, <2>2, <2>3
<1> QED
  BY <1>3, <1>4, <1>5 DEF q, r

\* A value that is in the list becomes the newest.
LEMMA UpdateRepresents ==
    ASSUME NEW V, NEW c, NEW list, Represents(c, V, list),
           NEW m \in DOMAIN list
    PROVE  /\ list[m] \in DOMAIN c.idxMap
           /\ Represents(Update(c, c.idxMap[list[m]]), V,
                         Append(RemoveIndex(list, m), list[m]))
<1> DEFINE n == c.size
<1>1. PICK s, f : Chained(c, s, f) /\ Mapped(c, s, list)
  BY DEF Represents
<1>2. /\ s \in Seq(Slots) /\ Len(s) = n /\ n \in Nat /\ DOMAIN s = 1..n
      /\ f \in Seq(Slots) /\ \A k \in 1..Len(f) : f[k] \in Slots
      /\ \A k \in 1..n : s[k] \in Slots
  BY <1>1, LenProperties, ElementOfSeq DEF Chained
<1>3. /\ list \in Seq(V) /\ DOMAIN list = 1..n /\ m \in 1..n /\ Len(list) = n
      /\ \A k \in 1..n : list[k] = c.data[s[k]]
  <2>1. list = [k \in 1..n |-> c.data[s[k]]]
    BY <1>1, <1>2 DEF Mapped
  <2> HIDE DEF n
  <2>2. DOMAIN list = 1..n /\ \A k \in 1..n : list[k] = c.data[s[k]]
    BY <2>1
  <2>3. list \in Seq(V)
    BY DEF Represents
  <2>4. m \in 1..n
    BY <2>2
  <2>5. Len(list) = n
    BY <1>2, <2>2, <2>3, LenProperties
  <2> QED
    BY <2>2, <2>3, <2>4, <2>5
<1>4. c \in LRU(V)
  BY DEF Represents
<1> HIDE DEF n
<1>5. list[m] \in DOMAIN c.idxMap /\ c.idxMap[list[m]] = s[m]
  BY <1>1, <1>2, <1>3 DEF Mapped, Elements
<1> DEFINE r == Append(RemoveIndex(s, m), s[m])
           moved == Append(RemoveIndex(list, m), list[m])
<1>6. /\ r \in Seq(Slots) /\ Len(r) = n /\ DOMAIN r = 1..n
      /\ \A k \in 1..n : r[k] = IF k < m THEN s[k] ELSE IF k < n THEN s[k + 1] ELSE s[m]
  <2>1. s \in Seq(Slots) /\ m \in DOMAIN s /\ Len(s) = n
    BY <1>2, <1>3
  <2> QED
    BY <2>1, MovedToEnd
<1>7. /\ moved \in Seq(V) /\ Len(moved) = n /\ DOMAIN moved = 1..n
      /\ \A k \in 1..n : moved[k] = IF k < m THEN list[k] ELSE IF k < n THEN list[k + 1] ELSE list[m]
  BY <1>3, MovedToEnd
<1> HIDE DEF r, moved
<1>8. /\ \A k \in 1..(m-1) : r[k] = s[k] /\ moved[k] = list[k]
      /\ \A k \in m..(n-1) : r[k] = s[k + 1] /\ moved[k] = list[k + 1]
      /\ r[n] = s[m] /\ moved[n] = list[m]
  BY <1>2, <1>3, <1>6, <1>7
<1>9. DOMAIN r = 1..n /\ DOMAIN moved = 1..n
  BY <1>6, <1>7
<1>10. \A j \in 1..n : \E k \in 1..n : r[j] = s[k] /\ moved[j] = list[k]
                        /\ k = IF j < m THEN j ELSE IF j < n THEN j + 1 ELSE m
  <2> TAKE j \in 1..n
  <2> DEFINE k == IF j < m THEN j ELSE IF j < n THEN j + 1 ELSE m
  <2>1. k \in 1..n
    BY <1>2, <1>3
  <2>2. r[j] = s[k] /\ moved[j] = list[k]
    BY <1>6, <1>7
  <2> QED
    BY <2>1, <2>2
<1>11. \A k \in 1..n : \E j \in 1..n : r[j] = s[k] /\ moved[j] = list[k]
  <2> TAKE k \in 1..n
  <2>1. CASE k < m
    BY <1>2, <1>3, <1>8, <2>1
  <2>2. CASE k = m
    <3>1. n \in 1..n
      BY <1>2, <1>3
    <3> QED
      BY <1>8, <2>2, <3>1
  <2>3. CASE k > m
    <3>1. k - 1 \in m..(n-1) /\ k - 1 \in 1..n /\ (k - 1) + 1 = k
      BY <1>2, <1>3, <2>3
    <3> QED
      BY <1>8, <3>1
  <2> QED
    BY <1>2, <1>3, <2>1, <2>2, <2>3
<1>12. Elements(r) = Elements(s) /\ Elements(moved) = Elements(list)
  <2>1. /\ Elements(r) = {r[k] : k \in 1..n} /\ Elements(s) = {s[k] : k \in 1..n}
        /\ Elements(moved) = {moved[k] : k \in 1..n} /\ Elements(list) = {list[k] : k \in 1..n}
    BY <1>2, <1>3, <1>9 DEF Elements
  <2>2. /\ \A j \in 1..n : \E k \in 1..n : r[j] = s[k]
        /\ \A j \in 1..n : \E k \in 1..n : moved[j] = list[k]
    BY <1>10
  <2>3. /\ \A j \in 1..n : \E k \in 1..n : s[j] = r[k]
        /\ \A j \in 1..n : \E k \in 1..n : list[j] = moved[k]
    BY <1>11
  <2>4. /\ {r[k] : k \in 1..n} \subseteq {s[k] : k \in 1..n}
        /\ {moved[k] : k \in 1..n} \subseteq {list[k] : k \in 1..n}
    BY <2>2
  <2>5. /\ {s[k] : k \in 1..n} \subseteq {r[k] : k \in 1..n}
        /\ {list[k] : k \in 1..n} \subseteq {moved[k] : k \in 1..n}
    BY <2>3
  <2> QED
    BY <2>1, <2>4, <2>5
<1>13. NoDuplicates(s) /\ NoDuplicates(list)
  BY <1>1 DEF Chained, Mapped
<1>14. NoDuplicates(r) /\ NoDuplicates(moved)
  <2>1. \A a, b \in 1..n : s[a] = s[b] => a = b
    BY <1>2, <1>13 DEF NoDuplicates
  <2>2. \A a, b \in 1..n : list[a] = list[b] => a = b
    BY <1>3, <1>13 DEF NoDuplicates
  <2>3. ASSUME NEW i \in 1..n, NEW j \in 1..n, r[i] = r[j] \/ moved[i] = moved[j]
        PROVE  i = j
    <3>1. PICK a \in 1..n : r[i] = s[a] /\ moved[i] = list[a]
                             /\ a = IF i < m THEN i ELSE IF i < n THEN i + 1 ELSE m
      BY <1>10
    <3>2. PICK b \in 1..n : r[j] = s[b] /\ moved[j] = list[b]
                             /\ b = IF j < m THEN j ELSE IF j < n THEN j + 1 ELSE m
      BY <1>10
    <3>3. a = b
      BY <2>1, <2>2, <2>3, <3>1, <3>2
    <3> QED
      BY <1>2, <1>3, <3>1, <3>2, <3>3
  <2> QED
    BY <1>9, <2>3 DEF NoDuplicates
<1>15. CASE m = n
  <2>1. Update(c, s[m]) = c
    BY <1>1, <1>2, <1>3, <1>15 DEF Update, Chained
  <2>2. moved = list
    <3>1. \A k \in 1..n : moved[k] = list[k]
      BY <1>2, <1>3, <1>8, <1>15
    <3>2. moved = [k \in 1..n |-> moved[k]] /\ list = [k \in 1..n |-> list[k]]
      BY <1>1, <1>2, <1>7, <1>3 DEF Mapped
    <3> QED
      BY <3>1, <3>2
  <2> QED
    BY <1>5, <2>1, <2>2 DEF moved
<1>16. CASE m # n
  <2> DEFINE i == s[m]
             u == Update(c, i)
  <2>1. m \in 1..(n-1) /\ m + 1 \in 1..n /\ n \in 1..n /\ n # 0 /\ m \in 1..n
    BY <1>2, <1>3, <1>16
  <2>2. \A a, b \in 1..n : s[a] = s[b] => a = b
    BY <1>2, <1>13 DEF NoDuplicates
  <2>3. i # c.tail /\ c.tail = s[n] /\ c.head = s[1]
    BY <1>1, <1>2, <2>1, <2>2, <1>16 DEF Chained
  <2>4. c.next[i] = s[m + 1]
    BY <1>1, <1>2, <1>16, <2>1 DEF Chained
  <2>5. c.prev[i] = IF m = 1 THEN None ELSE s[m - 1]
    BY <1>1, <1>2, <2>1 DEF Chained
  <2>6. i = c.head <=> m = 1
    <3>1. 1 \in 1..n
      BY <2>1
    <3> QED
      BY <2>1, <2>2, <2>3, <3>1
  <2> DEFINE next == [j \in Slots |-> CASE j = i -> None
                                        [] j = c.tail -> i
                                        [] i # c.head /\ j = c.prev[i] -> c.next[i]
                                        [] OTHER -> c.next[j]]
             prev == [c.prev EXCEPT ![c.next[i]] = c.prev[i], ![i] = c.tail]
  <2>7. u = [c EXCEPT !.head = IF i = c.head THEN c.next[i] ELSE c.head,
                      !.next = next, !.prev = prev, !.tail = i]
    BY <2>3 DEF Update
  <2>8. /\ c.data \in [Slots -> V \cup {NoValue}] /\ c.prev \in [Slots -> Links]
        /\ c.next \in [Slots -> Links] /\ c.head \in Links /\ c.tail \in Links
        /\ c.freeHead \in Links /\ c.size \in 0..Capacity
        /\ c.idxMap \in UNION {[D -> Slots] : D \in SUBSET V}
    BY <1>4 DEF LRU
  <2>9. /\ u.head = (IF m = 1 THEN s[2] ELSE c.head) /\ u.tail = i
        /\ u.next = next /\ u.prev = prev
        /\ u.data = c.data /\ u.freeHead = c.freeHead /\ u.size = c.size /\ u.idxMap = c.idxMap
    <3>1. m = 1 => m + 1 = 2
      OBVIOUS
    <3> HIDE DEF next, prev, i, u
    <3> QED
      BY <1>4, <2>4, <2>6, <2>7, <3>1 DEF LRU
  <2>10. i \in Slots /\ s[m + 1] \in Slots /\ c.tail \in Slots /\ s[m + 1] # i
    BY <1>2, <2>1, <2>2, <2>3
  <2>11. next \in [Slots -> Links]
    <3>1. \A j \in Slots : c.next[j] \in Links
      BY <2>8
    <3>2. i \in Links /\ None \in Links
      BY <2>10 DEF Links
    <3> QED
      BY <2>10, <3>1, <3>2
  <2>12. prev \in [Slots -> Links]
    <3>1. c.prev[i] \in Links /\ c.tail \in Links
      BY <2>8, <2>10
    <3> QED
      BY <2>8, <3>1
  <2>13. u \in LRU(V)
    <3>1. (IF i = c.head THEN c.next[i] ELSE c.head) \in Links /\ i \in Links
      BY <2>8, <2>10 DEF Links
    <3> HIDE DEF next, prev, i, u
    <3> QED
      BY <1>4, <2>7, <2>11, <2>12, <3>1 DEF LRU
  <2>14. \A j \in Slots : /\ j = i => next[j] = None
                          /\ j # i /\ j = c.tail => next[j] = i
                          /\ j # i /\ j # c.tail /\ i # c.head /\ j = c.prev[i] => next[j] = c.next[i]
                          /\ j # i /\ j # c.tail /\ ~(i # c.head /\ j = c.prev[i]) => next[j] = c.next[j]
    <3> TAKE j \in Slots
    <3>1. next[j] = CASE j = i -> None
                      [] j = c.tail -> i
                      [] i # c.head /\ j = c.prev[i] -> c.next[i]
                      [] OTHER -> c.next[j]
      OBVIOUS
    <3>2. ~(j = i /\ j = c.tail)
      BY <2>3
    <3>3. ~(j = c.tail /\ i # c.head /\ j = c.prev[i])
      <4>1. m # 1 => m - 1 \in 1..n /\ m - 1 # n
        BY <2>1
      <4> QED
        BY <2>1, <2>2, <2>3, <2>5, <2>6, <4>1
    <3>4. ~(j = i /\ i # c.head /\ j = c.prev[i])
      <4>1. m # 1 => m - 1 \in 1..n /\ m - 1 # m
        BY <2>1
      <4> QED
        BY <2>1, <2>2, <2>5, <2>6, <4>1
    <3> HIDE DEF next, i
    <3> QED
      BY <3>1, <3>2, <3>3, <3>4
  <2>15. \A j \in Slots : prev[j] = IF j = i THEN c.tail ELSE IF j = s[m + 1] THEN c.prev[i] ELSE c.prev[j]
    BY <2>4, <2>8, <2>10
  <2> HIDE DEF next, prev, u
  <2>16. \A k \in 1..n : next[r[k]] = IF k = n THEN None ELSE r[k + 1]
    <3> TAKE k \in 1..n
    <3>1. CASE k = n
      BY <1>8, <2>10, <2>14, <3>1
    <3>2. CASE k = n - 1
      <4>1. k # n /\ k \in m..(n-1) /\ k + 1 = n
        BY <2>1, <3>2
      <4>2. r[k] = s[n] /\ r[n] = i
        BY <1>8, <4>1
      <4> QED
        BY <2>3, <2>10, <2>14, <4>1, <4>2
    <3>3. CASE k < n - 1 /\ k >= m
      <4>1. /\ k \in m..(n-1) /\ k + 1 \in m..(n-1) /\ k + 1 \in 1..n /\ k + 1 # n /\ k # n
            /\ (k + 1) + 1 = k + 2
        BY <2>1, <3>3
      <4>2. r[k] = s[k + 1] /\ r[k + 1] = s[k + 2]
        BY <1>8, <4>1
      <4>3. s[k + 1] # i /\ s[k + 1] # s[n]
        BY <2>1, <2>2, <3>3, <4>1
      <4>4. ~(i # c.head /\ s[k + 1] = c.prev[i])
        <5>1. m # 1 => m - 1 \in 1..n /\ k + 1 # m - 1
          BY <2>1, <3>3
        <5> QED
          BY <2>2, <2>5, <2>6, <4>1, <5>1
      <4>5. c.next[s[k + 1]] = s[k + 2]
        BY <1>1, <1>2, <4>1 DEF Chained
      <4> QED
        BY <1>2, <2>3, <2>14, <4>1, <4>2, <4>3, <4>4, <4>5
    <3>4. CASE k = m - 1
      <4>1. /\ k \in 1..(m-1) /\ k + 1 = m /\ m \in m..(n-1) /\ k # n /\ m # 1 /\ k # m
        BY <2>1, <3>4
      <4>2. r[k] = s[k] /\ r[k + 1] = s[m + 1]
        BY <1>8, <4>1
      <4>3. s[k] # i /\ s[k] # s[n]
        BY <2>1, <2>2, <4>1
      <4>4. i # c.head /\ s[k] = c.prev[i]
        BY <2>5, <2>6, <3>4, <4>1
      <4> QED
        BY <1>2, <2>3, <2>4, <2>14, <4>1, <4>2, <4>3, <4>4
    <3>5. CASE k < m - 1
      <4>1. /\ k \in 1..(m-1) /\ k + 1 \in 1..(m-1) /\ k # n /\ k # m /\ k # m - 1
        BY <2>1, <3>5
      <4>2. r[k] = s[k] /\ r[k + 1] = s[k + 1]
        BY <1>8, <4>1
      <4>3. s[k] # i /\ s[k] # s[n]
        BY <2>1, <2>2, <4>1
      <4>4. ~(i # c.head /\ s[k] = c.prev[i])
        <5>1. m # 1 => m - 1 \in 1..n
          BY <2>1
        <5> QED
          BY <2>2, <2>5, <2>6, <4>1, <5>1
      <4>5. c.next[s[k]] = s[k + 1]
        BY <1>1, <1>2, <4>1 DEF Chained
      <4> QED
        BY <1>2, <2>3, <2>14, <4>1, <4>2, <4>3, <4>4, <4>5
    <3> QED
      BY <2>1, <3>1, <3>2, <3>3, <3>4, <3>5
  <2>17. \A k \in 1..n : prev[r[k]] = IF k = 1 THEN None ELSE r[k - 1]
    <3> TAKE k \in 1..n
    <3>1. CASE k = n
      <4>1. n - 1 \in m..(n-1) /\ k # 1 /\ (n - 1) + 1 = n
        BY <2>1, <3>1
      <4> QED
        BY <1>8, <2>3, <2>10, <2>15, <3>1, <4>1
    <3>2. CASE k = m
      <4>1. k \in m..(n-1)
        BY <2>1, <3>2
      <4>2. r[k] = s[m + 1]
        BY <1>8, <3>2, <4>1
      <4>3. k # 1 => k - 1 \in 1..(m-1)
        BY <2>1, <3>2
      <4>4. k # 1 => r[k - 1] = s[m - 1]
        BY <1>8, <3>2, <4>3
      <4> QED
        BY <2>5, <2>10, <2>15, <3>2, <4>2, <4>4
    <3>3. CASE k < n /\ k > m
      <4>1. /\ k \in m..(n-1) /\ k - 1 \in m..(n-1) /\ (k - 1) + 1 = k /\ k + 1 \in 1..n
            /\ k + 1 # m /\ k + 1 # m + 1 /\ k + 1 # 1 /\ (k + 1) - 1 = k /\ k # 1
        BY <2>1, <3>3
      <4>2. r[k] = s[k + 1] /\ r[k - 1] = s[k]
        BY <1>8, <4>1
      <4>3. s[k + 1] # i /\ s[k + 1] # s[m + 1]
        BY <2>1, <2>2, <4>1
      <4>4. c.prev[s[k + 1]] = s[k]
        BY <1>1, <1>2, <4>1 DEF Chained
      <4> QED
        BY <1>2, <2>15, <4>1, <4>2, <4>3, <4>4
    <3>4. CASE k < m
      <4>1. k \in 1..(m-1) /\ (k # 1 => k - 1 \in 1..(m-1)) /\ k # m /\ k # m + 1
        BY <2>1, <3>4
      <4>2. r[k] = s[k] /\ (k # 1 => r[k - 1] = s[k - 1])
        BY <1>8, <4>1
      <4>3. s[k] # i /\ s[k] # s[m + 1]
        BY <2>1, <2>2, <4>1
      <4>4. c.prev[s[k]] = IF k = 1 THEN None ELSE s[k - 1]
        BY <1>1, <1>2 DEF Chained
      <4> QED
        BY <1>2, <2>15, <4>1, <4>2, <4>3, <4>4
    <3> QED
      BY <2>1, <3>1, <3>2, <3>3, <3>4
  <2>18. \A k \in 1..Len(f) : next[f[k]] = c.next[f[k]]
    <3> TAKE k \in 1..Len(f)
    <3>1. \A j \in 1..n : f[k] # s[j]
      <4>1. DOMAIN f = 1..Len(f)
        BY <1>2, LenProperties
      <4>2. f[k] \in Elements(f) /\ \A j \in 1..n : s[j] \in Elements(s)
        BY <1>2, <4>1 DEF Elements
      <4> QED
        BY <1>1, <4>2 DEF Chained
    <3>2. m # 1 => m - 1 \in 1..n
      BY <2>1
    <3>3. f[k] # i /\ f[k] # c.tail /\ ~(i # c.head /\ f[k] = c.prev[i])
      BY <2>1, <2>3, <2>5, <2>6, <3>1, <3>2
    <3> QED
      BY <1>2, <2>14, <3>3
  <2>19. u.head = r[1]
    <3>1. CASE m = 1
      <4>1. 1 \in m..(n-1)
        BY <2>1, <3>1
      <4> QED
        BY <1>8, <2>9, <3>1, <4>1
    <3>2. CASE m # 1
      <4>1. 1 \in 1..(m-1)
        BY <2>1, <3>2
      <4> QED
        BY <1>8, <2>3, <2>9, <3>2, <4>1
    <3> QED
      BY <3>1, <3>2
  <2>20. Chained(u, r, f)
    <3>1. u.tail = r[n]
      BY <1>8, <2>9
    <3>2. Len(r) = u.size /\ Len(r) = n /\ n # 0 /\ Len(f) = Capacity - u.size
      BY <1>1, <1>6, <2>1, <2>9 DEF Chained, n
    <3>3. /\ u.freeHead = IF Len(f) = 0 THEN None ELSE f[1]
          /\ \A k \in 1..Len(f) : u.next[f[k]] = IF k = Len(f) THEN None ELSE f[k + 1]
      BY <1>1, <2>9, <2>18 DEF Chained
    <3>4. /\ NoDuplicates(f) /\ Elements(r) \cap Elements(f) = {}
          /\ Elements(r) \cup Elements(f) = Slots
      BY <1>1, <1>12 DEF Chained
    <3> QED
      BY <1>2, <1>6, <1>14, <2>9, <2>16, <2>17, <2>19, <3>1, <3>2, <3>3, <3>4, ZenonT(40) DEF Chained
  <2>21. Mapped(u, r, moved)
    <3>1. moved = [k \in 1..n |-> moved[k]]
      BY <1>7
    <3>2. \A k \in 1..n : moved[k] = u.data[r[k]] /\ u.idxMap[moved[k]] = r[k]
      <4> TAKE k \in 1..n
      <4>1. PICK j \in 1..n : r[k] = s[j] /\ moved[k] = list[j]
        BY <1>10
      <4>2. c.data[s[j]] = list[j] /\ c.idxMap[list[j]] = s[j]
        BY <1>1, <1>2, <1>3 DEF Mapped
      <4> QED
        BY <2>9, <4>1, <4>2
    <3>3. moved = [k \in 1..n |-> u.data[r[k]]]
      BY <3>1, <3>2
    <3> QED
      BY <1>1, <1>6, <1>12, <1>14, <2>9, <3>2, <3>3 DEF Mapped
  <2> QED
    BY <1>5, <1>7, <2>13, <2>20, <2>21 DEF Represents, moved, u
<1> QED
  BY <1>15, <1>16

\* A new value takes the place of the oldest in a full list.
LEMMA PushFullRepresents ==
    ASSUME NEW V, NEW c, NEW list, Represents(c, V, list), c.size = Capacity,
           NEW x \in V, x \notin Elements(list)
    PROVE  Represents(PushFull(c, x), V, Append(Tail(list), x))
<1> DEFINE n == Capacity
<1>1. PICK s, f : Chained(c, s, f) /\ Mapped(c, s, list)
  BY DEF Represents
<1>2. /\ s \in Seq(Slots) /\ Len(s) = n /\ n \in Nat /\ n >= 2 /\ DOMAIN s = 1..n
      /\ f \in Seq(Slots) /\ Len(f) = 0
      /\ \A k \in 1..n : s[k] \in Slots
  BY <1>1, LenProperties, ElementOfSeq, CapacityAssumption DEF Chained
<1>3. /\ list \in Seq(V) /\ DOMAIN list = 1..n /\ Len(list) = n
      /\ \A k \in 1..n : list[k] = c.data[s[k]] /\ c.idxMap[list[k]] = s[k]
      /\ DOMAIN c.idxMap = {list[k] : k \in 1..n}
  <2>1. list \in Seq(V) /\ DOMAIN list = 1..n
    BY <1>1, <1>2 DEF Represents, Mapped
  <2>2. Len(list) = n
    BY <1>2, <2>1, LenProperties
  <2>3. DOMAIN c.idxMap = {list[k] : k \in 1..n}
    BY <1>1, <2>1 DEF Mapped, Elements
  <2> QED
    BY <1>1, <1>2, <2>1, <2>2, <2>3 DEF Mapped
<1>4. c \in LRU(V)
  BY DEF Represents
<1> DEFINE i == s[1]
           r == Append(RemoveIndex(s, 1), s[1])
           pushed == Append(Tail(list), x)
           u == PushFull(c, x)
<1>5. /\ r \in Seq(Slots) /\ Len(r) = n /\ DOMAIN r = 1..n
      /\ \A k \in 1..(n-1) : r[k] = s[k + 1]
      /\ r[n] = s[1]
  <2>1. s \in Seq(Slots) /\ 1 \in DOMAIN s /\ Len(s) = n
    BY <1>2
  <2>2. /\ r \in Seq(Slots) /\ Len(r) = n /\ DOMAIN r = 1..n
        /\ \A k \in 1..n : r[k] = IF k < 1 THEN s[k] ELSE IF k < n THEN s[k + 1] ELSE s[1]
    BY <2>1, MovedToEnd
  <2> HIDE DEF r
  <2> QED
    BY <1>2, <2>2
<1>6. /\ pushed \in Seq(V) /\ Len(pushed) = n /\ DOMAIN pushed = 1..n
      /\ \A k \in 1..(n-1) : pushed[k] = list[k + 1]
      /\ pushed[n] = x
  <2> DEFINE q == Tail(list)
  <2>1. list # <<>>
    BY <1>2, <1>3
  <2>2. q \in Seq(V) /\ Len(q) = n - 1 /\ \A k \in 1..Len(q) : q[k] = list[k + 1]
    BY <1>3, <2>1, HeadTailProperties
  <2> HIDE DEF q
  <2>3. /\ Append(q, x) \in Seq(V) /\ Len(Append(q, x)) = Len(q) + 1
        /\ \A k \in 1..Len(q) : Append(q, x)[k] = q[k]
        /\ Append(q, x)[Len(q) + 1] = x
    BY <2>2, AppendProperties
  <2>4. Len(q) + 1 = n
    BY <1>2, <2>2
  <2>5. DOMAIN Append(q, x) = 1..n
    BY <2>3, <2>4, LenProperties
  <2> QED
    BY <2>2, <2>3, <2>4, <2>5 DEF q
<1> HIDE DEF r, pushed
<1>7. \A a, b \in 1..n : (s[a] = s[b] => a = b) /\ (list[a] = list[b] => a = b)
  BY <1>1, <1>2, <1>3 DEF Chained, Mapped, NoDuplicates
<1>8. \A k \in 1..n : x # list[k]
  BY <1>3 DEF Elements
<1>9. 1 \in 1..n /\ 2 \in 1..n /\ n \in 1..n /\ 1 # n /\ n # 0 /\ 1 + 1 = 2 /\ 1 \in 1..(n-1)
  BY <1>2
<1>10. /\ c.head = i /\ c.tail = s[n] /\ c.next[i] = s[2] /\ i # s[2] /\ i # s[n]
       /\ i \in Slots /\ s[2] \in Slots /\ s[n] \in Slots
  BY <1>1, <1>2, <1>7, <1>9 DEF Chained
<1>11. /\ c.data \in [Slots -> V \cup {NoValue}] /\ c.prev \in [Slots -> Links]
       /\ c.next \in [Slots -> Links] /\ c.head \in Links /\ c.tail \in Links
       /\ c.freeHead \in Links /\ c.size \in 0..Capacity
       /\ DOMAIN c.idxMap \in SUBSET V /\ \A y \in DOMAIN c.idxMap : c.idxMap[y] \in Slots
  BY <1>4 DEF LRU
<1> DEFINE data == [c.data EXCEPT ![i] = x]
           prev == [[c.prev EXCEPT ![s[2]] = None] EXCEPT ![i] = s[n]]
           next == [j \in Slots |-> IF j = i THEN None ELSE IF j = s[n] THEN i ELSE c.next[j]]
           map1 == [y \in DOMAIN c.idxMap \cup {x} |-> IF y = x THEN i ELSE c.idxMap[y]]
           map == [y \in DOMAIN map1 \ {list[1]} |-> map1[y]]
<1>12. u = [data |-> data, prev |-> prev, next |-> next, head |-> s[2], tail |-> i,
            freeHead |-> c.freeHead, size |-> c.size, idxMap |-> map]
  <2> DEFINE d == [c EXCEPT !.head = c.next[@], !.prev[c.next[c.head]] = None]
             e == Insert(d, i, x)
  <2>1. d = [c EXCEPT !.head = s[2], !.prev = [c.prev EXCEPT ![s[2]] = None]]
    BY <1>10
  <2>2. d = [data |-> c.data, prev |-> [c.prev EXCEPT ![s[2]] = None], next |-> c.next,
             head |-> s[2], tail |-> c.tail, freeHead |-> c.freeHead, size |-> c.size,
             idxMap |-> c.idxMap]
    <3> HIDE DEF d
    <3> QED
      BY <1>4, <2>1 DEF LRU
  <2>3. e = [data |-> data, prev |-> prev, next |-> next, head |-> s[2], tail |-> i,
             freeHead |-> c.freeHead, size |-> c.size, idxMap |-> map1]
    <3> HIDE DEF d
    <3>1. /\ d.data = c.data /\ d.prev = [c.prev EXCEPT ![s[2]] = None] /\ d.next = c.next
          /\ d.tail = s[n] /\ d.idxMap = c.idxMap
      BY <1>10, <2>2
    <3>2. /\ [d.data EXCEPT ![i] = x] = data
          /\ [d.prev EXCEPT ![i] = d.tail] = prev
          /\ [j \in Slots |-> IF j = i THEN None ELSE IF j = d.tail THEN i ELSE d.next[j]] = next
          /\ [y \in DOMAIN d.idxMap \cup {x} |-> IF y = x THEN i ELSE d.idxMap[y]] = map1
      BY <3>1
    <3>3. e = [d EXCEPT
            !.data = [d.data EXCEPT ![i] = x],
            !.prev = [d.prev EXCEPT ![i] = d.tail],
            !.next = [j \in Slots |-> IF j = i THEN None ELSE IF j = d.tail THEN i ELSE d.next[j]],
            !.tail = i,
            !.idxMap = [y \in DOMAIN d.idxMap \cup {x} |-> IF y = x THEN i ELSE d.idxMap[y]]]
      BY DEF Insert
    <3>4. e = [d EXCEPT !.data = data, !.prev = prev, !.next = next, !.tail = i, !.idxMap = map1]
      BY <3>2, <3>3
    <3> HIDE DEF e, data, prev, next, map1
    <3> QED
      BY <2>2, <3>4
  <2>4. u = [e EXCEPT !.idxMap = [y \in DOMAIN @ \ {c.data[c.head]} |-> @[y]]]
    BY <1>10 DEF PushFull
  <2>5. c.data[c.head] = list[1]
    BY <1>3, <1>9, <1>10
  <2> HIDE DEF e, u, data, prev, next, map1
  <2> QED
    BY <2>3, <2>4, <2>5
<1>13. /\ \A j \in Slots : next[j] = IF j = i THEN None ELSE IF j = s[n] THEN i ELSE c.next[j]
       /\ \A j \in Slots : prev[j] = IF j = i THEN s[n] ELSE IF j = s[2] THEN None ELSE c.prev[j]
       /\ \A j \in Slots : data[j] = IF j = i THEN x ELSE c.data[j]
  BY <1>10, <1>11
<1>14. DOMAIN map = (DOMAIN c.idxMap \cup {x}) \ {list[1]}
  OBVIOUS
<1>15. \A y \in DOMAIN map : map[y] = IF y = x THEN i ELSE c.idxMap[y]
  OBVIOUS
<1>16. u \in LRU(V)
  <2>1. data \in [Slots -> V \cup {NoValue}]
    BY <1>11
  <2>2. prev \in [Slots -> Links]
    BY <1>10, <1>11 DEF Links
  <2>3. next \in [Slots -> Links]
    <3>1. \A j \in Slots : c.next[j] \in Links
      BY <1>11
    <3> QED
      BY <1>10, <3>1 DEF Links
  <2>4. DOMAIN map \in SUBSET V /\ map \in [DOMAIN map -> Slots]
    <3>1. \A y \in DOMAIN map : map[y] \in Slots
      BY <1>10, <1>11, <1>14, <1>15
    <3> QED
      BY <1>11, <1>14, <3>1
  <2>5. s[2] \in Links /\ i \in Links
    BY <1>10 DEF Links
  <2> HIDE DEF data, prev, next, map, u
  <2> QED
    BY <1>11, <1>12, <2>1, <2>2, <2>3, <2>4, <2>5 DEF LRU
<1> HIDE DEF data, prev, next, map, map1, u
<1>17. /\ u.data = data /\ u.prev = prev /\ u.next = next /\ u.head = s[2] /\ u.tail = i
       /\ u.freeHead = c.freeHead /\ u.size = n /\ u.idxMap = map
  BY <1>12
<1>18. \A k \in 1..n : next[r[k]] = IF k = n THEN None ELSE r[k + 1]
  <2> TAKE k \in 1..n
  <2>1. CASE k = n
    BY <1>5, <1>10, <1>13, <2>1
  <2>2. CASE k = n - 1
    <3>1. k \in 1..(n-1) /\ k + 1 = n /\ k # n
      BY <1>2, <2>2
    <3> QED
      BY <1>5, <1>10, <1>13, <3>1
  <2>3. CASE k < n - 1
    <3>1. /\ k \in 1..(n-1) /\ k + 1 \in 1..(n-1) /\ k + 1 \in 1..n /\ k + 1 # n /\ k + 1 # 1 /\ k # n
      BY <1>2, <2>3
    <3>2. r[k] = s[k + 1] /\ r[k + 1] = s[(k + 1) + 1]
      BY <1>5, <3>1
    <3>3. s[k + 1] # i /\ s[k + 1] # s[n] /\ s[k + 1] \in Slots
      BY <1>2, <1>7, <1>9, <3>1
    <3>4. c.next[s[k + 1]] = s[(k + 1) + 1]
      BY <1>1, <1>2, <3>1 DEF Chained
    <3> QED
      BY <1>13, <3>1, <3>2, <3>3, <3>4
  <2> QED
    BY <1>2, <2>1, <2>2, <2>3
<1>19. \A k \in 1..n : prev[r[k]] = IF k = 1 THEN None ELSE r[k - 1]
  <2> TAKE k \in 1..n
  <2>1. CASE k = n
    <3>1. n - 1 \in 1..(n-1) /\ (n - 1) + 1 = n
      BY <1>2
    <3> QED
      BY <1>5, <1>9, <1>10, <1>13, <2>1, <3>1
  <2>2. CASE k = 1
    <3>1. r[1] = s[2]
      BY <1>5, <1>9
    <3> QED
      BY <1>10, <1>13, <2>2, <3>1
  <2>3. CASE k # 1 /\ k # n
    <3>1. /\ k \in 1..(n-1) /\ k - 1 \in 1..(n-1) /\ (k - 1) + 1 = k /\ k + 1 \in 1..n
          /\ k + 1 # 1 /\ k + 1 # 2 /\ (k + 1) - 1 = k
      BY <1>2, <2>3
    <3>2. r[k] = s[k + 1] /\ r[k - 1] = s[k]
      BY <1>5, <3>1
    <3>3. s[k + 1] # i /\ s[k + 1] # s[2] /\ s[k + 1] \in Slots
      BY <1>2, <1>7, <1>9, <3>1
    <3>4. c.prev[s[k + 1]] = s[k]
      BY <1>1, <1>2, <3>1 DEF Chained
    <3> QED
      BY <1>13, <2>3, <3>2, <3>3, <3>4
  <2> QED
    BY <2>1, <2>2, <2>3
<1>20. \A j \in 1..n : \E k \in 1..n : r[k] = s[j]
  <2> TAKE j \in 1..n
  <2>1. CASE j = 1
    BY <1>5, <1>9, <2>1
  <2>2. CASE j # 1
    <3>1. j - 1 \in 1..(n-1) /\ j - 1 \in 1..n /\ (j - 1) + 1 = j
      BY <1>2, <2>2
    <3> QED
      BY <1>5, <3>1
  <2> QED
    BY <2>1, <2>2
<1>21. \A k \in 1..n :
            /\ k # n => k + 1 \in 1..n /\ r[k] = s[k + 1] /\ pushed[k] = list[k + 1]
            /\ k = n => r[k] = s[1] /\ pushed[k] = x
  <2> TAKE k \in 1..n
  <2>1. k # n => k \in 1..(n-1) /\ k + 1 \in 1..n
    BY <1>2
  <2> QED
    BY <1>5, <1>6, <2>1
<1>22. Elements(r) = Elements(s) /\ Elements(s) = Elements(r) \cup Elements(f)
  <2>1. /\ Elements(r) = {r[k] : k \in 1..n} /\ Elements(s) = {s[k] : k \in 1..n}
    BY <1>2, <1>5 DEF Elements
  <2>2. {s[k] : k \in 1..n} \subseteq {r[k] : k \in 1..n}
    BY <1>20
  <2>3. \A k \in 1..n : \E j \in 1..n : r[k] = s[j]
    BY <1>9, <1>21
  <2>4. {r[k] : k \in 1..n} \subseteq {s[k] : k \in 1..n}
    BY <2>3
  <2>5. Elements(f) = {}
    BY <1>2, LenProperties DEF Elements
  <2> QED
    BY <2>1, <2>2, <2>4, <2>5
<1>23. \A a, b \in 1..n : (r[a] = r[b] => a = b) /\ (pushed[a] = pushed[b] => a = b)
  <2> TAKE a, b \in 1..n
  <2>1. CASE a = n /\ b = n
    BY <2>1
  <2>2. CASE a # n /\ b = n
    <3>1. a + 1 \in 1..n /\ a + 1 # 1
      BY <1>2, <2>2
    <3> QED
      BY <1>7, <1>8, <1>9, <1>21, <2>2, <3>1
  <2>3. CASE a = n /\ b # n
    <3>1. b + 1 \in 1..n /\ b + 1 # 1
      BY <1>2, <2>3
    <3> QED
      BY <1>7, <1>8, <1>9, <1>21, <2>3, <3>1
  <2>4. CASE a # n /\ b # n
    <3>1. a + 1 \in 1..n /\ b + 1 \in 1..n /\ (a + 1 = b + 1 => a = b)
      BY <1>2, <2>4
    <3> QED
      BY <1>7, <1>21, <2>4, <3>1
  <2> QED
    BY <2>1, <2>2, <2>3, <2>4
<1>24. Chained(u, r, f)
  <2>1. r[1] = s[2] /\ r[n] = i
    BY <1>5, <1>9
  <2>2. NoDuplicates(r)
    BY <1>5, <1>23 DEF NoDuplicates
  <2>3. Elements(r) \cap Elements(f) = {} /\ Elements(r) \cup Elements(f) = Slots /\ NoDuplicates(f)
    BY <1>1, <1>22 DEF Chained
  <2>4. u.freeHead = IF Len(f) = 0 THEN None ELSE f[1]
    BY <1>1, <1>17 DEF Chained
  <2>5. \A k \in 1..Len(f) : FALSE
    BY <1>2
  <2>6. Len(f) = Capacity - u.size /\ Len(r) # 0
    BY <1>2, <1>5, <1>17
  <2> QED
    BY <1>2, <1>5, <1>17, <1>18, <1>19, <2>1, <2>2, <2>3, <2>4, <2>5, <2>6 DEF Chained
<1>25. Mapped(u, r, pushed)
  <2>1. \A k \in 1..n : pushed[k] = data[r[k]]
    <3> TAKE k \in 1..n
    <3>1. CASE k = n
      BY <1>10, <1>13, <1>21, <3>1
    <3>2. CASE k # n
      <4>1. k + 1 \in 1..n /\ k + 1 # 1
        BY <1>2, <3>2
      <4> QED
        BY <1>2, <1>3, <1>7, <1>9, <1>13, <1>21, <3>2, <4>1
    <3> QED
      BY <3>1, <3>2
  <2>2. pushed = [k \in 1..n |-> data[r[k]]]
    <3>1. pushed = [k \in 1..n |-> pushed[k]]
      BY <1>6
    <3> QED
      BY <2>1, <3>1
  <2>3. Elements(pushed) = {pushed[k] : k \in 1..n}
    BY <1>6 DEF Elements
  <2>4. \A k \in 1..n : k # 1 => k - 1 \in 1..n /\ pushed[k - 1] = list[k]
    <3> SUFFICES ASSUME NEW k \in 1..n, k # 1
                 PROVE  k - 1 \in 1..n /\ pushed[k - 1] = list[k]
      OBVIOUS
    <3>1. k - 1 \in 1..(n-1) /\ k - 1 \in 1..n /\ (k - 1) + 1 = k
      BY <1>2
    <3> QED
      BY <1>6, <3>1
  <2>5. DOMAIN map \subseteq {pushed[k] : k \in 1..n}
    <3> SUFFICES ASSUME NEW y \in DOMAIN map
                 PROVE  \E k \in 1..n : y = pushed[k]
      OBVIOUS
    <3>1. CASE y = x
      BY <1>6, <1>9, <3>1
    <3>2. CASE y # x
      <4>1. PICK k \in 1..n : y = list[k] /\ k # 1
        BY <1>3, <1>14, <3>2
      <4> QED
        BY <2>4, <4>1
    <3> QED
      BY <3>1, <3>2
  <2>6. {pushed[k] : k \in 1..n} \subseteq DOMAIN map
    <3> SUFFICES ASSUME NEW k \in 1..n
                 PROVE  pushed[k] \in DOMAIN map
      OBVIOUS
    <3>1. CASE k = n
      BY <1>8, <1>9, <1>14, <1>21, <3>1
    <3>2. CASE k # n
      <4>1. k + 1 \in 1..n /\ k + 1 # 1
        BY <1>2, <3>2
      <4>2. pushed[k] = list[k + 1]
        BY <1>21, <3>2
      <4> QED
        BY <1>3, <1>7, <1>9, <1>14, <4>1, <4>2
    <3> QED
      BY <3>1, <3>2
  <2>7. \A k \in 1..n : map[pushed[k]] = r[k]
    <3> TAKE k \in 1..n
    <3>0. pushed[k] \in DOMAIN map
      BY <2>6
    <3>1. CASE k = n
      BY <1>15, <1>21, <3>0, <3>1
    <3>2. CASE k # n
      <4>1. k + 1 \in 1..n
        BY <1>2, <3>2
      <4> QED
        BY <1>3, <1>8, <1>15, <1>21, <3>0, <3>2, <4>1
    <3> QED
      BY <3>1, <3>2
  <2>8. NoDuplicates(pushed)
    BY <1>6, <1>23 DEF NoDuplicates
  <2> QED
    BY <1>5, <1>17, <2>2, <2>3, <2>5, <2>6, <2>7, <2>8 DEF Mapped
<1> QED
  BY <1>6, <1>16, <1>24, <1>25 DEF Represents, u, pushed

\* A new value takes the first free slot.
LEMMA PushFreeRepresents ==
    ASSUME NEW V, NEW c, NEW list, Represents(c, V, list), c.size # Capacity,
           NEW x \in V, x \notin Elements(list)
    PROVE  Represents(PushFree(c, x), V, Append(list, x))
<1> DEFINE n == c.size
<1>1. PICK s, f : Chained(c, s, f) /\ Mapped(c, s, list)
  BY DEF Represents
<1>2. c \in LRU(V)
  BY DEF Represents
<1>3. /\ s \in Seq(Slots) /\ Len(s) = n /\ n \in Nat /\ DOMAIN s = 1..n
      /\ n < Capacity /\ Capacity \in Nat
      /\ \A k \in 1..n : s[k] \in Slots
  <2>1. n \in 0..Capacity /\ n # Capacity /\ Capacity \in Nat
    BY <1>2, CapacityAssumption DEF LRU
  <2> QED
    BY <1>1, <2>1, LenProperties, ElementOfSeq DEF Chained
<1>4. /\ f \in Seq(Slots) /\ Len(f) = Capacity - n /\ Len(f) \in Nat /\ Len(f) # 0
      /\ DOMAIN f = 1..Len(f) /\ f # <<>> /\ \A k \in 1..Len(f) : f[k] \in Slots
  <2>1. f \in Seq(Slots) /\ Len(f) = Capacity - n
    BY <1>1 DEF Chained
  <2>2. Len(f) \in Nat /\ Len(f) # 0
    BY <1>3, <2>1
  <2> QED
    BY <2>1, <2>2, LenProperties, ElementOfSeq
<1>5. /\ list \in Seq(V) /\ DOMAIN list = 1..n /\ Len(list) = n
      /\ \A k \in 1..n : list[k] = c.data[s[k]] /\ c.idxMap[list[k]] = s[k]
      /\ DOMAIN c.idxMap = {list[k] : k \in 1..n}
  <2>1. list \in Seq(V) /\ DOMAIN list = 1..n
    BY <1>1, <1>3 DEF Represents, Mapped
  <2>2. Len(list) = n
    BY <1>3, <2>1, LenProperties
  <2>3. DOMAIN c.idxMap = {list[k] : k \in 1..n}
    BY <1>1, <2>1 DEF Mapped, Elements
  <2> QED
    BY <1>1, <1>3, <2>1, <2>2, <2>3 DEF Mapped
<1> DEFINE i == f[1]
           r == Append(s, i)
           g == Tail(f)
           pushed == Append(list, x)
           u == PushFree(c, x)
<1>6. i \in Slots /\ 1 \in 1..Len(f)
  BY <1>4
<1>7. /\ r \in Seq(Slots) /\ Len(r) = n + 1 /\ DOMAIN r = 1..(n+1)
      /\ \A k \in 1..n : r[k] = s[k]
      /\ r[n+1] = i
  <2>1. /\ r \in Seq(Slots) /\ Len(r) = Len(s) + 1
        /\ \A k \in 1..Len(s) : r[k] = s[k]
        /\ r[Len(s) + 1] = i
    BY <1>3, <1>6, AppendProperties
  <2> HIDE DEF r
  <2>2. DOMAIN r = 1..Len(r)
    BY <2>1, LenProperties
  <2> QED
    BY <1>3, <2>1, <2>2
<1>8. /\ pushed \in Seq(V) /\ Len(pushed) = n + 1 /\ DOMAIN pushed = 1..(n+1)
      /\ \A k \in 1..n : pushed[k] = list[k]
      /\ pushed[n+1] = x
  <2>1. /\ pushed \in Seq(V) /\ Len(pushed) = Len(list) + 1
        /\ \A k \in 1..Len(list) : pushed[k] = list[k]
        /\ pushed[Len(list) + 1] = x
    BY <1>5, AppendProperties
  <2> HIDE DEF pushed
  <2>2. DOMAIN pushed = 1..Len(pushed)
    BY <2>1, LenProperties
  <2> QED
    BY <1>5, <2>1, <2>2
<1>9. /\ g \in Seq(Slots) /\ Len(g) = Len(f) - 1 /\ DOMAIN g = 1..(Len(f) - 1)
      /\ \A k \in 1..(Len(f) - 1) : g[k] = f[k + 1]
  <2>1. g \in Seq(Slots) /\ Len(g) = Len(f) - 1 /\ \A k \in 1..Len(g) : g[k] = f[k + 1]
    BY <1>4, HeadTailProperties
  <2> HIDE DEF g
  <2>2. DOMAIN g = 1..Len(g)
    BY <2>1, LenProperties
  <2> QED
    BY <2>1, <2>2
<1> HIDE DEF r, g, pushed
<1>10. /\ \A a, b \in 1..n : (s[a] = s[b] => a = b) /\ (list[a] = list[b] => a = b)
       /\ \A a, b \in 1..Len(f) : f[a] = f[b] => a = b
  BY <1>1, <1>3, <1>4, <1>5 DEF Chained, Mapped, NoDuplicates
<1>11. \A k \in 1..n : x # list[k]
  BY <1>5 DEF Elements
<1>12. \A k \in 1..n, j \in 1..Len(f) : s[k] # f[j]
  BY <1>1, <1>3, <1>4 DEF Chained, Elements
<1>13. /\ c.freeHead = i /\ c.next[i] = IF Len(f) = 1 THEN None ELSE f[2]
       /\ c.tail = (IF n = 0 THEN None ELSE s[n])
       /\ c.head = (IF n = 0 THEN None ELSE s[1])
  <2>1. 1 + 1 = 2
    OBVIOUS
  <2> QED
    BY <1>1, <1>3, <1>4, <1>6, <2>1 DEF Chained
<1>14. \A j \in Slots : j # None
  BY CapacityAssumption DEF Slots, None
<1>15. /\ c.data \in [Slots -> V \cup {NoValue}] /\ c.prev \in [Slots -> Links]
       /\ c.next \in [Slots -> Links] /\ c.head \in Links /\ c.tail \in Links
       /\ c.freeHead \in Links /\ c.size \in 0..Capacity
       /\ DOMAIN c.idxMap \in SUBSET V /\ \A y \in DOMAIN c.idxMap : c.idxMap[y] \in Slots
  BY <1>2 DEF LRU
<1> DEFINE data == [c.data EXCEPT ![i] = x]
           prev == [c.prev EXCEPT ![i] = c.tail]
           next == [j \in Slots |-> IF j = i THEN None ELSE IF j = c.tail THEN i ELSE c.next[j]]
           head == IF c.head = None THEN i ELSE c.head
           map == [y \in DOMAIN c.idxMap \cup {x} |-> IF y = x THEN i ELSE c.idxMap[y]]
<1>16. u = [data |-> data, prev |-> prev, next |-> next, head |-> head, tail |-> i,
            freeHead |-> c.next[i], size |-> n + 1, idxMap |-> map]
  <2> DEFINE d == [c EXCEPT !.freeHead = c.next[@], !.size = @ + 1,
                            !.head = IF @ = None THEN c.freeHead ELSE @]
             e == Insert(d, i, x)
  <2>1. d = [c EXCEPT !.freeHead = c.next[i], !.size = n + 1, !.head = head]
    BY <1>13
  <2>2. d = [data |-> c.data, prev |-> c.prev, next |-> c.next, head |-> head, tail |-> c.tail,
             freeHead |-> c.next[i], size |-> n + 1, idxMap |-> c.idxMap]
    <3> HIDE DEF d, head
    <3> QED
      BY <1>2, <2>1 DEF LRU
  <2> HIDE DEF d
  <2>3. /\ d.data = c.data /\ d.prev = c.prev /\ d.next = c.next
        /\ d.tail = c.tail /\ d.idxMap = c.idxMap
    BY <2>2
  <2>4. /\ [d.data EXCEPT ![i] = x] = data
        /\ [d.prev EXCEPT ![i] = d.tail] = prev
        /\ [j \in Slots |-> IF j = i THEN None ELSE IF j = d.tail THEN i ELSE d.next[j]] = next
        /\ [y \in DOMAIN d.idxMap \cup {x} |-> IF y = x THEN i ELSE d.idxMap[y]] = map
    BY <2>3
  <2>5. e = [d EXCEPT
          !.data = [d.data EXCEPT ![i] = x],
          !.prev = [d.prev EXCEPT ![i] = d.tail],
          !.next = [j \in Slots |-> IF j = i THEN None ELSE IF j = d.tail THEN i ELSE d.next[j]],
          !.tail = i,
          !.idxMap = [y \in DOMAIN d.idxMap \cup {x} |-> IF y = x THEN i ELSE d.idxMap[y]]]
    BY DEF Insert
  <2>6. e = [d EXCEPT !.data = data, !.prev = prev, !.next = next, !.tail = i, !.idxMap = map]
    BY <2>4, <2>5
  <2>7. u = e
    BY <1>13 DEF PushFree, d
  <2> HIDE DEF e, u, data, prev, next, map, head
  <2> QED
    BY <2>2, <2>6, <2>7
<1>17. /\ \A j \in Slots : next[j] = IF j = i THEN None ELSE IF j = c.tail THEN i ELSE c.next[j]
       /\ \A j \in Slots : prev[j] = IF j = i THEN c.tail ELSE c.prev[j]
       /\ \A j \in Slots : data[j] = IF j = i THEN x ELSE c.data[j]
       /\ DOMAIN map = DOMAIN c.idxMap \cup {x}
       /\ \A y \in DOMAIN map : map[y] = IF y = x THEN i ELSE c.idxMap[y]
  BY <1>15
<1>18. u \in LRU(V)
  <2>1. data \in [Slots -> V \cup {NoValue}]
    BY <1>15
  <2>2. prev \in [Slots -> Links]
    BY <1>15
  <2>3. next \in [Slots -> Links]
    <3>1. \A j \in Slots : c.next[j] \in Links
      BY <1>15
    <3> QED
      BY <1>6, <3>1 DEF Links
  <2>4. DOMAIN map \in SUBSET V /\ map \in [DOMAIN map -> Slots]
    <3>1. \A y \in DOMAIN map : map[y] \in Slots
      BY <1>6, <1>15, <1>17
    <3> QED
      BY <1>15, <1>17, <3>1
  <2>5. head \in Links /\ i \in Links /\ c.next[i] \in Links /\ n + 1 \in 0..Capacity
    BY <1>3, <1>6, <1>15 DEF Links
  <2> HIDE DEF data, prev, next, map, head, u
  <2> QED
    BY <1>16, <2>1, <2>2, <2>3, <2>4, <2>5 DEF LRU
<1> HIDE DEF data, prev, next, map, u
<1>19. /\ u.data = data /\ u.prev = prev /\ u.next = next /\ u.head = head /\ u.tail = i
       /\ u.freeHead = c.next[i] /\ u.size = n + 1 /\ u.idxMap = map
  BY <1>16
<1>20. \A k \in 1..(n+1) : next[r[k]] = IF k = n + 1 THEN None ELSE r[k + 1]
  <2> TAKE k \in 1..(n+1)
  <2>1. CASE k = n + 1
    BY <1>6, <1>7, <1>17, <2>1
  <2>2. CASE k = n
    <3>1. k \in 1..n /\ k # n + 1 /\ n # 0
      BY <1>3, <2>2
    <3>2. r[k] = c.tail /\ r[k] # i /\ r[k] \in Slots /\ r[n + 1] = i
      BY <1>3, <1>6, <1>7, <1>12, <1>13, <2>2, <3>1
    <3> QED
      BY <1>17, <2>2, <3>1, <3>2
  <2>3. CASE k < n
    <3>1. k \in 1..n /\ k + 1 \in 1..n /\ k # n + 1 /\ n # 0 /\ k # n /\ n \in 1..n
      BY <1>3, <2>3
    <3>2. r[k] = s[k] /\ r[k + 1] = s[k + 1] /\ s[k] # i /\ s[k] # c.tail /\ s[k] \in Slots
      BY <1>3, <1>6, <1>7, <1>10, <1>12, <1>13, <3>1
    <3>3. c.next[s[k]] = s[k + 1]
      BY <1>1, <1>3, <3>1 DEF Chained
    <3> QED
      BY <1>17, <3>1, <3>2, <3>3
  <2> QED
    BY <1>3, <2>1, <2>2, <2>3
<1>21. \A k \in 1..(n+1) : prev[r[k]] = IF k = 1 THEN None ELSE r[k - 1]
  <2> TAKE k \in 1..(n+1)
  <2>1. CASE k = n + 1
    <3>1. k # 1 => n # 0 /\ k - 1 = n /\ n \in 1..n
      BY <1>3, <2>1
    <3>2. k = 1 => n = 0
      BY <1>3, <2>1
    <3> QED
      BY <1>6, <1>7, <1>13, <1>17, <2>1, <3>1, <3>2
  <2>2. CASE k # n + 1
    <3>1. k \in 1..n /\ (k # 1 => k - 1 \in 1..n)
      BY <1>3, <2>2
    <3>2. r[k] = s[k] /\ (k # 1 => r[k - 1] = s[k - 1]) /\ s[k] # i /\ s[k] \in Slots
      BY <1>3, <1>6, <1>7, <1>12, <3>1
    <3>3. c.prev[s[k]] = IF k = 1 THEN None ELSE s[k - 1]
      BY <1>1, <1>3, <3>1 DEF Chained
    <3> QED
      BY <1>17, <3>2, <3>3
  <2> QED
    BY <2>1, <2>2
<1>22. \A k \in 1..Len(g) : next[g[k]] = IF k = Len(g) THEN None ELSE g[k + 1]
  <2> TAKE k \in 1..Len(g)
  <2>1. k \in 1..(Len(f) - 1) /\ k + 1 \in 1..Len(f) /\ k + 1 # 1 /\ (k = Len(g) <=> k + 1 = Len(f))
    BY <1>4, <1>9
  <2>2. k # Len(g) => k + 1 \in 1..(Len(f) - 1)
    BY <1>4, <1>9
  <2>3. g[k] = f[k + 1] /\ g[k] # i /\ g[k] \in Slots
    BY <1>4, <1>6, <1>9, <1>10, <2>1
  <2>4. g[k] # c.tail
    <3>1. n # 0 => n \in 1..n
      BY <1>3
    <3> QED
      BY <1>12, <1>13, <1>14, <2>1, <2>3, <3>1
  <2>5. c.next[f[k + 1]] = IF k + 1 = Len(f) THEN None ELSE f[(k + 1) + 1]
    BY <1>1, <2>1 DEF Chained
  <2> QED
    BY <1>9, <1>17, <2>1, <2>2, <2>3, <2>4, <2>5
<1>23. Elements(f) = Elements(g) \cup {i}
  <2>1. Elements(f) = {f[k] : k \in 1..Len(f)} /\ Elements(g) = {g[k] : k \in 1..(Len(f) - 1)}
    BY <1>4, <1>9 DEF Elements
  <2>2. \A k \in 1..Len(f) : k = 1 \/ (k - 1 \in 1..(Len(f) - 1) /\ (k - 1) + 1 = k)
    BY <1>4
  <2>3. \A k \in 1..Len(f) : f[k] = i \/ \E j \in 1..(Len(f) - 1) : f[k] = g[j]
    BY <1>9, <2>2
  <2>4. \A k \in 1..(Len(f) - 1) : k + 1 \in 1..Len(f)
    BY <1>4
  <2>5. \A k \in 1..(Len(f) - 1) : \E j \in 1..Len(f) : g[k] = f[j]
    BY <1>9, <2>4
  <2>6. {f[k] : k \in 1..Len(f)} \subseteq {g[k] : k \in 1..(Len(f) - 1)} \cup {i}
    BY <2>3
  <2>7. {g[k] : k \in 1..(Len(f) - 1)} \cup {i} \subseteq {f[k] : k \in 1..Len(f)}
    BY <1>6, <2>5
  <2> QED
    BY <2>1, <2>6, <2>7
<1>24. Elements(r) = Elements(s) \cup {i} /\ Elements(pushed) = Elements(list) \cup {x}
  BY <1>3, <1>5, <1>6, ElementsOfAppend DEF r, pushed
<1>25. i \notin Elements(g) /\ i \notin Elements(s)
  <2>1. \A k \in 1..(Len(f) - 1) : g[k] # i
    <3> TAKE k \in 1..(Len(f) - 1)
    <3>1. k + 1 \in 1..Len(f) /\ k + 1 # 1
      BY <1>4
    <3> QED
      BY <1>6, <1>9, <1>10, <3>1
  <2>2. \A k \in 1..n : s[k] # i
    BY <1>6, <1>12
  <2> QED
    BY <1>3, <1>9, <2>1, <2>2 DEF Elements
<1>26. NoDuplicates(r) /\ NoDuplicates(pushed) /\ NoDuplicates(g)
  <2>1. NoDuplicates(s) /\ NoDuplicates(list)
    BY <1>1 DEF Chained, Mapped
  <2>2. NoDuplicates(r) /\ NoDuplicates(pushed)
    BY <1>3, <1>5, <1>6, <1>25, <2>1, AppendKeepsDistinct DEF r, pushed
  <2>3. ASSUME NEW a \in 1..(Len(f) - 1), NEW b \in 1..(Len(f) - 1), g[a] = g[b]
        PROVE  a = b
    <3>1. a + 1 \in 1..Len(f) /\ b + 1 \in 1..Len(f)
      BY <1>4
    <3>2. a + 1 = b + 1
      BY <1>9, <1>10, <2>3, <3>1
    <3> QED
      BY <1>4, <3>2
  <2> QED
    BY <1>9, <2>2, <2>3 DEF NoDuplicates
<1>27. Chained(u, r, g)
  <2>1. Len(r) = u.size /\ Len(g) = Capacity - u.size /\ n + 1 # 0
    BY <1>3, <1>4, <1>7, <1>9, <1>19
  <2>2. Elements(r) \cap Elements(g) = {} /\ Elements(r) \cup Elements(g) = Slots
    <3>1. Elements(s) \cap Elements(f) = {} /\ Elements(s) \cup Elements(f) = Slots
      BY <1>1 DEF Chained
    <3> QED
      BY <1>23, <1>24, <1>25, <3>1
  <2>3. u.head = r[1]
    <3>1. CASE n = 0
      BY <1>7, <1>13, <1>19, <3>1
    <3>2. CASE n # 0
      <4>1. 1 \in 1..n
        BY <1>3, <3>2
      <4> QED
        BY <1>3, <1>7, <1>13, <1>14, <1>19, <3>2, <4>1
    <3> QED
      BY <3>1, <3>2
  <2>4. u.freeHead = IF Len(g) = 0 THEN None ELSE g[1]
    <3>1. Len(g) = 0 <=> Len(f) = 1
      BY <1>4, <1>9
    <3>2. Len(g) # 0 => 1 \in 1..(Len(f) - 1) /\ 1 + 1 = 2
      BY <1>4, <1>9
    <3> QED
      BY <1>9, <1>13, <1>19, <3>1, <3>2
  <2>5. u.tail = r[n+1]
    BY <1>7, <1>19
  <2> QED
    BY <1>7, <1>9, <1>19, <1>20, <1>21, <1>22, <1>26, <2>1, <2>2, <2>3, <2>4, <2>5 DEF Chained
<1>28. Mapped(u, r, pushed)
  <2>1. \A k \in 1..(n+1) : k # n + 1 => k \in 1..n
    BY <1>3
  <2>2. \A k \in 1..(n+1) : pushed[k] = data[r[k]]
    <3> TAKE k \in 1..(n+1)
    <3>1. CASE k = n + 1
      <4>1. r[k] = i /\ pushed[k] = x
        BY <1>7, <1>8, <3>1
      <4>2. data[i] = x
        BY <1>6, <1>17
      <4> QED
        BY <4>1, <4>2
    <3>2. CASE k \in 1..n
      <4>1. r[k] = s[k] /\ pushed[k] = list[k] /\ s[k] \in Slots
        BY <1>3, <1>7, <1>8, <3>2
      <4>2. s[k] # i
        BY <1>6, <1>12, <3>2
      <4>3. data[s[k]] = c.data[s[k]]
        BY <1>17, <4>1, <4>2
      <4>4. list[k] = c.data[s[k]]
        BY <1>5, <3>2
      <4> QED
        BY <4>1, <4>3, <4>4
    <3> QED
      BY <2>1, <3>1, <3>2
  <2>3. pushed = [k \in 1..(n+1) |-> data[r[k]]]
    <3>1. pushed = [k \in 1..(n+1) |-> pushed[k]]
      BY <1>8
    <3> QED
      BY <2>2, <3>1
  <2>4. DOMAIN map = Elements(pushed)
    BY <1>5, <1>17, <1>24 DEF Elements
  <2>5. \A k \in 1..(n+1) : map[pushed[k]] = r[k]
    <3> TAKE k \in 1..(n+1)
    <3>1. pushed[k] \in DOMAIN map
      BY <1>8, <2>4 DEF Elements
    <3>2. CASE k = n + 1
      BY <1>7, <1>8, <1>17, <3>1, <3>2
    <3>3. CASE k # n + 1
      BY <1>5, <1>7, <1>8, <1>11, <1>17, <2>1, <3>1, <3>3, SMTT(30)
    <3> QED
      BY <3>2, <3>3
  <2> QED
    BY <1>7, <1>19, <1>26, <2>3, <2>4, <2>5 DEF Mapped
<1> QED
  BY <1>8, <1>18, <1>27, <1>28 DEF Represents, u, pushed

\* A push does to the slots what Push does to the list.
LEMMA PushRepresents ==
    ASSUME NEW V, NEW c, NEW list, Represents(c, V, list), NEW x \in V
    PROVE  Represents(CircularPush(c, x), V, Push(list, x))
<1>1. PICK s, f : Chained(c, s, f) /\ Mapped(c, s, list)
  BY DEF Represents
<1>2. /\ DOMAIN c.idxMap = Elements(list) /\ list \in Seq(V) /\ Len(list) = c.size
  <2>1. DOMAIN list = 1..Len(s) /\ list \in Seq(V) /\ Len(s) \in Nat /\ Len(s) = c.size
    BY <1>1, LenProperties DEF Represents, Mapped, Chained
  <2> QED
    BY <1>1, <2>1, LenProperties DEF Mapped
<1>3. CASE x \in Elements(list)
  <2> DEFINE m == CHOOSE i \in DOMAIN list : list[i] = x
  <2>1. m \in DOMAIN list /\ list[m] = x
    BY <1>3 DEF Elements
  <2>2. CircularPush(c, x) = Update(c, c.idxMap[x])
    BY <1>2, <1>3 DEF CircularPush
  <2>3. Push(list, x) = Append(RemoveIndex(list, m), x)
    BY <1>3 DEF Push
  <2> HIDE DEF m
  <2>4. Represents(Update(c, c.idxMap[list[m]]), V, Append(RemoveIndex(list, m), list[m]))
    BY <2>1, UpdateRepresents
  <2> QED
    BY <2>1, <2>2, <2>3, <2>4
<1>4. CASE x \notin Elements(list) /\ c.size = Capacity
  BY <1>2, <1>4, PushFullRepresents DEF CircularPush, Push
<1>5. CASE x \notin Elements(list) /\ c.size # Capacity
  BY <1>2, <1>5, PushFreeRepresents DEF CircularPush, Push
<1> QED
  BY <1>3, <1>4, <1>5

-----------------------------------------------------------------------------
(* Sorted vectors.                                                         *)

Increasing(v) == \A i, j \in DOMAIN v : i < j => v[i] < v[j]

\* The search finds a resource, or where it belongs.
LEMMA LowerBoundFacts ==
    ASSUME NEW v \in Seq(Int), Increasing(v), NEW r \in Int,
           NEW p, p = LowerBound(v, r)
    PROVE  /\ p \in 1..(Len(v) + 1)
           /\ \A k \in 1..Len(v) : v[k] < r <=> k < p
           /\ \A k \in 1..Len(v) : v[k] = r => k = p
           /\ HasAt(v, p, r) <=> r \in ToSet(v)
<1> DEFINE right == [i \in DOMAIN v |-> v[i] < r]
<1>1. DOMAIN v = 1..Len(v) /\ Len(v) \in Nat /\ \A k \in 1..Len(v) : v[k] \in Int
  BY LenProperties, ElementOfSeq
<1>2. right \in Seq(BOOLEAN) /\ Len(right) = Len(v)
  <2>1. right \in [1..Len(v) -> BOOLEAN]
    BY <1>1
  <2> HIDE DEF right
  <2> QED
    BY <1>1, <2>1
<1>3. \A k \in 1..Len(v) : right[k] <=> v[k] < r
  BY <1>1
<1>4. p = PartitionPoint(1, right)
  BY DEF LowerBound
<1> HIDE DEF right
<1>5. Partitioned(1, right)
  <2> SUFFICES ASSUME NEW i \in 1..Len(v), NEW j \in 1..Len(v), i < j, right[j]
               PROVE  right[i]
    BY <1>2 DEF Partitioned
  <2>1. v[i] < v[j] /\ v[j] < r
    BY <1>1, <1>3 DEF Increasing
  <2> QED
    BY <1>1, <1>3, <2>1
<1>6. 1 \in 1..(Len(right) + 1) /\ 1 \in Int
  BY <1>1, <1>2
<1>7. p \in 1..(Len(v) + 1)
  BY <1>2, <1>4, <1>6, PointFacts
<1>8. \A k \in 1..Len(v) : v[k] < r <=> k < p
  BY <1>2, <1>3, <1>4, <1>5, <1>6, PointOfPartition
<1>9. ASSUME NEW k \in 1..Len(v), v[k] = r
      PROVE  k = p
  <2>1. ~(v[k] < r)
    BY <1>1, <1>9
  <2>2. ~(k < p)
    BY <1>8, <2>1
  <2>3. ASSUME p < k
        PROVE  FALSE
    <3>1. p \in 1..Len(v)
      BY <1>1, <1>7, <2>3
    <3>2. v[p] < v[k]
      BY <1>1, <2>3, <3>1 DEF Increasing
    <3>3. v[p] < r
      BY <1>9, <3>2
    <3>4. p < p
      BY <1>8, <3>1, <3>3
    <3> QED
      BY <1>7, <3>4
  <2> QED
    BY <1>7, <2>2, <2>3
<1>10. HasAt(v, p, r) <=> r \in ToSet(v)
  <2>1. HasAt(v, p, r) => r \in ToSet(v)
    BY <1>1, <1>7 DEF HasAt, ToSet
  <2>2. ASSUME r \in ToSet(v)
        PROVE  HasAt(v, p, r)
    <3>1. PICK k \in 1..Len(v) : v[k] = r
      BY <1>1, <2>2 DEF ToSet
    <3>2. k = p
      BY <1>9, <3>1
    <3> QED
      BY <1>1, <3>1, <3>2 DEF HasAt
  <2> QED
    BY <2>1, <2>2
<1> QED
  BY <1>7, <1>8, <1>9, <1>10

\* What an insertion does to the other elements: nothing.
LEMMA InsertAtFacts ==
    ASSUME NEW S, NEW s \in Seq(S), NEW i \in 1..(Len(s) + 1), NEW x \in S
    PROVE  LET r == InsertAt(s, i, x)
           IN /\ r \in Seq(S) /\ Len(r) = Len(s) + 1 /\ DOMAIN r = 1..(Len(s) + 1)
              /\ \A k \in 1..(i-1) : r[k] = s[k]
              /\ r[i] = x
              /\ \A k \in i..Len(s) : r[k + 1] = s[k]
<1> DEFINE n == Len(s)
           p == SubSeq(s, 1, i - 1)
           q == SubSeq(s, i, n)
           a == p \o <<x>>
           r == a \o q
<1>1. DOMAIN s = 1..n /\ n \in Nat /\ \A k \in 1..n : s[k] \in S
  BY LenProperties, ElementOfSeq
<1>2. /\ p \in Seq(S) /\ Len(p) = i - 1
      /\ \A k \in 1..(i - 1) : p[k] = s[k]
  <2>1. \A k \in 1..(i - 1) : s[k] \in S
    BY <1>1
  <2>2. /\ p \in Seq(S)
        /\ Len(p) = IF 1 <= i - 1 THEN i - 1 - 1 + 1 ELSE 0
        /\ \A k \in 1 .. i - 1 - 1 + 1 : p[k] = s[1 + k - 1]
    BY <1>1, <2>1, SubSeqProperties
  <2> QED
    BY <1>1, <2>2
<1>3. /\ q \in Seq(S) /\ Len(q) = n - i + 1
      /\ \A k \in 1..(n - i + 1) : q[k] = s[i + k - 1]
  <2>1. \A k \in i..n : s[k] \in S
    BY <1>1
  <2>2. /\ q \in Seq(S)
        /\ Len(q) = IF i <= n THEN n - i + 1 ELSE 0
        /\ \A k \in 1 .. n - i + 1 : q[k] = s[i + k - 1]
    BY <1>1, <2>1, SubSeqProperties
  <2> QED
    BY <1>1, <2>2
<1>4. <<x>> \in Seq(S) /\ Len(<<x>>) = 1 /\ <<x>>[1] = x
  OBVIOUS
<1> HIDE DEF p, q, n
<1>5. /\ a \in Seq(S) /\ Len(a) = Len(p) + 1
      /\ \A k \in 1 .. Len(p) + 1 : a[k] = IF k <= Len(p) THEN p[k] ELSE <<x>>[k - Len(p)]
  BY <1>2, <1>4, ConcatProperties
<1>6. Len(a) = i /\ (\A k \in 1..(i-1) : a[k] = s[k]) /\ a[i] = x
  <2>1. Len(a) = i
    BY <1>2, <1>5
  <2>2. ASSUME NEW k \in 1..(i-1)
        PROVE  a[k] = s[k]
    <3>1. k \in 1..(Len(p) + 1) /\ k <= Len(p)
      BY <1>2
    <3> QED
      BY <1>2, <1>5, <3>1
  <2>3. a[i] = x
    <3>1. i \in 1..(Len(p) + 1) /\ ~(i <= Len(p)) /\ i - Len(p) = 1
      BY <1>2
    <3> QED
      BY <1>4, <1>5, <3>1
  <2> QED
    BY <2>1, <2>2, <2>3
<1> HIDE DEF a
<1>7. /\ r \in Seq(S) /\ Len(r) = Len(a) + Len(q)
      /\ \A k \in 1 .. Len(a) + Len(q) : r[k] = IF k <= Len(a) THEN a[k] ELSE q[k - Len(a)]
  BY <1>3, <1>5, ConcatProperties
<1> HIDE DEF r
<1>8. Len(r) = n + 1 /\ Len(a) + Len(q) = n + 1 /\ i \in 1..(n+1) /\ n \in Nat
  BY <1>1, <1>3, <1>6, <1>7 DEF n
<1>9. DOMAIN r = 1..(n + 1)
  BY <1>7, <1>8, LenProperties
<1>10. ASSUME NEW k \in 1..(i-1)
       PROVE  r[k] = s[k]
  <2>1. k \in 1..(n+1) /\ k <= Len(a)
    BY <1>6, <1>8
  <2> QED
    BY <1>6, <1>7, <1>8, <2>1
<1>11. r[i] = x
  BY <1>6, <1>7, <1>8
<1>12. ASSUME NEW k \in i..n
       PROVE  r[k + 1] = s[k]
  <2>1. k + 1 \in 1..(n+1) /\ ~(k + 1 <= Len(a)) /\ (k + 1) - Len(a) \in 1..(n - i + 1)
    BY <1>6, <1>8
  <2>2. i + ((k + 1) - Len(a)) - 1 = k
    BY <1>6, <1>8
  <2> QED
    BY <1>3, <1>7, <1>8, <2>1, <2>2
<1>13. InsertAt(s, i, x) = r
  BY DEF InsertAt, r, a, p, q, n
<1> QED
  BY <1>7, <1>8, <1>9, <1>10, <1>11, <1>12, <1>13 DEF n

\* w has what v has, and r.
Added(w, v, r) == ToSet(w) = ToSet(v) \cup {r}

\* unique_insert keeps a vector sorted, and puts the resource in.
LEMMA UniqueInsertFacts ==
    ASSUME NEW S, S \subseteq Int, NEW v \in Seq(S), Increasing(v), NEW r \in S
    PROVE  /\ UniqueInsert(v, r) \in Seq(S) /\ Increasing(UniqueInsert(v, r))
           /\ Added(UniqueInsert(v, r), v, r)
<1> DEFINE n == Len(v)
           i == LowerBound(v, r)
           w == InsertAt(v, i, r)
<1>1. DOMAIN v = 1..n /\ n \in Nat /\ v \in Seq(Int) /\ \A k \in 1..n : v[k] \in S /\ v[k] \in Int
  <2>1. DOMAIN v = 1..n /\ n \in Nat
    BY LenProperties
  <2>2. \A k \in 1..n : v[k] \in S
    BY ElementOfSeq
  <2>3. \A k \in 1..n : v[k] \in Int
    BY <2>2
  <2>4. v \in Seq(Int)
    BY <2>1, <2>3, IsASeq, LenProperties
  <2> QED
    BY <2>1, <2>2, <2>3, <2>4
<1>2. /\ i \in 1..(n + 1)
      /\ \A k \in 1..n : v[k] < r <=> k < i
      /\ HasAt(v, i, r) <=> r \in ToSet(v)
  BY <1>1, LowerBoundFacts
<1>3. CASE HasAt(v, i, r)
  BY <1>2, <1>3 DEF UniqueInsert, Added
<1>4. CASE ~HasAt(v, i, r)
  <2>1. UniqueInsert(v, r) = w
    BY <1>4 DEF UniqueInsert
  <2> HIDE DEF i
  <2>2. /\ w \in Seq(S) /\ Len(w) = n + 1 /\ DOMAIN w = 1..(n + 1)
        /\ \A k \in 1..(i-1) : w[k] = v[k]
        /\ w[i] = r
        /\ \A k \in i..n : w[k + 1] = v[k]
    BY <1>2, InsertAtFacts
  <2> HIDE DEF w, n
  <2>3. r \notin ToSet(v) /\ \A k \in 1..n : v[k] # r
    BY <1>1, <1>2, <1>4 DEF ToSet
  <2>4. \A k \in 1..(n+1) : /\ k < i => k \in 1..n /\ w[k] = v[k] /\ v[k] < r
                            /\ k > i => k - 1 \in 1..n /\ w[k] = v[k - 1] /\ v[k - 1] > r
    <3> TAKE k \in 1..(n+1)
    <3>1. CASE k < i
      <4>1. k \in 1..(i-1) /\ k \in 1..n
        BY <1>1, <1>2, <3>1
      <4> QED
        BY <1>1, <1>2, <2>2, <3>1, <4>1
    <3>2. CASE k > i
      <4>1. k - 1 \in i..n /\ k - 1 \in 1..n /\ (k - 1) + 1 = k /\ ~(k - 1 < i)
        BY <1>1, <1>2, <3>2
      <4>2. v[k - 1] > r
        BY <1>1, <1>2, <2>3, <4>1
      <4> QED
        BY <1>2, <2>2, <3>2, <4>1, <4>2
    <3> QED
      BY <1>2, <3>1, <3>2
  <2>5. Increasing(w)
    <3> SUFFICES ASSUME NEW a \in 1..(n+1), NEW b \in 1..(n+1), a < b
                 PROVE  w[a] < w[b]
      BY <2>2 DEF Increasing
    <3>1. \A k, j \in 1..n : k < j => v[k] < v[j]
      BY <1>1 DEF Increasing
    <3>2. i \in Int /\ r \in Int
      BY <1>2
    <3>3. CASE b < i
      BY <1>1, <2>4, <3>1, <3>2, <3>3
    <3>4. CASE b = i
      BY <1>1, <2>2, <2>4, <3>2, <3>4
    <3>5. CASE b > i /\ a < i
      <4>1. w[a] < r /\ w[a] \in Int /\ w[b] > r /\ w[b] \in Int
        BY <1>1, <2>4, <3>5
      <4> QED
        BY <3>2, <4>1
    <3>6. CASE b > i /\ a = i
      BY <1>1, <2>2, <2>4, <3>2, <3>6
    <3>7. CASE b > i /\ a > i
      <4>1. a - 1 < b - 1
        OBVIOUS
      <4> QED
        BY <1>1, <2>4, <3>1, <3>7, <4>1
    <3> QED
      BY <3>2, <3>3, <3>4, <3>5, <3>6, <3>7
  <2>6. ToSet(w) = ToSet(v) \cup {r}
    <3>1. ToSet(w) = {w[k] : k \in 1..(n+1)} /\ ToSet(v) = {v[k] : k \in 1..n}
      BY <1>1, <2>2 DEF ToSet
    <3>2. \A k \in 1..(n+1) : k < i \/ k = i \/ k > i
      BY <1>2
    <3>3. {w[k] : k \in 1..(n+1)} \subseteq {v[k] : k \in 1..n} \cup {r}
      BY <2>2, <2>4, <3>2
    <3>4. r \in {w[k] : k \in 1..(n+1)}
      BY <1>2, <2>2
    <3>5. ASSUME NEW k \in 1..n
          PROVE  \E j \in 1..(n+1) : v[k] = w[j]
      <4>1. CASE k < i
        <5>1. k \in 1..(n+1)
          BY <1>1
        <5> QED
          BY <2>4, <4>1, <5>1
      <4>2. CASE ~(k < i)
        <5>1. k + 1 \in 1..(n+1) /\ k \in i..n
          BY <1>1, <1>2, <4>2
        <5> QED
          BY <2>2, <5>1
      <4> QED
        BY <4>1, <4>2
    <3>6. {v[k] : k \in 1..n} \subseteq {w[k] : k \in 1..(n+1)}
      BY <3>5
    <3> QED
      BY <3>1, <3>3, <3>4, <3>6
  <2> QED
    BY <2>1, <2>2, <2>5, <2>6 DEF Added
<1> QED
  BY <1>3, <1>4

\* Sorted vectors of the same resources are the same vector.
LEMMA SortedUnique ==
    ASSUME NEW v \in Seq(Int), NEW w \in Seq(Int), Increasing(v), Increasing(w),
           ToSet(v) = ToSet(w)
    PROVE  v = w
<1>1. /\ DOMAIN v = 1..Len(v) /\ Len(v) \in Nat /\ \A k \in 1..Len(v) : v[k] \in Int
      /\ DOMAIN w = 1..Len(w) /\ Len(w) \in Nat /\ \A k \in 1..Len(w) : w[k] \in Int
  BY LenProperties, ElementOfSeq
<1> DEFINE Same(k) == k \in 1..Len(v) /\ k \in 1..Len(w) /\ v[k] = w[k]
           T == {k \in 1..(Len(v) + Len(w)) : (k <= Len(v) \/ k <= Len(w)) /\ ~Same(k)}
<1>2. ASSUME T # {}
      PROVE  FALSE
  <2>1. T \subseteq Nat
    OBVIOUS
  <2>2. PICK k \in T : \A y \in T : k <= y
    <3> HIDE DEF T
    <3> QED
      BY <1>2, <2>1, LeastNatural
  <2>3. k \in 1..(Len(v) + Len(w)) /\ (k <= Len(v) \/ k <= Len(w)) /\ ~Same(k)
    OBVIOUS
  <2>4. ASSUME NEW j \in 1..(k-1)
        PROVE  Same(j)
    <3>1. j \in 1..(Len(v) + Len(w)) /\ (j <= Len(v) \/ j <= Len(w)) /\ ~(k <= j)
      BY <1>1, <2>3
    <3>2. j \notin T
      BY <2>2, <3>1
    <3> QED
      BY <3>1, <3>2
  <2>5. k \in Nat /\ k >= 1
    BY <1>1, <2>3
  <2>6. ASSUME k <= Len(v)
        PROVE  k <= Len(w) /\ ~(v[k] < w[k])
    <3>1. k \in 1..Len(v)
      BY <1>1, <2>5, <2>6
    <3>2. PICK j \in 1..Len(w) : w[j] = v[k]
      BY <1>1, <3>1 DEF ToSet
    <3>3. ~(j < k)
      <4> SUFFICES ASSUME j < k
                   PROVE  FALSE
        OBVIOUS
      <4>1. j \in 1..(k-1)
        BY <2>5
      <4>2. j \in 1..Len(v) /\ v[j] = w[j]
        BY <2>4, <4>1
      <4>3. v[j] < v[k]
        BY <1>1, <3>1, <4>2 DEF Increasing
      <4> QED
        BY <1>1, <3>1, <3>2, <4>2, <4>3
    <3>4. k <= Len(w) /\ k \in 1..Len(w)
      BY <1>1, <2>5, <3>3
    <3>5. j = k \/ w[k] < w[j]
      <4>1. j = k \/ k < j
        BY <1>1, <2>5, <3>2, <3>3
      <4>2. ASSUME k < j
            PROVE  w[k] < w[j]
        BY <1>1, <3>2, <3>4, <4>2 DEF Increasing
      <4> QED
        BY <4>1, <4>2
    <3>6. v[k] \in Int /\ w[k] \in Int
      BY <1>1, <3>1, <3>4
    <3> QED
      BY <3>2, <3>4, <3>5, <3>6
  <2>7. ASSUME k <= Len(w)
        PROVE  k <= Len(v) /\ ~(w[k] < v[k])
    <3>1. k \in 1..Len(w)
      BY <1>1, <2>5, <2>7
    <3>2. PICK j \in 1..Len(v) : v[j] = w[k]
      BY <1>1, <3>1 DEF ToSet
    <3>3. ~(j < k)
      <4> SUFFICES ASSUME j < k
                   PROVE  FALSE
        OBVIOUS
      <4>1. j \in 1..(k-1)
        BY <2>5
      <4>2. j \in 1..Len(w) /\ v[j] = w[j]
        BY <2>4, <4>1
      <4>3. w[j] < w[k]
        BY <1>1, <3>1, <4>2 DEF Increasing
      <4> QED
        BY <1>1, <3>1, <3>2, <4>2, <4>3
    <3>4. k <= Len(v) /\ k \in 1..Len(v)
      BY <1>1, <2>5, <3>3
    <3>5. j = k \/ v[k] < v[j]
      <4>1. j = k \/ k < j
        BY <1>1, <2>5, <3>2, <3>3
      <4>2. ASSUME k < j
            PROVE  v[k] < v[j]
        BY <1>1, <3>2, <3>4, <4>2 DEF Increasing
      <4> QED
        BY <4>1, <4>2
    <3>6. v[k] \in Int /\ w[k] \in Int
      BY <1>1, <3>1, <3>4
    <3> QED
      BY <3>2, <3>4, <3>5, <3>6
  <2>8. k <= Len(v) /\ k <= Len(w)
    BY <2>3, <2>6, <2>7
  <2>9. k \in 1..Len(v) /\ k \in 1..Len(w)
    BY <1>1, <2>5, <2>8
  <2>10. v[k] = w[k]
    <3>1. v[k] \in Int /\ w[k] \in Int
      BY <1>1, <2>9
    <3> QED
      BY <2>6, <2>7, <2>8, <3>1
  <2> QED
    BY <2>3, <2>9, <2>10
<1>3. ASSUME NEW k \in 1..(Len(v) + Len(w)), k <= Len(v) \/ k <= Len(w)
      PROVE  k \in 1..Len(v) /\ k \in 1..Len(w) /\ v[k] = w[k]
  BY <1>2, <1>3
<1>4. Len(v) = Len(w)
  <2>1. ASSUME Len(v) < Len(w)
        PROVE  FALSE
    <3>1. Len(w) \in 1..(Len(v) + Len(w)) /\ Len(w) <= Len(w) /\ Len(w) \notin 1..Len(v)
      BY <1>1, <2>1
    <3> QED
      BY <1>3, <3>1
  <2>2. ASSUME Len(w) < Len(v)
        PROVE  FALSE
    <3>1. Len(v) \in 1..(Len(v) + Len(w)) /\ Len(v) <= Len(v) /\ Len(v) \notin 1..Len(w)
      BY <1>1, <2>2
    <3> QED
      BY <1>3, <3>1
  <2>3. ~(Len(v) < Len(w)) /\ ~(Len(w) < Len(v))
    BY <2>1, <2>2
  <2>4. Len(v) \in Nat /\ Len(w) \in Nat
    BY <1>1
  <2> QED
    BY <2>3, <2>4, SMT
<1>5. \A k \in 1..Len(v) : v[k] = w[k]
  BY <1>1, <1>3
<1> QED
  BY <1>1, <1>4, <1>5, SeqEqual

-----------------------------------------------------------------------------
(* Entries with counts.                                                    *)

Entry == [res : Locks, count : Nat \ {0}]
EntriesOK(e) == e \in Seq(Entry) /\ Increasing(Resources(e))

\* The entry and the count of a lock.
CountAt(e, l) ==
    IF HasAt(Resources(e), LowerBound(Resources(e), l), l)
    THEN e[LowerBound(Resources(e), l)].count ELSE 0

LEMMA LocksAreIntegers == Locks \subseteq Int /\ CondVars \subseteq Int /\ Locks \cup CondVars \subseteq Int
<1>1. Locks \subseteq Int
  BY ThreadInfoAssumption
<1>2. CondVars \subseteq Int
  BY <1>1, ThreadInfoAssumption DEF CondVars
<1> QED
  BY <1>1, <1>2

\* The locks of the entries, as a vector.
LEMMA ResourcesType ==
    ASSUME NEW e \in Seq(Entry)
    PROVE  /\ Resources(e) \in Seq(Locks) /\ Resources(e) \in Seq(Int)
           /\ Len(Resources(e)) = Len(e) /\ DOMAIN Resources(e) = 1..Len(e)
           /\ DOMAIN e = 1..Len(e) /\ Len(e) \in Nat
           /\ \A k \in 1..Len(e) : /\ Resources(e)[k] = e[k].res /\ e[k] \in Entry
                                   /\ e[k].res \in Locks /\ e[k].res \in Int
                                   /\ e[k].count \in Nat \ {0}
<1>1. DOMAIN e = 1..Len(e) /\ Len(e) \in Nat
  BY LenProperties
<1>2. \A k \in 1..Len(e) : e[k] \in Entry
  BY ElementOfSeq
<1>3. \A k \in 1..Len(e) : e[k].res \in Locks /\ e[k].res \in Int /\ e[k].count \in Nat \ {0}
  BY <1>2, LocksAreIntegers DEF Entry
<1> DEFINE r == Resources(e)
<1>4. r = [k \in 1..Len(e) |-> e[k].res]
  BY <1>1 DEF Resources
<1>5. r \in [1..Len(e) -> Locks] /\ r \in [1..Len(e) -> Int]
  BY <1>3, <1>4
<1>6. r \in Seq(Locks) /\ r \in Seq(Int)
  BY <1>1, <1>5
<1>7. DOMAIN r = 1..Len(e)
  BY <1>4
<1>8. Len(r) = Len(e)
  <2> HIDE DEF r
  <2> QED
    BY <1>1, <1>6, <1>7, LenProperties
<1> QED
  BY <1>1, <1>2, <1>3, <1>4, <1>6, <1>7, <1>8

\* The search finds the entry of a lock, and its count.
LEMMA CountFacts ==
    ASSUME NEW e, EntriesOK(e), NEW l \in Locks, NEW i, i = LowerBound(Resources(e), l)
    PROVE  /\ i \in 1..(Len(e) + 1)
           /\ HasAt(Resources(e), i, l) <=> i \in 1..Len(e) /\ e[i].res = l
           /\ \A k \in 1..Len(e) : e[k].res = l =>
                 k = i /\ HasAt(Resources(e), i, l) /\ CountAt(e, l) = e[k].count
           /\ (\A k \in 1..Len(e) : e[k].res # l) => ~HasAt(Resources(e), i, l) /\ CountAt(e, l) = 0
           /\ CountAt(e, l) \in Nat
           /\ CountAt(e, l) > 0 <=> HasAt(Resources(e), i, l)
<1> DEFINE r == Resources(e)
<1>1. e \in Seq(Entry) /\ Increasing(r) /\ l \in Int
  BY LocksAreIntegers DEF EntriesOK
<1>2. /\ r \in Seq(Int) /\ Len(r) = Len(e) /\ Len(e) \in Nat
      /\ \A k \in 1..Len(e) : r[k] = e[k].res /\ e[k].count \in Nat \ {0}
  BY <1>1, ResourcesType
<1> HIDE DEF r
<1>3. /\ i \in 1..(Len(e) + 1)
      /\ \A k \in 1..Len(e) : r[k] = l => k = i
  <2>1. i = LowerBound(r, l) /\ Increasing(r)
    BY <1>1 DEF r
  <2> QED
    BY <1>1, <1>2, <2>1, LowerBoundFacts, SMTT(30)
<1>4. HasAt(r, i, l) <=> i \in 1..Len(e) /\ e[i].res = l
  BY <1>2, <1>3 DEF HasAt
<1>5. CountAt(e, l) = IF HasAt(r, i, l) THEN e[i].count ELSE 0
  BY DEF CountAt, r
<1>6. \A k \in 1..Len(e) : e[k].res = l => k = i /\ HasAt(r, i, l) /\ CountAt(e, l) = e[k].count
  BY <1>2, <1>3, <1>4, <1>5
<1>7. (\A k \in 1..Len(e) : e[k].res # l) => ~HasAt(r, i, l) /\ CountAt(e, l) = 0
  BY <1>4, <1>5
<1>8. CountAt(e, l) \in Nat /\ (CountAt(e, l) > 0 <=> HasAt(r, i, l))
  BY <1>2, <1>4, <1>5
<1> QED
  BY <1>3, <1>4, <1>6, <1>7, <1>8 DEF r

LEMMA CountsOf ==
    ASSUME NEW e, EntriesOK(e), NEW l \in Locks
    PROVE  /\ \A k \in 1..Len(e) : e[k].res = l => CountAt(e, l) = e[k].count
           /\ (\A k \in 1..Len(e) : e[k].res # l) => CountAt(e, l) = 0
           /\ CountAt(e, l) \in Nat
<1> DEFINE i == LowerBound(Resources(e), l)
<1>1. i = LowerBound(Resources(e), l)
  OBVIOUS
<1> HIDE DEF i
<1> QED
  BY <1>1, CountFacts

\* The locks that are held are those of the vector.
LEMMA LocksetFacts ==
    ASSUME NEW e, EntriesOK(e)
    PROVE  ToSet(Resources(e)) = {l \in Locks : CountAt(e, l) > 0}
<1>1. e \in Seq(Entry)
  BY DEF EntriesOK
<1>2. /\ ToSet(Resources(e)) = {e[k].res : k \in 1..Len(e)}
      /\ \A k \in 1..Len(e) : e[k].res \in Locks
  BY <1>1, ResourcesType DEF ToSet
<1>3. ASSUME NEW l \in Locks
      PROVE  CountAt(e, l) > 0 <=> \E k \in 1..Len(e) : e[k].res = l
  <2>1. e \in Seq(Entry) /\ \A k \in 1..Len(e) : e[k].count \in Nat \ {0}
    BY <1>1, ResourcesType
  <2> QED
    BY <2>1, CountsOf
<1> QED
  BY <1>2, <1>3

WithCount(e, i, n) == [e EXCEPT ![i].count = n]

\* A lock that is held gets another count.
LEMMA IncrementFacts ==
    ASSUME NEW e, EntriesOK(e), NEW i \in 1..Len(e), NEW n \in Nat \ {0},
           NEW d, d = WithCount(e, i, n)
    PROVE  /\ EntriesOK(d)
           /\ \A m \in Locks : CountAt(d, m) = IF m = e[i].res THEN n ELSE CountAt(e, m)
<1>1. e \in Seq(Entry) /\ Increasing(Resources(e))
  BY DEF EntriesOK
<1>2. /\ DOMAIN e = 1..Len(e) /\ Len(e) \in Nat
      /\ \A k \in 1..Len(e) : e[k] \in Entry
  BY <1>1, ResourcesType
<1>3. /\ d \in [1..Len(e) -> Entry]
      /\ \A k \in 1..Len(e) : d[k].res = e[k].res /\ (k # i => d[k] = e[k])
      /\ d[i].count = n
  <2>1. e = [k \in 1..Len(e) |-> e[k]]
    BY <1>1, <1>2
  <2>2. d = [k \in 1..Len(e) |-> IF k = i THEN [e[k] EXCEPT !.count = n] ELSE e[k]]
    BY <1>2, <2>1 DEF WithCount
  <2>3. \A k \in 1..Len(e) : /\ [e[k] EXCEPT !.count = n] \in Entry
                             /\ [e[k] EXCEPT !.count = n].res = e[k].res
                             /\ [e[k] EXCEPT !.count = n].count = n
    BY <1>2 DEF Entry
  <2> QED
    BY <1>2, <2>2, <2>3, ZenonT(40)
<1>4. d \in Seq(Entry) /\ Len(d) = Len(e)
  BY <1>2, <1>3
<1>5. Resources(d) = Resources(e)
  <2>1. DOMAIN d = DOMAIN e /\ DOMAIN e = 1..Len(e)
    BY <1>2, <1>3
  <2> QED
    BY <1>3, <2>1 DEF Resources
<1>6. EntriesOK(d)
  BY <1>1, <1>4, <1>5 DEF EntriesOK
<1>7. ASSUME NEW m \in Locks
      PROVE  CountAt(d, m) = IF m = e[i].res THEN n ELSE CountAt(e, m)
  <2>1. CASE m = e[i].res
    <3>1. d[i].res = m /\ i \in 1..Len(d)
      BY <1>3, <1>4, <2>1
    <3>2. CountAt(d, m) = d[i].count
      BY <1>6, <3>1, CountsOf
    <3> QED
      BY <1>3, <2>1, <3>2
  <2>2. CASE m # e[i].res /\ \E k \in 1..Len(e) : e[k].res = m
    <3>1. PICK k \in 1..Len(e) : e[k].res = m
      BY <2>2
    <3>2. k # i /\ d[k] = e[k] /\ k \in 1..Len(d) /\ d[k].res = m
      BY <1>3, <1>4, <2>2, <3>1
    <3>3. CountAt(d, m) = d[k].count /\ CountAt(e, m) = e[k].count
      BY <1>6, <3>1, <3>2, CountsOf
    <3> QED
      BY <2>2, <3>2, <3>3
  <2>3. CASE m # e[i].res /\ \A k \in 1..Len(e) : e[k].res # m
    <3>1. \A k \in 1..Len(d) : d[k].res # m
      BY <1>3, <1>4, <2>3
    <3>2. CountAt(d, m) = 0 /\ CountAt(e, m) = 0
      BY <1>6, <2>3, <3>1, CountsOf
    <3> QED
      BY <2>3, <3>2
  <2> QED
    BY <2>1, <2>2, <2>3
<1> QED
  BY <1>6, <1>7

\* A lock's entries are the same, so is its count.
LEMMA CountSame ==
    ASSUME NEW e, EntriesOK(e), NEW d, EntriesOK(d), NEW m \in Locks,
           \A k \in 1..Len(e) : e[k].res = m => \E j \in 1..Len(d) : d[j] = e[k],
           \A j \in 1..Len(d) : d[j].res = m => \E k \in 1..Len(e) : e[k] = d[j]
    PROVE  CountAt(d, m) = CountAt(e, m)
<1>1. CASE \E k \in 1..Len(e) : e[k].res = m
  <2>1. PICK k \in 1..Len(e) : e[k].res = m
    BY <1>1
  <2>2. PICK j \in 1..Len(d) : d[j] = e[k]
    BY <2>1
  <2>3. CountAt(e, m) = e[k].count /\ CountAt(d, m) = d[j].count
    BY <2>1, <2>2, CountsOf
  <2> QED
    BY <2>2, <2>3
<1>2. CASE \A k \in 1..Len(e) : e[k].res # m
  <2>1. \A j \in 1..Len(d) : d[j].res # m
    BY <1>2
  <2> QED
    BY <1>2, <2>1, CountsOf
<1> QED
  BY <1>1, <1>2

\* A lock that is not held gets an entry.
LEMMA InsertedFacts ==
    ASSUME NEW e, EntriesOK(e), NEW l \in Locks, NEW i, i = LowerBound(Resources(e), l),
           ~HasAt(Resources(e), i, l),
           NEW d, d = InsertAt(e, i, [res |-> l, count |-> 1])
    PROVE  /\ EntriesOK(d)
           /\ \A m \in Locks : CountAt(d, m) = IF m = l THEN 1 ELSE CountAt(e, m)
<1> DEFINE x == [res |-> l, count |-> 1]
           r == Resources(e)
           w == InsertAt(r, i, l)
<1>1. e \in Seq(Entry) /\ Increasing(r) /\ x \in Entry
  BY DEF EntriesOK, Entry
<1>2. /\ r \in Seq(Locks) /\ Len(r) = Len(e) /\ Len(e) \in Nat
      /\ \A k \in 1..Len(e) : r[k] = e[k].res
  BY <1>1, ResourcesType
<1>3. i \in 1..(Len(e) + 1)
  BY CountFacts
<1> HIDE DEF x, r
<1>4. /\ d \in Seq(Entry) /\ Len(d) = Len(e) + 1 /\ DOMAIN d = 1..(Len(e) + 1)
      /\ \A k \in 1..(i-1) : d[k] = e[k]
      /\ d[i] = x
      /\ \A k \in i..Len(e) : d[k + 1] = e[k]
  BY <1>1, <1>3, InsertAtFacts DEF x
<1>5. /\ w \in Seq(Locks) /\ Len(w) = Len(e) + 1 /\ DOMAIN w = 1..(Len(e) + 1)
      /\ \A k \in 1..(i-1) : w[k] = r[k]
      /\ w[i] = l
      /\ \A k \in i..Len(e) : w[k + 1] = r[k]
  BY <1>2, <1>3, InsertAtFacts
<1>6. Increasing(w)
  <2>1. UniqueInsert(r, l) = w
    BY DEF UniqueInsert, r
  <2>2. Increasing(r) /\ Locks \subseteq Int
    BY <1>1, LocksAreIntegers
  <2>3. Increasing(UniqueInsert(r, l))
    BY <1>2, <2>2, UniqueInsertFacts
  <2> QED
    BY <2>1, <2>3
<1> HIDE DEF w
<1>7. x.res = l /\ x.count = 1
  BY DEF x
<1>8. \A k \in 1..(Len(e) + 1) : k \in 1..(i-1) \/ k = i \/ (k - 1 \in i..Len(e) /\ (k-1) + 1 = k)
  BY <1>2, <1>3
<1>9. (\A k \in 1..(i-1) : k \in 1..Len(e)) /\ (\A k \in i..Len(e) : k \in 1..Len(e))
  BY <1>2, <1>3
<1>10. \A k \in 1..(Len(e) + 1) : d[k].res = w[k]
  <2> TAKE k \in 1..(Len(e) + 1)
  <2>1. CASE k \in 1..(i-1)
    BY <1>2, <1>4, <1>5, <1>9, <2>1
  <2>2. CASE k = i
    BY <1>4, <1>5, <1>7, <2>2
  <2>3. CASE k - 1 \in i..Len(e) /\ (k-1) + 1 = k
    <3>1. d[k] = e[k-1] /\ w[k] = r[k-1]
      BY <1>4, <1>5, <2>3
    <3> QED
      BY <1>2, <1>9, <2>3, <3>1
  <2> QED
    BY <1>8, <2>1, <2>2, <2>3
<1>11. Resources(d) = w
  <2>1. Resources(d) = [k \in 1..(Len(e) + 1) |-> d[k].res]
    BY <1>4 DEF Resources
  <2>2. w = [k \in 1..(Len(e) + 1) |-> w[k]]
    BY <1>5
  <2> QED
    BY <1>10, <2>1, <2>2
<1>12. EntriesOK(d)
  BY <1>4, <1>6, <1>11 DEF EntriesOK
<1>13. ASSUME NEW m \in Locks
       PROVE  CountAt(d, m) = IF m = l THEN 1 ELSE CountAt(e, m)
  <2>1. CASE m = l
    <3>1. i \in 1..Len(d) /\ d[i].res = m /\ d[i].count = 1
      BY <1>3, <1>4, <1>7, <2>1
    <3> QED
      BY <1>12, <2>1, <3>1, CountsOf
  <2>2. CASE m # l
    <3>1. ASSUME NEW k \in 1..Len(e)
          PROVE  \E j \in 1..Len(d) : d[j] = e[k]
      <4>1. CASE k \in 1..(i-1)
        <5>1. k \in 1..Len(d)
          BY <1>2, <1>4
        <5> QED
          BY <1>4, <4>1, <5>1
      <4>2. CASE k \in i..Len(e)
        <5>1. k + 1 \in 1..Len(d)
          BY <1>2, <1>4
        <5> QED
          BY <1>4, <4>2, <5>1
      <4>3. k \in 1..(i-1) \/ k \in i..Len(e)
        BY <1>2, <1>3
      <4> QED
        BY <4>1, <4>2, <4>3
    <3>2. ASSUME NEW j \in 1..Len(d), d[j].res = m
          PROVE  \E k \in 1..Len(e) : e[k] = d[j]
      <4>1. j # i /\ j \in 1..(Len(e) + 1)
        BY <1>4, <1>7, <2>2, <3>2
      <4>2. CASE j \in 1..(i-1)
        BY <1>4, <1>9, <4>2
      <4>3. CASE j - 1 \in i..Len(e) /\ (j-1) + 1 = j
        <5>1. d[j] = e[j-1] /\ j - 1 \in 1..Len(e)
          BY <1>4, <1>9, <4>3
        <5> QED
          BY <5>1
      <4> QED
        BY <1>8, <4>1, <4>2, <4>3
    <3>3. CountAt(d, m) = CountAt(e, m)
      BY <1>12, <3>1, <3>2, CountSame
    <3> QED
      BY <2>2, <3>3
  <2> QED
    BY <2>1, <2>2
<1> QED
  BY <1>12, <1>13

\* The entry of a lock that is no longer held goes.
LEMMA RemovedFacts ==
    ASSUME NEW e, EntriesOK(e), NEW i \in 1..Len(e), NEW d, d = RemoveAt(e, i)
    PROVE  /\ EntriesOK(d)
           /\ \A m \in Locks : CountAt(d, m) = IF m = e[i].res THEN 0 ELSE CountAt(e, m)
<1>1. e \in Seq(Entry) /\ Increasing(Resources(e))
  BY DEF EntriesOK
<1>2. /\ DOMAIN e = 1..Len(e) /\ Len(e) \in Nat /\ DOMAIN Resources(e) = 1..Len(e)
      /\ \A k \in 1..Len(e) : Resources(e)[k] = e[k].res /\ e[k].res \in Int
  BY <1>1, ResourcesType
<1>3. \A j, k \in 1..Len(e) : j < k => e[j].res < e[k].res
  BY <1>1, <1>2 DEF Increasing
<1>4. d = RemoveIndex(e, i)
  BY DEF RemoveAt, RemoveIndex
<1>5. /\ d \in Seq(Entry) /\ Len(d) = Len(e) - 1
      /\ \A k \in 1..(Len(e) - 1) : d[k] = IF k < i THEN e[k] ELSE e[k + 1]
  <2>1. i \in DOMAIN e
    BY <1>2
  <2>2. LET r == RemoveIndex(e, i)
        IN /\ r \in Seq(Entry) /\ Len(r) = Len(e) - 1
           /\ \A k \in 1..(Len(e) - 1) : r[k] = IF k < i THEN e[k] ELSE e[k + 1]
    BY <1>1, <2>1, RemoveIndexFacts
  <2> QED
    BY <1>4, <2>2
<1>6. Increasing(Resources(d))
  <2>1. /\ DOMAIN Resources(d) = 1..(Len(e) - 1)
        /\ \A k \in 1..(Len(e) - 1) : Resources(d)[k] = d[k].res
    BY <1>5, ResourcesType
  <2> SUFFICES ASSUME NEW j \in 1..(Len(e) - 1), NEW k \in 1..(Len(e) - 1), j < k
               PROVE  d[j].res < d[k].res
    BY <2>1 DEF Increasing
  <2>2. j \in 1..Len(e) /\ j + 1 \in 1..Len(e) /\ k \in 1..Len(e) /\ k + 1 \in 1..Len(e)
    BY <1>2
  <2>3. j < k /\ j + 1 < k + 1 /\ j < k + 1
    OBVIOUS
  <2>4. d[j] = (IF j < i THEN e[j] ELSE e[j+1]) /\ d[k] = (IF k < i THEN e[k] ELSE e[k+1])
    BY <1>5
  <2>5. ~(j < i) => ~(k < i)
    OBVIOUS
  <2> QED
    BY <1>3, <2>2, <2>3, <2>4, <2>5
<1>7. EntriesOK(d)
  BY <1>5, <1>6 DEF EntriesOK
<1>8. ASSUME NEW m \in Locks
      PROVE  CountAt(d, m) = IF m = e[i].res THEN 0 ELSE CountAt(e, m)
  <2>1. \A k \in 1..(Len(e) - 1) : \E j \in 1..Len(e) : j # i /\ d[k] = e[j]
    <3> TAKE k \in 1..(Len(e) - 1)
    <3>1. k \in 1..Len(e) /\ k + 1 \in 1..Len(e)
      BY <1>2
    <3>2. CASE k < i
      BY <1>5, <3>1, <3>2
    <3>3. CASE ~(k < i)
      <4>1. k + 1 # i /\ d[k] = e[k+1]
        BY <1>5, <3>3
      <4> QED
        BY <3>1, <4>1
    <3> QED
      BY <3>2, <3>3
  <2>2. CASE m = e[i].res
    <3>1. ASSUME NEW k \in 1..Len(d)
          PROVE  d[k].res # m
      <4>1. PICK j \in 1..Len(e) : j # i /\ d[k] = e[j]
        BY <1>5, <2>1
      <4>2. e[j].res < e[i].res \/ e[i].res < e[j].res
        BY <1>3, <4>1
      <4> QED
        BY <1>2, <2>2, <4>1, <4>2
    <3> QED
      BY <1>7, <2>2, <3>1, CountsOf
  <2>3. CASE m # e[i].res
    <3>1. ASSUME NEW k \in 1..Len(e), e[k].res = m
          PROVE  \E j \in 1..Len(d) : d[j] = e[k]
      <4>1. k # i
        BY <2>3, <3>1
      <4>2. CASE k < i
        <5>1. k \in 1..Len(d) /\ k \in 1..(Len(e) - 1)
          BY <1>2, <1>5, <4>2
        <5> QED
          BY <1>5, <4>2, <5>1
      <4>3. CASE k > i
        <5>1. k - 1 \in 1..Len(d) /\ k - 1 \in 1..(Len(e) - 1) /\ ~(k - 1 < i) /\ (k-1) + 1 = k
          BY <1>2, <1>5, <4>3
        <5>2. d[k-1] = e[k]
          BY <1>5, <5>1
        <5> QED
          BY <5>1, <5>2
      <4> QED
        BY <4>1, <4>2, <4>3
    <3>2. ASSUME NEW j \in 1..Len(d)
          PROVE  \E k \in 1..Len(e) : e[k] = d[j]
      BY <1>5, <2>1
    <3>3. CountAt(d, m) = CountAt(e, m)
      BY <1>7, <3>1, <3>2, CountSame
    <3> QED
      BY <2>3, <3>3
  <2> QED
    BY <2>2, <2>3
<1> QED
  BY <1>7, <1>8

-----------------------------------------------------------------------------
(* Dependencies, with a vector or a set of resources.                      *)

Named == Locks \cup CondVars
Sorted == {v \in Seq(Named) : Increasing(v)}
Deps == [res : Named, lockset : Sorted]
SetDeps == [res : Named, lockset : SUBSET Named]

AsSet(d) == [d EXCEPT !.lockset = ToSet(@)]
AsSets(list) == [k \in DOMAIN list |-> [list[k] EXCEPT !.lockset = ToSet(@)]]
Renamed(d, c) == [d EXCEPT !.lockset = UniqueInsert(@, c)]
WithResource(d, r) == [d EXCEPT !.lockset = @ \cup {r}]

\* Dependencies with the same set have the same vector: they are the same.
LEMMA AsSetFacts ==
    ASSUME NEW d \in Deps
    PROVE  /\ AsSet(d) \in SetDeps /\ AsSet(d).res = d.res
           /\ AsSet(d).lockset = ToSet(d.lockset)
           /\ \A e \in Deps : AsSet(d) = AsSet(e) => d = e
<1>1. \A x \in Deps : /\ x = [res |-> x.res, lockset |-> x.lockset] /\ x.res \in Named
                      /\ x.lockset \in Seq(Named) /\ Increasing(x.lockset)
  BY DEF Deps, Sorted
<1>2. \A x \in Deps : AsSet(x) = [res |-> x.res, lockset |-> ToSet(x.lockset)]
  BY DEF AsSet, Deps
<1>3. ToSet(d.lockset) \subseteq Named
  <2>1. d.lockset \in Seq(Named) /\ DOMAIN d.lockset = 1..Len(d.lockset)
    BY <1>1, LenProperties
  <2>2. \A k \in 1..Len(d.lockset) : d.lockset[k] \in Named
    BY <2>1, ElementOfSeq
  <2> QED
    BY <2>1, <2>2 DEF ToSet
<1>4. ASSUME NEW e \in Deps, AsSet(d) = AsSet(e)
      PROVE  d = e
  <2>1. d.res = e.res /\ ToSet(d.lockset) = ToSet(e.lockset)
    BY <1>2, <1>4
  <2>2. Named \subseteq Int
    BY LocksAreIntegers DEF Named
  <2>3. ASSUME NEW x \in Deps
        PROVE  x.lockset \in Seq(Int)
    <3>1. x.lockset \in Seq(Named)
      BY <1>1
    <3>2. /\ x.lockset \in [1..Len(x.lockset) -> Named] /\ Len(x.lockset) \in Nat
      BY <3>1, LenProperties
    <3>3. x.lockset \in [1..Len(x.lockset) -> Int]
      BY <2>2, <3>2
    <3> QED
      BY <3>2, <3>3
  <2>4. d.lockset = e.lockset
    BY <1>1, <2>1, <2>3, SortedUnique
  <2> QED
    BY <1>1, <2>1, <2>4
<1>5. AsSet(d) = [res |-> d.res, lockset |-> ToSet(d.lockset)]
  BY <1>2
<1>6. AsSet(d) \in SetDeps
  BY <1>1, <1>3, <1>5 DEF SetDeps
<1>7. AsSet(d).res = d.res /\ AsSet(d).lockset = ToSet(d.lockset)
  BY <1>5
<1> QED
  BY <1>4, <1>6, <1>7

LEMMA AsSetsFacts ==
    ASSUME NEW list \in Seq(Deps)
    PROVE  /\ AsSets(list) \in Seq(SetDeps) /\ Len(AsSets(list)) = Len(list)
           /\ DOMAIN list = 1..Len(list) /\ Len(list) \in Nat
           /\ \A k \in 1..Len(list) : list[k] \in Deps /\ AsSets(list)[k] = AsSet(list[k])
<1> DEFINE a == AsSets(list)
<1>1. DOMAIN list = 1..Len(list) /\ Len(list) \in Nat
  BY LenProperties
<1>2. \A k \in 1..Len(list) : list[k] \in Deps
  BY ElementOfSeq
<1>3. a = [k \in 1..Len(list) |-> AsSet(list[k])]
  BY <1>1 DEF AsSets, AsSet
<1>4. a \in [1..Len(list) -> SetDeps]
  BY <1>2, <1>3, AsSetFacts
<1>5. a \in Seq(SetDeps) /\ DOMAIN a = 1..Len(list)
  BY <1>1, <1>4
<1>6. Len(a) = Len(list)
  <2> HIDE DEF a
  <2> QED
    BY <1>1, <1>5, LenProperties
<1> QED
  BY <1>1, <1>2, <1>3, <1>5, <1>6

\* To push a dependency is to push it with its set.
LEMMA AsSetsPush ==
    ASSUME NEW list \in Seq(Deps), NoDuplicates(list), NEW x \in Deps
    PROVE  AsSets(Push(list, x)) = Push(AsSets(list), AsSet(x))
<1> DEFINE a == AsSets(list)
           y == AsSet(x)
           n == Len(list)
<1>1. /\ a \in Seq(SetDeps) /\ Len(a) = n /\ DOMAIN a = 1..n /\ DOMAIN list = 1..n /\ n \in Nat
      /\ \A k \in 1..n : list[k] \in Deps /\ a[k] = AsSet(list[k])
  BY AsSetsFacts, LenProperties
<1>2. y \in SetDeps /\ \A k \in 1..n : a[k] = y <=> list[k] = x
  BY <1>1, AsSetFacts
<1> HIDE DEF a, y, n
<1>3. x \in Elements(list) <=> y \in Elements(a)
  BY <1>1, <1>2 DEF Elements
<1>4. CASE x \in Elements(list)
  <2> DEFINE m == CHOOSE i \in DOMAIN list : list[i] = x
             j == CHOOSE i \in DOMAIN a : a[i] = y
             p == Append(RemoveIndex(list, m), list[m])
             q == Append(RemoveIndex(a, m), a[m])
  <2>1. m \in DOMAIN list /\ list[m] = x
    BY <1>4 DEF Elements
  <2>2. j \in DOMAIN a /\ a[j] = y
    BY <1>3, <1>4 DEF Elements
  <2>3. j = m
    <3> HIDE DEF j, m
    <3> QED
      BY <1>1, <1>2, <2>1, <2>2 DEF NoDuplicates
  <2>4. Push(list, x) = Append(RemoveIndex(list, m), x)
    BY <1>4 DEF Push
  <2>5. Push(a, y) = Append(RemoveIndex(a, j), y)
    BY <1>3, <1>4 DEF Push
  <2> HIDE DEF m, j
  <2>6. Push(list, x) = p /\ Push(a, y) = q
    BY <1>1, <2>1, <2>2, <2>3, <2>4, <2>5
  <2>7. /\ p \in Seq(Deps) /\ Len(p) = n /\ DOMAIN p = 1..n
        /\ \A k \in 1..n : p[k] = IF k < m THEN list[k] ELSE IF k < n THEN list[k+1] ELSE list[m]
    BY <2>1, MovedToEnd DEF n
  <2>8. /\ q \in Seq(SetDeps) /\ Len(q) = n /\ DOMAIN q = 1..n
        /\ \A k \in 1..n : q[k] = IF k < m THEN a[k] ELSE IF k < n THEN a[k+1] ELSE a[m]
    <3>1. m \in DOMAIN a
      BY <1>1, <2>1
    <3> QED
      BY <1>1, <3>1, MovedToEnd
  <2> HIDE DEF p, q
  <2>9. \A k \in 1..n : q[k] = AsSet(p[k])
    <3> TAKE k \in 1..n
    <3>1. m \in 1..n /\ (k < n => k + 1 \in 1..n)
      BY <1>1, <2>1
    <3> QED
      BY <1>1, <2>7, <2>8, <3>1
  <2>10. AsSets(p) = q
    <3>1. AsSets(p) \in Seq(SetDeps) /\ Len(AsSets(p)) = n
          /\ \A k \in 1..n : AsSets(p)[k] = AsSet(p[k])
      BY <2>7, AsSetsFacts
    <3>2. \A k \in 1..n : AsSets(p)[k] = q[k]
      BY <2>9, <3>1
    <3> QED
      BY <2>8, <3>1, <3>2, SeqEqual
  <2> QED
    BY <2>6, <2>10 DEF a, y
<1>5. CASE x \notin Elements(list)
  <2> DEFINE s == IF n = Capacity THEN Tail(list) ELSE list
             t == IF n = Capacity THEN Tail(a) ELSE a
             p == Append(s, x)
             q == Append(t, y)
  <2>1. Push(list, x) = p /\ Push(a, y) = q
    BY <1>1, <1>3, <1>5 DEF Push, n
  <2>2. /\ s \in Seq(Deps) /\ t \in Seq(SetDeps) /\ Len(s) = Len(t) /\ Len(s) \in Nat
        /\ \A k \in 1..Len(s) : t[k] = AsSet(s[k])
    <3>1. CASE n # Capacity
      BY <1>1, <3>1 DEF n
    <3>2. CASE n = Capacity
      <4>1. list # <<>> /\ a # <<>>
        BY <1>1, <3>2, CapacityAssumption DEF n
      <4>2. /\ Tail(list) \in Seq(Deps) /\ Len(Tail(list)) = n - 1
            /\ \A k \in 1..(n - 1) : Tail(list)[k] = list[k + 1]
        BY <4>1, HeadTailProperties DEF n
      <4>3. /\ Tail(a) \in Seq(SetDeps) /\ Len(Tail(a)) = n - 1
            /\ \A k \in 1..(n - 1) : Tail(a)[k] = a[k + 1]
        BY <1>1, <4>1, HeadTailProperties
      <4>4. n - 1 \in Nat /\ \A k \in 1..(n - 1) : k + 1 \in 1..n
        BY <1>1, <3>2, CapacityAssumption
      <4> QED
        BY <1>1, <3>2, <4>2, <4>3, <4>4
    <3> QED
      BY <3>1, <3>2
  <2> HIDE DEF s, t
  <2>3. /\ p \in Seq(Deps) /\ q \in Seq(SetDeps) /\ Len(p) = Len(s) + 1 /\ Len(q) = Len(s) + 1
        /\ \A k \in 1..Len(s) : p[k] = s[k] /\ q[k] = t[k]
        /\ p[Len(s) + 1] = x /\ q[Len(s) + 1] = y
    BY <1>2, <2>2, AppendProperties
  <2> HIDE DEF p, q
  <2>4. \A k \in 1..Len(p) : q[k] = AsSet(p[k])
    <3> TAKE k \in 1..Len(p)
    <3>1. k \in 1..Len(s) \/ k = Len(s) + 1
      BY <2>2, <2>3
    <3> QED
      BY <2>2, <2>3, <3>1 DEF y
  <2>5. AsSets(p) = q
    <3>1. AsSets(p) \in Seq(SetDeps) /\ Len(AsSets(p)) = Len(p)
          /\ \A k \in 1..Len(p) : AsSets(p)[k] = AsSet(p[k])
      BY <2>3, AsSetsFacts
    <3>2. \A k \in 1..Len(p) : AsSets(p)[k] = q[k]
      BY <2>4, <3>1
    <3>3. Len(p) = Len(q)
      BY <2>3
    <3> QED
      BY <2>3, <3>1, <3>2, <3>3, SeqEqual
  <2> QED
    BY <2>1, <2>5 DEF a, y
<1> QED
  BY <1>4, <1>5

\* To insert a resource into the vector is to add it to the set.
LEMMA RenamedFacts ==
    ASSUME NEW d \in Deps, NEW c \in CondVars
    PROVE  Renamed(d, c) \in Deps /\ AsSet(Renamed(d, c)) = WithResource(AsSet(d), c)
<1>1. /\ d = [res |-> d.res, lockset |-> d.lockset] /\ d.res \in Named
      /\ d.lockset \in Seq(Named) /\ Increasing(d.lockset)
  BY DEF Deps, Sorted
<1>2. c \in Named /\ Named \subseteq Int
  BY LocksAreIntegers DEF Named
<1>3. /\ UniqueInsert(d.lockset, c) \in Seq(Named) /\ Increasing(UniqueInsert(d.lockset, c))
      /\ ToSet(UniqueInsert(d.lockset, c)) = ToSet(d.lockset) \cup {c}
  <2> DEFINE v == d.lockset
  <2>1. v \in Seq(Named) /\ Increasing(v)
    BY <1>1
  <2> HIDE DEF v
  <2>2. /\ UniqueInsert(v, c) \in Seq(Named) /\ Increasing(UniqueInsert(v, c))
        /\ ToSet(UniqueInsert(v, c)) = ToSet(v) \cup {c}
    <3> DEFINE S == Named
    <3>1. S \subseteq Int /\ v \in Seq(S) /\ c \in S
      BY <1>2, <2>1
    <3> HIDE DEF S
    <3>2. Increasing(UniqueInsert(v, c))
      BY <2>1, <3>1, UniqueInsertFacts
    <3>3. UniqueInsert(v, c) \in Seq(S)
      BY <2>1, <3>1, UniqueInsertFacts
    <3>4. ToSet(UniqueInsert(v, c)) = ToSet(v) \cup {c}
      <4>1. Added(UniqueInsert(v, c), v, c)
        BY <2>1, <3>1, UniqueInsertFacts
      <4> QED
        BY <4>1 DEF Added
    <3> QED
      BY <3>2, <3>3, <3>4 DEF S
  <2> QED
    BY <2>2 DEF v
<1>4. Renamed(d, c) = [res |-> d.res, lockset |-> UniqueInsert(d.lockset, c)]
  BY <1>1 DEF Renamed
<1>5. AsSet(d) = [res |-> d.res, lockset |-> ToSet(d.lockset)]
  BY <1>1 DEF AsSet
<1>6. AsSet(Renamed(d, c)) = [res |-> d.res, lockset |-> ToSet(UniqueInsert(d.lockset, c))]
  BY <1>4 DEF AsSet
<1>7. WithResource(AsSet(d), c) = [res |-> d.res, lockset |-> ToSet(d.lockset) \cup {c}]
  <2> DEFINE a == AsSet(d)
  <2>1. a \in SetDeps /\ a.res = d.res /\ a.lockset = ToSet(d.lockset)
    BY AsSetFacts
  <2> HIDE DEF a
  <2>2. WithResource(a, c) = [res |-> a.res, lockset |-> a.lockset \cup {c}]
    BY <2>1 DEF WithResource, SetDeps
  <2> QED
    BY <2>1, <2>2 DEF a
<1>8. Renamed(d, c) \in Deps
  BY <1>1, <1>3, <1>4 DEF Deps, Sorted
<1> QED
  BY <1>3, <1>6, <1>7, <1>8

-----------------------------------------------------------------------------
(* The loop of notify_event, over slots and over the list they stand for.  *)

NotifyLoop(list, c) ==
    LET renamed(d) == [d EXCEPT !.lockset = UniqueInsert(@, c)]
        loop[i \in 0..Len(list)] ==
            IF i = 0 THEN EmptyLRU ELSE CircularPush(loop[i-1], renamed(list[i]))
    IN loop

PushLoop(list, c) ==
    LET loop[i \in 0..Len(list)] ==
            IF i = 0 THEN <<>> ELSE Push(loop[i-1], WithResource(list[i], c))
    IN loop

\* The slots that stand for some list.
Proper == {c \in LRU(Deps) : \E list : Represents(c, Deps, list)}

LEMMA ProperFacts ==
    /\ EmptyLRU \in Proper
    /\ \A c \in Proper, x \in Deps : CircularPush(c, x) \in Proper
<1>1. EmptyLRU \in Proper
  BY EmptyRepresents DEF Proper, Represents
<1>2. ASSUME NEW c \in Proper, NEW x \in Deps
      PROVE  CircularPush(c, x) \in Proper
  <2>1. PICK list : Represents(c, Deps, list)
    BY DEF Proper
  <2>2. Represents(CircularPush(c, x), Deps, Push(list, x))
    BY <2>1, PushRepresents
  <2> QED
    BY <2>2 DEF Proper, Represents
<1> QED
  BY <1>1, <1>2

LEMMA NotifyLoopFacts ==
    ASSUME NEW list \in Seq(Deps), NEW c \in CondVars
    PROVE  LET g == NotifyLoop(list, c)
           IN /\ g[0] = EmptyLRU
              /\ \A i \in 1..Len(list) : g[i] = CircularPush(g[i-1], Renamed(list[i], c))
              /\ \A i \in 0..Len(list) : g[i] \in Proper
<1> DEFINE n == Len(list)
           F == [x \in (1..n) \X Proper |-> CircularPush(x[2], Renamed(list[x[1]], c))]
           Rec(f) == [i \in 0..n |-> IF i = 0 THEN EmptyLRU
                                     ELSE CircularPush(f[i-1], Renamed(list[i], c))]
           g == CHOOSE f : f = Rec(f)
<1>1. NotifyLoop(list, c) = g
  BY DEF NotifyLoop, Renamed
<1>2. n \in Nat /\ \A i \in 1..n : Renamed(list[i], c) \in Deps
  <2>1. n \in Nat /\ \A i \in 1..n : list[i] \in Deps
    BY AsSetsFacts
  <2> QED
    BY <2>1, RenamedFacts
<1>3. \A i \in 1..n, x \in Proper : F[<<i, x>>] = CircularPush(x, Renamed(list[i], c))
  OBVIOUS
<1>4. \A i \in 1..n, x \in Proper : F[<<i, x>>] \in Proper
  BY <1>2, <1>3, ProperFacts
<1> HIDE DEF F, n
<1>5. PICK f : Iterates(f, n, Proper, EmptyLRU, F)
  BY <1>2, <1>4, ProperFacts, IterationExists
<1>6. f = [i \in 0..n |-> IF i = 0 THEN EmptyLRU ELSE F[<<i, f[i-1]>>]]
  BY <1>2, <1>5, IterationOf
<1>7. \A i \in 0..n : i # 0 => F[<<i, f[i-1]>>] = CircularPush(f[i-1], Renamed(list[i], c))
  <2>1. \A i \in 0..n : i # 0 => i - 1 \in 0..n /\ i \in 1..n
    BY <1>2
  <2> QED
    BY <1>3, <1>5, <2>1 DEF Iterates
<1>8. f = Rec(f)
  BY <1>6, <1>7
<1>9. g = Rec(g)
  BY <1>8
<1> DEFINE G == {i \in 0..n : g[i] \in Proper}
<1>10. \A i \in 0..n : g[i] = IF i = 0 THEN EmptyLRU
                              ELSE CircularPush(g[i-1], Renamed(list[i], c))
  BY <1>9
<1> HIDE DEF g, Rec
<1>11. \A i \in 0..n : i \in G
  <2>1. 0 \in G
    BY <1>2, <1>10, ProperFacts
  <2>2. \A i \in 1..n : i - 1 \in G => i \in G
    BY <1>2, <1>10, ProperFacts
  <2> HIDE DEF G
  <2> QED
    BY <1>2, <2>1, <2>2, InductionUpTo
<1>12. g[0] = EmptyLRU /\ \A i \in 1..n : g[i] = CircularPush(g[i-1], Renamed(list[i], c))
  BY <1>2, <1>10
<1> QED
  BY <1>1, <1>11, <1>12 DEF n

LEMMA PushLoopFacts ==
    ASSUME NEW list \in Seq(SetDeps), NEW c \in CondVars
    PROVE  LET g == PushLoop(list, c)
           IN /\ g[0] = <<>>
              /\ \A i \in 1..Len(list) : g[i] = Push(g[i-1], WithResource(list[i], c))
<1> DEFINE n == Len(list)
           S == Seq(SetDeps)
           F == [x \in (1..n) \X S |-> Push(x[2], WithResource(list[x[1]], c))]
           Rec(f) == [i \in 0..n |-> IF i = 0 THEN <<>>
                                     ELSE Push(f[i-1], WithResource(list[i], c))]
           g == CHOOSE f : f = Rec(f)
<1>1. PushLoop(list, c) = g
  BY DEF PushLoop
<1>2. n \in Nat /\ \A i \in 1..n : WithResource(list[i], c) \in SetDeps
  <2>1. n \in Nat /\ DOMAIN list = 1..n
    BY LenProperties
  <2>2. \A i \in 1..n : list[i] \in SetDeps
    BY <2>1, ElementOfSeq
  <2>3. c \in Named
    BY DEF Named
  <2>4. ASSUME NEW d \in SetDeps
        PROVE  WithResource(d, c) \in SetDeps
    BY <2>3 DEF WithResource, SetDeps
  <2> QED
    BY <2>1, <2>2, <2>4
<1>3. \A i \in 1..n, x \in S : F[<<i, x>>] = Push(x, WithResource(list[i], c))
  OBVIOUS
<1>4. \A i \in 1..n, x \in S : F[<<i, x>>] \in S
  BY <1>2, <1>3, PushType
<1>5. <<>> \in S
  OBVIOUS
<1> HIDE DEF F, n, S
<1>6. PICK f : Iterates(f, n, S, <<>>, F)
  BY <1>2, <1>4, <1>5, IterationExists
<1>7. f = [i \in 0..n |-> IF i = 0 THEN <<>> ELSE F[<<i, f[i-1]>>]]
  BY <1>2, <1>6, IterationOf
<1>8. \A i \in 0..n : i # 0 => F[<<i, f[i-1]>>] = Push(f[i-1], WithResource(list[i], c))
  <2>1. \A i \in 0..n : i # 0 => i - 1 \in 0..n /\ i \in 1..n
    BY <1>2
  <2> QED
    BY <1>3, <1>6, <2>1 DEF Iterates
<1>9. f = Rec(f)
  BY <1>7, <1>8
<1>10. g = Rec(g)
  BY <1>9
<1>11. \A i \in 0..n : g[i] = IF i = 0 THEN <<>> ELSE Push(g[i-1], WithResource(list[i], c))
  BY <1>10
<1> HIDE DEF g, Rec
<1>12. g[0] = <<>> /\ \A i \in 1..n : g[i] = Push(g[i-1], WithResource(list[i], c))
  BY <1>2, <1>11
<1> QED
  BY <1>1, <1>12 DEF n

\* After each round the slots stand for the list that the pushes make.
LEMMA LoopsAgree ==
    ASSUME NEW list \in Seq(Deps), NEW c \in CondVars
    PROVE  \A i \in 0..Len(list) :
              AsSets(ListOf(NotifyLoop(list, c)[i])) = PushLoop(AsSets(list), c)[i]
<1> DEFINE n == Len(list)
           a == AsSets(list)
           g == NotifyLoop(list, c)
           h == PushLoop(a, c)
           G == {i \in 0..n : AsSets(ListOf(g[i])) = h[i]}
<1>1. /\ n \in Nat /\ a \in Seq(SetDeps) /\ Len(a) = n
      /\ \A i \in 1..n : list[i] \in Deps /\ a[i] = AsSet(list[i])
  BY AsSetsFacts
<1>2. /\ g[0] = EmptyLRU
      /\ \A i \in 1..n : g[i] = CircularPush(g[i-1], Renamed(list[i], c))
      /\ \A i \in 0..n : g[i] \in Proper
  BY NotifyLoopFacts
<1> HIDE DEF a
<1>3. h[0] = <<>> /\ \A i \in 1..n : h[i] = Push(h[i-1], WithResource(a[i], c))
  BY <1>1, PushLoopFacts
<1> HIDE DEF g, h, n
<1>4. 0 \in G
  <2>1. ListOf(EmptyLRU) = <<>>
    BY EmptyRepresents, RepresentsFacts
  <2>2. AsSets(<<>>) = <<>>
    BY DEF AsSets
  <2> QED
    BY <1>1, <1>2, <1>3, <2>1, <2>2
<1>5. ASSUME NEW i \in 1..n, i - 1 \in G
      PROVE  i \in G
  <2>1. i - 1 \in 0..n /\ i \in 0..n
    BY <1>1
  <2>2. PICK l : Represents(g[i-1], Deps, l)
    BY <1>2, <2>1 DEF Proper
  <2>3. ListOf(g[i-1]) = l /\ NoDuplicates(l)
    BY <2>2, RepresentsFacts
  <2>4. l \in Seq(Deps)
    BY <2>2 DEF Represents
  <2> DEFINE x == Renamed(list[i], c)
  <2>5. x \in Deps /\ AsSet(x) = WithResource(a[i], c)
    BY <1>1, RenamedFacts
  <2>6. g[i] = CircularPush(g[i-1], x)
    BY <1>2
  <2> HIDE DEF x
  <2>7. ListOf(g[i]) = Push(l, x)
    <3>1. Represents(g[i], Deps, Push(l, x))
      BY <2>2, <2>5, <2>6, PushRepresents
    <3> QED
      BY <3>1, RepresentsFacts
  <2>8. AsSets(Push(l, x)) = Push(AsSets(l), AsSet(x))
    BY <2>3, <2>4, <2>5, AsSetsPush
  <2>9. AsSets(l) = h[i-1]
    BY <1>5, <2>3
  <2>10. h[i] = Push(h[i-1], WithResource(a[i], c))
    BY <1>3
  <2>11. AsSets(ListOf(g[i])) = h[i]
    BY <2>5, <2>7, <2>8, <2>9, <2>10
  <2> QED
    BY <2>1, <2>11
<1>6. \A i \in 0..n : i \in G
  <2> HIDE DEF G
  <2> QED
    BY <1>1, <1>4, <1>5, InductionUpTo
<1> QED
  BY <1>6 DEF a, g, h, n

-----------------------------------------------------------------------------
(* The invariant, and what each step does to the counts and the list.      *)

\* The entries are sorted and each lock of them is held; the slots stand for a list of
\* distinct dependencies, each with a sorted vector.
InfoInv == EntriesOK(entries) /\ recent \in Proper

Counts == [l \in Locks |-> CountAt(entries, l)]
RecentSets == AsSets(ListOf(recent))

LEMMA InitFacts ==
    ASSUME Init
    PROVE  InfoInv /\ Counts = [l \in Locks |-> 0] /\ RecentSets = <<>>
<1>1. entries = <<>> /\ recent = EmptyLRU
  BY DEF Init
<1>2. EntriesOK(<<>>)
  <2>1. Resources(<<>>) = <<>>
    BY DEF Resources
  <2>2. Increasing(<<>>) /\ <<>> \in Seq(Entry)
    BY DEF Increasing
  <2> QED
    BY <2>1, <2>2 DEF EntriesOK
<1>3. \A l \in Locks : CountAt(<<>>, l) = 0
  BY <1>2, CountsOf
<1>4. ListOf(EmptyLRU) = <<>>
  BY EmptyRepresents, RepresentsFacts
<1>5. AsSets(<<>>) = <<>>
  BY DEF AsSets
<1> QED
  BY <1>1, <1>2, <1>3, <1>4, <1>5, ProperFacts DEF InfoInv, Counts, RecentSets

LEMMA AcquireFacts ==
    ASSUME InfoInv, NEW l \in Locks, Acquire(l)
    PROVE  InfoInv' /\ Counts' = [Counts EXCEPT ![l] = @ + 1] /\ RecentSets' = RecentSets
<1> DEFINE i == IndexOf(l)
           n == CountAt(entries, l)
<1>1. EntriesOK(entries) /\ recent' = recent /\ n \in Nat
  BY CountsOf DEF InfoInv, Acquire
<1>2. i = LowerBound(Resources(entries), l) /\ (Held(l) <=> HasAt(Resources(entries), i, l))
  BY DEF IndexOf, Held
<1>3. entries' = IF Held(l) THEN [entries EXCEPT ![i].count = @ + 1]
                 ELSE InsertAt(entries, i, [res |-> l, count |-> 1])
  BY DEF Acquire
<1> HIDE DEF i, n
<1>4. EntriesOK(entries') /\ \A m \in Locks : CountAt(entries', m) = IF m = l THEN n + 1
                                                                     ELSE CountAt(entries, m)
  <2>1. CASE Held(l)
    <3>1. i \in 1..Len(entries) /\ entries[i].res = l
      BY <1>1, <1>2, <2>1, CountFacts
    <3>2. n = entries[i].count
      BY <1>1, <3>1, CountsOf DEF n
    <3>3. entries' = [entries EXCEPT ![i].count = n + 1]
      BY <1>3, <2>1, <3>2
    <3>4. n + 1 \in Nat \ {0}
      BY <1>1
    <3> DEFINE k == n + 1
    <3>5. entries' = WithCount(entries, i, k) /\ k \in Nat \ {0}
      BY <3>3, <3>4 DEF WithCount
    <3> HIDE DEF k
    <3>6. /\ EntriesOK(entries')
          /\ \A m \in Locks : CountAt(entries', m) = IF m = entries[i].res THEN k ELSE CountAt(entries, m)
      BY <1>1, <3>1, <3>5, IncrementFacts
    <3> QED
      BY <3>1, <3>6 DEF k
  <2>2. CASE ~Held(l)
    <3>1. n = 0
      <4>1. ~(n > 0)
        BY <1>1, <1>2, <2>2, CountFacts DEF n
      <4> QED
        BY <1>1, <4>1
    <3>2. entries' = InsertAt(entries, i, [res |-> l, count |-> 1])
      BY <1>3, <2>2
    <3>3. /\ EntriesOK(entries')
          /\ \A m \in Locks : CountAt(entries', m) = IF m = l THEN 1 ELSE CountAt(entries, m)
      BY <1>1, <1>2, <2>2, <3>2, InsertedFacts
    <3> QED
      BY <3>1, <3>3
  <2> QED
    BY <2>1, <2>2
<1>5. Counts' = [Counts EXCEPT ![l] = @ + 1]
  BY <1>4 DEF Counts, n
<1> QED
  BY <1>1, <1>4, <1>5 DEF InfoInv, RecentSets

LEMMA ReleaseFacts ==
    ASSUME InfoInv, NEW l \in Locks, Release(l)
    PROVE  /\ InfoInv' /\ Counts[l] > 0
           /\ Counts' = [Counts EXCEPT ![l] = @ - 1] /\ RecentSets' = RecentSets
<1> DEFINE i == IndexOf(l)
           n == CountAt(entries, l)
<1>1. EntriesOK(entries) /\ recent' = recent /\ Held(l)
  BY DEF InfoInv, Release
<1>2. i = LowerBound(Resources(entries), l) /\ HasAt(Resources(entries), i, l)
  BY <1>1 DEF IndexOf, Held
<1>3. entries' = IF entries[i].count = 1 THEN RemoveAt(entries, i)
                 ELSE [entries EXCEPT ![i].count = @ - 1]
  BY DEF Release
<1> HIDE DEF i
<1>4. n \in Nat /\ n > 0 /\ i \in 1..Len(entries) /\ entries[i].res = l
  BY <1>1, <1>2, CountFacts
<1>5. n = entries[i].count
  BY <1>1, <1>4, CountsOf
<1> HIDE DEF n
<1>6. EntriesOK(entries') /\ \A m \in Locks : CountAt(entries', m) = IF m = l THEN n - 1
                                                                     ELSE CountAt(entries, m)
  <2>1. CASE n = 1
    <3>1. entries' = RemoveAt(entries, i)
      BY <1>3, <1>5, <2>1
    <3>2. /\ EntriesOK(entries')
          /\ \A m \in Locks : CountAt(entries', m) = IF m = l THEN 0 ELSE CountAt(entries, m)
      BY <1>1, <1>4, <3>1, RemovedFacts
    <3> QED
      BY <2>1, <3>2
  <2>2. CASE n # 1
    <3>1. entries' = [entries EXCEPT ![i].count = n - 1]
      BY <1>3, <1>5, <2>2
    <3>2. n - 1 \in Nat \ {0}
      BY <1>4, <2>2
    <3> DEFINE k == n - 1
    <3>5. entries' = WithCount(entries, i, k) /\ k \in Nat \ {0}
      BY <3>1, <3>2 DEF WithCount
    <3> HIDE DEF k
    <3>6. /\ EntriesOK(entries')
          /\ \A m \in Locks : CountAt(entries', m) = IF m = entries[i].res THEN k ELSE CountAt(entries, m)
      BY <1>1, <1>4, <3>5, IncrementFacts
    <3> QED
      BY <1>4, <3>6 DEF k
  <2> QED
    BY <2>1, <2>2
<1>7. Counts' = [Counts EXCEPT ![l] = @ - 1] /\ Counts[l] > 0
  BY <1>4, <1>6 DEF Counts, n
<1> QED
  BY <1>1, <1>6, <1>7 DEF InfoInv, RecentSets

LEMMA DependFacts ==
    ASSUME InfoInv, NEW r \in Named, Depend(r)
    PROVE  /\ InfoInv' /\ Counts' = Counts
           /\ RecentSets' = Push(RecentSets, [res |-> r, lockset |-> {l \in Locks : Counts[l] > 0}])
<1> DEFINE x == [res |-> r, lockset |-> Resources(entries)]
           y == [res |-> r, lockset |-> {l \in Locks : Counts[l] > 0}]
<1>1. EntriesOK(entries) /\ entries' = entries /\ recent' = CircularPush(recent, x)
  BY DEF InfoInv, Depend, ToLockset
<1>2. x \in Deps
  <2>1. Resources(entries) \in Seq(Locks) /\ Increasing(Resources(entries))
    BY <1>1, ResourcesType DEF EntriesOK
  <2>2. Resources(entries) \in Seq(Named)
    BY <2>1 DEF Named
  <2> QED
    BY <2>1, <2>2 DEF Deps, Sorted
<1>3. AsSet(x) = y
  <2>1. ToSet(Resources(entries)) = {l \in Locks : CountAt(entries, l) > 0}
    BY <1>1, LocksetFacts
  <2>2. \A l \in Locks : Counts[l] = CountAt(entries, l)
    BY DEF Counts
  <2>3. ToSet(Resources(entries)) = {l \in Locks : Counts[l] > 0}
    BY <2>1, <2>2
  <2>4. AsSet(x) = [res |-> r, lockset |-> ToSet(Resources(entries))]
    BY DEF AsSet
  <2> QED
    BY <2>3, <2>4
<1> HIDE DEF x, y
<1>4. PICK list : Represents(recent, Deps, list)
  BY DEF InfoInv, Proper
<1>5. ListOf(recent) = list /\ NoDuplicates(list) /\ list \in Seq(Deps)
  BY <1>4, RepresentsFacts DEF Represents
<1>6. Represents(recent', Deps, Push(list, x))
  BY <1>1, <1>2, <1>4, PushRepresents
<1>7. recent' \in Proper
  BY <1>6 DEF Proper, Represents
<1>8. ListOf(recent') = Push(list, x)
  BY <1>6, RepresentsFacts
<1>9. AsSets(Push(list, x)) = Push(AsSets(list), AsSet(x))
  BY <1>2, <1>5, AsSetsPush
<1>10. RecentSets' = Push(RecentSets, y)
  BY <1>3, <1>5, <1>8, <1>9 DEF RecentSets
<1> QED
  BY <1>1, <1>7, <1>10 DEF InfoInv, Counts, y

LEMMA NotifyFacts ==
    ASSUME InfoInv, NEW c \in CondVars, Notify(c)
    PROVE  /\ InfoInv' /\ Counts' = Counts
           /\ RecentSets' = PushLoop(RecentSets, c)[Len(RecentSets)]
<1> DEFINE list == ListOf(recent)
           n == Len(list)
<1>1. EntriesOK(entries) /\ entries' = entries
  BY DEF InfoInv, Notify
<1>2. recent' = NotifyLoop(list, c)[n]
  BY DEF Notify, NotifyLoop
<1>3. PICK l : Represents(recent, Deps, l)
  BY DEF InfoInv, Proper
<1>4. list \in Seq(Deps)
  BY <1>3, RepresentsFacts DEF Represents
<1> HIDE DEF list
<1>5. n \in Nat /\ n \in 0..n /\ Len(AsSets(list)) = n
  <2>1. n \in Nat /\ Len(AsSets(list)) = n
    BY <1>4, AsSetsFacts
  <2> QED
    BY <2>1
<1>6. recent' \in Proper
  BY <1>2, <1>4, <1>5, NotifyLoopFacts
<1>7. AsSets(ListOf(recent')) = PushLoop(AsSets(list), c)[n]
  BY <1>2, <1>4, <1>5, LoopsAgree
<1> QED
  BY <1>1, <1>5, <1>6, <1>7 DEF InfoInv, Counts, RecentSets, list

-----------------------------------------------------------------------------
(* The theorems.                                                           *)

LEMMA InfoStep ==
    ASSUME InfoInv, [Next]_vars
    PROVE  InfoInv'
<1>1. ASSUME NEW l \in Locks, Acquire(l)
      PROVE  InfoInv'
  BY <1>1, AcquireFacts
<1>2. ASSUME NEW l \in Locks, Release(l)
      PROVE  InfoInv'
  BY <1>2, ReleaseFacts
<1>3. ASSUME NEW r \in Named, Depend(r)
      PROVE  InfoInv'
  BY <1>3, DependFacts
<1>4. ASSUME NEW c \in CondVars, Notify(c)
      PROVE  InfoInv'
  BY <1>4, NotifyFacts
<1>5. CASE UNCHANGED vars
  BY <1>5 DEF vars, InfoInv
<1> QED
  BY <1>1, <1>2, <1>3, <1>4, <1>5 DEF Next, Named

\* Whatever a thread acquires, releases, depends on and notifies, its entries stay sorted by
\* lock with positive counts, and the slots of its recent list stand for a list of distinct
\* dependencies with sorted locksets.
THEOREM InfoInvariant == Spec => []InfoInv
<1>1. Init => InfoInv
  BY InitFacts
<1>2. InfoInv /\ [Next]_vars => InfoInv'
  BY InfoStep
<1> QED
  BY <1>1, <1>2, PTL DEF Spec

\* The recent list of a thread reads the same from both ends, no slot is lost or in two
\* chains, and the map knows each value by its slot, for any capacity from two on.
THEOREM LinksAlwaysConsistent == Spec => []LinksConsistent
<1>1. InfoInv => LinksConsistent
  BY RepresentsFacts DEF InfoInv, Proper, LinksConsistent
<1> QED
  BY <1>1, InfoInvariant, PTL

LEMMA MapFacts ==
    /\ [l \in Locks |-> IF Held(l) THEN entries[IndexOf(l)].count ELSE 0] = Counts
    /\ [k \in DOMAIN ListOf(recent) |-> [ListOf(recent)[k] EXCEPT !.lockset = ToSet(@)]] = RecentSets
<1>1. \A l \in Locks : (IF Held(l) THEN entries[IndexOf(l)].count ELSE 0) = CountAt(entries, l)
  BY DEF Held, IndexOf, CountAt
<1>2. [l \in Locks |-> IF Held(l) THEN entries[IndexOf(l)].count ELSE 0] = Counts
  BY <1>1 DEF Counts
<1>3. [k \in DOMAIN ListOf(recent) |-> [ListOf(recent)[k] EXCEPT !.lockset = ToSet(@)]] = RecentSets
  BY DEF RecentSets, AsSets
<1> QED
  BY <1>2, <1>3

LEMMA MapFactsNext ==
    /\ [l \in Locks |-> IF Held(l) THEN entries[IndexOf(l)].count ELSE 0]' = Counts'
    /\ [k \in DOMAIN ListOf(recent) |-> [ListOf(recent)[k] EXCEPT !.lockset = ToSet(@)]]' = RecentSets'
<1>1. \A l \in Locks : (IF Held(l) THEN entries[IndexOf(l)].count ELSE 0)' = CountAt(entries', l)
  BY DEF Held, IndexOf, CountAt
<1>2. [l \in Locks |-> IF Held(l) THEN entries[IndexOf(l)].count ELSE 0]' = Counts'
  BY <1>1 DEF Counts
<1>3. [k \in DOMAIN ListOf(recent) |-> [ListOf(recent)[k] EXCEPT !.lockset = ToSet(@)]]' = RecentSets'
  BY DEF RecentSets, AsSets
<1> QED
  BY <1>2, <1>3

\* Every step of the sorted vectors and the slots is a step of the counts and the list.
LEMMA ThreadStep ==
    ASSUME InfoInv, [Next]_vars
    PROVE  [Thread!Next]_(Thread!vars)
<1>1. ASSUME NEW l \in Locks, Acquire(l)
      PROVE  Thread!Acquire(l)
  <2>1. Counts' = [Counts EXCEPT ![l] = @ + 1] /\ RecentSets' = RecentSets /\ call' = <<"acquire", l>>
    BY <1>1, AcquireFacts DEF Acquire
  <2> QED
    BY <2>1, MapFacts, MapFactsNext DEF Thread!Acquire
<1>2. ASSUME NEW l \in Locks, Release(l)
      PROVE  Thread!Release(l)
  <2>1. /\ Counts[l] > 0 /\ Counts' = [Counts EXCEPT ![l] = @ - 1]
        /\ RecentSets' = RecentSets /\ call' = <<"release", l>>
    BY <1>2, ReleaseFacts DEF Release
  <2> QED
    BY <2>1, MapFacts, MapFactsNext DEF Thread!Release
<1>3. ASSUME NEW r \in Named, Depend(r)
      PROVE  Thread!Depend(r)
  <2>1. /\ Counts' = Counts /\ call' = <<"depend", r>>
        /\ RecentSets' = Push(RecentSets, [res |-> r, lockset |-> {l \in Locks : Counts[l] > 0}])
    BY <1>3, DependFacts DEF Depend
  <2>2. Thread!Push(RecentSets, [res |-> r, lockset |-> {l \in Locks : Counts[l] > 0}])
        = Push(RecentSets, [res |-> r, lockset |-> {l \in Locks : Counts[l] > 0}])
    BY DEF Push, Thread!Push, Elements, Thread!Elements, RemoveIndex, Thread!RemoveIndex
  <2> QED
    BY <2>1, <2>2, MapFacts, MapFactsNext DEF Thread!Depend, Thread!Lockset
<1>4. ASSUME NEW c \in CondVars, Notify(c)
      PROVE  Thread!Notify(c)
  <2>1. /\ Counts' = Counts /\ call' = <<"notify", c>>
        /\ RecentSets' = PushLoop(RecentSets, c)[Len(RecentSets)]
    BY <1>4, NotifyFacts DEF Notify
  <2> DEFINE R == [k \in DOMAIN ListOf(recent) |-> [ListOf(recent)[k] EXCEPT !.lockset = ToSet(@)]]
  <2>2. R' = PushLoop(R, c)[Len(R)]
    BY <2>1, MapFacts, MapFactsNext
  <2>3. [l \in Locks |-> IF Held(l) THEN entries[IndexOf(l)].count ELSE 0]' =
        [l \in Locks |-> IF Held(l) THEN entries[IndexOf(l)].count ELSE 0]
    BY <2>1, MapFacts, MapFactsNext
  <2> QED
    BY <2>1, <2>2, <2>3
       DEF Thread!Notify, PushLoop, Push, Thread!Push, Elements, Thread!Elements, RemoveIndex,
           Thread!RemoveIndex, WithResource, Thread!WithResource
<1>5. ASSUME UNCHANGED vars
      PROVE  UNCHANGED Thread!vars
  <2>1. Counts' = Counts /\ RecentSets' = RecentSets /\ call' = call
    BY <1>5 DEF vars, Counts, RecentSets
  <2> QED
    BY <2>1, MapFacts, MapFactsNext DEF Thread!vars
<1> QED
  BY <1>1, <1>2, <1>3, <1>4, <1>5 DEF Next, Named, Thread!Next

\* The slots, indexes and sorted vectors implement the counts and the list of ThreadState,
\* for every set of locks and every capacity from two on.
THEOREM ThreadStateImplemented == Spec => ImplementsThreadState
<1>1. Init => Thread!Init
  <2>1. Init => Counts = [l \in Locks |-> 0] /\ RecentSets = <<>> /\ call = <<"none", 0>>
    BY InitFacts DEF Init
  <2> QED
    BY <2>1, MapFacts DEF Thread!Init
<1>2. InfoInv /\ [Next]_vars => [Thread!Next]_(Thread!vars)
  BY ThreadStep
<1> QED
  BY <1>1, <1>2, InfoInvariant, PTL DEF Spec, ImplementsThreadState, Thread!Spec
=============================================================================
