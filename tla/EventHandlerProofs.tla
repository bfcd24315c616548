------------------------- MODULE EventHandlerProofs -------------------------
(***************************************************************************)
(* What holds of the event handler for any number of threads, locks and    *)
(* source locations and any trace.                                         *)
(***************************************************************************)
EXTENDS EventHandler, RecentListProofs

-----------------------------------------------------------------------------
(* The operators on the dependency index: they keep its type, they keep    *)
(* nothing but the events that were there and the one they are given, and  *)
(* they leave no reference to a dependency that is gone.                   *)


\* What the assumptions on the constants say of locks and condition variables.
LEMMA ConstantTypes ==
    /\ \A l \in Locks : l \in Resources /\ Associated(l) \in CondVars
    /\ \A c \in CondVars : c \in Resources
    /\ NoEvent \in Event
    /\ EmptyClock \in Clock
  BY DEF Resources, CondVars, NoEvent, Event, EmptyClock, Clock

\* A dependency stays one when its lockset takes the condition variable (update_dep).
LEMMA WithResourceType ==
    ASSUME NEW d \in Dependency, NEW r \in Resources
    PROVE  /\ WithResource(d, r) \in Dependency
           /\ WithResource(d, r).tid = d.tid
           /\ WithResource(d, r).lockset = d.lockset \cup {r}
           /\ r \in d.lockset => WithResource(d, r) = d
           /\ r \notin d.lockset => WithResource(d, r) # d
<1>1. WithResource(d, r) = [tid |-> d.tid, res |-> d.res, lockset |-> d.lockset \cup {r}]
  BY DEF WithResource, Dependency
<1>2. d = [tid |-> d.tid, res |-> d.res, lockset |-> d.lockset]
  BY DEF Dependency
<1>3. d.tid \in Threads /\ d.res \in Resources /\ d.lockset \in SUBSET Resources
  BY DEF Dependency
<1>4. d.lockset \cup {r} \in SUBSET Resources
  BY <1>3
<1>5. WithResource(d, r) \in Dependency
  BY <1>1, <1>3, <1>4 DEF Dependency
<1>6. r \in d.lockset => d.lockset \cup {r} = d.lockset
  OBVIOUS
<1> QED
  BY <1>1, <1>2, <1>5, <1>6

\* swap_and_pop yields a sequence again.
LEMMA SwapAndPopType ==
    ASSUME NEW S, NEW s \in Seq(S), NEW x
    PROVE  SwapAndPop(s, x) \in Seq(S)
<1>1. DOMAIN s = 1..Len(s) /\ Len(s) \in Nat /\ \A k \in 1..Len(s) : s[k] \in S
  BY LenProperties, ElementOfSeq
<1>2. CASE x \notin Elements(s)
  BY <1>2 DEF SwapAndPop
<1>3. CASE x \in Elements(s)
  <2> DEFINE i == CHOOSE j \in DOMAIN s : s[j] = x /\ \A k \in 1..(j-1) : s[k] # x
             w == [s EXCEPT ![i] = s[Len(s)]]
  <2> HIDE DEF i
  <2>1. Len(s) \in 1..Len(s) /\ s \in [1..Len(s) -> S]
    BY <1>1, <1>3 DEF Elements
  <2>2. w \in Seq(S) /\ Len(w) = Len(s)
    <3>1. w \in [1..Len(s) -> S]
      BY <1>1, <2>1
    <3> QED
      BY <1>1, <3>1, SeqDef, LenProperties
  <2>3. DOMAIN w = 1..Len(s) /\ \A k \in 1..(Len(s) - 1) : w[k] \in S
    BY <1>1, <2>2, LenProperties, ElementOfSeq
  <2> HIDE DEF w
  <2>4. SubSeq(w, 1, Len(s) - 1) \in Seq(S)
    BY <1>1, <2>3, SubSeqProperties
  <2> QED
    BY <1>3, <2>4 DEF SwapAndPop, i, w
<1> QED
  BY <1>2, <1>3

\* The swap and pop takes one element out and keeps the others.
LEMMA SwapAndPopFacts ==
    ASSUME NEW S, NEW s \in Seq(S), NEW x, NoDuplicates(s)
    PROVE  /\ SwapAndPop(s, x) \in Seq(S)
           /\ Elements(SwapAndPop(s, x)) = Elements(s) \ {x}
           /\ NoDuplicates(SwapAndPop(s, x))
<1>1. DOMAIN s = 1..Len(s) /\ Len(s) \in Nat /\ \A k \in 1..Len(s) : s[k] \in S
  BY LenProperties, ElementOfSeq
<1>2. CASE x \notin Elements(s)
  BY <1>2 DEF SwapAndPop
<1>3. CASE x \in Elements(s)
  <2> DEFINE i == CHOOSE j \in DOMAIN s : s[j] = x /\ \A k \in 1..(j-1) : s[k] # x
             w == [s EXCEPT ![i] = s[Len(s)]]
             p == SubSeq(w, 1, Len(s) - 1)
  <2>1. i \in DOMAIN s /\ s[i] = x
    <3>1. PICK j \in DOMAIN s : s[j] = x
      BY <1>3 DEF Elements
    <3>2. \A k \in 1..(j-1) : k \in DOMAIN s /\ k # j
      BY <1>1
    <3>3. \A k \in 1..(j-1) : s[k] # x
      BY <3>1, <3>2 DEF NoDuplicates
    <3> QED
      BY <3>1, <3>3
  <2> HIDE DEF i
  <2>2. Len(s) \in DOMAIN s /\ i \in 1..Len(s)
    BY <1>1, <2>1
  <2>3. /\ w \in Seq(S)
        /\ Len(w) = Len(s)
        /\ \A k \in 1..Len(s) : w[k] = IF k = i THEN s[Len(s)] ELSE s[k]
    BY <1>1, <2>2, ExceptSeq
  <2>4. \A k \in 1..(Len(s) - 1) : w[k] \in S
    BY <1>1, <2>3, ElementOfSeq
  <2> HIDE DEF w
  <2>5. /\ p \in Seq(S)
        /\ Len(p) = IF 1 <= Len(s) - 1 THEN Len(s) - 1 - 1 + 1 ELSE 0
        /\ \A k \in 1 .. Len(s) - 1 - 1 + 1 : p[k] = w[1 + k - 1]
    BY <1>1, <2>3, <2>4, SubSeqProperties
  <2>6. Len(p) = Len(s) - 1 /\ \A k \in 1..(Len(s) - 1) : p[k] = w[k]
    BY <1>1, <2>2, <2>5
  <2>7. DOMAIN p = 1..(Len(s) - 1)
    BY <2>5, <2>6, LenProperties
  <2>8. SwapAndPop(s, x) = p
    BY <1>3 DEF SwapAndPop, i, w
  <2> HIDE DEF p
  <2>9. \A k \in DOMAIN p : /\ k \in DOMAIN s
                             /\ k # Len(s)
                             /\ p[k] = IF k = i THEN s[Len(s)] ELSE s[k]
    BY <1>1, <2>3, <2>6, <2>7
  <2>10. \A a, b \in DOMAIN s : s[a] = s[b] => a = b
    BY DEF NoDuplicates
  <2>11. NoDuplicates(p)
    <3> SUFFICES ASSUME NEW k \in DOMAIN p, NEW j \in DOMAIN p, p[k] = p[j]
                 PROVE  k = j
      BY DEF NoDuplicates
    <3> QED
      BY <2>2, <2>9, <2>10
  <2>12. \A k \in DOMAIN p : p[k] \in Elements(s) \ {x}
    BY <2>1, <2>2, <2>9, <2>10 DEF Elements
  <2>13. ASSUME NEW j \in DOMAIN s, j # i
         PROVE  s[j] \in Elements(p)
    <3>1. CASE j = Len(s)
      <4> DEFINE n == Len(s)
      <4> HIDE DEF n
      <4>1. n \in Nat /\ i \in 1..n /\ i # n
        BY <1>1, <2>2, <2>13, <3>1 DEF n
      <4>2. i \in 1..(n - 1)
        BY <4>1
      <4>3. i \in DOMAIN p
        BY <2>7, <4>2 DEF n
      <4> QED
        BY <2>9, <3>1, <4>3 DEF Elements
    <3>2. CASE j # Len(s)
      <4>1. j \in DOMAIN p
        BY <1>1, <2>7, <3>2
      <4> QED
        BY <2>9, <2>13, <4>1 DEF Elements
    <3> QED
      BY <3>1, <3>2
  <2>14. Elements(p) = Elements(s) \ {x}
    BY <2>1, <2>12, <2>13 DEF Elements
  <2> QED
    BY <2>5, <2>8, <2>11, <2>14
<1> QED
  BY <1>2, <1>3

\* create_dep enters a dependency in the lists of its lockset and nowhere else.
LEMMA LinkFacts ==
    ASSUME NEW m \in [Resources -> Seq(Dependency)], NEW d \in Dependency
    PROVE  /\ Link(m, d) \in [Resources -> Seq(Dependency)]
           /\ \A deps : PointTo(m, deps) /\ d \notin deps
                           => PointTo(Link(m, d), deps \cup {d})
<1>1. Link(m, d) \in [Resources -> Seq(Dependency)]
  BY ElementsOfAppend DEF Link
<1>2. ASSUME NEW deps, PointTo(m, deps), d \notin deps, NEW r \in Resources
      PROVE  /\ Elements(Link(m, d)[r]) = {e \in deps \cup {d} : r \in e.lockset}
             /\ NoDuplicates(Link(m, d)[r])
  <2>1. m[r] \in Seq(Dependency)
    OBVIOUS
  <2>2. Elements(m[r]) = {e \in deps : r \in e.lockset} /\ NoDuplicates(m[r])
    BY <1>2 DEF PointTo
  <2>3. CASE r \in d.lockset
    <3>1. Link(m, d)[r] = Append(m[r], d)
      BY <2>3 DEF Link
    <3>2. d \notin Elements(m[r])
      BY <1>2, <2>2
    <3>3. Elements(Append(m[r], d)) = Elements(m[r]) \cup {d} /\ NoDuplicates(Append(m[r], d))
      BY <2>1, <2>2, <3>2, ElementsOfAppend, AppendKeepsDistinct
    <3> QED
      BY <2>2, <2>3, <3>1, <3>3
  <2>4. CASE r \notin d.lockset
    BY <2>2, <2>4 DEF Link
  <2> QED
    BY <2>3, <2>4
<1>3. \A deps : PointTo(m, deps) /\ d \notin deps => PointTo(Link(m, d), deps \cup {d})
  BY <1>2 DEF PointTo
<1> QED
  BY <1>1, <1>3

\* update_dep takes a dependency out of the lists of its lockset and of no other.
LEMMA UnlinkFacts ==
    ASSUME NEW m \in [Resources -> Seq(Dependency)], NEW d \in Dependency
    PROVE  /\ Unlink(m, d) \in [Resources -> Seq(Dependency)]
           /\ \A deps : PointTo(m, deps) => PointTo(Unlink(m, d), deps \ {d})
<1>1. Unlink(m, d) \in [Resources -> Seq(Dependency)]
  BY SwapAndPopType DEF Unlink
<1>2. ASSUME NEW deps, PointTo(m, deps), NEW r \in Resources
      PROVE  /\ Elements(Unlink(m, d)[r]) = {e \in deps \ {d} : r \in e.lockset}
             /\ NoDuplicates(Unlink(m, d)[r])
  <2>1. m[r] \in Seq(Dependency)
    OBVIOUS
  <2>2. Elements(m[r]) = {e \in deps : r \in e.lockset} /\ NoDuplicates(m[r])
    BY <1>2 DEF PointTo
  <2>3. CASE r \in d.lockset
    <3>1. Unlink(m, d)[r] = SwapAndPop(m[r], d)
      BY <2>3 DEF Unlink
    <3>2. /\ Elements(SwapAndPop(m[r], d)) = Elements(m[r]) \ {d}
          /\ NoDuplicates(SwapAndPop(m[r], d))
      BY <2>1, <2>2, SwapAndPopFacts
    <3> QED
      BY <2>2, <3>1, <3>2
  <2>4. CASE r \notin d.lockset
    BY <2>2, <2>4 DEF Unlink
  <2> QED
    BY <2>3, <2>4
<1>3. \A deps : PointTo(m, deps) => PointTo(Unlink(m, d), deps \ {d})
  BY <1>2 DEF PointTo
<1> QED
  BY <1>1, <1>3

\* The event lists of a dependency have their type, whether the index holds it or not.
LEMMA EventsOfFacts ==
    ASSUME NEW ix, IndexType(ix), NEW d
    PROVE  /\ EventsOf(ix, d) \in [SrcLocs -> Seq(Event)]
           /\ \A loc \in SrcLocs : Elements(EventsOf(ix, d)[loc]) \subseteq EventsIn(ix)
<1>1. CASE d \in DOMAIN ix.depEvents
  <2>1. EventsOf(ix, d) = ix.depEvents[d]
    BY <1>1 DEF EventsOf
  <2> QED
    BY <1>1, <2>1 DEF IndexType, EventsIn
<1>2. CASE d \notin DOMAIN ix.depEvents
  <2>1. EventsOf(ix, d) = [loc \in SrcLocs |-> <<>>]
    BY <1>2 DEF EventsOf
  <2>2. <<>> \in Seq(Event) /\ Elements(<<>>) = {}
    BY DEF Elements
  <2> QED
    BY <2>1, <2>2
<1> QED
  BY <1>1, <1>2

\* create_dep keeps the index linked and brings in one event.
LEMMA CreateDepFacts ==
    ASSUME NEW ix, IndexType(ix), NEW d \in Dependency, NEW loc \in SrcLocs,
           NEW evt \in Event
    PROVE  LET new == CreateDep(ix, d, loc, evt)
           IN /\ IndexType(new)
              /\ EventsIn(new) \subseteq EventsIn(ix) \cup {evt}
              /\ new.absDeps = ix.absDeps \cup {d}
              /\ IndexLinked(ix) => IndexLinked(new)
<1> DEFINE new == CreateDep(ix, d, loc, evt)
           own == [EventsOf(ix, d) EXCEPT ![loc] = Append(@, evt)]
           evts == [e \in DOMAIN ix.depEvents \cup {d} |->
                      IF e = d THEN own ELSE ix.depEvents[e]]
           links == IF d \in ix.absDeps THEN ix.lockDepMap ELSE Link(ix.lockDepMap, d)
<1>1. new = [absDeps |-> ix.absDeps \cup {d}, lockDepMap |-> links, depEvents |-> evts]
  BY DEF CreateDep
<1>2. /\ ix.absDeps \subseteq Dependency
      /\ ix.lockDepMap \in [Resources -> Seq(Dependency)]
      /\ DOMAIN ix.depEvents \subseteq Dependency
      /\ ix.depEvents \in [DOMAIN ix.depEvents -> [SrcLocs -> Seq(Event)]]
  BY DEF IndexType
<1>3. /\ EventsOf(ix, d) \in [SrcLocs -> Seq(Event)]
      /\ \A l \in SrcLocs : Elements(EventsOf(ix, d)[l]) \subseteq EventsIn(ix)
  BY EventsOfFacts
<1>4. /\ own \in [SrcLocs -> Seq(Event)]
      /\ \A l \in SrcLocs : Elements(own[l]) \subseteq EventsIn(ix) \cup {evt}
  <2>1. EventsOf(ix, d)[loc] \in Seq(Event)
    BY <1>3
  <2>2. /\ Append(EventsOf(ix, d)[loc], evt) \in Seq(Event)
        /\ Elements(Append(EventsOf(ix, d)[loc], evt))
             = Elements(EventsOf(ix, d)[loc]) \cup {evt}
    BY <2>1, ElementsOfAppend
  <2>3. \A l \in SrcLocs : own[l] = IF l = loc THEN Append(EventsOf(ix, d)[loc], evt)
                                             ELSE EventsOf(ix, d)[l]
    BY <1>3
  <2> QED
    BY <1>3, <2>2, <2>3
<1>5. links \in [Resources -> Seq(Dependency)]
  BY <1>2, LinkFacts
<1>6. DOMAIN evts = DOMAIN ix.depEvents \cup {d}
  OBVIOUS
<1>7. \A e \in DOMAIN evts : evts[e] = IF e = d THEN own ELSE ix.depEvents[e]
  OBVIOUS
<1>8. evts \in [DOMAIN evts -> [SrcLocs -> Seq(Event)]]
  BY <1>2, <1>4, <1>6, <1>7
<1>9. \A e \in DOMAIN evts, l \in SrcLocs :
         Elements(evts[e][l]) \subseteq EventsIn(ix) \cup {evt}
  <2>1. \A e \in DOMAIN ix.depEvents, l \in SrcLocs :
           Elements(ix.depEvents[e][l]) \subseteq EventsIn(ix)
    BY DEF EventsIn
  <2> HIDE DEF evts, own
  <2> QED
    BY <1>4, <1>6, <1>7, <2>1
<1>10. IndexLinked(ix) => IndexLinked(new)
  <2> HAVE IndexLinked(ix)
  <2>1. PointTo(links, ix.absDeps \cup {d})
    <3>1. CASE d \in ix.absDeps
      <4>1. ix.absDeps \cup {d} = ix.absDeps
        BY <3>1
      <4> QED
        BY <3>1, <4>1 DEF IndexLinked
    <3>2. CASE d \notin ix.absDeps
      BY <1>2, <3>2, LinkFacts DEF IndexLinked
    <3> QED
      BY <3>1, <3>2
  <2> HIDE DEF evts, links
  <2> QED
    BY <1>1, <1>6, <2>1 DEF IndexLinked
<1> HIDE DEF evts, links, own
<1>11. IndexType(new)
  BY <1>1, <1>2, <1>5, <1>6, <1>8 DEF IndexType
<1>12. EventsIn(new) \subseteq EventsIn(ix) \cup {evt}
  <2>1. new.depEvents = evts
    BY <1>1
  <2>2. \A e : e \in EventsIn(new)
                 => \E f \in DOMAIN evts, l \in SrcLocs : e \in Elements(evts[f][l])
    BY <2>1 DEF EventsIn
  <2> QED
    BY <1>9, <2>2
<1> QED
  BY <1>1, <1>10, <1>11, <1>12

\* update_dep leaves the index linked and the events as they were, and takes
\* away no dependency but the one it replaces.
LEMMA UpdateDepFacts ==
    ASSUME NEW ix, IndexType(ix), NEW old \in Dependency, NEW r \in Resources
    PROVE  LET new == UpdateDep(ix, old, r)
           IN /\ IndexType(new)
              /\ EventsIn(new) \subseteq EventsIn(ix)
              /\ old \in ix.absDeps => WithResource(old, r) \in new.absDeps
              /\ \A d \in ix.absDeps : d # old \/ r \in d.lockset => d \in new.absDeps
              /\ old \in ix.absDeps /\ IndexLinked(ix) => IndexLinked(new)
<1> DEFINE dep == WithResource(old, r)
           moved == EventsOf(ix, old)
           merged == [loc \in SrcLocs |-> EventsOf(ix, dep)[loc] \o moved[loc]]
           own == IF dep \in ix.absDeps THEN merged ELSE moved
           evts == [e \in (DOMAIN ix.depEvents \ {old}) \cup {dep} |->
                      IF e # dep THEN ix.depEvents[e] ELSE own]
           links == IF dep \in ix.absDeps THEN Unlink(ix.lockDepMap, old)
                    ELSE Link(Unlink(ix.lockDepMap, old), dep)
           new == UpdateDep(ix, old, r)
<1>1. CASE r \in old.lockset
  <2>1. new = ix
    BY <1>1 DEF UpdateDep
  <2>2. dep = old
    BY <1>1, WithResourceType
  <2> QED
    BY <2>1, <2>2
<1>2. CASE r \notin old.lockset
  <2>1. new = [absDeps |-> (ix.absDeps \ {old}) \cup {dep}, lockDepMap |-> links,
               depEvents |-> evts]
    BY <1>2 DEF UpdateDep
  <2>2. /\ ix.absDeps \subseteq Dependency
        /\ ix.lockDepMap \in [Resources -> Seq(Dependency)]
        /\ DOMAIN ix.depEvents \subseteq Dependency
        /\ ix.depEvents \in [DOMAIN ix.depEvents -> [SrcLocs -> Seq(Event)]]
    BY DEF IndexType
  <2>3. dep \in Dependency /\ dep # old
    BY <1>2, WithResourceType
  <2>4. /\ moved \in [SrcLocs -> Seq(Event)]
        /\ \A l \in SrcLocs : Elements(moved[l]) \subseteq EventsIn(ix)
        /\ EventsOf(ix, dep) \in [SrcLocs -> Seq(Event)]
        /\ \A l \in SrcLocs : Elements(EventsOf(ix, dep)[l]) \subseteq EventsIn(ix)
    BY EventsOfFacts
  <2>5. /\ own \in [SrcLocs -> Seq(Event)]
        /\ \A l \in SrcLocs : Elements(own[l]) \subseteq EventsIn(ix)
    <3>1. \A l \in SrcLocs :
             /\ merged[l] \in Seq(Event)
             /\ Elements(merged[l]) = Elements(EventsOf(ix, dep)[l]) \cup Elements(moved[l])
      <4> TAKE l \in SrcLocs
      <4>1. EventsOf(ix, dep)[l] \in Seq(Event) /\ moved[l] \in Seq(Event)
        BY <2>4
      <4>2. merged[l] = EventsOf(ix, dep)[l] \o moved[l]
        OBVIOUS
      <4> HIDE DEF merged, moved
      <4> QED
        BY <4>1, <4>2, ElementsOfConcat
    <3>2. merged \in [SrcLocs -> Seq(Event)]
      BY <3>1
    <3> HIDE DEF merged, moved
    <3> QED
      BY <2>4, <3>1, <3>2
  <2>6. links \in [Resources -> Seq(Dependency)]
    <3>1. Unlink(ix.lockDepMap, old) \in [Resources -> Seq(Dependency)]
      BY <2>2, UnlinkFacts
    <3> QED
      BY <2>3, <3>1, LinkFacts
  <2>7. /\ DOMAIN evts = (DOMAIN ix.depEvents \ {old}) \cup {dep}
        /\ \A e \in DOMAIN evts : evts[e] = IF e # dep THEN ix.depEvents[e] ELSE own
    OBVIOUS
  <2> HIDE DEF evts, own, dep, moved
  <2>8. evts \in [DOMAIN evts -> [SrcLocs -> Seq(Event)]]
    <3>1. \A e \in DOMAIN evts : evts[e] \in [SrcLocs -> Seq(Event)]
      BY <2>2, <2>5, <2>7
    <3> QED
      BY <3>1 DEF evts
  <2>9. \A e \in DOMAIN evts, l \in SrcLocs : Elements(evts[e][l]) \subseteq EventsIn(ix)
    <3>1. \A e \in DOMAIN ix.depEvents, l \in SrcLocs :
             Elements(ix.depEvents[e][l]) \subseteq EventsIn(ix)
      BY DEF EventsIn
    <3> QED
      BY <2>5, <2>7, <3>1
  <2>10. IndexType(new)
    BY <2>1, <2>2, <2>3, <2>6, <2>7, <2>8 DEF IndexType
  <2>11. EventsIn(new) \subseteq EventsIn(ix)
    <3>1. new.depEvents = evts
      BY <2>1
    <3>2. \A e : e \in EventsIn(new)
                   => \E f \in DOMAIN evts, l \in SrcLocs : e \in Elements(evts[f][l])
      BY <3>1 DEF EventsIn
    <3> QED
      BY <2>9, <3>2
  <2>12. ASSUME old \in ix.absDeps, IndexLinked(ix)
         PROVE  IndexLinked(new)
    <3>1. PointTo(ix.lockDepMap, ix.absDeps) /\ DOMAIN ix.depEvents = ix.absDeps
      BY <2>12 DEF IndexLinked
    <3>2. /\ Unlink(ix.lockDepMap, old) \in [Resources -> Seq(Dependency)]
          /\ PointTo(Unlink(ix.lockDepMap, old), ix.absDeps \ {old})
      BY <2>2, <3>1, UnlinkFacts
    <3>3. PointTo(links, (ix.absDeps \ {old}) \cup {dep})
      <4>1. CASE dep \in ix.absDeps
        <5>1. (ix.absDeps \ {old}) \cup {dep} = ix.absDeps \ {old}
          BY <2>3, <4>1
        <5> QED
          BY <3>2, <4>1, <5>1
      <4>2. CASE dep \notin ix.absDeps
        BY <2>3, <3>2, <4>2, LinkFacts
      <4> QED
        BY <4>1, <4>2
    <3>4. DOMAIN evts = (ix.absDeps \ {old}) \cup {dep}
      BY <2>7, <3>1
    <3> HIDE DEF links, new
    <3> QED
      BY <2>1, <3>3, <3>4 DEF IndexLinked
  <2> HIDE DEF links
  <2>13. old \in ix.absDeps => dep \in new.absDeps
    BY <2>1
  <2>14. \A d \in ix.absDeps : d # old \/ r \in d.lockset => d \in new.absDeps
    BY <1>2, <2>1
  <2> QED
    BY <2>10, <2>11, <2>12, <2>13, <2>14 DEF dep
<1> QED
  BY <1>1, <1>2

\* The loop of notify_event runs to its end, each iteration from the last.
LEMMA UpdateRecentLoop ==
    ASSUME NEW ix, NEW r, NEW list, Len(list) \in Nat
    PROVE  \E f : /\ f[0] = [index |-> ix, list |-> <<>>]
                  /\ \A i \in 1..Len(list) : f[i] = UpdateOne(f[i-1], list[i], r)
                  /\ UpdateRecent(ix, list, r) = f[Len(list)]
<1> DEFINE n == Len(list)
           first == [index |-> ix, list |-> <<>>]
           Loop(f, k) == f = [i \in 0..k |-> IF i = 0 THEN first
                                             ELSE UpdateOne(f[i-1], list[i], r)]
           G == {k \in 0..n : \E f : Loop(f, k)}
<1>1. 0 \in G
  <2> DEFINE f == [i \in 0..0 |-> first]
  <2>1. Loop(f, 0)
    OBVIOUS
  <2> HIDE DEF Loop
  <2> QED
    BY <2>1
<1>2. ASSUME NEW k \in 1..n, k - 1 \in G
      PROVE  k \in G
  <2>1. k \in Nat /\ k \in 0..n /\ k # 0
    OBVIOUS
  <2>2. PICK g : Loop(g, k - 1)
    BY <1>2
  <2> DEFINE f == [i \in 0..k |-> IF i = k THEN UpdateOne(g[k-1], list[k], r) ELSE g[i]]
  <2>3. f[k] = UpdateOne(g[k-1], list[k], r)
    BY <2>1
  <2>4. \A i \in 0..(k-1) : f[i] = g[i]
    BY <2>1
  <2>5. \A i \in 0..(k-1) : g[i] = IF i = 0 THEN first ELSE UpdateOne(g[i-1], list[i], r)
    <3> HIDE DEF first
    <3> QED
      BY <2>2
  <2>6. f = [i \in 0..k |-> f[i]]
    OBVIOUS
  <2> HIDE DEF f, first, Loop
  <2>7. ASSUME NEW i \in 0..k
        PROVE  f[i] = IF i = 0 THEN first ELSE UpdateOne(f[i-1], list[i], r)
    <3>1. CASE i = k
      <4>1. f[k-1] = g[k-1]
        BY <2>1, <2>4
      <4> QED
        BY <2>1, <2>3, <3>1, <4>1
    <3>2. CASE i # k
      <4>1. i \in 0..(k-1)
        BY <2>1, <3>2
      <4>2. i # 0 => f[i-1] = g[i-1]
        BY <2>4, <4>1
      <4> QED
        BY <2>4, <2>5, <4>1, <4>2
    <3> QED
      BY <3>1, <3>2
  <2>8. Loop(f, k)
    BY <2>6, <2>7 DEF Loop
  <2> QED
    BY <2>1, <2>8
<1>3. n \in G
  <2> HIDE DEF G
  <2>1. \A i \in 0..n : i \in G
    BY <1>1, <1>2, InductionUpTo
  <2> QED
    BY <2>1
<1>4. \E f : Loop(f, n)
  BY <1>3
<1>5. PICK f : /\ Loop(f, n)
               /\ UpdateRecent(ix, list, r) = f[n]
  BY <1>4 DEF UpdateRecent
<1>6. f[0] = first /\ \A i \in 1..n : f[i] = UpdateOne(f[i-1], list[i], r)
  <2> HIDE DEF first
  <2>1. \A i \in 0..n : f[i] = IF i = 0 THEN first ELSE UpdateOne(f[i-1], list[i], r)
    BY <1>5
  <2> QED
    BY <2>1
<1> QED
  BY <1>5, <1>6

\* f are the states of the loop of notify_event after each update.
LoopOf(f, ix, list, r) ==
    /\ f[0] = [index |-> ix, list |-> <<>>]
    /\ \A i \in 1..Len(list) : f[i] = UpdateOne(f[i-1], list[i], r)
    /\ UpdateRecent(ix, list, r) = f[Len(list)]

\* The loop has such states.
LEMMA LoopExists ==
    ASSUME NEW ix, NEW r, NEW list, Len(list) \in Nat
    PROVE  \E f : LoopOf(f, ix, list, r)
  BY UpdateRecentLoop DEF LoopOf

\* The loop of notify_event keeps the type of the index, and all it keeps are
\* events that were there.
LEMMA UpdateRecentType ==
    ASSUME NEW ix, IndexType(ix), NEW r \in Resources, NEW list \in Seq(Dependency)
    PROVE  LET out == UpdateRecent(ix, list, r)
           IN /\ IndexType(out.index)
              /\ out.list \in Seq(Dependency)
              /\ EventsIn(out.index) \subseteq EventsIn(ix)
<1> DEFINE n == Len(list)
<1>1. n \in Nat /\ \A i \in 1..n : list[i] \in Dependency
  BY LenProperties, ElementOfSeq
<1>2. PICK f : /\ f[0] = [index |-> ix, list |-> <<>>]
               /\ \A i \in 1..n : f[i] = UpdateOne(f[i-1], list[i], r)
               /\ UpdateRecent(ix, list, r) = f[n]
  BY <1>1, UpdateRecentLoop
<1> DEFINE Good(i) == /\ IndexType(f[i].index)
                      /\ f[i].list \in Seq(Dependency)
                      /\ EventsIn(f[i].index) \subseteq EventsIn(ix)
           G == {i \in 0..n : Good(i)}
<1> HIDE DEF n
<1>3. 0 \in G
  <2>1. f[0].index = ix /\ f[0].list = <<>>
    BY <1>2
  <2>2. <<>> \in Seq(Dependency)
    OBVIOUS
  <2>3. 0 \in 0..n
    BY <1>1
  <2> QED
    BY <2>1, <2>2, <2>3
<1>4. ASSUME NEW i \in 1..n, i - 1 \in G
      PROVE  i \in G
  <2>1. i \in 0..n
    BY <1>1
  <2>2. /\ f[i].index = UpdateDep(f[i-1].index, list[i], r)
        /\ f[i].list = Push(f[i-1].list, WithResource(list[i], r))
    <3>1. f[i] = UpdateOne(f[i-1], list[i], r)
      BY <1>2
    <3> QED
      BY <3>1 DEF UpdateOne
  <2>3. list[i] \in Dependency /\ WithResource(list[i], r) \in Dependency
    BY <1>1, WithResourceType
  <2>4. Good(i - 1)
    BY <1>4
  <2>5. IndexType(f[i].index) /\ EventsIn(f[i].index) \subseteq EventsIn(f[i-1].index)
    BY <2>2, <2>3, <2>4, UpdateDepFacts
  <2>6. f[i].list \in Seq(Dependency)
    BY <2>2, <2>3, <2>4, PushType
  <2> QED
    BY <2>1, <2>4, <2>5, <2>6
<1>5. n \in G
  <2> HIDE DEF G
  <2>1. \A i \in 0..n : i \in G
    BY <1>1, <1>3, <1>4, InductionUpTo
  <2> QED
    BY <1>1, <2>1
<1> QED
  BY <1>2, <1>5

\* The loop of notify_event leaves no reference to a dependency that is gone:
\* none of those it has still to update, none of those it has updated and put on
\* the new list, and none of another thread's.
LEMMA UpdateRecentLinked ==
    ASSUME NEW ix, IndexType(ix), IndexLinked(ix), NEW r \in Resources, NEW t,
           NEW list \in Seq(Dependency), RecentLinked(list, t, ix)
    PROVE  LET out == UpdateRecent(ix, list, r)
           IN /\ IndexLinked(out.index)
              /\ RecentLinked(out.list, t, out.index)
              /\ \A d \in ix.absDeps : d.tid # t => d \in out.index.absDeps
<1> DEFINE n == Len(list)
<1>1. n \in Nat /\ DOMAIN list = 1..n /\ \A i \in 1..n : list[i] \in Dependency
  BY LenProperties, ElementOfSeq
<1>2. PICK f : /\ f[0] = [index |-> ix, list |-> <<>>]
               /\ \A i \in 1..n : f[i] = UpdateOne(f[i-1], list[i], r)
               /\ UpdateRecent(ix, list, r) = f[n]
  BY <1>1, UpdateRecentLoop
<1>3. \A i \in 1..n : list[i] \in ix.absDeps /\ list[i].tid = t
  BY <1>1 DEF RecentLinked, Elements
<1>4. \A i, j \in 1..n : list[i] = list[j] => i = j
  BY <1>1 DEF RecentLinked, NoDuplicates
<1> DEFINE Done(i) == \A d \in Elements(f[i].list) :
                         d \in f[i].index.absDeps /\ d.tid = t /\ r \in d.lockset
           Left(i) == \A j \in 1..n : i < j => list[j] \in f[i].index.absDeps
           Good(i) == /\ IndexType(f[i].index)
                      /\ IndexLinked(f[i].index)
                      /\ f[i].list \in Seq(Dependency)
                      /\ NoDuplicates(f[i].list)
                      /\ Len(f[i].list) <= Capacity
                      /\ Done(i)
                      /\ Left(i)
                      /\ \A d \in ix.absDeps : d.tid # t => d \in f[i].index.absDeps
           G == {i \in 0..n : Good(i)}
<1> HIDE DEF n
<1>5. 0 \in G
  <2>1. f[0].index = ix /\ f[0].list = <<>>
    BY <1>2
  <2>2. /\ <<>> \in Seq(Dependency)
        /\ NoDuplicates(<<>>)
        /\ Elements(<<>>) = {}
        /\ Len(<<>>) = 0
    BY DEF NoDuplicates, Elements
  <2>3. 0 \in 0..n /\ 0 <= Capacity
    BY <1>1, CapacityAssumption
  <2>4. Done(0)
    BY <2>1, <2>2
  <2>5. Left(0)
    BY <1>3, <2>1
  <2>6. \A d \in ix.absDeps : d.tid # t => d \in f[0].index.absDeps
    BY <2>1
  <2>7. /\ IndexType(f[0].index)
        /\ IndexLinked(f[0].index)
        /\ f[0].list \in Seq(Dependency)
        /\ NoDuplicates(f[0].list)
        /\ Len(f[0].list) <= Capacity
    BY <2>1, <2>2, <2>3
  <2> QED
    BY <2>3, <2>4, <2>5, <2>6, <2>7
<1>6. ASSUME NEW i \in 1..n, i - 1 \in G
      PROVE  i \in G
  <2> DEFINE old == list[i]
             dep == WithResource(old, r)
             before == f[i-1].index
             after == f[i].index
  <2>1. i \in 0..n /\ i - 1 < i /\ i \in Nat
    BY <1>1
  <2>2. after = UpdateDep(before, old, r) /\ f[i].list = Push(f[i-1].list, dep)
    <3>1. f[i] = UpdateOne(f[i-1], list[i], r)
      BY <1>2
    <3> QED
      BY <3>1 DEF UpdateOne
  <2>3. old \in Dependency /\ old.tid = t /\ old \in ix.absDeps
    BY <1>1, <1>3
  <2>4. dep \in Dependency /\ dep.tid = t /\ r \in dep.lockset
    BY <2>3, WithResourceType
  <2>5. Good(i - 1)
    BY <1>6
  <2>6. old \in before.absDeps
    BY <2>1, <2>5
  <2>7. /\ IndexType(after)
        /\ dep \in after.absDeps
        /\ \A d \in before.absDeps : d # old \/ r \in d.lockset => d \in after.absDeps
        /\ IndexLinked(after)
    BY <2>2, <2>3, <2>5, <2>6, UpdateDepFacts
  <2>8. /\ f[i].list \in Seq(Dependency)
        /\ NoDuplicates(f[i].list)
        /\ Len(f[i].list) <= Capacity
        /\ Elements(f[i].list) \subseteq Elements(f[i-1].list) \cup {dep}
    BY <2>2, <2>4, <2>5, PushFacts
  <2> HIDE DEF dep, old
  <2>9. Done(i)
    BY <2>4, <2>5, <2>7, <2>8
  <2>10. Left(i)
    <3> SUFFICES ASSUME NEW j \in 1..n, i < j
                 PROVE  list[j] \in after.absDeps
      OBVIOUS
    <3>1. j # i /\ i - 1 < j
      BY <1>1, <2>1
    <3>2. list[j] \in before.absDeps
      BY <2>5, <3>1
    <3>3. list[j] # old
      BY <1>4, <3>1 DEF old
    <3> QED
      BY <2>7, <3>2, <3>3
  <2>11. \A d \in ix.absDeps : d.tid # t => d \in after.absDeps
    BY <2>3, <2>5, <2>7
  <2> QED
    BY <2>1, <2>7, <2>8, <2>9, <2>10, <2>11
<1>7. n \in G
  <2> HIDE DEF G
  <2>1. \A i \in 0..n : i \in G
    BY <1>1, <1>5, <1>6, InductionUpTo
  <2> QED
    BY <1>1, <2>1
<1>8. Good(n)
  BY <1>7
<1> QED
  BY <1>2, <1>8 DEF RecentLinked


-----------------------------------------------------------------------------
(* Clocks.                                                                 *)

\* The operations on clocks yield clocks.
LEMMA ClockTypes ==
    ASSUME NEW v \in Clock, NEW w \in Clock, NEW t \in Threads
    PROVE  /\ Merge(v, w) \in Clock
           /\ Increment(v, t) \in Clock
           /\ \A u \in Threads : Merge(v, w)[u] = IF v[u] < w[u] THEN w[u] ELSE v[u]
           /\ \A u \in Threads : Increment(v, t)[u] = IF u = t THEN v[u] + 1 ELSE v[u]
  BY DEF Clock, Merge, Increment

\* The clocks that threads start with are clocks.
LEMMA InitialClocks ==
    /\ EmptyClock \in Clock
    /\ \A t \in Threads : OwnedClock(t) \in Clock
  BY DEF Clock, EmptyClock, OwnedClock

-----------------------------------------------------------------------------
(* The parts of the handlers keep the types.                               *)

\* The event that comes has the type the handler expects.
LEMMA TypeOfComes ==
    ASSUME TypeOK, NEW t \in Threads, NEW type, NEW target, Comes(t, type, target)
    PROVE  step' \in [Threads -> Nat]
  BY DEF TypeOK, Comes

\* A thread that goes on keeps the types of the program's state.
LEMMA TypeOfContinue ==
    ASSUME TypeOK, NEW t \in Threads, NEW g \in Resources \cup {NoGoal}, Continue(t, g)
    PROVE  /\ status' \in [Threads -> Statuses]
           /\ goal' \in [Threads -> Resources \cup {NoGoal}]
           /\ wokenBy' \in [Threads -> Nat \cup {NotWoken}]
  BY DEF TypeOK, Continue

\* A thread that blocks or ends keeps the types of the program's state.
LEMMA TypeOfBecome ==
    ASSUME TypeOK, NEW t \in Threads, NEW st \in Statuses,
           NEW g \in Resources \cup {NoGoal}, Become(t, st, g)
    PROVE  /\ status' \in [Threads -> Statuses]
           /\ goal' \in [Threads -> Resources \cup {NoGoal}]
           /\ wokenBy' \in [Threads -> Nat \cup {NotWoken}]
  BY DEF TypeOK, Become

\* Waking sleepers keeps the types of the program's state.
LEMMA TypeOfWakeSleepers ==
    ASSUME TypeOK, NEW c, NEW all, WakeSleepers(c, all)
    PROVE  wokenBy' \in [Threads -> Nat \cup {NotWoken}]
<1>1. CASE all \/ Sleepers(c) = {}
  BY <1>1 DEF TypeOK, WakeSleepers
<1>2. CASE ~ (all \/ Sleepers(c) = {})
  BY <1>2 DEF TypeOK, WakeSleepers, Sleepers
<1> QED
  BY <1>1, <1>2

\* The tick at the end of handle_event keeps the types of the clocks.
LEMMA TypeOfTick ==
    ASSUME TypeOK, NEW t \in Threads, NEW vc \in Clock, Tick(t, vc)
    PROVE  clock' \in [Threads -> Clock] /\ pos' \in Nat
<1>1. Increment(vc, t) \in Clock
  BY ClockTypes
<1> QED
  BY <1>1 DEF TypeOK, Tick

\* notify_thread keeps the types of the notify queue and its counters.
LEMMA TypeOfNotifyThread ==
    ASSUME TypeOK, NEW c \in CondVars, NEW vc \in Clock, NEW all, NotifyThread(c, vc, all)
    PROVE  /\ toNotify' \in [CondVars -> Nat]
           /\ notifQueue' \in [CondVars -> Seq(Notification)]
<1> DEFINE n == IF all THEN toNotify[c] ELSE 1
           notif == [vc |-> vc, count |-> n]
<1>1. /\ toNotify \in [CondVars -> Nat]
      /\ notifQueue \in [CondVars -> Seq(Notification)]
  BY DEF TypeOK
<1>2. CASE toNotify[c] = 0
  BY <1>1, <1>2 DEF NotifyThread, cvVars
<1>3. CASE toNotify[c] # 0
  <2>1. n \in Nat /\ n # 0 /\ toNotify[c] - n \in Nat
    BY <1>1, <1>3
  <2>2. notif \in Notification
    BY <2>1 DEF Notification
  <2>3. /\ notifQueue' = [notifQueue EXCEPT ![c] = Append(@, notif)]
        /\ toNotify' = [toNotify EXCEPT ![c] = @ - n]
    BY <1>3 DEF NotifyThread
  <2> HIDE DEF n, notif
  <2>4. Append(notifQueue[c], notif) \in Seq(Notification)
    BY <1>1, <2>2, ElementsOfAppend
  <2> QED
    BY <1>1, <2>1, <2>3, <2>4
<1> QED
  BY <1>2, <1>3

\* wake_thread takes the oldest notify off the queue or lowers its count.
LEMMA WakeThreadFacts ==
    ASSUME NEW q \in Seq(Notification)
    PROVE  /\ WakeThread(q) \in Seq(Notification)
           /\ {n.vc : n \in Elements(WakeThread(q))} \subseteq {n.vc : n \in Elements(q)}
<1>1. CASE q = <<>>
  BY <1>1 DEF WakeThread
<1>2. CASE q # <<>> /\ Head(q).count = 1
  <2>1. /\ Tail(q) \in Seq(Notification)
        /\ Len(Tail(q)) = Len(q) - 1
        /\ \A k \in 1..Len(Tail(q)) : Tail(q)[k] = q[k + 1]
    BY <1>2, HeadTailProperties
  <2>2. DOMAIN Tail(q) = 1..(Len(q) - 1) /\ DOMAIN q = 1..Len(q) /\ Len(q) \in Nat
    BY <2>1, LenProperties
  <2>3. \A k \in DOMAIN Tail(q) : k + 1 \in DOMAIN q /\ Tail(q)[k] = q[k + 1]
    BY <2>1, <2>2
  <2>4. Elements(Tail(q)) \subseteq Elements(q)
    BY <2>3 DEF Elements
  <2> QED
    BY <1>2, <2>1, <2>4 DEF WakeThread
<1>3. CASE q # <<>> /\ Head(q).count # 1
  <2> DEFINE left == [q[1] EXCEPT !.count = @ - 1]
  <2>1. 1 \in 1..Len(q) /\ DOMAIN q = 1..Len(q) /\ Head(q) = q[1]
    BY <1>3, LenProperties
  <2>2. q[1] \in Notification
    BY <2>1, ElementOfSeq
  <2>3. left \in Notification /\ left.vc = q[1].vc
    BY <1>3, <2>1, <2>2 DEF Notification
  <2>4. WakeThread(q) = [q EXCEPT ![1] = left]
    BY <1>3 DEF WakeThread
  <2> HIDE DEF left
  <2>5. /\ [q EXCEPT ![1] = left] \in Seq(Notification)
        /\ Len([q EXCEPT ![1] = left]) = Len(q)
        /\ \A k \in 1..Len(q) : [q EXCEPT ![1] = left][k] = IF k = 1 THEN left ELSE q[k]
    BY <2>1, <2>3, ExceptSeq
  <2>6. DOMAIN WakeThread(q) = 1..Len(q)
    BY <2>4, <2>5, LenProperties
  <2>7. \A k \in DOMAIN WakeThread(q) : WakeThread(q)[k].vc = q[k].vc /\ q[k] \in Elements(q)
    BY <2>1, <2>3, <2>4, <2>5, <2>6 DEF Elements
  <2> QED
    BY <2>4, <2>5, <2>7 DEF Elements
<1> QED
  BY <1>1, <1>2, <1>3

\* What a thread that woke up merges is a clock.
LEMMA TypeOfAwakeClock ==
    ASSUME TypeOK, NEW t \in Threads, NEW c \in CondVars
    PROVE  AwakeClock(t, c) \in Clock
<1>1. clock[t] \in Clock /\ notifQueue[c] \in Seq(Notification)
  BY DEF TypeOK
<1>2. notifQueue[c] # <<>> => Head(notifQueue[c]) \in Notification
  BY <1>1, HeadTailProperties
<1> QED
  BY <1>1, <1>2, ClockTypes DEF AwakeClock, Notification

\* handle_sleepness keeps the types of the wait state.
LEMMA TypeOfHandleSleepness ==
    ASSUME TypeOK, NEW t \in Threads, NEW c \in CondVars, HandleSleepness(t, c)
    PROVE  /\ asleep' \in [Threads -> BOOLEAN]
           /\ toNotify' \in [CondVars -> Nat]
           /\ notifQueue' \in [CondVars -> Seq(Notification)]
<1>1. WakeThread(notifQueue[c]) \in Seq(Notification)
  BY WakeThreadFacts DEF TypeOK
<1> QED
  BY <1>1 DEF TypeOK, HandleSleepness

\* handle_dep_creation keeps the types of the index and of the recent lists.
LEMMA TypeOfHandleDepCreation ==
    ASSUME TypeOK, NEW t \in Threads, NEW res \in Resources, NEW loc \in SrcLocs,
           NEW evt \in Event, HandleDepCreation(t, res, loc, evt)
    PROVE  /\ IndexType(index')
           /\ recent' \in [Threads -> Seq(Dependency)]
           /\ EventsIn(index') \subseteq EventsIn(index) \cup {evt}
<1> DEFINE d == [tid |-> t, res |-> res, lockset |-> Lockset(t)]
<1>1. d \in Dependency
  BY DEF Dependency, Lockset, Resources
<1>2. /\ IndexType(index)
      /\ recent \in [Threads -> Seq(Dependency)]
  BY DEF TypeOK
<1>3. /\ index' = IF t \in NotifThreads \/ Lockset(t) # {}
                  THEN CreateDep(index, d, loc, evt) ELSE index
      /\ recent' = IF t \in NotifThreads
                   THEN [recent EXCEPT ![t] = Push(@, d)] ELSE recent
  BY DEF HandleDepCreation
<1> HIDE DEF d
<1>4. /\ IndexType(CreateDep(index, d, loc, evt))
      /\ EventsIn(CreateDep(index, d, loc, evt)) \subseteq EventsIn(index) \cup {evt}
  BY <1>1, <1>2, CreateDepFacts
<1>5. Push(recent[t], d) \in Seq(Dependency)
  BY <1>1, <1>2, PushType
<1> QED
  BY <1>2, <1>3, <1>4, <1>5

-----------------------------------------------------------------------------
(* Type correctness.                                                       *)

\* Type correctness holds when the handler is constructed.
LEMMA TypeOfInit == Init => TypeOK
<1> SUFFICES ASSUME Init
             PROVE  TypeOK
  OBVIOUS
<1>1. IndexType(index)
  BY DEF Init, IndexType, EmptyIndex
<1>2. /\ pos \in Nat
      /\ step \in [Threads -> Nat]
      /\ status \in [Threads -> Statuses]
      /\ goal \in [Threads -> Resources \cup {NoGoal}]
      /\ wokenBy \in [Threads -> Nat \cup {NotWoken}]
      /\ aliveCount \in Int
  BY DEF Init, Statuses
<1>3. /\ clock \in [Threads -> Clock]
      /\ lastWrite \in [Vars -> Clock]
  BY InitialClocks DEF Init
<1>4. /\ held \in [Threads -> [Locks -> Nat]]
      /\ asleep \in [Threads -> BOOLEAN]
      /\ recent \in [Threads -> Seq(Dependency)]
  BY DEF Init
<1>5. /\ toNotify \in [CondVars -> Nat]
      /\ notifQueue \in [CondVars -> Seq(Notification)]
  BY DEF Init
<1>6. csHist \in [Locks -> [Threads -> Seq(CriticalSection)]]
  BY DEF Init
<1> QED
  BY <1>1, <1>2, <1>3, <1>4, <1>5, <1>6 DEF TypeOK

\* add_unlock_ev closes the last critical section and no other.
LEMMA CloseLastFacts ==
    ASSUME NEW cs \in Seq(CriticalSection), NEW evt \in Event
    PROVE  /\ CloseLast(cs, evt) \in Seq(CriticalSection)
           /\ Len(CloseLast(cs, evt)) = Len(cs)
           /\ \A i \in 1..Len(cs) :
                 /\ CloseLast(cs, evt)[i].lock = cs[i].lock
                 /\ CloseLast(cs, evt)[i].unlock = IF i = Len(cs) THEN evt ELSE cs[i].unlock
<1>1. /\ \A i \in 1..Len(cs) : cs[i] \in CriticalSection
      /\ Len(cs) \in Nat
  BY ElementOfSeq, LenProperties
<1>2. CASE cs = <<>>
  BY <1>1, <1>2 DEF CloseLast
<1>3. CASE cs # <<>>
  <2> DEFINE n == Len(cs)
             last == [cs[n] EXCEPT !.unlock = evt]
  <2>1. n \in 1..Len(cs)
    BY <1>1, <1>3, EmptySeq
  <2>2. last \in CriticalSection /\ last = [lock |-> cs[n].lock, unlock |-> evt]
    BY <1>1, <2>1 DEF CriticalSection
  <2>3. CloseLast(cs, evt) = [cs EXCEPT ![n] = last]
    BY <1>3 DEF CloseLast
  <2>4. last.lock = cs[n].lock /\ last.unlock = evt
    BY <2>2
  <2> HIDE DEF last
  <2>5. /\ [cs EXCEPT ![n] = last] \in Seq(CriticalSection)
        /\ Len([cs EXCEPT ![n] = last]) = Len(cs)
        /\ \A i \in 1..Len(cs) : [cs EXCEPT ![n] = last][i] = IF i = n THEN last ELSE cs[i]
    BY <2>1, <2>2, ExceptSeq
  <2> QED
    BY <2>2, <2>3, <2>4, <2>5
<1> QED
  BY <1>2, <1>3

\* Every handler keeps the types, one step per action.
LEMMA TypeOfStep == TypeOK /\ [Next]_vars => TypeOK'
<1> SUFFICES ASSUME TypeOK, [Next]_vars
             PROVE  TypeOK'
  OBVIOUS
<1> USE DEF Running
<1>1. ASSUME NEW t \in Threads, NEW x \in Vars, ReadEvent(t, x)
      PROVE  TypeOK'
  <2>1. clock[t] \in Clock /\ lastWrite[x] \in Clock
    BY DEF TypeOK
  <2>2. (IF Alone THEN clock[t] ELSE Merge(clock[t], lastWrite[x])) \in Clock
    BY <2>1, ClockTypes
  <2>3. clock' \in [Threads -> Clock] /\ pos' \in Nat
    BY <1>1, <2>2, TypeOfTick DEF ReadEvent
  <2>4. /\ step' \in [Threads -> Nat]
        /\ status' \in [Threads -> Statuses]
        /\ goal' \in [Threads -> Resources \cup {NoGoal}]
        /\ wokenBy' \in [Threads -> Nat \cup {NotWoken}]
    BY <1>1, TypeOfComes, TypeOfContinue DEF ReadEvent
  <2> QED
    BY <1>1, <2>3, <2>4 DEF TypeOK, ReadEvent, cvVars
<1>2. ASSUME NEW t \in Threads, NEW x \in Vars, WriteEvent(t, x)
      PROVE  TypeOK'
  <2>1. clock[t] \in Clock
    BY DEF TypeOK
  <2>2. clock' \in [Threads -> Clock] /\ pos' \in Nat
    BY <1>2, <2>1, TypeOfTick DEF WriteEvent
  <2>3. /\ step' \in [Threads -> Nat]
        /\ status' \in [Threads -> Statuses]
        /\ goal' \in [Threads -> Resources \cup {NoGoal}]
        /\ wokenBy' \in [Threads -> Nat \cup {NotWoken}]
    BY <1>2, TypeOfComes, TypeOfContinue DEF WriteEvent
  <2>4. lastWrite' \in [Vars -> Clock]
    BY <1>2, <2>1 DEF TypeOK, WriteEvent
  <2> QED
    BY <1>2, <2>2, <2>3, <2>4 DEF TypeOK, WriteEvent, cvVars
<1>3. ASSUME NEW t \in Threads, NEW c \in CondVars, NEW loc \in SrcLocs,
             WaitEvent(t, c, loc)
      PROVE  TypeOK'
  <2>1. clock[t] \in Clock /\ c \in Resources /\ [vc |-> clock[t], pos |-> pos] \in Event
    BY DEF TypeOK, Event, Resources
  <2>2. clock' \in [Threads -> Clock] /\ pos' \in Nat
    BY <1>3, <2>1, TypeOfTick DEF WaitEvent
  <2>3. /\ step' \in [Threads -> Nat]
        /\ status' \in [Threads -> Statuses]
        /\ goal' \in [Threads -> Resources \cup {NoGoal}]
        /\ wokenBy' \in [Threads -> Nat \cup {NotWoken}]
    BY <1>3, <2>1, TypeOfComes, TypeOfBecome DEF WaitEvent, Statuses
  <2>4. IndexType(index') /\ recent' \in [Threads -> Seq(Dependency)]
    <3>1. CASE Alone
      BY <1>3, <3>1 DEF TypeOK, WaitEvent
    <3>2. CASE ~Alone
      BY <1>3, <2>1, <3>2, TypeOfHandleDepCreation DEF WaitEvent
    <3> QED
      BY <3>1, <3>2
  <2>5. asleep' \in [Threads -> BOOLEAN] /\ toNotify' \in [CondVars -> Nat]
    <3>1. CASE Alone
      BY <1>3, <3>1 DEF TypeOK, WaitEvent
    <3>2. CASE ~Alone
      <4>1. /\ asleep' = [asleep EXCEPT ![t] = TRUE]
            /\ toNotify' = [toNotify EXCEPT ![c] = @ + 1]
        BY <1>3, <3>2 DEF WaitEvent
      <4>2. asleep' \in [Threads -> BOOLEAN]
        BY <4>1 DEF TypeOK
      <4>3. toNotify' \in [CondVars -> Nat]
        BY <4>1 DEF TypeOK
      <4> QED
        BY <4>2, <4>3
    <3> QED
      BY <3>1, <3>2
  <2> QED
    BY <1>3, <2>2, <2>3, <2>4, <2>5 DEF TypeOK, WaitEvent
<1>4. ASSUME NEW t \in Threads, NEW c \in CondVars, NEW all \in BOOLEAN,
             NotifyEvent(t, c, all)
      PROVE  TypeOK'
  <2>1. clock[t] \in Clock /\ c \in Resources
    BY DEF TypeOK, Resources
  <2>2. clock' \in [Threads -> Clock] /\ pos' \in Nat
    BY <1>4, <2>1, TypeOfTick DEF NotifyEvent
  <2>3. /\ step' \in [Threads -> Nat]
        /\ status' \in [Threads -> Statuses]
        /\ goal' \in [Threads -> Resources \cup {NoGoal}]
        /\ wokenBy' \in [Threads -> Nat \cup {NotWoken}]
    BY <1>4, TypeOfComes, TypeOfWakeSleepers DEF TypeOK, NotifyEvent
  <2>4. /\ IndexType(index')
        /\ recent' \in [Threads -> Seq(Dependency)]
        /\ toNotify' \in [CondVars -> Nat]
        /\ notifQueue' \in [CondVars -> Seq(Notification)]
    <3>1. CASE Alone
      BY <1>4, <3>1 DEF TypeOK, NotifyEvent, cvVars
    <3>2. CASE ~Alone
      <4> DEFINE updated == UpdateRecent(index, recent[t], c)
      <4>1. /\ index' = updated.index
            /\ recent' = [recent EXCEPT ![t] = updated.list]
            /\ NotifyThread(c, clock[t], all)
        BY <1>4, <3>2 DEF NotifyEvent
      <4>2. IndexType(updated.index) /\ updated.list \in Seq(Dependency)
        BY <2>1, UpdateRecentType DEF TypeOK
      <4> HIDE DEF updated
      <4> QED
        BY <2>1, <4>1, <4>2, TypeOfNotifyThread DEF TypeOK
    <3> QED
      BY <3>1, <3>2
  <2> QED
    BY <1>4, <2>2, <2>3, <2>4 DEF TypeOK, NotifyEvent
<1>5. ASSUME NEW t \in Threads, NEW l \in Locks, NEW loc \in SrcLocs,
             RequestEvent(t, l, loc)
      PROVE  TypeOK'
  <2> DEFINE c == Associated(l)
             vc == IF Alone THEN clock[t] ELSE AwakeClock(t, c)
  <2>1. c \in CondVars /\ l \in Resources
    BY ConstantTypes
  <2>2. vc \in Clock
    BY <2>1, TypeOfAwakeClock DEF TypeOK
  <2>3. [vc |-> vc, pos |-> pos] \in Event
    BY <2>2 DEF TypeOK, Event
  <2>4. /\ Comes(t, "REQ", l)
        /\ Become(t, "requesting", l)
        /\ IF Alone THEN UNCHANGED <<asleep, cvVars, index, recent>>
           ELSE /\ HandleSleepness(t, c)
                /\ HandleDepCreation(t, l, loc, [vc |-> vc, pos |-> pos])
        /\ Tick(t, vc)
        /\ UNCHANGED <<aliveCount, lastWrite, held, csHist>>
    BY <1>5 DEF RequestEvent
  <2> HIDE DEF vc, c
  <2>5. clock' \in [Threads -> Clock] /\ pos' \in Nat
    BY <2>2, <2>4, TypeOfTick
  <2>6. /\ step' \in [Threads -> Nat]
        /\ status' \in [Threads -> Statuses]
        /\ goal' \in [Threads -> Resources \cup {NoGoal}]
        /\ wokenBy' \in [Threads -> Nat \cup {NotWoken}]
    BY <2>1, <2>4, TypeOfComes, TypeOfBecome DEF Statuses
  <2>7. /\ IndexType(index')
        /\ recent' \in [Threads -> Seq(Dependency)]
        /\ asleep' \in [Threads -> BOOLEAN]
        /\ toNotify' \in [CondVars -> Nat]
        /\ notifQueue' \in [CondVars -> Seq(Notification)]
    <3>1. CASE Alone
      BY <2>4, <3>1 DEF TypeOK, cvVars
    <3>2. CASE ~Alone
      BY <2>1, <2>3, <2>4, <3>2, TypeOfHandleSleepness, TypeOfHandleDepCreation
    <3> QED
      BY <3>1, <3>2
  <2> QED
    BY <2>4, <2>5, <2>6, <2>7 DEF TypeOK
<1>6. ASSUME NEW t \in Threads, NEW l \in Locks, AcquireEvent(t, l)
      PROVE  TypeOK'
  <2> DEFINE section == [lock |-> [vc |-> clock[t], pos |-> pos], unlock |-> NoEvent]
  <2>1. clock[t] \in Clock
    BY DEF TypeOK
  <2>2. clock' \in [Threads -> Clock] /\ pos' \in Nat
    BY <1>6, <2>1, TypeOfTick DEF AcquireEvent
  <2>3. /\ step' \in [Threads -> Nat]
        /\ status' \in [Threads -> Statuses]
        /\ goal' \in [Threads -> Resources \cup {NoGoal}]
        /\ wokenBy' \in [Threads -> Nat \cup {NotWoken}]
    BY <1>6, TypeOfComes, TypeOfBecome DEF AcquireEvent, Statuses
  <2>4. held' \in [Threads -> [Locks -> Nat]]
    BY <1>6 DEF TypeOK, AcquireEvent
  <2>5. csHist' \in [Locks -> [Threads -> Seq(CriticalSection)]]
    <3>1. section \in CriticalSection
      BY <2>1, ConstantTypes DEF TypeOK, CriticalSection, Event
    <3>2. csHist[l][t] \in Seq(CriticalSection)
      BY DEF TypeOK
    <3>3. csHist' = IF held'[t][l] = 1
                    THEN [csHist EXCEPT ![l][t] = Append(@, section)] ELSE csHist
      BY <1>6 DEF AcquireEvent
    <3> HIDE DEF section
    <3>4. Append(csHist[l][t], section) \in Seq(CriticalSection)
      BY <3>1, <3>2, ElementsOfAppend
    <3> QED
      BY <3>3, <3>4 DEF TypeOK
  <2> QED
    BY <1>6, <2>2, <2>3, <2>4, <2>5 DEF TypeOK, AcquireEvent, cvVars
<1>7. ASSUME NEW t \in Threads, NEW l \in Locks, ReleaseEvent(t, l)
      PROVE  TypeOK'
  <2> DEFINE evt == [vc |-> clock[t], pos |-> pos]
  <2>1. clock[t] \in Clock /\ l \in Resources
    BY DEF TypeOK, Resources
  <2>2. clock' \in [Threads -> Clock] /\ pos' \in Nat
    BY <1>7, <2>1, TypeOfTick DEF ReleaseEvent
  <2>3. /\ step' \in [Threads -> Nat]
        /\ status' \in [Threads -> Statuses]
        /\ goal' \in [Threads -> Resources \cup {NoGoal}]
        /\ wokenBy' \in [Threads -> Nat \cup {NotWoken}]
    BY <1>7, <2>1, TypeOfComes, TypeOfContinue DEF ReleaseEvent
  <2>4. held' \in [Threads -> [Locks -> Nat]]
    <3>1. held[t][l] \in Nat /\ held[t][l] - 1 \in Nat
      BY <1>7 DEF TypeOK, ReleaseEvent, Holds
    <3> QED
      BY <1>7, <3>1 DEF TypeOK, ReleaseEvent
  <2>5. csHist' \in [Locks -> [Threads -> Seq(CriticalSection)]]
    <3>1. evt \in Event
      BY <2>1 DEF TypeOK, Event
    <3>2. csHist[l][t] \in Seq(CriticalSection)
      BY DEF TypeOK
    <3>3. csHist' = IF held'[t][l] = 0
                    THEN [csHist EXCEPT ![l][t] = CloseLast(@, evt)] ELSE csHist
      BY <1>7 DEF ReleaseEvent
    <3> HIDE DEF evt
    <3>4. CloseLast(csHist[l][t], evt) \in Seq(CriticalSection)
      BY <3>1, <3>2, CloseLastFacts
    <3> QED
      BY <3>3, <3>4 DEF TypeOK
  <2> QED
    BY <1>7, <2>2, <2>3, <2>4, <2>5 DEF TypeOK, ReleaseEvent, cvVars
<1>8. ASSUME NEW t \in Threads, NEW u \in Threads, ForkEvent(t, u)
      PROVE  TypeOK'
  <2>1. step' \in [Threads -> Nat]
    BY <1>8, TypeOfComes DEF ForkEvent
  <2>2. /\ Merge(clock[u], clock[t]) \in Clock
        /\ Increment(clock[t], t) \in Clock
        /\ Increment(Merge(clock[u], clock[t]), t) \in Clock
    <3>1. clock[t] \in Clock /\ clock[u] \in Clock
      BY DEF TypeOK
    <3> QED
      BY <3>1, ClockTypes
  <2>3. clock' \in [Threads -> Clock]
    BY <1>8, <2>2 DEF TypeOK, ForkEvent
  <2>4. /\ status' \in [Threads -> Statuses]
        /\ goal' \in [Threads -> Resources \cup {NoGoal}]
        /\ pos' \in Nat /\ aliveCount' \in Int
    BY <1>8 DEF TypeOK, ForkEvent, Statuses
  <2> QED
    BY <1>8, <2>1, <2>3, <2>4 DEF TypeOK, ForkEvent, cvVars
<1>9. ASSUME NEW t \in Threads, NEW u \in Threads, JoinEvent(t, u)
      PROVE  TypeOK'
  <2>1. step' \in [Threads -> Nat]
    BY <1>9, TypeOfComes DEF JoinEvent
  <2>2. Merge(clock[t], clock[u]) \in Clock
    BY ClockTypes DEF TypeOK
  <2>3. clock' \in [Threads -> Clock] /\ pos' \in Nat
    BY <1>9, <2>2, TypeOfTick DEF JoinEvent
  <2>4. /\ status' \in [Threads -> Statuses]
        /\ goal' \in [Threads -> Resources \cup {NoGoal}]
        /\ aliveCount' \in Int
    <3>1. /\ status' = [status EXCEPT ![u] = "ended"]
          /\ goal' = [goal EXCEPT ![t] = NoGoal, ![u] = NoGoal]
          /\ aliveCount' = aliveCount - 1
      BY <1>9 DEF JoinEvent
    <3>2. goal' \in [Threads -> Resources \cup {NoGoal}]
      BY <3>1 DEF TypeOK
    <3>3. status' \in [Threads -> Statuses]
      BY <3>1 DEF TypeOK, Statuses
    <3>4. aliveCount' \in Int
      BY <3>1 DEF TypeOK
    <3> QED
      BY <3>2, <3>3, <3>4
  <2> QED
    BY <1>9, <2>1, <2>3, <2>4 DEF TypeOK, JoinEvent, cvVars
<1>10. ASSUME NEW t \in Threads, InvalidEvent(t)
       PROVE  TypeOK'
  <2>1. step' \in [Threads -> Nat]
    BY <1>10, TypeOfComes DEF InvalidEvent
  <2> QED
    BY <1>10, <2>1 DEF TypeOK, InvalidEvent, cvVars
<1>11. CASE UNCHANGED vars
  BY <1>11 DEF TypeOK, vars, programVars, cvVars
<1> QED
  BY <1>1, <1>2, <1>3, <1>4, <1>5, <1>6, <1>7, <1>8, <1>9, <1>10, <1>11 DEF Next

\* The state of the handler stays of its type whatever the trace: no counter
\* goes below zero, and every queue, list and index holds what it should.
THEOREM TypeCorrect == Spec => []TypeOK
<1>1. Init => TypeOK
  BY TypeOfInit
<1>2. TypeOK /\ [Next]_vars => TypeOK'
  BY TypeOfStep
<1> QED
  BY <1>1, <1>2, PTL DEF Spec

-----------------------------------------------------------------------------
(* The time of a thread is ahead of what anyone knows of it.               *)

\* What OwnTimeIsAhead says of one clock vc and one thread u.
Behind(vc, u) == IF status[u] = "ended" THEN vc[u] <= clock[u][u] ELSE vc[u] < clock[u][u]

\* The strengthening: also a clock that no event touched is behind, since every
\* thread starts at time 1.
OwnTimeInv ==
    /\ \A u \in Threads : clock[u][u] > 0
    /\ \A u \in Threads : \A vc \in KeptClocks : Behind(vc, u)
    /\ \A u, v \in Threads : u # v => Behind(clock[v], u)

\* The inductive invariant implies the property.
LEMMA OwnTimeInvImplies == OwnTimeInv => OwnTimeIsAhead
  BY DEF OwnTimeInv, OwnTimeIsAhead, Behind

\* Where the clocks come from that the handler keeps.
LEMMA KeptMembers ==
    /\ \A e \in EventsIn(index) : e.vc \in KeptClocks
    /\ \A l \in Locks, t \in Threads : \A s \in Elements(csHist[l][t]) :
          s.lock.vc \in KeptClocks /\ s.unlock.vc \in KeptClocks
    /\ \A x \in Vars : lastWrite[x] \in KeptClocks
    /\ \A c \in CondVars : \A n \in Elements(notifQueue[c]) : n.vc \in KeptClocks
<1>1. \A e \in KeptEvents : e.vc \in KeptClocks
  BY DEF KeptClocks
<1>2. \A e \in EventsIn(index) : e \in KeptEvents
  BY DEF KeptEvents, DepEvents
<1>3. \A l \in Locks, t \in Threads : \A s \in Elements(csHist[l][t]) : s \in Sections
  BY DEF Sections
<1>4. \A s \in Sections : s.lock \in KeptEvents /\ s.unlock \in KeptEvents
  BY DEF KeptEvents
<1>5. \A x \in Vars : lastWrite[x] \in KeptClocks
  BY DEF KeptClocks
<1>6. \A c \in CondVars : \A n \in Elements(notifQueue[c]) : n.vc \in KeptClocks
  BY DEF KeptClocks
<1> QED
  BY <1>1, <1>2, <1>3, <1>4, <1>5, <1>6

\* A step keeps no clock that is neither kept before nor in new.
LEMMA KeptAfterStep ==
    ASSUME NEW new,
           \A e \in EventsIn(index') : e \in EventsIn(index) \/ e.vc \in new,
           \A l \in Locks, t \in Threads : \A s \in Elements(csHist'[l][t]) :
              s.lock.vc \in KeptClocks \cup new /\ s.unlock.vc \in KeptClocks \cup new,
           \A x \in Vars : lastWrite'[x] \in KeptClocks \cup new,
           \A c \in CondVars : \A n \in Elements(notifQueue'[c]) :
              n.vc \in KeptClocks \cup new
    PROVE  KeptClocks' \subseteq KeptClocks \cup new
<1>1. \A s \in Sections' : s.lock.vc \in KeptClocks \cup new
                            /\ s.unlock.vc \in KeptClocks \cup new
  BY DEF Sections
<1>2. \A e \in DepEvents' : e.vc \in KeptClocks \cup new
  BY KeptMembers DEF DepEvents
<1>3. \A e \in KeptEvents' : e.vc \in KeptClocks \cup new
  BY <1>1, <1>2 DEF KeptEvents
<1>4. \A vc \in KeptClocks' :
         \/ \E e \in KeptEvents' : vc = e.vc
         \/ \E x \in Vars : vc = lastWrite'[x]
         \/ \E c \in CondVars : \E n \in Elements(notifQueue'[c]) : vc = n.vc
  BY DEF KeptClocks
<1> QED
  BY <1>3, <1>4

\* Time passes for t, which by now may know what it did not of other threads.
LEMMA OwnTimeOfTick ==
    ASSUME TypeOK, OwnTimeInv, NEW t \in Threads, NEW vc \in Clock, Tick(t, vc),
           vc[t] = clock[t][t],
           \A u \in Threads : status[u] = "ended" => status'[u] = "ended",
           \A u \in Threads \ {t} : IF status'[u] = "ended" THEN vc[u] <= clock[u][u]
                                                          ELSE vc[u] < clock[u][u],
           KeptClocks' \subseteq KeptClocks \cup {clock[t], vc, EmptyClock},
           KeptClocks \subseteq Clock
    PROVE  OwnTimeInv'
<1>1. /\ clock \in [Threads -> Clock]
      /\ clock' = [clock EXCEPT ![t] = Increment(vc, t)]
  BY DEF TypeOK, Tick
<1>2. \A u, v \in Threads : clock[u][v] \in Nat /\ vc[u] \in Nat
  BY <1>1 DEF Clock
<1>3. \A u \in Threads : Increment(vc, t)[u] = IF u = t THEN vc[u] + 1 ELSE vc[u]
  BY ClockTypes
<1>4. /\ clock'[t][t] = clock[t][t] + 1
      /\ \A u \in Threads \ {t} : clock'[t][u] = vc[u] /\ clock'[u] = clock[u]
  BY <1>1, <1>3
<1>5. /\ \A u \in Threads : clock[u][u] > 0
      /\ \A u \in Threads : \A w \in KeptClocks : Behind(w, u)
      /\ \A u, v \in Threads : u # v => Behind(clock[v], u)
  BY DEF OwnTimeInv
<1>6. \A u \in Threads : clock'[u][u] > 0
  BY <1>2, <1>4, <1>5
<1>7. ASSUME NEW u \in Threads, NEW w \in Clock, Behind(w, u)
      PROVE  Behind(w, u)'
  <2>1. w[u] \in Nat
    BY DEF Clock
  <2>2. Behind(w, u)' <=> (IF status'[u] = "ended" THEN w[u] <= clock'[u][u]
                                                   ELSE w[u] < clock'[u][u])
    BY DEF Behind
  <2> QED
    BY <1>2, <1>4, <1>7, <2>1, <2>2 DEF Behind
<1>8. ASSUME NEW u \in Threads, NEW w \in KeptClocks'
      PROVE  Behind(w, u)'
  <2>1. Behind(w, u)' <=> (IF status'[u] = "ended" THEN w[u] <= clock'[u][u]
                                                   ELSE w[u] < clock'[u][u])
    BY DEF Behind
  <2>2. CASE w \in KeptClocks
    BY <1>5, <1>7, <2>2
  <2>3. CASE w = vc
    BY <1>2, <1>4, <2>1, <2>3
  <2>4. CASE w = clock[t]
    <3>1. CASE u = t
      BY <1>2, <1>4, <2>1, <2>4, <3>1
    <3>2. CASE u # t
      BY <1>1, <1>5, <1>7, <2>4, <3>2
    <3> QED
      BY <3>1, <3>2
  <2>5. CASE w = EmptyClock
    <3>1. w[u] = 0
      BY <2>5 DEF EmptyClock
    <3> QED
      BY <1>1, <1>2, <1>4, <1>6, <2>1, <3>1
  <2> QED
    BY <2>2, <2>3, <2>4, <2>5
<1>9. ASSUME NEW u \in Threads, NEW v \in Threads, u # v
      PROVE  Behind(clock[v], u)'
  <2>1. Behind(clock[v], u)' <=> (IF status'[u] = "ended"
                                  THEN clock'[v][u] <= clock'[u][u]
                                  ELSE clock'[v][u] < clock'[u][u])
    BY DEF Behind
  <2>2. CASE v = t
    BY <1>4, <1>9, <2>1, <2>2
  <2>3. CASE v # t
    <3>1. Behind(clock[v], u)
      BY <1>5, <1>9
    <3>2. clock'[v] = clock[v]
      BY <1>4, <2>3
    <3> QED
      BY <1>2, <1>4, <2>1, <3>1, <3>2 DEF Behind
  <2> QED
    BY <2>2, <2>3
<1> QED
  BY <1>6, <1>8, <1>9 DEF OwnTimeInv

\* The clocks that the handler keeps are clocks.
LEMMA KeptClocksType == TypeOK => KeptClocks \subseteq Clock
<1> SUFFICES ASSUME TypeOK
             PROVE  KeptClocks \subseteq Clock
  OBVIOUS
<1>1. \A S : \A s \in Seq(S) : Elements(s) \subseteq S
  BY ElementOfSeq, LenProperties DEF Elements
<1>2. EventsIn(index) \subseteq Event
  <2>1. \A d \in DOMAIN index.depEvents, loc \in SrcLocs :
           index.depEvents[d][loc] \in Seq(Event)
    BY DEF TypeOK, IndexType
  <2>2. \A d \in DOMAIN index.depEvents, loc \in SrcLocs :
           Elements(index.depEvents[d][loc]) \subseteq Event
    BY <1>1, <2>1
  <2> QED
    BY <2>2 DEF EventsIn
<1>3. Sections \subseteq CriticalSection
  <2>1. \A l \in Locks, t \in Threads : csHist[l][t] \in Seq(CriticalSection)
    BY DEF TypeOK
  <2>2. \A l \in Locks, t \in Threads : Elements(csHist[l][t]) \subseteq CriticalSection
    BY <1>1, <2>1
  <2> QED
    BY <2>2 DEF Sections
<1>4. KeptEvents \subseteq Event
  BY <1>2, <1>3 DEF KeptEvents, DepEvents, CriticalSection
<1>5. \A c \in CondVars : Elements(notifQueue[c]) \subseteq Notification
  <2>1. \A c \in CondVars : notifQueue[c] \in Seq(Notification)
    BY DEF TypeOK
  <2> QED
    BY <1>1, <2>1
<1>6. \A e \in Event : e.vc \in Clock
  BY DEF Event
<1>7. \A c \in CondVars : \A n \in Elements(notifQueue[c]) : n.vc \in Clock
  BY <1>5 DEF Notification
<1>8. \A x \in Vars : lastWrite[x] \in Clock
  BY DEF TypeOK
<1> QED
  BY <1>4, <1>6, <1>7, <1>8 DEF KeptClocks

\* What t learns from a clock that is behind everyone, itself included.
LEMMA BehindMerge ==
    ASSUME TypeOK, NEW t \in Threads, NEW v \in Clock, NEW w \in Clock,
           v[t] = clock[t][t], w[t] <= clock[t][t],
           NEW u \in Threads
    PROVE  /\ Merge(v, w)[t] = clock[t][t]
           /\ Behind(v, u) /\ Behind(w, u) => Behind(Merge(v, w), u)
<1>1. /\ \A k \in Threads : v[k] \in Nat /\ w[k] \in Nat
      /\ \A k \in Threads : Merge(v, w)[k] = IF v[k] < w[k] THEN w[k] ELSE v[k]
      /\ clock[t][t] \in Nat /\ clock[u][u] \in Nat
  <2>1. \A k \in Threads : v[k] \in Nat /\ w[k] \in Nat
    BY DEF Clock
  <2>2. \A k \in Threads : Merge(v, w)[k] = IF v[k] < w[k] THEN w[k] ELSE v[k]
    BY ClockTypes
  <2>3. clock[t][t] \in Nat /\ clock[u][u] \in Nat
    BY DEF TypeOK, Clock
  <2> QED
    BY <2>1, <2>2, <2>3
<1>2. Merge(v, w)[t] = clock[t][t]
  BY <1>1
<1>3. Behind(v, u) /\ Behind(w, u) => Behind(Merge(v, w), u)
  BY <1>1 DEF Behind
<1> QED
  BY <1>2, <1>3

\* The inductive invariant holds when the handler is constructed.
LEMMA OwnTimeOfInit == Init => OwnTimeInv
<1> SUFFICES ASSUME Init
             PROVE  OwnTimeInv
  OBVIOUS
<1>1. /\ \A t \in Threads : clock[t] = OwnedClock(t) /\ status[t] # "ended"
      /\ \A x \in Vars : lastWrite[x] = EmptyClock
      /\ \A c \in CondVars : notifQueue[c] = <<>>
      /\ index = EmptyIndex
      /\ \A l \in Locks, t \in Threads : csHist[l][t] = <<>>
  BY DEF Init
<1>2. Elements(<<>>) = {}
  BY DEF Elements
<1>3. EventsIn(index) = {}
  BY <1>1 DEF EventsIn, EmptyIndex
<1>4. Sections = {}
  BY <1>1, <1>2 DEF Sections
<1>5. KeptEvents = {}
  BY <1>3, <1>4 DEF KeptEvents, DepEvents
<1>6. KeptClocks \subseteq {EmptyClock}
  BY <1>1, <1>2, <1>5 DEF KeptClocks
<1>7. \A t, u \in Threads : clock[t][u] = IF u = t THEN 1 ELSE 0
  BY <1>1 DEF OwnedClock
<1>8. \A u \in Threads : EmptyClock[u] = 0
  BY DEF EmptyClock
<1>9. \A u \in Threads : \A vc \in KeptClocks : Behind(vc, u)
  BY <1>1, <1>6, <1>7, <1>8 DEF Behind
<1>10. \A u, v \in Threads : u # v => Behind(clock[v], u)
  BY <1>1, <1>7 DEF Behind
<1> QED
  BY <1>7, <1>9, <1>10 DEF OwnTimeInv

\* An event of a running thread that ticks keeps the invariant, if the handler keeps
\* no clock but the one of the thread.
LEMMA OwnTimeOfEvent ==
    ASSUME TypeOK, OwnTimeInv, NEW t \in Threads, Tick(t, clock[t]),
           \A u \in Threads : status[u] = "ended" <=> status'[u] = "ended",
           KeptClocks' \subseteq KeptClocks \cup {clock[t], EmptyClock}
    PROVE  OwnTimeInv'
<1>1. clock[t] \in Clock /\ KeptClocks \subseteq Clock
  BY KeptClocksType DEF TypeOK
<1>2. \A u \in Threads \ {t} : IF status'[u] = "ended" THEN clock[t][u] <= clock[u][u]
                                                   ELSE clock[t][u] < clock[u][u]
  BY DEF OwnTimeInv, Behind
<1> QED
  BY <1>1, <1>2, OwnTimeOfTick

\* A step that changes one thread's status leaves the others'.
LEMMA StatusOfBecome ==
    ASSUME TypeOK, NEW t \in Threads, NEW st, NEW g, Become(t, st, g),
           status[t] # "ended", st # "ended"
    PROVE  \A u \in Threads : status[u] = "ended" <=> status'[u] = "ended"
  BY DEF TypeOK, Become

\* What handle_dep_creation keeps.
LEMMA KeptByDepCreation ==
    ASSUME TypeOK, NEW t \in Threads, NEW res \in Resources, NEW loc \in SrcLocs,
           NEW evt \in Event, HandleDepCreation(t, res, loc, evt)
    PROVE  \A e \in EventsIn(index') : e \in EventsIn(index) \/ e.vc \in {evt.vc}
<1>1. EventsIn(index') \subseteq EventsIn(index) \cup {evt}
  BY TypeOfHandleDepCreation
<1> QED
  BY <1>1

\* Every handler keeps the inductive invariant, one step per action.
LEMMA OwnTimeOfStep == TypeOK /\ OwnTimeInv /\ [Next]_vars => OwnTimeInv'
<1> SUFFICES ASSUME TypeOK, OwnTimeInv, [Next]_vars
             PROVE  OwnTimeInv'
  OBVIOUS
<1> USE DEF Running
<1>1. ASSUME NEW t \in Threads, NEW x \in Vars, ReadEvent(t, x)
      PROVE  OwnTimeInv'
  <2> DEFINE vc == IF Alone THEN clock[t] ELSE Merge(clock[t], lastWrite[x])
  <2>1. clock[t] \in Clock /\ lastWrite[x] \in Clock /\ KeptClocks \subseteq Clock
    BY KeptClocksType DEF TypeOK
  <2>2. \A u \in Threads : Behind(lastWrite[x], u)
    BY KeptMembers DEF OwnTimeInv
  <2>3. lastWrite[x][t] <= clock[t][t]
    BY <2>1, <2>2 DEF TypeOK, Behind, Clock
  <2>4. vc \in Clock /\ vc[t] = clock[t][t]
    BY <2>1, <2>3, ClockTypes, BehindMerge
  <2>5. \A u \in Threads \ {t} : Behind(vc, u)
    BY <2>1, <2>2, <2>3, BehindMerge DEF OwnTimeInv
  <2>6. Tick(t, vc) /\ UNCHANGED <<status, index, csHist, lastWrite, notifQueue>>
    BY <1>1 DEF ReadEvent, Continue, cvVars
  <2> HIDE DEF vc
  <2>7. KeptClocks' \subseteq KeptClocks \cup {}
    BY <2>6, KeptMembers, KeptAfterStep
  <2> QED
    BY <2>1, <2>4, <2>5, <2>6, <2>7, OwnTimeOfTick DEF Behind
<1>2. ASSUME NEW t \in Threads, NEW x \in Vars, WriteEvent(t, x)
      PROVE  OwnTimeInv'
  <2>1. /\ Tick(t, clock[t])
        /\ UNCHANGED <<status, index, csHist, notifQueue>>
        /\ lastWrite' = IF Alone THEN lastWrite ELSE [lastWrite EXCEPT ![x] = clock[t]]
    BY <1>2 DEF WriteEvent, Continue, cvVars
  <2>2. \A y \in Vars : lastWrite'[y] \in KeptClocks \cup {clock[t]}
    BY <2>1, KeptMembers DEF TypeOK
  <2>3. KeptClocks' \subseteq KeptClocks \cup {clock[t]}
    BY <2>1, <2>2, KeptMembers, KeptAfterStep
  <2> QED
    BY <2>1, <2>3, OwnTimeOfEvent
<1>3. ASSUME NEW t \in Threads, NEW c \in CondVars, NEW loc \in SrcLocs,
             WaitEvent(t, c, loc)
      PROVE  OwnTimeInv'
  <2> DEFINE evt == [vc |-> clock[t], pos |-> pos]
  <2>1. evt \in Event /\ c \in Resources /\ evt.vc = clock[t]
    BY DEF TypeOK, Event, Resources
  <2>2. /\ Tick(t, clock[t])
        /\ UNCHANGED <<csHist, lastWrite, notifQueue>>
        /\ IF Alone THEN index' = index ELSE HandleDepCreation(t, c, loc, evt)
        /\ Become(t, "sleeping", c)
        /\ status[t] = "running"
    BY <1>3 DEF WaitEvent
  <2> HIDE DEF evt
  <2>3. \A e \in EventsIn(index') : e \in EventsIn(index) \/ e.vc \in {clock[t]}
    BY <2>1, <2>2, KeptByDepCreation
  <2>4. KeptClocks' \subseteq KeptClocks \cup {clock[t]}
    BY <2>2, <2>3, KeptMembers, KeptAfterStep
  <2>5. \A u \in Threads : status[u] = "ended" <=> status'[u] = "ended"
    BY <2>2, StatusOfBecome
  <2> QED
    BY <2>2, <2>4, <2>5, OwnTimeOfEvent
<1>4. ASSUME NEW t \in Threads, NEW c \in CondVars, NEW all \in BOOLEAN,
             NotifyEvent(t, c, all)
      PROVE  OwnTimeInv'
  <2>1. Tick(t, clock[t]) /\ UNCHANGED <<status, csHist, lastWrite>> /\ c \in Resources
    BY <1>4 DEF NotifyEvent, Resources
  <2>2. EventsIn(index') \subseteq EventsIn(index)
    <3>1. CASE Alone
      BY <1>4, <3>1 DEF NotifyEvent
    <3>2. CASE ~Alone
      <4>1. index' = UpdateRecent(index, recent[t], c).index
        BY <1>4, <3>2 DEF NotifyEvent
      <4> QED
        BY <2>1, <4>1, UpdateRecentType DEF TypeOK
    <3> QED
      BY <3>1, <3>2
  <2>3. \A d \in CondVars : \A n \in Elements(notifQueue'[d]) :
           n.vc \in KeptClocks \cup {clock[t]}
    <3>1. CASE Alone \/ toNotify[c] = 0
      <4>1. notifQueue' = notifQueue
        BY <1>4, <3>1 DEF NotifyEvent, NotifyThread, cvVars
      <4> QED
        BY <4>1, KeptMembers
    <3>2. CASE ~Alone /\ toNotify[c] # 0
      <4> DEFINE n == IF all THEN toNotify[c] ELSE 1
                 notif == [vc |-> clock[t], count |-> n]
      <4>1. notifQueue' = [notifQueue EXCEPT ![c] = Append(@, notif)]
        BY <1>4, <3>2 DEF NotifyEvent, NotifyThread
      <4>2. n \in Nat \ {0}
        BY <3>2 DEF TypeOK
      <4> HIDE DEF n
      <4>3. notif \in Notification /\ notif.vc = clock[t]
        BY <4>2 DEF TypeOK, Notification
      <4> HIDE DEF notif
      <4>4. notifQueue[c] \in Seq(Notification)
        BY DEF TypeOK
      <4>5. Elements(Append(notifQueue[c], notif)) = Elements(notifQueue[c]) \cup {notif}
        BY <4>3, <4>4, ElementsOfAppend
      <4>6. \A d \in CondVars : notifQueue'[d] = IF d = c THEN Append(notifQueue[c], notif)
                                                          ELSE notifQueue[d]
        BY <4>1 DEF TypeOK
      <4> QED
        BY <4>3, <4>5, <4>6, KeptMembers
    <3> QED
      BY <3>1, <3>2
  <2>4. KeptClocks' \subseteq KeptClocks \cup {clock[t]}
    BY <2>1, <2>2, <2>3, KeptMembers, KeptAfterStep
  <2> QED
    BY <2>1, <2>4, OwnTimeOfEvent
<1>5. ASSUME NEW t \in Threads, NEW l \in Locks, NEW loc \in SrcLocs,
             RequestEvent(t, l, loc)
      PROVE  OwnTimeInv'
  <2> DEFINE c == Associated(l)
             vc == IF Alone THEN clock[t] ELSE AwakeClock(t, c)
             evt == [vc |-> vc, pos |-> pos]
  <2>1. /\ status[t] # "ended"
        /\ Become(t, "requesting", l)
        /\ IF Alone THEN UNCHANGED <<notifQueue, index>>
           ELSE /\ HandleSleepness(t, c)
                /\ HandleDepCreation(t, l, loc, evt)
        /\ Tick(t, vc)
        /\ UNCHANGED <<lastWrite, csHist>>
    BY <1>5 DEF RequestEvent, MayWake, cvVars
  <2>2. c \in CondVars /\ l \in Resources
    BY ConstantTypes
  <2>3. vc \in Clock /\ clock[t] \in Clock /\ KeptClocks \subseteq Clock
    BY <2>2, TypeOfAwakeClock, KeptClocksType DEF TypeOK
  <2>4. vc[t] = clock[t][t] /\ \A u \in Threads \ {t} : Behind(vc, u)
    <3>1. CASE Alone \/ ~ (asleep[t] /\ notifQueue[c] # <<>>)
      BY <3>1 DEF OwnTimeInv, AwakeClock
    <3>2. CASE ~Alone /\ asleep[t] /\ notifQueue[c] # <<>>
      <4> DEFINE w == Head(notifQueue[c]).vc
      <4>1. notifQueue[c] \in Seq(Notification)
        BY <2>2 DEF TypeOK
      <4>2. Head(notifQueue[c]) \in Elements(notifQueue[c])
        <5>1. 1 \in DOMAIN notifQueue[c] /\ Head(notifQueue[c]) = notifQueue[c][1]
          BY <3>2, <4>1, LenProperties, EmptySeq, HeadTailProperties
        <5> QED
          BY <5>1 DEF Elements
      <4>3. w \in KeptClocks
        BY <2>2, <4>2, KeptMembers
      <4>4. vc = Merge(clock[t], w)
        BY <3>2 DEF AwakeClock
      <4> HIDE DEF w, vc
      <4>5. w \in Clock /\ \A u \in Threads : Behind(w, u)
        BY <2>3, <4>3 DEF OwnTimeInv
      <4>6. w[t] <= clock[t][t]
        BY <2>3, <4>5 DEF Behind, Clock
      <4> QED
        BY <2>3, <4>4, <4>5, <4>6, BehindMerge DEF OwnTimeInv
    <3> QED
      BY <3>1, <3>2
  <2> HIDE DEF vc, c
  <2>5. evt \in Event /\ evt.vc = vc
    BY <2>3 DEF TypeOK, Event
  <2> HIDE DEF evt
  <2>6. \A e \in EventsIn(index') : e \in EventsIn(index) \/ e.vc \in {vc}
    BY <2>1, <2>2, <2>5, KeptByDepCreation
  <2>7. \A d \in CondVars : \A n \in Elements(notifQueue'[d]) : n.vc \in KeptClocks
    <3>1. {n.vc : n \in Elements(WakeThread(notifQueue[c]))}
             \subseteq {n.vc : n \in Elements(notifQueue[c])}
      BY <2>2, WakeThreadFacts DEF TypeOK
    <3>2. \A n \in Elements(WakeThread(notifQueue[c])) : n.vc \in KeptClocks
      BY <2>2, <3>1, KeptMembers
    <3>3. \A d \in CondVars : \/ notifQueue'[d] = notifQueue[d]
                              \/ d = c /\ notifQueue'[d] = WakeThread(notifQueue[c])
      BY <2>1 DEF TypeOK, HandleSleepness
    <3> QED
      BY <3>2, <3>3, KeptMembers
  <2>8. KeptClocks' \subseteq KeptClocks \cup {vc}
    BY <2>1, <2>6, <2>7, KeptMembers, KeptAfterStep
  <2>9. \A u \in Threads : status[u] = "ended" <=> status'[u] = "ended"
    BY <2>1, StatusOfBecome
  <2> QED
    BY <2>1, <2>3, <2>4, <2>8, <2>9, OwnTimeOfTick DEF Behind
<1>6. ASSUME NEW t \in Threads, NEW l \in Locks, AcquireEvent(t, l)
      PROVE  OwnTimeInv'
  <2> DEFINE section == [lock |-> [vc |-> clock[t], pos |-> pos], unlock |-> NoEvent]
             new == {clock[t], EmptyClock}
  <2>1. /\ Tick(t, clock[t])
        /\ UNCHANGED <<lastWrite, notifQueue, index>>
        /\ Become(t, "running", NoGoal)
        /\ status[t] = "requesting"
        /\ csHist' = IF held'[t][l] = 1
                     THEN [csHist EXCEPT ![l][t] = Append(@, section)] ELSE csHist
    BY <1>6 DEF AcquireEvent, cvVars
  <2>2. /\ section \in CriticalSection
        /\ section.lock.vc = clock[t]
        /\ section.unlock.vc = EmptyClock
    BY ConstantTypes DEF TypeOK, CriticalSection, Event, NoEvent
  <2> HIDE DEF section
  <2>3. csHist[l][t] \in Seq(CriticalSection)
    BY DEF TypeOK
  <2>4. Elements(Append(csHist[l][t], section)) = Elements(csHist[l][t]) \cup {section}
    BY <2>2, <2>3, ElementsOfAppend
  <2>5. \A k \in Locks, u \in Threads :
           \/ csHist'[k][u] = csHist[k][u]
           \/ k = l /\ u = t /\ csHist'[k][u] = Append(csHist[l][t], section)
    BY <2>1 DEF TypeOK
  <2>6. \A k \in Locks, u \in Threads : \A s \in Elements(csHist'[k][u]) :
           s.lock.vc \in KeptClocks \cup new /\ s.unlock.vc \in KeptClocks \cup new
    BY <2>2, <2>4, <2>5, KeptMembers, ZenonT(40)
  <2> HIDE DEF new
  <2>7. KeptClocks' \subseteq KeptClocks \cup new
    BY <2>1, <2>6, KeptMembers, KeptAfterStep
  <2>8. \A u \in Threads : status[u] = "ended" <=> status'[u] = "ended"
    BY <2>1, StatusOfBecome
  <2> QED
    BY <2>1, <2>7, <2>8, OwnTimeOfEvent DEF new
<1>7. ASSUME NEW t \in Threads, NEW l \in Locks, ReleaseEvent(t, l)
      PROVE  OwnTimeInv'
  <2> DEFINE evt == [vc |-> clock[t], pos |-> pos]
             new == {clock[t]}
  <2>1. /\ Tick(t, clock[t])
        /\ UNCHANGED <<status, lastWrite, notifQueue, index>>
        /\ csHist' = IF held'[t][l] = 0
                     THEN [csHist EXCEPT ![l][t] = CloseLast(@, evt)] ELSE csHist
    BY <1>7 DEF ReleaseEvent, Continue, cvVars
  <2>2. evt \in Event /\ evt.vc = clock[t]
    BY DEF TypeOK, Event
  <2> HIDE DEF evt
  <2>3. csHist[l][t] \in Seq(CriticalSection)
    BY DEF TypeOK
  <2>4. \A s \in Elements(CloseLast(csHist[l][t], evt)) :
           s.lock.vc \in KeptClocks \cup new /\ s.unlock.vc \in KeptClocks \cup new
    <3> DEFINE cs == csHist[l][t]
               closed == CloseLast(cs, evt)
    <3>1. /\ closed \in Seq(CriticalSection)
          /\ Len(closed) = Len(cs)
          /\ \A i \in 1..Len(cs) :
                /\ closed[i].lock = cs[i].lock
                /\ closed[i].unlock = IF i = Len(cs) THEN evt ELSE cs[i].unlock
      BY <2>2, <2>3, CloseLastFacts
    <3>2. DOMAIN closed = 1..Len(cs) /\ DOMAIN cs = 1..Len(cs)
      BY <2>3, <3>1, LenProperties
    <3> HIDE DEF closed
    <3>3. \A i \in 1..Len(cs) : cs[i] \in Elements(cs)
      BY <3>2 DEF Elements
    <3>4. \A i \in 1..Len(cs) : cs[i].lock.vc \in KeptClocks /\ cs[i].unlock.vc \in KeptClocks
      BY <3>3, KeptMembers
    <3> HIDE DEF cs
    <3>5. \A i \in 1..Len(cs) : /\ closed[i].lock.vc \in KeptClocks \cup new
                                /\ closed[i].unlock.vc \in KeptClocks \cup new
      BY <2>2, <3>1, <3>4
    <3> QED
      BY <3>2, <3>5 DEF Elements, closed, cs
  <2>5. \A k \in Locks, u \in Threads :
           \/ csHist'[k][u] = csHist[k][u]
           \/ k = l /\ u = t /\ csHist'[k][u] = CloseLast(csHist[l][t], evt)
    BY <2>1 DEF TypeOK
  <2>6. \A k \in Locks, u \in Threads : \A s \in Elements(csHist'[k][u]) :
           s.lock.vc \in KeptClocks \cup new /\ s.unlock.vc \in KeptClocks \cup new
    BY <2>4, <2>5, KeptMembers
  <2> HIDE DEF new
  <2>7. KeptClocks' \subseteq KeptClocks \cup new
    BY <2>1, <2>6, KeptMembers, KeptAfterStep
  <2> QED
    BY <2>1, <2>7, OwnTimeOfEvent DEF new
<1>8. ASSUME NEW t \in Threads, NEW u \in Threads, ForkEvent(t, u)
      PROVE  OwnTimeInv'
  <2>1. /\ status[t] = "running" /\ status[u] = "unborn" /\ t # u
        /\ status' = [status EXCEPT ![u] = "running"]
        /\ clock' = [clock EXCEPT ![u] = Merge(@, clock[t]), ![t] = Increment(@, t)]
        /\ UNCHANGED <<index, csHist, lastWrite, notifQueue>>
    BY <1>8 DEF ForkEvent, cvVars
  <2>2. /\ \A v \in Threads : clock[v] \in Clock
        /\ \A v, w \in Threads : clock[v][w] \in Nat
    BY DEF TypeOK, Clock
  <2>3. /\ clock'[t] = Increment(clock[t], t)
        /\ clock'[u] = Merge(clock[u], clock[t])
        /\ \A v \in Threads \ {t, u} : clock'[v] = clock[v]
    BY <2>1 DEF TypeOK
  <2>4. /\ \A v \in Threads : clock'[t][v] = IF v = t THEN clock[t][v] + 1 ELSE clock[t][v]
        /\ \A v \in Threads : clock'[u][v] = IF clock[u][v] < clock[t][v] THEN clock[t][v]
                                                                         ELSE clock[u][v]
    BY <2>2, <2>3, ClockTypes
  <2>5. /\ \A v \in Threads : clock[v][v] > 0
        /\ \A v \in Threads : \A vc \in KeptClocks : Behind(vc, v)
        /\ \A v, w \in Threads : v # w => Behind(clock[w], v)
    BY DEF OwnTimeInv
  <2>6. \A v \in Threads : status'[v] = "ended" <=> status[v] = "ended"
    BY <2>1 DEF TypeOK
  <2>7. KeptClocks' \subseteq KeptClocks /\ KeptClocks \subseteq Clock
    <3>1. KeptClocks' \subseteq KeptClocks \cup {}
      BY <2>1, KeptMembers, KeptAfterStep
    <3> QED
      BY <3>1, KeptClocksType
  <2>8. \A v \in Threads : clock'[v][v] = IF v = t THEN clock[v][v] + 1 ELSE clock[v][v]
    <3>1. Behind(clock[t], u)
      BY <2>1, <2>5
    <3>2. clock'[u][u] = clock[u][u]
      <4>1. clock[t][u] < clock[u][u]
        BY <2>1, <3>1 DEF Behind
      <4>2. clock'[u][u] = IF clock[u][u] < clock[t][u] THEN clock[t][u] ELSE clock[u][u]
        BY <2>4
      <4>3. clock[t][u] \in Nat /\ clock[u][u] \in Nat
        BY <2>2
      <4> QED
        BY <4>1, <4>2, <4>3
    <3>3. \A v \in Threads \ {t, u} : clock'[v][v] = clock[v][v]
      BY <2>3
    <3>4. clock'[t][t] = clock[t][t] + 1
      BY <2>4
    <3> QED
      BY <2>1, <3>2, <3>3, <3>4
  <2>9. \A w : \A v \in Threads :
           Behind(w, v)' <=> (IF status[v] = "ended" THEN w[v] <= clock'[v][v]
                                                    ELSE w[v] < clock'[v][v])
    BY <2>6 DEF Behind
  <2>10. \A v \in Threads : \A vc \in KeptClocks' : Behind(vc, v)'
    <3> TAKE v \in Threads
    <3> TAKE vc \in KeptClocks'
    <3>1. vc[v] \in Nat /\ Behind(vc, v)
      BY <2>5, <2>7 DEF Clock
    <3> QED
      BY <2>2, <2>8, <2>9, <3>1 DEF Behind
  <2>11. ASSUME NEW v \in Threads, NEW w \in Threads, v # w
         PROVE  Behind(clock[w], v)'
    <3>1. Behind(clock[w], v)' <=> (IF status[v] = "ended" THEN clock'[w][v] <= clock'[v][v]
                                                          ELSE clock'[w][v] < clock'[v][v])
      BY <2>6 DEF Behind
    <3>2. Behind(clock[w], v)
      BY <2>5, <2>11
    <3>3. CASE w = u
      <4>1. clock'[u][v] = IF clock[u][v] < clock[t][v] THEN clock[t][v] ELSE clock[u][v]
        BY <2>4
      <4>2. CASE v = t
        BY <2>2, <2>8, <3>1, <3>2, <3>3, <4>1, <4>2 DEF Behind
      <4>3. CASE v # t
        <5>1. Behind(clock[t], v)
          BY <2>5, <4>3
        <5> QED
          BY <2>2, <2>8, <3>1, <3>2, <3>3, <4>1, <4>3, <5>1 DEF Behind
      <4> QED
        BY <4>2, <4>3
    <3>4. CASE w = t
      BY <2>2, <2>4, <2>8, <3>1, <3>2, <3>4, <2>11 DEF Behind
    <3>5. CASE w # u /\ w # t
      BY <2>2, <2>3, <2>8, <3>1, <3>2, <3>5 DEF Behind
    <3> QED
      BY <3>3, <3>4, <3>5
  <2>12. \A v \in Threads : clock'[v][v] > 0
    BY <2>2, <2>5, <2>8
  <2> QED
    BY <2>10, <2>11, <2>12 DEF OwnTimeInv
<1>9. ASSUME NEW t \in Threads, NEW u \in Threads, JoinEvent(t, u)
      PROVE  OwnTimeInv'
  <2> DEFINE vc == Merge(clock[t], clock[u])
  <2>1. /\ t # u /\ status[u] = "running"
        /\ status' = [status EXCEPT ![u] = "ended"]
        /\ Tick(t, vc)
        /\ UNCHANGED <<index, csHist, lastWrite, notifQueue>>
    BY <1>9 DEF JoinEvent, cvVars
  <2>2. /\ clock[t] \in Clock /\ clock[u] \in Clock /\ KeptClocks \subseteq Clock
        /\ \A v \in Threads : clock[v][v] \in Nat /\ clock[t][v] \in Nat /\ clock[u][v] \in Nat
    BY KeptClocksType DEF TypeOK, Clock
  <2>3. Behind(clock[u], t) /\ Behind(clock[t], u)
    BY <2>1 DEF OwnTimeInv
  <2>4. clock[u][t] <= clock[t][t] /\ clock[t][u] <= clock[u][u]
    BY <2>2, <2>3 DEF Behind
  <2>5. vc \in Clock /\ vc[t] = clock[t][t]
    BY <2>2, <2>4, ClockTypes, BehindMerge
  <2>6. vc[u] = clock[u][u]
    BY <2>2, <2>4, ClockTypes
  <2>7. \A v \in Threads \ {t, u} : Behind(vc, v)
    BY <2>2, <2>4, BehindMerge DEF OwnTimeInv
  <2> HIDE DEF vc
  <2>8. \A v \in Threads : status'[v] = IF v = u THEN "ended" ELSE status[v]
    BY <2>1 DEF TypeOK
  <2>9. \A v \in Threads \ {t} : IF status'[v] = "ended" THEN vc[v] <= clock[v][v]
                                                       ELSE vc[v] < clock[v][v]
    BY <2>2, <2>6, <2>7, <2>8 DEF Behind
  <2>10. KeptClocks' \subseteq KeptClocks \cup {}
    BY <2>1, KeptMembers, KeptAfterStep
  <2>11. \A v \in Threads : status[v] = "ended" => status'[v] = "ended"
    BY <2>8
  <2> QED
    BY <2>1, <2>2, <2>5, <2>9, <2>10, <2>11, OwnTimeOfTick
<1>10. ASSUME UNCHANGED <<status, clock, index, csHist, lastWrite, notifQueue>>
       PROVE  OwnTimeInv'
  <2>1. KeptClocks' \subseteq KeptClocks \cup {}
    BY <1>10, KeptMembers, KeptAfterStep
  <2>2. \A w : \A v \in Threads : Behind(w, v)' <=> Behind(w, v)
    BY <1>10 DEF Behind
  <2>3. \A v, w \in Threads : Behind(clock[w], v)' <=> Behind(clock[w], v)
    BY <1>10 DEF Behind
  <2> QED
    BY <1>10, <2>1, <2>2, <2>3 DEF OwnTimeInv
<1>11. ASSUME NEW t \in Threads, InvalidEvent(t)
       PROVE  OwnTimeInv'
  BY <1>10, <1>11 DEF InvalidEvent, cvVars
<1>12. CASE UNCHANGED vars
  BY <1>10, <1>12 DEF vars, programVars, cvVars
<1> QED
  BY <1>1, <1>2, <1>3, <1>4, <1>5, <1>6, <1>7, <1>8, <1>9, <1>11, <1>12 DEF Next

\* A thread is ahead of what every kept clock and every other thread knows of it:
\* no event comes into the past of one that has happened.
THEOREM OwnTimeAhead == Spec => []OwnTimeIsAhead
<1>1. Init => TypeOK /\ OwnTimeInv
  BY TypeOfInit, OwnTimeOfInit
<1>2. TypeOK /\ OwnTimeInv /\ [Next]_vars => (TypeOK /\ OwnTimeInv)'
  BY TypeOfStep, OwnTimeOfStep
<1>3. OwnTimeInv => OwnTimeIsAhead
  BY OwnTimeInvImplies
<1> QED
  BY <1>1, <1>2, <1>3, PTL DEF Spec

-----------------------------------------------------------------------------
(* No reference dangles.                                                   *)

\* A request keeps the index consistent.
LEMMA LinkedByDepCreation ==
    ASSUME TypeOK, IndexConsistent, NEW t \in Threads, NEW res \in Resources,
           NEW loc \in SrcLocs, NEW evt \in Event, HandleDepCreation(t, res, loc, evt)
    PROVE  IndexConsistent'
<1> DEFINE d == [tid |-> t, res |-> res, lockset |-> Lockset(t)]
<1>1. d \in Dependency /\ d.tid = t
  BY DEF Dependency, Lockset, Resources
<1>2. /\ IndexType(index)
      /\ recent \in [Threads -> Seq(Dependency)]
      /\ IndexLinked(index)
      /\ \A u \in Threads : RecentLinked(recent[u], u, index)
  BY DEF TypeOK, IndexConsistent
<1>3. /\ index' = IF t \in NotifThreads \/ Lockset(t) # {}
                  THEN CreateDep(index, d, loc, evt) ELSE index
      /\ recent' = IF t \in NotifThreads
                   THEN [recent EXCEPT ![t] = Push(@, d)] ELSE recent
  BY DEF HandleDepCreation
<1> HIDE DEF d
<1>4. /\ IndexLinked(index')
      /\ index.absDeps \subseteq index'.absDeps
      /\ t \in NotifThreads => d \in index'.absDeps
  BY <1>1, <1>2, <1>3, CreateDepFacts
<1>5. \A u \in Threads : RecentLinked(recent[u], u, index')
  BY <1>2, <1>4 DEF RecentLinked
<1>6. t \in NotifThreads => RecentLinked(Push(recent[t], d), t, index')
  <2> HAVE t \in NotifThreads
  <2>1. /\ recent[t] \in Seq(Dependency)
        /\ NoDuplicates(recent[t])
        /\ Len(recent[t]) <= Capacity
    BY <1>2 DEF RecentLinked
  <2>2. /\ NoDuplicates(Push(recent[t], d))
        /\ Len(Push(recent[t], d)) <= Capacity
        /\ Elements(Push(recent[t], d)) \subseteq Elements(recent[t]) \cup {d}
    BY <1>1, <2>1, PushFacts
  <2>3. Elements(recent[t]) \subseteq {e \in index'.absDeps : e.tid = t}
    BY <1>5 DEF RecentLinked
  <2>4. d \in index'.absDeps
    BY <1>4
  <2> QED
    BY <1>1, <2>2, <2>3, <2>4 DEF RecentLinked
<1>7. \A u \in Threads : RecentLinked(recent'[u], u, index')
  BY <1>2, <1>3, <1>5, <1>6
<1> QED
  BY <1>4, <1>7 DEF IndexConsistent

\* The loop of notify_event over the recent dependencies keeps the index consistent.
LEMMA LinkedByNotify ==
    ASSUME TypeOK, IndexConsistent, NEW t \in Threads, NEW c \in Resources,
           index' = UpdateRecent(index, recent[t], c).index,
           recent' = [recent EXCEPT ![t] = UpdateRecent(index, recent[t], c).list]
    PROVE  IndexConsistent'
<1> DEFINE out == UpdateRecent(index, recent[t], c)
<1>1. /\ IndexType(index)
      /\ recent \in [Threads -> Seq(Dependency)]
      /\ IndexLinked(index)
      /\ \A u \in Threads : RecentLinked(recent[u], u, index)
  BY DEF TypeOK, IndexConsistent
<1>2. /\ IndexLinked(out.index)
      /\ RecentLinked(out.list, t, out.index)
      /\ \A d \in index.absDeps : d.tid # t => d \in out.index.absDeps
  BY <1>1, UpdateRecentLinked
<1>3. index' = out.index /\ recent' = [recent EXCEPT ![t] = out.list]
  OBVIOUS
<1> HIDE DEF out
<1>4. \A u \in Threads : u # t => RecentLinked(recent[u], u, out.index)
  BY <1>1, <1>2 DEF RecentLinked
<1>5. \A u \in Threads : recent'[u] = IF u = t THEN out.list ELSE recent[u]
  BY <1>1, <1>3
<1>6. \A u \in Threads : RecentLinked(recent'[u], u, index')
  BY <1>2, <1>3, <1>4, <1>5
<1> QED
  BY <1>2, <1>3, <1>6 DEF IndexConsistent

\* The empty index is consistent.
LEMMA IndexOfInit == Init => IndexConsistent
<1> SUFFICES ASSUME Init
             PROVE  IndexConsistent
  OBVIOUS
<1>1. Elements(<<>>) = {} /\ NoDuplicates(<<>>) /\ Len(<<>>) = 0
  BY DEF Elements, NoDuplicates
<1>2. IndexLinked(index)
  <2>1. DOMAIN index.depEvents = {} /\ index.absDeps = {}
    BY DEF Init, EmptyIndex
  <2>2. \A r \in Resources : index.lockDepMap[r] = <<>>
    BY DEF Init, EmptyIndex
  <2> QED
    BY <1>1, <2>1, <2>2 DEF IndexLinked, PointTo
<1>3. \A t \in Threads : recent[t] = <<>>
  BY DEF Init
<1>4. \A t \in Threads : RecentLinked(recent[t], t, index)
  <2>1. 0 <= Capacity
    BY CapacityAssumption
  <2>2. \A t : RecentLinked(<<>>, t, index)
    BY <1>1, <2>1 DEF RecentLinked
  <2> QED
    BY <1>3, <2>2
<1> QED
  BY <1>2, <1>4 DEF IndexConsistent

\* Every handler keeps the index consistent.
LEMMA IndexOfStep == TypeOK /\ IndexConsistent /\ [Next]_vars => IndexConsistent'
<1> SUFFICES ASSUME TypeOK, IndexConsistent, [Next]_vars
             PROVE  IndexConsistent'
  OBVIOUS
<1>1. ASSUME UNCHANGED <<index, recent>>
      PROVE  IndexConsistent'
  BY <1>1 DEF IndexConsistent
<1>2. ASSUME NEW t \in Threads, NEW c \in CondVars, NEW loc \in SrcLocs,
             WaitEvent(t, c, loc)
      PROVE  IndexConsistent'
  <2>1. CASE Alone
    BY <1>1, <1>2, <2>1 DEF WaitEvent
  <2>2. CASE ~Alone
    <3>1. HandleDepCreation(t, c, loc, [vc |-> clock[t], pos |-> pos])
      BY <1>2, <2>2 DEF WaitEvent
    <3>2. [vc |-> clock[t], pos |-> pos] \in Event /\ c \in Resources
      BY DEF TypeOK, Event, Resources
    <3> QED
      BY <3>1, <3>2, LinkedByDepCreation
  <2> QED
    BY <2>1, <2>2
<1>3. ASSUME NEW t \in Threads, NEW c \in CondVars, NEW all \in BOOLEAN,
             NotifyEvent(t, c, all)
      PROVE  IndexConsistent'
  <2>1. CASE Alone
    BY <1>1, <1>3, <2>1 DEF NotifyEvent
  <2>2. CASE ~Alone
    <3>1. /\ index' = UpdateRecent(index, recent[t], c).index
          /\ recent' = [recent EXCEPT ![t] = UpdateRecent(index, recent[t], c).list]
      BY <1>3, <2>2 DEF NotifyEvent
    <3> QED
      BY <3>1, ConstantTypes, LinkedByNotify
  <2> QED
    BY <2>1, <2>2
<1>4. ASSUME NEW t \in Threads, NEW l \in Locks, NEW loc \in SrcLocs,
             RequestEvent(t, l, loc)
      PROVE  IndexConsistent'
  <2>1. CASE Alone
    BY <1>1, <1>4, <2>1 DEF RequestEvent
  <2>2. CASE ~Alone
    <3> DEFINE vc == AwakeClock(t, Associated(l))
    <3>1. HandleDepCreation(t, l, loc, [vc |-> vc, pos |-> pos])
      BY <1>4, <2>2 DEF RequestEvent
    <3>2. vc \in Clock /\ l \in Resources
      BY ConstantTypes, TypeOfAwakeClock
    <3> HIDE DEF vc
    <3>3. [vc |-> vc, pos |-> pos] \in Event
      BY <3>2 DEF TypeOK, Event
    <3> QED
      BY <3>1, <3>2, <3>3, LinkedByDepCreation
  <2> QED
    BY <2>1, <2>2
<1>5. ASSUME NEW t \in Threads, NEW x \in Vars, ReadEvent(t, x) \/ WriteEvent(t, x)
      PROVE  IndexConsistent'
  BY <1>1, <1>5 DEF ReadEvent, WriteEvent
<1>6. ASSUME NEW t \in Threads, NEW l \in Locks, AcquireEvent(t, l) \/ ReleaseEvent(t, l)
      PROVE  IndexConsistent'
  BY <1>1, <1>6 DEF AcquireEvent, ReleaseEvent
<1>7. ASSUME NEW t \in Threads, NEW u \in Threads, ForkEvent(t, u) \/ JoinEvent(t, u)
      PROVE  IndexConsistent'
  BY <1>1, <1>7 DEF ForkEvent, JoinEvent
<1>8. ASSUME NEW t \in Threads, InvalidEvent(t)
      PROVE  IndexConsistent'
  BY <1>1, <1>8 DEF InvalidEvent
<1>9. CASE UNCHANGED vars
  BY <1>1, <1>9 DEF vars
<1> QED
  BY <1>2, <1>3, <1>4, <1>5, <1>6, <1>7, <1>8, <1>9 DEF Next

\* Whatever the trace, each dependency that lock_dep_map, dep_loc_ev_map or a recent
\* list refers to is in abs_deps, and each is referred to as often as it should be.
THEOREM IndexStaysConsistent == Spec => []IndexConsistent
<1>1. Init => TypeOK /\ IndexConsistent
  BY TypeOfInit, IndexOfInit
<1>2. TypeOK /\ IndexConsistent /\ [Next]_vars => (TypeOK /\ IndexConsistent)'
  BY TypeOfStep, IndexOfStep
<1> QED
  BY <1>1, <1>2, PTL DEF Spec
-----------------------------------------------------------------------------
(* The critical sections that the handler records are well formed: what    *)
(* DeadlockChecker takes for granted when it searches them by halving and  *)
(* compares those of two threads.                                          *)

\* The sections cs that one thread has at a lock, the last of which is open or
\* not, in a trace of p events.
ThreadSections(cs, open, p) ==
    /\ \A i \in DOMAIN cs : cs[i].lock.pos \in 0..(p - 1) /\ cs[i].unlock.pos < p
    /\ \A i, j \in DOMAIN cs : i < j => Before(cs[i], cs[j])
    /\ \A i \in DOMAIN cs : IF i = Len(cs) /\ open THEN cs[i].unlock = NoEvent
                            ELSE cs[i].lock.pos < cs[i].unlock.pos
    /\ open => cs # <<>>

\* Two threads never overlap.
Apart(cs, ds) ==
    \A i \in DOMAIN cs, j \in DOMAIN ds : Before(cs[i], ds[j]) \/ Before(ds[j], cs[i])

\* The sections h of all threads at a lock that the threads in owners hold.
LockSections(h, owners, p) ==
    /\ \A t, u \in owners : t = u
    /\ \A t \in Threads : ThreadSections(h[t], t \in owners, p)
    /\ \A t, u \in Threads : t # u => Apart(h[t], h[u])

Owners(l) == {t \in Threads : Holds(t, l)}

\* The strengthening: at most one thread holds a lock, and the trace has come past
\* every section.
SectionsInv == \A l \in Locks : LockSections(csHist[l], Owners(l), pos)

\* The inductive invariant implies the property.
LEMMA SectionsInvImplies == TypeOK /\ SectionsInv => SectionsWellFormed
<1> SUFFICES ASSUME TypeOK, SectionsInv, NEW l \in Locks, NEW t \in Threads
             PROVE  LET cs == csHist[l][t]
                    IN /\ \A i, j \in DOMAIN cs : i < j => Before(cs[i], cs[j])
                       /\ \A i \in DOMAIN cs :
                            IF i = Len(cs) /\ Holds(t, l) THEN cs[i].unlock = NoEvent
                            ELSE cs[i].lock.pos < cs[i].unlock.pos
                       /\ Holds(t, l) => cs # <<>>
                       /\ \A u \in Threads \ {t} :
                            \A s \in Elements(cs), r \in Elements(csHist[l][u]) :
                               Before(s, r) \/ Before(r, s)
  BY DEF SectionsWellFormed
<1>1. LockSections(csHist[l], Owners(l), pos) /\ (t \in Owners(l) <=> Holds(t, l))
  BY DEF SectionsInv, Owners
<1>2. ThreadSections(csHist[l][t], t \in Owners(l), pos)
  BY <1>1 DEF LockSections
<1>3. \A u \in Threads \ {t} : Apart(csHist[l][t], csHist[l][u])
  BY <1>1 DEF LockSections
<1>4. \A u \in Threads \ {t} :
         \A s \in Elements(csHist[l][t]), r \in Elements(csHist[l][u]) :
            Before(s, r) \/ Before(r, s)
  BY <1>3 DEF Apart, Elements
<1> QED
  BY <1>1, <1>2, <1>4 DEF ThreadSections

-----------------------------------------------------------------------------
(* What each kind of step does to the sections of one lock.                *)

\* Time passes: nothing is recorded for the lock.
LEMMA SectionsLater ==
    ASSUME NEW h, NEW owners, NEW p \in Nat, LockSections(h, owners, p),
           h \in [Threads -> Seq(CriticalSection)]
    PROVE  LockSections(h, owners, p + 1)
<1>1. \A t \in Threads : ThreadSections(h[t], t \in owners, p + 1)
  <2> TAKE t \in Threads
  <2>1. ThreadSections(h[t], t \in owners, p)
    BY DEF LockSections
  <2>2. \A i \in DOMAIN h[t] : h[t][i].unlock.pos \in Int
    <3>1. \A i \in DOMAIN h[t] : h[t][i] \in CriticalSection
      BY LenProperties, ElementOfSeq
    <3> QED
      BY <3>1 DEF CriticalSection, Event
  <2>3. \A i \in DOMAIN h[t] : h[t][i].lock.pos \in 0..p /\ h[t][i].unlock.pos < p + 1
    BY <2>1, <2>2 DEF ThreadSections
  <2> QED
    BY <2>1, <2>3 DEF ThreadSections
<1> QED
  BY <1>1 DEF LockSections

\* add_lock_ev: a thread takes a lock that nobody holds.
LEMMA SectionsOpen ==
    ASSUME NEW h \in [Threads -> Seq(CriticalSection)], NEW p \in Nat,
           LockSections(h, {}, p), NEW t \in Threads, NEW s \in CriticalSection,
           s.lock.pos = p, s.unlock = NoEvent
    PROVE  LockSections([h EXCEPT ![t] = Append(@, s)], {t}, p + 1)
<1> DEFINE new == Append(h[t], s)
           n == Len(h[t])
<1>1. /\ h[t] \in Seq(CriticalSection) /\ DOMAIN h[t] = 1..n /\ n \in Nat
      /\ DOMAIN new = 1..(n + 1) /\ Len(new) = n + 1
      /\ \A i \in 1..n : new[i] = h[t][i]
      /\ new[n + 1] = s
  BY AppendProperties, LenProperties
<1>2. LockSections(h, {}, p + 1)
  BY SectionsLater
<1>3. NoEvent.pos = -1
  BY DEF NoEvent
<1>4. ASSUME NEW u \in Threads, NEW i \in DOMAIN h[u]
      PROVE  Before(h[u][i], s)
  <2>1. ThreadSections(h[u], u \in {}, p)
    BY DEF LockSections
  <2>2. /\ h[u][i].lock.pos \in 0..(p - 1) /\ h[u][i].unlock.pos < p
        /\ h[u][i].lock.pos < h[u][i].unlock.pos
    BY <2>1 DEF ThreadSections
  <2>3. h[u][i].unlock # NoEvent
    BY <1>3, <2>2
  <2> QED
    BY <2>2, <2>3 DEF Before
<1>5. ThreadSections(new, t \in {t}, p + 1)
  <2> HIDE DEF new
  <2>1. ThreadSections(h[t], t \in {}, p + 1)
    BY <1>2 DEF LockSections
  <2>2. \A i \in DOMAIN new : new[i].lock.pos \in 0..(p + 1 - 1) /\ new[i].unlock.pos < p + 1
    BY <1>1, <1>3, <2>1 DEF ThreadSections
  <2>3. \A i, j \in DOMAIN new : i < j => Before(new[i], new[j])
    BY <1>1, <1>4, <2>1 DEF ThreadSections
  <2>4. \A i \in DOMAIN new : IF i = Len(new) THEN new[i].unlock = NoEvent
                              ELSE new[i].lock.pos < new[i].unlock.pos
    BY <1>1, <2>1 DEF ThreadSections
  <2>5. new # <<>>
    BY <1>1
  <2> QED
    BY <2>2, <2>3, <2>4, <2>5 DEF ThreadSections
<1>6. ASSUME NEW u \in Threads, u # t
      PROVE  Apart(new, h[u]) /\ Apart(h[u], new)
  <2>1. Apart(h[t], h[u]) /\ Apart(h[u], h[t])
    BY <1>2, <1>6 DEF LockSections
  <2>2. \A i \in DOMAIN new : new[i] = s \/ (i \in DOMAIN h[t] /\ new[i] = h[t][i])
    BY <1>1
  <2>3. \A j \in DOMAIN h[u] : Before(h[u][j], s)
    BY <1>4
  <2> HIDE DEF new
  <2> QED
    BY <2>1, <2>2, <2>3 DEF Apart
<1> DEFINE after == [h EXCEPT ![t] = new]
<1>7. \A u \in Threads : after[u] = IF u = t THEN new ELSE h[u]
  OBVIOUS
<1>8. \A u \in Threads \ {t} : ThreadSections(h[u], u \in {t}, p + 1)
  BY <1>2 DEF LockSections, ThreadSections
<1> HIDE DEF new, after
<1>9. \A u \in Threads : ThreadSections(after[u], u \in {t}, p + 1)
  BY <1>5, <1>7, <1>8
<1>10. \A u, v \in Threads : u # v => Apart(after[u], after[v])
  BY <1>2, <1>6, <1>7 DEF LockSections
<1>11. LockSections(after, {t}, p + 1)
  BY <1>9, <1>10 DEF LockSections
<1> QED
  BY <1>11 DEF after, new

\* add_unlock_ev: the thread that holds the lock gives it back.
LEMMA SectionsClose ==
    ASSUME NEW h \in [Threads -> Seq(CriticalSection)], NEW p \in Nat, NEW t \in Threads,
           LockSections(h, {t}, p), NEW evt \in Event, evt.pos = p
    PROVE  LockSections([h EXCEPT ![t] = CloseLast(@, evt)], {}, p + 1)
<1> DEFINE old == h[t]
           new == CloseLast(old, evt)
           n == Len(old)
           after == [h EXCEPT ![t] = new]
<1>1. old \in Seq(CriticalSection) /\ DOMAIN old = 1..n /\ n \in Nat
  BY LenProperties
<1>2. /\ DOMAIN new = 1..n /\ Len(new) = n
      /\ \A i \in 1..n : /\ new[i].lock = old[i].lock
                         /\ new[i].unlock = IF i = n THEN evt ELSE old[i].unlock
  BY <1>1, CloseLastFacts, LenProperties, ZenonT(40)
<1>3. /\ ThreadSections(old, t \in {t}, p)
      /\ \A u \in Threads \ {t} : ThreadSections(h[u], u \in {t}, p + 1)
      /\ \A u \in Threads \ {t} : Apart(old, h[u]) /\ Apart(h[u], old)
  BY SectionsLater DEF LockSections
<1> HIDE DEF old, new, n
<1>4. /\ \A i \in 1..n : old[i].lock.pos \in 0..(p - 1)
      /\ \A i \in 1..n : i # n => old[i].lock.pos < old[i].unlock.pos /\ old[i].unlock.pos < p
      /\ \A i, j \in 1..n : i < j => Before(old[i], old[j])
      /\ n \in 1..n => old[n].unlock = NoEvent
  BY <1>1, <1>3 DEF ThreadSections, n
<1>5. \A i \in 1..n : \A r : Before(r, old[i]) => Before(r, new[i])
  BY <1>2 DEF Before
<1>6. \A i \in 1..n : \A r : Before(old[i], r) => i # n /\ Before(new[i], r)
  BY <1>2, <1>4 DEF Before
<1>7. ThreadSections(new, t \in {}, p + 1)
  <2>1. \A i \in DOMAIN new : new[i].lock.pos \in 0..(p + 1 - 1) /\ new[i].unlock.pos < p + 1
    <3> SUFFICES ASSUME NEW i \in 1..n
                 PROVE  new[i].lock.pos \in 0..p /\ new[i].unlock.pos < p + 1
      BY <1>2
    <3>1. new[i].lock.pos \in 0..p
      BY <1>2, <1>4
    <3>2. CASE i = n
      BY <1>2, <3>1, <3>2
    <3>3. CASE i # n
      <4>1. old[i] \in CriticalSection
        BY <1>1, ElementOfSeq DEF n
      <4>2. old[i].unlock.pos \in Int
        BY <4>1 DEF CriticalSection, Event
      <4> QED
        BY <1>2, <1>4, <3>1, <3>3, <4>2
    <3> QED
      BY <3>2, <3>3
  <2>2. \A i, j \in DOMAIN new : i < j => Before(new[i], new[j])
    BY <1>2, <1>4, <1>5, <1>6
  <2>3. \A i \in DOMAIN new : new[i].lock.pos < new[i].unlock.pos
    BY <1>2, <1>4, SMTT(30)
  <2> QED
    BY <2>1, <2>2, <2>3 DEF ThreadSections
<1>8. \A u \in Threads \ {t} : Apart(new, h[u]) /\ Apart(h[u], new)
  BY <1>1, <1>2, <1>3, <1>5, <1>6 DEF Apart
<1>9. \A u \in Threads : after[u] = IF u = t THEN new ELSE h[u]
  OBVIOUS
<1>10. \A u, v \in Threads \ {t} : u # v => Apart(h[u], h[v])
  BY DEF LockSections
<1> HIDE DEF after
<1>11. \A u \in Threads : ThreadSections(after[u], u \in {}, p + 1)
  <2>1. \A u \in Threads \ {t} : ThreadSections(h[u], u \in {}, p + 1)
    BY <1>3 DEF ThreadSections
  <2> QED
    BY <1>7, <1>9, <2>1
<1>12. \A u, v \in Threads : u # v => Apart(after[u], after[v])
  BY <1>8, <1>9, <1>10
<1>13. LockSections(after, {}, p + 1)
  BY <1>11, <1>12 DEF LockSections
<1> QED
  BY <1>13 DEF after, new, old

-----------------------------------------------------------------------------
(* The invariant is inductive.                                             *)

\* No section is recorded before the trace begins.
LEMMA SectionsOfInit == Init => SectionsInv
<1> SUFFICES ASSUME Init, NEW l \in Locks
             PROVE  LockSections(csHist[l], Owners(l), pos)
  BY DEF SectionsInv
<1>1. Owners(l) = {}
  BY DEF Init, Owners, Holds
<1>2. \A t \in Threads : csHist[l][t] = <<>>
  BY DEF Init
<1>3. DOMAIN <<>> = {}
  OBVIOUS
<1> QED
  BY <1>1, <1>2, <1>3 DEF LockSections, ThreadSections, Apart

\* A handler that leaves locks alone keeps the sections well formed.
LEMMA SectionsOfOther ==
    ASSUME TypeOK, SectionsInv, UNCHANGED <<held, csHist>>, pos' = pos + 1
    PROVE  SectionsInv'
<1> SUFFICES ASSUME NEW l \in Locks
             PROVE  LockSections(csHist[l], Owners(l)', pos + 1)
  BY DEF SectionsInv
<1>1. Owners(l)' = Owners(l)
  BY DEF Owners, Holds
<1>2. LockSections(csHist[l], Owners(l), pos)
  BY DEF SectionsInv
<1>3. csHist[l] \in [Threads -> Seq(CriticalSection)] /\ pos \in Nat
  BY DEF TypeOK
<1> QED
  BY <1>1, <1>2, <1>3, SectionsLater

\* Every handler keeps the sections well formed.
LEMMA SectionsOfStep == TypeOK /\ SectionsInv /\ [Next]_vars => SectionsInv'
<1> SUFFICES ASSUME TypeOK, SectionsInv, [Next]_vars
             PROVE  SectionsInv'
  OBVIOUS
<1>1. /\ pos \in Nat
      /\ \A k \in Locks : csHist[k] \in [Threads -> Seq(CriticalSection)]
      /\ \A u \in Threads : clock[u] \in Clock
      /\ held \in [Threads -> [Locks -> Nat]]
      /\ csHist \in [Locks -> [Threads -> Seq(CriticalSection)]]
  BY DEF TypeOK
<1>2. ASSUME NEW t \in Threads, NEW l \in Locks, AcquireEvent(t, l)
      PROVE  SectionsInv'
  <2> DEFINE s == [lock |-> [vc |-> clock[t], pos |-> pos], unlock |-> NoEvent]
  <2>1. /\ \A u \in Threads \ {t} : ~Holds(u, l)
        /\ held' = [held EXCEPT ![t][l] = @ + 1]
        /\ csHist' = IF held'[t][l] = 1
                     THEN [csHist EXCEPT ![l][t] = Append(@, s)] ELSE csHist
        /\ pos' = pos + 1
    BY <1>2 DEF AcquireEvent, Tick
  <2>2. \A u \in Threads, k \in Locks :
           held'[u][k] = IF u = t /\ k = l THEN held[t][l] + 1 ELSE held[u][k]
    BY <1>1, <2>1
  <2>3. s \in CriticalSection /\ s.lock.pos = pos /\ s.unlock = NoEvent
    BY <1>1, ConstantTypes DEF CriticalSection, Event
  <2> HIDE DEF s
  <2>4. Owners(l)' = {t}
    BY <1>1, <2>1, <2>2 DEF Owners, Holds
  <2>5. LockSections(csHist'[l], {t}, pos + 1)
    <3>1. CASE held[t][l] = 0
      <4>1. Owners(l) = {}
        BY <2>1, <3>1 DEF Owners, Holds
      <4>2. LockSections(csHist[l], {}, pos)
        BY <4>1 DEF SectionsInv
      <4>3. csHist'[l] = [csHist[l] EXCEPT ![t] = Append(@, s)]
        BY <1>1, <2>1, <2>2, <3>1
      <4>4. LockSections([csHist[l] EXCEPT ![t] = Append(@, s)], {t}, pos + 1)
        BY <1>1, <2>3, <4>2, SectionsOpen
      <4> QED
        BY <4>3, <4>4
    <3>2. CASE held[t][l] # 0
      <4>1. csHist' = csHist /\ Owners(l) = {t}
        BY <1>1, <2>1, <2>2, <3>2 DEF Owners, Holds
      <4>2. LockSections(csHist[l], {t}, pos)
        BY <4>1 DEF SectionsInv
      <4> QED
        BY <1>1, <4>1, <4>2, SectionsLater
    <3> QED
      BY <3>1, <3>2
  <2>6. ASSUME NEW k \in Locks, k # l
        PROVE  LockSections(csHist'[k], Owners(k)', pos + 1)
    <3>1. csHist'[k] = csHist[k] /\ Owners(k)' = Owners(k)
      BY <1>1, <2>1, <2>2, <2>6 DEF Owners, Holds
    <3> QED
      BY <1>1, <3>1, SectionsLater DEF SectionsInv
  <2> QED
    BY <2>1, <2>4, <2>5, <2>6 DEF SectionsInv
<1>3. ASSUME NEW t \in Threads, NEW l \in Locks, ReleaseEvent(t, l)
      PROVE  SectionsInv'
  <2> DEFINE evt == [vc |-> clock[t], pos |-> pos]
  <2>1. /\ Holds(t, l)
        /\ held' = [held EXCEPT ![t][l] = @ - 1]
        /\ csHist' = IF held'[t][l] = 0
                     THEN [csHist EXCEPT ![l][t] = CloseLast(@, evt)] ELSE csHist
        /\ pos' = pos + 1
    BY <1>3 DEF ReleaseEvent, Tick
  <2>2. \A u \in Threads, k \in Locks :
           held'[u][k] = IF u = t /\ k = l THEN held[t][l] - 1 ELSE held[u][k]
    BY <1>1, <2>1
  <2>3. evt \in Event /\ evt.pos = pos
    BY <1>1 DEF Event
  <2> HIDE DEF evt
  <2>4. LockSections(csHist[l], {t}, pos) /\ Owners(l) = {t}
    <3>1. LockSections(csHist[l], Owners(l), pos)
      BY DEF SectionsInv
    <3>2. t \in Owners(l) /\ \A u \in Owners(l) : u = t
      BY <2>1, <3>1 DEF LockSections, Owners
    <3>3. Owners(l) = {t}
      BY <3>2
    <3> QED
      BY <3>1, <3>3
  <2>5. LockSections(csHist'[l], Owners(l)', pos + 1)
    <3>1. CASE held'[t][l] = 0
      <4>1. Owners(l)' = {}
        BY <2>2, <2>4, <3>1 DEF Owners, Holds
      <4>2. csHist'[l] = [csHist[l] EXCEPT ![t] = CloseLast(@, evt)]
        BY <1>1, <2>1, <3>1
      <4>3. LockSections([csHist[l] EXCEPT ![t] = CloseLast(@, evt)], {}, pos + 1)
        BY <1>1, <2>3, <2>4, SectionsClose
      <4> QED
        BY <4>1, <4>2, <4>3
    <3>2. CASE held'[t][l] # 0
      <4>1. held[t][l] \in Nat /\ held[t][l] > 0
        BY <1>1, <2>1 DEF Holds
      <4>2. csHist' = csHist /\ Owners(l)' = Owners(l)
        BY <2>1, <2>2, <3>2, <4>1 DEF Owners, Holds
      <4> QED
        BY <1>1, <2>4, <4>2, SectionsLater
    <3> QED
      BY <3>1, <3>2
  <2>6. ASSUME NEW k \in Locks, k # l
        PROVE  LockSections(csHist'[k], Owners(k)', pos + 1)
    <3>1. csHist'[k] = csHist[k] /\ Owners(k)' = Owners(k)
      BY <1>1, <2>1, <2>2, <2>6 DEF Owners, Holds
    <3> QED
      BY <1>1, <3>1, SectionsLater DEF SectionsInv
  <2> QED
    BY <2>1, <2>5, <2>6 DEF SectionsInv
<1>4. ASSUME NEW t \in Threads, NEW x \in Vars, ReadEvent(t, x) \/ WriteEvent(t, x)
      PROVE  SectionsInv'
  BY <1>4, SectionsOfOther DEF ReadEvent, WriteEvent, Tick
<1>5. ASSUME NEW t \in Threads, NEW c \in CondVars, NEW loc \in SrcLocs,
             WaitEvent(t, c, loc)
      PROVE  SectionsInv'
  BY <1>5, SectionsOfOther DEF WaitEvent, Tick
<1>6. ASSUME NEW t \in Threads, NEW c \in CondVars, NEW all \in BOOLEAN,
             NotifyEvent(t, c, all)
      PROVE  SectionsInv'
  BY <1>6, SectionsOfOther DEF NotifyEvent, Tick
<1>7. ASSUME NEW t \in Threads, NEW l \in Locks, NEW loc \in SrcLocs,
             RequestEvent(t, l, loc)
      PROVE  SectionsInv'
  BY <1>7, SectionsOfOther DEF RequestEvent, Tick
<1>8. ASSUME NEW t \in Threads, NEW u \in Threads, ForkEvent(t, u) \/ JoinEvent(t, u)
      PROVE  SectionsInv'
  BY <1>8, SectionsOfOther DEF ForkEvent, JoinEvent, Tick
<1>9. ASSUME NEW t \in Threads, InvalidEvent(t)
      PROVE  SectionsInv'
  BY <1>9, SectionsOfOther DEF InvalidEvent
<1>10. CASE UNCHANGED vars
  <2>1. UNCHANGED <<pos, held, csHist>>
    BY <1>10 DEF vars
  <2> QED
    BY <2>1 DEF SectionsInv, Owners, Holds
<1> QED
  BY <1>2, <1>3, <1>4, <1>5, <1>6, <1>7, <1>8, <1>9, <1>10 DEF Next

\* Whatever the trace, the critical sections of a lock are recorded in the order in
\* which they happened, each closed but for the one of the thread that holds the lock,
\* and no two of them overlap.
THEOREM SectionsStayWellFormed == Spec => []SectionsWellFormed
<1>1. Init => TypeOK /\ SectionsInv
  BY TypeOfInit, SectionsOfInit
<1>2. TypeOK /\ SectionsInv /\ [Next]_vars => (TypeOK /\ SectionsInv)'
  BY TypeOfStep, SectionsOfStep
<1>3. TypeOK /\ SectionsInv => SectionsWellFormed
  BY SectionsInvImplies
<1> QED
  BY <1>1, <1>2, <1>3, PTL DEF Spec
=============================================================================
