--------------------------- MODULE RequestProofs ---------------------------
(***************************************************************************)
(* The requests and waits that the event handler keeps, beside the log of  *)
(* the trace: the lists of dep_loc_ev_map hold each of them once, at the   *)
(* dependency that it is an instance of, however the notifies move them.   *)
(***************************************************************************)
EXTENDS HappensBeforeProofs

-----------------------------------------------------------------------------
(* The event lists.                                                        *)

\* create_dep appends its event to one list.
LEMMA EventsAfterCreate ==
    ASSUME NEW ix, IndexType(ix), NEW d, NEW loc \in SrcLocs, NEW evt
    PROVE  LET new == CreateDep(ix, d, loc, evt)
           IN /\ EventsOf(new, d)[loc] = Append(EventsOf(ix, d)[loc], evt)
              /\ \A e, l : l \in SrcLocs /\ (e # d \/ l # loc) =>
                    EventsOf(new, e)[l] = EventsOf(ix, e)[l]
<1> DEFINE new == CreateDep(ix, d, loc, evt)
           own == [EventsOf(ix, d) EXCEPT ![loc] = Append(@, evt)]
<1>1. new.depEvents = [e \in DOMAIN ix.depEvents \cup {d} |->
                         IF e = d THEN own ELSE ix.depEvents[e]]
  BY DEF CreateDep
<1>2. DOMAIN new.depEvents = DOMAIN ix.depEvents \cup {d}
  BY <1>1
<1>3. \A e \in DOMAIN new.depEvents : new.depEvents[e] = IF e = d THEN own ELSE ix.depEvents[e]
  BY <1>1
<1>4. \A l \in SrcLocs : own[l] = IF l = loc THEN Append(EventsOf(ix, d)[loc], evt)
                                            ELSE EventsOf(ix, d)[l]
  BY EventsOfFacts
<1> HIDE DEF new, own
<1>5. ASSUME NEW e, NEW l \in SrcLocs
      PROVE  /\ e = d /\ l = loc =>
                   EventsOf(new, e)[l] = Append(EventsOf(ix, d)[loc], evt)
             /\ e # d \/ l # loc => EventsOf(new, e)[l] = EventsOf(ix, e)[l]
  <2>1. CASE e = d
    <3>1. EventsOf(new, e) = own
      BY <1>2, <1>3, <2>1 DEF EventsOf
    <3> QED
      BY <1>4, <2>1, <3>1
  <2>2. CASE e # d
    <3>1. EventsOf(new, e) = EventsOf(ix, e)
      BY <1>2, <1>3, <2>2 DEF EventsOf
    <3> QED
      BY <2>2, <3>1
  <2> QED
    BY <2>1, <2>2
<1> QED
  BY <1>5 DEF new

\* update_dep moves the lists of a dependency behind those of the one that has the
\* condition variable too.
LEMMA EventsAfterUpdate ==
    ASSUME NEW ix, IndexType(ix), DOMAIN ix.depEvents = ix.absDeps,
           NEW old \in Dependency, NEW r \in Resources, r \notin old.lockset
    PROVE  \A e, l : l \in SrcLocs => EventsOf(UpdateDep(ix, old, r), e)[l] =
              IF e = WithResource(old, r)
              THEN EventsOf(ix, WithResource(old, r))[l] \o EventsOf(ix, old)[l]
              ELSE IF e = old THEN <<>> ELSE EventsOf(ix, e)[l]
<1> DEFINE new == UpdateDep(ix, old, r)
           dep == WithResource(old, r)
           moved == EventsOf(ix, old)
           merged == [loc \in SrcLocs |-> EventsOf(ix, dep)[loc] \o moved[loc]]
           own == IF dep \in ix.absDeps THEN merged ELSE moved
<1>1. new.depEvents = [e \in (DOMAIN ix.depEvents \ {old}) \cup {dep} |->
                         IF e # dep THEN ix.depEvents[e] ELSE own]
  BY DEF UpdateDep
<1>2. DOMAIN new.depEvents = (DOMAIN ix.depEvents \ {old}) \cup {dep}
  BY <1>1
<1>3. \A e \in DOMAIN new.depEvents : new.depEvents[e] = IF e # dep THEN ix.depEvents[e] ELSE own
  BY <1>1
<1>4. dep # old
  BY WithResourceType
<1>5. \A l \in SrcLocs : own[l] = EventsOf(ix, dep)[l] \o EventsOf(ix, old)[l]
  <2>1. CASE dep \in ix.absDeps
    BY <2>1
  <2>2. CASE dep \notin ix.absDeps
    <3>1. own = moved
      BY <2>2
    <3>2. \A l \in SrcLocs : EventsOf(ix, dep)[l] = <<>>
      BY <2>2 DEF EventsOf
    <3>3. \A l \in SrcLocs : EventsOf(ix, old)[l] \in Seq(Event)
      BY EventsOfFacts
    <3>4. \A l \in SrcLocs : <<>> \o EventsOf(ix, old)[l] = EventsOf(ix, old)[l]
      BY <3>3
    <3> QED
      BY <3>1, <3>2, <3>4
  <2> QED
    BY <2>1, <2>2
<1> HIDE DEF new, own, dep, moved, merged
<1>6. ASSUME NEW e, NEW l \in SrcLocs
      PROVE  EventsOf(new, e)[l] = IF e = dep THEN EventsOf(ix, dep)[l] \o EventsOf(ix, old)[l]
                                   ELSE IF e = old THEN <<>> ELSE EventsOf(ix, e)[l]
  <2>1. CASE e = dep
    <3>1. EventsOf(new, e) = own
      BY <1>2, <1>3, <2>1 DEF EventsOf
    <3> QED
      BY <1>5, <2>1, <3>1
  <2>2. CASE e = old
    <3>1. e \notin DOMAIN new.depEvents
      BY <1>2, <1>4, <2>2
    <3>2. EventsOf(new, e) = [loc \in SrcLocs |-> <<>>]
      BY <3>1 DEF EventsOf
    <3> QED
      BY <1>4, <2>2, <3>2
  <2>3. CASE e # dep /\ e # old
    <3>1. EventsOf(new, e) = EventsOf(ix, e)
      BY <1>2, <1>3, <2>3 DEF EventsOf
    <3> QED
      BY <2>3, <3>1
  <2> QED
    BY <2>1, <2>2, <2>3
<1> QED
  BY <1>6 DEF new, dep

-----------------------------------------------------------------------------
(* What the lists hold.                                                    *)

\* handle_dep_creation must keep the event of this entry.
MustKeep(x) ==
    x.type \in {"REQ", "WAIT"} /\ ~x.alone /\ (x.tid \in NotifThreads \/ x.locks # {})

\* The i-th event of d at loc is the one at position p.
ListedAt(ix, d, loc, i, p) ==
    i \in 1..Len(EventsOf(ix, d)[loc]) /\ EventsOf(ix, d)[loc][i].pos = p

\* The event of this entry is an instance of d at loc; S are the condition variables
\* that d may have.
InstanceOf(x, S, d, loc) ==
    /\ MustKeep(x)
    /\ d.tid = x.tid /\ d.res = x.target /\ loc = x.loc
    /\ d.lockset \cap Locks = x.locks /\ d.lockset \cap CondVars \subseteq S

\* Each event that must be kept is in one list and in no other, and they are instances
\* of their dependencies, where N[p] holds the condition variables notified since p.
Listed(ix, lg, N) ==
    /\ \A p \in PositionsOf(lg) : MustKeep(lg[p + 1]) =>
          \E d \in Dependency, loc \in SrcLocs : \E i : ListedAt(ix, d, loc, i, p)
    /\ \A d, e \in Dependency, l, m \in SrcLocs : \A i, j, p :
          ListedAt(ix, d, l, i, p) /\ ListedAt(ix, e, m, j, p) => d = e /\ l = m /\ i = j
    /\ \A d \in Dependency, loc \in SrcLocs : \A i, p : ListedAt(ix, d, loc, i, p) =>
          p \in PositionsOf(lg) /\ InstanceOf(lg[p + 1], N[p], d, loc)

\* An event that need not be kept changes no list.
LEMMA ListedAfterOther ==
    ASSUME NEW ix, NEW lg, NEW N, Listed(ix, lg, N), NEW lg2, NEW N2, NEW n,
           PositionsOf(lg2) = PositionsOf(lg) \cup {n}, ~MustKeep(lg2[n + 1]),
           \A p \in PositionsOf(lg) : lg2[p + 1] = lg[p + 1] /\ N[p] \subseteq N2[p]
    PROVE  Listed(ix, lg2, N2)
<1>1. \A p \in PositionsOf(lg2) : MustKeep(lg2[p + 1]) =>
         \E d \in Dependency, loc \in SrcLocs : \E i : ListedAt(ix, d, loc, i, p)
  BY DEF Listed
<1>2. \A d \in Dependency, loc \in SrcLocs : \A i, p : ListedAt(ix, d, loc, i, p) =>
         p \in PositionsOf(lg2) /\ InstanceOf(lg2[p + 1], N2[p], d, loc)
  <2> SUFFICES ASSUME NEW d \in Dependency, NEW loc \in SrcLocs, NEW i, NEW p,
                      ListedAt(ix, d, loc, i, p)
               PROVE  p \in PositionsOf(lg2) /\ InstanceOf(lg2[p + 1], N2[p], d, loc)
    OBVIOUS
  <2>1. p \in PositionsOf(lg) /\ InstanceOf(lg[p + 1], N[p], d, loc)
    BY DEF Listed
  <2>2. lg2[p + 1] = lg[p + 1] /\ N[p] \subseteq N2[p]
    BY <2>1
  <2> QED
    BY <2>1, <2>2 DEF InstanceOf
<1> QED
  BY <1>1, <1>2 DEF Listed

\* Where the events are after create_dep: where they were, and the new one at the end.
LEMMA PlacesAfterCreate ==
    ASSUME NEW ix, IndexType(ix), NEW d \in Dependency, NEW loc \in SrcLocs, NEW evt \in Event
    PROVE  \A e \in Dependency, l \in SrcLocs : \A i, p :
              ListedAt(CreateDep(ix, d, loc, evt), e, l, i, p) <=>
                 \/ ListedAt(ix, e, l, i, p)
                 \/ /\ e = d /\ l = loc /\ i = Len(EventsOf(ix, d)[loc]) + 1 /\ p = evt.pos
<1> DEFINE new == CreateDep(ix, d, loc, evt)
           s == EventsOf(ix, d)[loc]
<1>1. /\ EventsOf(new, d)[loc] = Append(s, evt)
      /\ \A e, l : l \in SrcLocs /\ (e # d \/ l # loc) => EventsOf(new, e)[l] = EventsOf(ix, e)[l]
  BY EventsAfterCreate
<1>2. s \in Seq(Event)
  BY EventsOfFacts
<1> HIDE DEF new, s
<1>3. /\ Len(s) \in Nat /\ Len(Append(s, evt)) = Len(s) + 1
      /\ \A i \in 1..Len(s) : Append(s, evt)[i] = s[i]
      /\ Append(s, evt)[Len(s) + 1] = evt
  BY <1>2, AppendProperties, LenProperties
<1>4. ASSUME NEW e \in Dependency, NEW l \in SrcLocs, NEW i, NEW p
      PROVE  ListedAt(new, e, l, i, p) <=>
                ListedAt(ix, e, l, i, p) \/ (e = d /\ l = loc /\ i = Len(s) + 1 /\ p = evt.pos)
  <2>1. CASE e = d /\ l = loc
    <3>1. ListedAt(new, e, l, i, p) <=>
             i \in 1..Len(Append(s, evt)) /\ Append(s, evt)[i].pos = p
      BY <1>1, <2>1 DEF ListedAt
    <3>2. ListedAt(ix, e, l, i, p) <=> i \in 1..Len(s) /\ s[i].pos = p
      BY <2>1 DEF ListedAt, s
    <3>3. CASE i \in 1..Len(s)
      <4>1. i \in 1..Len(Append(s, evt)) /\ i # Len(s) + 1
        BY <1>3, <3>3
      <4> QED
        BY <1>3, <3>1, <3>2, <3>3, <4>1
    <3>4. CASE i \notin 1..Len(s)
      <4>1. i \in 1..Len(Append(s, evt)) <=> i = Len(s) + 1
        BY <1>3, <3>4
      <4> QED
        BY <1>3, <2>1, <3>1, <3>2, <3>4, <4>1
    <3> QED
      BY <3>3, <3>4
  <2>2. CASE ~(e = d /\ l = loc)
    BY <1>1, <2>2 DEF ListedAt
  <2> QED
    BY <2>1, <2>2
<1> QED
  BY <1>4 DEF new, s

\* create_dep lists its event.
LEMMA ListedAfterCreate ==
    ASSUME NEW ix, IndexType(ix), NEW lg, NEW N, Listed(ix, lg, N), NEW lg2, NEW N2, NEW n,
           PositionsOf(lg2) = PositionsOf(lg) \cup {n}, n \notin PositionsOf(lg),
           \A p \in PositionsOf(lg) : lg2[p + 1] = lg[p + 1] /\ N[p] \subseteq N2[p],
           NEW d \in Dependency, NEW loc \in SrcLocs, NEW evt \in Event, evt.pos = n,
           InstanceOf(lg2[n + 1], N2[n], d, loc)
    PROVE  Listed(CreateDep(ix, d, loc, evt), lg2, N2)
<1> DEFINE new == CreateDep(ix, d, loc, evt)
           k == Len(EventsOf(ix, d)[loc]) + 1
<1>6. \A e \in Dependency, l \in SrcLocs : \A i, p :
         ListedAt(new, e, l, i, p) <=>
            \/ ListedAt(ix, e, l, i, p)
            \/ e = d /\ l = loc /\ i = k /\ p = n
  BY PlacesAfterCreate
<1> HIDE DEF new, k
<1>7. \A e \in Dependency, l \in SrcLocs : \A i, p : ListedAt(ix, e, l, i, p) =>
         p \in PositionsOf(lg) /\ InstanceOf(lg[p + 1], N[p], e, l)
  BY DEF Listed
<1>8. ASSUME NEW p \in PositionsOf(lg2), MustKeep(lg2[p + 1])
      PROVE  \E e \in Dependency, l \in SrcLocs : \E i : ListedAt(new, e, l, i, p)
  <2>1. CASE p = n
    BY <1>6, <2>1
  <2>2. CASE p # n
    <3>1. p \in PositionsOf(lg) /\ MustKeep(lg[p + 1])
      BY <1>8, <2>2
    <3>2. PICK e \in Dependency, l \in SrcLocs : \E i : ListedAt(ix, e, l, i, p)
      BY <3>1 DEF Listed
    <3> QED
      BY <1>6, <3>2
  <2> QED
    BY <2>1, <2>2
<1>9. ASSUME NEW e \in Dependency, NEW f \in Dependency, NEW l \in SrcLocs, NEW m \in SrcLocs,
             NEW i, NEW j, NEW p, ListedAt(new, e, l, i, p), ListedAt(new, f, m, j, p)
      PROVE  e = f /\ l = m /\ i = j
  <2>1. CASE p = n
    <3>1. ~ListedAt(ix, e, l, i, p) /\ ~ListedAt(ix, f, m, j, p)
      BY <1>7, <2>1
    <3> QED
      BY <1>6, <1>9, <3>1
  <2>2. CASE p # n
    <3>1. ListedAt(ix, e, l, i, p) /\ ListedAt(ix, f, m, j, p)
      BY <1>6, <1>9, <2>2
    <3> QED
      BY <3>1 DEF Listed
  <2> QED
    BY <2>1, <2>2
<1>10. ASSUME NEW e \in Dependency, NEW l \in SrcLocs, NEW i, NEW p, ListedAt(new, e, l, i, p)
       PROVE  p \in PositionsOf(lg2) /\ InstanceOf(lg2[p + 1], N2[p], e, l)
  <2>1. CASE ListedAt(ix, e, l, i, p)
    <3>1. p \in PositionsOf(lg) /\ InstanceOf(lg[p + 1], N[p], e, l)
      BY <1>7, <2>1
    <3>2. lg2[p + 1] = lg[p + 1] /\ N[p] \subseteq N2[p]
      BY <3>1
    <3> QED
      BY <3>1, <3>2 DEF InstanceOf
  <2>2. CASE ~ListedAt(ix, e, l, i, p)
    <3>1. e = d /\ l = loc /\ p = n
      BY <1>6, <1>10, <2>2
    <3> QED
      BY <3>1
  <2> QED
    BY <2>1, <2>2
<1> QED
  BY <1>8, <1>9, <1>10 DEF Listed, new

\* Where the events are after update_dep: at the dependency with the condition
\* variable, its own before those that move.
LEMMA PlacesAfterUpdate ==
    ASSUME NEW ix, IndexType(ix), DOMAIN ix.depEvents = ix.absDeps,
           NEW old \in Dependency, NEW r \in CondVars, r \notin old.lockset
    PROVE  /\ \A l \in SrcLocs : Len(EventsOf(ix, WithResource(old, r))[l]) \in Nat
           /\ \A l \in SrcLocs : \A i, p :
                 ListedAt(UpdateDep(ix, old, r), WithResource(old, r), l, i, p) <=>
                    \/ ListedAt(ix, WithResource(old, r), l, i, p)
                    \/ i \in Nat /\ ListedAt(ix, old, l, i - Len(EventsOf(ix, WithResource(old, r))[l]), p)
           /\ \A e \in Dependency, l \in SrcLocs : \A i, p : e # WithResource(old, r) =>
                 (ListedAt(UpdateDep(ix, old, r), e, l, i, p) <=>
                    e # old /\ ListedAt(ix, e, l, i, p))
<1> DEFINE new == UpdateDep(ix, old, r)
           dep == WithResource(old, r)
           n(l) == Len(EventsOf(ix, dep)[l])
<1>1. /\ r \in Resources /\ r \notin Locks
      /\ dep \in Dependency /\ dep # old /\ dep.tid = old.tid /\ dep.res = old.res
      /\ dep.lockset = old.lockset \cup {r}
  <2>1. r \in Resources
    BY ConstantTypes
  <2>2. r \notin Locks
    BY HandlerAssumption DEF CondVars, Associated
  <2> QED
    BY <2>1, <2>2, WithResourceType DEF WithResource, Dependency
<1>2. \A e \in Dependency, l \in SrcLocs : EventsOf(new, e)[l] =
         IF e = dep THEN EventsOf(ix, dep)[l] \o EventsOf(ix, old)[l]
         ELSE IF e = old THEN <<>> ELSE EventsOf(ix, e)[l]
  BY <1>1, EventsAfterUpdate
<1>3. \A e, l : l \in SrcLocs => EventsOf(ix, e)[l] \in Seq(Event)
  BY EventsOfFacts
<1> HIDE DEF new, dep
<1>4. ASSUME NEW l \in SrcLocs, NEW i, NEW p
      PROVE  ListedAt(new, dep, l, i, p) <=>
                \/ ListedAt(ix, dep, l, i, p)
                \/ i - n(l) \in 1..Len(EventsOf(ix, old)[l]) /\ i \in Nat
                   /\ ListedAt(ix, old, l, i - n(l), p)
  <2> DEFINE s == EventsOf(ix, dep)[l]
             q == EventsOf(ix, old)[l]
  <2>1. s \in Seq(Event) /\ q \in Seq(Event)
    BY <1>3
  <2>2. EventsOf(new, dep)[l] = s \o q
    BY <1>1, <1>2
  <2>3. ListedAt(new, dep, l, i, p) <=> i \in 1..Len(s \o q) /\ (s \o q)[i].pos = p
    BY <2>2 DEF ListedAt
  <2>4. /\ ListedAt(ix, dep, l, i, p) <=> i \in 1..Len(s) /\ s[i].pos = p
        /\ ListedAt(ix, old, l, i - n(l), p) <=>
              i - Len(s) \in 1..Len(q) /\ q[i - Len(s)].pos = p
    BY DEF ListedAt
  <2> HIDE DEF s, q
  <2>5. /\ Len(s \o q) = Len(s) + Len(q) /\ Len(s) \in Nat /\ Len(q) \in Nat
        /\ \A k \in 1..Len(s) : (s \o q)[k] = s[k]
        /\ \A k \in Nat : k - Len(s) \in 1..Len(q) => (s \o q)[k] = q[k - Len(s)]
    BY <2>1
  <2>6. i \in 1..Len(s \o q) <=>
           i \in 1..Len(s) \/ (i \in Nat /\ i - Len(s) \in 1..Len(q))
    BY <2>5
  <2>7. n(l) = Len(s)
    BY DEF s
  <2>8. CASE i \in 1..Len(s)
    <3>1. i \in Nat /\ ~(i - Len(s) \in 1..Len(q))
      BY <2>5, <2>8
    <3>2. i \in 1..Len(s \o q) /\ (s \o q)[i] = s[i]
      BY <2>5, <2>6, <2>8
    <3>3. ListedAt(new, dep, l, i, p) <=> ListedAt(ix, dep, l, i, p)
      BY <2>3, <2>4, <2>8, <3>2
    <3> QED
      BY <2>7, <3>1, <3>3 DEF q
  <2>9. CASE i \notin 1..Len(s) /\ i \in Nat /\ i - Len(s) \in 1..Len(q)
    <3>1. i \in 1..Len(s \o q) /\ (s \o q)[i] = q[i - Len(s)]
      BY <2>5, <2>6, <2>9
    <3>2. ListedAt(new, dep, l, i, p) <=> ListedAt(ix, old, l, i - n(l), p)
      BY <2>3, <2>4, <2>9, <3>1
    <3>3. ~ListedAt(ix, dep, l, i, p)
      BY <2>4, <2>9
    <3> QED
      BY <2>7, <2>9, <3>2, <3>3 DEF q
  <2>10. CASE i \notin 1..Len(s) /\ ~(i \in Nat /\ i - Len(s) \in 1..Len(q))
    <3>1. ~ListedAt(new, dep, l, i, p) /\ ~ListedAt(ix, dep, l, i, p)
      BY <2>3, <2>4, <2>6, <2>10
    <3> QED
      BY <2>7, <2>10, <3>1 DEF q
  <2> QED
    BY <2>8, <2>9, <2>10
<1>5. \A e \in Dependency, l \in SrcLocs : \A i, p : e # dep =>
         (ListedAt(new, e, l, i, p) <=> e # old /\ ListedAt(ix, e, l, i, p))
  <2> SUFFICES ASSUME NEW e \in Dependency, NEW l \in SrcLocs, NEW i, NEW p, e # dep
               PROVE  ListedAt(new, e, l, i, p) <=> e # old /\ ListedAt(ix, e, l, i, p)
    OBVIOUS
  <2>1. CASE e = old
    <3>1. EventsOf(new, e)[l] = <<>>
      BY <1>2, <2>1
    <3>2. 1..Len(<<>>) = {}
      OBVIOUS
    <3> QED
      BY <2>1, <3>1, <3>2 DEF ListedAt
  <2>2. CASE e # old
    <3>1. EventsOf(new, e)[l] = EventsOf(ix, e)[l]
      BY <1>2, <2>2
    <3> QED
      BY <2>2, <3>1 DEF ListedAt
  <2> QED
    BY <2>1, <2>2
<1>6. \A l \in SrcLocs : n(l) \in Nat
  BY <1>3
<1>7. \A l \in SrcLocs : \A i, p :
         ListedAt(new, dep, l, i, p) <=>
            ListedAt(ix, dep, l, i, p) \/ (i \in Nat /\ ListedAt(ix, old, l, i - n(l), p))
  <2>1. \A l \in SrcLocs : \A i, p : ListedAt(ix, old, l, i - n(l), p) =>
           i - n(l) \in 1..Len(EventsOf(ix, old)[l])
    BY DEF ListedAt
  <2> HIDE DEF n
  <2> QED
    BY <1>4, <2>1
<1> QED
  BY <1>5, <1>6, <1>7 DEF new, dep

\* update_dep loses no event and duplicates none.
LEMMA ListedAfterUpdate ==
    ASSUME NEW ix, IndexType(ix), DOMAIN ix.depEvents = ix.absDeps,
           NEW lg, NEW N, Listed(ix, lg, N), NEW old \in Dependency, NEW r \in CondVars,
           \A p \in PositionsOf(lg) : MustKeep(lg[p + 1]) /\ lg[p + 1].tid = old.tid => r \in N[p]
    PROVE  Listed(UpdateDep(ix, old, r), lg, N)
<1>1. CASE r \in old.lockset
  <2>1. UpdateDep(ix, old, r) = ix
    BY <1>1 DEF UpdateDep
  <2> QED
    BY <2>1
<1>2. CASE r \notin old.lockset
  <2> DEFINE new == UpdateDep(ix, old, r)
             dep == WithResource(old, r)
             n(l) == Len(EventsOf(ix, dep)[l])
  <2>1. /\ r \in Resources /\ r \notin Locks
        /\ dep \in Dependency /\ dep # old /\ dep.tid = old.tid /\ dep.res = old.res
        /\ dep.lockset = old.lockset \cup {r}
    <3>1. r \in Resources
      BY ConstantTypes
    <3>2. r \notin Locks
      BY HandlerAssumption DEF CondVars, Associated
    <3> QED
      BY <1>2, <3>1, <3>2, WithResourceType DEF WithResource, Dependency
  <2>2. \A l \in SrcLocs : n(l) \in Nat
    BY <1>2, PlacesAfterUpdate
  <2>3. \A e, l : l \in SrcLocs => EventsOf(ix, e)[l] \in Seq(Event)
    BY EventsOfFacts
  <2>4. \A l \in SrcLocs : \A i, p :
           ListedAt(new, dep, l, i, p) <=>
              ListedAt(ix, dep, l, i, p) \/ (i \in Nat /\ ListedAt(ix, old, l, i - n(l), p))
    BY <1>2, PlacesAfterUpdate
  <2>5. \A e \in Dependency, l \in SrcLocs : \A i, p : e # dep =>
           (ListedAt(new, e, l, i, p) <=> e # old /\ ListedAt(ix, e, l, i, p))
    BY <1>2, PlacesAfterUpdate
  <2> HIDE DEF new, dep
  <2>6. ASSUME NEW p \in PositionsOf(lg), MustKeep(lg[p + 1])
        PROVE  \E e \in Dependency, l \in SrcLocs : \E i : ListedAt(new, e, l, i, p)
    <3>4. PICK e \in Dependency, l \in SrcLocs : \E i : ListedAt(ix, e, l, i, p)
      BY <2>6 DEF Listed
    <3>1. PICK i : ListedAt(ix, e, l, i, p)
      BY <3>4
    <3>2. CASE e = old
      <4>1. i \in 1..Len(EventsOf(ix, old)[l])
        BY <3>1, <3>2 DEF ListedAt
      <4>2. n(l) \in Nat /\ i \in Nat
        BY <2>3, <4>1
      <4> DEFINE j == i + n(l)
      <4>3. j \in Nat /\ j - n(l) = i
        BY <4>2
      <4> HIDE DEF j, n
      <4>4. ListedAt(new, dep, l, j, p)
        BY <2>4, <3>1, <3>2, <4>1, <4>3
      <4> QED
        BY <2>1, <4>4
    <3>3. CASE e # old
      BY <2>1, <2>4, <2>5, <3>1, <3>3
    <3> QED
      BY <3>2, <3>3
  <2>7. ASSUME NEW e \in Dependency, NEW l \in SrcLocs, NEW i, NEW p, ListedAt(new, e, l, i, p)
        PROVE  \/ e # old /\ ListedAt(ix, e, l, i, p)
               \/ e = dep /\ i \in Nat /\ n(l) \in Nat /\ ListedAt(ix, old, l, i - n(l), p)
    <3>1. n(l) \in Nat
      BY <2>3
    <3> HIDE DEF n
    <3> QED
      BY <2>1, <2>4, <2>5, <2>7, <3>1
  <2> HIDE DEF n
  <2>8. ASSUME NEW d \in Dependency, NEW e \in Dependency, NEW l \in SrcLocs, NEW m \in SrcLocs,
               NEW i, NEW j, NEW p, ListedAt(new, d, l, i, p), ListedAt(new, e, m, j, p)
        PROVE  d = e /\ l = m /\ i = j
    <3> DEFINE S(f, k, o) == f # old /\ ListedAt(ix, f, k, o, p)
               M(f, k, o) == /\ f = dep /\ o \in Nat /\ n(k) \in Nat
                             /\ ListedAt(ix, old, k, o - n(k), p)
    <3>1. /\ S(d, l, i) \/ M(d, l, i)
          /\ S(e, m, j) \/ M(e, m, j)
      BY <2>7, <2>8
    <3>2. \A f, g \in Dependency, k, o \in SrcLocs : \A a, b :
             ListedAt(ix, f, k, a, p) /\ ListedAt(ix, g, o, b, p) => f = g /\ k = o /\ a = b
      BY DEF Listed
    <3>3. CASE S(d, l, i) /\ S(e, m, j)
      BY <3>2, <3>3
    <3>4. CASE M(d, l, i) /\ M(e, m, j)
      <4>1. l = m /\ i - n(l) = j - n(m)
        BY <3>2, <3>4
      <4>2. i \in Nat /\ j \in Nat /\ n(l) \in Nat
        BY <3>4
      <4> QED
        BY <3>4, <4>1, <4>2
    <3>5. CASE S(d, l, i) /\ M(e, m, j)
      BY <3>2, <3>5
    <3>6. CASE M(d, l, i) /\ S(e, m, j)
      BY <3>2, <3>6
    <3> QED
      BY <3>1, <3>3, <3>4, <3>5, <3>6
  <2>9. ASSUME NEW e \in Dependency, NEW l \in SrcLocs, NEW i, NEW p, ListedAt(new, e, l, i, p)
        PROVE  p \in PositionsOf(lg) /\ InstanceOf(lg[p + 1], N[p], e, l)
    <3>1. CASE ListedAt(ix, e, l, i, p)
      BY <3>1 DEF Listed
    <3>2. CASE ~ListedAt(ix, e, l, i, p)
      <4>1. e = dep /\ ListedAt(ix, old, l, i - n(l), p)
        BY <2>7, <2>9, <3>2
      <4>2. p \in PositionsOf(lg) /\ InstanceOf(lg[p + 1], N[p], old, l)
        BY <4>1 DEF Listed
      <4>3. r \in N[p]
        BY <4>2 DEF InstanceOf
      <4>4. InstanceOf(lg[p + 1], N[p], dep, l)
        BY <2>1, <4>2, <4>3 DEF InstanceOf
      <4> QED
        BY <4>1, <4>2, <4>4
    <3> QED
      BY <3>1, <3>2
  <2> QED
    BY <2>6, <2>8, <2>9 DEF Listed, new
<1> QED
  BY <1>1, <1>2

\* update_dep keeps the index in step with its event lists.
LEMMA DomainAfterUpdate ==
    ASSUME NEW ix, DOMAIN ix.depEvents = ix.absDeps, NEW old, NEW r
    PROVE  LET new == UpdateDep(ix, old, r)
           IN DOMAIN new.depEvents = new.absDeps
<1>1. CASE r \in old.lockset
  BY <1>1 DEF UpdateDep
<1>2. CASE r \notin old.lockset
  <2>1. /\ UpdateDep(ix, old, r).absDeps = (ix.absDeps \ {old}) \cup {WithResource(old, r)}
        /\ DOMAIN UpdateDep(ix, old, r).depEvents
             = (DOMAIN ix.depEvents \ {old}) \cup {WithResource(old, r)}
    BY <1>2 DEF UpdateDep
  <2> QED
    BY <2>1
<1> QED
  BY <1>1, <1>2

\* The loop of notify_event loses no event and duplicates none.
LEMMA ListedAfterNotify ==
    ASSUME NEW ix, IndexType(ix), DOMAIN ix.depEvents = ix.absDeps,
           NEW lg, NEW N, Listed(ix, lg, N), NEW r \in CondVars, NEW t,
           \A p \in PositionsOf(lg) : MustKeep(lg[p + 1]) /\ lg[p + 1].tid = t => r \in N[p],
           NEW list \in Seq(Dependency), \A d \in Elements(list) : d.tid = t
    PROVE  Listed(UpdateRecent(ix, list, r).index, lg, N)
<1> DEFINE n == Len(list)
<1>1. n \in Nat /\ \A i \in 1..n : list[i] \in Dependency /\ list[i].tid = t
  BY LenProperties, ElementOfSeq DEF Elements
<1>2. PICK f : /\ f[0] = [index |-> ix, list |-> <<>>]
               /\ \A i \in 1..n : f[i] = UpdateOne(f[i-1], list[i], r)
               /\ UpdateRecent(ix, list, r) = f[n]
  <2>1. Len(list) \in Nat
    BY LenProperties
  <2> QED
    BY <2>1, UpdateRecentLoop
<1> DEFINE Good(i) == /\ IndexType(f[i].index)
                      /\ DOMAIN f[i].index.depEvents = f[i].index.absDeps
                      /\ Listed(f[i].index, lg, N)
           G == {i \in 0..n : Good(i)}
<1> HIDE DEF n
<1>3. 0 \in G
  <2>1. f[0].index = ix
    BY <1>2
  <2>2. 0 \in 0..n
    BY <1>1
  <2> QED
    BY <2>1, <2>2
<1>4. ASSUME NEW i \in 1..n, i - 1 \in G
      PROVE  i \in G
  <2>1. i \in 0..n
    BY <1>1
  <2>2. f[i].index = UpdateDep(f[i-1].index, list[i], r)
    <3>1. f[i] = UpdateOne(f[i-1], list[i], r)
      BY <1>2
    <3> QED
      BY <3>1 DEF UpdateOne
  <2>3. list[i] \in Dependency /\ list[i].tid = t /\ r \in Resources
    BY <1>1, ConstantTypes
  <2>4. Good(i - 1)
    BY <1>4
  <2> DEFINE b == f[i-1].index
  <2>5. IndexType(b) /\ DOMAIN b.depEvents = b.absDeps /\ Listed(b, lg, N)
    BY <2>4
  <2> HIDE DEF b
  <2>6. IndexType(UpdateDep(b, list[i], r))
    BY <2>3, <2>5, UpdateDepFacts
  <2>7. DOMAIN UpdateDep(b, list[i], r).depEvents = UpdateDep(b, list[i], r).absDeps
    BY <2>5, DomainAfterUpdate
  <2>8. \A p \in PositionsOf(lg) :
           MustKeep(lg[p + 1]) /\ lg[p + 1].tid = list[i].tid => r \in N[p]
    BY <2>3
  <2>9. Listed(UpdateDep(b, list[i], r), lg, N)
    BY <2>3, <2>5, <2>8, ListedAfterUpdate
  <2>10. f[i].index = UpdateDep(b, list[i], r)
    BY <2>2 DEF b
  <2> QED
    BY <2>1, <2>6, <2>7, <2>9, <2>10
<1>5. n \in G
  <2> HIDE DEF G
  <2>1. \A i \in 0..n : i \in G
    BY <1>1, <1>3, <1>4, InductionUpTo
  <2> QED
    BY <1>1, <2>1
<1> QED
  BY <1>2, <1>5

-----------------------------------------------------------------------------
(* The handlers.                                                           *)

\* NotifiedSince, read from a log.
Since(lg) ==
    [p \in PositionsOf(lg) |->
        {lg[q + 1].target : q \in {r \in PositionsOf(lg) :
            /\ r > p /\ lg[r + 1].tid = lg[p + 1].tid
            /\ lg[r + 1].type = "NOTIFY" /\ ~lg[r + 1].alone}}]

\* Only a notify that the handler does not ignore is another one since an event.
LEMMA SinceAfter ==
    ASSUME NEW lg, LogShape(lg), NEW x \in LogEntry
    PROVE  LET lg2 == Append(lg, x)
               now == x.type = "NOTIFY" /\ ~x.alone
           IN /\ Since(lg2)[Len(lg)] = {}
              /\ \A p \in PositionsOf(lg) : now /\ x.tid = lg[p + 1].tid =>
                    Since(lg2)[p] = Since(lg)[p] \cup {x.target}
              /\ \A p \in PositionsOf(lg) : ~(now /\ x.tid = lg[p + 1].tid) =>
                    Since(lg2)[p] = Since(lg)[p]
<1>1. PICK lg2 : lg2 = Append(lg, x)
  OBVIOUS
<1>2. PICK n : n = Len(lg)
  OBVIOUS
<1>3. /\ PositionsOf(lg2) = PositionsOf(lg) \cup {n} /\ n \notin PositionsOf(lg)
      /\ \A p \in PositionsOf(lg) : lg2[p + 1] = lg[p + 1]
      /\ lg2[n + 1] = x
  <2>1. /\ PositionsOf(Append(lg, x)) = PositionsOf(lg) \cup {Len(lg)}
        /\ Len(lg) \notin PositionsOf(lg)
        /\ \A p \in PositionsOf(lg) : Append(lg, x)[p + 1] = lg[p + 1]
        /\ Append(lg, x)[Len(lg) + 1] = x
    BY PastAfter
  <2> QED
    BY <1>1, <1>2, <2>1
<1>4. \A p \in PositionsOf(lg) : n > p
  <2>1. n \in Nat
    BY <1>2 DEF LogShape
  <2> QED
    BY <1>2, <2>1 DEF PositionsOf
<1> DEFINE Later(l, p) == {r \in PositionsOf(l) :
                             /\ r > p /\ l[r + 1].tid = l[p + 1].tid
                             /\ l[r + 1].type = "NOTIFY" /\ ~l[r + 1].alone}
           now == x.type = "NOTIFY" /\ ~x.alone
<1>5. \A l : \A p \in PositionsOf(l) : Since(l)[p] = {l[q + 1].target : q \in Later(l, p)}
  BY DEF Since
<1>6. Later(lg2, n) = {}
  <2>1. \A r \in PositionsOf(lg2) : ~(r > n)
    <3>1. n \in Nat /\ \A p \in PositionsOf(lg) : p \in Int
      BY <1>2 DEF LogShape, PositionsOf
    <3> QED
      BY <1>3, <1>4, <3>1
  <2> QED
    BY <2>1
<1>7. ASSUME NEW p \in PositionsOf(lg)
      PROVE  Later(lg2, p) = IF now /\ x.tid = lg[p + 1].tid THEN Later(lg, p) \cup {n}
                             ELSE Later(lg, p)
  <2>1. \A r \in PositionsOf(lg) : r \in Later(lg2, p) <=> r \in Later(lg, p)
    BY <1>3
  <2>2. n \in Later(lg2, p) <=> now /\ x.tid = lg[p + 1].tid
    BY <1>3, <1>4
  <2>3. Later(lg2, p) \subseteq PositionsOf(lg) \cup {n} /\ Later(lg, p) \subseteq PositionsOf(lg)
    BY <1>3
  <2> HIDE DEF Later, now
  <2> QED
    BY <2>1, <2>2, <2>3
<1>8. \A p : Later(lg, p) \subseteq PositionsOf(lg)
  OBVIOUS
<1>9. n \in PositionsOf(lg2) /\ \A p \in PositionsOf(lg) : p \in PositionsOf(lg2)
  BY <1>3
<1> HIDE DEF Later, now
<1>10. Since(lg2)[n] = {}
  <2>1. Since(lg2)[n] = {lg2[q + 1].target : q \in Later(lg2, n)}
    BY <1>5, <1>9
  <2> QED
    BY <1>6, <2>1
<1>11. ASSUME NEW p \in PositionsOf(lg)
       PROVE  /\ now /\ x.tid = lg[p + 1].tid => Since(lg2)[p] = Since(lg)[p] \cup {x.target}
              /\ ~(now /\ x.tid = lg[p + 1].tid) => Since(lg2)[p] = Since(lg)[p]
  <2>1. Since(lg2)[p] = {lg2[q + 1].target : q \in Later(lg2, p)}
    BY <1>5, <1>9
  <2>2. Since(lg)[p] = {lg[q + 1].target : q \in Later(lg, p)}
    BY <1>5
  <2>3. {lg2[q + 1].target : q \in Later(lg, p)} = {lg[q + 1].target : q \in Later(lg, p)}
    <3>1. \A q \in Later(lg, p) : lg2[q + 1] = lg[q + 1]
      BY <1>3, <1>8
    <3> QED
      BY <3>1
  <2>4. {lg2[q + 1].target : q \in Later(lg, p) \cup {n}}
          = {lg2[q + 1].target : q \in Later(lg, p)} \cup {lg2[n + 1].target}
    OBVIOUS
  <2>5. CASE now /\ x.tid = lg[p + 1].tid
    <3>1. Later(lg2, p) = Later(lg, p) \cup {n}
      BY <1>7, <2>5
    <3> QED
      BY <1>3, <2>1, <2>2, <2>3, <2>4, <2>5, <3>1
  <2>6. CASE ~(now /\ x.tid = lg[p + 1].tid)
    <3>1. Later(lg2, p) = Later(lg, p)
      BY <1>7, <2>6
    <3> QED
      BY <2>1, <2>2, <2>3, <2>6, <3>1
  <2> QED
    BY <2>5, <2>6
<1> QED
  BY <1>1, <1>2, <1>10, <1>11 DEF now

RequestsInv == Listed(index, log, Since(log))

\* The test that most handlers begin with, as the log has it.
LEMMA AloneInLog ==
    ASSUME SleepInv, NEW t \in Alive
    PROVE  Alone <=> Cardinality(Alive) = 1
<1>1. Cardinality(Alive) \in Nat /\ aliveCount = Cardinality(Alive)
  BY FS_CardinalityType DEF SleepInv
<1>2. Alive # {} => Cardinality(Alive) # 0
  BY FS_EmptySet DEF SleepInv
<1> QED
  BY <1>1, <1>2 DEF Alone

\* What the log has after an event is recorded.
LEMMA RecordedEntry ==
    ASSUME LogInv, LogInv', NEW t, NEW type, NEW target, NEW loc, Record(t, type, target, loc),
           NEW x, x = NextEntry(t, type, target, loc)
    PROVE  /\ x.tid = t /\ x.type = type /\ x.target = target /\ x.loc = loc
           /\ x.locks = Lockset(t) /\ x.alone = (Cardinality(Alive) = 1)
           /\ x.full = (Len(recent[t]) = Capacity)
           /\ PositionsOf(log') = PositionsOf(log) \cup {pos} /\ pos \notin PositionsOf(log)
           /\ \A p \in PositionsOf(log) : log'[p + 1] = log[p + 1]
           /\ log'[pos + 1] = x
           /\ Since(log')[pos] = {}
           /\ \A p \in PositionsOf(log) :
                 type = "NOTIFY" /\ ~x.alone /\ t = log[p + 1].tid =>
                    Since(log')[p] = Since(log)[p] \cup {target}
           /\ \A p \in PositionsOf(log) :
                 ~(type = "NOTIFY" /\ ~x.alone /\ t = log[p + 1].tid) =>
                    Since(log')[p] = Since(log)[p]
<1>1. x \in LogEntry
  BY RecordAppends
<1>2. /\ LogShape(log) /\ Len(log) = pos /\ x \in LogEntry
      /\ log' = Append(log, x)
  BY RecordAppends
<1>3. /\ x.tid = t /\ x.type = type /\ x.target = target /\ x.loc = loc
      /\ x.locks = Lockset(t) /\ x.alone = (Cardinality(Alive) = 1)
      /\ x.full = (Len(recent[t]) = Capacity)
  BY DEF NextEntry
<1>4. /\ PositionsOf(Append(log, x)) = PositionsOf(log) \cup {Len(log)}
      /\ Len(log) \notin PositionsOf(log)
      /\ \A p \in PositionsOf(log) : Append(log, x)[p + 1] = log[p + 1]
      /\ Append(log, x)[Len(log) + 1] = x
  BY <1>2, PastAfter
<1>5. /\ Since(Append(log, x))[Len(log)] = {}
      /\ \A p \in PositionsOf(log) : (x.type = "NOTIFY" /\ ~x.alone) /\ x.tid = log[p + 1].tid =>
            Since(Append(log, x))[p] = Since(log)[p] \cup {x.target}
      /\ \A p \in PositionsOf(log) : ~((x.type = "NOTIFY" /\ ~x.alone) /\ x.tid = log[p + 1].tid) =>
            Since(Append(log, x))[p] = Since(log)[p]
  BY <1>2, SinceAfter
<1> QED
  BY <1>2, <1>3, <1>4, <1>5

\* An event that need not be kept, and that leaves the index alone.
LEMMA RequestsOfOther ==
    ASSUME LogInv, LogInv', RequestsInv, NEW t, NEW type, NEW target, NEW loc,
           Record(t, type, target, loc),
           type \notin {"REQ", "WAIT"} \/ Cardinality(Alive) = 1
    PROVE  Listed(index, log', Since(log'))
<1>1. PICK x : x = NextEntry(t, type, target, loc)
  OBVIOUS
<1>2. /\ x.type = type /\ x.alone = (Cardinality(Alive) = 1)
      /\ PositionsOf(log') = PositionsOf(log) \cup {pos}
      /\ \A p \in PositionsOf(log) :
            log'[p + 1] = log[p + 1] /\ Since(log)[p] \subseteq Since(log')[p]
      /\ log'[pos + 1] = x
  BY <1>1, RecordedEntry
<1>3. ~MustKeep(log'[pos + 1])
  BY <1>2 DEF MustKeep
<1> QED
  BY <1>2, <1>3, ListedAfterOther DEF RequestsInv

\* A request or wait that the handler does not ignore is listed.
LEMMA RequestsOfCreation ==
    ASSUME TypeOK, LogInv, LogInv', RequestsInv, NEW t \in Threads, NEW type \in {"REQ", "WAIT"},
           NEW target \in Resources, NEW loc \in SrcLocs, Record(t, type, target, loc),
           Cardinality(Alive) # 1, NEW evt \in Event, evt.pos = pos,
           HandleDepCreation(t, target, loc, evt)
    PROVE  RequestsInv'
<1> DEFINE d == [tid |-> t, res |-> target, lockset |-> Lockset(t)]
<1>1. PICK x : x = NextEntry(t, type, target, loc)
  OBVIOUS
<1>2. /\ x.tid = t /\ x.type = type /\ x.target = target /\ x.loc = loc
      /\ x.locks = Lockset(t) /\ ~x.alone
      /\ PositionsOf(log') = PositionsOf(log) \cup {pos} /\ pos \notin PositionsOf(log)
      /\ \A p \in PositionsOf(log) :
            log'[p + 1] = log[p + 1] /\ Since(log)[p] \subseteq Since(log')[p]
      /\ log'[pos + 1] = x
  <2>1. x.alone = (Cardinality(Alive) = 1)
    BY <1>1, RecordedEntry
  <2>2. \A p \in PositionsOf(log) : Since(log)[p] \subseteq Since(log')[p]
    BY <1>1, RecordedEntry
  <2>3. /\ x.tid = t /\ x.type = type /\ x.target = target /\ x.loc = loc
        /\ x.locks = Lockset(t)
        /\ PositionsOf(log') = PositionsOf(log) \cup {pos} /\ pos \notin PositionsOf(log)
        /\ \A p \in PositionsOf(log) : log'[p + 1] = log[p + 1]
        /\ log'[pos + 1] = x
    BY <1>1, RecordedEntry
  <2> QED
    BY <2>1, <2>2, <2>3
<1>3. Lockset(t) \subseteq Locks /\ Locks \subseteq Resources /\ Locks \cap CondVars = {}
  <2>1. Lockset(t) \subseteq Locks /\ Locks \subseteq Resources
    BY DEF Lockset, Resources
  <2>2. Locks \cap CondVars = {}
    BY HandlerAssumption DEF CondVars, Associated
  <2> QED
    BY <2>1, <2>2
<1>4. IndexType(index)
  BY DEF TypeOK
<1>5. CASE t \in NotifThreads \/ Lockset(t) # {}
  <2>1. index' = CreateDep(index, d, loc, evt)
    BY <1>5 DEF HandleDepCreation
  <2>2. d \in Dependency
    BY <1>3 DEF Dependency
  <2>3. d.tid = t /\ d.res = target /\ d.lockset = Lockset(t)
    OBVIOUS
  <2> HIDE DEF d
  <2>4. MustKeep(x)
    BY <1>2, <1>5 DEF MustKeep
  <2>5. d.lockset \cap Locks = x.locks /\ d.lockset \cap CondVars \subseteq Since(log')[pos]
    BY <1>2, <1>3, <2>3
  <2>6. InstanceOf(log'[pos + 1], Since(log')[pos], d, loc)
    BY <1>2, <2>3, <2>4, <2>5 DEF InstanceOf
  <2>7. Listed(CreateDep(index, d, loc, evt), log', Since(log'))
    BY <1>2, <1>4, <2>2, <2>6, ListedAfterCreate DEF RequestsInv
  <2> QED
    BY <2>1, <2>7 DEF RequestsInv
<1>6. CASE ~(t \in NotifThreads \/ Lockset(t) # {})
  <2>1. index' = index
    BY <1>6 DEF HandleDepCreation
  <2>2. ~MustKeep(log'[pos + 1])
    BY <1>2, <1>6 DEF MustKeep
  <2>3. Listed(index, log', Since(log'))
    BY <1>2, <2>2, ListedAfterOther DEF RequestsInv
  <2> QED
    BY <2>1, <2>3 DEF RequestsInv
<1> QED
  BY <1>5, <1>6

\* A notify that the handler does not ignore is added to the dependencies of its thread.
LEMMA RequestsOfNotify ==
    ASSUME TypeOK, IndexConsistent, LogInv, LogInv', RequestsInv, NEW t \in Threads,
           NEW c \in CondVars, NEW all \in BOOLEAN, NotifyEvent(t, c, all),
           Record(t, "NOTIFY", c, 0), ~Alone, Cardinality(Alive) # 1
    PROVE  RequestsInv'
<1>1. PICK x : x = NextEntry(t, "NOTIFY", c, 0)
  OBVIOUS
<1>2. /\ x.tid = t /\ x.type = "NOTIFY" /\ x.target = c
      /\ x.alone = (Cardinality(Alive) = 1)
      /\ PositionsOf(log') = PositionsOf(log) \cup {pos}
      /\ \A p \in PositionsOf(log) : log'[p + 1] = log[p + 1]
      /\ log'[pos + 1] = x
  BY <1>1, RecordedEntry
<1>3. \A p \in PositionsOf(log) : ~x.alone /\ t = log[p + 1].tid =>
         Since(log')[p] = Since(log)[p] \cup {c}
  BY <1>1, RecordedEntry
<1>4. \A p \in PositionsOf(log') :
         MustKeep(log'[p + 1]) /\ log'[p + 1].tid = t => c \in Since(log')[p]
  <2> SUFFICES ASSUME NEW p \in PositionsOf(log'), MustKeep(log'[p + 1]),
                      log'[p + 1].tid = t
               PROVE  c \in Since(log')[p]
    OBVIOUS
  <2>1. p # pos
    BY <1>2 DEF MustKeep
  <2>2. p \in PositionsOf(log) /\ ~x.alone /\ log[p + 1].tid = t
    BY <1>2, <2>1
  <2> QED
    BY <1>3, <2>2
<1>5. Listed(index, log', Since(log'))
  BY RequestsOfOther
<1>6. /\ IndexType(index) /\ DOMAIN index.depEvents = index.absDeps
      /\ recent[t] \in Seq(Dependency) /\ \A d \in Elements(recent[t]) : d.tid = t
  BY DEF TypeOK, IndexConsistent, IndexLinked, RecentLinked
<1>7. index' = UpdateRecent(index, recent[t], c).index
  BY DEF NotifyEvent
<1>8. Listed(UpdateRecent(index, recent[t], c).index, log', Since(log'))
  BY <1>4, <1>5, <1>6, ListedAfterNotify
<1> QED
  BY <1>7, <1>8 DEF RequestsInv

\* At first nothing has happened and nothing is listed.
LEMMA RequestsOfInit == LogInit => RequestsInv
<1> SUFFICES ASSUME LogInit
             PROVE  RequestsInv
  OBVIOUS
<1>1. PositionsOf(log) = {}
  BY DEF LogInit, PositionsOf
<1>2. \A d, loc, i, p : loc \in SrcLocs => ~ListedAt(index, d, loc, i, p)
  <2>1. \A d, loc : loc \in SrcLocs => EventsOf(index, d)[loc] = <<>>
    BY DEF LogInit, Init, EmptyIndex, EventsOf
  <2>2. 1..Len(<<>>) = {}
    OBVIOUS
  <2> QED
    BY <2>1, <2>2 DEF ListedAt
<1> QED
  BY <1>1, <1>2 DEF RequestsInv, Listed

\* The thread of an event that is not invalid is alive.
LEMMA ActorAlive ==
    ASSUME TypeOK, NEW t \in Threads
    PROVE  /\ \A c \in CondVars, loc \in SrcLocs : WaitEvent(t, c, loc) => t \in Alive
           /\ \A c \in CondVars, all \in BOOLEAN : NotifyEvent(t, c, all) => t \in Alive
           /\ \A l \in Locks, loc \in SrcLocs : RequestEvent(t, l, loc) => t \in Alive
  BY DEF Alive, WaitEvent, NotifyEvent, RequestEvent, Running, MayWake

\* Every event keeps the lists complete, one step per action.
LEMMA RequestsOfStep ==
    TypeOK /\ IndexConsistent /\ SleepInv /\ LogInv /\ LogInv' /\ RequestsInv
       /\ [LogNext]_logVars
       => RequestsInv'
<1> SUFFICES ASSUME TypeOK, IndexConsistent, SleepInv, LogInv, LogInv', RequestsInv,
                    [LogNext]_logVars
             PROVE  RequestsInv'
  OBVIOUS
<1>1. CASE UNCHANGED logVars
  BY <1>1 DEF logVars, vars, RequestsInv
<1>2. CASE LogNext
  <2>1. ASSUME NEW t \in Threads, NEW type, NEW target, NEW loc,
               Record(t, type, target, loc), index' = index,
               type \notin {"REQ", "WAIT"} \/ Cardinality(Alive) = 1
        PROVE  RequestsInv'
    <3>1. Listed(index, log', Since(log'))
      BY <2>1, RequestsOfOther
    <3> QED
      BY <2>1, <3>1 DEF RequestsInv
  <2>2. ASSUME NEW t \in Threads, NEW x \in Vars
        PROVE  /\ ReadEvent(t, x) /\ Record(t, "RD", x, 0) => RequestsInv'
               /\ WriteEvent(t, x) /\ Record(t, "WR", x, 0) => RequestsInv'
    BY <2>1 DEF ReadEvent, WriteEvent
  <2>3. ASSUME NEW t \in Threads, NEW c \in CondVars, NEW loc \in SrcLocs,
               WaitEvent(t, c, loc), Record(t, "WAIT", c, loc)
        PROVE  RequestsInv'
    <3>1. Alone <=> Cardinality(Alive) = 1
      BY <2>3, ActorAlive, AloneInLog
    <3>2. CASE Alone
      <4>1. index' = index
        BY <2>3, <3>2 DEF WaitEvent
      <4> QED
        BY <2>1, <2>3, <3>1, <3>2, <4>1
    <3>3. CASE ~Alone
      <4> DEFINE evt == [vc |-> clock[t], pos |-> pos]
      <4>1. HandleDepCreation(t, c, loc, evt)
        BY <2>3, <3>3 DEF WaitEvent
      <4>2. evt \in Event /\ evt.pos = pos
        BY DEF Event, TypeOK
      <4>3. c \in Resources
        BY ConstantTypes
      <4> HIDE DEF evt
      <4> QED
        BY <2>3, <3>1, <3>3, <4>1, <4>2, <4>3, RequestsOfCreation
    <3> QED
      BY <3>2, <3>3
  <2>4. ASSUME NEW t \in Threads, NEW c \in CondVars, NEW all \in BOOLEAN,
               NotifyEvent(t, c, all), Record(t, "NOTIFY", c, 0)
        PROVE  RequestsInv'
    <3>1. Alone <=> Cardinality(Alive) = 1
      BY <2>4, ActorAlive, AloneInLog
    <3>2. CASE Alone
      <4>1. index' = index
        BY <2>4, <3>2 DEF NotifyEvent
      <4> QED
        BY <2>1, <2>4, <4>1
    <3>3. CASE ~Alone
      BY <2>4, <3>1, <3>3, RequestsOfNotify
    <3> QED
      BY <3>2, <3>3
  <2>5. ASSUME NEW t \in Threads, NEW l \in Locks, NEW loc \in SrcLocs,
               RequestEvent(t, l, loc), Record(t, "REQ", l, loc)
        PROVE  RequestsInv'
    <3>1. Alone <=> Cardinality(Alive) = 1
      BY <2>5, ActorAlive, AloneInLog
    <3>2. CASE Alone
      <4>1. index' = index
        BY <2>5, <3>2 DEF RequestEvent
      <4> QED
        BY <2>1, <2>5, <3>1, <3>2, <4>1
    <3>3. CASE ~Alone
      <4> DEFINE evt == [vc |-> AwakeClock(t, Associated(l)), pos |-> pos]
      <4>1. HandleDepCreation(t, l, loc, evt)
        BY <2>5, <3>3 DEF RequestEvent
      <4>2. evt \in Event /\ evt.pos = pos
        <5>1. Associated(l) \in CondVars /\ l \in Resources
          BY ConstantTypes
        <5>2. AwakeClock(t, Associated(l)) \in Clock
          BY <5>1, TypeOfAwakeClock
        <5> QED
          BY <5>2 DEF Event, TypeOK
      <4>3. l \in Resources
        BY ConstantTypes
      <4> HIDE DEF evt
      <4> QED
        BY <2>5, <3>1, <3>3, <4>1, <4>2, <4>3, RequestsOfCreation
    <3> QED
      BY <3>2, <3>3
  <2>6. ASSUME NEW t \in Threads, NEW l \in Locks
        PROVE  /\ AcquireEvent(t, l) /\ Record(t, "LK", l, 0) => RequestsInv'
               /\ ReleaseEvent(t, l) /\ Record(t, "UK", l, 0) => RequestsInv'
    BY <2>1 DEF AcquireEvent, ReleaseEvent
  <2>7. ASSUME NEW t \in Threads, NEW u \in Threads
        PROVE  /\ ForkEvent(t, u) /\ Record(t, "FORK", u, 0) => RequestsInv'
               /\ JoinEvent(t, u) /\ Record(t, "JOIN", u, 0) => RequestsInv'
    BY <2>1 DEF ForkEvent, JoinEvent
  <2>8. ASSUME NEW t \in Threads, InvalidEvent(t), Record(t, "OTHER", 0, 0)
        PROVE  RequestsInv'
    BY <2>1, <2>8 DEF InvalidEvent
  <2> QED
    BY <1>2, <2>2, <2>3, <2>4, <2>5, <2>6, <2>7, <2>8 DEF LogNext
<1> QED
  BY <1>1, <1>2

\* The slots of the index are the places of its lists.
LEMMA SlotFacts ==
    ASSUME TypeOK
    PROVE  /\ \A d \in Dependency, loc \in SrcLocs : \A i, p : ListedAt(index, d, loc, i, p) =>
                 <<d, loc, i>> \in Slots /\ EventIn(<<d, loc, i>>).pos = p
           /\ \A k \in Slots : \E d \in Dependency, loc \in SrcLocs : \E i :
                 k = <<d, loc, i>> /\ ListedAt(index, d, loc, i, EventIn(k).pos)
<1>1. IndexType(index)
  BY DEF TypeOK
<1>2. \A d, loc : loc \in SrcLocs => EventsOf(index, d)[loc] \in Seq(Event)
  BY <1>1, EventsOfFacts
<1>3. DOMAIN index.depEvents \subseteq Dependency
  BY <1>1 DEF IndexType
<1>4. ASSUME NEW d \in Dependency, NEW loc \in SrcLocs, NEW i, NEW p,
             ListedAt(index, d, loc, i, p)
      PROVE  <<d, loc, i>> \in Slots /\ EventIn(<<d, loc, i>>).pos = p
  <2>1. d \in DOMAIN index.depEvents
    <3> SUFFICES ASSUME d \notin DOMAIN index.depEvents
                 PROVE  FALSE
      OBVIOUS
    <3>1. EventsOf(index, d)[loc] = <<>>
      BY DEF EventsOf
    <3>2. 1..Len(<<>>) = {}
      OBVIOUS
    <3> QED
      BY <1>4, <3>1, <3>2 DEF ListedAt
  <2>2. EventsOf(index, d)[loc] = index.depEvents[d][loc]
    BY <2>1 DEF EventsOf
  <2>3. i \in DOMAIN index.depEvents[d][loc] /\ index.depEvents[d][loc][i].pos = p
    BY <1>2, <1>4, <2>2 DEF ListedAt
  <2> QED
    BY <2>1, <2>3 DEF Slots, EventIn
<1>5. ASSUME NEW k \in Slots
      PROVE  \E d \in Dependency, loc \in SrcLocs : \E i :
                k = <<d, loc, i>> /\ ListedAt(index, d, loc, i, EventIn(k).pos)
  <2>1. PICK d \in DOMAIN index.depEvents, loc \in SrcLocs :
           \E i \in DOMAIN index.depEvents[d][loc] : k = <<d, loc, i>>
    BY DEF Slots
  <2>5. PICK i \in DOMAIN index.depEvents[d][loc] : k = <<d, loc, i>>
    BY <2>1
  <2>2. EventsOf(index, d)[loc] = index.depEvents[d][loc]
    BY DEF EventsOf
  <2>3. EventIn(k) = index.depEvents[d][loc][i]
    BY <2>5 DEF EventIn
  <2>4. ListedAt(index, d, loc, i, EventIn(k).pos)
    BY <1>2, <2>2, <2>3, <2>5 DEF ListedAt
  <2> QED
    BY <1>3, <2>4, <2>5
<1> QED
  BY <1>4, <1>5

\* What the lists hold is what the log asks for.
LEMMA RequestsAreKept ==
    ASSUME TypeOK, LogInv, RequestsInv
    PROVE  EveryRequestKeptOnce /\ CondVarsOnlyNotifiedSince
<1>1. PositionsOf(log) = Positions
  BY DEF PositionsOf, Positions
<1>2. \A p \in Positions : (Relevant(p) <=> MustKeep(log[p + 1])) /\ Since(log)[p] = NotifiedSince(p)
  BY <1>1 DEF Relevant, MustKeep, Entry, Since, NotifiedSince
<1>3. \A p \in Positions : MustKeep(log[p + 1]) =>
         \E d \in Dependency, loc \in SrcLocs : \E i : ListedAt(index, d, loc, i, p)
  BY <1>1 DEF RequestsInv, Listed
<1>4. \A d, e \in Dependency, l, m \in SrcLocs : \A i, j, p :
         ListedAt(index, d, l, i, p) /\ ListedAt(index, e, m, j, p) => d = e /\ l = m /\ i = j
  BY DEF RequestsInv, Listed
<1>5. \A d \in Dependency, loc \in SrcLocs : \A i, p : ListedAt(index, d, loc, i, p) =>
         p \in Positions /\ InstanceOf(log[p + 1], Since(log)[p], d, loc)
  BY <1>1 DEF RequestsInv, Listed
<1>6. \A d \in Dependency, loc \in SrcLocs : \A i, p : ListedAt(index, d, loc, i, p) =>
         <<d, loc, i>> \in Slots /\ EventIn(<<d, loc, i>>).pos = p
  BY SlotFacts
<1>7. \A k \in Slots : \E d \in Dependency, loc \in SrcLocs : \E i :
         k = <<d, loc, i>> /\ ListedAt(index, d, loc, i, EventIn(k).pos)
  BY SlotFacts
<1>8. ASSUME NEW p \in Positions, Relevant(p)
      PROVE  \E k \in Slots :
                /\ \A j \in Slots : (EventIn(j).pos = p) <=> j = k
                /\ k[1].tid = Entry(p).tid /\ k[1].res = Entry(p).target
                /\ k[1].lockset \cap Locks = Entry(p).locks
                /\ k[2] = Entry(p).loc
  <2>1. PICK d \in Dependency, loc \in SrcLocs : \E i : ListedAt(index, d, loc, i, p)
    BY <1>2, <1>3, <1>8
  <2>2. PICK i : ListedAt(index, d, loc, i, p)
    BY <2>1
  <2> DEFINE k == <<d, loc, i>>
  <2>3. k \in Slots /\ EventIn(k).pos = p
    BY <1>6, <2>2
  <2>4. k[1] = d /\ k[2] = loc
    OBVIOUS
  <2>5. \A j \in Slots : EventIn(j).pos = p => j = k
    <3> SUFFICES ASSUME NEW j \in Slots, EventIn(j).pos = p
                 PROVE  j = k
      OBVIOUS
    <3>1. PICK e \in Dependency, m \in SrcLocs : \E n :
             j = <<e, m, n>> /\ ListedAt(index, e, m, n, EventIn(j).pos)
      BY <1>7
    <3>2. PICK n : j = <<e, m, n>> /\ ListedAt(index, e, m, n, EventIn(j).pos)
      BY <3>1
    <3>3. d = e /\ loc = m /\ i = n
      BY <1>4, <2>2, <3>2
    <3> QED
      BY <3>2, <3>3
  <2>6. InstanceOf(log[p + 1], Since(log)[p], d, loc)
    BY <1>5, <2>2
  <2> HIDE DEF k
  <2>7. /\ k[1].tid = Entry(p).tid /\ k[1].res = Entry(p).target
        /\ k[1].lockset \cap Locks = Entry(p).locks
        /\ k[2] = Entry(p).loc
    BY <2>4, <2>6 DEF InstanceOf, Entry
  <2> QED
    BY <2>3, <2>5, <2>7
<1>9. ASSUME NEW e \in DepEvents
      PROVE  Relevant(e.pos)
  <2>1. PICK k \in Slots : e = EventIn(k)
    <3>1. PICK d \in DOMAIN index.depEvents, loc \in SrcLocs :
             e \in Elements(index.depEvents[d][loc])
      BY DEF DepEvents, EventsIn
    <3>2. PICK i \in DOMAIN index.depEvents[d][loc] : e = index.depEvents[d][loc][i]
      <4>1. index.depEvents[d][loc] \in Seq(Event)
        BY <3>1 DEF TypeOK, IndexType
      <4> QED
        BY <3>1, <4>1 DEF Elements
    <3>3. <<d, loc, i>> \in Slots
      BY <3>1, <3>2 DEF Slots
    <3>4. EventIn(<<d, loc, i>>) = index.depEvents[d][loc][i]
      BY DEF EventIn
    <3> QED
      BY <3>2, <3>3, <3>4
  <2>2. PICK d \in Dependency, loc \in SrcLocs : \E i :
           k = <<d, loc, i>> /\ ListedAt(index, d, loc, i, EventIn(k).pos)
    BY <1>7
  <2> QED
    BY <1>2, <1>5, <2>1, <2>2 DEF InstanceOf
<1>10. ASSUME NEW k \in Slots
       PROVE  k[1].lockset \cap CondVars \subseteq NotifiedSince(EventIn(k).pos)
  <2>1. PICK d \in Dependency, loc \in SrcLocs : \E i :
           k = <<d, loc, i>> /\ ListedAt(index, d, loc, i, EventIn(k).pos)
    BY <1>7
  <2>2. /\ EventIn(k).pos \in Positions
        /\ InstanceOf(log[EventIn(k).pos + 1], Since(log)[EventIn(k).pos], d, loc)
    BY <1>5, <2>1
  <2>3. k[1] = d
    BY <2>1
  <2> QED
    BY <1>2, <2>2, <2>3 DEF InstanceOf
<1>11. EveryRequestKeptOnce
  BY <1>8, <1>9 DEF EveryRequestKeptOnce
<1>12. CondVarsOnlyNotifiedSince
  BY <1>10 DEF CondVarsOnlyNotifiedSince
<1> QED
  BY <1>11, <1>12

\* Whatever moves between dependencies, no request or wait that the predictor needs is
\* lost, and none is there twice.
THEOREM RequestsKeptOnce == LogSpec => []EveryRequestKeptOnce
<1> DEFINE Inv == TypeOK /\ IndexConsistent /\ SleepInv /\ LogInv /\ RequestsInv
<1>1. LogInit => Inv
  BY TypeOfInit, IndexOfInit, SleepOfInit, LogOfInit, RequestsOfInit DEF LogInit
<1>2. Inv /\ [LogNext]_logVars => Inv'
  BY LogStepIsStep, TypeOfStep, IndexOfStep, SleepOfStep, LogOfStep, RequestsOfStep
<1>3. Inv => EveryRequestKeptOnce
  BY RequestsAreKept
<1> QED
  BY <1>1, <1>2, <1>3, PTL DEF LogSpec

\* A dependency never has a condition variable that its thread has not notified since
\* each event in its lists.
THEOREM CondVarsNeverTooMany == LogSpec => []CondVarsOnlyNotifiedSince
<1> DEFINE Inv == TypeOK /\ IndexConsistent /\ SleepInv /\ LogInv /\ RequestsInv
<1>1. LogInit => Inv
  BY TypeOfInit, IndexOfInit, SleepOfInit, LogOfInit, RequestsOfInit DEF LogInit
<1>2. Inv /\ [LogNext]_logVars => Inv'
  BY LogStepIsStep, TypeOfStep, IndexOfStep, SleepOfStep, LogOfStep, RequestsOfStep
<1>3. Inv => CondVarsOnlyNotifiedSince
  BY RequestsAreKept
<1> QED
  BY <1>1, <1>2, <1>3, PTL DEF LogSpec

-----------------------------------------------------------------------------
(* Dependencies that have just what was notified, while nothing is         *)
(* forgotten.                                                              *)

\* One of the first n updates of the loop of notify_event has made this dependency.
Renamed(list, n, r, e) == \E k \in 1..n : r \notin list[k].lockset /\ e = WithResource(list[k], r)

\* After n updates: the condition variables of a dependency are those notified since each
\* of its events, and r if it has been renamed.
Exact(ix, lg, N, list, n, r) ==
    \A e \in Dependency, l \in SrcLocs : \A i, p : ListedAt(ix, e, l, i, p) =>
        /\ p \in PositionsOf(lg) /\ lg[p + 1].tid = e.tid
        /\ \/ e.lockset \cap CondVars = N[p]
           \/ Renamed(list, n, r, e) /\ e.lockset \cap CondVars = N[p] \cup {r}

\* Each list is in the order of the trace.
InOrder(ix) ==
    \A e \in Dependency, l \in SrcLocs : \A i, j, p, q :
        ListedAt(ix, e, l, i, p) /\ ListedAt(ix, e, l, j, q) /\ i < j => p < q

\* Of two events of a thread, r has been notified since the earlier one if since either.
Later(lg, N, r) ==
    \A p, q \in PositionsOf(lg) :
        lg[p + 1].tid = lg[q + 1].tid /\ r \in N[p] /\ r \notin N[q] => p < q

\* Two dependencies without r are the same if they are once r is added.
LEMMA RenamedOnce ==
    ASSUME NEW d \in Dependency, NEW e \in Dependency, NEW r \in Resources,
           r \notin d.lockset, r \notin e.lockset, WithResource(d, r) = WithResource(e, r)
    PROVE  d = e
<1>1. WithResource(d, r) = [tid |-> d.tid, res |-> d.res, lockset |-> d.lockset \cup {r}]
  BY DEF WithResource, Dependency
<1>2. WithResource(e, r) = [tid |-> e.tid, res |-> e.res, lockset |-> e.lockset \cup {r}]
  BY DEF WithResource, Dependency
<1>3. d.tid = e.tid /\ d.res = e.res /\ d.lockset \cup {r} = e.lockset \cup {r}
  <2>1. /\ WithResource(d, r).tid = d.tid /\ WithResource(d, r).res = d.res
        /\ WithResource(d, r).lockset = d.lockset \cup {r}
    BY <1>1
  <2>2. /\ WithResource(e, r).tid = e.tid /\ WithResource(e, r).res = e.res
        /\ WithResource(e, r).lockset = e.lockset \cup {r}
    BY <1>2
  <2> QED
    BY <2>1, <2>2
<1>4. d.lockset = e.lockset
  BY <1>3
<1> QED
  BY <1>3, <1>4 DEF Dependency

\* One update keeps the condition variables exact and the lists in order.
LEMMA ExactAfterUpdate ==
    ASSUME NEW ix, IndexType(ix), DOMAIN ix.depEvents = ix.absDeps, NEW lg, NEW N,
           NEW list \in Seq(Dependency), NoDuplicates(list), NEW n \in 1..Len(list),
           NEW r \in CondVars, Exact(ix, lg, N, list, n - 1, r), InOrder(ix), Later(lg, N, r)
    PROVE  /\ Exact(UpdateDep(ix, list[n], r), lg, N, list, n, r)
           /\ InOrder(UpdateDep(ix, list[n], r))
<1> DEFINE old == list[n]
           dep == WithResource(old, r)
           new == UpdateDep(ix, old, r)
<1>1. /\ Len(list) \in Nat /\ n \in Nat /\ DOMAIN list = 1..Len(list) /\ r \in Resources
      /\ \A k \in 1..Len(list) : list[k] \in Dependency
  BY LenProperties, ElementOfSeq, ConstantTypes
<1>2. 1..n = 1..(n - 1) \cup {n} /\ 1..n \subseteq 1..Len(list)
  BY <1>1
<1>3. old \in Dependency
  BY <1>1
<1>4. \A e : Renamed(list, n - 1, r, e) => Renamed(list, n, r, e)
  BY <1>2 DEF Renamed
<1>5. CASE r \in old.lockset
  <2>1. new = ix
    BY <1>5 DEF UpdateDep
  <2>2. Exact(ix, lg, N, list, n, r)
    BY <1>4 DEF Exact
  <2> QED
    BY <2>1, <2>2
<1>6. CASE r \notin old.lockset
  <2>1. /\ dep \in Dependency /\ dep # old /\ dep.tid = old.tid
        /\ dep.lockset = old.lockset \cup {r}
    BY <1>1, <1>3, <1>6, WithResourceType
  <2>2. Renamed(list, n, r, dep)
    BY <1>1, <1>6 DEF Renamed
  <2>3. ~Renamed(list, n - 1, r, dep)
    <3> SUFFICES ASSUME NEW k \in 1..(n - 1), r \notin list[k].lockset,
                        dep = WithResource(list[k], r)
                 PROVE  FALSE
      BY DEF Renamed
    <3>1. k \in 1..Len(list) /\ k # n
      BY <1>1
    <3>2. list[k] = old
      BY <1>1, <1>3, <1>6, <3>1, RenamedOnce
    <3> QED
      BY <1>1, <3>1, <3>2 DEF NoDuplicates
  <2>4. ~Renamed(list, n - 1, r, old)
    <3> SUFFICES ASSUME NEW k \in 1..(n - 1), old = WithResource(list[k], r)
                 PROVE  FALSE
      BY DEF Renamed
    <3>1. k \in 1..Len(list)
      BY <1>1
    <3> QED
      BY <1>1, <1>6, <3>1, WithResourceType
  <2> DEFINE room(l) == Len(EventsOf(ix, dep)[l])
  <2>5. \A l \in SrcLocs : \A i, p :
           ListedAt(new, dep, l, i, p) <=>
              ListedAt(ix, dep, l, i, p) \/ (i \in Nat /\ ListedAt(ix, old, l, i - room(l), p))
    BY <1>3, <1>6, PlacesAfterUpdate
  <2>6. \A e \in Dependency, l \in SrcLocs : \A i, p : e # dep =>
           (ListedAt(new, e, l, i, p) <=> e # old /\ ListedAt(ix, e, l, i, p))
    BY <1>3, <1>6, PlacesAfterUpdate
  <2>7. \A l \in SrcLocs : room(l) \in Nat
    BY <1>3, <1>6, PlacesAfterUpdate
  <2>8. \A l \in SrcLocs : \A i, p :
           /\ ListedAt(ix, dep, l, i, p) => i \in 1..room(l)
           /\ ListedAt(ix, old, l, i - room(l), p) => i - room(l) \in Nat \ {0}
    <3>1. \A l \in SrcLocs : Len(EventsOf(ix, old)[l]) \in Nat
      BY EventsOfFacts, LenProperties
    <3> QED
      BY <3>1 DEF ListedAt
  <2> HIDE DEF new, dep, old, room
  <2>9. \A l \in SrcLocs : \A i, p : ListedAt(ix, old, l, i, p) =>
           /\ p \in PositionsOf(lg) /\ lg[p + 1].tid = old.tid
           /\ old.lockset \cap CondVars = N[p]
    BY <1>3, <2>4 DEF Exact
  <2>10. \A l \in SrcLocs : \A i, p : ListedAt(ix, dep, l, i, p) =>
           /\ p \in PositionsOf(lg) /\ lg[p + 1].tid = dep.tid
           /\ dep.lockset \cap CondVars = N[p]
    BY <2>1, <2>3 DEF Exact
  <2>11. Exact(new, lg, N, list, n, r)
    <3> SUFFICES ASSUME NEW e \in Dependency, NEW l \in SrcLocs, NEW i, NEW p,
                        ListedAt(new, e, l, i, p)
                 PROVE  /\ p \in PositionsOf(lg) /\ lg[p + 1].tid = e.tid
                        /\ \/ e.lockset \cap CondVars = N[p]
                           \/ Renamed(list, n, r, e) /\ e.lockset \cap CondVars = N[p] \cup {r}
      BY DEF Exact
    <3>1. CASE e # dep
      BY <1>4, <2>6, <3>1 DEF Exact
    <3>2. CASE e = dep /\ ListedAt(ix, dep, l, i, p)
      BY <2>10, <3>2
    <3>3. CASE e = dep /\ ListedAt(ix, old, l, i - room(l), p)
      <4>1. /\ p \in PositionsOf(lg) /\ lg[p + 1].tid = e.tid
            /\ old.lockset \cap CondVars = N[p]
        BY <2>1, <2>9, <3>3
      <4>2. e.lockset \cap CondVars = N[p] \cup {r}
        BY <2>1, <3>3, <4>1
      <4> QED
        BY <2>2, <3>3, <4>1, <4>2
    <3> QED
      BY <2>5, <3>1, <3>2, <3>3
  <2>12. InOrder(new)
    <3> SUFFICES ASSUME NEW e \in Dependency, NEW l \in SrcLocs, NEW i, NEW j, NEW p, NEW q,
                        ListedAt(new, e, l, i, p), ListedAt(new, e, l, j, q), i < j
                 PROVE  p < q
      BY DEF InOrder
    <3>1. CASE e # dep
      BY <2>6, <3>1 DEF InOrder
    <3>2. CASE e = dep /\ ListedAt(ix, dep, l, i, p) /\ ListedAt(ix, dep, l, j, q)
      BY <2>1, <3>2 DEF InOrder
    <3>3. CASE e = dep /\ ListedAt(ix, dep, l, i, p) /\ ListedAt(ix, old, l, j - room(l), q)
      <4>1. r \in N[p] /\ r \notin N[q]
        BY <1>6, <2>1, <2>9, <2>10, <3>3
      <4>2. p \in PositionsOf(lg) /\ q \in PositionsOf(lg) /\ lg[p + 1].tid = lg[q + 1].tid
        BY <2>1, <2>9, <2>10, <3>3
      <4> QED
        BY <4>1, <4>2 DEF Later
    <3>4. CASE /\ e = dep /\ i \in Nat /\ ListedAt(ix, old, l, i - room(l), p)
               /\ ListedAt(ix, dep, l, j, q)
      <4>1. i - room(l) \in Nat \ {0} /\ j \in 1..room(l) /\ room(l) \in Nat
        BY <2>7, <2>8, <3>4
      <4>2. ~(i < j)
        BY <3>4, <4>1
      <4> QED
        BY <4>2
    <3>5. CASE /\ e = dep /\ i \in Nat /\ j \in Nat /\ ListedAt(ix, old, l, i - room(l), p)
               /\ ListedAt(ix, old, l, j - room(l), q)
      <4>1. i - room(l) < j - room(l)
        BY <2>7, <3>5
      <4> QED
        BY <1>3, <3>5, <4>1 DEF InOrder
    <3> QED
      BY <2>5, <3>1, <3>2, <3>3, <3>4, <3>5
  <2> QED
    BY <2>11, <2>12 DEF new, old
<1> QED
  BY <1>5, <1>6

\* The loop of notify_event: at its end, each dependency of the thread has the condition
\* variable and is recent, if all of them were recent before.
LEMMA ExactAfterNotify ==
    ASSUME NEW ix, IndexType(ix), DOMAIN ix.depEvents = ix.absDeps, NEW lg, NEW N, NEW t,
           NEW list \in Seq(Dependency), NoDuplicates(list), Len(list) <= Capacity,
           \A d \in Elements(list) : d.tid = t,
           \A d \in ix.absDeps : d.tid = t => d \in Elements(list),
           NEW r \in CondVars, Exact(ix, lg, N, list, 0, r), InOrder(ix), Later(lg, N, r)
    PROVE  /\ Exact(UpdateRecent(ix, list, r).index, lg, N, list, Len(list), r)
           /\ InOrder(UpdateRecent(ix, list, r).index)
           /\ \A d \in UpdateRecent(ix, list, r).index.absDeps :
                 IF d.tid = t THEN d \in Elements(UpdateRecent(ix, list, r).list) /\ r \in d.lockset
                 ELSE d \in ix.absDeps
<1> DEFINE n == Len(list)
<1>1. /\ n \in Nat /\ \A i \in 1..n : list[i] \in Dependency /\ list[i].tid = t
      /\ r \in Resources /\ Capacity \in Nat /\ DOMAIN list = 1..n
  BY LenProperties, ElementOfSeq, ConstantTypes, CapacityAssumption DEF Elements
<1>2. PICK f : LoopOf(f, ix, list, r)
  BY <1>1, LoopExists
<1>10. /\ f[0] = [index |-> ix, list |-> <<>>]
       /\ \A i \in 1..n : f[i] = UpdateOne(f[i-1], list[i], r)
       /\ UpdateRecent(ix, list, r) = f[n]
  BY <1>2 DEF LoopOf
<1> DEFINE Lists(i) == /\ IndexType(f[i].index)
                       /\ DOMAIN f[i].index.depEvents = f[i].index.absDeps
                       /\ Exact(f[i].index, lg, N, list, i, r)
                       /\ InOrder(f[i].index)
           Pushed(i) == /\ f[i].list \in Seq(Dependency)
                        /\ NoDuplicates(f[i].list)
                        /\ Len(f[i].list) <= i
           Covers(i) == \A d \in f[i].index.absDeps :
               /\ d.tid = t => \/ d \in Elements(f[i].list) /\ r \in d.lockset
                               \/ \E k \in (i + 1)..n : d = list[k]
               /\ d.tid # t => d \in ix.absDeps
           G == {i \in 0..n : Lists(i) /\ Pushed(i) /\ Covers(i)}
<1> HIDE DEF n
<1>3. 0 \in G
  <2>1. f[0].index = ix /\ f[0].list = <<>>
    BY <1>10
  <2>2. 0 \in 0..n
    BY <1>1
  <2>3. Lists(0)
    BY <2>1
  <2>4. Pushed(0)
    BY <2>1 DEF NoDuplicates
  <2>5. Covers(0)
    <3>1. \A d \in ix.absDeps : d.tid = t => \E k \in 1..n : d = list[k]
      BY <1>1 DEF Elements
    <3> QED
      BY <2>1, <3>1
  <2> QED
    BY <2>2, <2>3, <2>4, <2>5
<1>4. ASSUME NEW i \in 1..n, i - 1 \in G
      PROVE  i \in G
  <2> DEFINE old == list[i]
             dep == WithResource(old, r)
             b == f[i-1].index
             s == f[i-1].list
  <2>1. i \in 0..n /\ i - 1 + 1 = i
    BY <1>1
  <2>2. f[i].index = UpdateDep(b, old, r) /\ f[i].list = Push(s, dep)
    <3>1. f[i] = UpdateOne(f[i-1], list[i], r)
      BY <1>10
    <3> QED
      BY <3>1 DEF UpdateOne
  <2>3. /\ old \in Dependency /\ old.tid = t
        /\ dep \in Dependency /\ dep.tid = t /\ r \in dep.lockset
        /\ r \in old.lockset => dep = old
    BY <1>1, WithResourceType
  <2>4. Lists(i - 1) /\ Pushed(i - 1) /\ Covers(i - 1)
    BY <1>4
  <2>5. /\ IndexType(b) /\ DOMAIN b.depEvents = b.absDeps
        /\ Exact(b, lg, N, list, i - 1, r) /\ InOrder(b)
        /\ s \in Seq(Dependency) /\ NoDuplicates(s) /\ Len(s) <= i - 1
    BY <2>4
  <2>6. \A d \in b.absDeps :
           /\ d.tid = t => \/ d \in Elements(s) /\ r \in d.lockset
                           \/ \E k \in i..n : d = list[k]
           /\ d.tid # t => d \in ix.absDeps
    BY <2>1, <2>4
  <2>7. UpdateDep(b, old, r).absDeps \subseteq (b.absDeps \ {old}) \cup {dep}
    <3>1. CASE r \in old.lockset
      BY <2>3, <3>1 DEF UpdateDep
    <3>2. CASE r \notin old.lockset
      BY <3>2 DEF UpdateDep
    <3> QED
      BY <3>1, <3>2
  <2> HIDE DEF b, s, dep
  <2>8. Lists(i)
    <3>1. IndexType(UpdateDep(b, old, r))
      BY <1>1, <2>3, <2>5, UpdateDepFacts
    <3>2. DOMAIN UpdateDep(b, old, r).depEvents = UpdateDep(b, old, r).absDeps
      BY <2>5, DomainAfterUpdate
    <3>3. Exact(UpdateDep(b, old, r), lg, N, list, i, r) /\ InOrder(UpdateDep(b, old, r))
      BY <2>5, ExactAfterUpdate DEF n
    <3> QED
      BY <2>2, <3>1, <3>2, <3>3
  <2> HIDE DEF old
  <2>9. Len(s) \in Nat /\ Len(s) # Capacity
    <3>1. n <= Capacity
      BY DEF n
    <3>2. Len(s) \in Nat
      BY <2>5, LenProperties
    <3> QED
      BY <1>1, <2>5, <3>1, <3>2
  <2>10. /\ Elements(Push(s, dep)) = Elements(s) \cup {dep}
         /\ Len(Push(s, dep)) <= Len(s) + 1
    BY <2>3, <2>5, <2>9, PushKeepsAll
  <2>11. Push(s, dep) \in Seq(Dependency) /\ NoDuplicates(Push(s, dep))
    <3>1. Len(s) <= Capacity
      <4>1. n <= Capacity
        BY DEF n
      <4> QED
        BY <1>1, <2>5, <2>9, <4>1
    <3> QED
      BY <2>3, <2>5, <3>1, PushFacts
  <2>12. Pushed(i)
    <3>1. Len(Push(s, dep)) \in Nat
      BY <2>11, LenProperties
    <3>2. Len(Push(s, dep)) <= i
      BY <1>1, <2>5, <2>9, <2>10, <3>1
    <3> QED
      BY <2>2, <2>11, <3>2
  <2>13. Covers(i)
    <3> SUFFICES ASSUME NEW d \in UpdateDep(b, old, r).absDeps
                 PROVE  /\ d.tid = t => \/ d \in Elements(Push(s, dep)) /\ r \in d.lockset
                                        \/ \E k \in (i + 1)..n : d = list[k]
                        /\ d.tid # t => d \in ix.absDeps
      BY <2>2
    <3>1. CASE d = dep
      BY <2>3, <2>10, <3>1
    <3>2. CASE d # dep
      <4>1. d \in b.absDeps /\ d # old
        BY <2>7, <3>2
      <4>2. ASSUME NEW k \in i..n, d = list[k]
            PROVE  k \in (i + 1)..n
        <5>1. k # i
          BY <4>1, <4>2 DEF old
        <5> QED
          BY <1>1, <5>1
      <4> QED
        BY <2>6, <2>10, <4>1, <4>2
    <3> QED
      BY <3>1, <3>2
  <2> QED
    BY <2>1, <2>8, <2>12, <2>13
<1>5. n \in G
  <2> HIDE DEF G
  <2>1. \A i \in 0..n : i \in G
    BY <1>1, <1>3, <1>4, InductionUpTo
  <2> QED
    BY <1>1, <2>1
<1>6. Lists(n) /\ Covers(n) /\ (n + 1)..n = {}
  BY <1>1, <1>5
<1>7. UpdateRecent(ix, list, r) = f[n]
  BY <1>10
<1> HIDE DEF Lists, Covers
<1>8. Exact(f[n].index, lg, N, list, n, r) /\ InOrder(f[n].index)
  BY <1>6 DEF Lists
<1>9. \A d \in f[n].index.absDeps : IF d.tid = t THEN d \in Elements(f[n].list) /\ r \in d.lockset
                                    ELSE d \in ix.absDeps
  BY <1>6 DEF Covers
<1> QED
  BY <1>7, <1>8, <1>9 DEF n

\* No dependency has been forgotten.
NoneFull(lg) == \A p \in PositionsOf(lg) : MustKeep(lg[p + 1]) => ~lg[p + 1].full

\* The condition variables of each dependency are those notified since its events.
JustSince(ix, lg, N) ==
    \A e \in Dependency, l \in SrcLocs : \A i, p : ListedAt(ix, e, l, i, p) =>
        /\ p \in PositionsOf(lg) /\ lg[p + 1].tid = e.tid
        /\ e.lockset \cap CondVars = N[p]

\* Every dependency of a thread that notifies is one of its recent ones.
AllRecent(ix, rec) == \A t \in NotifThreads, d \in ix.absDeps : d.tid = t => d \in Elements(rec[t])

ExactInv ==
    NoneFull(log) => JustSince(index, log, Since(log)) /\ InOrder(index) /\ AllRecent(index, recent)

\* What has been notified since the later of two events has been since the earlier.
LEMMA SinceIsLater ==
    ASSUME NEW lg, NEW r
    PROVE  Later(lg, Since(lg), r)
<1> SUFFICES ASSUME NEW p \in PositionsOf(lg), NEW q \in PositionsOf(lg),
                    lg[p + 1].tid = lg[q + 1].tid, r \in Since(lg)[p], r \notin Since(lg)[q]
             PROVE  p < q
  BY DEF Later
<1>1. PICK k \in PositionsOf(lg) :
         /\ k > p /\ lg[k + 1].tid = lg[p + 1].tid /\ r = lg[k + 1].target
         /\ lg[k + 1].type = "NOTIFY" /\ ~lg[k + 1].alone
  BY DEF Since
<1>2. ~(k > q)
  BY <1>1 DEF Since
<1>3. p \in Int /\ q \in Int /\ k \in Int
  BY DEF PositionsOf
<1> QED
  BY <1>1, <1>2, <1>3

\* What was forgotten once is forgotten.
LEMMA NoneFullBefore ==
    ASSUME LogInv, LogInv', NEW t, NEW type, NEW target, NEW loc, Record(t, type, target, loc),
           NoneFull(log')
    PROVE  NoneFull(log)
<1>1. PICK x : x = NextEntry(t, type, target, loc)
  OBVIOUS
<1>2. /\ PositionsOf(log') = PositionsOf(log) \cup {pos}
      /\ \A p \in PositionsOf(log) : log'[p + 1] = log[p + 1]
  BY <1>1, RecordedEntry
<1> QED
  BY <1>2 DEF NoneFull

\* An event that leaves index and recent lists alone, and that is no notify.
LEMMA ExactOfOther ==
    ASSUME LogInv, LogInv', ExactInv, NEW t, NEW type, NEW target, NEW loc,
           Record(t, type, target, loc), index' = index, recent' = recent,
           type # "NOTIFY" \/ Cardinality(Alive) = 1
    PROVE  ExactInv'
<1>1. PICK x : x = NextEntry(t, type, target, loc)
  OBVIOUS
<1>2. x.alone = (Cardinality(Alive) = 1)
  BY <1>1, RecordedEntry
<1>3. /\ PositionsOf(log') = PositionsOf(log) \cup {pos}
      /\ \A p \in PositionsOf(log) : log'[p + 1] = log[p + 1]
  BY <1>1, RecordedEntry
<1>4. \A p \in PositionsOf(log) : ~(type = "NOTIFY" /\ ~x.alone /\ t = log[p + 1].tid) =>
         Since(log')[p] = Since(log)[p]
  BY <1>1, RecordedEntry
<1>5. \A p \in PositionsOf(log) : Since(log')[p] = Since(log)[p]
  BY <1>2, <1>4
<1>6. NoneFull(log') => NoneFull(log)
  BY NoneFullBefore
<1>7. JustSince(index, log, Since(log)) => JustSince(index, log', Since(log'))
  BY <1>3, <1>5 DEF JustSince
<1> QED
  BY <1>6, <1>7 DEF ExactInv

\* A new event is the last of its list, its dependency has no condition variable and
\* becomes the newest of the recent ones.
LEMMA ExactOfCreation ==
    ASSUME TypeOK, IndexConsistent, LogInv, LogInv', ExactInv, NEW t \in Threads,
           NEW type \in {"REQ", "WAIT"},
           NEW target \in Resources, NEW loc \in SrcLocs, Record(t, type, target, loc),
           Cardinality(Alive) # 1, NEW evt \in Event, evt.pos = pos,
           HandleDepCreation(t, target, loc, evt)
    PROVE  ExactInv'
<1> DEFINE d == [tid |-> t, res |-> target, lockset |-> Lockset(t)]
<1>1. CASE ~(t \in NotifThreads \/ Lockset(t) # {})
  <2>1. index' = index /\ recent' = recent
    BY <1>1 DEF HandleDepCreation
  <2> QED
    BY <2>1, ExactOfOther
<1>2. CASE t \in NotifThreads \/ Lockset(t) # {}
  <2> SUFFICES ASSUME NoneFull(log')
               PROVE  /\ JustSince(index', log', Since(log')) /\ InOrder(index')
                      /\ AllRecent(index', recent')
    BY DEF ExactInv
  <2>1. JustSince(index, log, Since(log)) /\ InOrder(index) /\ AllRecent(index, recent)
    BY NoneFullBefore DEF ExactInv
  <2>2. PICK x : x = NextEntry(t, type, target, loc)
    OBVIOUS
  <2>3. /\ x.tid = t /\ x.type = type /\ x.locks = Lockset(t)
        /\ x.alone = (Cardinality(Alive) = 1) /\ x.full = (Len(recent[t]) = Capacity)
    BY <2>2, RecordedEntry
  <2>4. /\ PositionsOf(log') = PositionsOf(log) \cup {pos} /\ pos \notin PositionsOf(log)
        /\ \A p \in PositionsOf(log) : log'[p + 1] = log[p + 1]
        /\ log'[pos + 1] = x
    BY <2>2, RecordedEntry
  <2>5. /\ Since(log')[pos] = {}
        /\ \A p \in PositionsOf(log) :
              ~(type = "NOTIFY" /\ ~x.alone /\ t = log[p + 1].tid) =>
                 Since(log')[p] = Since(log)[p]
    BY <2>2, RecordedEntry
  <2>6. \A p \in PositionsOf(log) : Since(log')[p] = Since(log)[p]
    BY <2>5
  <2>7. Len(recent[t]) # Capacity
    <3>1. MustKeep(x)
      BY <1>2, <2>3 DEF MustKeep
    <3> QED
      BY <2>3, <2>4, <3>1 DEF NoneFull
  <2>8. /\ index' = CreateDep(index, d, loc, evt)
        /\ recent' = IF t \in NotifThreads THEN [recent EXCEPT ![t] = Push(@, d)] ELSE recent
    BY <1>2 DEF HandleDepCreation
  <2>9. d \in Dependency /\ d.tid = t /\ d.lockset \cap CondVars = {} /\ IndexType(index)
    <3>1. Lockset(t) \subseteq Locks /\ Locks \subseteq Resources
      BY DEF Lockset, Resources
    <3>2. Locks \cap CondVars = {}
      BY HandlerAssumption DEF CondVars, Associated
    <3>3. IndexType(index)
      BY DEF TypeOK
    <3>4. d \in Dependency
      BY <3>1 DEF Dependency
    <3> QED
      BY <3>1, <3>2, <3>3, <3>4
  <2> HIDE DEF d
  <2>10. \A e \in Dependency, l \in SrcLocs : \A i, p :
            ListedAt(index', e, l, i, p) <=>
               \/ ListedAt(index, e, l, i, p)
               \/ e = d /\ l = loc /\ i = Len(EventsOf(index, d)[loc]) + 1 /\ p = pos
    BY <2>8, <2>9, PlacesAfterCreate
  <2>11. JustSince(index', log', Since(log'))
    BY <2>1, <2>3, <2>4, <2>5, <2>6, <2>9, <2>10 DEF JustSince
  <2>12. InOrder(index')
    <3> SUFFICES ASSUME NEW e \in Dependency, NEW l \in SrcLocs, NEW i, NEW j, NEW p, NEW q,
                        ListedAt(index', e, l, i, p), ListedAt(index', e, l, j, q), i < j
                 PROVE  p < q
      BY DEF InOrder
    <3>1. Len(EventsOf(index, d)[loc]) \in Nat
      BY <2>9, EventsOfFacts, LenProperties
    <3>2. CASE ListedAt(index, e, l, i, p) /\ ListedAt(index, e, l, j, q)
      BY <2>1, <3>2 DEF InOrder
    <3>3. CASE ListedAt(index, e, l, i, p) /\ q = pos
      <4>1. p \in 0..(Len(log) - 1) /\ Len(log) = pos
        BY <2>1, <3>3 DEF JustSince, PositionsOf, LogInv
      <4>2. pos \in Nat
        BY DEF TypeOK
      <4> QED
        BY <3>3, <4>1, <4>2
    <3>4. CASE ListedAt(index, e, l, j, q) /\ e = d /\ l = loc
               /\ i = Len(EventsOf(index, d)[loc]) + 1
      <4>1. j \in 1..Len(EventsOf(index, d)[loc])
        BY <3>4 DEF ListedAt
      <4> QED
        BY <3>1, <3>4, <4>1
    <3>5. CASE i = Len(EventsOf(index, d)[loc]) + 1 /\ j = Len(EventsOf(index, d)[loc]) + 1
      BY <3>1, <3>5
    <3> QED
      BY <2>10, <3>2, <3>3, <3>4, <3>5
  <2>13. AllRecent(index', recent')
    <3>1. index'.absDeps = index.absDeps \cup {d}
      BY <2>8 DEF CreateDep
    <3>2. CASE t \notin NotifThreads
      BY <2>1, <2>8, <2>9, <3>1, <3>2 DEF AllRecent
    <3>3. CASE t \in NotifThreads
      <4>1. recent \in [Threads -> Seq(Dependency)] /\ NoDuplicates(recent[t])
        BY DEF TypeOK, IndexConsistent, RecentLinked
      <4>2. Elements(Push(recent[t], d)) = Elements(recent[t]) \cup {d}
        BY <2>7, <2>9, <4>1, PushKeepsAll
      <4>3. recent' = [recent EXCEPT ![t] = Push(recent[t], d)]
        BY <2>8, <3>3
      <4>4. \A u \in Threads : Elements(recent'[u]) = Elements(recent[u])
                                  \cup (IF u = t THEN {d} ELSE {})
        BY <4>1, <4>2, <4>3
      <4>5. NotifThreads \subseteq Threads
        BY HandlerAssumption
      <4> QED
        BY <2>1, <2>9, <3>1, <4>4, <4>5 DEF AllRecent
    <3> QED
      BY <3>2, <3>3
  <2> QED
    BY <2>11, <2>12, <2>13
<1> QED
  BY <1>1, <1>2

\* A notify adds its condition variable to each dependency of its thread.
LEMMA ExactOfNotify ==
    ASSUME TypeOK, IndexConsistent, LogInv, LogInv', ExactInv, NEW t \in Threads,
           NEW c \in CondVars, NEW all \in BOOLEAN, NotifyEvent(t, c, all),
           Record(t, "NOTIFY", c, 0), ~Alone, Cardinality(Alive) # 1
    PROVE  ExactInv'
<1> SUFFICES ASSUME NoneFull(log')
             PROVE  /\ JustSince(index', log', Since(log')) /\ InOrder(index')
                    /\ AllRecent(index', recent')
  BY DEF ExactInv
<1>1. JustSince(index, log, Since(log)) /\ InOrder(index) /\ AllRecent(index, recent)
  BY NoneFullBefore DEF ExactInv
<1>2. PICK x : x = NextEntry(t, "NOTIFY", c, 0)
  OBVIOUS
<1>3. x.alone = (Cardinality(Alive) = 1)
  BY <1>2, RecordedEntry
<1>4. /\ PositionsOf(log') = PositionsOf(log) \cup {pos}
      /\ \A p \in PositionsOf(log) : log'[p + 1] = log[p + 1]
  BY <1>2, RecordedEntry
<1>5. \A p \in PositionsOf(log) : ~x.alone /\ t = log[p + 1].tid =>
         Since(log')[p] = Since(log)[p] \cup {c}
  BY <1>2, RecordedEntry
<1>6. \A p \in PositionsOf(log) : ~(~x.alone /\ t = log[p + 1].tid) =>
         Since(log')[p] = Since(log)[p]
  BY <1>2, RecordedEntry
<1>7. \A p \in PositionsOf(log) :
         /\ t = log[p + 1].tid => Since(log')[p] = Since(log)[p] \cup {c}
         /\ t # log[p + 1].tid => Since(log')[p] = Since(log)[p]
  BY <1>3, <1>5, <1>6
<1> DEFINE list == recent[t]
           new == UpdateRecent(index, list, c)
<1>8. /\ t \in NotifThreads /\ index' = new.index
      /\ recent' = [recent EXCEPT ![t] = new.list]
  BY DEF NotifyEvent
<1>9. /\ recent \in [Threads -> Seq(Dependency)] /\ IndexType(index)
      /\ DOMAIN index.depEvents = index.absDeps
      /\ NoDuplicates(list) /\ Len(list) <= Capacity /\ \A d \in Elements(list) : d.tid = t
  BY DEF TypeOK, IndexConsistent, IndexLinked, RecentLinked
<1>10. \A d \in index.absDeps : d.tid = t => d \in Elements(list)
  BY <1>1, <1>8 DEF AllRecent
<1>11. Exact(index, log, Since(log), list, 0, c)
  BY <1>1 DEF Exact, JustSince
<1>12. list \in Seq(Dependency)
  BY <1>9
<1>13. Later(log, Since(log), c)
  BY SinceIsLater
<1> HIDE DEF list
<1>14. /\ Exact(new.index, log, Since(log), list, Len(list), c)
       /\ InOrder(new.index)
       /\ \A d \in new.index.absDeps :
             IF d.tid = t THEN d \in Elements(new.list) /\ c \in d.lockset
             ELSE d \in index.absDeps
  BY <1>1, <1>9, <1>10, <1>11, <1>12, <1>13, ExactAfterNotify
<1>15. DOMAIN new.index.depEvents = new.index.absDeps
  <2>1. /\ RecentLinked(list, t, index) /\ IndexLinked(index) /\ c \in Resources
    BY ConstantTypes DEF IndexConsistent, list
  <2>2. IndexLinked(new.index)
    BY <1>9, <1>12, <2>1, UpdateRecentLinked
  <2> QED
    BY <2>2 DEF IndexLinked
<1> HIDE DEF new
<1>16. JustSince(new.index, log', Since(log'))
  <2> SUFFICES ASSUME NEW e \in Dependency, NEW l \in SrcLocs, NEW i, NEW p,
                      ListedAt(new.index, e, l, i, p)
               PROVE  /\ p \in PositionsOf(log') /\ log'[p + 1].tid = e.tid
                      /\ e.lockset \cap CondVars = Since(log')[p]
    BY DEF JustSince
  <2>1. /\ p \in PositionsOf(log) /\ log[p + 1].tid = e.tid
        /\ \/ e.lockset \cap CondVars = Since(log)[p]
           \/ /\ Renamed(list, Len(list), c, e)
              /\ e.lockset \cap CondVars = Since(log)[p] \cup {c}
    BY <1>14 DEF Exact
  <2>2. e \in new.index.absDeps
    <3> SUFFICES ASSUME e \notin DOMAIN new.index.depEvents
                 PROVE  FALSE
      BY <1>15
    <3>1. EventsOf(new.index, e)[l] = <<>>
      BY DEF EventsOf
    <3>2. 1..Len(<<>>) = {}
      OBVIOUS
    <3> QED
      BY <3>1, <3>2 DEF ListedAt
  <2>3. CASE e.tid = t
    <3>1. c \in e.lockset
      BY <1>14, <2>2, <2>3
    <3>2. e.lockset \cap CondVars = Since(log)[p] \cup {c}
      BY <2>1, <3>1
    <3> QED
      BY <1>4, <1>7, <2>1, <2>3, <3>2
  <2>4. CASE e.tid # t
    <3>1. ~Renamed(list, Len(list), c, e)
      <4> SUFFICES ASSUME NEW k \in 1..Len(list), e = WithResource(list[k], c)
                   PROVE  FALSE
        BY DEF Renamed
      <4>1. list[k] \in Dependency /\ list[k].tid = t /\ c \in Resources
        BY <1>9, <1>12, ElementOfSeq, LenProperties, ConstantTypes DEF Elements
      <4> QED
        BY <2>4, <4>1, WithResourceType
    <3> QED
      BY <1>4, <1>7, <2>1, <2>4, <3>1
  <2> QED
    BY <2>3, <2>4
<1>17. AllRecent(new.index, recent')
  <2> SUFFICES ASSUME NEW u \in NotifThreads, NEW d \in new.index.absDeps, d.tid = u
               PROVE  d \in Elements(recent'[u])
    BY DEF AllRecent
  <2>1. u \in Threads
    BY HandlerAssumption
  <2>2. CASE u = t
    <3>1. recent'[u] = new.list
      BY <1>8, <1>9, <2>2
    <3> QED
      BY <1>14, <2>2, <3>1
  <2>3. CASE u # t
    <3>1. recent'[u] = recent[u]
      BY <1>8, <1>9, <2>1, <2>3
    <3> QED
      BY <1>1, <1>14, <2>3, <3>1 DEF AllRecent
  <2> QED
    BY <2>2, <2>3
<1> QED
  BY <1>8, <1>14, <1>16, <1>17

\* At first nothing is listed.
LEMMA ExactOfInit == LogInit => ExactInv
<1> SUFFICES ASSUME LogInit
             PROVE  ExactInv
  OBVIOUS
<1>1. \A d, loc, i, p : loc \in SrcLocs => ~ListedAt(index, d, loc, i, p)
  <2>1. \A d, loc : loc \in SrcLocs => EventsOf(index, d)[loc] = <<>>
    BY DEF LogInit, Init, EmptyIndex, EventsOf
  <2>2. 1..Len(<<>>) = {}
    OBVIOUS
  <2> QED
    BY <2>1, <2>2 DEF ListedAt
<1>2. index.absDeps = {}
  BY DEF LogInit, Init, EmptyIndex
<1>3. JustSince(index, log, Since(log)) /\ InOrder(index)
  BY <1>1 DEF JustSince, InOrder
<1>4. AllRecent(index, recent)
  BY <1>2 DEF AllRecent
<1> QED
  BY <1>3, <1>4 DEF ExactInv

\* Every event keeps the condition variables exact, one step per action.
LEMMA ExactOfStep ==
    TypeOK /\ IndexConsistent /\ SleepInv /\ LogInv /\ LogInv' /\ ExactInv
       /\ [LogNext]_logVars
       => ExactInv'
<1> SUFFICES ASSUME TypeOK, IndexConsistent, SleepInv, LogInv, LogInv', ExactInv,
                    [LogNext]_logVars
             PROVE  ExactInv'
  OBVIOUS
<1>1. CASE UNCHANGED logVars
  BY <1>1 DEF logVars, vars, ExactInv
<1>2. CASE LogNext
  <2>1. ASSUME NEW t \in Threads, NEW type, NEW target, NEW loc,
               Record(t, type, target, loc), index' = index, recent' = recent,
               type # "NOTIFY" \/ Cardinality(Alive) = 1
        PROVE  ExactInv'
    BY <2>1, ExactOfOther
  <2>2. ASSUME NEW t \in Threads, NEW x \in Vars
        PROVE  /\ ReadEvent(t, x) /\ Record(t, "RD", x, 0) => ExactInv'
               /\ WriteEvent(t, x) /\ Record(t, "WR", x, 0) => ExactInv'
    BY <2>1 DEF ReadEvent, WriteEvent
  <2>3. ASSUME NEW t \in Threads, NEW c \in CondVars, NEW loc \in SrcLocs,
               WaitEvent(t, c, loc), Record(t, "WAIT", c, loc)
        PROVE  ExactInv'
    <3>1. Alone <=> Cardinality(Alive) = 1
      BY <2>3, ActorAlive, AloneInLog
    <3>2. CASE Alone
      <4>1. index' = index /\ recent' = recent
        BY <2>3, <3>2 DEF WaitEvent
      <4> QED
        BY <2>1, <2>3, <4>1
    <3>3. CASE ~Alone
      <4> DEFINE evt == [vc |-> clock[t], pos |-> pos]
      <4>1. HandleDepCreation(t, c, loc, evt)
        BY <2>3, <3>3 DEF WaitEvent
      <4>2. evt \in Event /\ evt.pos = pos
        BY DEF Event, TypeOK
      <4>3. c \in Resources
        BY ConstantTypes
      <4> HIDE DEF evt
      <4> QED
        BY <2>3, <3>1, <3>3, <4>1, <4>2, <4>3, ExactOfCreation
    <3> QED
      BY <3>2, <3>3
  <2>4. ASSUME NEW t \in Threads, NEW c \in CondVars, NEW all \in BOOLEAN,
               NotifyEvent(t, c, all), Record(t, "NOTIFY", c, 0)
        PROVE  ExactInv'
    <3>1. Alone <=> Cardinality(Alive) = 1
      BY <2>4, ActorAlive, AloneInLog
    <3>2. CASE Alone
      <4>1. index' = index /\ recent' = recent
        BY <2>4, <3>2 DEF NotifyEvent
      <4> QED
        BY <2>1, <2>4, <3>1, <3>2, <4>1
    <3>3. CASE ~Alone
      BY <2>4, <3>1, <3>3, ExactOfNotify
    <3> QED
      BY <3>2, <3>3
  <2>5. ASSUME NEW t \in Threads, NEW l \in Locks, NEW loc \in SrcLocs,
               RequestEvent(t, l, loc), Record(t, "REQ", l, loc)
        PROVE  ExactInv'
    <3>1. Alone <=> Cardinality(Alive) = 1
      BY <2>5, ActorAlive, AloneInLog
    <3>2. CASE Alone
      <4>1. index' = index /\ recent' = recent
        BY <2>5, <3>2 DEF RequestEvent
      <4> QED
        BY <2>1, <2>5, <4>1
    <3>3. CASE ~Alone
      <4> DEFINE evt == [vc |-> AwakeClock(t, Associated(l)), pos |-> pos]
      <4>1. HandleDepCreation(t, l, loc, evt)
        BY <2>5, <3>3 DEF RequestEvent
      <4>2. evt \in Event /\ evt.pos = pos
        <5>1. Associated(l) \in CondVars /\ l \in Resources
          BY ConstantTypes
        <5>2. AwakeClock(t, Associated(l)) \in Clock
          BY <5>1, TypeOfAwakeClock
        <5> QED
          BY <5>2 DEF Event, TypeOK
      <4>3. l \in Resources
        BY ConstantTypes
      <4> HIDE DEF evt
      <4> QED
        BY <2>5, <3>1, <3>3, <4>1, <4>2, <4>3, ExactOfCreation
    <3> QED
      BY <3>2, <3>3
  <2>6. ASSUME NEW t \in Threads, NEW l \in Locks
        PROVE  /\ AcquireEvent(t, l) /\ Record(t, "LK", l, 0) => ExactInv'
               /\ ReleaseEvent(t, l) /\ Record(t, "UK", l, 0) => ExactInv'
    BY <2>1 DEF AcquireEvent, ReleaseEvent
  <2>7. ASSUME NEW t \in Threads, NEW u \in Threads
        PROVE  /\ ForkEvent(t, u) /\ Record(t, "FORK", u, 0) => ExactInv'
               /\ JoinEvent(t, u) /\ Record(t, "JOIN", u, 0) => ExactInv'
    BY <2>1 DEF ForkEvent, JoinEvent
  <2>8. ASSUME NEW t \in Threads, InvalidEvent(t), Record(t, "OTHER", 0, 0)
        PROVE  ExactInv'
    BY <2>1, <2>8 DEF InvalidEvent
  <2> QED
    BY <1>2, <2>2, <2>3, <2>4, <2>5, <2>6, <2>7, <2>8 DEF LogNext
<1> QED
  BY <1>1, <1>2

\* The invariant is what the properties say of the slots.
LEMMA ExactImplies ==
    ASSUME TypeOK, ExactInv
    PROVE  CondVarsAreNotifiedSince /\ SortedUnlessForgotten
<1>1. PositionsOf(log) = Positions
  BY DEF PositionsOf, Positions
<1>2. NothingForgotten <=> NoneFull(log)
  BY <1>1 DEF NothingForgotten, NoneFull, Relevant, MustKeep, Entry
<1>3. \A p \in Positions : Since(log)[p] = NotifiedSince(p)
  BY <1>1 DEF Entry, Since, NotifiedSince
<1>4. ASSUME NothingForgotten, NEW k \in Slots
      PROVE  k[1].lockset \cap CondVars = NotifiedSince(EventIn(k).pos)
  <2>1. PICK d \in Dependency, loc \in SrcLocs : \E i :
           k = <<d, loc, i>> /\ ListedAt(index, d, loc, i, EventIn(k).pos)
    BY SlotFacts
  <2>2. JustSince(index, log, Since(log))
    BY <1>2, <1>4 DEF ExactInv
  <2>3. EventIn(k).pos \in Positions /\ d.lockset \cap CondVars = Since(log)[EventIn(k).pos]
    BY <1>1, <2>1, <2>2 DEF JustSince
  <2>4. k[1] = d
    BY <2>1
  <2> QED
    BY <1>3, <2>3, <2>4
<1>5. ASSUME NothingForgotten
      PROVE  EventsSorted
  <2>1. InOrder(index)
    BY <1>2, <1>5 DEF ExactInv
  <2>2. ASSUME NEW d \in DOMAIN index.depEvents, NEW loc \in SrcLocs,
               NEW i \in DOMAIN index.depEvents[d][loc],
               NEW j \in DOMAIN index.depEvents[d][loc], i < j
        PROVE  index.depEvents[d][loc][i].pos < index.depEvents[d][loc][j].pos
    <3>1. d \in Dependency /\ index.depEvents[d][loc] \in Seq(Event)
      BY DEF TypeOK, IndexType
    <3>2. EventsOf(index, d)[loc] = index.depEvents[d][loc]
      BY DEF EventsOf
    <3>3. /\ ListedAt(index, d, loc, i, index.depEvents[d][loc][i].pos)
          /\ ListedAt(index, d, loc, j, index.depEvents[d][loc][j].pos)
      BY <3>1, <3>2 DEF ListedAt
    <3> QED
      BY <2>1, <2>2, <3>1, <3>3 DEF InOrder
  <2> QED
    BY <2>2 DEF EventsSorted
<1> QED
  BY <1>4, <1>5 DEF CondVarsAreNotifiedSince, SortedUnlessForgotten

\* While no recent dependency is forgotten, each dependency has exactly the condition
\* variables that its thread notified after each of its events.
THEOREM CondVarsExact == LogSpec => []CondVarsAreNotifiedSince
<1> DEFINE Inv == TypeOK /\ IndexConsistent /\ SleepInv /\ LogInv /\ ExactInv
<1>1. LogInit => Inv
  BY TypeOfInit, IndexOfInit, SleepOfInit, LogOfInit, ExactOfInit DEF LogInit
<1>2. Inv /\ [LogNext]_logVars => Inv'
  BY LogStepIsStep, TypeOfStep, IndexOfStep, SleepOfStep, LogOfStep, ExactOfStep
<1>3. Inv => CondVarsAreNotifiedSince
  BY ExactImplies
<1> QED
  BY <1>1, <1>2, <1>3, PTL DEF LogSpec

\* While no recent dependency is forgotten, the lists that the deadlock checker searches
\* by halving are in the order of the trace.
THEOREM ListsStaySorted == LogSpec => []SortedUnlessForgotten
<1> DEFINE Inv == TypeOK /\ IndexConsistent /\ SleepInv /\ LogInv /\ ExactInv
<1>1. LogInit => Inv
  BY TypeOfInit, IndexOfInit, SleepOfInit, LogOfInit, ExactOfInit DEF LogInit
<1>2. Inv /\ [LogNext]_logVars => Inv'
  BY LogStepIsStep, TypeOfStep, IndexOfStep, SleepOfStep, LogOfStep, ExactOfStep
<1>3. Inv => SortedUnlessForgotten
  BY ExactImplies
<1> QED
  BY <1>1, <1>2, <1>3, PTL DEF LogSpec
=============================================================================
