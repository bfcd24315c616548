----------------------------- MODULE ThreadInfo -----------------------------
(***************************************************************************)
(* What the event handler keeps of one thread that notifies: the locks it  *)
(* holds, as a sorted vector of entries with counts (UReentrantLocksetT),  *)
(* and its recent dependencies, as a CircularLRU.  A dependency has a      *)
(* sorted vector for its lockset; equal sets are equal vectors only if     *)
(* both are sorted, and the dependency's thread is this one.               *)
(***************************************************************************)
EXTENDS CircularLRU, SortedSearch, SequencesExt

CONSTANTS
    Locks,              \* positive identifiers
    WaitedOn,           \* the locks with a condition variable
    MaxDepth            \* bound: how often a lock is held at once

ASSUME ThreadInfoAssumption ==
    Locks \subseteq Nat \ {0} /\ WaitedOn \subseteq Locks /\ MaxDepth \in Nat

CondVars == {-l : l \in WaitedOn}

VARIABLES
    entries,            \* u_reen_lockset._active_locks
    recent,             \* recent_sync_status_cont
    call                \* the last operation, with its argument

vars == <<entries, recent, call>>

-----------------------------------------------------------------------------
(* SortedVector, of resources or of entries by their resource.             *)

\* Where r is, or would be inserted.
LowerBound(resources, r) ==
    PartitionPoint(1, [i \in DOMAIN resources |-> resources[i] < r])

HasAt(resources, i, r) == i <= Len(resources) /\ resources[i] = r

Resources(v) == [i \in DOMAIN v |-> v[i].res]

\* Mutant: a resource is added at the end.
UniqueInsertLast(resources, r) ==
    IF HasAt(resources, LowerBound(resources, r), r) THEN resources ELSE Append(resources, r)

\* unique_insert.
UniqueInsert(resources, r) ==
    LET i == LowerBound(resources, r)
    IN IF HasAt(resources, i, r) THEN resources ELSE InsertAt(resources, i, r)

-----------------------------------------------------------------------------
(* UReentrantLocksetT.                                                     *)

IndexOf(l) == LowerBound(Resources(entries), l)
Held(l) == HasAt(Resources(entries), IndexOf(l), l)
ToLockset == Resources(entries)

Init == entries = <<>> /\ recent = EmptyLRU /\ call = <<"none", 0>>

Acquire(l) ==
    LET i == IndexOf(l)
    IN /\ Held(l) => entries[i].count < MaxDepth
       /\ entries' = IF Held(l) THEN [entries EXCEPT ![i].count = @ + 1]
                     ELSE InsertAt(entries, i, [res |-> l, count |-> 1])
       /\ call' = <<"acquire", l>>
       /\ UNCHANGED recent

\* A thread releases what it holds.
Release(l) ==
    LET i == IndexOf(l)
    IN /\ Held(l)
       /\ entries' = IF entries[i].count = 1 THEN RemoveAt(entries, i)
                     ELSE [entries EXCEPT ![i].count = @ - 1]
       /\ call' = <<"release", l>>
       /\ UNCHANGED recent

\* handle_dep_creation, for a request of a lock or a wait.
Depend(r) ==
    /\ recent' = CircularPush(recent, [res |-> r, lockset |-> ToLockset])
    /\ call' = <<"depend", r>>
    /\ UNCHANGED entries

\* The loop of notify_event: the recent dependencies, renamed, in a new list.
Notify(c) ==
    LET list == ListOf(recent)
        renamed(d) == [d EXCEPT !.lockset = UniqueInsert(@, c)]
        loop[i \in 0..Len(list)] ==
            IF i = 0 THEN EmptyLRU ELSE CircularPush(loop[i-1], renamed(list[i]))
    IN /\ recent' = loop[Len(list)]
       /\ call' = <<"notify", c>>
       /\ UNCHANGED entries

\* A thread asks for a lock it has not, or waits with the lock of a condition
\* variable.
Next ==
    \/ \E l \in Locks : Acquire(l) \/ Release(l) \/ (~Held(l) /\ Depend(l))
    \/ \E c \in CondVars : Held(-c) /\ (Depend(c) \/ Notify(c))

Spec == Init /\ [][Next]_vars

-----------------------------------------------------------------------------
(* The slots, indexes and sorted vectors implement counts and lists.       *)

Thread == INSTANCE ThreadState WITH
    held <- [l \in Locks |-> IF Held(l) THEN entries[IndexOf(l)].count ELSE 0],
    recent <- [k \in DOMAIN ListOf(recent) |->
                [ListOf(recent)[k] EXCEPT !.lockset = ToSet(@)]]

\* Whatever the order of operations, the binary searches find each lock that is
\* held with its count, and the linked slots are the list of distinct
\* dependencies from the oldest to the newest, also after a notify rebuilt it.
ImplementsThreadState == Thread!Spec

\* The list of recent dependencies reads the same from both ends, no slot is
\* lost or in two chains, and the map knows each value by its slot.
LinksConsistent == Consistent(recent)
=============================================================================
