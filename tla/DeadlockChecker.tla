-------------------------- MODULE DeadlockChecker --------------------------
(***************************************************************************)
(* DeadlockChecker: for every deadlock pattern of the dependency graph, is *)
(* there an event of each of its nodes such that the threads can reach all *)
(* of them at once, in an order that keeps the critical sections in the    *)
(* order of the trace?  The actions are the steps of is_sync_preserving_dlk *)
(* and of the loop of main over the patterns; they read what the event     *)
(* handler left and change nothing of it.                                  *)
(***************************************************************************)
EXTENDS DependencyGraph, SortedSearch, FiniteSetsExt

VARIABLES
    phase,      \* what comes next
    todo,       \* the patterns yet to be looked at
    verified,   \* verified_patterns, and the events that were reported
    pattern,    \* the pattern that is looked at
    start,      \* start_elem of each of its event queues
    vc,         \* the closure so far
    csStart,    \* start_elem of each critical section queue, as what it popped
    lockAt,     \* the lock that the closure looks at
    changed     \* the flag of the closure's loop

checkerVars == <<phase, todo, verified, pattern, start, vc, csStart, lockAt, changed>>

Phases == {"recording", "patterns", "merge", "close", "check", "advance", "done"}
NoThread == -1
NoPattern == [nodes |-> <<>>, events |-> <<>>]
NothingPopped == [l \in Locks |-> [t \in Threads |-> 0]]

CurrentEvents == [i \in DOMAIN start |-> pattern.events[i][start[i]]]

CheckerInit ==
    /\ phase = "recording"
    /\ todo = {} /\ verified = {}
    /\ pattern = NoPattern /\ start = <<>>
    /\ vc = EmptyClock /\ csStart = NothingPopped
    /\ lockAt = 0 /\ changed = FALSE

-----------------------------------------------------------------------------
\* The trace is over: build the graph and collect its patterns.
CollectPatterns ==
    /\ phase = "recording"
    /\ todo' = Patterns(index)
    /\ phase' = "patterns"
    /\ UNCHANGED <<verified, pattern, start, vc, csStart, lockAt, changed>>

VerifiedNodes == {v.nodes : v \in verified}

\* A pattern whose nodes were reported already is not looked at again.
SkipPattern(p) ==
    /\ phase = "patterns" /\ p \in todo
    /\ p.nodes \in VerifiedNodes
    /\ todo' = todo \ {p}
    /\ UNCHANGED <<phase, verified, pattern, start, vc, csStart, lockAt, changed>>

\* Mutant: the critical section queues stay where the last pattern left them.
BeginPatternWithoutReset(p) ==
    /\ phase = "patterns" /\ p \in todo
    /\ p.nodes \notin VerifiedNodes
    /\ todo' = todo \ {p}
    /\ pattern' = p /\ start' = [i \in DOMAIN p.events |-> 1]
    /\ vc' = EmptyClock
    /\ phase' = "merge"
    /\ UNCHANGED <<verified, csStart, lockAt, changed>>

BeginPattern(p) ==
    /\ phase = "patterns" /\ p \in todo
    /\ p.nodes \notin VerifiedNodes
    /\ todo' = todo \ {p}
    /\ pattern' = p /\ start' = [i \in DOMAIN p.events |-> 1]
    /\ vc' = EmptyClock /\ csStart' = NothingPopped
    /\ phase' = "merge"
    /\ UNCHANGED <<verified, lockAt, changed>>

NoMorePatterns ==
    /\ phase = "patterns" /\ todo = {}
    /\ phase' = "done"
    /\ UNCHANGED <<todo, verified, pattern, start, vc, csStart, lockAt, changed>>

-----------------------------------------------------------------------------
\* The least clock above v and those of the set.
MergeAll(v, clocks) == [t \in Threads |-> Max({v[t]} \cup {w[t] : w \in clocks})]

\* _update_vc_with_curr_cycle: the closure starts from what happened before
\* the current events, and from what it was for the last ones.
MergePredecessors ==
    /\ phase = "merge"
    /\ vc' = MergeAll(vc, {Decrement(CurrentEvents[i].vc, pattern.nodes[i].tid) :
                           i \in DOMAIN start})
    /\ lockAt' = Min(Locks) /\ changed' = FALSE
    /\ phase' = "close"
    /\ UNCHANGED <<todo, verified, pattern, start, csStart>>

\* CSInfoLess: the critical sections of t at l that start before v.
StartsBelow(l, t, v) ==
    [k \in DOMAIN csHist[l][t] |-> Less(csHist[l][t][k].lock.vc, v)]

\* Mutant: one critical section too few.
PoppedBelowOff(l, t, v) ==
    LET first == PartitionPoint(csStart[l][t] + 1, StartsBelow(l, t, v))
    IN IF first > Len(csHist[l][t]) THEN Len(csHist[l][t]) ELSE first - 2

\* How many critical sections of t at l start before v.
PoppedBelow(l, t, v) == PartitionPoint(csStart[l][t] + 1, StartsBelow(l, t, v)) - 1

\* Mutant: sections are compared by their releases.
LessThanTrByRelease(r, s) == r.unlock.pos < s.unlock.pos

\* less_than_tr.  It reads the release only if the acquire comes before.
LessThanTr(r, s) == r.lock.pos < s.lock.pos /\ r.unlock.pos < s.lock.pos

\* Mutant: the release of the latest critical section is merged as well.
MustEndAll(l, popped) == {t \in Threads : popped[t] > 0}

\* Of the threads that started a section at l, the one whose section comes last
\* in the trace; latest[n] is that of the threads below n.
LatestStarted(l, popped) ==
    LET section(t) == csHist[l][t][popped[t]]
        started(t) == t \in Threads /\ popped[t] > 0
        latest[n \in 0..(Max(Threads) + 1)] ==
            IF n = 0 THEN NoThread
            ELSE IF /\ started(n - 1)
                    /\ \/ latest[n-1] = NoThread
                       \/ LessThanTr(section(latest[n-1]), section(n - 1))
                 THEN n - 1 ELSE latest[n-1]
    IN latest[Max(Threads) + 1]

\* The threads whose last critical section at l has to end: all that started
\* one, but for the one whose section comes last in the trace.
MustEnd(l, popped) == {t \in Threads : popped[t] > 0} \ {LatestStarted(l, popped)}

\* One lock of _get_sync_pres_closure.  The flag tells of the last merge only.
CloseOverLock ==
    /\ phase = "close" /\ lockAt \in Locks
    /\ csStart' = [csStart EXCEPT ![lockAt] = [t \in Threads |-> PoppedBelow(lockAt, t, vc)]]
    /\ LET popped == csStart'[lockAt]
           ends == MustEnd(lockAt, popped)
           release(t) == csHist[lockAt][t][popped[t]].unlock.vc
           merged(T) == MergeAll(vc, {release(t) : t \in T})
       IN /\ vc' = merged(ends)
          /\ changed' = IF ends = {} THEN changed
                        ELSE ~Leq(release(Max(ends)), merged(ends \ {Max(ends)}))
    /\ lockAt' = lockAt + 1
    /\ UNCHANGED <<phase, todo, verified, pattern, start>>

EndOfRound ==
    /\ phase = "close" /\ lockAt \notin Locks
    /\ IF changed THEN lockAt' = Min(Locks) /\ UNCHANGED phase
                  ELSE phase' = "check" /\ UNCHANGED lockAt
    /\ UNCHANGED <<todo, verified, pattern, start, vc, csStart, changed>>

\* _check_sync_pres_closure: none of the events is in the closure.
CheckClosure ==
    /\ phase = "check"
    /\ IF \E i \in DOMAIN start : Leq(CurrentEvents[i].vc, vc)
       THEN phase' = "advance" /\ UNCHANGED verified
       ELSE /\ phase' = "patterns"
            /\ verified' = verified \cup {[nodes |-> pattern.nodes, events |-> CurrentEvents]}
    /\ UNCHANGED <<todo, pattern, start, vc, csStart, lockAt, changed>>

\* EventLess: the events of queue i that are in the closure.
InClosureOf(i) == [k \in DOMAIN pattern.events[i] |-> Leq(pattern.events[i][k].vc, vc)]

\* Mutant: only the first queue is advanced.
AdvancedFirst(i) ==
    IF i > 1 THEN start[i] ELSE PartitionPoint(start[i], InClosureOf(i))

\* The first event of queue i after those that are in the closure.
Advanced(i) == PartitionPoint(start[i], InClosureOf(i))

\* _update_abs_dep_start_ev: go on with the next events, unless a queue is over.
\* The queues after the one that is over are not advanced.
AdvanceStarts ==
    LET over == {i \in DOMAIN start : Advanced(i) > Len(pattern.events[i])}
    IN /\ phase = "advance"
       /\ start' = [i \in DOMAIN start |->
                      IF \E j \in over : j < i THEN start[i] ELSE Advanced(i)]
       /\ phase' = IF over = {} THEN "merge" ELSE "patterns"
       /\ UNCHANGED <<todo, verified, pattern, vc, csStart, lockAt, changed>>

CheckerNext ==
    \/ CollectPatterns
    \/ \E p \in todo : SkipPattern(p) \/ BeginPattern(p)
    \/ NoMorePatterns
    \/ MergePredecessors
    \/ CloseOverLock
    \/ EndOfRound
    \/ CheckClosure
    \/ AdvanceStarts

-----------------------------------------------------------------------------
CheckerTypeOK ==
    /\ phase \in Phases
    /\ vc \in Clock
    /\ csStart \in [Locks -> [Threads -> Nat]]
    /\ \A l \in Locks, t \in Threads : csStart[l][t] <= Len(csHist[l][t])
    /\ changed \in BOOLEAN
    /\ \A i \in DOMAIN start : start[i] \in 1..(Len(pattern.events[i]) + 1)

\* A section that was open when the trace ended has no release: its position is
\* never compared and its clock never merged, as only the last section of a
\* lock can be open, and the last is the one that need not end.
OpenSectionsUntouched ==
    phase = "close" /\ lockAt \in Locks =>
        LET popped == [t \in Threads |-> PoppedBelow(lockAt, t, vc)]
            section(t) == csHist[lockAt][t][popped[t]]
            started == {t \in Threads : popped[t] > 0}
        IN /\ \A t \in MustEnd(lockAt, popped) : section(t).unlock # NoEvent
           /\ \A t, u \in started : section(t).lock.pos < section(u).lock.pos
                                        => section(t).unlock # NoEvent
=============================================================================
