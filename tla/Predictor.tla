----------------------------- MODULE Predictor -----------------------------
(***************************************************************************)
(* The whole predictor: the trace goes through the event handler, then the *)
(* deadlock checker looks for deadlocks in what it left.  The log of       *)
(* HappensBefore says what the trace was, and the properties here are      *)
(* about reorderings of it, not about clocks.                              *)
(***************************************************************************)
EXTENDS DeadlockChecker, HappensBefore

predictorVars == <<logVars, checkerVars>>

PredictorInit == LogInit /\ CheckerInit

HandleTrace == phase = "recording" /\ LogNext /\ UNCHANGED checkerVars

Check == CheckerNext /\ UNCHANGED logVars

PredictorNext == HandleTrace \/ Check

\* Nothing stops the checker: it is one loop of a sequential program.
PredictorSpec ==
    PredictorInit /\ [][PredictorNext]_predictorVars /\ WF_predictorVars(Check)

-----------------------------------------------------------------------------
(* Sync-preserving reorderings.  A set of positions of the trace is the    *)
(* prefix of one if it contains the past of each of its events and, of two *)
(* critical sections of a lock that it has started, all of the first.      *)

CriticalSections(l) == UNION {Elements(csHist[l][t]) : t \in Threads}

\* The events that must be in a prefix right after those of S.
Forced(S) ==
    (UNION {Entry(p).past : p \in S}) \cup
    {s.unlock.pos : s \in UNION {{s \in CriticalSections(l) :
        /\ s.lock.pos \in S
        /\ \E r \in CriticalSections(l) : r.lock.pos \in S /\ s.lock.pos < r.lock.pos} :
            l \in Locks}}

\* The least prefix that contains S.
Ideal(S) ==
    LET grow[n \in 0..Len(log)] ==
            IF n = 0 THEN S ELSE LET G == grow[n-1] IN G \cup Forced(G)
    IN grow[Len(log)]

\* What has to happen before all of the events.
JointPast(events) == UNION {Entry(e.pos).past : e \in events}

\* All of the events can come next at once.
SyncPreserving(events) ==
    \A e \in events : e.pos \notin Ideal(JointPast(events))

\* The thread of d, about to do d, waits for what that of e has: the lock it
\* holds, or the condition variable it would go on to notify.
WaitsFor(d, e) == Entry(d.pos).target \in Entry(e.pos).locks \cup NotifiedSince(e.pos)

\* Everyone waits for the next one, and no one can go on.
IsDeadlock(events) ==
    /\ SyncPreserving({events[i] : i \in DOMAIN events})
    /\ \A i \in DOMAIN events :
          WaitsFor(events[i], events[IF i = Len(events) THEN 1 ELSE i + 1])

-----------------------------------------------------------------------------
(* Properties.                                                             *)

InClosure == {e.pos : e \in {f \in KeptEvents \ {NoEvent} : Leq(f.vc, vc)}}
CurrentSet == {CurrentEvents[i] : i \in DOMAIN start}

\* The queues that are searched by halving are in an order in which the search
\* finds its place: what the closure covers comes first, be it the critical
\* sections of a thread at a lock or, while no dependency was forgotten, the events
\* of a node, which update_dep may have moved between dependencies.
QueuesPartitioned ==
    /\ phase = "close" => \A l \in Locks, t \in Threads :
          Partitioned(csStart[l][t] + 1, StartsBelow(l, t, vc))
    /\ phase = "advance" /\ NothingForgotten => \A i \in DOMAIN start :
          Partitioned(start[i], InClosureOf(i))

\* The closure never goes too far: what it holds when it is checked must have
\* happened in every sync-preserving reordering that reaches the current events.
\* (Only sorted queues are advanced to later events.)
ClosureSound == phase = "check" /\ NothingForgotten => InClosure \subseteq Ideal(JointPast(CurrentSet))

\* The last round of the closure had nothing left to merge.
Converged(v) ==
    \A l \in Locks :
        LET popped == [t \in Threads |-> PoppedBelow(l, t, v)]
        IN \A t \in MustEnd(l, popped) : Leq(csHist[l][t][popped[t]].unlock.vc, v)

\* No acquire has exactly the clock v, which CSInfoLess does not take as below v.
NoAcquireAt(v) == \A l \in Locks : \A s \in CriticalSections(l) : s.lock.vc # v

\* A report that is based on a closure that converged, and that no acquire
\* equals, is a deadlock of some reordering of the trace: the threads reach the
\* reported events, and there each waits for the next.
ReportsAreDeadlocks ==
    [][\A v \in verified' \ verified :
         Converged(vc) /\ NoAcquireAt(vc) => IsDeadlock(v.events)]_predictorVars

\* Every report whose closure converged is a deadlock of some reordering.
ConvergedReportsAreDeadlocks ==
    [][\A v \in verified' \ verified : Converged(vc) => IsDeadlock(v.events)]_predictorVars

\* Every report is a deadlock of some reordering of the trace.
EveryReportIsDeadlock ==
    [][\A v \in verified' \ verified : IsDeadlock(v.events)]_predictorVars

\* A pattern given up on has no sync-preserving deadlock: skipping the events
\* of a closure, though it keeps the closure of the last ones, misses none while the
\* queues are sorted.
ChoicesOf(p) ==
    {f \in [DOMAIN p.events -> 1..Max({Len(p.events[i]) : i \in DOMAIN p.events})] :
        \A i \in DOMAIN f : f[i] <= Len(p.events[i])}

NoDeadlockMissed ==
    [][(phase = "advance" /\ phase' = "patterns" /\ NothingForgotten) =>
         \A f \in ChoicesOf(pattern) :
            ~SyncPreserving({pattern.events[i][f[i]] : i \in DOMAIN f})]_predictorVars

\* The checker comes to an end: every closure converges or stops, and every
\* check either reports or goes on to later events.
CheckerEnds == (phase = "patterns") ~> (phase = "done")
=============================================================================
