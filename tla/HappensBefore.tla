--------------------------- MODULE HappensBefore ---------------------------
(***************************************************************************)
(* The event handler beside the trace it consumes.  The log is kept by no  *)
(* code: it holds every event with its causal past, built from what the    *)
(* events mean (program order, fork, join, the write a read sees, the      *)
(* notify that woke a thread) and never from a clock.  The properties      *)
(* compare what the handler keeps with it.                                 *)
(***************************************************************************)
EXTENDS EventHandler, FiniteSetsExt

VARIABLE log    \* log[p + 1] is the event at position p

logVars == <<vars, log>>

Entry(p) == log[p + 1]
Positions == 0..(Len(log) - 1)
Latest(P) == IF P = {} THEN {} ELSE {Max(P)}

Alive == {u \in Threads : status[u] \notin {"unborn", "ended"}}

\* The events right before the next event of t: its own last one, or the one
\* that forked t; and, by type, the event that this one waited for.
Immediate(t, type, target) ==
    LET own(u) == {p \in Positions : Entry(p).tid = u}
        forks == {p \in Positions : Entry(p).type = "FORK" /\ Entry(p).target = t}
        writes == {p \in Positions : Entry(p).type = "WR" /\ Entry(p).target = target}
    IN (Latest(own(t) \cup forks))
       \cup (IF type = "RD" THEN Latest(writes) ELSE {})
       \cup (IF type = "JOIN" THEN Latest(own(target) \cup
              {p \in Positions : Entry(p).type = "FORK" /\ Entry(p).target = target}) ELSE {})
       \cup (IF type = "REQ" /\ status[t] = "sleeping" THEN {wokenBy[t]} \ {NotWoken} ELSE {})

Record(t, type, target, loc) ==
    LET now == Immediate(t, type, target)
    IN log' = Append(log,
         [tid |-> t, type |-> type, target |-> target, loc |-> loc,
          locks |-> Lockset(t), alone |-> Cardinality(Alive) = 1,
          full |-> Len(recent[t]) = Capacity,
          unnotified |-> type = "REQ" /\ status[t] = "sleeping" /\ wokenBy[t] = NotWoken,
          unpaid |-> type = "REQ" /\ asleep[t] /\ notifQueue[Associated(target)] = <<>>,
          past |-> now \cup UNION {Entry(p).past : p \in now}])

LogInit == Init /\ log = <<>>

LogNext ==
    \E t \in Threads :
        \/ \E x \in Vars : ReadEvent(t, x) /\ Record(t, "RD", x, 0)
        \/ \E x \in Vars : WriteEvent(t, x) /\ Record(t, "WR", x, 0)
        \/ \E c \in CondVars, loc \in SrcLocs :
              WaitEvent(t, c, loc) /\ Record(t, "WAIT", c, loc)
        \/ \E c \in CondVars, all \in BOOLEAN :
              NotifyEvent(t, c, all) /\ Record(t, "NOTIFY", c, 0)
        \/ \E l \in Locks, loc \in SrcLocs :
              RequestEvent(t, l, loc) /\ Record(t, "REQ", l, loc)
        \/ \E l \in Locks : AcquireEvent(t, l) /\ Record(t, "LK", l, 0)
        \/ \E l \in Locks : ReleaseEvent(t, l) /\ Record(t, "UK", l, 0)
        \/ \E u \in Threads : ForkEvent(t, u) /\ Record(t, "FORK", u, 0)
        \/ \E u \in Threads : JoinEvent(t, u) /\ Record(t, "JOIN", u, 0)
        \/ InvalidEvent(t) /\ Record(t, "OTHER", 0, 0)

LogSpec == LogInit /\ [][LogNext]_logVars

-----------------------------------------------------------------------------
(* What the handler keeps.                                                 *)

Slots == UNION {UNION {{<<d, loc, i>> : i \in DOMAIN index.depEvents[d][loc]} :
                       loc \in SrcLocs} : d \in DOMAIN index.depEvents}
EventIn(k) == index.depEvents[k[1]][k[2]][k[3]]

\* So far every wait ended with a notify.
AllNotified == \A p \in Positions : ~Entry(p).unnotified

\* The order of the clocks of two kept events is the happens-before order of
\* the events: no edge is lost, though handlers ignore events while one thread
\* is alive, and none is invented.  (A thread that wakes without a notify may take
\* that of another one.)
ClocksAreHappensBefore ==
    AllNotified => \A e, f \in KeptEvents \ {NoEvent} : e.pos # f.pos =>
        (Leq(e.vc, f.vc) <=> e.pos \in Entry(f.pos).past)

\* The event at p is one that handle_dep_creation must keep.
Relevant(p) ==
    /\ Entry(p).type \in {"REQ", "WAIT"} /\ ~Entry(p).alone
    /\ Entry(p).tid \in NotifThreads \/ Entry(p).locks # {}

\* Moving events between dependencies loses and duplicates none: each request
\* and wait that matters is in exactly one list, that of a dependency with its
\* thread, its resource, the locks it held, and its source location.
EveryRequestKeptOnce ==
    /\ \A p \in Positions : Relevant(p) =>
         \E k \in Slots :
            /\ \A j \in Slots : (EventIn(j).pos = p) <=> j = k
            /\ k[1].tid = Entry(p).tid /\ k[1].res = Entry(p).target
            /\ k[1].lockset \cap Locks = Entry(p).locks
            /\ k[2] = Entry(p).loc
    /\ \A e \in DepEvents : Relevant(e.pos)

\* The condition variables that the thread of the event at p notified after p.
NotifiedSince(p) ==
    {Entry(q).target : q \in {r \in Positions :
        /\ r > p /\ Entry(r).tid = Entry(p).tid
        /\ Entry(r).type = "NOTIFY" /\ ~Entry(r).alone}}

\* No push on a recent list made it forget its oldest dependency.
NothingForgotten == \A p \in Positions : Relevant(p) => ~Entry(p).full

\* As long as no recent dependency is forgotten, the condition variables in a
\* dependency are those its thread notified after each of its events, and the
\* lists that the deadlock checker searches by halving are sorted.
CondVarsAreNotifiedSince ==
    NothingForgotten =>
        \A k \in Slots : k[1].lockset \cap CondVars = NotifiedSince(EventIn(k).pos)

SortedUnlessForgotten == NothingForgotten => EventsSorted

\* The notify at p, by the events its thread had handled until then.
LocalTime(p) ==
    1 + Cardinality({q \in Positions : /\ q < p /\ Entry(q).tid = Entry(p).tid
                                       /\ Entry(q).type # "OTHER"})

\* As long as every wait ends with a notify, a thread that wakes up has merged the
\* clock of the notify that woke it.
WakeSeesItsNotify ==
    [][AllNotified' => \A t \in Threads : (asleep[t] /\ ~asleep'[t]) =>
          clock'[t][Entry(wokenBy[t]).tid] >= LocalTime(wokenBy[t])]_logVars

\* Notify counters and queue know as many threads as sleep, as long as every wait
\* ends with a notify.
CountersMatchSleepers == AllNotified => NotifiesMatchSleepers

\* A wait that ends without a notify leaves its thread counted; whatever the
\* threads do, those counted are the ones that sleep and the ones that woke and
\* found no notify in the queue: nobody is counted twice or forgotten.
EveryWaitCountedOnce ==
    \A c \in CondVars :
        toNotify[c] + CountIn(notifQueue[c]) =
            Cardinality({u \in Threads : asleep[u] /\ goal[u] = c})
            + Cardinality({p \in Positions : Entry(p).unpaid
                                             /\ Entry(p).target = Associated(c)})

\* Once one is forgotten, a dependency can still only miss condition variables.
CondVarsOnlyNotifiedSince ==
    \A k \in Slots : k[1].lockset \cap CondVars \subseteq NotifiedSince(EventIn(k).pos)
=============================================================================
