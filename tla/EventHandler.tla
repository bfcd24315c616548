---------------------------- MODULE EventHandler ----------------------------
(***************************************************************************)
(* EventHandler: the single pass over a recorded trace that turns it into  *)
(* abstract lock dependencies, their events, the critical section history  *)
(* and the vector clocks that order them.                                  *)
(*                                                                         *)
(* The trace comes from a running program, which is external: the          *)
(* variables step, status, goal and wokenBy are that program's own state and     *)
(* decide which event can come next.  Every action is one call of          *)
(* handle_event, from the dispatch to the increment of the thread's clock. *)
(***************************************************************************)
EXTENDS VectorClock, RecentList, FiniteSets

CONSTANTS
    Main,           \* the thread the program starts with
    Locks,          \* positive identifiers; -l is the condition variable of l
    Vars,
    SrcLocs,
    NotifThreads,   \* threads with a notify in the trace (meta_info.NOTIF_THREADS)
    Workload,       \* bound: per thread, a sequence of sets of events <<type, target>>,
                    \* its k-th event being one of the k-th set
    FifoWake,       \* TRUE: notified threads ask for their lock in notify order
    SpuriousWakes   \* TRUE: a wait may end without a notify, or by a timeout

EventTypes == {"RD", "WR", "REQ", "LK", "UK", "WAIT", "NOTIFY", "NOTIFYALL",
               "FORK", "JOIN", "OTHER"}

ASSUME HandlerAssumption ==
    /\ Main \in Threads
    /\ Locks \subseteq Nat \ {0}
    /\ NotifThreads \subseteq Threads
    /\ FifoWake \in BOOLEAN /\ SpuriousWakes \in BOOLEAN
    /\ \A t \in Threads : \A k \in DOMAIN Workload[t] :
          \A e \in Workload[t][k] : e[1] \in EventTypes

\* get_ass_sync_obj: from a lock to its condition variable and back.
Associated(r) == -r

CondVars == {Associated(l) : l \in Locks}
Resources == Locks \cup CondVars
NoGoal == 0
NotWoken == -1

Statuses == {"unborn", "running", "requesting", "sleeping", "ended"}

Event == [vc : Clock, pos : Nat \cup {-1}]
NoEvent == [vc |-> EmptyClock, pos |-> -1]
CriticalSection == [lock : Event, unlock : Event]
Dependency == [tid : Threads, res : Resources, lockset : SUBSET Resources]
Notification == [vc : Clock, count : Nat \ {0}]

VARIABLES
    pos,            \* tr_pos of the next event
    step, status, goal, wokenBy,            \* the program that is traced
    aliveCount,     \* alive_th_count
    clock,          \* thread_map[t].vec_clock
    lastWrite,
    held,           \* thread_map[t].u_reen_lockset, as a count per lock
    asleep,         \* thread_map[t].is_asleep
    recent,         \* thread_map[t].recent_sync_status_cont
    toNotify, notifQueue,                   \* cv_map
    index,          \* abs_deps, lock_dep_map and dep_loc_ev_map
    csHist

programVars == <<step, status, goal, wokenBy>>
cvVars == <<toNotify, notifQueue>>
vars == <<pos, programVars, aliveCount, clock, lastWrite, held, asleep, recent,
          cvVars, index, csHist>>

-----------------------------------------------------------------------------
(* The dependency index.  A dependency stands for the iterator to it: the  *)
(* one way to reach a dependency that abs_deps no longer holds is a stale  *)
(* copy of its value.                                                      *)

IndexType(ix) ==
    /\ ix = [absDeps |-> ix.absDeps, lockDepMap |-> ix.lockDepMap,
             depEvents |-> ix.depEvents]
    /\ ix.absDeps \subseteq Dependency
    /\ ix.lockDepMap \in [Resources -> Seq(Dependency)]
    /\ DOMAIN ix.depEvents \subseteq Dependency
    /\ ix.depEvents \in [DOMAIN ix.depEvents -> [SrcLocs -> Seq(Event)]]

EmptyIndex == [absDeps |-> {},
               lockDepMap |-> [r \in Resources |-> <<>>],
               depEvents |-> [d \in {} |-> <<>>]]

\* The entry of dep_loc_ev_map, which operator[] creates when it is absent.
EventsOf(ix, d) ==
    IF d \in DOMAIN ix.depEvents THEN ix.depEvents[d]
    ELSE [loc \in SrcLocs |-> <<>>]

SwapAndPop(s, x) ==
    IF x \notin Elements(s) THEN s
    ELSE LET i == CHOOSE j \in DOMAIN s : s[j] = x /\ \A k \in 1..(j-1) : s[k] # x
         IN SubSeq([s EXCEPT ![i] = s[Len(s)]], 1, Len(s) - 1)

\* Every lock and condition variable of d's lockset points to d.
Link(lockDepMap, d) ==
    [r \in Resources |-> IF r \in d.lockset THEN Append(lockDepMap[r], d)
                                            ELSE lockDepMap[r]]

Unlink(lockDepMap, d) ==
    [r \in Resources |-> IF r \in d.lockset THEN SwapAndPop(lockDepMap[r], d)
                                            ELSE lockDepMap[r]]

\* Mutant: a new event replaces the list of its dependency.
CreateDepOverwrites(ix, d, loc, evt) ==
    [absDeps |-> ix.absDeps \cup {d},
     lockDepMap |-> IF d \in ix.absDeps THEN ix.lockDepMap
                                        ELSE Link(ix.lockDepMap, d),
     depEvents |-> [e \in DOMAIN ix.depEvents \cup {d} |->
                      IF e = d THEN [EventsOf(ix, d) EXCEPT ![loc] = <<evt>>]
                               ELSE ix.depEvents[e]]]

\* Mutant: the lookup ignores condition variables, so that a dependency which
\* has some already takes the event.
CreateDepSoft(ix, d, loc, evt) ==
    LET same == {e \in ix.absDeps : [e EXCEPT !.lockset = @ \cap Locks] = d}
        found == IF same = {} THEN d ELSE CHOOSE e \in same : TRUE
    IN [absDeps |-> ix.absDeps \cup {found},
        lockDepMap |-> IF same # {} THEN ix.lockDepMap
                                    ELSE Link(ix.lockDepMap, d),
        depEvents |-> [e \in DOMAIN ix.depEvents \cup {found} |->
                         IF e = found
                         THEN [EventsOf(ix, found) EXCEPT ![loc] = Append(@, evt)]
                         ELSE ix.depEvents[e]]]

\* Mutant: a new event goes before the ones that are there.
CreateDepPrepends(ix, d, loc, evt) ==
    [absDeps |-> ix.absDeps \cup {d},
     lockDepMap |-> IF d \in ix.absDeps THEN ix.lockDepMap
                                        ELSE Link(ix.lockDepMap, d),
     depEvents |-> [e \in DOMAIN ix.depEvents \cup {d} |->
                      IF e = d THEN [EventsOf(ix, d) EXCEPT ![loc] = <<evt>> \o @]
                               ELSE ix.depEvents[e]]]

CreateDep(ix, d, loc, evt) ==
    [absDeps |-> ix.absDeps \cup {d},
     lockDepMap |-> IF d \in ix.absDeps THEN ix.lockDepMap
                                        ELSE Link(ix.lockDepMap, d),
     depEvents |-> [e \in DOMAIN ix.depEvents \cup {d} |->
                      IF e = d THEN [EventsOf(ix, d) EXCEPT ![loc] = Append(@, evt)]
                               ELSE ix.depEvents[e]]]

\* The dependency that update_dep returns.
WithResource(d, r) == [d EXCEPT !.lockset = @ \cup {r}]

\* Mutant: the events of the dependency it merges with are lost.
UpdateDepDropsEvents(ix, old, r) ==
    LET new == WithResource(old, r)
        moved == EventsOf(ix, old)
        merged == [loc \in SrcLocs |-> moved[loc]]
    IN IF r \in old.lockset THEN ix
       ELSE [absDeps |-> (ix.absDeps \ {old}) \cup {new},
             lockDepMap |-> IF new \in ix.absDeps
                            THEN Unlink(ix.lockDepMap, old)
                            ELSE Link(Unlink(ix.lockDepMap, old), new),
             depEvents |-> [e \in (DOMAIN ix.depEvents \ {old}) \cup {new} |->
                              IF e # new THEN ix.depEvents[e]
                              ELSE IF new \in ix.absDeps THEN merged ELSE moved]]

\* Mutant: the moved events go before those that are there.
UpdateDepPrepends(ix, old, r) ==
    LET new == WithResource(old, r)
        moved == EventsOf(ix, old)
        merged == [loc \in SrcLocs |-> moved[loc] \o EventsOf(ix, new)[loc]]
    IN IF r \in old.lockset THEN ix
       ELSE [absDeps |-> (ix.absDeps \ {old}) \cup {new},
             lockDepMap |-> IF new \in ix.absDeps
                            THEN Unlink(ix.lockDepMap, old)
                            ELSE Link(Unlink(ix.lockDepMap, old), new),
             depEvents |-> [e \in (DOMAIN ix.depEvents \ {old}) \cup {new} |->
                              IF e # new THEN ix.depEvents[e]
                              ELSE IF new \in ix.absDeps THEN merged ELSE moved]]

\* Mutant: the old entries of lock_dep_map stay.
UpdateDepKeepsLinks(ix, old, r) ==
    LET new == WithResource(old, r)
        moved == EventsOf(ix, old)
        merged == [loc \in SrcLocs |-> EventsOf(ix, new)[loc] \o moved[loc]]
    IN IF r \in old.lockset THEN ix
       ELSE [absDeps |-> (ix.absDeps \ {old}) \cup {new},
             lockDepMap |-> IF new \in ix.absDeps
                            THEN ix.lockDepMap
                            ELSE Link(ix.lockDepMap, new),
             depEvents |-> [e \in (DOMAIN ix.depEvents \ {old}) \cup {new} |->
                              IF e # new THEN ix.depEvents[e]
                              ELSE IF new \in ix.absDeps THEN merged ELSE moved]]

UpdateDep(ix, old, r) ==
    LET new == WithResource(old, r)
        moved == EventsOf(ix, old)
        merged == [loc \in SrcLocs |-> EventsOf(ix, new)[loc] \o moved[loc]]
    IN IF r \in old.lockset THEN ix
       ELSE [absDeps |-> (ix.absDeps \ {old}) \cup {new},
             lockDepMap |-> IF new \in ix.absDeps
                            THEN Unlink(ix.lockDepMap, old)
                            ELSE Link(Unlink(ix.lockDepMap, old), new),
             depEvents |-> [e \in (DOMAIN ix.depEvents \ {old}) \cup {new} |->
                              IF e # new THEN ix.depEvents[e]
                              ELSE IF new \in ix.absDeps THEN merged ELSE moved]]

\* Mutant: only the newest recent dependency is updated.
UpdateNewest(ix, list, r) ==
    IF list = <<>> THEN [index |-> ix, list |-> list]
    ELSE LET d == list[Len(list)]
         IN [index |-> UpdateDep(ix, d, r),
             list |-> Push(SubSeq(list, 1, Len(list) - 1), WithResource(d, r))]

\* The loop of notify_event over the recent dependencies, oldest first.  Each
\* iteration updates one and pushes the result on the list that replaces them.
UpdateOne(acc, d, r) ==
    [index |-> UpdateDep(acc.index, d, r), list |-> Push(acc.list, WithResource(d, r))]

UpdateRecent(ix, list, r) ==
    LET loop[i \in 0..Len(list)] ==
            IF i = 0 THEN [index |-> ix, list |-> <<>>]
            ELSE UpdateOne(loop[i-1], list[i], r)
    IN loop[Len(list)]

-----------------------------------------------------------------------------
(* The lockset of a thread.                                                *)

Lockset(t) == {l \in Locks : held[t][l] > 0}
Holds(t, l) == held[t][l] > 0

-----------------------------------------------------------------------------
(* The traced program (external): which event may come next.               *)

\* The next event of t may be of this type, about this target.
Comes(t, type, target) ==
    /\ step[t] < Len(Workload[t])
    /\ <<type, target>> \in Workload[t][step[t] + 1]
    /\ step' = [step EXCEPT ![t] = @ + 1]

Running(t, type, target) == status[t] = "running" /\ Comes(t, type, target)

Sleepers(c) ==
    {u \in Threads : status[u] = "sleeping" /\ goal[u] = c /\ wokenBy[u] = NotWoken}

\* A thread that has been notified asks for the lock it gave up in the wait; one
\* that nobody notified may do so as well.
MayWake(t, l) ==
    /\ status[t] = "sleeping"
    /\ goal[t] = Associated(l)
    /\ wokenBy[t] # NotWoken \/ SpuriousWakes
    /\ FifoWake /\ wokenBy[t] # NotWoken => \A u \in Threads :
           (status[u] = "sleeping" /\ goal[u] = goal[t] /\ wokenBy[u] # NotWoken)
              => wokenBy[t] <= wokenBy[u]

\* t stays where it is in the program; g is what its last event was about.
Continue(t, g) ==
    /\ goal' = [goal EXCEPT ![t] = g]
    /\ UNCHANGED <<status, wokenBy>>

Become(t, st, g) ==
    /\ status' = [status EXCEPT ![t] = st]
    /\ goal' = [goal EXCEPT ![t] = g]
    /\ wokenBy' = [wokenBy EXCEPT ![t] = NotWoken]

\* A notify wakes one sleeper, whichever it is; a notify of all, every one.
WakeSleepers(c, all) ==
    IF all \/ Sleepers(c) = {}
    THEN wokenBy' = [u \in Threads |-> IF u \in Sleepers(c) THEN pos ELSE wokenBy[u]]
    ELSE \E u \in Sleepers(c) : wokenBy' = [wokenBy EXCEPT ![u] = pos]

-----------------------------------------------------------------------------
(* Parts of the handlers.                                                  *)

\* Mutant: the clock stands still.
TickWithoutIncrement(t, vc) ==
    /\ clock' = [clock EXCEPT ![t] = vc]
    /\ pos' = pos + 1

\* The end of handle_event: time passes for t, whose clock is vc by now.
Tick(t, vc) ==
    /\ clock' = [clock EXCEPT ![t] = Increment(vc, t)]
    /\ pos' = pos + 1

\* Mutant: off by one.
AloneWithAnother == aliveCount <= 2

\* While one thread is alive most handlers return at once.
Alone == aliveCount <= 1

\* Mutant: a notify of all is queued for one thread.
NotifyThreadOnce(c, vc, all) ==
    IF toNotify[c] = 0 THEN UNCHANGED cvVars
    ELSE /\ notifQueue' = [notifQueue EXCEPT ![c] = Append(@, [vc |-> vc, count |-> 1])]
         /\ toNotify' = [toNotify EXCEPT ![c] = IF all THEN 0 ELSE @ - 1]

\* CVInfo::notify_thread: queue the notify for the threads it is meant for.
NotifyThread(c, vc, all) ==
    LET n == IF all THEN toNotify[c] ELSE 1
    IN IF toNotify[c] = 0 THEN UNCHANGED cvVars
       ELSE /\ notifQueue' = [notifQueue EXCEPT ![c] = Append(@, [vc |-> vc, count |-> n])]
            /\ toNotify' = [toNotify EXCEPT ![c] = @ - n]

\* Mutant: a notify all of whose threads left stays in the queue.
WakeThreadKeeps(q) ==
    IF q = <<>> THEN q ELSE [q EXCEPT ![1].count = @ - 1]

\* CVInfo::wake_thread: one of the threads the oldest notify is meant for left.
WakeThread(q) ==
    IF q = <<>> THEN q
    ELSE IF Head(q).count = 1 THEN Tail(q)
    ELSE [q EXCEPT ![1].count = @ - 1]

\* Mutant: the notify is not merged.
AwakeClockUnmerged(t, c) == clock[t]

\* The clock of t after handle_sleepness merged the oldest notify of c.
AwakeClock(t, c) ==
    IF asleep[t] /\ notifQueue[c] # <<>>
    THEN Merge(clock[t], Head(notifQueue[c]).vc)
    ELSE clock[t]

\* Mutant: the notify stays the oldest for the next thread.
HandleSleepnessKeeps(t, c) ==
    /\ asleep' = [asleep EXCEPT ![t] = FALSE]
    /\ UNCHANGED cvVars

HandleSleepness(t, c) ==
    /\ asleep' = [asleep EXCEPT ![t] = FALSE]
    /\ notifQueue' = IF asleep[t] THEN [notifQueue EXCEPT ![c] = WakeThread(@)]
                                  ELSE notifQueue
    /\ UNCHANGED toNotify

\* handle_dep_creation: t wants res while it holds its lockset.  Threads that
\* notify also remember the dependency, for the condition variables they will
\* notify later.
HandleDepCreation(t, res, loc, evt) ==
    LET d == [tid |-> t, res |-> res, lockset |-> Lockset(t)]
    IN /\ index' = IF t \in NotifThreads \/ Lockset(t) # {}
                   THEN CreateDep(index, d, loc, evt) ELSE index
       /\ recent' = IF t \in NotifThreads
                    THEN [recent EXCEPT ![t] = Push(@, d)] ELSE recent

-----------------------------------------------------------------------------
(* The handlers.                                                           *)

Init ==
    /\ pos = 0
    /\ step = [t \in Threads |-> 0]
    /\ status = [t \in Threads |-> IF t = Main THEN "running" ELSE "unborn"]
    /\ goal = [t \in Threads |-> NoGoal]
    /\ wokenBy = [t \in Threads |-> NotWoken]
    /\ aliveCount = 1
    /\ clock = [t \in Threads |-> OwnedClock(t)]
    /\ lastWrite = [x \in Vars |-> EmptyClock]
    /\ held = [t \in Threads |-> [l \in Locks |-> 0]]
    /\ asleep = [t \in Threads |-> FALSE]
    /\ recent = [t \in Threads |-> <<>>]
    /\ toNotify = [c \in CondVars |-> 0]
    /\ notifQueue = [c \in CondVars |-> <<>>]
    /\ index = EmptyIndex
    /\ csHist = [l \in Locks |-> [t \in Threads |-> <<>>]]

ReadEvent(t, x) ==
    /\ Running(t, "RD", x) /\ Continue(t, NoGoal)
    /\ Tick(t, IF Alone THEN clock[t] ELSE Merge(clock[t], lastWrite[x]))
    /\ UNCHANGED <<aliveCount, lastWrite, held, asleep, recent, cvVars, index, csHist>>

WriteEvent(t, x) ==
    /\ Running(t, "WR", x) /\ Continue(t, NoGoal)
    /\ lastWrite' = IF Alone THEN lastWrite ELSE [lastWrite EXCEPT ![x] = clock[t]]
    /\ Tick(t, clock[t])
    /\ UNCHANGED <<aliveCount, held, asleep, recent, cvVars, index, csHist>>

WaitEvent(t, c, loc) ==
    /\ Running(t, "WAIT", c) /\ goal[t] = Associated(c)
    /\ Become(t, "sleeping", c)
    /\ IF Alone THEN UNCHANGED <<asleep, toNotify, index, recent>>
       ELSE /\ asleep' = [asleep EXCEPT ![t] = TRUE]
            /\ toNotify' = [toNotify EXCEPT ![c] = @ + 1]
            /\ HandleDepCreation(t, c, loc, [vc |-> clock[t], pos |-> pos])
    /\ Tick(t, clock[t])
    /\ UNCHANGED <<aliveCount, lastWrite, held, notifQueue, csHist>>

NotifyEvent(t, c, all) ==
    /\ Running(t, IF all THEN "NOTIFYALL" ELSE "NOTIFY", c)
    /\ t \in NotifThreads /\ Holds(t, Associated(c))
    /\ goal' = [goal EXCEPT ![t] = NoGoal] /\ WakeSleepers(c, all)
    /\ IF Alone THEN UNCHANGED <<index, recent, cvVars>>
       ELSE LET updated == UpdateRecent(index, recent[t], c)
            IN /\ index' = updated.index
               /\ recent' = [recent EXCEPT ![t] = updated.list]
               /\ NotifyThread(c, clock[t], all)
    /\ Tick(t, clock[t])
    /\ UNCHANGED <<status, aliveCount, lastWrite, held, asleep, csHist>>

RequestEvent(t, l, loc) ==
    LET c == Associated(l)
        vc == IF Alone THEN clock[t] ELSE AwakeClock(t, c)
    IN /\ Comes(t, "REQ", l) /\ (status[t] = "running" \/ MayWake(t, l))
       /\ Become(t, "requesting", l)
       /\ IF Alone THEN UNCHANGED <<asleep, cvVars, index, recent>>
          ELSE /\ HandleSleepness(t, c)
               /\ HandleDepCreation(t, l, loc, [vc |-> vc, pos |-> pos])
       /\ Tick(t, vc)
       /\ UNCHANGED <<aliveCount, lastWrite, held, csHist>>

AcquireEvent(t, l) ==
    /\ Comes(t, "LK", l) /\ status[t] = "requesting" /\ goal[t] = l
    /\ \A u \in Threads \ {t} : ~Holds(u, l)
    /\ Become(t, "running", NoGoal)
    /\ held' = [held EXCEPT ![t][l] = @ + 1]
    /\ csHist' = IF held'[t][l] = 1
                 THEN [csHist EXCEPT ![l][t] =
                         Append(@, [lock |-> [vc |-> clock[t], pos |-> pos],
                                    unlock |-> NoEvent])]
                 ELSE csHist
    /\ Tick(t, clock[t])
    /\ UNCHANGED <<aliveCount, lastWrite, asleep, recent, cvVars, index>>

\* Mutant: the oldest critical section is closed again.
CloseFirst(sections, evt) ==
    IF sections = <<>> THEN sections ELSE [sections EXCEPT ![1].unlock = evt]

\* add_unlock_ev closes the newest critical section of the thread, if any.
CloseLast(sections, evt) ==
    IF sections = <<>> THEN sections
    ELSE [sections EXCEPT ![Len(sections)].unlock = evt]

ReleaseEvent(t, l) ==
    /\ Running(t, "UK", l) /\ Holds(t, l)
    /\ held' = [held EXCEPT ![t][l] = @ - 1]
    /\ Continue(t, IF held'[t][l] = 0 THEN l ELSE NoGoal)
    /\ csHist' = IF held'[t][l] = 0
                 THEN [csHist EXCEPT ![l][t] =
                         CloseLast(@, [vc |-> clock[t], pos |-> pos])]
                 ELSE csHist
    /\ Tick(t, clock[t])
    /\ UNCHANGED <<aliveCount, lastWrite, asleep, recent, cvVars, index>>

ForkEvent(t, u) ==
    /\ Running(t, "FORK", u) /\ status[u] = "unborn"
    /\ status' = [status EXCEPT ![u] = "running"]
    /\ goal' = [goal EXCEPT ![t] = NoGoal]
    /\ aliveCount' = aliveCount + 1
    /\ clock' = [clock EXCEPT ![u] = Merge(@, clock[t]),
                              ![t] = Increment(@, t)]
    /\ pos' = pos + 1
    /\ UNCHANGED <<wokenBy, lastWrite, held, asleep, recent, cvVars, index, csHist>>

JoinEvent(t, u) ==
    /\ Running(t, "JOIN", u) /\ u # t
    /\ status[u] = "running" /\ Lockset(u) = {}
    /\ status' = [status EXCEPT ![u] = "ended"]
    /\ goal' = [goal EXCEPT ![t] = NoGoal, ![u] = NoGoal]
    /\ aliveCount' = aliveCount - 1
    /\ Tick(t, Merge(clock[t], clock[u]))
    /\ UNCHANGED <<wokenBy, lastWrite, held, asleep, recent, cvVars, index, csHist>>

\* Any other type: handle_event reports the event as invalid and keeps all.
InvalidEvent(t) ==
    /\ Running(t, "OTHER", NoGoal)
    /\ pos' = pos + 1
    /\ UNCHANGED <<status, goal, wokenBy, aliveCount, clock, lastWrite, held, asleep,
                   recent, cvVars, index, csHist>>

Next ==
    \E t \in Threads :
        \/ \E x \in Vars : ReadEvent(t, x) \/ WriteEvent(t, x)
        \/ \E c \in CondVars, loc \in SrcLocs : WaitEvent(t, c, loc)
        \/ \E c \in CondVars, all \in BOOLEAN : NotifyEvent(t, c, all)
        \/ \E l \in Locks, loc \in SrcLocs : RequestEvent(t, l, loc)
        \/ \E l \in Locks : AcquireEvent(t, l) \/ ReleaseEvent(t, l)
        \/ \E u \in Threads : ForkEvent(t, u) \/ JoinEvent(t, u)
        \/ InvalidEvent(t)

Spec == Init /\ [][Next]_vars

-----------------------------------------------------------------------------
(* Properties.                                                             *)

TypeOK ==
    /\ pos \in Nat
    /\ step \in [Threads -> Nat]
    /\ status \in [Threads -> Statuses]
    /\ goal \in [Threads -> Resources \cup {NoGoal}]
    /\ wokenBy \in [Threads -> Nat \cup {NotWoken}]
    /\ aliveCount \in Int
    /\ clock \in [Threads -> Clock]
    /\ lastWrite \in [Vars -> Clock]
    /\ held \in [Threads -> [Locks -> Nat]]
    /\ asleep \in [Threads -> BOOLEAN]
    /\ recent \in [Threads -> Seq(Dependency)]
    /\ toNotify \in [CondVars -> Nat]
    /\ notifQueue \in [CondVars -> Seq(Notification)]
    /\ IndexType(index)
    /\ csHist \in [Locks -> [Threads -> Seq(CriticalSection)]]

\* Every event that the handler keeps in a dependency or a critical section.
EventsIn(ix) == UNION {UNION {Elements(ix.depEvents[d][loc]) : loc \in SrcLocs} :
                       d \in DOMAIN ix.depEvents}
DepEvents == EventsIn(index)
Sections == UNION {UNION {Elements(csHist[l][t]) : t \in Threads} : l \in Locks}
KeptEvents == DepEvents \cup {s.lock : s \in Sections} \cup {s.unlock : s \in Sections}
KeptClocks == {e.vc : e \in KeptEvents}
              \cup {lastWrite[x] : x \in Vars}
              \cup UNION {{n.vc : n \in Elements(notifQueue[c])} : c \in CondVars}

\* A thread knows more of its own time than anyone else does: no clock kept
\* anywhere, and no other thread's, has reached the present of a thread before
\* it was joined.  An event yet to come is in no clock's past.
OwnTimeIsAhead ==
    \A t \in Threads :
        LET others == KeptClocks \cup {clock[u] : u \in Threads \ {t}}
        IN \A vc \in others : IF status[t] = "ended" THEN vc[t] <= clock[t][t]
                                                    ELSE vc[t] < clock[t][t]

\* lock_dep_map, dep_loc_ev_map and the recent lists refer to the dependencies
\* of abs_deps, and to each as often as they should: no iterator dangles after
\* update_dep extracts, merges and re-inserts dependencies.
PointTo(lockDepMap, deps) ==
    \A r \in Resources :
        /\ Elements(lockDepMap[r]) = {d \in deps : r \in d.lockset}
        /\ NoDuplicates(lockDepMap[r])

IndexLinked(ix) ==
    /\ DOMAIN ix.depEvents = ix.absDeps
    /\ PointTo(ix.lockDepMap, ix.absDeps)

RecentLinked(list, t, ix) ==
    /\ Elements(list) \subseteq {d \in ix.absDeps : d.tid = t}
    /\ NoDuplicates(list)
    /\ Len(list) <= Capacity

IndexConsistent ==
    /\ IndexLinked(index)
    /\ \A t \in Threads : RecentLinked(recent[t], t, index)

\* The event lists the deadlock checker searches by halving are sorted.
EventsSorted ==
    \A d \in DOMAIN index.depEvents, loc \in SrcLocs :
        LET evts == index.depEvents[d][loc]
        IN \A i, j \in DOMAIN evts : i < j => evts[i].pos < evts[j].pos

\* Critical sections of a lock: each thread's are sorted and closed, but for the
\* last one while the thread still holds the lock, and those of two threads do
\* not overlap, however often the lock was re-acquired.
Before(s, r) == s.unlock # NoEvent /\ s.unlock.pos < r.lock.pos

SectionsWellFormed ==
    \A l \in Locks, t \in Threads :
        LET cs == csHist[l][t]
        IN /\ \A i, j \in DOMAIN cs : i < j => Before(cs[i], cs[j])
           /\ \A i \in DOMAIN cs :
                IF i = Len(cs) /\ Holds(t, l) THEN cs[i].unlock = NoEvent
                ELSE cs[i].lock.pos < cs[i].unlock.pos
           /\ Holds(t, l) => cs # <<>>
           /\ \A u \in Threads \ {t} :
                \A s \in Elements(cs), r \in Elements(csHist[l][u]) :
                   Before(s, r) \/ Before(r, s)

CountIn(q) ==
    LET sum[i \in 0..Len(q)] == IF i = 0 THEN 0 ELSE sum[i-1] + q[i].count
    IN sum[Len(q)]

\* The notify counters agree with the threads that sleep: a thread that is
\* notified finds a notify in the queue, and none is left over.
NotifiesMatchSleepers ==
    \A c \in CondVars :
        LET sleeping == {u \in Threads : asleep[u] /\ goal[u] = c}
        IN /\ toNotify[c] = Cardinality({u \in sleeping : wokenBy[u] = NotWoken})
           /\ CountIn(notifQueue[c]) = Cardinality({u \in sleeping : wokenBy[u] # NotWoken})
           /\ \A n \in Elements(notifQueue[c]) : n.count > 0
=============================================================================
