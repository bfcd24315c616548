# SUnhang in TLA+

SUnhang (the README of the repository calls it GSPDOffline) reads the trace of one run of a
multithreaded program and predicts deadlocks, over locks and over condition variables, that
another schedule of the same events could have reached. This directory holds TLA+ models of its
core, TLC configurations that check them on small instances, and theorems that TLAPS checks.

The program is sequential. What makes it hard is that it reasons about concurrent programs: it is
fed every interleaving there is, keeps incremental state over the trace (clocks, queues, an index of
dependencies whose entries are renamed while others point to them), and then runs a fixpoint over
lazily advanced queues. A unit test shows one trace; the models take all traces of small programs.

## The system

| part | state | operations | what makes it correct |
|---|---|---|---|
| event format (`bin_trace_formatter.hpp`, `event.hpp`, `meta_info.hpp`) | none: words of bit fields, a header of counts | pack, unpack, mask | what fits comes back; what does not is never an index out of range |
| text parser and conversion (`std_trace_parser.cpp`, `conv_trace.cpp`) | maps from names to identifiers; the words so far | text or Java to local, local to text or Java | events are left out only on purpose, and the header counts those that are there |
| binary trace parser (`bin_trace_parser.cpp`) | which thread alone uses each lock and variable; new identifiers | first pass, renumbering, second pass | only events nobody else could see are dropped; renaming keeps objects apart; no trace stops it |
| event handler (`event_handler.cpp`) | a clock, lockset, recent dependencies and a sleep flag per thread; last writes; notify queues; the dependency index (`abs_deps`, `lock_dep_map`, `dep_loc_ev_map`); critical sections | one handler per event type | clocks are happens-before; no request is lost or kept twice; the index never dangles |
| recent dependencies (`lru.hpp`) | linked slots in an array, free chain, map of slots | push | it is a bounded list without duplicates |
| vector clock (`vectorclock.cpp`) | sorted entries or a plain vector, index of the owner | tick, merge, compare, convert | it behaves like a function from threads to times |
| dependency graph (`ord_dep_graph.cpp`) | neighbour lists, and a view with a moving start | build, narrow | |
| cycle and component enumerators (`cycle_enumerator.cpp`, `scc_enumerator.cpp`) | search stacks, blocked nodes and who waits for them | Johnson, Tarjan | each elementary cycle once |
| deadlock checker (`deadlock_checker.cpp`, `lazy_queue.hpp`) | start of each event and critical section queue, the closure | patterns, closure, check, advance | reports are deadlocks of a sync-preserving reordering; none is missed; it ends |
| main (`main.cpp`) | patterns yet to look at, verified patterns | the pipeline | |

They interact by calls, in this order: `conv_trace` is a program of its own, whose file the parser reads;
the parser hands each event to the handler; when the trace is
over, the handler's index and critical sections are moved to the graph, the enumerator and the
checker, which only read them. The shared state is `meta_info` (counts and `NOTIF_THREADS`, written by the
parser's first pass and read by the handler). The hard behaviours are the order of the traced
program's events, state that refers to other state (iterators into a set whose elements are extracted
and merged, an index into a sorted vector), and loops that end when a flag or a queue says so.

Not modelled: the logger (formatting and output), the scripts (they start the programs over directories of
benchmarks), the Java benchmarks and the tests, which were read for what they expect of the program. Of
`main.cpp`, arguments, files that cannot be opened, timing and memory measurement; of `lru.hpp`,
`unsafe_set`, and of `lazy_queue.hpp`, `pop`, which nothing calls.

## Modules

| module | models | how it corresponds |
|---|---|---|
| `VectorClock` | clocks as functions | what `merge_into`, `<=`, `<`, `increment`, `decrement` mean |
| `RecentList` | `CircularLRU` as a list | `Push` is `CircularLRU::push` |
| `EventHandler` | `event_handler.cpp` | one action per `*_event` method with all it calls; a dependency's value stands for the iterator to it |
| `HappensBefore` | nothing of the code: the trace as a log, with happens-before computed from the events themselves | what the handler's clocks and index are compared with |
| `DependencyGraph` | neighbours, cycles, patterns | cycles by their definition |
| `DeadlockChecker` | `is_sync_preserving_dlk`, its parts, and the loop of `main` | one action per function, one per lock for the closure's loop |
| `Predictor` | handler and checker in sequence | sync-preserving reorderings defined over the log |
| `SortedSearch` | `std::lower_bound`, `std::upper_bound` | the halving search as it goes, and what it takes for granted |
| `CircularLRU`, `ThreadInfo`, `ThreadState` | `lru.hpp`, `sorted_vector.hpp`, `lockset.hpp`: what is kept of one thread | slots and links as operators over a record; sorted vectors; one action per call a handler makes. `ThreadInfo` implements `ThreadState`, counts and a list |
| `ClockStore`, `AdaptiveVectorClock` | `vectorclock.cpp` and how the predictor uses it | the two representations implement the abstract store |
| `BinFormat` | `bin_trace_formatter.hpp`, the classes of events | a word is a number, its fields its digits; how many values a field has is a constant |
| `TraceConversion` | `std_trace_parser.cpp`, `conv_trace.cpp` | one action per conversion, from one file to the next; a line is what the parser makes of it |
| `BinTraceParser` | `bin_trace_parser.cpp` | the first pass is one action, the second one per event |
| `TracePipeline` | recorder, conversions and parser in sequence | the recorder is external; the program's events are kept to compare with; a thread that acts is always written with its T |
| `CycleEnumerator` | `cycle_enumerator.cpp`, `scc_enumerator.cpp`, the graph view | calls in progress are frames; Tarjan's algorithm is one recursive operator |
| `MCEventHandler`, `MCPredictor` | nothing of the code: small programs for TLC | |
| `RecentListProofs`, `EventHandlerProofs` | | theorems about `RecentList` and `EventHandler` |
| `HappensBeforeProofs`, `RequestProofs` | | theorems about `HappensBefore` |
| `CheckerProofs` | | theorems about `DeadlockChecker` and `Predictor` |
| `AdaptiveProofs` | | theorems about `AdaptiveVectorClock` |
| `ThreadInfoProofs` | | theorems about `CircularLRU` and `ThreadInfo` |
| `PipelineProofs` | | theorems about `BinFormat`, `TraceConversion`, `BinTraceParser` and `TracePipeline` |

The layers meet: `EventHandler` uses clocks as functions and recent dependencies as lists, and the
runs `adaptive_clock` and `thread_info` show that the code's representations implement those, as the theorems about
them do for all sizes. The checker uses
cycles by their definition, and the run `cycles` shows that the enumerator finds exactly those.

The traced program is external. `EventHandler` lets each thread take, from its `Workload`, the next event
whenever a real program could: a lock is acquired only when free, a wait gives its lock up first,
a notify is sent while the lock is held and wakes sleepers of its choice. With `SpuriousWakes` a wait
may also end without a notify, spuriously or by a timeout, which look the same in a trace. Definitions named as
mutants in their comments are variants with a plausible mistake; they are used by no specification, and
show that a property notices the mistake when they take the place of the original.

## What is checked

| run | question | size |
|---|---|---|
| `handler_programs` | One of two programs. With forks, joins, reads, writes and re-entered locks: are clocks exactly happens-before, is every request that matters kept once, are critical sections well formed? And with a thread that notifies while it holds both locks: does renaming, merging and forgetting dependencies (the recent list holds 3) leave the index consistent and every event in it once, with the condition variables notified since? | 196,494 states |
| `handler_condvar` | Do notify queue and counters agree with the sleepers, and does a thread that wakes inherit its own notify? What do waits that end without a notify leave behind? Two sleepers, two notifies of one or all. | 164,106 |
| `handler_eviction_order` | Finding: event lists stay sorted. They do not. | |
| `handler_wake_order` | Finding: each thread inherits the notify that woke it. It does not if threads ask for the lock in another order. | |
| `predictor` | Handler and checker together: soundness of closures and of reports, no missed deadlock, termination; the queues can be searched by halving, and open sections are never read. | 30,606 |
| `predictor_closure` | Finding: every report is a deadlock. It is not. | |
| `predictor_equal` | Finding: every report whose closure converged is a deadlock. It is not. | |
| `thread_info` | Do the sorted vectors and linked slots of a thread implement counts and a list? Two locks, one condition variable, three slots. | 69,103 |
| `parser` | From any program of four events, with three threads, in text that names forked threads with or without their T or in Java, through up to three conversions, to the handler: what is dropped, how the rest is renamed, and is every index in range? | 899,312 |
| `parser_wait` | Finding: no trace stops the parser. One does. | |
| `cycles` | Each elementary cycle once, on all 4,096 graphs of four nodes. | 72,096 |
| `adaptive_clock` | Do sparse and dense clocks implement plain ones, and do comparisons agree? | 58,320 |

Bounds. `Workload` bounds the traces: it fixes, per thread and step, the set of events that may come, and
TLC interleaves. Two locks and two threads are enough for nesting, re-entry and
overlap; three threads for a third party that notifies; `Capacity` 2 or 3 for evictions, which the
code's 8 reaches as well, only later. In `handler_programs` the starting thread picks the program by whom it forks, so that the
run covers both and no mixture; only the second one asks from two source locations. `MCPredictor` also bounds preemption (`Yields`) and looks only at
traces of at least `Shortest` events, as the workloads are long: 41 of 49, so that a trace may also end with
a section open, with cycles of two and of three
threads, a wait-notify cycle, patterns that are reported at once, after advancing, and never, patterns
skipped because they are verified, and closures of several rounds; each of these was confirmed to be
reached. In `TracePipeline`, four events let two threads share a lock, wait or notify, and use a private object besides, and
three conversions take a trace to text or to Java and back. `ThreadRange` 2 with three threads makes thread
identifiers alias, as more than 1,024 do in the code; `TargetRange` 32 over `ResourceRange` 16 keeps the
code's relation, a field wider than what it is read into, with room for negative identifiers.
`ThreadInfo` with three slots evicts, and rebuilds a full list at a notify; a lock is held at most
`MaxDepth` times. Four nodes are the fewest on which a node is blocked, unblocked through another one, and entered
again, and on which two components exist. `Threads` 0..4 in `AdaptiveVectorClock` makes a clock convert with its
third entry, so that two, sparse, still merge; `MaxTicks` allows one tick after the start.

Deadlock is not checked where the traced program may end, and in the predictor, which stops at `"done"`; it is
checked for the enumerator, whose last state only stutters.

Fairness. Only `PredictorSpec` has any: weak fairness of the checker's steps. It is one loop of a
sequential program that nothing interrupts, so that an enabled step is taken. The traced program has
none: it may stop anywhere, and the trace ends there.

### What the runs showed of the code

1. `_get_sync_pres_closure` assigns the result of each merge to `changed`, so only the last merge of a round
   counts (`deadlock_checker.cpp:102` and `:105`). The closure can stop short of its fixpoint, and a
   pattern is reported that no sync-preserving reordering reaches. `EveryReportIsDeadlock` is violated.
   A second way: the search for the sections that have started compares acquires strictly (`critical_section_history.hpp:37`). When the
   closure is exactly the clock of an acquire, that section is not taken as started, though its acquire is in the
   closure; earlier sections of the lock need not end then, and `ConvergedReportsAreDeadlocks` is violated too. It
   came up when the proof of soundness did not go through. `ReportsAreDeadlocks` therefore speaks of reports whose closure did
   converge and is not the clock of an acquire.
2. A dependency that the recent list forgot is not renamed by a notify; a later one that is may be
   merged with one that holds newer events, and the list is not sorted any more (`event_handler.cpp:226`).
   `SortedUnlessForgotten` is what holds.
3. A thread that wakes up merges the oldest queued notify (`event_handler.cpp:273`), which is its own only if threads
   ask for their lock in notify order. The runs with `FifoWake` assume that order.
4. The first pass of the parser makes an object shared for a notify but not for a wait
   (`bin_trace_parser.cpp:102`), and the second pass throws for a wait on a private one.
5. A clock that equals the closure but has fewer entries (sparse against dense, or because
   `th_pred_merge_into` left a zero entry) is reported to be strictly less. `ComparisonsAgree` states this
   exception; `DeadlockChecker` uses the strict order of the clocks. The acquire of such a
   section is in the closure, so that taking the section as started is right; that it is not when the
   representations are alike is the second bug of item 1.
6. A wait that ends without a notify stays in `to_notify_count` for good, and a later notify queues an entry for it
   that some other thread takes. `EveryWaitCountedOnce` says exactly what is left over, and holds
   always; `ClocksAreHappensBefore`, `CountersMatchSleepers` and `WakeSeesItsNotify` hold as long as all
   waits end with a notify (`AllNotified`). The code calls a trace bad on which a thread wakes with an empty queue
   (`event_handler.cpp:272`).
7. A trace that goes from the binary encoding to text and back names condition variables of their own: they are not those
   of any lock any more (`RenamingFaithful` excepts such traces). A Java file has no condition
   variables at all, which `is_spd_type` is for. A line whose location is no number ends
   the conversion with an exception, and leaves an empty file.

The searches of `pop_until` and of the sorted vectors are modelled as they halve (`SortedSearch`), so that what an
unordered queue would make of them shows; `QueuesPartitioned` says that the checker's queues are in order: those of sections always,
those of events as long as no dependency was forgotten (item 2). `ClosureSound` and `NoDeadlockMissed`, which rest on
it, have the same condition; the workloads of the predictor forget none. What is left out of the reader of text: lines longer than its buffer
of 64 characters, and a file without any line.

## What is proved

TLAPS proves, for all values of the constants that meet the named assumptions
(`CapacityAssumption` of `RecentList`: the list holds at least two; `HandlerAssumption` of
`EventHandler`: the main thread is one, locks are positive, the two choices of the traced program are Booleans), and
so for any number of threads, locks and variables, any workload and any capacity. First, about the event handler
(in `EventHandlerProofs` where no module is named):

- `TypeCorrect`: `Spec => []TypeOK`. `TypeOK` is inductive by itself; one lemma per part of the
  handlers (`TypeOfTick`, `TypeOfNotifyThread`, `TypeOfHandleDepCreation`, ...), then one step per action.
- `OwnTimeAhead`: `Spec => []OwnTimeIsAhead`. The invariant is `OwnTimeInv`: the property, by one clock and
  one thread at a time (`Behind`), and that no own time is zero. The latter is needed because the handler also keeps
  clocks no event has touched (the empty one of a variable, of an open section's release), which are behind a thread
  only if it has started at one. `KeptClocks` collects all places where clocks are kept, so that each
  action has to show only which clock it adds: the one of its own thread, before time passes.
- `IndexStaysConsistent`: `Spec => []IndexConsistent`. With `TypeOK` it is inductive. The work is
  in lemmas on the index alone: what `swap_and_pop`, `Link` and `Unlink` do to the lists, that `CreateDep` and `UpdateDep` preserve
  `IndexLinked`, and, for the loop of `notify_event`, an invariant over the part of the recent list that
  has been replaced (the dependencies still to come are in the index and have not been renamed yet).
- `PushFacts` in `RecentListProofs`: a push keeps a recent list free of duplicates and bounded.
- `SectionsStayWellFormed`: `Spec => []SectionsWellFormed`. The invariant is `SectionsInv`, over the sections
  of each thread and of each pair of threads, with what the property leaves out: at most one thread holds a lock, an open
  section's thread holds it, and the trace is past every section that is kept.

`HappensBeforeProofs` and `RequestProofs` are about the handler beside the log of `HappensBefore` (`LogSpec`), so each theorem
relates what the handler keeps after any number of events to the whole trace. Their invariants all include `LogInv`, the
shape of the log, and `SleepInv`: `aliveCount` counts those alive, a thread the handler knows to sleep is not alone, and one it
does not know of is.

- `WaitsCountedOnce` and `SleepersMatchCounters` in `HappensBeforeProofs`. The first is inductive with `SleepInv` and
  `LogInv`; the second needs `Matched(c)`, that while every wait has ended with a notify, counter and queue count the
  sleepers not yet woken and woken, each by itself. The sum of a queue's counts (`CountIn`) is a recursive function;
  the facts about it are by induction on the length (`InductionUpTo`, whose hypothesis is a set and not an
  operator, which the provers could not instantiate).
- `ClocksFollowHappensBefore` there too: the clocks of two kept events compare as the events do in the happens-before
  order of the trace. The property speaks of the clocks of kept events only, which handlers take from
  four places, so the invariant says of each place which events its clock knows: `Reflects(log, kept, c, S)` is that the clock
  has merged the clocks of the kept events in S, and has reached no other one. `ClockInv` states it for kept events and for
  threads, `WritesInv` for the last write of each variable, `QueuesInv` for the notifies in each queue. A variable's
  clock may be older than its last write, since a thread that is alone keeps no clock: `WritesInv` then says that everybody
  alive knows the rest. `PastInv` is about the log itself: each thread knows its own events, its clock
  counts them, and whatever happened is known to somebody alive.
- `WakeMergesItsNotify`, an action property from the same invariant: the notify that `handle_sleepness` takes
  off the queue is the one that woke the thread.
- `RequestsKeptOnce` and `CondVarsNeverTooMany` in `RequestProofs`. `RequestsInv` is over places in the lists
  (`ListedAt`): each event to be kept is at one place and at no other, and is an instance of the dependency whose
  list it is in; it does not mention the index's internals, so that `CreateDep` is one append (`EventsAfterCreate`) and
  `UpdateDep` one concatenation (`EventsAfterUpdate`). The loop of `notify_event` preserves it, one update at a time.

- `CondVarsExact` and `ListsStaySorted` in `RequestProofs`: `CondVarsAreNotifiedSince` and `SortedUnlessForgotten`, which hold
  only as long as no push forgets a dependency. `ExactInv` adds the reason: every dependency of a thread that notifies is
  then one of its recent ones (`AllRecent`). In the loop of `notify_event` a dependency has the new condition variable
  if and only if the loop has renamed it or all its events are older than an earlier notify (`Exact`); a list is
  merged behind one of the second kind only, whose events have seen a notify the moved ones have not,
  and so come before them (`SinceIsLater`).

`ClocksFollowHappensBefore` and `WakeMergesItsNotify` assume `FifoWake`: the traced program's condition variables wake their sleepers in the order in which they
began to wait. The handler has one queue per condition variable and takes the oldest notify for whoever wakes first, so without it a thread may
merge the clock of another's notify; the run `handler_wake_order` shows it. The other theorems hold for both values.

`CheckerProofs` is about the whole predictor (`PredictorSpec`), for any trace that `LogNext` can produce and any patterns in it. `GraphAssumption`
joins the assumptions: threads are numbers, and finitely many. Its invariant builds on all of the above:

- `HandlerInv` is what holds of the handler's state: the invariants of the other modules, and three facts that only the checker needs. The past of an event
  includes that of each event in it and all its thread did before (`Causal`), a kept clock counts its own event
  (`KeptTicked`), and a thread's kept clocks go up (`GoingUp`).
- `CheckerStateIsTyped` and `OpenSectionsStayUntouched` follow with `CheckerShape`, which bounds where each search starts: no more
  critical sections are popped than a queue holds, and no event queue starts more than one past its end.
  The halving search of `pop_until` is a recursive function; `PointFacts` says what it returns in any sequence (its predecessor goes right,
  it does not itself), `PointOfPartition` what in a partitioned one. `LatestStartedFacts` does the same for the loop over `less_than_tr`:
  it finds the section that comes last, because sections of a lock exclude each other.
- `QueuesStayPartitioned`: the searches read partitioned queues, by `GoingUp` and, for events, by the order of the lists (`ExactInv`).
- `ClosureStaysSound`: `ClosureInv` says that there is a set of events that the closure has reached (`Reflects`, as in `HappensBeforeProofs`), which
  holds the past of its events and lies in the least prefix that reaches the current events (`Covers`). Each step extends that set:
  by the pasts of the current events, by the ends of sections before one of the same lock that has begun (`CoversRound`; `PoppedInv`
  says that what was popped has begun), and for later events nothing needs to be taken back, as they need more
  (`LaterNeedMore`). `Ideal`, the least prefix, is a recursive function; `IdealFacts` shows that it is closed, by counting: it grows
  in each round until it no longer does, and there are no more events than rounds.
- `ReportsAreReal`: a closure that converged and equals no acquire has reached a prefix (`ConvergedIsPrefix`), so the least one is within it and
  the reported events, which the closure has not reached, are not in it. That each waits for the next is the edge of the cycle between their
  dependencies, by `IndexConsistent` and `RequestsInv`.
- `NoDeadlockIsMissed`: the second half of `ClosureInv` (`NoneSkipped`) says that every choice of events that a reordering reaches at once is still
  ahead in each queue. An advance keeps it: what it skips is in every prefix that reaches the current events, and so in
  every one that reaches later ones (`NoneMissed`). When a queue is over, there is nothing ahead.

The last three assume `FifoWake` and `~SpuriousWakes`, as their argument starts from clocks that are happens-before: without these a clock may know of a notify that
did not happen before, or miss one. The first three hold for all values. `ClosureSound`, `NoDeadlockMissed` and the second half of
`QueuesPartitioned` speak only of traces on which no dependency was forgotten; `ReportsAreDeadlocks` of all. `ReportsAreReal` excludes the two kinds of reports that the runs `predictor_closure`
and `predictor_equal` show to be wrong, and no other.

`AdaptiveProofs` is about the two representations of a clock, for all sets of threads and ticks that meet `AdaptiveAssumption`:

- `ClocksImplementStore`: `Spec => ImplementsStore`, step by step: ticks, merges with their conversions, and what
  `merge_into` returns are those of functions from threads to times.
- `ComparisonsAgreeAlways`: `Spec => []ComparisonsAgree`, `<=` and `<` for every pair of representations.
- `ClocksStayWellFormed`: `Spec => []RepInv`, the invariant of both. Sparse entries are in the order of their threads, the owner's index is
  that of the owner's entry, an event's clock has no zero entry, and is dense only with at least half the threads in it; a
  closure's clock is sparse only below that. The last two are needed because `SparseMergeDense` returns TRUE and some of the comparisons
  FALSE outright, without a look at the times: what they answer is right only because of how many entries there must be.
  What `Ascending` promises (the sorted sequence of a set of threads) rests on a numbering by rank.

`ThreadInfoProofs` is about what is kept of one thread, for every capacity from two on (`CapacityAssumption`), any set of locks and
condition variables and any depth of re-entry (`ThreadInfoAssumption`):

- `LinksAlwaysConsistent`: `Spec => []LinksConsistent`. The slots, links, free chain and map of `CircularLRU` stand for a list
  (`Represents`): its values are in distinct slots, each linked to the next and back, and the chain of the free slots holds the
  others. There is one lemma per case of the code: a push of a known value at the head, in the middle or at the
  tail (`UpdateRepresents`), into a full list, which reuses the head's slot (`PushFullRepresents`), and into one with a free slot
  (`PushFreeRepresents`); each shows that what is then in the slots is `RecentList`'s push of the list. `WalkFacts` says that
  following the links ends and yields the list, so that a loop of the handler sees what an iteration over the list would.
- `ThreadStateImplemented`: `Spec => ImplementsThreadState`. The counted entries are sorted by lock (`LowerBoundFacts` says what
  the halving search finds in a sorted vector, `UniqueInsertFacts` what the insertion makes of it), so that two
  locksets are equal as vectors exactly if they are as sets (`SortedUnique`): without that the list of the code could hold a dependency
  twice where that of the abstract thread holds it once. The invariant of both theorems is `InfoInv`.

`PipelineProofs` goes from the program's events to the events that the handler gets, for programs and numbers of conversions of
any size. The assumptions are `FormatAssumption`, the relation of the code's widths to each other, and `PipelineAssumption`, that
a program has fewer threads and events than fit the masked count of the header and the field of a source location
(15 bits each in the code), and no more locks or variables than events. That thread identifiers fit their
field of 10 bits is *not* assumed: where a theorem needs it, the property says so (`ThreadsFit`).

- `WordRoundTrip`: what comes back from a word, by the digits of a number (`TwoDigits`), with the sign of the target (`NarrowFacts`).
- `PipelineInvariant`: `Spec => []PipeInv`, the invariant of the other three, of three parts. `OriginOK` is what a program
  can do. `FileInv` is what the file holds of it, whichever encoding it has: the items of the file are about events of the program, in
  its order (`Faithful`), two of them are about the same thread or object exactly if their events are (`Alike`), none is missing
  but those that a tool leaves out (`Complete`), and all identifiers are below the counts of the header. It is stated by pairs of items, since each tool gives new
  identifiers: `FollowsFaithful` then shows once that a file made from another one keeps it if the new identifiers are equal exactly
  where the old ones are. One lemma per tool does that (`StdToLocalKeeps`, `LocalToStdKeeps`, ...). The text parser's
  is about the lines as it understands them (`Understood`), a forked thread having its T or not (`PrefixedFacts`); it needs that its maps only grow (`Grows`), that a line's event stays what it was when they do (`EventForStays`), that it gives out fewer
  identifiers than there are names (`FewNames`), and that locations still fit (`FewPositions`). `ParserInv` says of the first pass that an entry of the maps is the object's
  only thread so far, or that it is shared (`Tracks`, `Notified`), and of the second that what was handed on are the events with
  an identifier up to the current one, each with its own (`HandledInv`), where identifiers are
  distinct and from one to below the count (`Numbered`).
- `IndicesAlwaysInRange`: `Spec => []IndicesInRange`, from the counts.
- `RenamingAlwaysFaithful`: `Spec => []RenamingFaithful`. The second pass is one more tool for `FollowsFaithful`, as `Numbered` makes new identifiers
  equal exactly where the old ones are (`HandledAlike`).
- `OnlyPrivateDropped`: `Spec => []DropsOnlyPrivate`. An event of the program that the handler does not get is in the file (`TraceHolds`)
  and was dropped, so its object has no second user in the file (`OneUser`), and then none in the program (`DroppedIsPrivate`).

The proofs brought two things to light that had been left implicit in the model: how many events fit the field of a location, and that
a header's count must survive its mask, since otherwise the text parser's and the binary parser's threads could differ in number. Both are now in
`PipelineAssumption`. A trace with more events at different locations than 2^15, or more threads, is outside of it.

Only model-checked: liveness (`CheckerEnds`, which needs fairness), and what recursive operators compute: `CycleEnumerator` is out
of the provers' reach as it declares one, Tarjan's algorithm, so that `AllCyclesOnce` and `ComponentIsWhole` are known up to four nodes. All other
properties of passing runs are proved.

## Plan

Done: the handler with its reference (`HappensBefore`), spurious wake-ups included, the checker with its searches and the
composition, the data structures with their abstract specifications, formats, conversions and parser from the program's
events on, the enumerator, and the theorems about handler, clocks, checker, data structures, conversions and parser.

Left:

1. Parser and handler composed: the deadlocks found on the trace that the parser hands on are those of the trace of
   the file. The theorems of `PipelineProofs` are what that composition would rest on.
2. The enumerator with Tarjan's calls as frames, like those of Johnson's, so that its properties could be proved as well.
