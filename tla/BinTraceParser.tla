--------------------------- MODULE BinTraceParser ---------------------------
(***************************************************************************)
(* BinParser: a first pass over the trace file finds the locks and the     *)
(* variables that one thread alone uses, the second pass hands the events  *)
(* of the others to the event handler, with new identifiers.               *)
(***************************************************************************)
EXTENDS BinFormat, SequencesExt

Invalid == -1
IsShared == -2

VARIABLES
    phase,
    trace,          \* the events of the file
    locks, vars,    \* _shared_cand_map of shared_locks and of shared_vars
    threadTotal, lockTotal, varTotal,       \* THREAD_COUNT, ... of meta_info
    notifThreads,
    handled, at     \* the events handed on, with their position; the next one

totals == <<threadTotal, lockTotal, varTotal>>
parserVars == <<phase, trace, locks, vars, totals, notifThreads, handled, at>>

NoObjects == [id \in {} |-> Invalid]

ParserInit ==
    /\ phase = "closed" /\ trace = <<>>
    /\ locks = NoObjects /\ vars = NoObjects
    /\ threadTotal = 0 /\ lockTotal = 0 /\ varTotal = 0
    /\ notifThreads = {}
    /\ handled = <<>> /\ at = 1

\* BinParser(trace_file) with header h, and the start of the first pass.
OpenFile(h) ==
    /\ phase = "closed"
    /\ LET header == MaskHeader(h)
       IN /\ threadTotal' = header.threads
          /\ lockTotal' = header.locks
          /\ varTotal' = header.vars
          /\ locks' = [id \in 0..(header.locks - 1) |-> Invalid]
          /\ vars' = [id \in 0..(header.vars - 1) |-> Invalid]
    /\ phase' = "preprocess"
    /\ UNCHANGED <<trace, notifThreads, handled, at>>

\* Mutant: whoever comes second takes the object over.
UpdateForgets(map, tid, id) ==
    IF map[id] = IsShared THEN map ELSE [map EXCEPT ![id] = tid]

\* SharedObjTracker::update: the first thread is remembered, a second one makes
\* the object shared.
Update(map, tid, id) ==
    [map EXCEPT ![id] = IF @ = IsShared THEN @
                        ELSE IF @ = Invalid THEN tid
                        ELSE IF @ # tid THEN IsShared ELSE @]

\* The first pass, one event: a notify makes the lock of its condition variable
\* shared.
Seen(maps, e) ==
    [locks |-> CASE e.type \in LockTypes -> Update(maps.locks, e.tid, e.target)
                 [] e.type \in NotifTypes ->
                        [maps.locks EXCEPT ![AssSyncObj(e.target)] = IsShared]
                 [] OTHER -> maps.locks,
     vars |-> IF e.type \in AccessTypes THEN Update(maps.vars, e.tid, e.target)
              ELSE maps.vars]

\* Mutant: the counter is not incremented.
RenumberUncounted(map) ==
    [id \in DOMAIN map |-> IF map[id] = IsShared THEN 1 ELSE Invalid]

\* ignore_unshared_objects: shared objects are numbered from one, the rest have
\* no identifier any more.
Renumber(map) ==
    [id \in DOMAIN map |->
        IF map[id] = IsShared
        THEN Cardinality({j \in DOMAIN map : j <= id /\ map[j] = IsShared})
        ELSE Invalid]

\* What _shared_count is after that: one more than there are shared objects,
\* as index zero is not used, and zero if there are no objects at all.
CountOf(map) ==
    IF DOMAIN map = {} THEN 0
    ELSE 1 + Cardinality({id \in DOMAIN map : map[id] = IsShared})

\* preprocess_trace, with ignore_unshared_objects at its end.  With no lock that
\* is shared there is nothing to handle.
Preprocess(events) ==
    /\ phase = "preprocess"
    /\ LET seen[i \in 0..Len(events)] ==
               IF i = 0 THEN [locks |-> locks, vars |-> vars] ELSE Seen(seen[i-1], events[i])
           maps == seen[Len(events)]
       IN /\ locks' = Renumber(maps.locks) /\ vars' = Renumber(maps.vars)
          /\ lockTotal' = CountOf(maps.locks) /\ varTotal' = CountOf(maps.vars)
    /\ notifThreads' = {e.tid : e \in {f \in Range(events) : f.type \in NotifTypes}}
    /\ phase' = IF lockTotal' <= 1 THEN "done" ELSE "handle"
    /\ trace' = events
    /\ UNCHANGED <<threadTotal, handled, at>>

NewId(e) ==
    CASE e.type \in LockTypes -> locks[e.target]
      [] e.type \in AccessTypes -> vars[e.target]
      [] e.type \in CondVarTypes -> AssSyncObj(locks[AssSyncObj(e.target)])
      [] OTHER -> e.target

\* The second pass asks for the value of an identifier that is not there.
NoValue(e) == e.type \in CondVarTypes /\ locks[AssSyncObj(e.target)] = Invalid

\* The second pass, one event: it is handed on unless its object is not shared.
HandleEvent ==
    /\ phase = "handle" /\ at <= Len(trace) /\ ~NoValue(trace[at])
    /\ LET e == trace[at]
           dropped == e.type \in LockTypes \cup AccessTypes /\ NewId(e) = Invalid
       IN handled' = IF dropped THEN handled
                     ELSE Append(handled, [tid |-> e.tid, type |-> e.type, loc |-> e.loc,
                                           target |-> NewId(e), pos |-> at - 1])
    /\ at' = at + 1
    /\ UNCHANGED <<phase, trace, locks, vars, totals, notifThreads>>

\* std::optional::value throws, and nothing catches it.
Abort ==
    /\ phase = "handle" /\ at <= Len(trace) /\ NoValue(trace[at])
    /\ phase' = "aborted"
    /\ UNCHANGED <<trace, locks, vars, totals, notifThreads, handled, at>>

EndOfTrace ==
    /\ phase = "handle" /\ at > Len(trace)
    /\ phase' = "done"
    /\ UNCHANGED <<trace, locks, vars, totals, notifThreads, handled, at>>
=============================================================================
