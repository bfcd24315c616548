---------------------------- MODULE MCPredictor ----------------------------
(***************************************************************************)
(* Small programs for the whole predictor.  To bound the interleavings, a  *)
(* thread is preempted only where the workload says so or where it may     *)
(* block, and the trace has a least length.                                *)
(***************************************************************************)
EXTENDS Predictor, TLC

CONSTANTS
    Yields,         \* per thread, the steps after which it may be preempted
    Shortest        \* the least length of a trace that is analysed

VARIABLE turn       \* the thread that ran last

MCVars == <<predictorVars, turn>>

Is(type, targets) == {type} \X targets
Lock(l) == <<Is("REQ", {l}), Is("LK", {l})>>
LockOneOf(ls) == <<Is("REQ", ls), Is("LK", ls)>>
Unlock(l) == <<Is("UK", {l})>>
Nest(l, k) == Lock(l) \o Lock(k) \o Unlock(k) \o Unlock(l)
Section(l) == Lock(l) \o Unlock(l)

Stays(t) == step'[t] > step[t] => t = turn \/ step[turn] \in Yields[turn]
Scheduled == \A t \in Threads : Stays(t)

MCInit == PredictorInit /\ turn = Main
MCNext ==
    /\ PredictorNext
    /\ phase = "recording" /\ phase' = "patterns" => pos >= Shortest
    /\ Scheduled
    /\ turn' = IF step' = step THEN turn ELSE CHOOSE t \in Threads : step'[t] > step[t]
MCSpec == MCInit /\ [][MCNext]_MCVars /\ WF_MCVars(Check /\ turn' = turn)

-----------------------------------------------------------------------------
\* The main thread nests its locks thrice, the last time under a third lock,
\* and then notifies; the next thread nests them the other way round, or closes
\* a ring through the third lock with the last thread, which waits for the
\* notify while it holds that lock.
MixedWorkload ==
    (0 :> <<Is("FORK", {1}), Is("FORK", {2})>> \o Nest(1, 2)
          \o <<Is("WR", Vars)>> \o Nest(1, 2)
          \o Lock(3) \o <<Is("WR", Vars)>> \o Nest(1, 2) \o Unlock(3)
          \o Lock(1) \o <<{"NOTIFY", "NOTIFYALL"} \X {-1}>> \o Unlock(1))
    @@ (1 :> <<Is("RD", Vars)>> \o Section(3)
             \o Lock(2) \o LockOneOf({1, 3}) \o <<Is("UK", {1, 3})>> \o Unlock(2))
    @@ (2 :> Lock(3) \o Lock(1) \o Unlock(1) \o <<Is("WAIT", {-1})>>
             \o Lock(1) \o Unlock(1) \o Unlock(3))
MixedYields == (0 :> {2, 9, 18, 25, 28, 29}) @@ (1 :> {1, 4, 10}) @@ (2 :> {0, 7, 10})

\* The main thread passes through two locks hand over hand; what it read in
\* the second one was written after the nested request of the next thread.
HandOverWorkload ==
    (0 :> <<Is("FORK", {1}), Is("FORK", {2})>>
          \o Lock(2) \o <<Is("WR", {"x"})>> \o Lock(1) \o Unlock(2)
          \o <<Is("RD", {"y"})>> \o Unlock(1))
    @@ (1 :> Section(4) \o <<Is("RD", {"x"})>> \o Nest(3, 4) \o <<Is("WR", {"y"})>>)
    @@ (2 :> Section(2) \o Section(1) \o Nest(4, 3))
HandOverYields == (0 :> {2, 5, 8, 10}) @@ (1 :> {3, 11}) @@ (2 :> {0, 3, 6})

\* The main thread keeps a lock until the next thread has ended.  The last
\* thread gets it afterwards, and that is all it has done before its last
\* nested request: the closure is the clock of that acquire.
HeldOverWorkload ==
    (0 :> <<Is("FORK", {1})>> \o Lock(1)
          \o <<Is("FORK", {2}), Is("JOIN", {1})>> \o Unlock(1))
    @@ (1 :> Lock(2) \o <<Is("WR", {"x"})>> \o Section(3) \o Unlock(2))
    @@ (2 :> <<Is("RD", {"x"})>> \o Lock(3) \o Nest(1, 2) \o Unlock(3))
HeldOverYields == (0 :> {4, 6}) @@ (1 :> {7}) @@ (2 :> {})
=============================================================================
