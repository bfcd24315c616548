----------------------------- MODULE ClockStore -----------------------------
(***************************************************************************)
(* What the predictor does with its clocks, on clocks that are functions:  *)
(* threads tick and merge each other's or a kept clock; the closure merges *)
(* kept clocks, whole or without the last event of their owner, and is     *)
(* told whether that changed it.                                           *)
(***************************************************************************)
EXTENDS VectorClock

CONSTANT Actors     \* the threads that have events

VARIABLES
    clock,          \* of each thread
    kept, keeper,   \* the clock of an event, and its thread
    sum, changed    \* the clock of the closure, and what its last merge returned

vars == <<clock, kept, keeper, sum, changed>>

Init ==
    /\ clock = [t \in Actors |-> OwnedClock(t)]
    /\ \E t \in Actors : kept = OwnedClock(t) /\ keeper = t
    /\ sum = EmptyClock /\ changed = FALSE

Tick(t) ==
    /\ clock' = [clock EXCEPT ![t] = Increment(@, t)]
    /\ changed' = FALSE /\ UNCHANGED <<kept, keeper, sum>>

MergeThread(t, u) ==
    /\ t # u
    /\ clock' = [clock EXCEPT ![t] = Merge(@, clock[u])]
    /\ changed' = FALSE /\ UNCHANGED <<kept, keeper, sum>>

MergeKept(t) ==
    /\ clock' = [clock EXCEPT ![t] = Merge(@, kept)]
    /\ changed' = FALSE /\ UNCHANGED <<kept, keeper, sum>>

Keep(t) ==
    /\ kept' = clock[t] /\ keeper' = t
    /\ changed' = FALSE /\ UNCHANGED <<clock, sum>>

StartClosure ==
    /\ sum' = EmptyClock
    /\ changed' = FALSE /\ UNCHANGED <<clock, kept, keeper>>

MergePredecessor ==
    /\ sum' = PredMerge(sum, kept, keeper)
    /\ changed' = FALSE /\ UNCHANGED <<clock, kept, keeper>>

MergeRelease ==
    /\ sum' = Merge(sum, kept)
    /\ changed' = (sum' # sum)
    /\ UNCHANGED <<clock, kept, keeper>>

Next ==
    \/ \E t \in Actors : Tick(t) \/ MergeKept(t) \/ Keep(t)
    \/ \E t, u \in Actors : MergeThread(t, u)
    \/ StartClosure \/ MergePredecessor \/ MergeRelease

Spec == Init /\ [][Next]_vars
=============================================================================
