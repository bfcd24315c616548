---------------------------- MODULE VectorClock ----------------------------
(***************************************************************************)
(* Vector clocks as the event handler and the deadlock checker use them: a *)
(* total function from threads to the number of events each has executed,  *)
(* zero where the representation holds nothing.  The two representations   *)
(* of AdaptiveVectorClock (sparse and dense) are abstracted away here.     *)
(***************************************************************************)
EXTENDS Integers

CONSTANT Threads

Clock == [Threads -> Nat]

\* AdaptiveVectorClock(): no owner, every component absent.
EmptyClock == [t \in Threads |-> 0]

\* AdaptiveVectorClock(owner_tid): the owner's component starts at 1.
OwnedClock(t) == [u \in Threads |-> IF u = t THEN 1 ELSE 0]

Merge(v, w) == [t \in Threads |-> IF v[t] < w[t] THEN w[t] ELSE v[t]]

Increment(v, t) == [v EXCEPT ![t] = @ + 1]

Decrement(v, t) == [v EXCEPT ![t] = IF @ = 0 THEN 0 ELSE @ - 1]

\* th_pred_merge_into: merge w as it was before its owner's last event.
PredMerge(v, w, owner) == Merge(v, Decrement(w, owner))

Leq(v, w) == \A t \in Threads : v[t] <= w[t]

Less(v, w) == Leq(v, w) /\ \E t \in Threads : v[t] < w[t]
=============================================================================
