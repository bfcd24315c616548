------------------------ MODULE AdaptiveVectorClock ------------------------
(***************************************************************************)
(* AdaptiveVectorClock: a clock is a sorted vector of the threads it has   *)
(* heard of with their times, until there are so many that a plain vector  *)
(* over all threads is no larger.  The owner's component is found by its   *)
(* index, which has to follow the entries around.                          *)
(***************************************************************************)
EXTENDS Integers, SequencesExt

CONSTANTS
    Threads,        \* 0 .. THREAD_COUNT - 1
    Actors,
    MaxTicks        \* bound: the threads' own times add up to no more

ASSUME AdaptiveAssumption ==
    /\ IsFiniteSet(Threads) /\ Threads = 0..(Cardinality(Threads) - 1)
    /\ Actors \subseteq Threads /\ MaxTicks \in Nat

Invalid == -1
ThreadCount == Cardinality(Threads)

\* The vector is a sequence of entries when sparse, a function when dense.
Empty == [isDense |-> FALSE, raw |-> <<>>, ownerIdx |-> Invalid]
Owned(t) == [isDense |-> FALSE, raw |-> <<[tid |-> t, val |-> 1]>>, ownerIdx |-> 1]

Heard(c) == IF c.isDense THEN Threads ELSE {c.raw[i].tid : i \in DOMAIN c.raw}

\* The time of t, zero where the sparse vector holds nothing.
Val(c, t) ==
    IF c.isDense THEN c.raw[t]
    ELSE LET at == {i \in DOMAIN c.raw : c.raw[i].tid = t}
         IN IF at = {} THEN 0 ELSE c.raw[CHOOSE i \in at : TRUE].val

OwnerOf(c) ==
    IF c.isDense \/ c.ownerIdx = Invalid THEN c.ownerIdx ELSE c.raw[c.ownerIdx].tid

\* The entry of owner_idx is set to the value.
SetOwn(c, val) ==
    IF c.isDense THEN [c EXCEPT !.raw[c.ownerIdx] = val]
                 ELSE [c EXCEPT !.raw[c.ownerIdx].val = val]

OwnVal(c) == IF c.isDense THEN c.raw[c.ownerIdx] ELSE c.raw[c.ownerIdx].val
IncrementOwn(c) == SetOwn(c, OwnVal(c) + 1)
DecrementOwn(c) == SetOwn(c, Max({0, OwnVal(c) - 1}))

-----------------------------------------------------------------------------
(* merge_into, by the representations of the two clocks.                   *)

MaxVal(c, d, t) == Max({Val(c, t), Val(d, t)})

\* The threads of a set in their order: up to the i-th there are i of them.
Ascending(S) ==
    [i \in 1..Cardinality(S) |-> CHOOSE t \in S : Cardinality({u \in S : u <= t}) = i]

\* The entries of two sparse clocks, sorted by their threads.
MergedEntries(c, d) ==
    LET tids == Ascending(Heard(c) \cup Heard(d))
    IN [i \in DOMAIN tids |-> [tid |-> tids[i], val |-> MaxVal(c, d, tids[i])]]

\* Mutant: the index of the owner stays where it was.
MergeSparseKeepsIndex(c, d) ==
    LET merged == MergedEntries(c, d)
    IN [clock |-> [c EXCEPT !.raw = merged], changed |-> merged # c.raw]

\* merge_into_sparse: an entry that c does not have changes it, even at zero.
MergeSparse(c, d) ==
    LET merged == MergedEntries(c, d)
        owner == IF c.ownerIdx = Invalid THEN Invalid
                 ELSE CHOOSE i \in DOMAIN merged : merged[i].tid = OwnerOf(c)
    IN [clock |-> [c EXCEPT !.raw = merged, !.ownerIdx = owner],
        changed |-> merged # c.raw]

\* sparse_merge_into_dense: c becomes dense, and changes for sure.
SparseMergeDense(c, d) ==
    [clock |-> [isDense |-> TRUE, raw |-> [t \in Threads |-> MaxVal(c, d, t)],
                ownerIdx |-> OwnerOf(c)],
     changed |-> TRUE]

\* merge_into_dense and dense_merge_into_sparse.
MergeDense(c, d) ==
    [clock |-> [c EXCEPT !.raw = [t \in Threads |-> MaxVal(c, d, t)]],
     changed |-> \E t \in Heard(d) : Val(d, t) > c.raw[t]]

\* try_convert_to_dense: the sparse vector is as large as the dense one.
TryConvert(c) ==
    IF c.isDense \/ 2 * Len(c.raw) < ThreadCount THEN c
    ELSE [isDense |-> TRUE, raw |-> [t \in Threads |-> Val(c, t)],
          ownerIdx |-> OwnerOf(c)]

MergeInto(c, d) ==
    LET merged == CASE ~c.isDense /\ ~d.isDense -> MergeSparse(c, d)
                    [] ~c.isDense /\ d.isDense -> SparseMergeDense(c, d)
                    [] c.isDense -> MergeDense(c, d)
    IN [merged EXCEPT !.clock = TryConvert(@)]

-----------------------------------------------------------------------------
(* The comparisons, by the representations.                                *)

AllLeq(c, d) == \A t \in Heard(c) : t \in Heard(d) /\ Val(c, t) <= Val(d, t)

LessEqual(c, d) == ~(c.isDense /\ ~d.isDense) /\ AllLeq(c, d)

\* Mutant: a clock is less than a dense one even if a component is greater.
LessThanUnchecked(c, d) ==
    CASE c.isDense /\ ~d.isDense -> FALSE
      [] ~c.isDense /\ d.isDense -> TRUE
      [] OTHER -> AllLeq(c, d) /\ \E t \in Heard(d) : Val(c, t) < Val(d, t) \/ t \notin Heard(c)

\* A sparse clock is less than a dense one as soon as it is not greater.
LessThan(c, d) ==
    CASE c.isDense /\ ~d.isDense -> FALSE
      [] ~c.isDense /\ d.isDense -> AllLeq(c, d)
      [] OTHER -> AllLeq(c, d) /\ \E t \in Heard(d) : Val(c, t) < Val(d, t) \/ t \notin Heard(c)

-----------------------------------------------------------------------------
(* The clocks of the predictor, as in ClockStore.                          *)

VARIABLES clock, kept, sum, changed

vars == <<clock, kept, sum, changed>>

Init ==
    /\ clock = [t \in Actors |-> Owned(t)]
    /\ \E t \in Actors : kept = Owned(t)
    /\ sum = Empty /\ changed = FALSE

\* The trace is over before the first closure begins.
Tracing == sum = Empty

\* The bound.
TicksLeft == FoldFunction(+, 0, [u \in Actors |-> OwnVal(clock[u])]) < MaxTicks

Tick(t) ==
    /\ Tracing /\ TicksLeft
    /\ clock' = [clock EXCEPT ![t] = IncrementOwn(@)]
    /\ changed' = FALSE /\ UNCHANGED <<kept, sum>>

MergeThread(t, u) ==
    /\ Tracing /\ t # u
    /\ clock' = [clock EXCEPT ![t] = MergeInto(@, clock[u]).clock]
    /\ changed' = FALSE /\ UNCHANGED <<kept, sum>>

MergeKept(t) ==
    /\ Tracing
    /\ clock' = [clock EXCEPT ![t] = MergeInto(@, kept).clock]
    /\ changed' = FALSE /\ UNCHANGED <<kept, sum>>

Keep(t) == kept' = clock[t] /\ changed' = FALSE /\ UNCHANGED <<clock, sum>>

StartClosure == sum' = Empty /\ changed' = FALSE /\ UNCHANGED <<clock, kept>>

\* th_pred_merge_into: decrement, merge, increment back.
MergePredecessor ==
    /\ sum' = MergeInto(sum, DecrementOwn(kept)).clock
    /\ changed' = FALSE /\ UNCHANGED <<clock, kept>>

MergeRelease ==
    LET merged == MergeInto(sum, kept)
    IN /\ sum' = merged.clock /\ changed' = merged.changed
       /\ UNCHANGED <<clock, kept>>

Next ==
    \/ \E t \in Actors : Tick(t) \/ MergeKept(t) \/ Keep(t)
    \/ \E t, u \in Actors : MergeThread(t, u)
    \/ StartClosure \/ MergePredecessor \/ MergeRelease

Spec == Init /\ [][Next]_vars

-----------------------------------------------------------------------------
(* Properties.                                                             *)

Abstract(c) == [t \in Threads |-> Val(c, t)]

Store == INSTANCE ClockStore WITH
    clock <- [t \in Actors |-> Abstract(clock[t])],
    kept <- Abstract(kept), keeper <- OwnerOf(kept), sum <- Abstract(sum)

\* Whatever their representations and whenever these change, the clocks hold the
\* times that clocks without representation would, the right component ticks,
\* and the closure is told the truth about a change.
ImplementsStore == Store!Spec

\* The comparisons that halve the checker's queues agree with the order of
\* clocks.  The one exception is a clock equal to the closure's that has fewer
\* entries: a sparse one, when the closure's is dense or th_pred_merge_into left
\* a zero entry in it, is reported to be less.
ComparisonsAgree ==
    LET v == Abstract(kept)
        w == Abstract(sum)
    IN /\ LessEqual(kept, sum) <=> Store!Leq(v, w)
       /\ LessThan(kept, sum) <=>
            \/ Store!Less(v, w)
            \/ v = w /\ ~kept.isDense /\ (sum.isDense \/ Heard(kept) # Heard(sum))
=============================================================================
