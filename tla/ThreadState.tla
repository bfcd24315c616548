---------------------------- MODULE ThreadState ----------------------------
(***************************************************************************)
(* What the event handler's model takes a thread's lockset and its recent  *)
(* dependencies to be: a count per lock, and a list that only ever changes *)
(* by pushes.                                                              *)
(***************************************************************************)
EXTENDS RecentList

CONSTANTS Locks, CondVars
VARIABLES held, recent, call    \* call: the last operation, with its argument

vars == <<held, recent, call>>

Lockset == {l \in Locks : held[l] > 0}
WithResource(d, r) == [d EXCEPT !.lockset = @ \cup {r}]

Init == held = [l \in Locks |-> 0] /\ recent = <<>> /\ call = <<"none", 0>>

Acquire(l) ==
    /\ held' = [held EXCEPT ![l] = @ + 1] /\ call' = <<"acquire", l>>
    /\ UNCHANGED recent

Release(l) ==
    /\ held[l] > 0
    /\ held' = [held EXCEPT ![l] = @ - 1] /\ call' = <<"release", l>>
    /\ UNCHANGED recent

Depend(r) ==
    /\ recent' = Push(recent, [res |-> r, lockset |-> Lockset]) /\ call' = <<"depend", r>>
    /\ UNCHANGED held

Notify(c) ==
    LET loop[i \in 0..Len(recent)] ==
            IF i = 0 THEN <<>> ELSE Push(loop[i-1], WithResource(recent[i], c))
    IN /\ recent' = loop[Len(recent)] /\ call' = <<"notify", c>>
       /\ UNCHANGED held

Next ==
    \/ \E l \in Locks : Acquire(l) \/ Release(l)
    \/ \E r \in Locks \cup CondVars : Depend(r)
    \/ \E c \in CondVars : Notify(c)

Spec == Init /\ [][Next]_vars
=============================================================================
