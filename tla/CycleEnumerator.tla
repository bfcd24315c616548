-------------------------- MODULE CycleEnumerator --------------------------
(***************************************************************************)
(* CycleEnumerator: the elementary cycles of a graph, by Johnson's         *)
(* algorithm, on the strongly connected component with the least node that *)
(* Tarjan's algorithm finds among the nodes from the current start on.     *)
(* The nodes are numbers in their order in the graph; the calls of         *)
(* _enum_cycles that are in progress are frames.                           *)
(***************************************************************************)
EXTENDS Integers, FiniteSets, SequencesExt

CONSTANT N          \* the number of nodes
ASSUME NAssumption == N \in Nat \ {0}

Nodes == 1..N

VARIABLES
    neighbours,     \* neigh_list, sorted; every graph without loops
    start,          \* start_node_it
    neighStart,     \* start_neigh_map, as an index per node
    scc,            \* curr_min_scc
    frames,         \* of the calls in progress: node, neighbours left, cycle found
    blocked,        \* blocked_nodes
    recBlock,       \* rec_block_map
    cycles,         \* res_cycles
    phase

vars == <<neighbours, start, neighStart, scc, frames, blocked, recBlock, cycles, phase>>

SortedSeq(S) == SetToSortSeq(S, LAMBDA i, j : i < j)

Init ==
    /\ neighbours \in {[n \in Nodes |-> SortedSeq(g[n])] :
                         g \in {h \in [Nodes -> SUBSET Nodes] : \A n \in Nodes : n \notin h[n]}}
    /\ start = 1
    /\ neighStart = [n \in Nodes |-> 1]
    /\ scc = {} /\ frames = <<>> /\ blocked = {}
    /\ recBlock = [n \in Nodes |-> {}]
    /\ cycles = <<>>
    /\ phase = "scc"

-----------------------------------------------------------------------------
(* get_and_update_neigh_list_range: the neighbours of n from the start on. *)
(* The search begins where the last one ended.                             *)

FirstFrom(n, s, from) ==
    LET later == {k \in from..Len(neighbours[n]) : neighbours[n][k] >= s}
    IN IF later = {} THEN Len(neighbours[n]) + 1 ELSE CHOOSE k \in later : \A j \in later : k <= j

RangeFrom(n, first) == SubSeq(neighbours[n], first, Len(neighbours[n]))

-----------------------------------------------------------------------------
(* SCCEnumerator: Tarjan's algorithm.  The state of the search is a record *)
(* that the calls pass on.                                                 *)

Unvisited == 0
Lesser(i, j) == IF i < j THEN i ELSE j

\* Mutant: a component that is over takes part again.
ReadNeighbourAnywhere(st, n, m) == [st EXCEPT !.low[n] = Lesser(@, st.num[m])]

\* A neighbour that was visited, on the stack or not.
ReadNeighbour(st, n, m) ==
    IF m \in ToSet(st.stack) THEN [st EXCEPT !.low[n] = Lesser(@, st.num[m])] ELSE st

\* The component of n is on the stack from n on: take it off, and keep it if it
\* has more than one node and the least node so far.
PopComponent(st, n) ==
    LET at == CHOOSE i \in DOMAIN st.stack : st.stack[i] = n
        component == ToSet(SubSeq(st.stack, at, Len(st.stack)))
        least(S) == CHOOSE i \in S : \A j \in S : i <= j
        isLess == st.min = {} \/ least(component) < least(st.min)
    IN [st EXCEPT !.stack = SubSeq(@, 1, at - 1),
                  !.min = IF Cardinality(component) > 1 /\ isLess THEN component ELSE @]

RECURSIVE Visit(_, _)
Visit(st, n) ==
    LET first == FirstFrom(n, start, st.first[n])
        entered == [st EXCEPT !.index = @ + 1, !.num[n] = st.index, !.low[n] = st.index,
                              !.stack = Append(@, n), !.first[n] = first]
        visit(s, m) ==
            IF s.num[m] = Unvisited
            THEN LET after == Visit(s, m)
                 IN [after EXCEPT !.low[n] = Lesser(@, after.low[m])]
            ELSE ReadNeighbour(s, n, m)
        left == FoldLeft(visit, entered, RangeFrom(n, first))
    IN IF left.low[n] = left.num[n] THEN PopComponent(left, n) ELSE left

\* get_min_strong_conn_comp.
Tarjan ==
    LET zero == [n \in Nodes |-> Unvisited]
        visit(s, n) == IF s.num[n] = Unvisited THEN Visit(s, n) ELSE s
    IN FoldLeft(visit,
                [index |-> 1, num |-> zero, low |-> zero, stack |-> <<>>, min |-> {},
                 first |-> neighStart],
                [i \in 1..(N + 1 - start) |-> start + i - 1])

-----------------------------------------------------------------------------
(* enum_cycles and _enum_cycles.                                           *)

Top == frames[Len(frames)]
Path == [i \in DOMAIN frames |-> frames[i].node]

\* The call on n begins.
Frame(n, first) == [node |-> n, left |-> RangeFrom(n, first), found |-> FALSE]

Enter(n, below, s, firsts) ==
    LET first == FirstFrom(n, s, firsts[n])
    IN /\ frames' = Append(below, Frame(n, first))
       /\ neighStart' = [firsts EXCEPT ![n] = first]

\* The next component: forget what blocked its nodes, search from its least.
FindComponent ==
    LET t == Tarjan
        least == CHOOSE i \in t.min : \A j \in t.min : i <= j
    IN /\ phase = "scc" /\ start <= N /\ t.min # {}
       /\ scc' = t.min /\ start' = least
       /\ blocked' = (blocked \ t.min) \cup {least}
       /\ recBlock' = [n \in Nodes |-> IF n \in t.min THEN {} ELSE recBlock[n]]
       /\ Enter(least, <<>>, least, t.first)
       /\ phase' = "search"
       /\ UNCHANGED <<neighbours, cycles>>

NoMoreComponents ==
    /\ phase = "scc"
    /\ start > N \/ Tarjan.min = {}
    /\ phase' = "done"
    /\ UNCHANGED <<neighbours, start, neighStart, scc, frames, blocked, recBlock, cycles>>

Rest(found) == [Top EXCEPT !.left = Tail(@), !.found = @ \/ found]
WithTop(frame) == [frames EXCEPT ![Len(frames)] = frame]

CloseCycle ==
    /\ phase = "search" /\ Top.left # <<>> /\ Head(Top.left) = start
    /\ cycles' = Append(cycles, Path)
    /\ frames' = WithTop(Rest(TRUE))
    /\ UNCHANGED <<neighbours, start, neighStart, scc, blocked, recBlock, phase>>

MayEnter(n) == n # start /\ n \in scc /\ n \notin blocked

EnterNeighbour ==
    /\ phase = "search" /\ Top.left # <<>> /\ MayEnter(Head(Top.left))
    /\ blocked' = blocked \cup {Head(Top.left)}
    /\ Enter(Head(Top.left), WithTop(Rest(FALSE)), start, neighStart)
    /\ UNCHANGED <<neighbours, start, scc, recBlock, cycles, phase>>

SkipNeighbour ==
    /\ phase = "search" /\ Top.left # <<>>
    /\ Head(Top.left) # start /\ ~MayEnter(Head(Top.left))
    /\ frames' = WithTop(Rest(FALSE))
    /\ UNCHANGED <<neighbours, start, neighStart, scc, blocked, recBlock, cycles, phase>>

\* Mutant: the nodes that wait for n stay blocked.
UnblockedAlone(n) == {n} \cap blocked

\* _unblock: n and, over rec_block_map, the blocked nodes that wait for one that
\* is unblocked.
Unblocked(n) ==
    LET reach[k \in 0..N] ==
            IF k = 0 THEN {n} \cap blocked
            ELSE LET R == reach[k-1] IN R \cup (UNION {recBlock[m] : m \in R} \cap blocked)
    IN reach[N]

\* The end of a call: a node on a cycle is unblocked, any other is blocked
\* until one of its neighbours is not.
Leave ==
    LET n == Top.node
        below == SubSeq(frames, 1, Len(frames) - 1)
        last == Len(below)
    IN /\ phase = "search" /\ Top.left = <<>>
       /\ IF Top.found
          THEN /\ blocked' = blocked \ Unblocked(n)
               /\ recBlock' = [m \in Nodes |-> IF m \in Unblocked(n) THEN {} ELSE recBlock[m]]
          ELSE /\ recBlock' = [m \in Nodes |->
                     IF m \in scc \cap ToSet(RangeFrom(n, neighStart[n]))
                     THEN recBlock[m] \cup {n} ELSE recBlock[m]]
               /\ UNCHANGED blocked
       /\ IF below = <<>>
          THEN frames' = <<>> /\ start' = start + 1 /\ phase' = "scc"
          ELSE /\ frames' = [below EXCEPT ![last].found = @ \/ Top.found]
               /\ UNCHANGED <<start, phase>>
       /\ UNCHANGED <<neighbours, neighStart, scc, cycles>>

\* The enumeration is over; it stops nowhere else.
Done == phase = "done" /\ UNCHANGED vars

Next == FindComponent \/ NoMoreComponents \/ CloseCycle \/ EnterNeighbour
        \/ SkipNeighbour \/ Leave \/ Done

Spec == Init /\ [][Next]_vars

-----------------------------------------------------------------------------
(* Properties.                                                             *)

Edge(n, m) == m \in ToSet(neighbours[n])

IsElementary(c) ==
    /\ IsInjective(c)
    /\ \A i \in DOMAIN c : c[1] <= c[i] /\ Edge(c[i], c[IF i = Len(c) THEN 1 ELSE i + 1])

ElementaryCycles == {c \in UNION {[1..k -> Nodes] : k \in 2..N} : IsElementary(c)}

\* Each elementary cycle of the graph is found, once, from its least node on.
AllCyclesOnce ==
    phase = "done" => /\ ToSet(cycles) = ElementaryCycles
                      /\ Cardinality(ElementaryCycles) = Len(cycles)

\* The nodes that n reaches among those from s on.
ReachedFrom(n, s) ==
    LET reach[k \in 0..N] ==
            IF k = 0 THEN {n}
            ELSE LET R == reach[k-1] IN R \cup {m \in s..N : \E p \in R : Edge(p, m)}
    IN reach[N]

ComponentOf(n, s) == {m \in s..N : m \in ReachedFrom(n, s) /\ n \in ReachedFrom(m, s)}

\* What Tarjan's algorithm found is a whole strongly connected component of the
\* nodes from its least one on.
ComponentIsWhole ==
    phase = "search" => scc = ComponentOf(start, start) /\ Cardinality(scc) > 1
=============================================================================
