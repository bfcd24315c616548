-------------------------- MODULE DependencyGraph --------------------------
(***************************************************************************)
(* The graph of abstract lock dependencies and the deadlock patterns in    *)
(* it.  A dependency points to those that hold what it wants; a pattern is *)
(* a cycle in which every thread wants something else and no two hold the  *)
(* same lock.  Which cycles there are is stated here by what an elementary *)
(* cycle is, not by the algorithm that enumerates them.                    *)
(***************************************************************************)
EXTENDS EventHandler

\* The nodes of a cycle are written from the least one on, and threads, of which
\* a trace has so many, come first in the order of the nodes.
ASSUME GraphAssumption == Threads \subseteq Nat /\ IsFiniteSet(Threads)

\* is_valid_neigh_cand_soft: condition variables in both locksets do not matter.
MayFollow(d, e) ==
    /\ d.tid # e.tid
    /\ d.res # e.res
    /\ d.lockset \cap e.lockset \cap Locks = {}

\* Mutant: any other dependency is a neighbour.
AnyNeighbours(ix, d) == {e \in ix.absDeps : MayFollow(d, e)}

Neighbours(ix, d) == {e \in Elements(ix.lockDepMap[d.res]) : MayFollow(d, e)}

IsCycle(ix, c) ==
    /\ \A i \in 1..(Len(c) - 1) : c[i+1] \in Neighbours(ix, c[i])
    /\ c[1] \in Neighbours(ix, c[Len(c)])
    /\ \A i \in 2..Len(c) : c[1].tid < c[i].tid

\* is_abs_dlk_pattern_gen: threads and wanted resources differ, locksets share
\* no lock.
IsPatternGen(c) == \A i, j \in DOMAIN c : i # j => MayFollow(c[i], c[j])

\* The threads of a pattern differ, so that no longer cycle is one.
PatternCycles(ix) ==
    {c \in UNION {[1..n -> ix.absDeps] : n \in 2..Cardinality(Threads)} :
        IsPatternGen(c) /\ IsCycle(ix, c)}

\* get_abs_dlk_patterns: a pattern for each choice of a source location for
\* each node, with the events of the node at that location.
PatternsOf(ix, c) ==
    {[nodes |-> [i \in DOMAIN c |-> [tid |-> c[i].tid, res |-> c[i].res, loc |-> locs[i]]],
      events |-> [i \in DOMAIN c |-> ix.depEvents[c[i]][locs[i]]]] :
        locs \in {f \in [DOMAIN c -> SrcLocs] :
                    \A i \in DOMAIN c : ix.depEvents[c[i]][f[i]] # <<>>}}

Patterns(ix) == UNION {PatternsOf(ix, c) : c \in PatternCycles(ix)}
=============================================================================
