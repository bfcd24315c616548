---------------------------- MODULE SortedSearch ----------------------------
(***************************************************************************)
(* std::lower_bound and std::upper_bound, which LazyQueue and SortedVector *)
(* search with; they differ only in the comparison that sends the search   *)
(* to the right.  Both halve, and take for granted that the comparison     *)
(* holds for a prefix of what they search: for anything else they return   *)
(* some other element.  The comparison is given as a sequence of Booleans, *)
(* one for each element: does the search go to the right of it?            *)
(***************************************************************************)
EXTENDS Integers, Sequences

\* One round of the search in count elements from first on.
Halve(range, goesRight) ==
    LET half == range.count \div 2
        mid == range.first + half
    IN IF range.count = 0 THEN range
       ELSE IF goesRight[mid] THEN [first |-> mid + 1, count |-> range.count - half - 1]
       ELSE [first |-> range.first, count |-> half]

\* The first index from the given one on that does not go right, or the end.  In as
\* many rounds as there are elements, nothing is left to search.
PartitionPoint(first, goesRight) ==
    LET count == Len(goesRight) + 1 - first
        rounds[n \in 0..count] ==
            IF n = 0 THEN [first |-> first, count |-> count]
            ELSE Halve(rounds[n-1], goesRight)
    IN rounds[count].first

\* What the search takes for granted.
Partitioned(first, goesRight) ==
    \A i, j \in first..Len(goesRight) : i < j /\ goesRight[j] => goesRight[i]
=============================================================================
