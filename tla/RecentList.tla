----------------------------- MODULE RecentList -----------------------------
(***************************************************************************)
(* What CircularLRU promises, without its slots and index map: a sequence  *)
(* of distinct values from the oldest to the newest.  Pushing a value that *)
(* is present makes it the newest; pushing a new one into a full list      *)
(* forgets the oldest.                                                     *)
(***************************************************************************)
EXTENDS Integers, Sequences

CONSTANT Capacity    \* the template argument of RecentSyncStatusContT (8)
ASSUME CapacityAssumption == Capacity \in Nat /\ Capacity >= 2

Elements(s) == {s[i] : i \in DOMAIN s}
NoDuplicates(s) == \A i, j \in DOMAIN s : s[i] = s[j] => i = j

RemoveIndex(s, i) == SubSeq(s, 1, i - 1) \o SubSeq(s, i + 1, Len(s))

Push(s, x) ==
    IF x \in Elements(s)
    THEN Append(RemoveIndex(s, CHOOSE i \in DOMAIN s : s[i] = x), x)
    ELSE Append(IF Len(s) = Capacity THEN Tail(s) ELSE s, x)
=============================================================================
