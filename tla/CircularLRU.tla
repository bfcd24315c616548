---------------------------- MODULE CircularLRU ----------------------------
(***************************************************************************)
(* CircularLRU over LRUList: a doubly linked list in an array of Capacity  *)
(* slots, with a chain of the free ones, and a map from each value to its  *)
(* slot.  A slot holds indexes, -1 standing for none.                      *)
(***************************************************************************)
EXTENDS RecentList, FiniteSets

None == -1
NoValue == <<>>
Slots == 0..(Capacity - 1)

EmptyLRU ==
    [data |-> [i \in Slots |-> NoValue],
     prev |-> [i \in Slots |-> None],
     next |-> [i \in Slots |-> IF i = Capacity - 1 THEN None ELSE i + 1],
     head |-> None, tail |-> None, freeHead |-> 0, size |-> 0,
     idxMap |-> [x \in {} |-> None]]        \* idx_umap, on the values it holds

\* Mutant: the slot after the target keeps its way back to it.
UpdateKeepsBackLink(c, i) ==
    IF i = c.tail THEN c
    ELSE [c EXCEPT
        !.head = IF i = c.head THEN c.next[i] ELSE @,
        !.next = [j \in Slots |-> CASE j = i -> None
                                    [] j = c.tail -> i
                                    [] i # c.head /\ j = c.prev[i] -> c.next[i]
                                    [] OTHER -> c.next[j]],
        !.prev = [@ EXCEPT ![i] = c.tail],
        !.tail = i]

\* unsafe_update: the slot becomes the newest.
Update(c, i) ==
    IF i = c.tail THEN c
    ELSE [c EXCEPT
        !.head = IF i = c.head THEN c.next[i] ELSE @,
        !.next = [j \in Slots |-> CASE j = i -> None
                                    [] j = c.tail -> i
                                    [] i # c.head /\ j = c.prev[i] -> c.next[i]
                                    [] OTHER -> c.next[j]],
        !.prev = [@ EXCEPT ![c.next[i]] = c.prev[i], ![i] = c.tail],
        !.tail = i]

\* x in slot i, as the newest.
Insert(c, i, x) ==
    [c EXCEPT
        !.data[i] = x,
        !.prev[i] = c.tail,
        !.next = [j \in Slots |-> IF j = i THEN None ELSE IF j = c.tail THEN i ELSE c.next[j]],
        !.tail = i,
        !.idxMap = [y \in DOMAIN @ \cup {x} |-> IF y = x THEN i ELSE @[y]]]

\* A new value while there is a free slot.
PushFree(c, x) ==
    Insert([c EXCEPT !.freeHead = c.next[@], !.size = @ + 1,
                     !.head = IF @ = None THEN c.freeHead ELSE @], c.freeHead, x)

\* A new value into a full list, over the oldest.
PushFull(c, x) ==
    LET inserted ==
            Insert([c EXCEPT !.head = c.next[@], !.prev[c.next[c.head]] = None], c.head, x)
    IN [inserted EXCEPT !.idxMap = [y \in DOMAIN @ \ {c.data[c.head]} |-> @[y]]]

CircularPush(c, x) ==
    IF x \in DOMAIN c.idxMap THEN Update(c, c.idxMap[x])
    ELSE IF c.size = Capacity THEN PushFull(c, x)
    ELSE PushFree(c, x)

-----------------------------------------------------------------------------
(* The list, as the iterators of the event handler walk it.                *)

\* The first n slots on the way from a slot along the links.
WalkFrom(slot, links, n) ==
    LET at[k \in 1..n] ==
            IF k = 1 THEN slot ELSE IF at[k-1] = None THEN None ELSE links[at[k-1]]
    IN [k \in 1..n |-> at[k]]

Forward(c) == WalkFrom(c.head, c.next, c.size)
Backward(c) == [k \in 1..c.size |-> WalkFrom(c.tail, c.prev, c.size)[c.size + 1 - k]]
Free(c) == {WalkFrom(c.freeHead, c.next, Capacity - c.size)[k] : k \in 1..(Capacity - c.size)}

\* From the oldest to the newest.
ListOf(c) == [k \in 1..c.size |-> c.data[Forward(c)[k]]]

\* The list reads the same from both ends, no slot is lost or in two chains,
\* and the map knows each value by the slot that holds it.
Consistent(c) ==
    /\ Forward(c) = Backward(c)
    /\ {Forward(c)[k] : k \in 1..c.size} \cup Free(c) = Slots
    /\ c.size > 0 => c.next[c.tail] = None /\ c.prev[c.head] = None
    /\ \A x \in DOMAIN c.idxMap : c.data[c.idxMap[x]] = x
    /\ DOMAIN c.idxMap = {ListOf(c)[k] : k \in 1..c.size}
=============================================================================
