----------------------------- MODULE BinFormat -----------------------------
(***************************************************************************)
(* TraceBinFormatter and EventsT: an event of a binary trace is one word   *)
(* of four bit fields, and a count of the header is cut to its mask.  How  *)
(* many values a field has is a constant: in the code 2^10, 2^4, 2^34 and  *)
(* 2^15.                                                                   *)
(***************************************************************************)
EXTENDS Integers, Sequences

CONSTANTS
    ThreadRange, TargetRange, SrcLocRange,  \* how many values a field of a word has
    ResourceRange,  \* how many ResourceIdT has (2^32)
    CountRange      \* how many the mask of the thread count leaves (2^15)

ASSUME FormatAssumption ==
    /\ {ThreadRange, TargetRange, SrcLocRange, ResourceRange, CountRange} \subseteq Nat \ {0}
    /\ ResourceRange % 2 = 0 /\ TargetRange % ResourceRange = 0
    /\ 2 * SrcLocRange <= ResourceRange /\ 2 * CountRange <= ResourceRange

\* EventsT in the order of its values, which begin at zero.
EventNames == <<"LK", "UK", "RD", "WR", "FORK", "JOIN", "BEGIN", "END", "REQ",
                "BRANCH", "WAIT", "NOTIFY", "NOTIFYALL">>
ValueOf(type) == (CHOOSE i \in DOMAIN EventNames : EventNames[i] = type) - 1

\* What is no event type: an empty optional, or a value that no enumerator has.
NoType == "NONE"
OpRange == 16
FromInt16(v) == IF v + 1 \in DOMAIN EventNames THEN EventNames[v + 1] ELSE NoType

LockTypes == {"REQ", "LK", "UK"}
AccessTypes == {"RD", "WR"}
ThreadTypes == {"FORK", "JOIN"}
NotifTypes == {"NOTIFY", "NOTIFYALL"}
CondVarTypes == {"WAIT"} \cup NotifTypes
UnusedTypes == {"BEGIN", "END", "BRANCH"}
IsSpdType(type) == type # NoType /\ ValueOf(type) <= ValueOf("BRANCH")

\* get_ass_sync_obj: from a lock to its condition variable and back.
AssSyncObj(res) == -res

-----------------------------------------------------------------------------
(* A field is how many values it has, and the weight of its lowest bit.    *)

ThreadField == [range |-> ThreadRange, unit |-> 1]
OpField == [range |-> OpRange, unit |-> ThreadRange]
TargetField == [range |-> TargetRange, unit |-> ThreadRange * OpRange]
SrcLocField == [range |-> SrcLocRange, unit |-> ThreadRange * OpRange * TargetRange]

\* A value that does not fit loses its high bits; a negative one is in two's
\* complement, which % is for.
CompToBin(field, v) == (v % field.range) * field.unit
BinToComp(field, word) == (word \div field.unit) % field.range

\* The assignment of a field to a signed integer of so many values.
Narrow(v, range) ==
    LET low == v % range IN IF low >= range \div 2 THEN low - range ELSE low

EvToBin(e) ==
    CompToBin(ThreadField, e.tid) + CompToBin(OpField, ValueOf(e.type))
        + CompToBin(TargetField, e.target) + CompToBin(SrcLocField, e.loc)

ExtractTarget(word) == Narrow(BinToComp(TargetField, word), ResourceRange)
ExtractEvType(word) == FromInt16(BinToComp(OpField, word))

BinToEv(word) ==
    [tid |-> BinToComp(ThreadField, word), type |-> ExtractEvType(word),
     target |-> ExtractTarget(word), loc |-> BinToComp(SrcLocField, word)]

-----------------------------------------------------------------------------
(* MetaHeader.  The masks of the other counts only cut the sign off.       *)

MaskThreadCount(n) == n % CountRange
EmptyHeader == [threads |-> 0, locks |-> 0, vars |-> 0, events |-> 0]

MaskHeader(h) == [h EXCEPT !.threads = MaskThreadCount(@)]
=============================================================================
