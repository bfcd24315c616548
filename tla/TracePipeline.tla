--------------------------- MODULE TracePipeline ---------------------------
(***************************************************************************)
(* From a program's events to the event handler: a recorder (external)     *)
(* writes a text or a Java file, conv_trace converts it, back and forth if *)
(* one likes, and BinParser reads the result.  The origin is kept by no    *)
(* code: it is what the program did, and the location of an event is its   *)
(* number there, so that an event can be told wherever it appears.         *)
(***************************************************************************)
EXTENDS TraceConversion, BinTraceParser

CONSTANTS
    Types,          \* the types of events that may happen
    MaxThreads, MaxLocks, MaxVars,      \* bounds on a program's objects,
    MaxEvents,                          \* its events,
    MaxConversions                      \* and the runs of conv_trace

ASSUME PipelineAssumption ==
    /\ Types \subseteq StdTypes \cup UnusedTypes
    /\ MaxThreads \in 0..(CountRange - 1) /\ MaxEvents \in 0..(SrcLocRange - 1)
    /\ MaxLocks \in 0..MaxEvents /\ MaxVars \in 0..MaxEvents /\ MaxConversions \in Nat

VARIABLES
    origin,         \* the program's events
    conversions,    \* how many there were
    viaJava, viaText    \* the events were in a Java file, printed as text, after that

pipelineVars == <<file, parserVars, origin, conversions, viaJava, viaText>>
history == <<origin, conversions, viaJava, viaText>>

-----------------------------------------------------------------------------
(* The program and its recorder (external).  A program's objects are       *)
(* numbered in the order in which they come first, whatever their names.   *)

TargetsOf(types) == {e.target : e \in {f \in Range(origin) : f.type \in types}}
UsedThreads == {e.tid : e \in Range(origin)} \cup TargetsOf(ThreadTypes)

CountNew(used) == IF used = {} THEN 0 ELSE 1 + Max(used)
UpToNew(used, max) == {k \in 0..(max - 1) : k <= CountNew(used)}

\* A thread waits for and notifies a lock that it locked before; no tool looks
\* at who an unused event is of.
Targets(type, tid) ==
    CASE type \in ThreadTypes -> UpToNew(UsedThreads \cup {tid}, MaxThreads) \ {tid}
      [] type \in LockTypes -> UpToNew(TargetsOf(LockTypes), MaxLocks)
      [] type \in AccessTypes -> UpToNew(TargetsOf(AccessTypes), MaxVars)
      [] type \in CondVarTypes ->
            {e.target : e \in {f \in Range(origin) : f.type = "LK" /\ f.tid = tid}}
      [] OTHER -> {0}

Recording == file.enc = "none"

Happen(type) ==
    /\ Recording /\ Len(origin) < MaxEvents
    /\ \E tid \in UpToNew(UsedThreads, MaxThreads) : \E target \in Targets(type, tid) :
          /\ type \in UnusedTypes => tid = 0
          /\ origin' = Append(origin, [tid |-> tid, type |-> type, target |-> target,
                                       loc |-> Len(origin) + 1])
    /\ UNCHANGED <<file, parserVars, conversions, viaJava, viaText>>

\* The name of a program's object, which is no identifier of it.
NameOf(k) == k + 10
Line(e) == [e EXCEPT !.tid = NameOf(@), !.target = NameOf(@)]

\* Some recorders write what is forked and joined without the "T" that every
\* thread that acts is written with.
Bare(line) ==
    IF line.type \in ThreadTypes THEN [line EXCEPT !.target = Respelled(@)] ELSE line

\* The text may hold lines of no use, of which the one before last is one, and
\* a last line whose location is no number.
Junk == [tid |-> NameOf(0), type |-> NoType, target |-> NameOf(0), loc |-> 0]
BadLine == [Junk EXCEPT !.type = "LK", !.loc = NoNumber]

RecordText ==
    /\ Recording /\ origin # <<>>
    /\ \E rest \in {<<>>, <<Junk, BadLine>>}, bare \in BOOLEAN :
          LET lines == <<Junk>> \o [i \in DOMAIN origin |-> Line(origin[i])] \o rest
          IN file' = TextFile([i \in DOMAIN lines |-> IF bare THEN Bare(lines[i]) ELSE lines[i]])
    /\ UNCHANGED <<parserVars, history>>

\* A Java recorder numbers objects itself; it may write words of no event.
NoEventWord == CompToBin(OpField, Len(EventNames))
JavaWord(e) ==
    EvToBin(IF e.type \in CondVarTypes THEN [e EXCEPT !.target = AssSyncObj(@)] ELSE e)

RecordJava ==
    /\ Recording /\ origin # <<>>
    /\ LET words == [i \in DOMAIN origin |-> JavaWord(origin[i])] \o <<NoEventWord>>
       IN file' = BinFile("java", [threads |-> CountNew(UsedThreads),
                                   locks |-> CountNew(TargetsOf(LockTypes)),
                                   vars |-> CountNew(TargetsOf(AccessTypes)),
                                   events |-> Len(words)], words)
    /\ UNCHANGED <<parserVars, history>>

-----------------------------------------------------------------------------
(* The tools.                                                              *)

Init ==
    /\ ParserInit
    /\ file = BinFile("none", EmptyHeader, <<>>)
    /\ origin = <<>> /\ conversions = 0 /\ viaJava = FALSE /\ viaText = FALSE

ConvertFile ==
    /\ phase = "closed" /\ conversions < MaxConversions
    /\ Convert
    /\ conversions' = conversions + 1
    /\ viaJava' = (viaJava \/ file'.enc = "java")
    /\ viaText' = (viaText \/ file'.enc = "std")
    /\ UNCHANGED <<parserVars, origin>>

\* The parser reads words to the end of the file, whatever the header counts.
Parse ==
    /\ \/ file.enc = "local" /\ OpenFile(file.header)
       \/ Preprocess([i \in DOMAIN file.words |-> BinToEv(file.words[i])])
       \/ HandleEvent
       \/ Abort
       \/ EndOfTrace
    /\ UNCHANGED <<file, history>>

Next == (\E type \in Types : Happen(type)) \/ RecordText \/ RecordJava \/ ConvertFile \/ Parse

Spec == Init /\ [][Next]_pipelineVars

-----------------------------------------------------------------------------
(* Properties.                                                             *)

\* The program's events that are about the object of e.
SameClass(a, b) ==
    \E types \in {LockTypes, AccessTypes, CondVarTypes, ThreadTypes} :
        a \in types /\ b \in types
SameObject(d, e) == SameClass(d.type, e.type) /\ d.target = e.target
Private(e) == \A d \in Range(origin) : SameObject(d, e) => d.tid = e.tid

\* A thread's identifier fits its field in a word.
ThreadsFit == CountNew(UsedThreads) <= ThreadRange

\* A conversion that failed leaves a file with nothing in it.
Readable == file.words # <<>>

HandledFrom(e) == {i \in DOMAIN handled : handled[i].loc = e.loc}

\* From the program to the event handler an event is lost only if its object is
\* used by its thread alone, if no type of the handler's is left for it, if it
\* went through a Java file, which has no condition variables, or if there is no
\* shared lock to handle events for.  The others come once, with their type, and
\* in the program's order.
DropsOnlyPrivate ==
    phase = "done" /\ Readable /\ ThreadsFit =>
        /\ \A e \in Range(origin) : HandledFrom(e) = {} =>
              \/ e.type \in LockTypes \cup AccessTypes /\ Private(e)
              \/ e.type \in UnusedTypes
              \/ e.type \in CondVarTypes /\ viaJava
              \/ e.type \notin LockTypes \cup NotifTypes /\ lockTotal <= 1
        /\ \A i \in DOMAIN handled :
              handled[i].loc # 0 /\ handled[i].type = origin[handled[i].loc].type
        /\ \A i, j \in DOMAIN handled : i < j => handled[i].loc < handled[j].loc

\* The identifiers that the handler gets keep the program's objects apart, and
\* its threads, whether they act or are forked and joined; locks stay paired
\* with their condition variables unless these were printed as text.
RenamingFaithful ==
    ThreadsFit => \A i, j \in DOMAIN handled :
        LET h == handled[i]  d == origin[h.loc]
            k == handled[j]  e == origin[k.loc]
        IN /\ SameClass(d.type, e.type) => ((h.target = k.target) <=> (d.target = e.target))
           /\ (h.tid = k.tid) <=> (d.tid = e.tid)
           /\ d.type \in ThreadTypes => ((h.target = k.tid) <=> (d.target = e.tid))
           /\ (d.type \in LockTypes /\ e.type \in CondVarTypes /\ ~viaText) =>
                 ((h.target = -k.target) <=> (d.target = e.target))

\* Whatever the encodings and the counts of the header did, and though thread
\* identifiers may be cut short, the parser never indexes outside its vectors,
\* nor does it give the handler an identifier outside of its own.
IndicesInRange ==
    /\ \A e \in Range(trace) :
          /\ e.tid < threadTotal
          /\ e.type \in ThreadTypes => e.target \in 0..(threadTotal - 1)
          /\ e.type \in LockTypes => e.target \in DOMAIN locks
          /\ e.type \in CondVarTypes => -e.target \in DOMAIN locks
          /\ e.type \in AccessTypes => e.target \in DOMAIN vars
    /\ \A i \in DOMAIN handled : LET h == handled[i] IN
          /\ h.type \in LockTypes => h.target \in 1..(lockTotal - 1)
          /\ h.type \in CondVarTypes => -h.target \in 1..(lockTotal - 1)
          /\ h.type \in AccessTypes => h.target \in 1..(varTotal - 1)

\* No trace stops the parser: "Calling wait/notify on an object makes the
\* object shared", so that its lock has an identifier in the second pass.
NeverAborts == phase # "aborted"
=============================================================================
