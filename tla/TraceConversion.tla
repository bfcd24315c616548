-------------------------- MODULE TraceConversion --------------------------
(***************************************************************************)
(* conv_trace and StdParser: a trace file goes from text to the binary     *)
(* encoding, to and from the byte order of Java, and back to text.  An     *)
(* action is one run of the tool, which reads a file and writes the next.  *)
(* A line of text is what the parser makes of it: a name is a number (5 is *)
(* thread "T5", -6 what is written "5"; of a lock or variable it is the    *)
(* whole name), a line that ends early or has no known event has type      *)
(* NoType, and one whose location is no number has the location NoNumber.  *)
(***************************************************************************)
EXTENDS BinFormat, SequencesExt

VARIABLE file       \* its encoding, its header if it has one, its lines or words

NoNumber == -1

\* std_event_map: what text calls begin, end and branch is not in it.
StdTypes == {EventNames[i] : i \in DOMAIN EventNames} \ UnusedTypes

-----------------------------------------------------------------------------
(* StdParser.  An identifier map is the sequence of its names, in the      *)
(* order in which they got their identifiers, from zero.                   *)

WithName(map, name) == IF Contains(map, name) THEN map ELSE Append(map, name)
IdOf(map, name) == SelectInSeq(map, LAMBDA n : n = name) - 1

NewParser == [threads |-> <<>>, locks |-> <<>>, vars |-> <<>>,
              lineIndex |-> 0, words |-> <<>>, failed |-> FALSE]

\* A thread's name without its "T", and that of such a name with it.
Respelled(name) == -(name + 1)

\* Mutant: what is forked and joined keeps the name that it is written with.
Unprefixed(line) == line

\* The name of a thread that is forked or joined gets a "T" if it has none; that
\* of the thread that acts is taken as it is.
Prefixed(line) ==
    IF line.type \in ThreadTypes /\ line.target < 0
    THEN [line EXCEPT !.target = Respelled(@)] ELSE line

\* _from_std: the identifiers of the names, first that of the thread; that of
\* a condition variable is the negated one of its lock.
FromStd(p, line) ==
    LET threads == WithName(p.threads, line.tid)
        q == [p EXCEPT
            !.threads = IF line.type \in ThreadTypes THEN WithName(threads, line.target)
                        ELSE threads,
            !.locks = IF line.type \in LockTypes \cup CondVarTypes
                      THEN WithName(@, line.target) ELSE @,
            !.vars = IF line.type \in AccessTypes THEN WithName(@, line.target) ELSE @]
    IN [parser |-> q,
        event |-> [tid |-> IdOf(q.threads, line.tid), type |-> line.type, loc |-> line.loc,
                   target |-> CASE line.type \in ThreadTypes -> IdOf(q.threads, line.target)
                                [] line.type \in LockTypes -> IdOf(q.locks, line.target)
                                [] line.type \in CondVarTypes ->
                                        AssSyncObj(IdOf(q.locks, line.target))
                                [] OTHER -> IdOf(q.vars, line.target)]]

\* get_next_event, and the word that to_bin_fmt keeps of it.  stoi throws for
\* what is no number, and nothing catches it.
NextEvent(p, line) ==
    IF p.failed \/ line.type \notin StdTypes THEN p
    ELSE LET parsed == FromStd(p, Prefixed(line))
         IN [parsed.parser EXCEPT !.failed = line.loc = NoNumber,
                                  !.lineIndex = @ + 1,
                                  !.words = Append(@, EvToBin(parsed.event))]

\* print_metadata.
MetaData(p) ==
    [threads |-> MaskThreadCount(Len(p.threads)), locks |-> Len(p.locks),
     vars |-> Len(p.vars), events |-> p.lineIndex]

-----------------------------------------------------------------------------
(* Files.  A text file has lines and no header.  The words and the header  *)
(* of a Java file are those of a local one with their bytes swapped; the   *)
(* encoding says so, and swapping them is to change it.                    *)

TextFile(lines) == [enc |-> "std", header |-> EmptyHeader, lines |-> lines, words |-> <<>>]
BinFile(enc, header, words) ==
    [enc |-> enc, header |-> header, lines |-> <<>>, words |-> words]

\* The elements of s that are chosen.
Chosen(s, isChosen) ==
    LET upTo[i \in 0..Len(s)] == IF i = 0 THEN <<>>
                                 ELSE IF isChosen[i] THEN Append(upTo[i-1], s[i]) ELSE upTo[i-1]
    IN upTo[Len(s)]

\* fread into a vector of zeroes, of the size that the header gives.
ReadWords(f) ==
    [i \in 1..f.header.events |-> IF i <= Len(f.words) THEN f.words[i] ELSE 0]

\* Mutant: the header still counts the events that were ignored.
WithEventsUncounted(f, enc, words) == BinFile(enc, f.header, words)

\* The header of f, with EVENT_COUNT for the words that are left.
WithEvents(f, enc, words) ==
    BinFile(enc, [f.header EXCEPT !.events = Len(words)], words)

\* to_bin_fmt.  The output was opened before, and stays empty after a throw.
StdToLocal ==
    /\ file.enc = "std"
    /\ LET parsed[i \in 0..Len(file.lines)] ==
               IF i = 0 THEN NewParser ELSE NextEvent(parsed[i-1], file.lines[i])
           p == parsed[Len(file.lines)]
       IN file' = IF p.failed THEN BinFile("local", EmptyHeader, <<>>)
                  ELSE BinFile("local", MetaData(p), p.words)

\* java_to_local_enc: events that are invalid or not used are left out.
JavaToLocal ==
    /\ file.enc = "java"
    /\ LET words == ReadWords(file)
           isChosen == [i \in DOMAIN words |-> ExtractEvType(words[i]) \notin UnusedTypes \cup {NoType}]
       IN file' = WithEvents(file, "local", Chosen(words, isChosen))

\* local_to_java_enc: so are the events that only this program knows.
LocalToJava ==
    /\ file.enc = "local"
    /\ LET words == ReadWords(file)
           isChosen == [i \in DOMAIN words |-> IsSpdType(ExtractEvType(words[i]))]
       IN file' = WithEvents(file, "java", Chosen(words, isChosen))

\* local_to_std_enc prints an identifier as a name.
LocalToStd ==
    /\ file.enc = "local"
    /\ LET words == ReadWords(file)
           events == [i \in DOMAIN words |-> BinToEv(words[i])]
           isChosen == [i \in DOMAIN words |-> events[i].type # NoType]
       IN file' = TextFile(Chosen(events, isChosen))

Convert == StdToLocal \/ JavaToLocal \/ LocalToJava \/ LocalToStd
=============================================================================
