------------------------- MODULE HappensBeforeProofs -------------------------
(***************************************************************************)
(* The event handler beside the log of the trace, for any number of        *)
(* threads and any trace.  First the waits and notifies of the traced      *)
(* program, counted; then the vector clocks, which are the happens-before  *)
(* order if the threads notified of a condition variable go on in the      *)
(* order of their notifies.                                                *)
(***************************************************************************)
EXTENDS EventHandlerProofs, HappensBefore, FiniteSetTheorems

-----------------------------------------------------------------------------
(* The log.                                                                *)

Targets == Vars \cup Resources \cup Threads \cup {0}
LogEntry == [tid : Threads, type : EventTypes, target : Targets, loc : SrcLocs \cup {0},
             locks : SUBSET Locks, alone : BOOLEAN, full : BOOLEAN,
             unnotified : BOOLEAN, unpaid : BOOLEAN, past : SUBSET Nat]

\* The log holds the events handled so far, each with a past before it, and a
\* thread was woken by one of them.
LogInv ==
    /\ log \in Seq(LogEntry)
    /\ Len(log) = pos
    /\ \A p \in Positions : Entry(p).past \subseteq 0..(p - 1)
    /\ \A u \in Threads : wokenBy[u] # NotWoken => wokenBy[u] \in Positions

\* A step of the handler beside its log is a step of the handler.
LEMMA LogStepIsStep == [LogNext]_logVars => [Next]_vars
<1> SUFFICES ASSUME LogNext \/ UNCHANGED logVars
             PROVE  Next \/ UNCHANGED vars
  OBVIOUS
<1>1. CASE UNCHANGED logVars
  BY <1>1 DEF logVars
<1>2. CASE LogNext
  <2>1. LogNext => Next
    BY DEF LogNext, Next
  <2> QED
    BY <1>2, <2>1
<1> QED
  BY <1>1, <1>2

\* A set of positions that is not empty has a latest one.
LEMMA MaxFacts ==
    ASSUME NEW n \in Nat, NEW P, P \subseteq 0..n, P # {}
    PROVE  /\ Max(P) \in P
           /\ \A q \in P : q <= Max(P)
<1> DEFINE T == {n - q : q \in P}
<1>1. T \subseteq Nat /\ T # {}
  <2>1. \A q \in P : n - q \in Nat
    OBVIOUS
  <2> QED
    BY <2>1
<1>2. PICK x \in T : \A y \in T : x <= y
  BY <1>1, LeastNatural
<1>3. PICK p \in P : x = n - p
  BY <1>2
<1>4. \A q \in P : p >= q
  <2> TAKE q \in P
  <2>1. n - p <= n - q
    BY <1>2, <1>3
  <2>2. p \in Int /\ q \in Int
    OBVIOUS
  <2> QED
    BY <2>1, <2>2
<1>5. \E z \in P : \A y \in P : z >= y
  BY <1>4
<1>6. Max(P) \in P /\ \A y \in P : Max(P) >= y
  BY <1>5 DEF Max
<1> QED
  BY <1>6

\* The latest of a set of positions is in it.
LEMMA LatestFacts ==
    ASSUME NEW n \in Nat, NEW P, P \subseteq 0..(n - 1)
    PROVE  /\ Latest(P) \subseteq P
           /\ P # {} => Latest(P) = {Max(P)} /\ Max(P) \in P /\ \A q \in P : q <= Max(P)
<1>1. CASE P = {}
  BY <1>1 DEF Latest
<1>2. CASE P # {}
  <2>1. P \subseteq 0..n
    OBVIOUS
  <2> QED
    BY <1>2, <2>1, MaxFacts DEF Latest
<1> QED
  BY <1>1, <1>2

\* The events right before the next one are in the log.
LEMMA ImmediateFacts ==
    ASSUME LogInv, NEW t \in Threads, NEW type, NEW target
    PROVE  Immediate(t, type, target) \subseteq Positions
<1> DEFINE own(u) == {p \in Positions : Entry(p).tid = u}
           forks(u) == {p \in Positions : Entry(p).type = "FORK" /\ Entry(p).target = u}
           writes == {p \in Positions : Entry(p).type = "WR" /\ Entry(p).target = target}
<1>1. Len(log) \in Nat
  BY LenProperties DEF LogInv
<1>2. \A P \in SUBSET Positions : Latest(P) \subseteq Positions
  BY <1>1, LatestFacts DEF Positions
<1>3. /\ Latest(own(t) \cup forks(t)) \subseteq Positions
      /\ Latest(own(target) \cup forks(target)) \subseteq Positions
      /\ Latest(writes) \subseteq Positions
  BY <1>2
<1>4. {wokenBy[t]} \ {NotWoken} \subseteq Positions
  BY DEF LogInv
<1> QED
  BY <1>3, <1>4 DEF Immediate

\* The entry that Record appends.
NextEntry(t, type, target, loc) ==
    LET now == Immediate(t, type, target)
    IN [tid |-> t, type |-> type, target |-> target, loc |-> loc,
        locks |-> Lockset(t), alone |-> Cardinality(Alive) = 1,
        full |-> Len(recent[t]) = Capacity,
        unnotified |-> type = "REQ" /\ status[t] = "sleeping" /\ wokenBy[t] = NotWoken,
        unpaid |-> type = "REQ" /\ asleep[t] /\ notifQueue[Associated(target)] = <<>>,
        past |-> now \cup UNION {Entry(p).past : p \in now}]

\* What the log is after an event is recorded.
LEMMA RecordFacts ==
    ASSUME LogInv, NEW t, NEW type, NEW target, NEW loc, Record(t, type, target, loc),
           log' \in Seq(LogEntry)
    PROVE  /\ Len(log') = pos + 1 /\ pos \in Nat
           /\ Positions' = Positions \cup {pos} /\ pos \notin Positions
           /\ Positions = 0..(pos - 1)
           /\ \A p \in Positions : Entry(p)' = Entry(p)
           /\ log'[pos + 1] = NextEntry(t, type, target, loc)
<1> DEFINE evt == NextEntry(t, type, target, loc)
<1>1. log' = Append(log, evt)
  BY DEF Record, NextEntry
<1> HIDE DEF evt
<1>2. log \in Seq(LogEntry) /\ Len(log) = pos /\ pos \in Nat
  BY LenProperties DEF LogInv
<1>3. log \in Seq(LogEntry \cup {evt})
  BY <1>2
<1>4. /\ Len(log') = pos + 1
      /\ \A i \in 1..pos : log'[i] = log[i]
      /\ log'[pos + 1] = evt
  BY <1>1, <1>2, <1>3, AppendProperties
<1>5. Positions = 0..(pos - 1) /\ Positions' = 0..pos
  BY <1>2, <1>4 DEF Positions
<1>6. \A p \in Positions : Entry(p)' = Entry(p)
  BY <1>2, <1>4, <1>5 DEF Entry
<1> QED
  BY <1>2, <1>4, <1>5, <1>6 DEF evt

\* Each step of the trace is one event, recorded while time passes.
LEMMA StepRecords ==
    ASSUME TypeOK, LogInv, LogNext
    PROVE  \E t \in Threads, type \in EventTypes, target \in Targets, loc \in SrcLocs \cup {0} :
              /\ Record(t, type, target, loc)
              /\ pos' = pos + 1
              /\ \A u \in Threads : wokenBy'[u] \in {wokenBy[u], pos, NotWoken}
<1> USE DEF Targets, EventTypes, Tick
<1>1. PICK t \in Threads :
        \/ \E x \in Vars : ReadEvent(t, x) /\ Record(t, "RD", x, 0)
        \/ \E x \in Vars : WriteEvent(t, x) /\ Record(t, "WR", x, 0)
        \/ \E c \in CondVars, loc \in SrcLocs :
              WaitEvent(t, c, loc) /\ Record(t, "WAIT", c, loc)
        \/ \E c \in CondVars, all \in BOOLEAN :
              NotifyEvent(t, c, all) /\ Record(t, "NOTIFY", c, 0)
        \/ \E l \in Locks, loc \in SrcLocs :
              RequestEvent(t, l, loc) /\ Record(t, "REQ", l, loc)
        \/ \E l \in Locks : AcquireEvent(t, l) /\ Record(t, "LK", l, 0)
        \/ \E l \in Locks : ReleaseEvent(t, l) /\ Record(t, "UK", l, 0)
        \/ \E u \in Threads : ForkEvent(t, u) /\ Record(t, "FORK", u, 0)
        \/ \E u \in Threads : JoinEvent(t, u) /\ Record(t, "JOIN", u, 0)
        \/ InvalidEvent(t) /\ Record(t, "OTHER", 0, 0)
  BY DEF LogNext
<1>2. /\ \A st, g : Become(t, st, g) =>
            \A u \in Threads : wokenBy'[u] \in {wokenBy[u], pos, NotWoken}
      /\ \A c, all : WakeSleepers(c, all) =>
            \A u \in Threads : wokenBy'[u] \in {wokenBy[u], pos, NotWoken}
  BY DEF TypeOK, Become, WakeSleepers, Sleepers
<1>3. \A x \in Vars : ReadEvent(t, x) \/ WriteEvent(t, x) =>
          pos' = pos + 1 /\ wokenBy' = wokenBy
  BY DEF ReadEvent, WriteEvent, Continue
<1>4. /\ \A l \in Locks : AcquireEvent(t, l) =>
            /\ pos' = pos + 1
            /\ \A u \in Threads : wokenBy'[u] \in {wokenBy[u], pos, NotWoken}
      /\ \A l \in Locks : ReleaseEvent(t, l) => pos' = pos + 1 /\ wokenBy' = wokenBy
  BY <1>2 DEF AcquireEvent, ReleaseEvent, Continue
<1>5. \A l \in Locks, loc \in SrcLocs : RequestEvent(t, l, loc) =>
            /\ pos' = pos + 1
            /\ \A u \in Threads : wokenBy'[u] \in {wokenBy[u], pos, NotWoken}
  BY <1>2 DEF RequestEvent
<1>6. \A c \in CondVars, loc \in SrcLocs : WaitEvent(t, c, loc) =>
            /\ pos' = pos + 1
            /\ \A u \in Threads : wokenBy'[u] \in {wokenBy[u], pos, NotWoken}
  BY <1>2 DEF WaitEvent
<1>7. \A c \in CondVars, all \in BOOLEAN : NotifyEvent(t, c, all) =>
            /\ pos' = pos + 1
            /\ \A u \in Threads : wokenBy'[u] \in {wokenBy[u], pos, NotWoken}
  BY <1>2 DEF NotifyEvent
<1>8. \A u \in Threads : ForkEvent(t, u) \/ JoinEvent(t, u) =>
          pos' = pos + 1 /\ wokenBy' = wokenBy
  BY DEF ForkEvent, JoinEvent
<1>9. InvalidEvent(t) => pos' = pos + 1 /\ wokenBy' = wokenBy
  BY DEF InvalidEvent
<1>10. \A c \in CondVars : c \in Resources
  BY ConstantTypes
<1>11. \A l \in Locks : l \in Resources
  BY ConstantTypes
<1> QED
  BY <1>1, <1>3, <1>4, <1>5, <1>6, <1>7, <1>8, <1>9, <1>10, <1>11

\* The log is empty when the handler is constructed.
LEMMA LogOfInit == LogInit => LogInv
<1> SUFFICES ASSUME LogInit
             PROVE  LogInv
  OBVIOUS
<1>1. log = <<>> /\ pos = 0 /\ \A u \in Threads : wokenBy[u] = NotWoken
  BY DEF LogInit, Init
<1>2. Len(log) = 0
  BY <1>1
<1>3. Positions = {}
  BY <1>2 DEF Positions
<1> QED
  BY <1>1, <1>2, <1>3 DEF LogInv

\* An event that is recorded keeps the log well formed.
LEMMA LogOfStep == TypeOK /\ LogInv /\ [LogNext]_logVars => LogInv'
<1> SUFFICES ASSUME TypeOK, LogInv, [LogNext]_logVars
             PROVE  LogInv'
  OBVIOUS
<1>1. CASE UNCHANGED logVars
  BY <1>1 DEF logVars, vars, programVars, LogInv, Positions, Entry
<1>2. CASE LogNext
  <2>1. PICK t \in Threads, type \in EventTypes, target \in Targets, loc \in SrcLocs \cup {0} :
              /\ Record(t, type, target, loc)
              /\ pos' = pos + 1
              /\ \A u \in Threads : wokenBy'[u] \in {wokenBy[u], pos, NotWoken}
    BY <1>2, StepRecords
  <2> DEFINE now == Immediate(t, type, target)
             past == now \cup UNION {Entry(p).past : p \in now}
             evt == NextEntry(t, type, target, loc)
  <2>2. now \subseteq Positions
    BY ImmediateFacts
  <2>3. Positions = 0..(pos - 1) /\ pos \in Nat
    BY LenProperties DEF LogInv, Positions
  <2>4. past \subseteq 0..(pos - 1)
    <3>1. \A p \in Positions : Entry(p).past \subseteq 0..(pos - 1)
      <4> TAKE p \in Positions
      <4>1. Entry(p).past \subseteq 0..(p - 1)
        BY DEF LogInv
      <4>2. 0..(p - 1) \subseteq 0..(pos - 1)
        BY <2>3
      <4> QED
        BY <4>1, <4>2
    <3> QED
      BY <2>2, <2>3, <3>1
  <2>5. evt \in LogEntry
    <3>1. past \subseteq Nat
      BY <2>3, <2>4
    <3>2. Lockset(t) \subseteq Locks
      BY DEF Lockset
    <3>3. evt.past = past
      BY DEF NextEntry
    <3> HIDE DEF past
    <3> QED
      BY <3>1, <3>2, <3>3 DEF LogEntry, NextEntry
  <2>6. log' = Append(log, evt)
    BY <2>1 DEF Record, NextEntry
  <2>7. log' \in Seq(LogEntry)
    BY <2>5, <2>6, AppendProperties DEF LogInv
  <2>8. /\ Len(log') = pos + 1
        /\ Positions' = Positions \cup {pos}
        /\ \A p \in Positions : Entry(p)' = Entry(p)
        /\ log'[pos + 1] = evt
    BY <2>1, <2>7, RecordFacts
  <2>9. ASSUME NEW p \in Positions'
        PROVE  log'[p + 1].past \subseteq 0..(p - 1)
    <3>1. CASE p \in Positions
      BY <2>8, <3>1 DEF LogInv, Entry
    <3>2. CASE p = pos
      <4>1. evt.past = past
        BY DEF NextEntry
      <4> HIDE DEF evt, past
      <4> QED
        BY <2>4, <2>8, <3>2, <4>1
    <3> QED
      BY <2>8, <3>1, <3>2
  <2>10. \A u \in Threads : wokenBy'[u] # NotWoken => wokenBy'[u] \in Positions'
    BY <2>1, <2>8 DEF LogInv
  <2> HIDE DEF evt
  <2> QED
    BY <2>1, <2>7, <2>8, <2>9, <2>10 DEF LogInv, Entry
<1> QED
  BY <1>1, <1>2

-----------------------------------------------------------------------------
(* The threads that a queue of notifies is meant for.                      *)

\* f holds the sums of the counts of the first notifies of q.
Sums(f, q) ==
    /\ f \in [0..Len(q) -> Int]
    /\ f[0] = 0
    /\ \A i \in 1..Len(q) : f[i] = f[i-1] + q[i].count

\* A queue has such sums.
LEMMA SumsExist ==
    ASSUME NEW q \in Seq(Notification)
    PROVE  \E f : Sums(f, q)
<1> DEFINE n == Len(q)
           Upto(f, k) == /\ f \in [0..k -> Int]
                         /\ f[0] = 0
                         /\ \A i \in 1..k : f[i] = f[i-1] + q[i].count
           G == {k \in 0..n : \E f : Upto(f, k)}
<1>1. n \in Nat /\ \A i \in 1..n : q[i] \in Notification
  BY LenProperties, ElementOfSeq
<1>2. \A i \in 1..n : q[i].count \in Nat
  BY <1>1 DEF Notification
<1> HIDE DEF n
<1>3. 0 \in G
  <2> DEFINE f == [i \in 0..0 |-> 0]
  <2>1. Upto(f, 0)
    OBVIOUS
  <2>2. \E h : Upto(h, 0)
    BY <2>1
  <2>3. 0 \in 0..n
    BY <1>1
  <2> HIDE DEF Upto
  <2> QED
    BY <2>2, <2>3
<1>4. ASSUME NEW k \in 1..n, k - 1 \in G
      PROVE  k \in G
  <2>1. PICK g : Upto(g, k - 1)
    BY <1>4
  <2> DEFINE f == [i \in 0..k |-> IF i = k THEN g[k-1] + q[k].count ELSE g[i]]
  <2>2. k \in Nat /\ k # 0 /\ k \in 0..n /\ k - 1 \in 0..(k-1)
    BY <1>1
  <2>3. g[k-1] + q[k].count \in Int
    BY <1>2, <2>1, <2>2
  <2>4. f \in [0..k -> Int]
    BY <2>1, <2>2, <2>3
  <2>5. f[0] = 0
    BY <2>1, <2>2
  <2>6. \A i \in 1..k : f[i] = f[i-1] + q[i].count
    BY <2>1, <2>2
  <2> HIDE DEF f
  <2> QED
    BY <2>2, <2>4, <2>5, <2>6
<1>5. n \in G
  <2> HIDE DEF G
  <2>1. \A i \in 0..n : i \in G
    BY <1>1, <1>3, <1>4, InductionUpTo
  <2> QED
    BY <1>1, <2>1
<1> QED
  BY <1>5 DEF Sums, n

\* The recursive function in CountIn computes such sums, whatever they are.
LEMMA CountInIsSum ==
    ASSUME NEW q \in Seq(Notification), NEW f, Sums(f, q)
    PROVE  CountIn(q) = f[Len(q)]
<1> DEFINE n == Len(q)
           Rec(g) == [i \in 0..n |-> IF i = 0 THEN 0 ELSE g[i-1] + q[i].count]
           g == CHOOSE h : h = Rec(h)
<1>1. n \in Nat
  BY LenProperties
<1>2. f = Rec(f)
  <2>1. \A i \in 0..n : f[i] = IF i = 0 THEN 0 ELSE f[i-1] + q[i].count
    BY <1>1 DEF Sums
  <2>2. f = [i \in 0..n |-> f[i]]
    BY DEF Sums
  <2> HIDE DEF n
  <2> QED
    BY <2>1, <2>2
<1>3. g = Rec(g)
  BY <1>2
<1>4. CountIn(q) = g[n]
  BY DEF CountIn
<1> HIDE DEF g
<1> DEFINE G == {k \in 0..n : f[k] = g[k]}
<1>5. \A k \in 0..n : g[k] = IF k = 0 THEN 0 ELSE g[k-1] + q[k].count
  BY <1>3
<1> HIDE DEF n, Rec
<1>6. 0 \in G
  BY <1>1, <1>5 DEF Sums
<1>7. ASSUME NEW k \in 1..n, k - 1 \in G
      PROVE  k \in G
  <2>1. k \in 0..n /\ k # 0
    BY <1>1
  <2>2. f[k] = f[k-1] + q[k].count
    BY DEF Sums, n
  <2> QED
    BY <1>5, <1>7, <2>1, <2>2
<1>8. \A k \in 0..n : k \in G
  <2> HIDE DEF G
  <2> QED
    BY <1>1, <1>6, <1>7, InductionUpTo
<1>9. n \in 0..n
  BY <1>1
<1> QED
  BY <1>4, <1>8, <1>9 DEF n

\* The sums of a queue grow with it.
LEMMA CountInNat ==
    ASSUME NEW q \in Seq(Notification)
    PROVE  /\ CountIn(q) \in Nat
           /\ q = <<>> => CountIn(q) = 0
           /\ q # <<>> => CountIn(q) > 0
<1>1. PICK f : Sums(f, q)
  BY SumsExist
<1> DEFINE n == Len(q)
           G == {k \in 0..n : f[k] \in Nat /\ (k > 0 => f[k] > 0)}
<1>2. n \in Nat /\ \A i \in 1..n : q[i] \in Notification
  BY LenProperties, ElementOfSeq
<1>3. \A i \in 1..n : q[i].count \in Nat /\ q[i].count > 0
  BY <1>2 DEF Notification
<1>4. CountIn(q) = f[n]
  BY <1>1, CountInIsSum
<1>5. q = <<>> <=> n = 0
  BY EmptySeq
<1>6. f[0] = 0 /\ \A i \in 1..n : f[i] = f[i-1] + q[i].count
  BY <1>1 DEF Sums
<1> HIDE DEF n
<1>7. 0 \in G
  BY <1>2, <1>6
<1>8. ASSUME NEW k \in 1..n, k - 1 \in G
      PROVE  k \in G
  <2>1. f[k-1] \in Nat /\ k \in 0..n
    BY <1>2, <1>8
  <2>2. f[k] = f[k-1] + q[k].count
    BY <1>6
  <2>3. q[k].count \in Nat /\ q[k].count > 0
    BY <1>3
  <2> QED
    BY <2>1, <2>2, <2>3
<1>9. \A k \in 0..n : k \in G
  <2> HIDE DEF G
  <2> QED
    BY <1>2, <1>7, <1>8, InductionUpTo
<1>10. n \in G
  <2> HIDE DEF G
  <2> QED
    BY <1>2, <1>9
<1> QED
  BY <1>2, <1>4, <1>5, <1>6, <1>10

\* notify_thread: the threads that the new notify is meant for count.
LEMMA CountInAppend ==
    ASSUME NEW q \in Seq(Notification), NEW x \in Notification
    PROVE  CountIn(Append(q, x)) = CountIn(q) + x.count
<1> DEFINE n == Len(q)
           r == Append(q, x)
<1>1. PICK f : Sums(f, q)
  BY SumsExist
<1> DEFINE g == [i \in 0..(n+1) |-> IF i = n + 1 THEN f[n] + x.count ELSE f[i]]
<1>2. n \in Nat /\ x.count \in Int
  BY LenProperties DEF Notification
<1>3. /\ r \in Seq(Notification) /\ Len(r) = n + 1
      /\ \A i \in 1..n : r[i] = q[i]
      /\ r[n + 1] = x
  BY AppendProperties
<1>4. f \in [0..n -> Int] /\ f[0] = 0 /\ \A i \in 1..n : f[i] = f[i-1] + q[i].count
  BY <1>1 DEF Sums
<1>5. CountIn(q) = f[n]
  BY <1>1, CountInIsSum
<1> HIDE DEF n, r
<1>6. Sums(g, r)
  <2>1. g \in [0..(n+1) -> Int]
    BY <1>2, <1>4
  <2>2. g[0] = 0
    BY <1>2, <1>4
  <2>3. \A i \in 1..(n+1) : g[i] = g[i-1] + r[i].count
    <3> TAKE i \in 1..(n+1)
    <3>1. i - 1 \in 0..n /\ i - 1 # n + 1
      BY <1>2
    <3>2. g[i-1] = f[i-1]
      BY <1>2, <3>1
    <3>3. i = n + 1 => g[i] = f[n] + x.count /\ r[i] = x /\ i - 1 = n
      BY <1>2, <1>3
    <3>4. i # n + 1 => i \in 1..n /\ g[i] = f[i] /\ r[i] = q[i]
      BY <1>2, <1>3
    <3> HIDE DEF g
    <3> QED
      BY <1>4, <3>2, <3>3, <3>4
  <2> QED
    BY <1>3, <2>1, <2>2, <2>3 DEF Sums
<1>7. CountIn(r) = g[n + 1]
  BY <1>3, <1>6, CountInIsSum
<1> QED
  BY <1>2, <1>5, <1>7 DEF r

\* wake_thread: one thread less.
LEMMA CountInWake ==
    ASSUME NEW q \in Seq(Notification), q # <<>>
    PROVE  CountIn(WakeThread(q)) = CountIn(q) - 1
<1> DEFINE n == Len(q)
           r == WakeThread(q)
<1>1. PICK f : Sums(f, q)
  BY SumsExist
<1>2. n \in Nat /\ n > 0 /\ Head(q) = q[1] /\ q[1] \in Notification
  BY LenProperties, EmptySeq, ElementOfSeq
<1>3. f \in [0..n -> Int] /\ f[0] = 0 /\ \A i \in 1..n : f[i] = f[i-1] + q[i].count
  BY <1>1 DEF Sums
<1>4. CountIn(q) = f[n]
  BY <1>1, CountInIsSum
<1>5. r \in Seq(Notification)
  BY WakeThreadFacts
<1>6. q[1].count \in Nat
  BY <1>2 DEF Notification
<1>7. CASE q[1].count = 1
  <2> DEFINE g == [i \in 0..(n-1) |-> f[i + 1] - f[1]]
  <2>1. r = Tail(q) /\ Len(r) = n - 1 /\ \A i \in 1..(n-1) : r[i] = q[i+1]
    BY <1>2, <1>7, HeadTailProperties DEF WakeThread
  <2> HIDE DEF n, r
  <2>2. \A i \in 0..(n-1) : i + 1 \in 0..n /\ f[i+1] \in Int
    BY <1>2, <1>3
  <2>3. f[1] = 1
    BY <1>2, <1>3, <1>7
  <2>4. g \in [0..(n-1) -> Int]
    BY <2>2, <2>3
  <2>5. g[0] = 0
    BY <1>2, <2>3
  <2>6. \A i \in 1..(n-1) : g[i] = g[i-1] + r[i].count
    <3> TAKE i \in 1..(n-1)
    <3>1. f[i+1] = f[i] + q[i+1].count /\ f[i] \in Int /\ f[i+1] \in Int
      BY <1>2, <1>3, <2>2
    <3>2. g[i] = f[i+1] - 1 /\ g[i-1] = f[i] - 1
      BY <1>2, <2>3
    <3>3. q[i+1] \in Notification
      BY <1>2, ElementOfSeq DEF n
    <3> QED
      BY <2>1, <3>1, <3>2, <3>3, SMTT(30) DEF Notification
  <2>7. Sums(g, r)
    BY <2>1, <2>4, <2>5, <2>6 DEF Sums
  <2>8. CountIn(r) = g[n-1]
    BY <1>5, <2>1, <2>7, CountInIsSum
  <2>9. g[n-1] = f[n] - 1
    BY <1>2, <2>3
  <2> QED
    BY <1>4, <2>8, <2>9 DEF r
<1>8. CASE q[1].count # 1
  <2> DEFINE left == [q[1] EXCEPT !.count = @ - 1]
             g == [i \in 0..n |-> IF i = 0 THEN 0 ELSE f[i] - 1]
  <2>1. left.count = q[1].count - 1
    BY <1>2 DEF Notification
  <2>2. r = [q EXCEPT ![1] = left]
    BY <1>2, <1>8 DEF WakeThread
  <2>3. left \in Notification
    BY <1>2, <1>6, <1>8 DEF Notification
  <2> HIDE DEF left
  <2>4. Len(r) = n /\ \A i \in 1..n : r[i] = IF i = 1 THEN left ELSE q[i]
    BY <1>2, <2>2, <2>3, ExceptSeq
  <2>5. \A i \in 1..n : q[i].count \in Int
    <3>1. \A i \in 1..n : q[i] \in Notification
      BY ElementOfSeq
    <3> QED
      BY <3>1 DEF Notification
  <2> HIDE DEF n, r
  <2>6. g \in [0..n -> Int]
    BY <1>2, <1>3
  <2>7. \A i \in 1..n : g[i] = g[i-1] + r[i].count
    <3> TAKE i \in 1..n
    <3>1. f[i] = f[i-1] + q[i].count /\ f[i-1] \in Int
      BY <1>2, <1>3
    <3>2. r[i].count = IF i = 1 THEN q[i].count - 1 ELSE q[i].count
      BY <2>1, <2>4
    <3>3. g[i] = f[i] - 1 /\ g[i-1] = IF i = 1 THEN 0 ELSE f[i-1] - 1
      BY <1>2
    <3>4. f[0] = 0 /\ q[i].count \in Int
      BY <1>3, <2>5
    <3> HIDE DEF g
    <3>5. CASE i = 1
      <4>1. g[i] = f[i] - 1 /\ g[i-1] = 0 /\ f[i] = 0 + q[i].count
        BY <3>1, <3>3, <3>4, <3>5
      <4>2. r[i].count = q[i].count - 1
        BY <3>2, <3>5
      <4> QED
        BY <3>4, <4>1, <4>2
    <3>6. CASE i # 1
      <4>1. g[i] = f[i] - 1 /\ g[i-1] = f[i-1] - 1
        BY <3>3, <3>6
      <4>2. r[i].count = q[i].count
        BY <3>2, <3>6
      <4> QED
        BY <3>1, <3>4, <4>1, <4>2
    <3> QED
      BY <3>5, <3>6
  <2>8. g[0] = 0
    BY <1>2
  <2>9. Sums(g, r)
    BY <2>4, <2>6, <2>7, <2>8 DEF Sums
  <2>10. CountIn(r) = g[n]
    BY <1>5, <2>4, <2>9, CountInIsSum
  <2> QED
    BY <1>2, <1>4, <2>10 DEF r
<1> QED
  BY <1>7, <1>8

-----------------------------------------------------------------------------
(* Who sleeps.                                                             *)

\* The handler counts the threads that are alive.  A thread it knows to sleep is
\* not the only one; a thread that sleeps and that it does not know of waited
\* while it was the only one, and nothing has happened since.
SleepInv ==
    /\ IsFiniteSet(Alive)
    /\ aliveCount = Cardinality(Alive)
    /\ \A u \in Threads : asleep[u] => status[u] = "sleeping" /\ \E v \in Alive : v # u
    /\ \A u \in Threads : status[u] = "sleeping" /\ ~asleep[u] => Alive = {u}

\* The test by which most handlers return at once.
LEMMA AloneFacts ==
    ASSUME SleepInv, NEW t \in Alive
    PROVE  Alone <=> Alive = {t}
<1>1. Cardinality(Alive) \in Nat /\ aliveCount = Cardinality(Alive)
  BY FS_CardinalityType DEF SleepInv
<1>2. Cardinality(Alive) # 0
  BY FS_EmptySet DEF SleepInv
<1>3. Cardinality(Alive) = 1 => Alive = {t}
  BY FS_Singleton DEF SleepInv
<1>4. Cardinality({t}) = 1
  BY FS_Singleton
<1> QED
  BY <1>1, <1>2, <1>3, <1>4 DEF Alone

\* What a thread that blocks or goes on does to the others.
LEMMA StatusAfter ==
    ASSUME TypeOK, NEW t \in Threads, NEW st, status[t] \notin {"unborn", "ended"},
           st \notin {"unborn", "ended"}, status' = [status EXCEPT ![t] = st]
    PROVE  /\ Alive' = Alive /\ t \in Alive
           /\ status'[t] = st
           /\ \A u \in Threads : u # t => status'[u] = status[u]
  BY DEF TypeOK, Alive

\* Main is alive at first, and awake.
LEMMA SleepOfInit == Init => SleepInv
<1> SUFFICES ASSUME Init
             PROVE  SleepInv
  OBVIOUS
<1>1. Alive = {Main}
  BY HandlerAssumption DEF Init, Alive
<1>2. IsFiniteSet({Main}) /\ Cardinality({Main}) = 1
  BY FS_Singleton
<1>3. aliveCount = 1
  BY DEF Init
<1>4. \A u \in Threads : ~asleep[u] /\ status[u] # "sleeping"
  BY DEF Init
<1> QED
  BY <1>1, <1>2, <1>3, <1>4 DEF SleepInv

\* The handlers and the program agree on who sleeps, one step per action.
LEMMA SleepOfStep == TypeOK /\ SleepInv /\ [Next]_vars => SleepInv'
<1> SUFFICES ASSUME TypeOK, SleepInv, [Next]_vars
             PROVE  SleepInv'
  OBVIOUS
<1> USE DEF Running
<1>1. ASSUME UNCHANGED <<status, asleep, aliveCount>>
      PROVE  SleepInv'
  <2>1. Alive' = Alive
    BY <1>1 DEF Alive
  <2> QED
    BY <1>1, <2>1 DEF SleepInv
<1>2. ASSUME NEW t \in Threads, NEW x \in Vars, ReadEvent(t, x) \/ WriteEvent(t, x)
      PROVE  SleepInv'
  BY <1>1, <1>2 DEF ReadEvent, WriteEvent, Continue
<1>3. ASSUME NEW t \in Threads, NEW c \in CondVars, NEW loc \in SrcLocs,
             WaitEvent(t, c, loc)
      PROVE  SleepInv'
  <2>1. /\ status[t] = "running" /\ status' = [status EXCEPT ![t] = "sleeping"]
        /\ aliveCount' = aliveCount
        /\ asleep' = IF Alone THEN asleep ELSE [asleep EXCEPT ![t] = TRUE]
    BY <1>3 DEF WaitEvent, Become
  <2>2. /\ Alive' = Alive /\ t \in Alive
        /\ status'[t] = "sleeping"
        /\ \A u \in Threads : u # t => status'[u] = status[u]
    BY <2>1, StatusAfter
  <2>3. Alone <=> Alive = {t}
    BY <2>2, AloneFacts
  <2>4. \A u \in Threads : asleep'[u] = IF u = t THEN ~Alone ELSE asleep[u]
    BY <2>1 DEF TypeOK, SleepInv
  <2>5. ASSUME NEW u \in Threads, asleep'[u]
        PROVE  status'[u] = "sleeping" /\ \E v \in Alive' : v # u
    BY <2>2, <2>3, <2>4, <2>5, ZenonT(40) DEF SleepInv
  <2>6. ASSUME NEW u \in Threads, status'[u] = "sleeping", ~asleep'[u]
        PROVE  Alive' = {u}
    BY <2>2, <2>3, <2>4, <2>6 DEF SleepInv
  <2> QED
    BY <2>1, <2>2, <2>5, <2>6 DEF SleepInv
<1>4. ASSUME NEW t \in Threads, NEW c \in CondVars, NEW all \in BOOLEAN,
             NotifyEvent(t, c, all)
      PROVE  SleepInv'
  BY <1>1, <1>4 DEF NotifyEvent
<1>5. ASSUME NEW t \in Threads, NEW l \in Locks, NEW loc \in SrcLocs,
             RequestEvent(t, l, loc)
      PROVE  SleepInv'
  <2>1. /\ status[t] \in {"running", "sleeping"}
        /\ status' = [status EXCEPT ![t] = "requesting"]
        /\ aliveCount' = aliveCount
        /\ asleep' = IF Alone THEN asleep ELSE [asleep EXCEPT ![t] = FALSE]
    BY <1>5 DEF RequestEvent, Become, MayWake, HandleSleepness
  <2>2. /\ Alive' = Alive /\ t \in Alive
        /\ status'[t] = "requesting"
        /\ \A u \in Threads : u # t => status'[u] = status[u]
    BY <2>1, StatusAfter
  <2>3. Alone <=> Alive = {t}
    BY <2>2, AloneFacts
  <2>4. Alone => ~asleep[t]
    BY <2>3 DEF SleepInv
  <2>5. \A u \in Threads : asleep'[u] <=> u # t /\ asleep[u]
    BY <2>1, <2>4 DEF TypeOK
  <2>6. ASSUME NEW u \in Threads, asleep'[u]
        PROVE  status'[u] = "sleeping" /\ \E v \in Alive' : v # u
    BY <2>2, <2>5, <2>6 DEF SleepInv
  <2>7. ASSUME NEW u \in Threads, status'[u] = "sleeping", ~asleep'[u]
        PROVE  Alive' = {u}
    BY <2>2, <2>5, <2>7 DEF SleepInv
  <2> QED
    BY <2>1, <2>2, <2>6, <2>7 DEF SleepInv
<1>6. ASSUME NEW t \in Threads, NEW l \in Locks, AcquireEvent(t, l)
      PROVE  SleepInv'
  <2>1. /\ status[t] = "requesting" /\ status' = [status EXCEPT ![t] = "running"]
        /\ aliveCount' = aliveCount /\ asleep' = asleep
    BY <1>6 DEF AcquireEvent, Become
  <2>2. /\ Alive' = Alive /\ status'[t] = "running"
        /\ \A u \in Threads : u # t => status'[u] = status[u]
    BY <2>1, StatusAfter
  <2>3. \A u \in Threads : status'[u] = "sleeping" <=> status[u] = "sleeping"
    BY <2>1, <2>2
  <2> QED
    BY <2>1, <2>2, <2>3 DEF SleepInv
<1>7. ASSUME NEW t \in Threads, NEW l \in Locks, ReleaseEvent(t, l)
      PROVE  SleepInv'
  BY <1>1, <1>7 DEF ReleaseEvent, Continue
<1>8. ASSUME NEW t \in Threads, NEW u \in Threads, ForkEvent(t, u)
      PROVE  SleepInv'
  <2>1. /\ status[t] = "running" /\ status[u] = "unborn"
        /\ status' = [status EXCEPT ![u] = "running"]
        /\ aliveCount' = aliveCount + 1 /\ asleep' = asleep
    BY <1>8 DEF ForkEvent
  <2>2. Alive' = Alive \cup {u} /\ u \notin Alive /\ t \in Alive
    BY <2>1 DEF TypeOK, Alive
  <2>3. /\ IsFiniteSet(Alive') /\ Cardinality(Alive') = Cardinality(Alive) + 1
    BY <2>2, FS_AddElement DEF SleepInv
  <2>4. \A v \in Threads : status'[v] = "sleeping" <=> status[v] = "sleeping"
    BY <2>1 DEF TypeOK
  <2>5. \A v \in Threads : ~(status[v] = "sleeping" /\ ~asleep[v])
    BY <2>1, <2>2 DEF SleepInv
  <2> QED
    BY <2>1, <2>2, <2>3, <2>4, <2>5 DEF SleepInv
<1>9. ASSUME NEW t \in Threads, NEW u \in Threads, JoinEvent(t, u)
      PROVE  SleepInv'
  <2>1. /\ status[t] = "running" /\ status[u] = "running" /\ t # u
        /\ status' = [status EXCEPT ![u] = "ended"]
        /\ aliveCount' = aliveCount - 1 /\ asleep' = asleep
    BY <1>9 DEF JoinEvent
  <2>2. Alive' = Alive \ {u} /\ u \in Alive /\ t \in Alive
    BY <2>1 DEF TypeOK, Alive
  <2>3. /\ IsFiniteSet(Alive') /\ Cardinality(Alive') = Cardinality(Alive) - 1
    BY <2>2, FS_RemoveElement DEF SleepInv
  <2>4. \A v \in Threads : status'[v] = "sleeping" <=> status[v] = "sleeping"
    BY <2>1 DEF TypeOK
  <2>5. \A v \in Threads : ~(status[v] = "sleeping" /\ ~asleep[v])
    BY <2>1, <2>2 DEF SleepInv
  <2>6. \A v \in Threads : status[v] = "sleeping" => \E w \in Alive' : w # v
    BY <2>1, <2>2
  <2> QED
    BY <2>1, <2>3, <2>4, <2>5, <2>6 DEF SleepInv
<1>10. ASSUME NEW t \in Threads, InvalidEvent(t)
       PROVE  SleepInv'
  BY <1>1, <1>10 DEF InvalidEvent
<1>11. CASE UNCHANGED vars
  BY <1>1, <1>11 DEF vars, programVars
<1> QED
  BY <1>2, <1>3, <1>4, <1>5, <1>6, <1>7, <1>8, <1>9, <1>10, <1>11 DEF Next

-----------------------------------------------------------------------------
(* Every wait is counted once.                                             *)

SleptOn(c) == {u \in Threads : asleep[u] /\ goal[u] = c}
UnpaidOn(c) == {p \in Positions : Entry(p).unpaid /\ Entry(p).target = Associated(c)}

\* Those who sleep are finitely many, as are the waits that ended unpaid.
LEMMA FiniteCounts ==
    ASSUME LogInv, SleepInv, NEW c
    PROVE  IsFiniteSet(SleptOn(c)) /\ IsFiniteSet(UnpaidOn(c))
<1>1. SleptOn(c) \subseteq Alive
  BY DEF SleepInv, SleptOn, Alive
<1>2. Len(log) - 1 \in Int
  BY LenProperties DEF LogInv
<1>3. IsFiniteSet(Positions)
  BY <1>2, FS_Interval DEF Positions
<1>4. UnpaidOn(c) \subseteq Positions
  BY DEF UnpaidOn
<1>5. IsFiniteSet(Alive)
  BY DEF SleepInv
<1> QED
  BY <1>1, <1>3, <1>4, <1>5, FS_Subset

\* A request that ends a wait while the queue is empty joins the unpaid ones.
LEMMA UnpaidAfter ==
    ASSUME LogInv, LogInv', NEW t, NEW type, NEW target, NEW loc,
           Record(t, type, target, loc), NEW c
    PROVE  LET now == /\ type = "REQ" /\ asleep[t] /\ notifQueue[Associated(target)] = <<>>
                      /\ target = Associated(c)
           IN /\ now => UnpaidOn(c)' = UnpaidOn(c) \cup {pos} /\ pos \notin UnpaidOn(c)
              /\ ~now => UnpaidOn(c)' = UnpaidOn(c)
<1>1. log' \in Seq(LogEntry)
  BY DEF LogInv
<1>2. /\ Positions' = Positions \cup {pos} /\ pos \notin Positions
      /\ \A p \in Positions : Entry(p)' = Entry(p)
  BY <1>1, RecordFacts
<1>3. /\ log'[pos + 1].target = target
      /\ log'[pos + 1].unpaid = (type = "REQ" /\ asleep[t]
                                 /\ notifQueue[Associated(target)] = <<>>)
  <2>1. log'[pos + 1] = NextEntry(t, type, target, loc)
    BY <1>1, RecordFacts
  <2> QED
    BY <2>1 DEF NextEntry
<1>4. UnpaidOn(c)' = {p \in Positions' : Entry(p)'.unpaid /\ Entry(p)'.target = Associated(c)}
  BY DEF UnpaidOn
<1>5. \A p : p = pos => Entry(p)' = log'[pos + 1]
  BY DEF Entry
<1> QED
  BY <1>2, <1>3, <1>4, <1>5 DEF UnpaidOn

\* Locks and their condition variables belong together in pairs.
LEMMA AssociatedFacts ==
    /\ \A l \in Locks : Associated(Associated(l)) = l
    /\ \A c \in CondVars : Associated(c) \in Locks /\ Associated(Associated(c)) = c
<1>1. \A l \in Locks : l \in Int
  BY HandlerAssumption
<1>2. \A l \in Locks : Associated(Associated(l)) = l
  BY <1>1 DEF Associated
<1>3. \A c \in CondVars : \E l \in Locks : c = Associated(l)
  BY DEF CondVars
<1> HIDE DEF Associated
<1> QED
  BY <1>2, <1>3

\* An event that changes neither what the handler knows of waits nor who sleeps,
\* nor ends a wait.
Quiet ==
    /\ UNCHANGED <<asleep, toNotify, notifQueue>>
    /\ \A u \in Threads : asleep[u] => goal'[u] = goal[u] /\ wokenBy'[u] = wokenBy[u]

\* Most handlers are quiet; of waits, notifies and requests, those that come while
\* one thread is alive.
LEMMA QuietEvents ==
    ASSUME TypeOK, SleepInv, NEW t \in Threads
    PROVE  /\ \A x \in Vars : ReadEvent(t, x) \/ WriteEvent(t, x) => Quiet
           /\ \A l \in Locks : AcquireEvent(t, l) \/ ReleaseEvent(t, l) => Quiet
           /\ \A u \in Threads : ForkEvent(t, u) \/ JoinEvent(t, u) => Quiet
           /\ InvalidEvent(t) => Quiet
           /\ \A c \in CondVars, loc \in SrcLocs :
                 WaitEvent(t, c, loc) => ~asleep[t] /\ (Alone => Quiet)
           /\ \A c \in CondVars, all \in BOOLEAN :
                 NotifyEvent(t, c, all) => ~asleep[t] /\ (Alone => Quiet)
           /\ \A l \in Locks, loc \in SrcLocs :
                 RequestEvent(t, l, loc) /\ Alone => Quiet /\ ~asleep[t]
<1>1. \A u \in Threads : asleep[u] => status[u] = "sleeping"
  BY DEF SleepInv
<1>2. status[t] # "sleeping" => ~asleep[t]
  BY <1>1
<1> USE DEF Running, cvVars
<1>3. \A x \in Vars : ReadEvent(t, x) \/ WriteEvent(t, x) => Quiet
  BY <1>2 DEF TypeOK, Quiet, ReadEvent, WriteEvent, Continue
<1>4. \A l \in Locks : AcquireEvent(t, l) => Quiet
  BY <1>2 DEF TypeOK, Quiet, AcquireEvent, Become
<1>5. \A l \in Locks : ReleaseEvent(t, l) => Quiet
  BY <1>2 DEF TypeOK, Quiet, ReleaseEvent, Continue
<1>6. \A u \in Threads : ForkEvent(t, u) => Quiet
  BY <1>2 DEF TypeOK, Quiet, ForkEvent
<1>7. \A u \in Threads : JoinEvent(t, u) => Quiet
  BY <1>1, <1>2 DEF TypeOK, Quiet, JoinEvent
<1>8. InvalidEvent(t) => Quiet
  BY DEF Quiet, InvalidEvent
<1>9. \A c \in CondVars, loc \in SrcLocs :
         WaitEvent(t, c, loc) => ~asleep[t] /\ (Alone => Quiet)
  BY <1>2 DEF TypeOK, Quiet, WaitEvent, Become
<1>10. ASSUME NEW c \in CondVars, NEW all \in BOOLEAN, NotifyEvent(t, c, all)
       PROVE  ~asleep[t] /\ (Alone => Quiet)
  <2>1. ~asleep[t] /\ t \in Alive
    BY <1>2, <1>10 DEF NotifyEvent, Alive
  <2>2. SUFFICES ASSUME Alone
                 PROVE  Quiet
    BY <2>1
  <2>3. \A u \in Threads : ~asleep[u]
    <3>1. Alive = {t}
      BY <2>1, <2>2, AloneFacts
    <3>2. \A u \in Threads : asleep[u] => u \in Alive
      BY <1>1 DEF Alive
    <3> QED
      BY <2>1, <3>1, <3>2
  <2> QED
    BY <1>10, <2>2, <2>3 DEF Quiet, NotifyEvent
<1>11. ASSUME NEW l \in Locks, NEW loc \in SrcLocs, RequestEvent(t, l, loc), Alone
       PROVE  Quiet /\ ~asleep[t]
  <2>1. t \in Alive
    BY <1>11 DEF RequestEvent, MayWake, Alive
  <2>2. ~asleep[t]
    BY <1>11, <2>1, AloneFacts DEF SleepInv
  <2> QED
    BY <1>11, <2>2 DEF TypeOK, Quiet, RequestEvent, Become
<1> QED
  BY <1>3, <1>4, <1>5, <1>6, <1>7, <1>8, <1>9, <1>10, <1>11

\* What a wait changes of what is counted.
LEMMA WaitCounts ==
    ASSUME TypeOK, SleepInv, NEW t \in Threads, NEW c \in CondVars, NEW loc \in SrcLocs,
           WaitEvent(t, c, loc), ~Alone
    PROVE  /\ notifQueue' = notifQueue
           /\ \A d \in CondVars : toNotify'[d] = toNotify[d] + (IF d = c THEN 1 ELSE 0)
           /\ \A d \in CondVars : SleptOn(d)' = SleptOn(d) \cup (IF d = c THEN {t} ELSE {})
           /\ \A d \in CondVars : t \notin SleptOn(d)
           /\ \A u \in Threads : wokenBy'[u] = IF u = t THEN NotWoken ELSE wokenBy[u]
<1>1. /\ notifQueue' = notifQueue
      /\ toNotify' = [toNotify EXCEPT ![c] = @ + 1]
      /\ asleep' = [asleep EXCEPT ![t] = TRUE]
      /\ goal' = [goal EXCEPT ![t] = c]
      /\ wokenBy' = [wokenBy EXCEPT ![t] = NotWoken]
  BY DEF WaitEvent, Become
<1>2. ~asleep[t]
  BY QuietEvents
<1>3. \A d \in CondVars : toNotify'[d] = toNotify[d] + (IF d = c THEN 1 ELSE 0)
  BY <1>1 DEF TypeOK
<1>4. \A u \in Threads : /\ asleep'[u] <=> asleep[u] \/ u = t
                         /\ goal'[u] = IF u = t THEN c ELSE goal[u]
                         /\ wokenBy'[u] = IF u = t THEN NotWoken ELSE wokenBy[u]
  BY <1>1 DEF TypeOK
<1>5. \A d \in CondVars : SleptOn(d)' = {u \in Threads : asleep'[u] /\ goal'[u] = d}
  BY DEF SleptOn
<1>6. \A d \in CondVars : SleptOn(d)' = SleptOn(d) \cup (IF d = c THEN {t} ELSE {})
  BY <1>2, <1>4, <1>5 DEF SleptOn
<1> QED
  BY <1>1, <1>2, <1>3, <1>4, <1>6 DEF SleptOn

\* What a notify changes of what is counted.
LEMMA NotifyCounts ==
    ASSUME TypeOK, SleepInv, NEW t \in Threads, NEW c \in CondVars, NEW all \in BOOLEAN,
           NotifyEvent(t, c, all), ~Alone
    PROVE  LET n == IF all THEN toNotify[c] ELSE 1
           IN /\ \A d \in CondVars : SleptOn(d)' = SleptOn(d)
              /\ \A d \in CondVars : d # c \/ toNotify[c] = 0 =>
                    toNotify'[d] = toNotify[d] /\ notifQueue'[d] = notifQueue[d]
              /\ toNotify[c] # 0 =>
                    /\ toNotify'[c] = toNotify[c] - n
                    /\ notifQueue'[c] = Append(notifQueue[c], [vc |-> clock[t], count |-> n])
                    /\ [vc |-> clock[t], count |-> n] \in Notification
<1> DEFINE n == IF all THEN toNotify[c] ELSE 1
<1>1. /\ NotifyThread(c, clock[t], all)
      /\ asleep' = asleep
      /\ goal' = [goal EXCEPT ![t] = NoGoal]
  BY DEF NotifyEvent
<1>2. ~asleep[t]
  BY QuietEvents
<1>3. \A u \in Threads : asleep[u] => goal'[u] = goal[u]
  BY <1>1, <1>2 DEF TypeOK
<1>4. \A d \in CondVars : SleptOn(d)' = {u \in Threads : asleep'[u] /\ goal'[u] = d}
  BY DEF SleptOn
<1>5. \A d \in CondVars : SleptOn(d)' = SleptOn(d)
  BY <1>1, <1>3, <1>4 DEF SleptOn
<1>6. toNotify \in [CondVars -> Nat] /\ notifQueue \in [CondVars -> Seq(Notification)]
  BY DEF TypeOK
<1>7. CASE toNotify[c] = 0
  BY <1>1, <1>5, <1>7 DEF NotifyThread, cvVars
<1>8. CASE toNotify[c] # 0
  <2>1. /\ notifQueue' = [notifQueue EXCEPT ![c] = Append(@, [vc |-> clock[t], count |-> n])]
        /\ toNotify' = [toNotify EXCEPT ![c] = @ - n]
    BY <1>1, <1>8 DEF NotifyThread
  <2>2. n \in Nat \ {0} /\ clock[t] \in Clock
    BY <1>6, <1>8 DEF TypeOK
  <2>3. [vc |-> clock[t], count |-> n] \in Notification
    BY <2>2 DEF Notification
  <2> HIDE DEF n
  <2>4. /\ \A d \in CondVars : d # c =>
              toNotify'[d] = toNotify[d] /\ notifQueue'[d] = notifQueue[d]
        /\ toNotify'[c] = toNotify[c] - n
        /\ notifQueue'[c] = Append(notifQueue[c], [vc |-> clock[t], count |-> n])
    BY <1>6, <2>1
  <2> QED
    BY <1>5, <1>8, <2>3, <2>4 DEF n
<1> QED
  BY <1>7, <1>8

\* What a request changes of what is counted.
LEMMA RequestCounts ==
    ASSUME TypeOK, SleepInv, NEW t \in Threads, NEW l \in Locks, NEW loc \in SrcLocs,
           RequestEvent(t, l, loc), ~Alone
    PROVE  LET c == Associated(l)
           IN /\ toNotify' = toNotify
              /\ \A d \in CondVars : SleptOn(d)' = SleptOn(d) \ {t}
              /\ \A d \in CondVars : t \in SleptOn(d) <=> asleep[t] /\ d = c
              /\ \A d \in CondVars : notifQueue'[d] =
                    IF asleep[t] /\ d = c THEN WakeThread(notifQueue[d]) ELSE notifQueue[d]
              /\ \A u \in Threads : wokenBy'[u] = IF u = t THEN NotWoken ELSE wokenBy[u]
<1> DEFINE c == Associated(l)
<1>1. /\ Become(t, "requesting", l)
      /\ HandleSleepness(t, c)
      /\ status[t] = "running" \/ MayWake(t, l)
  BY DEF RequestEvent
<1>2. c \in CondVars
  BY ConstantTypes
<1>3. asleep[t] => goal[t] = c
  BY <1>1 DEF SleepInv, MayWake
<1>4. \A u \in Threads : /\ asleep'[u] <=> asleep[u] /\ u # t
                         /\ u # t => goal'[u] = goal[u]
                         /\ wokenBy'[u] = IF u = t THEN NotWoken ELSE wokenBy[u]
  BY <1>1 DEF TypeOK, HandleSleepness, Become
<1>5. \A d \in CondVars : SleptOn(d)' = {u \in Threads : asleep'[u] /\ goal'[u] = d}
  BY DEF SleptOn
<1>6. \A d \in CondVars : SleptOn(d)' = SleptOn(d) \ {t}
  BY <1>4, <1>5 DEF SleptOn
<1>7. \A d \in CondVars : t \in SleptOn(d) <=> asleep[t] /\ d = c
  BY <1>2, <1>3 DEF SleptOn
<1>8. /\ toNotify' = toNotify
      /\ \A d \in CondVars : notifQueue'[d] =
            IF asleep[t] /\ d = c THEN WakeThread(notifQueue[d]) ELSE notifQueue[d]
  BY <1>1, <1>2 DEF TypeOK, HandleSleepness
<1> QED
  BY <1>4, <1>6, <1>7, <1>8

\* A quiet event that ends no wait counts nobody.
LEMMA CountedWhenQuiet ==
    ASSUME LogInv, LogInv', EveryWaitCountedOnce, Quiet, NEW t, NEW type, NEW target, NEW loc,
           Record(t, type, target, loc), type # "REQ" \/ ~asleep[t]
    PROVE  EveryWaitCountedOnce'
<1> SUFFICES ASSUME NEW c \in CondVars
             PROVE  (toNotify[c] + CountIn(notifQueue[c])
                       = Cardinality(SleptOn(c)) + Cardinality(UnpaidOn(c)))'
  BY DEF EveryWaitCountedOnce, SleptOn, UnpaidOn
<1>1. UnpaidOn(c)' = UnpaidOn(c)
  BY UnpaidAfter
<1>2. SleptOn(c)' = SleptOn(c)
  <2>1. SleptOn(c)' = {u \in Threads : asleep'[u] /\ goal'[u] = c}
    BY DEF SleptOn
  <2> QED
    BY <2>1 DEF Quiet, SleptOn
<1>3. toNotify[c] + CountIn(notifQueue[c])
         = Cardinality(SleptOn(c)) + Cardinality(UnpaidOn(c))
  BY DEF EveryWaitCountedOnce, SleptOn, UnpaidOn
<1>4. toNotify'[c] = toNotify[c] /\ notifQueue'[c] = notifQueue[c]
  BY DEF Quiet
<1>5. CountIn(notifQueue[c])' = CountIn(notifQueue'[c])
  OBVIOUS
<1> QED
  BY <1>1, <1>2, <1>3, <1>4

\* A wait is counted with those yet to be notified, as it falls asleep.
LEMMA CountedByWait ==
    ASSUME TypeOK, LogInv, LogInv', SleepInv, EveryWaitCountedOnce, NEW t \in Threads,
           NEW c \in CondVars, NEW loc \in SrcLocs, WaitEvent(t, c, loc), ~Alone,
           Record(t, "WAIT", c, loc)
    PROVE  EveryWaitCountedOnce'
<1> SUFFICES ASSUME NEW d \in CondVars
             PROVE  (toNotify[d] + CountIn(notifQueue[d])
                       = Cardinality(SleptOn(d)) + Cardinality(UnpaidOn(d)))'
  BY DEF EveryWaitCountedOnce, SleptOn, UnpaidOn
<1>1. UnpaidOn(d)' = UnpaidOn(d)
  BY UnpaidAfter
<1>2. /\ toNotify'[d] = toNotify[d] + (IF d = c THEN 1 ELSE 0)
      /\ notifQueue' = notifQueue
      /\ SleptOn(d)' = SleptOn(d) \cup (IF d = c THEN {t} ELSE {})
      /\ t \notin SleptOn(d)
  BY WaitCounts
<1>3. toNotify[d] + CountIn(notifQueue[d])
         = Cardinality(SleptOn(d)) + Cardinality(UnpaidOn(d))
  BY DEF EveryWaitCountedOnce, SleptOn, UnpaidOn
<1>4. IsFiniteSet(SleptOn(d)) /\ Cardinality(SleptOn(d)) \in Nat
      /\ Cardinality(UnpaidOn(d)) \in Nat
  BY FiniteCounts, FS_CardinalityType
<1>5. Cardinality(SleptOn(d)') = Cardinality(SleptOn(d)) + (IF d = c THEN 1 ELSE 0)
  <2>1. Cardinality(SleptOn(d) \cup {t}) = Cardinality(SleptOn(d)) + 1
    BY <1>2, <1>4, FS_AddElement
  <2>2. CASE d = c
    <3>1. SleptOn(d)' = SleptOn(d) \cup {t}
      BY <1>2, <2>2
    <3> QED
      BY <2>1, <2>2, <3>1
  <2>3. CASE d # c
    <3>1. SleptOn(d)' = SleptOn(d)
      BY <1>2, <2>3
    <3> QED
      BY <1>4, <2>3, <3>1
  <2> QED
    BY <2>2, <2>3
<1>6. toNotify[d] \in Nat /\ CountIn(notifQueue[d]) \in Nat
  BY CountInNat DEF TypeOK
<1>7. toNotify'[d] + CountIn(notifQueue'[d])
         = Cardinality(SleptOn(d)') + Cardinality(UnpaidOn(d)')
  BY <1>1, <1>2, <1>3, <1>4, <1>5, <1>6
<1> QED
  BY <1>7

\* A notify moves threads from the counter to the queue.
LEMMA CountedByNotify ==
    ASSUME TypeOK, LogInv, LogInv', SleepInv, EveryWaitCountedOnce, NEW t \in Threads,
           NEW c \in CondVars, NEW all \in BOOLEAN, NotifyEvent(t, c, all), ~Alone,
           Record(t, "NOTIFY", c, 0)
    PROVE  EveryWaitCountedOnce'
<1> SUFFICES ASSUME NEW d \in CondVars
             PROVE  (toNotify[d] + CountIn(notifQueue[d])
                       = Cardinality(SleptOn(d)) + Cardinality(UnpaidOn(d)))'
  BY DEF EveryWaitCountedOnce, SleptOn, UnpaidOn
<1> DEFINE n == IF all THEN toNotify[c] ELSE 1
           notif == [vc |-> clock[t], count |-> n]
<1>1. UnpaidOn(d)' = UnpaidOn(d) /\ SleptOn(d)' = SleptOn(d)
  <2>1. UnpaidOn(d)' = UnpaidOn(d)
    BY UnpaidAfter
  <2>2. SleptOn(d)' = SleptOn(d)
    BY NotifyCounts
  <2> QED
    BY <2>1, <2>2
<1>2. toNotify[d] + CountIn(notifQueue[d])
         = Cardinality(SleptOn(d)) + Cardinality(UnpaidOn(d))
  BY DEF EveryWaitCountedOnce, SleptOn, UnpaidOn
<1>3. /\ toNotify[c] \in Nat /\ toNotify[d] \in Nat
      /\ notifQueue[d] \in Seq(Notification) /\ CountIn(notifQueue[d]) \in Nat
  BY CountInNat DEF TypeOK
<1>4. CASE d # c \/ toNotify[c] = 0
  <2>1. toNotify'[d] = toNotify[d] /\ notifQueue'[d] = notifQueue[d]
    BY <1>4, NotifyCounts
  <2>2. toNotify'[d] + CountIn(notifQueue'[d])
           = Cardinality(SleptOn(d)') + Cardinality(UnpaidOn(d)')
    BY <1>1, <1>2, <2>1
  <2> QED
    BY <2>2
<1>5. CASE d = c /\ toNotify[c] # 0
  <2>1. /\ toNotify'[c] = toNotify[c] - n
        /\ notifQueue'[c] = Append(notifQueue[c], notif)
        /\ notif \in Notification
    BY <1>5, NotifyCounts
  <2>2. CountIn(Append(notifQueue[d], notif)) = CountIn(notifQueue[d]) + notif.count
    BY <1>3, <2>1, CountInAppend
  <2>3. notif.count = n /\ n \in Nat
    BY <1>3
  <2> HIDE DEF n, notif
  <2>4. toNotify'[d] + CountIn(notifQueue'[d]) = toNotify[d] + CountIn(notifQueue[d])
    BY <1>3, <1>5, <2>1, <2>2, <2>3
  <2>5. toNotify'[d] + CountIn(notifQueue'[d])
           = Cardinality(SleptOn(d)') + Cardinality(UnpaidOn(d)')
    BY <1>1, <1>2, <2>4
  <2> QED
    BY <2>5
<1> QED
  BY <1>4, <1>5

\* A request that ends a wait takes its thread from the queue, or stays unpaid.
LEMMA CountedByRequest ==
    ASSUME TypeOK, LogInv, LogInv', SleepInv, EveryWaitCountedOnce, NEW t \in Threads,
           NEW l \in Locks, NEW loc \in SrcLocs, RequestEvent(t, l, loc), ~Alone,
           Record(t, "REQ", l, loc)
    PROVE  EveryWaitCountedOnce'
<1> SUFFICES ASSUME NEW d \in CondVars
             PROVE  (toNotify[d] + CountIn(notifQueue[d])
                       = Cardinality(SleptOn(d)) + Cardinality(UnpaidOn(d)))'
  BY DEF EveryWaitCountedOnce, SleptOn, UnpaidOn
<1> DEFINE c == Associated(l)
           q == notifQueue[d]
           left == asleep[t] /\ d = c
<1>1. /\ toNotify'[d] = toNotify[d]
      /\ SleptOn(d)' = SleptOn(d) \ {t}
      /\ t \in SleptOn(d) <=> left
      /\ notifQueue'[d] = IF left THEN WakeThread(q) ELSE q
  BY RequestCounts
<1>2. l = Associated(d) <=> d = c
  BY AssociatedFacts
<1>3. /\ left /\ q = <<>> => UnpaidOn(d)' = UnpaidOn(d) \cup {pos} /\ pos \notin UnpaidOn(d)
      /\ ~(left /\ q = <<>>) => UnpaidOn(d)' = UnpaidOn(d)
  BY <1>2, UnpaidAfter
<1>4. toNotify[d] + CountIn(q) = Cardinality(SleptOn(d)) + Cardinality(UnpaidOn(d))
  BY DEF EveryWaitCountedOnce, SleptOn, UnpaidOn
<1>5. /\ IsFiniteSet(SleptOn(d)) /\ Cardinality(SleptOn(d)) \in Nat
      /\ IsFiniteSet(UnpaidOn(d)) /\ Cardinality(UnpaidOn(d)) \in Nat
  BY FiniteCounts, FS_CardinalityType
<1>6. Cardinality(SleptOn(d)') = Cardinality(SleptOn(d)) - (IF left THEN 1 ELSE 0)
  <2>1. Cardinality(SleptOn(d) \ {t})
           = IF t \in SleptOn(d) THEN Cardinality(SleptOn(d)) - 1
                                 ELSE Cardinality(SleptOn(d))
    BY <1>5, FS_RemoveElement
  <2> HIDE DEF left
  <2> QED
    BY <1>1, <1>5, <2>1
<1>7. Cardinality(UnpaidOn(d)')
         = Cardinality(UnpaidOn(d)) + (IF left /\ q = <<>> THEN 1 ELSE 0)
  BY <1>3, <1>5, FS_AddElement
<1>8. toNotify[d] \in Nat /\ q \in Seq(Notification) /\ CountIn(q) \in Nat
  BY CountInNat DEF TypeOK
<1>9. CountIn(notifQueue'[d]) = CountIn(q) - (IF left /\ q # <<>> THEN 1 ELSE 0)
  BY <1>1, <1>8, CountInWake DEF WakeThread
<1> HIDE DEF left, q
<1>10. toNotify'[d] + CountIn(notifQueue'[d])
          = Cardinality(SleptOn(d)') + Cardinality(UnpaidOn(d)')
  BY <1>1, <1>4, <1>5, <1>6, <1>7, <1>8, <1>9
<1> QED
  BY <1>10

\* Every event keeps the count of the waits.
LEMMA CountedOfStep ==
    TypeOK /\ SleepInv /\ LogInv /\ LogInv' /\ EveryWaitCountedOnce /\ [LogNext]_logVars
       => EveryWaitCountedOnce'
<1> SUFFICES ASSUME TypeOK, SleepInv, LogInv, LogInv', EveryWaitCountedOnce,
                    [LogNext]_logVars
             PROVE  EveryWaitCountedOnce'
  OBVIOUS
<1>1. CASE UNCHANGED logVars
  BY <1>1 DEF logVars, vars, cvVars, programVars, EveryWaitCountedOnce, Positions, Entry
<1>2. CASE LogNext
  <2>1. ASSUME NEW t \in Threads, NEW type, type # "REQ", NEW target, NEW loc, Quiet,
               Record(t, type, target, loc)
        PROVE  EveryWaitCountedOnce'
    BY <2>1, CountedWhenQuiet
  <2>2. ASSUME NEW t \in Threads, NEW x \in Vars
        PROVE  /\ ReadEvent(t, x) /\ Record(t, "RD", x, 0) => EveryWaitCountedOnce'
               /\ WriteEvent(t, x) /\ Record(t, "WR", x, 0) => EveryWaitCountedOnce'
    BY <2>1, QuietEvents
  <2>3. ASSUME NEW t \in Threads, NEW l \in Locks
        PROVE  /\ AcquireEvent(t, l) /\ Record(t, "LK", l, 0) => EveryWaitCountedOnce'
               /\ ReleaseEvent(t, l) /\ Record(t, "UK", l, 0) => EveryWaitCountedOnce'
    BY <2>1, QuietEvents
  <2>4. ASSUME NEW t \in Threads, NEW u \in Threads
        PROVE  /\ ForkEvent(t, u) /\ Record(t, "FORK", u, 0) => EveryWaitCountedOnce'
               /\ JoinEvent(t, u) /\ Record(t, "JOIN", u, 0) => EveryWaitCountedOnce'
    BY <2>1, QuietEvents
  <2>5. ASSUME NEW t \in Threads, InvalidEvent(t), Record(t, "OTHER", 0, 0)
        PROVE  EveryWaitCountedOnce'
    BY <2>1, <2>5, QuietEvents
  <2>6. ASSUME NEW t \in Threads, NEW c \in CondVars, NEW loc \in SrcLocs,
               WaitEvent(t, c, loc), Record(t, "WAIT", c, loc)
        PROVE  EveryWaitCountedOnce'
    BY <2>1, <2>6, QuietEvents, CountedByWait
  <2>7. ASSUME NEW t \in Threads, NEW c \in CondVars, NEW all \in BOOLEAN,
               NotifyEvent(t, c, all), Record(t, "NOTIFY", c, 0)
        PROVE  EveryWaitCountedOnce'
    BY <2>1, <2>7, QuietEvents, CountedByNotify
  <2>8. ASSUME NEW t \in Threads, NEW l \in Locks, NEW loc \in SrcLocs,
               RequestEvent(t, l, loc), Record(t, "REQ", l, loc)
        PROVE  EveryWaitCountedOnce'
    <3>1. CASE Alone
      BY <2>8, <3>1, QuietEvents, CountedWhenQuiet
    <3>2. CASE ~Alone
      BY <2>8, <3>2, CountedByRequest
    <3> QED
      BY <3>1, <3>2
  <2> QED
    BY <1>2, <2>2, <2>3, <2>4, <2>5, <2>6, <2>7, <2>8 DEF LogNext
<1> QED
  BY <1>1, <1>2

\* Nobody sleeps at first and nobody is counted.
LEMMA CountedOfInit == LogInit => EveryWaitCountedOnce
<1> SUFFICES ASSUME LogInit, NEW c \in CondVars
             PROVE  toNotify[c] + CountIn(notifQueue[c])
                       = Cardinality(SleptOn(c)) + Cardinality(UnpaidOn(c))
  BY DEF EveryWaitCountedOnce, SleptOn, UnpaidOn
<1>1. toNotify[c] = 0 /\ notifQueue[c] = <<>> /\ log = <<>>
  BY DEF LogInit, Init
<1>2. SleptOn(c) = {} /\ UnpaidOn(c) = {}
  <2>1. Len(log) = 0
    BY <1>1
  <2>2. Positions = {}
    BY <2>1 DEF Positions
  <2> QED
    BY <2>2 DEF LogInit, Init, SleptOn, UnpaidOn
<1>3. <<>> \in Seq(Notification)
  OBVIOUS
<1>4. CountIn(<<>>) = 0
  BY <1>3, CountInNat
<1> QED
  BY <1>1, <1>2, <1>4, FS_EmptySet

\* Whatever the threads do, those the counters and queues know of are the ones that
\* sleep and the ones that woke up and found no notify: no wait is counted twice or
\* forgotten by handle_sleepness, wait_event and notify_thread.
THEOREM WaitsCountedOnce == LogSpec => []EveryWaitCountedOnce
<1> DEFINE Inv == TypeOK /\ SleepInv /\ LogInv /\ EveryWaitCountedOnce
<1>1. LogInit => Inv
  BY TypeOfInit, SleepOfInit, LogOfInit, CountedOfInit DEF LogInit
<1>2. Inv /\ [LogNext]_logVars => Inv'
  BY LogStepIsStep, TypeOfStep, SleepOfStep, LogOfStep, CountedOfStep
<1> QED
  BY <1>1, <1>2, PTL DEF LogSpec

-----------------------------------------------------------------------------
(* Counters and queue match those who sleep, while waits end with a notify. *)

Unwoken(c) == {u \in SleptOn(c) : wokenBy[u] = NotWoken}
Woken(c) == {u \in SleptOn(c) : wokenBy[u] # NotWoken}

Matched(c) ==
    /\ toNotify[c] = Cardinality(Unwoken(c))
    /\ CountIn(notifQueue[c]) = Cardinality(Woken(c))

\* If all waits ended with a notify after an event, so did they before it, and it
\* did not end one without.
LEMMA AllNotifiedBefore ==
    ASSUME LogInv, LogInv', NEW t, NEW type, NEW target, NEW loc,
           Record(t, type, target, loc), AllNotified'
    PROVE  /\ AllNotified
           /\ ~(type = "REQ" /\ status[t] = "sleeping" /\ wokenBy[t] = NotWoken)
<1>1. log' \in Seq(LogEntry)
  BY DEF LogInv
<1>2. /\ Positions' = Positions \cup {pos}
      /\ \A p \in Positions : Entry(p)' = Entry(p)
      /\ log'[pos + 1] = NextEntry(t, type, target, loc)
  BY <1>1, RecordFacts
<1>3. \A p \in Positions' : ~log'[p + 1].unnotified
  BY DEF AllNotified, Entry
<1>4. AllNotified
  BY <1>2, <1>3 DEF AllNotified, Entry
<1>5. ~NextEntry(t, type, target, loc).unnotified
  BY <1>2, <1>3
<1> QED
  BY <1>4, <1>5 DEF NextEntry

\* The type of the queues says the rest.
LEMMA MatchedImplies ==
    ASSUME TypeOK, \A c \in CondVars : Matched(c)
    PROVE  NotifiesMatchSleepers
<1> SUFFICES ASSUME NEW c \in CondVars, NEW n \in Elements(notifQueue[c])
             PROVE  n.count > 0
  BY DEF NotifiesMatchSleepers, Matched, Unwoken, Woken, SleptOn
<1>1. notifQueue[c] \in Seq(Notification)
  BY DEF TypeOK
<1>2. n \in Notification
  BY <1>1, ElementOfSeq, LenProperties DEF Elements
<1> QED
  BY <1>2 DEF Notification

\* Those who sleep, woken or not, are finitely many.
LEMMA FiniteWoken ==
    ASSUME LogInv, SleepInv, NEW c
    PROVE  /\ IsFiniteSet(Unwoken(c)) /\ IsFiniteSet(Woken(c))
           /\ Cardinality(Unwoken(c)) \in Nat /\ Cardinality(Woken(c)) \in Nat
<1>1. Unwoken(c) \subseteq SleptOn(c) /\ Woken(c) \subseteq SleptOn(c)
  BY DEF Unwoken, Woken
<1>2. IsFiniteSet(SleptOn(c))
  BY FiniteCounts
<1> QED
  BY <1>1, <1>2, FS_Subset, FS_CardinalityType

\* A quiet event changes no count.
LEMMA MatchedWhenQuiet ==
    ASSUME Quiet, NEW c \in CondVars, Matched(c)
    PROVE  Matched(c)'
<1>1. /\ Unwoken(c)' = {u \in Threads : asleep'[u] /\ goal'[u] = c /\ wokenBy'[u] = NotWoken}
      /\ Woken(c)' = {u \in Threads : asleep'[u] /\ goal'[u] = c /\ wokenBy'[u] # NotWoken}
  BY DEF Unwoken, Woken, SleptOn
<1>2. Unwoken(c)' = Unwoken(c) /\ Woken(c)' = Woken(c)
  BY <1>1 DEF Quiet, Unwoken, Woken, SleptOn
<1>3. toNotify'[c] = toNotify[c] /\ notifQueue'[c] = notifQueue[c]
  BY DEF Quiet
<1> QED
  BY <1>2, <1>3 DEF Matched

\* A wait adds a thread that is yet to be notified.
LEMMA MatchedByWait ==
    ASSUME TypeOK, LogInv, SleepInv, NEW t \in Threads, NEW c \in CondVars,
           NEW loc \in SrcLocs, WaitEvent(t, c, loc), ~Alone, NEW d \in CondVars, Matched(d)
    PROVE  Matched(d)'
<1>1. /\ toNotify'[d] = toNotify[d] + (IF d = c THEN 1 ELSE 0)
      /\ notifQueue' = notifQueue
      /\ SleptOn(d)' = SleptOn(d) \cup (IF d = c THEN {t} ELSE {})
      /\ t \notin SleptOn(d)
      /\ \A u \in Threads : wokenBy'[u] = IF u = t THEN NotWoken ELSE wokenBy[u]
  BY WaitCounts
<1>2. /\ Unwoken(d)' = {u \in SleptOn(d)' : wokenBy'[u] = NotWoken}
      /\ Woken(d)' = {u \in SleptOn(d)' : wokenBy'[u] # NotWoken}
      /\ SleptOn(d) \subseteq Threads
  BY DEF Unwoken, Woken, SleptOn
<1>3. Woken(d)' = Woken(d)
  BY <1>1, <1>2 DEF Woken
<1>4. t \notin Unwoken(d) /\ IsFiniteSet(Unwoken(d))
  BY <1>1, FiniteWoken DEF Unwoken
<1>5. CASE d = c
  <2>1. Unwoken(d)' = Unwoken(d) \cup {t}
    BY <1>1, <1>2, <1>5 DEF Unwoken
  <2>2. Cardinality(Unwoken(d)') = Cardinality(Unwoken(d)) + 1
    BY <1>4, <2>1, FS_AddElement
  <2> QED
    BY <1>1, <1>3, <1>5, <2>2 DEF Matched
<1>6. CASE d # c
  <2>1. Unwoken(d)' = Unwoken(d)
    BY <1>1, <1>2, <1>6 DEF Unwoken
  <2>2. toNotify'[d] = toNotify[d]
    BY <1>1, <1>6 DEF TypeOK
  <2> QED
    BY <1>1, <1>3, <2>1, <2>2 DEF Matched
<1> QED
  BY <1>5, <1>6

\* S are the threads that a notify of c wakes.
Wakes(c, all, S) ==
    /\ S \subseteq Unwoken(c)
    /\ Unwoken(c)' = Unwoken(c) \ S
    /\ Woken(c)' = Woken(c) \cup S
    /\ \A u \in Threads : wokenBy'[u] = IF u \in S THEN pos ELSE wokenBy[u]
    /\ all => S = Unwoken(c)
    /\ ~all /\ Unwoken(c) # {} => \E u : S = {u}

\* Who is woken by a notify: nobody, everyone or one of those who were not.
LEMMA NotifyWakes ==
    ASSUME TypeOK, SleepInv, NEW t \in Threads, NEW c \in CondVars, NEW all \in BOOLEAN,
           NotifyEvent(t, c, all)
    PROVE  /\ Sleepers(c) = Unwoken(c)
           /\ \A d \in CondVars : d # c => Unwoken(d)' = Unwoken(d) /\ Woken(d)' = Woken(d)
           /\ \E S : Wakes(c, all, S)
<1>1. /\ WakeSleepers(c, all) /\ asleep' = asleep
      /\ goal' = [goal EXCEPT ![t] = NoGoal] /\ status[t] = "running"
  BY DEF NotifyEvent, Running
<1>2. ~asleep[t] /\ t \in Alive
  BY <1>1 DEF SleepInv, Alive
<1>3. \A u \in Threads : status[u] = "sleeping" <=> asleep[u]
  BY <1>1, <1>2 DEF SleepInv
<1>4. Sleepers(c) = Unwoken(c)
  BY <1>3 DEF Sleepers, Unwoken, SleptOn
<1>5. \E S \in SUBSET Unwoken(c) :
         /\ \A u \in Threads : wokenBy'[u] = IF u \in S THEN pos ELSE wokenBy[u]
         /\ all => S = Unwoken(c)
         /\ ~all /\ Unwoken(c) # {} => \E u : S = {u}
  <2>1. CASE all \/ Sleepers(c) = {}
    <3>1. \A u \in Threads : wokenBy'[u] = IF u \in Unwoken(c) THEN pos ELSE wokenBy[u]
      BY <1>1, <1>4, <2>1 DEF WakeSleepers
    <3> QED
      BY <1>4, <2>1, <3>1
  <2>2. CASE ~ (all \/ Sleepers(c) = {})
    <3>1. PICK u \in Unwoken(c) : wokenBy' = [wokenBy EXCEPT ![u] = pos]
      BY <1>1, <1>4, <2>2 DEF WakeSleepers
    <3>2. \A v \in Threads : wokenBy'[v] = IF v \in {u} THEN pos ELSE wokenBy[v]
      BY <3>1 DEF TypeOK
    <3>3. {u} \in SUBSET Unwoken(c)
      BY <3>1
    <3> QED
      BY <2>2, <3>2, <3>3
  <2> QED
    BY <2>1, <2>2
<1>6. PICK S \in SUBSET Unwoken(c) :
         /\ \A u \in Threads : wokenBy'[u] = IF u \in S THEN pos ELSE wokenBy[u]
         /\ all => S = Unwoken(c)
         /\ ~all /\ Unwoken(c) # {} => \E u : S = {u}
  BY <1>5
<1>7. \A u \in Threads : asleep'[u] = asleep[u] /\ (asleep[u] => goal'[u] = goal[u])
  BY <1>1, <1>2 DEF TypeOK
<1>8. \A d \in CondVars :
         /\ Unwoken(d)' = {u \in Threads : asleep'[u] /\ goal'[u] = d /\ wokenBy'[u] = NotWoken}
         /\ Woken(d)' = {u \in Threads : asleep'[u] /\ goal'[u] = d /\ wokenBy'[u] # NotWoken}
  BY DEF Unwoken, Woken, SleptOn
<1>9. pos # NotWoken
  BY DEF TypeOK, NotWoken
<1>10. \A d \in CondVars : d # c => Unwoken(d)' = Unwoken(d) /\ Woken(d)' = Woken(d)
  <2>1. \A u \in S : goal[u] = c
    BY DEF Unwoken, SleptOn
  <2> QED
    BY <1>6, <1>7, <1>8, <2>1 DEF Unwoken, Woken, SleptOn
<1>11. Unwoken(c)' = Unwoken(c) \ S /\ Woken(c)' = Woken(c) \cup S
  <2>1. \A u \in S : u \in Threads /\ asleep[u] /\ goal[u] = c /\ wokenBy[u] = NotWoken
    BY DEF Unwoken, SleptOn
  <2> QED
    BY <1>6, <1>7, <1>8, <1>9, <2>1 DEF Unwoken, Woken, SleptOn
<1>12. Wakes(c, all, S)
  BY <1>6, <1>11 DEF Wakes
<1> QED
  BY <1>4, <1>10, <1>12

\* A notify counts as many threads as it wakes.
LEMMA MatchedByNotify ==
    ASSUME TypeOK, LogInv, SleepInv, NEW t \in Threads, NEW c \in CondVars,
           NEW all \in BOOLEAN, NotifyEvent(t, c, all), ~Alone,
           NEW d \in CondVars, Matched(d), Matched(c)
    PROVE  Matched(d)'
<1> DEFINE n == IF all THEN toNotify[c] ELSE 1
           notif == [vc |-> clock[t], count |-> n]
<1>1. CASE d # c
  <2>1. Unwoken(d)' = Unwoken(d) /\ Woken(d)' = Woken(d)
    BY <1>1, NotifyWakes
  <2>2. toNotify'[d] = toNotify[d] /\ notifQueue'[d] = notifQueue[d]
    BY <1>1, NotifyCounts
  <2> QED
    BY <2>1, <2>2 DEF Matched
<1>2. CASE d = c
  <2>1. /\ IsFiniteSet(Unwoken(c)) /\ IsFiniteSet(Woken(c)) /\ Unwoken(c) \cap Woken(c) = {}
        /\ Cardinality(Unwoken(c)) \in Nat /\ Cardinality(Woken(c)) \in Nat
    BY FiniteWoken DEF Unwoken, Woken
  <2>2. PICK S : Wakes(c, all, S)
    BY NotifyWakes
  <2>3. toNotify[c] = Cardinality(Unwoken(c)) /\ CountIn(notifQueue[c]) = Cardinality(Woken(c))
    BY DEF Matched
  <2>4. S \subseteq Unwoken(c) /\ IsFiniteSet(S) /\ S \cap Woken(c) = {} /\ Unwoken(c) \cap S = S /\ Cardinality(S) \in Nat
    BY <2>1, <2>2, FS_Subset, FS_CardinalityType DEF Wakes
  <2>5. /\ Cardinality(Unwoken(c) \ S) = Cardinality(Unwoken(c)) - Cardinality(S)
        /\ Cardinality(Woken(c) \cup S) = Cardinality(Woken(c)) + Cardinality(S)
    <3>1. Cardinality(Unwoken(c) \ S) = Cardinality(Unwoken(c)) - Cardinality(Unwoken(c) \cap S)
      BY <2>1, FS_Difference
    <3>2. Cardinality(Woken(c) \cup S) = Cardinality(Woken(c)) + Cardinality(S) - Cardinality(Woken(c) \cap S)
      BY <2>1, <2>4, FS_Union
    <3>3. Cardinality(Woken(c) \cap S) = 0
      BY <2>4, FS_EmptySet
    <3>4. Cardinality(Unwoken(c) \cap S) = Cardinality(S)
      BY <2>4
    <3>5. Cardinality(Woken(c) \cup S) = Cardinality(Woken(c)) + Cardinality(S)
      BY <2>1, <2>4, <3>2, <3>3
    <3> QED
      BY <3>1, <3>4, <3>5
  <2>6. CASE toNotify[c] = 0
    <3>1. Unwoken(c) = {}
      BY <2>1, <2>3, <2>6, FS_EmptySet
    <3>2. S = {}
      BY <2>4, <3>1
    <3>3. Unwoken(c)' = Unwoken(c) /\ Woken(c)' = Woken(c)
      BY <2>2, <3>2 DEF Wakes
    <3>4. toNotify'[c] = toNotify[c] /\ notifQueue'[c] = notifQueue[c]
      BY <2>6, NotifyCounts
    <3> QED
      BY <1>2, <2>3, <3>3, <3>4 DEF Matched
  <2>7. CASE toNotify[c] # 0
    <3>1. Unwoken(c) # {}
      BY <2>3, <2>7, FS_EmptySet
    <3>2. Cardinality(S) = n
      <4>1. CASE all
        BY <2>2, <2>3, <4>1 DEF Wakes
      <4>2. CASE ~all
        BY <2>2, <3>1, <4>2, FS_Singleton DEF Wakes
      <4> QED
        BY <4>1, <4>2
    <3>3. /\ toNotify'[c] = toNotify[c] - n
          /\ notifQueue'[c] = Append(notifQueue[c], notif)
          /\ notif \in Notification
      BY <2>7, NotifyCounts
    <3>4. notif.count = n
      OBVIOUS
    <3> HIDE DEF n, notif
    <3>5. CountIn(notifQueue'[c]) = CountIn(notifQueue[c]) + n
      <4>1. notifQueue[c] \in Seq(Notification)
        BY DEF TypeOK
      <4> QED
        BY <3>3, <3>4, <4>1, CountInAppend
    <3>6. toNotify'[c] = Cardinality(Unwoken(c)')
      BY <2>2, <2>3, <2>5, <3>2, <3>3 DEF Wakes
    <3>7. CountIn(notifQueue'[c]) = Cardinality(Woken(c)')
      BY <2>2, <2>3, <2>5, <3>2, <3>5 DEF Wakes
    <3> QED
      BY <1>2, <3>6, <3>7 DEF Matched
  <2> QED
    BY <2>6, <2>7
<1> QED
  BY <1>1, <1>2

\* A thread that was notified leaves the queue as it wakes up.
LEMMA MatchedByRequest ==
    ASSUME TypeOK, LogInv, SleepInv, NEW t \in Threads, NEW l \in Locks,
           NEW loc \in SrcLocs, RequestEvent(t, l, loc), ~Alone,
           asleep[t] => wokenBy[t] # NotWoken, NEW d \in CondVars, Matched(d)
    PROVE  Matched(d)'
<1> DEFINE c == Associated(l)
           q == notifQueue[d]
           left == asleep[t] /\ d = c
<1>1. /\ toNotify' = toNotify
      /\ SleptOn(d)' = SleptOn(d) \ {t}
      /\ t \in SleptOn(d) <=> left
      /\ notifQueue'[d] = IF left THEN WakeThread(q) ELSE q
      /\ \A u \in Threads : wokenBy'[u] = IF u = t THEN NotWoken ELSE wokenBy[u]
  BY RequestCounts
<1>2. /\ Unwoken(d)' = {u \in SleptOn(d)' : wokenBy'[u] = NotWoken}
      /\ Woken(d)' = {u \in SleptOn(d)' : wokenBy'[u] # NotWoken}
      /\ SleptOn(d) \subseteq Threads
  BY DEF Unwoken, Woken, SleptOn
<1>3. t \notin Unwoken(d) /\ (t \in Woken(d) <=> left)
  BY <1>1 DEF Unwoken, Woken
<1>4. Unwoken(d)' = Unwoken(d) /\ Woken(d)' = Woken(d) \ {t}
  BY <1>1, <1>2, <1>3 DEF Unwoken, Woken
<1>5. q \in Seq(Notification)
  BY DEF TypeOK
<1>6. IsFiniteSet(Woken(d)) /\ Cardinality(Woken(d)) \in Nat
  BY FiniteWoken
<1> HIDE DEF q, left
<1>7. CASE left
  <2>1. Cardinality(Woken(d)') = Cardinality(Woken(d)) - 1
    BY <1>3, <1>4, <1>6, <1>7, FS_RemoveElement
  <2>2. Cardinality(Woken(d)) # 0
    BY <1>3, <1>6, <1>7, FS_EmptySet
  <2>3. CountIn(q) = Cardinality(Woken(d))
    BY DEF Matched, q
  <2>4. q # <<>>
    BY <1>5, <2>2, <2>3, CountInNat
  <2>5. CountIn(notifQueue'[d]) = CountIn(q) - 1
    BY <1>1, <1>5, <1>7, <2>4, CountInWake
  <2> QED
    BY <1>1, <1>4, <2>1, <2>3, <2>5 DEF Matched
<1>8. CASE ~left
  <2>1. Woken(d)' = Woken(d) /\ notifQueue'[d] = notifQueue[d]
    BY <1>1, <1>3, <1>4, <1>8 DEF q
  <2> QED
    BY <1>1, <1>4, <2>1 DEF Matched
<1> QED
  BY <1>7, <1>8

\* Every event keeps the match of counters, queues and threads.
LEMMA MatchedOfStep ==
    TypeOK /\ SleepInv /\ LogInv /\ LogInv' /\ (AllNotified => \A c \in CondVars : Matched(c))
       /\ [LogNext]_logVars
       => (AllNotified => \A c \in CondVars : Matched(c))'
<1> SUFFICES ASSUME TypeOK, SleepInv, LogInv, LogInv',
                    AllNotified => \A c \in CondVars : Matched(c),
                    [LogNext]_logVars, AllNotified', NEW d \in CondVars
             PROVE  Matched(d)'
  OBVIOUS
<1>1. CASE UNCHANGED logVars
  <2>1. AllNotified
    BY <1>1 DEF logVars, AllNotified, Positions, Entry
  <2>2. Quiet
    BY <1>1 DEF logVars, vars, cvVars, programVars, Quiet
  <2> QED
    BY <2>1, <2>2, MatchedWhenQuiet
<1>2. CASE LogNext
  <2>1. ASSUME NEW t \in Threads, NEW type, NEW target, NEW loc,
               Record(t, type, target, loc)
        PROVE  /\ \A c \in CondVars : Matched(c)
               /\ type = "REQ" /\ asleep[t] => wokenBy[t] # NotWoken
    <3>1. /\ AllNotified
          /\ ~(type = "REQ" /\ status[t] = "sleeping" /\ wokenBy[t] = NotWoken)
      BY <2>1, AllNotifiedBefore
    <3> QED
      BY <3>1 DEF SleepInv
  <2>2. ASSUME NEW t \in Threads, NEW type, NEW target, NEW loc, Quiet,
               Record(t, type, target, loc)
        PROVE  Matched(d)'
    BY <2>1, <2>2, MatchedWhenQuiet
  <2>3. ASSUME NEW t \in Threads, NEW x \in Vars
        PROVE  /\ ReadEvent(t, x) /\ Record(t, "RD", x, 0) => Matched(d)'
               /\ WriteEvent(t, x) /\ Record(t, "WR", x, 0) => Matched(d)'
    BY <2>2, QuietEvents
  <2>4. ASSUME NEW t \in Threads, NEW l \in Locks
        PROVE  /\ AcquireEvent(t, l) /\ Record(t, "LK", l, 0) => Matched(d)'
               /\ ReleaseEvent(t, l) /\ Record(t, "UK", l, 0) => Matched(d)'
    BY <2>2, QuietEvents
  <2>5. ASSUME NEW t \in Threads, NEW u \in Threads
        PROVE  /\ ForkEvent(t, u) /\ Record(t, "FORK", u, 0) => Matched(d)'
               /\ JoinEvent(t, u) /\ Record(t, "JOIN", u, 0) => Matched(d)'
    BY <2>2, QuietEvents
  <2>6. ASSUME NEW t \in Threads, InvalidEvent(t), Record(t, "OTHER", 0, 0)
        PROVE  Matched(d)'
    BY <2>2, <2>6, QuietEvents
  <2>7. ASSUME NEW t \in Threads, NEW c \in CondVars, NEW loc \in SrcLocs,
               WaitEvent(t, c, loc), Record(t, "WAIT", c, loc)
        PROVE  Matched(d)'
    <3>1. CASE Alone
      BY <2>2, <2>7, <3>1, QuietEvents
    <3>2. CASE ~Alone
      BY <2>1, <2>7, <3>2, MatchedByWait
    <3> QED
      BY <3>1, <3>2
  <2>8. ASSUME NEW t \in Threads, NEW c \in CondVars, NEW all \in BOOLEAN,
               NotifyEvent(t, c, all), Record(t, "NOTIFY", c, 0)
        PROVE  Matched(d)'
    <3>1. CASE Alone
      BY <2>2, <2>8, <3>1, QuietEvents
    <3>2. CASE ~Alone
      <4>1. Matched(c) /\ Matched(d)
        BY <2>1, <2>8
      <4> QED
        BY <2>8, <3>2, <4>1, MatchedByNotify
    <3> QED
      BY <3>1, <3>2
  <2>9. ASSUME NEW t \in Threads, NEW l \in Locks, NEW loc \in SrcLocs,
               RequestEvent(t, l, loc), Record(t, "REQ", l, loc)
        PROVE  Matched(d)'
    <3>1. CASE Alone
      BY <2>2, <2>9, <3>1, QuietEvents
    <3>2. CASE ~Alone
      <4>1. Matched(d) /\ (asleep[t] => wokenBy[t] # NotWoken)
        BY <2>1, <2>9
      <4> QED
        BY <2>9, <3>2, <4>1, MatchedByRequest
    <3> QED
      BY <3>1, <3>2
  <2> QED
    BY <1>2, <2>3, <2>4, <2>5, <2>6, <2>7, <2>8, <2>9 DEF LogNext
<1> QED
  BY <1>1, <1>2

\* At first the queues are empty and nobody sleeps.
LEMMA MatchedOfInit == Init => \A c \in CondVars : Matched(c)
<1> SUFFICES ASSUME Init, NEW c \in CondVars
             PROVE  Matched(c)
  OBVIOUS
<1>1. toNotify[c] = 0 /\ notifQueue[c] = <<>>
  BY DEF Init
<1>2. Unwoken(c) = {} /\ Woken(c) = {}
  BY DEF Init, SleptOn, Unwoken, Woken
<1>3. <<>> \in Seq(Notification)
  OBVIOUS
<1>4. CountIn(<<>>) = 0
  BY <1>3, CountInNat
<1> QED
  BY <1>1, <1>2, <1>4, FS_EmptySet DEF Matched

\* While waits end with a notify, the counter of a condition variable is the number
\* of its sleepers that nobody notified yet, its queue is meant for as many as sleep
\* notified, and holds no notify that is meant for nobody.
THEOREM SleepersMatchCounters == LogSpec => []CountersMatchSleepers
<1> DEFINE Inv == TypeOK /\ SleepInv /\ LogInv
                  /\ (AllNotified => \A c \in CondVars : Matched(c))
<1>1. LogInit => Inv
  BY TypeOfInit, SleepOfInit, LogOfInit, MatchedOfInit DEF LogInit
<1>2. Inv /\ [LogNext]_logVars => Inv'
  BY LogStepIsStep, TypeOfStep, SleepOfStep, LogOfStep, MatchedOfStep
<1>3. Inv => CountersMatchSleepers
  BY MatchedImplies DEF CountersMatchSleepers
<1> QED
  BY <1>1, <1>2, <1>3, PTL DEF LogSpec


-----------------------------------------------------------------------------
(* What a clock knows.  The operators take the log and the kept events, so *)
(* that they can be read before and after a step.                          *)

PositionsOf(lg) == 0..(Len(lg) - 1)

\* The events of P and those before them.
Upto(lg, P) == P \cup UNION {lg[p + 1].past : p \in P}

\* The events of t, and those that forked it.
Mine(lg, t) == {p \in PositionsOf(lg) :
    lg[p + 1].tid = t \/ (lg[p + 1].type = "FORK" /\ lg[p + 1].target = t)}

WritesOf(lg, x) == {p \in PositionsOf(lg) : lg[p + 1].type = "WR" /\ lg[p + 1].target = x}

\* What happened before the next event of t, as far as t itself goes, and before the
\* next event that reads x.
Known(lg, t) == Upto(lg, Latest(Mine(lg, t)))
Written(lg, x) == Upto(lg, Latest(WritesOf(lg, x)))

\* c has merged the clocks of the kept events in S, and has reached the time of no
\* other one at its own thread.
Reflects(lg, kept, c, S) ==
    \A e \in kept :
        /\ e.pos \in S => Leq(e.vc, c)
        /\ LET o == lg[e.pos + 1].tid
           IN e.vc[o] <= c[o] => e.pos \in S

Kept == KeptEvents \ {NoEvent}

\* A clock that reflects S has merged exactly the events of S.
LEMMA ReflectsOrder ==
    ASSUME NEW lg, NEW kept, NEW c, NEW S, Reflects(lg, kept, c, S), NEW e \in kept,
           lg[e.pos + 1].tid \in Threads
    PROVE  Leq(e.vc, c) <=> e.pos \in S
  BY DEF Reflects, Leq

\* What a clock has merged, it still has when it merges more or time passes.
LEMMA LeqFacts ==
    ASSUME NEW u \in Clock, NEW v \in Clock, NEW w \in Clock, NEW t \in Threads
    PROVE  /\ Leq(u, v) \/ Leq(u, w) => Leq(u, Merge(v, w))
           /\ Leq(u, v) => Leq(u, Increment(v, t))
<1>1. \A k \in Threads : /\ u[k] \in Nat /\ v[k] \in Nat /\ w[k] \in Nat
                         /\ Merge(v, w)[k] = IF v[k] < w[k] THEN w[k] ELSE v[k]
                         /\ Increment(v, t)[k] = IF k = t THEN v[k] + 1 ELSE v[k]
  BY ClockTypes DEF Clock
<1>2. ASSUME Leq(u, v) \/ Leq(u, w), NEW k \in Threads
      PROVE  u[k] <= Merge(v, w)[k]
  <2>1. u[k] <= v[k] \/ u[k] <= w[k]
    BY <1>2 DEF Leq
  <2> QED
    BY <1>1, <2>1
<1>3. ASSUME Leq(u, v), NEW k \in Threads
      PROVE  u[k] <= Increment(v, t)[k]
  <2>1. u[k] <= v[k]
    BY <1>3 DEF Leq
  <2> QED
    BY <1>1, <2>1
<1> QED
  BY <1>2, <1>3 DEF Leq

\* Merging two clocks joins what they reflect.
LEMMA ReflectsMerge ==
    ASSUME NEW lg \in Seq(LogEntry), NEW kept, kept \subseteq Event,
           \A e \in kept : e.pos \in PositionsOf(lg),
           NEW v \in Clock, NEW w \in Clock, NEW S, NEW R,
           Reflects(lg, kept, v, S), Reflects(lg, kept, w, R)
    PROVE  Reflects(lg, kept, Merge(v, w), S \cup R)
<1> SUFFICES ASSUME NEW e \in kept
             PROVE  LET o == lg[e.pos + 1].tid
                    IN /\ e.pos \in S \cup R => Leq(e.vc, Merge(v, w))
                       /\ e.vc[o] <= Merge(v, w)[o] => e.pos \in S \cup R
  BY DEF Reflects
<1> DEFINE o == lg[e.pos + 1].tid
<1>1. o \in Threads
  <2>1. e.pos + 1 \in 1..Len(lg)
    BY LenProperties DEF PositionsOf
  <2>2. lg[e.pos + 1] \in LogEntry
    BY <2>1, ElementOfSeq
  <2> QED
    BY <2>2 DEF LogEntry
<1>2. \A u \in Threads : /\ v[u] \in Nat /\ w[u] \in Nat /\ e.vc[u] \in Nat
                         /\ Merge(v, w)[u] = IF v[u] < w[u] THEN w[u] ELSE v[u]
  BY DEF Merge, Clock, Event
<1> HIDE DEF o
<1>3. /\ e.pos \in S => Leq(e.vc, v)
      /\ e.pos \in R => Leq(e.vc, w)
      /\ e.vc[o] <= v[o] => e.pos \in S
      /\ e.vc[o] <= w[o] => e.pos \in R
  BY DEF Reflects, o
<1>4. Leq(e.vc, v) \/ Leq(e.vc, w) => Leq(e.vc, Merge(v, w))
  <2>1. e.vc \in Clock
    BY DEF Event
  <2> QED
    BY <1>1, <2>1, LeqFacts
<1>5. e.vc[o] <= Merge(v, w)[o] => e.vc[o] <= v[o] \/ e.vc[o] <= w[o]
  BY <1>1, <1>2
<1> QED
  BY <1>3, <1>4, <1>5 DEF o

\* What the clocks reflect after an event x of t with clock vc, which is kept or not.
LEMMA ReflectsAfter ==
    ASSUME NEW lg \in Seq(LogEntry), NEW x \in LogEntry, NEW t \in Threads, x.tid = t,
           NEW kept, kept \subseteq Event, \A e \in kept : e.pos \in PositionsOf(lg),
           NEW vc \in Clock, NEW now \in Nat, vc[t] = now,
           NEW kept2, kept2 \subseteq kept \cup {[vc |-> vc, pos |-> Len(lg)]},
           \A e \in kept : e.vc[t] < now,
           NEW S, S \subseteq PositionsOf(lg), Reflects(lg, kept, vc, S),
           \A e \in kept : lg[e.pos + 1].tid = t => e.pos \in S
    PROVE  LET lg2 == Append(lg, x)
           IN /\ Reflects(lg2, kept2, vc, S \cup {Len(lg)})
              /\ Reflects(lg2, kept2, Increment(vc, t), S \cup {Len(lg)})
              /\ \A c \in Clock : \A R \in SUBSET PositionsOf(lg) :
                    Reflects(lg, kept, c, R) /\ c[t] < now => Reflects(lg2, kept2, c, R)
<1> DEFINE n == Len(lg)
           new == [vc |-> vc, pos |-> n]
           lg2 == Append(lg, x)
<1>1. /\ n \in Nat
      /\ \A i \in 1..n : lg2[i] = lg[i] /\ lg[i] \in LogEntry
      /\ lg2[n + 1] = x
  BY AppendProperties, ElementOfSeq, LenProperties
<1>2. \A e \in kept : /\ e.pos \in 0..(n - 1) /\ e.pos # n
                      /\ lg2[e.pos + 1].tid = lg[e.pos + 1].tid
                      /\ lg[e.pos + 1].tid \in Threads
  <2> TAKE e \in kept
  <2>1. e.pos \in 0..(n - 1)
    BY DEF PositionsOf
  <2>2. e.pos + 1 \in 1..n
    BY <1>1, <2>1
  <2>3. lg[e.pos + 1] \in LogEntry /\ lg2[e.pos + 1] = lg[e.pos + 1]
    BY <1>1, <2>2
  <2>4. lg[e.pos + 1].tid \in Threads
    BY <2>3 DEF LogEntry
  <2> QED
    BY <1>1, <2>1, <2>3, <2>4
<1>3. new.pos = n /\ new.vc = vc /\ lg2[new.pos + 1].tid = t
  BY <1>1
<1>4. n \notin PositionsOf(lg)
  BY <1>1 DEF PositionsOf
<1>5. \A u \in Threads : /\ vc[u] \in Nat
                         /\ Increment(vc, t)[u] = IF u = t THEN vc[u] + 1 ELSE vc[u]
                         /\ \A e \in kept : e.vc[u] \in Nat
  BY ClockTypes DEF Clock, Event
<1> HIDE DEF n, new, lg2
<1>6. ASSUME NEW c, NEW R, Reflects(lg2, kept \cup {new}, c, R)
      PROVE  Reflects(lg2, kept2, c, R)
  BY <1>6 DEF Reflects, new, n
<1>7. ASSUME NEW c, NEW R, \A e \in kept :
                /\ e.pos \in R => Leq(e.vc, c)
                /\ e.vc[lg[e.pos + 1].tid] <= c[lg[e.pos + 1].tid] => e.pos \in R,
             n \in R => Leq(vc, c),
             vc[t] <= c[t] => n \in R
      PROVE  Reflects(lg2, kept \cup {new}, c, R)
  BY <1>2, <1>3, <1>7 DEF Reflects
<1>8. \A e \in kept : /\ e.pos \in S => Leq(e.vc, vc)
                      /\ e.vc[lg[e.pos + 1].tid] <= vc[lg[e.pos + 1].tid] => e.pos \in S
  BY DEF Reflects
<1>9. Reflects(lg2, kept2, vc, S \cup {n})
  <2>1. \A e \in kept : e.pos \in S \cup {n} => e.pos \in S
    BY <1>2
  <2>2. Leq(vc, vc)
    BY <1>5 DEF Leq
  <2> QED
    BY <1>6, <1>7, <1>8, <2>1, <2>2
<1>10. Reflects(lg2, kept2, Increment(vc, t), S \cup {n})
  <2>1. \A e \in kept : e.pos \in S \cup {n} => e.pos \in S
    BY <1>2
  <2>2. Leq(vc, Increment(vc, t))
    BY <1>5 DEF Leq
  <2>3. \A e \in kept : Leq(e.vc, vc) => Leq(e.vc, Increment(vc, t))
    <3>1. \A e \in kept : e.vc \in Clock
      BY DEF Event
    <3> QED
      BY <3>1, LeqFacts
  <2>4. ASSUME NEW e \in kept,
               e.vc[lg[e.pos + 1].tid] <= Increment(vc, t)[lg[e.pos + 1].tid]
        PROVE  e.pos \in S \cup {n}
    <3>1. CASE lg[e.pos + 1].tid = t
      BY <3>1
    <3>2. CASE lg[e.pos + 1].tid # t
      BY <1>2, <1>5, <1>8, <2>4, <3>2
    <3> QED
      BY <3>1, <3>2
  <2> QED
    BY <1>6, <1>7, <1>8, <2>1, <2>2, <2>3, <2>4
<1>11. ASSUME NEW c \in Clock, NEW R \in SUBSET PositionsOf(lg),
              Reflects(lg, kept, c, R), c[t] < now
       PROVE  Reflects(lg2, kept2, c, R)
  <2>1. n \notin R
    BY <1>4
  <2>2. c[t] \in Nat /\ ~(vc[t] <= c[t])
    BY <1>11 DEF Clock
  <2>3. \A e \in kept :
           /\ e.pos \in R => Leq(e.vc, c)
           /\ e.vc[lg[e.pos + 1].tid] <= c[lg[e.pos + 1].tid] => e.pos \in R
    BY <1>11 DEF Reflects
  <2> QED
    BY <1>6, <1>7, <2>1, <2>2, <2>3
<1> QED
  BY <1>9, <1>10, <1>11 DEF n, lg2

-----------------------------------------------------------------------------
(* The causal past, as the log grows.                                      *)

\* Every event has its past before it.
LogShape(lg) ==
    /\ lg \in Seq(LogEntry)
    /\ \A p \in PositionsOf(lg) : lg[p + 1].past \subseteq 0..(p - 1)

\* Pasts are in the log.
LEMMA PastInLog ==
    ASSUME NEW lg, LogShape(lg)
    PROVE  /\ \A P : P \subseteq PositionsOf(lg) => Upto(lg, P) \subseteq PositionsOf(lg)
           /\ \A u : Known(lg, u) \subseteq PositionsOf(lg)
           /\ \A x : Written(lg, x) \subseteq PositionsOf(lg)
<1>1. Len(lg) \in Nat
  BY LenProperties DEF LogShape
<1>2. \A p \in PositionsOf(lg) : lg[p + 1].past \subseteq PositionsOf(lg)
  <2> TAKE p \in PositionsOf(lg)
  <2>1. lg[p + 1].past \subseteq 0..(p - 1)
    BY DEF LogShape
  <2>2. 0..(p - 1) \subseteq PositionsOf(lg)
    BY <1>1 DEF PositionsOf
  <2> QED
    BY <2>1, <2>2
<1>3. ASSUME NEW P, P \subseteq PositionsOf(lg)
      PROVE  Upto(lg, P) \subseteq PositionsOf(lg)
  BY <1>2, <1>3 DEF Upto
<1>4. ASSUME NEW P, P \subseteq PositionsOf(lg)
      PROVE  Latest(P) \subseteq PositionsOf(lg)
  BY <1>1, <1>4, LatestFacts DEF PositionsOf
<1>5. \A u : Mine(lg, u) \subseteq PositionsOf(lg)
  BY DEF Mine
<1>6. \A x : WritesOf(lg, x) \subseteq PositionsOf(lg)
  BY DEF WritesOf
<1> QED
  BY <1>3, <1>4, <1>5, <1>6 DEF Known, Written

\* An event that is appended becomes the latest of its thread, of the thread it forks
\* and of the writes of its variable, and changes no other past.
LEMMA PastAfter ==
    ASSUME NEW lg, LogShape(lg), NEW x \in LogEntry
    PROVE  LET lg2 == Append(lg, x)
               n == Len(lg)
               mine(u) == x.tid = u \/ (x.type = "FORK" /\ x.target = u)
           IN /\ PositionsOf(lg2) = PositionsOf(lg) \cup {n} /\ n \notin PositionsOf(lg)
              /\ \A p \in PositionsOf(lg) : lg2[p + 1] = lg[p + 1]
              /\ lg2[n + 1] = x
              /\ \A P : P \subseteq PositionsOf(lg) => Upto(lg2, P) = Upto(lg, P)
              /\ Upto(lg2, {n}) = {n} \cup x.past
              /\ \A u : mine(u) => Known(lg2, u) = {n} \cup x.past
              /\ \A u : ~mine(u) => Known(lg2, u) = Known(lg, u) /\ Mine(lg2, u) = Mine(lg, u)
              /\ \A y : x.type = "WR" /\ x.target = y => Written(lg2, y) = {n} \cup x.past
              /\ \A y : ~(x.type = "WR" /\ x.target = y) => Written(lg2, y) = Written(lg, y)
<1> DEFINE lg2 == Append(lg, x)
           n == Len(lg)
           mine(u) == x.tid = u \/ (x.type = "FORK" /\ x.target = u)
<1>1. /\ n \in Nat /\ Len(lg2) = n + 1
      /\ \A i \in 1..n : lg2[i] = lg[i]
      /\ lg2[n + 1] = x
  BY AppendProperties, LenProperties DEF LogShape
<1> HIDE DEF lg2, n
<1>2. PositionsOf(lg) = 0..(n - 1) /\ PositionsOf(lg2) = 0..n
  BY <1>1 DEF PositionsOf, n
<1>3. PositionsOf(lg2) = PositionsOf(lg) \cup {n} /\ n \notin PositionsOf(lg)
  BY <1>1, <1>2
<1>4. \A p \in PositionsOf(lg) : lg2[p + 1] = lg[p + 1]
  BY <1>1, <1>2
<1>5. ASSUME NEW P, P \subseteq PositionsOf(lg)
      PROVE  Upto(lg2, P) = Upto(lg, P)
  BY <1>4, <1>5 DEF Upto
<1>6. Upto(lg2, {n}) = {n} \cup x.past
  BY <1>1 DEF Upto
<1>7. ASSUME NEW P, P \subseteq PositionsOf(lg)
      PROVE  Latest(P \cup {n}) = {n}
  <2>1. P \cup {n} \subseteq 0..((n + 1) - 1)
    BY <1>1, <1>2, <1>7
  <2>2. /\ Latest(P \cup {n}) = {Max(P \cup {n})}
        /\ Max(P \cup {n}) \in P \cup {n}
        /\ \A q \in P \cup {n} : q <= Max(P \cup {n})
    BY <1>1, <2>1, LatestFacts
  <2>3. Max(P \cup {n}) = n
    <3> DEFINE m == Max(P \cup {n})
    <3>1. m \in P \cup {n} /\ n <= m
      BY <2>2
    <3> HIDE DEF m
    <3>2. m \in 0..n
      BY <1>1, <2>1, <3>1
    <3>3. m = n
      BY <1>1, <3>1, <3>2
    <3> QED
      BY <3>3 DEF m
  <2> QED
    BY <2>2, <2>3
<1>8. \A P : P \subseteq PositionsOf(lg) => Latest(P) \subseteq PositionsOf(lg)
  BY <1>1, <1>2, LatestFacts
<1>9. \A u : Mine(lg, u) \subseteq PositionsOf(lg)
             /\ Mine(lg2, u) = Mine(lg, u) \cup (IF mine(u) THEN {n} ELSE {})
  BY <1>1, <1>3, <1>4 DEF Mine
<1>10. \A y : /\ WritesOf(lg, y) \subseteq PositionsOf(lg)
              /\ WritesOf(lg2, y) = WritesOf(lg, y)
                   \cup (IF x.type = "WR" /\ x.target = y THEN {n} ELSE {})
  BY <1>1, <1>3, <1>4 DEF WritesOf
<1> HIDE DEF mine
<1>11. \A u : mine(u) => Known(lg2, u) = {n} \cup x.past
  BY <1>6, <1>7, <1>9 DEF Known
<1>12. \A u : ~mine(u) => Mine(lg2, u) = Mine(lg, u)
  BY <1>9
<1>13. \A u : ~mine(u) => Known(lg2, u) = Known(lg, u)
  BY <1>5, <1>8, <1>9, <1>12 DEF Known
<1>14. \A y : x.type = "WR" /\ x.target = y => Written(lg2, y) = {n} \cup x.past
  BY <1>6, <1>7, <1>10 DEF Written
<1>15. \A y : ~(x.type = "WR" /\ x.target = y) => Written(lg2, y) = Written(lg, y)
  <2>1. \A y : ~(x.type = "WR" /\ x.target = y) => WritesOf(lg2, y) = WritesOf(lg, y)
    BY <1>10
  <2> QED
    BY <1>5, <1>8, <1>10, <2>1 DEF Written
<1> QED
  BY <1>1, <1>3, <1>4, <1>5, <1>6, <1>11, <1>12, <1>13, <1>14, <1>15 DEF lg2, n, mine

\* The past of the next event: what its thread knows, and what it waited for.
LEMMA PastOfNext ==
    ASSUME LogInv, NEW t \in Threads, NEW type, NEW target, NEW loc
    PROVE  NextEntry(t, type, target, loc).past =
             Known(log, t)
             \cup (IF type = "RD" THEN Written(log, target) ELSE {})
             \cup (IF type = "JOIN" THEN Known(log, target) ELSE {})
             \cup (IF type = "REQ" /\ status[t] = "sleeping"
                   THEN Upto(log, {wokenBy[t]} \ {NotWoken}) ELSE {})
<1> DEFINE now == Immediate(t, type, target)
           A == Latest(Mine(log, t))
           B == IF type = "RD" THEN Latest(WritesOf(log, target)) ELSE {}
           C == IF type = "JOIN" THEN Latest(Mine(log, target)) ELSE {}
           D == IF type = "REQ" /\ status[t] = "sleeping" THEN {wokenBy[t]} \ {NotWoken}
                                                          ELSE {}
<1>1. \A u : {p \in Positions : Entry(p).tid = u}
               \cup {p \in Positions : Entry(p).type = "FORK" /\ Entry(p).target = u}
             = Mine(log, u)
  BY DEF Positions, PositionsOf, Entry, Mine
<1>2. {p \in Positions : Entry(p).type = "WR" /\ Entry(p).target = target}
        = WritesOf(log, target)
  BY DEF Positions, PositionsOf, Entry, WritesOf
<1>3. now = A \cup B \cup C \cup D
  BY <1>1, <1>2 DEF Immediate
<1>4. NextEntry(t, type, target, loc).past = Upto(log, now)
  <2>1. NextEntry(t, type, target, loc).past = now \cup UNION {Entry(p).past : p \in now}
    BY DEF NextEntry
  <2> QED
    BY <2>1 DEF Upto, Entry
<1> HIDE DEF now
<1>5. Upto(log, A \cup B \cup C \cup D)
        = Upto(log, A) \cup Upto(log, B) \cup Upto(log, C) \cup Upto(log, D)
  <2> HIDE DEF A, B, C, D
  <2> QED
    BY DEF Upto
<1>6. Upto(log, {}) = {}
  BY DEF Upto
<1>7. /\ Upto(log, A) = Known(log, t)
      /\ Upto(log, B) = IF type = "RD" THEN Written(log, target) ELSE {}
      /\ Upto(log, C) = IF type = "JOIN" THEN Known(log, target) ELSE {}
      /\ Upto(log, D) = IF type = "REQ" /\ status[t] = "sleeping"
                        THEN Upto(log, {wokenBy[t]} \ {NotWoken}) ELSE {}
  BY <1>6 DEF Known, Written
<1> QED
  BY <1>3, <1>4, <1>5, <1>7

-----------------------------------------------------------------------------
(* The notifies in a queue.                                                *)

\* The notifies of q are those at the positions P, in the order of the trace; each
\* counts those whom it woke, and whoever was woken was so by one of them.
QueueOf(q, woken, P) ==
    /\ P \in [1..Len(q) -> Nat]
    /\ \A i, j \in 1..Len(q) : i < j => P[i] < P[j]
    /\ \A i \in 1..Len(q) : q[i].count = Cardinality({u \in DOMAIN woken : woken[u] = P[i]})
    /\ \A u \in DOMAIN woken : \E i \in 1..Len(q) : woken[u] = P[i]

\* The thread that goes on first was woken by the notify at the head of the queue.
LEMMA HeadOfQueue ==
    ASSUME NEW q \in Seq(Notification), NEW woken, NEW P, QueueOf(q, woken, P),
           IsFiniteSet(DOMAIN woken), NEW t \in DOMAIN woken,
           \A u \in DOMAIN woken : woken[t] <= woken[u]
    PROVE  q # <<>> /\ Head(q) = q[1] /\ Len(q) >= 1 /\ woken[t] = P[1]
<1>1. Len(q) \in Nat /\ \A k \in 1..Len(q) : q[k] \in Notification
  BY LenProperties, ElementOfSeq
<1>2. PICK i \in 1..Len(q) : woken[t] = P[i]
  BY DEF QueueOf
<1>3. 1 \in 1..Len(q) /\ Len(q) >= 1 /\ q # <<>>
  BY <1>1, <1>2, EmptySeq
<1> DEFINE first == {u \in DOMAIN woken : woken[u] = P[1]}
<1>4. first # {}
  <2>1. q[1].count = Cardinality(first) /\ q[1].count # 0
    BY <1>1, <1>3 DEF QueueOf, Notification
  <2> QED
    BY <2>1, FS_EmptySet
<1>5. woken[t] <= P[1]
  BY <1>4
<1>6. P[1] \in Nat /\ P[i] \in Nat /\ (1 < i => P[1] < P[i])
  BY <1>3 DEF QueueOf
<1>7. i = 1
  BY <1>1, <1>2, <1>5, <1>6
<1> QED
  BY <1>2, <1>3, <1>7

\* The notifies of q that are left, those at Q, when t goes on.
AfterWake(q, woken, P, t, Q) ==
    /\ QueueOf(WakeThread(q), [u \in DOMAIN woken \ {t} |-> woken[u]], Q)
    /\ \A i \in 1..Len(WakeThread(q)) : \E j \in 1..Len(q) :
          Q[i] = P[j] /\ WakeThread(q)[i].vc = q[j].vc

\* The notifies of q and notif, those at Q, when notif at p wakes the threads S.
AfterNotify(q, woken, P, S, p, notif, Q) ==
    LET all == [u \in DOMAIN woken \cup S |-> IF u \in S THEN p ELSE woken[u]]
        r == Append(q, notif)
    IN /\ QueueOf(r, all, Q)
       /\ \A i \in 1..Len(q) : Q[i] = P[i] /\ r[i] = q[i]
       /\ Len(r) = Len(q) + 1 /\ Q[Len(r)] = p /\ r[Len(r)] = notif

\* wake_thread, when it is the turn of t.
LEMMA QueueAfterWake ==
    ASSUME NEW q \in Seq(Notification), NEW woken, NEW P, QueueOf(q, woken, P),
           IsFiniteSet(DOMAIN woken), NEW t \in DOMAIN woken,
           \A u \in DOMAIN woken : woken[t] <= woken[u]
    PROVE  \E P2 : AfterWake(q, woken, P, t, P2)
<1> DEFINE rest == [u \in DOMAIN woken \ {t} |-> woken[u]]
           By(p) == {u \in DOMAIN woken : woken[u] = p}
           n == Len(q)
<1> SUFFICES \E P2 : /\ QueueOf(WakeThread(q), rest, P2)
                     /\ \A i \in 1..Len(WakeThread(q)) : \E j \in 1..n :
                          P2[i] = P[j] /\ WakeThread(q)[i].vc = q[j].vc
  BY DEF AfterWake
<1>1. q # <<>> /\ Head(q) = q[1] /\ n >= 1 /\ woken[t] = P[1]
  BY HeadOfQueue
<1>2. n \in Nat /\ \A k \in 1..n : q[k] \in Notification
  BY LenProperties, ElementOfSeq
<1>3. /\ P \in [1..n -> Nat]
      /\ \A i, j \in 1..n : i < j => P[i] < P[j]
      /\ \A i \in 1..n : q[i].count = Cardinality(By(P[i]))
      /\ \A u \in DOMAIN woken : \E i \in 1..n : woken[u] = P[i]
  BY DEF QueueOf
<1>4. DOMAIN rest = DOMAIN woken \ {t} /\ \A u \in DOMAIN rest : rest[u] = woken[u]
  OBVIOUS
<1>5. \A p : {u \in DOMAIN rest : rest[u] = p} = By(p) \ {t}
  BY <1>4
<1>6. \A i \in 1..n : i # 1 => P[i] # P[1]
  BY <1>2, <1>3
<1>7. \A i \in 1..n : i # 1 => By(P[i]) \ {t} = By(P[i])
  BY <1>1, <1>6
<1>8. \A p : IsFiniteSet(By(p))
  BY FS_Subset
<1>9. t \in By(P[1])
  BY <1>1
<1> HIDE DEF rest, By, n
<1>10. CASE q[1].count = 1
  <2> DEFINE r == Tail(q)
             P2 == [i \in 1..(n-1) |-> P[i+1]]
  <2>1. WakeThread(q) = r
    BY <1>1, <1>10 DEF WakeThread
  <2>2. Len(r) = n - 1 /\ \A i \in 1..(n-1) : r[i] = q[i+1]
    BY <1>1, HeadTailProperties DEF n
  <2>3. \A i \in 1..(n-1) : i + 1 \in 1..n /\ i + 1 # 1
    BY <1>2
  <2>4. P2 \in [1..(n-1) -> Nat]
    BY <1>3, <2>3
  <2>5. \A i, j \in 1..(n-1) : i < j => P2[i] < P2[j]
    BY <1>3, <2>3
  <2>6. ASSUME NEW i \in 1..(n-1)
        PROVE  r[i].count = Cardinality({u \in DOMAIN rest : rest[u] = P2[i]})
    <3>1. {u \in DOMAIN rest : rest[u] = P2[i]} = By(P[i+1])
      BY <1>5, <1>7, <2>3
    <3> QED
      BY <1>3, <2>2, <2>3, <3>1
  <2>7. By(P[1]) = {t}
    <3>1. Cardinality(By(P[1])) = 1
      BY <1>1, <1>2, <1>3, <1>10
    <3> QED
      BY <1>8, <1>9, <3>1, FS_Singleton
  <2>8. ASSUME NEW u \in DOMAIN rest
        PROVE  \E i \in 1..(n-1) : rest[u] = P2[i]
    <3>1. PICK k \in 1..n : woken[u] = P[k]
      BY <1>3, <1>4
    <3>2. k # 1
      BY <1>4, <2>7, <3>1 DEF By
    <3>3. k - 1 \in 1..(n-1) /\ (k - 1) + 1 = k
      BY <1>2, <3>2
    <3>4. P2[k-1] = P[k]
      BY <3>3
    <3> QED
      BY <1>4, <3>1, <3>3, <3>4
  <2>9. \A i \in 1..(n-1) : P2[i] = P[i+1] /\ r[i].vc = q[i+1].vc
    BY <2>2
  <2> HIDE DEF P2, r
  <2>10. QueueOf(r, rest, P2)
    BY <2>2, <2>4, <2>5, <2>6, <2>8 DEF QueueOf
  <2>11. \A i \in 1..Len(r) : \E j \in 1..n : P2[i] = P[j] /\ r[i].vc = q[j].vc
    BY <2>2, <2>3, <2>9
  <2> QED
    BY <2>1, <2>10, <2>11
<1>11. CASE q[1].count # 1
  <2> DEFINE left == [q[1] EXCEPT !.count = @ - 1]
             r == WakeThread(q)
  <2>1. 1 \in 1..n /\ q[1] \in Notification
    BY <1>1, <1>2
  <2>2. left \in Notification /\ left.count = q[1].count - 1 /\ left.vc = q[1].vc
    BY <1>11, <2>1 DEF Notification
  <2>3. r = [q EXCEPT ![1] = left]
    BY <1>1, <1>11 DEF WakeThread
  <2> HIDE DEF left, r
  <2>4. Len(r) = n /\ \A i \in 1..n : r[i] = IF i = 1 THEN left ELSE q[i]
    BY <2>1, <2>2, <2>3, ExceptSeq DEF n
  <2>5. ASSUME NEW i \in 1..n
        PROVE  r[i].count = Cardinality({u \in DOMAIN rest : rest[u] = P[i]})
    <3>1. CASE i = 1
      <4>1. Cardinality(By(P[1]) \ {t}) = Cardinality(By(P[1])) - 1
        BY <1>8, <1>9, FS_RemoveElement
      <4>2. {u \in DOMAIN rest : rest[u] = P[1]} = By(P[1]) \ {t}
        BY <1>5
      <4>3. q[1].count = Cardinality(By(P[1])) /\ r[1].count = q[1].count - 1
        BY <1>3, <2>1, <2>2, <2>4
      <4> QED
        BY <3>1, <4>1, <4>2, <4>3
    <3>2. CASE i # 1
      <4>1. {u \in DOMAIN rest : rest[u] = P[i]} = By(P[i])
        BY <1>5, <1>7, <3>2
      <4>2. r[i] = q[i] /\ q[i].count = Cardinality(By(P[i]))
        BY <1>3, <2>4, <3>2
      <4> QED
        BY <4>1, <4>2
    <3> QED
      BY <3>1, <3>2
  <2>6. \A u \in DOMAIN rest : \E i \in 1..n : rest[u] = P[i]
    BY <1>3, <1>4
  <2>7. QueueOf(r, rest, P)
    BY <1>3, <2>4, <2>5, <2>6 DEF QueueOf
  <2>8. \A i \in 1..n : P[i] = P[i] /\ r[i].vc = q[i].vc
    BY <2>2, <2>4
  <2>9. \A i \in 1..Len(r) : \E j \in 1..n : P[i] = P[j] /\ r[i].vc = q[j].vc
    BY <2>4, <2>8
  <2> QED
    BY <2>7, <2>9 DEF r
<1> QED
  BY <1>10, <1>11

\* notify_thread, when the notify at p wakes the threads S.
LEMMA QueueAfterNotify ==
    ASSUME NEW q \in Seq(Notification), NEW woken, NEW P, QueueOf(q, woken, P),
           NEW S, S \cap DOMAIN woken = {}, NEW p \in Nat, \A i \in 1..Len(q) : P[i] < p,
           NEW notif \in Notification, notif.count = Cardinality(S)
    PROVE  \E P2 : AfterNotify(q, woken, P, S, p, notif, P2)
<1> DEFINE all == [u \in DOMAIN woken \cup S |-> IF u \in S THEN p ELSE woken[u]]
           r == Append(q, notif)
           n == Len(q)
           P2 == [i \in 1..(n+1) |-> IF i = n + 1 THEN p ELSE P[i]]
<1>1. n \in Nat
  BY LenProperties
<1>2. /\ Len(r) = n + 1
      /\ \A i \in 1..n : r[i] = q[i]
      /\ r[n + 1] = notif
  BY AppendProperties
<1>3. /\ P \in [1..n -> Nat]
      /\ \A i, j \in 1..n : i < j => P[i] < P[j]
      /\ \A i \in 1..n : q[i].count = Cardinality({u \in DOMAIN woken : woken[u] = P[i]})
      /\ \A u \in DOMAIN woken : \E i \in 1..n : woken[u] = P[i]
  BY DEF QueueOf
<1>4. /\ DOMAIN all = DOMAIN woken \cup S
      /\ \A u \in S : all[u] = p
      /\ \A u \in DOMAIN woken : all[u] = woken[u]
  OBVIOUS
<1> HIDE DEF n, r, all
<1>5. /\ \A i \in 1..(n+1) : i # n + 1 => i \in 1..n
      /\ \A i \in 1..n : i \in 1..(n+1) /\ i # n + 1
      /\ n + 1 \in 1..(n+1)
  BY <1>1
<1>6. P2[n+1] = p /\ \A i \in 1..n : P2[i] = P[i]
  BY <1>5
<1>7. P2 \in [1..(n+1) -> Nat]
  BY <1>3, <1>5
<1> HIDE DEF P2
<1>8. ASSUME NEW i \in 1..(n+1), NEW j \in 1..(n+1), i < j
      PROVE  P2[i] < P2[j]
  <2>1. i \in 1..n
    BY <1>1, <1>8
  <2>2. CASE j = n + 1
    <3>1. P[i] < p
      BY <2>1 DEF n
    <3> QED
      BY <1>6, <2>1, <2>2, <3>1
  <2>3. CASE j # n + 1
    BY <1>3, <1>5, <1>6, <1>8, <2>1, <2>3
  <2> QED
    BY <2>2, <2>3
<1>9. ASSUME NEW i \in 1..n
      PROVE  r[i].count = Cardinality({u \in DOMAIN all : all[u] = P2[i]})
  <2>1. P[i] # p
    BY <1>3 DEF n
  <2>2. {u \in DOMAIN all : all[u] = P2[i]} = {u \in DOMAIN woken : woken[u] = P[i]}
    BY <1>4, <1>6, <2>1
  <2> QED
    BY <1>2, <1>3, <2>2
<1>10. r[n+1].count = Cardinality({u \in DOMAIN all : all[u] = P2[n+1]})
  <2>1. \A u \in DOMAIN woken : woken[u] # p
    BY <1>3 DEF n
  <2>2. {u \in DOMAIN all : all[u] = P2[n+1]} = S
    BY <1>4, <1>6, <2>1
  <2> QED
    BY <1>2, <2>2
<1>11. \A i \in 1..(n+1) : r[i].count = Cardinality({u \in DOMAIN all : all[u] = P2[i]})
  BY <1>5, <1>9, <1>10
<1>12. ASSUME NEW u \in DOMAIN all
       PROVE  \E i \in 1..(n+1) : all[u] = P2[i]
  <2>1. CASE u \in S
    BY <1>4, <1>5, <1>6, <2>1
  <2>2. CASE u \in DOMAIN woken
    BY <1>3, <1>4, <1>5, <1>6, <2>2
  <2> QED
    BY <1>4, <2>1, <2>2
<1>13. QueueOf(r, all, P2)
  BY <1>2, <1>7, <1>8, <1>11, <1>12 DEF QueueOf
<1> QED
  BY <1>2, <1>6, <1>13 DEF n, r, all, AfterNotify

-----------------------------------------------------------------------------
(* Time: the events that a thread has handled.                             *)

Own(lg, t) == {q \in PositionsOf(lg) : lg[q + 1].tid = t /\ lg[q + 1].type # "OTHER"}

\* LocalTime, read from a log.
TimeOf(lg, p) == 1 + Cardinality({q \in Own(lg, lg[p + 1].tid) : q < p})

\* c is the clock of the event at p, as far as anyone can tell.
Carries(lg, kept, c, p) ==
    /\ Reflects(lg, kept, c, Upto(lg, {p}))
    /\ c[lg[p + 1].tid] >= TimeOf(lg, p)

\* An event that is appended is the last one of its thread, and changes the time of
\* no other event.
LEMMA TimeAfter ==
    ASSUME NEW lg, LogShape(lg), NEW x \in LogEntry
    PROVE  LET lg2 == Append(lg, x)
           IN /\ \A u : Cardinality(Own(lg, u)) \in Nat
              /\ \A u : Cardinality(Own(lg2, u)) = Cardinality(Own(lg, u))
                          + (IF x.tid = u /\ x.type # "OTHER" THEN 1 ELSE 0)
              /\ \A p \in PositionsOf(lg) : TimeOf(lg2, p) = TimeOf(lg, p)
              /\ TimeOf(lg2, Len(lg)) = 1 + Cardinality(Own(lg, x.tid))
<1> DEFINE lg2 == Append(lg, x)
           n == Len(lg)
<1>1. /\ PositionsOf(lg2) = PositionsOf(lg) \cup {n} /\ n \notin PositionsOf(lg)
      /\ \A p \in PositionsOf(lg) : lg2[p + 1] = lg[p + 1]
      /\ lg2[n + 1] = x
  BY PastAfter
<1>2. n \in Nat /\ PositionsOf(lg) = 0..(n - 1)
  BY LenProperties DEF LogShape, PositionsOf
<1> HIDE DEF lg2, n
<1>3. \A u : Own(lg, u) \subseteq PositionsOf(lg)
  BY DEF Own
<1>4. IsFiniteSet(PositionsOf(lg))
  BY <1>2, FS_Interval
<1>5. \A u : IsFiniteSet(Own(lg, u)) /\ Cardinality(Own(lg, u)) \in Nat
  BY <1>3, <1>4, FS_Subset, FS_CardinalityType
<1>6. \A u : Own(lg2, u) = Own(lg, u) \cup (IF x.tid = u /\ x.type # "OTHER" THEN {n} ELSE {})
  BY <1>1 DEF Own
<1>7. \A u : n \notin Own(lg, u)
  BY <1>1, <1>3
<1>8. ASSUME NEW u
      PROVE  Cardinality(Own(lg2, u)) = Cardinality(Own(lg, u))
               + (IF x.tid = u /\ x.type # "OTHER" THEN 1 ELSE 0)
  <2>1. CASE x.tid = u /\ x.type # "OTHER"
    <3>1. Own(lg2, u) = Own(lg, u) \cup {n}
      BY <1>6, <2>1
    <3>2. Cardinality(Own(lg, u) \cup {n}) = Cardinality(Own(lg, u)) + 1
      BY <1>5, <1>7, FS_AddElement
    <3> QED
      BY <2>1, <3>1, <3>2
  <2>2. CASE ~(x.tid = u /\ x.type # "OTHER")
    <3>1. Own(lg2, u) = Own(lg, u)
      BY <1>6, <2>2
    <3> QED
      BY <1>5, <2>2, <3>1
  <2> QED
    BY <2>1, <2>2
<1>9. \A p \in PositionsOf(lg) : TimeOf(lg2, p) = TimeOf(lg, p)
  <2> TAKE p \in PositionsOf(lg)
  <2> DEFINE o == lg[p + 1].tid
  <2>1. lg2[p + 1].tid = o
    BY <1>1
  <2> HIDE DEF o
  <2>2. ~(n < p)
    BY <1>2
  <2>3. {q \in Own(lg2, o) : q < p} = {q \in Own(lg, o) : q < p}
    BY <1>6, <2>2
  <2> QED
    BY <2>1, <2>3 DEF TimeOf, o
<1>10. TimeOf(lg2, n) = 1 + Cardinality(Own(lg, x.tid))
  <2>1. \A q \in Own(lg, x.tid) : q < n
    BY <1>2, <1>3
  <2>2. ~(n < n)
    BY <1>2
  <2>3. {q \in Own(lg2, x.tid) : q < n} = Own(lg, x.tid)
    BY <1>6, <2>1, <2>2
  <2> QED
    BY <1>1, <2>3 DEF TimeOf
<1> QED
  BY <1>5, <1>8, <1>9, <1>10 DEF lg2, n

\* Recording an event appends it.
LEMMA RecordAppends ==
    ASSUME LogInv, LogInv', NEW t, NEW type, NEW target, NEW loc, Record(t, type, target, loc)
    PROVE  LET x == NextEntry(t, type, target, loc)
           IN /\ LogShape(log) /\ LogShape(log') /\ Len(log) = pos
              /\ PositionsOf(log) = Positions
              /\ x \in LogEntry /\ x.tid = t /\ x.type = type /\ x.target = target
              /\ log' = Append(log, x)
<1> DEFINE x == NextEntry(t, type, target, loc)
<1>1. log \in Seq(LogEntry) /\ log' \in Seq(LogEntry) /\ Len(log) = pos
  BY DEF LogInv
<1>2. LogShape(log)
  BY <1>1 DEF LogInv, LogShape, Positions, PositionsOf, Entry
<1>3. LogShape(log')
  <2>1. \A p \in 0..(Len(log') - 1) : log'[p + 1].past \subseteq 0..(p - 1)
    BY DEF LogInv, Positions, Entry
  <2> QED
    BY <1>1, <2>1 DEF LogShape, PositionsOf
<1>4. log' = Append(log, x)
  BY DEF Record, NextEntry
<1>5. x.tid = t /\ x.type = type /\ x.target = target
  BY DEF NextEntry
<1> HIDE DEF x
<1>6. Len(log') = pos + 1 /\ log'[pos + 1] = x /\ pos \in Nat
  BY <1>1, RecordFacts DEF x
<1>7. x \in LogEntry
  <2>1. pos + 1 \in 1..Len(log')
    BY <1>6
  <2> QED
    BY <1>1, <1>6, <2>1, ElementOfSeq
<1>8. PositionsOf(log) = Positions
  BY DEF PositionsOf, Positions
<1> QED
  BY <1>1, <1>2, <1>3, <1>4, <1>5, <1>7, <1>8 DEF x

-----------------------------------------------------------------------------
(* What is kept.                                                           *)

\* The handler keeps events.
LEMMA KeptType == TypeOK => Kept \subseteq Event
<1> SUFFICES ASSUME TypeOK
             PROVE  Kept \subseteq Event
  OBVIOUS
<1>1. \A S : \A s \in Seq(S) : Elements(s) \subseteq S
  BY ElementOfSeq, LenProperties DEF Elements
<1>2. EventsIn(index) \subseteq Event
  <2>1. \A d \in DOMAIN index.depEvents, loc \in SrcLocs :
           index.depEvents[d][loc] \in Seq(Event)
    BY DEF TypeOK, IndexType
  <2>2. \A d \in DOMAIN index.depEvents, loc \in SrcLocs :
           Elements(index.depEvents[d][loc]) \subseteq Event
    BY <1>1, <2>1
  <2> QED
    BY <2>2 DEF EventsIn
<1>3. Sections \subseteq CriticalSection
  <2>1. \A l \in Locks, t \in Threads : csHist[l][t] \in Seq(CriticalSection)
    BY DEF TypeOK
  <2>2. \A l \in Locks, t \in Threads : Elements(csHist[l][t]) \subseteq CriticalSection
    BY <1>1, <2>1
  <2> QED
    BY <2>2 DEF Sections
<1> QED
  BY <1>2, <1>3 DEF Kept, KeptEvents, DepEvents, CriticalSection

\* The handler keeps the new event, if one, when each container does.
LEMMA KeptEventsAfter ==
    ASSUME NEW new,
           EventsIn(index') \subseteq EventsIn(index) \cup {new},
           \A l \in Locks, t \in Threads : \A s \in Elements(csHist'[l][t]) :
              /\ s.lock \in KeptEvents \cup {new, NoEvent}
              /\ s.unlock \in KeptEvents \cup {new, NoEvent}
    PROVE  Kept' \subseteq Kept \cup {new}
<1>1. EventsIn(index)' = EventsIn(index')
  BY DEF EventsIn
<1>2. EventsIn(index)' \subseteq KeptEvents \cup {new}
  BY <1>1 DEF KeptEvents, DepEvents
<1>3. \A s \in Sections' : s.lock \in KeptEvents \cup {new, NoEvent}
                           /\ s.unlock \in KeptEvents \cup {new, NoEvent}
  BY DEF Sections
<1>4. KeptEvents' = EventsIn(index)' \cup {s.lock : s \in Sections'} \cup {s.unlock : s \in Sections'}
  BY DEF KeptEvents, DepEvents
<1>5. KeptEvents' \subseteq KeptEvents \cup {new, NoEvent}
  BY <1>2, <1>3, <1>4
<1> QED
  BY <1>5 DEF Kept

\* Each section's events are kept.
LEMMA KeptSections ==
    ASSUME NEW l \in Locks, NEW t \in Threads, NEW s \in Elements(csHist[l][t])
    PROVE  s.lock \in KeptEvents /\ s.unlock \in KeptEvents
<1>1. s \in Sections
  BY DEF Sections
<1> QED
  BY <1>1 DEF KeptEvents

\* What each handler keeps: its event with the clock that its thread has by then, in
\* the handlers of requests, waits, locks and unlocks, and nothing in the others.
LEMMA KeptByEvent ==
    ASSUME TypeOK, NEW t \in Threads
    PROVE  /\ UNCHANGED <<index, csHist>> => Kept' = Kept
           /\ \A c \in CondVars, loc \in SrcLocs : WaitEvent(t, c, loc) =>
                 Kept' \subseteq Kept \cup {[vc |-> clock[t], pos |-> pos]}
           /\ \A c \in CondVars, all \in BOOLEAN : NotifyEvent(t, c, all) =>
                 Kept' \subseteq Kept
           /\ \A l \in Locks, loc \in SrcLocs : RequestEvent(t, l, loc) =>
                 Kept' \subseteq Kept \cup
                    {[vc |-> IF Alone THEN clock[t] ELSE AwakeClock(t, Associated(l)),
                      pos |-> pos]}
           /\ \A l \in Locks : AcquireEvent(t, l) \/ ReleaseEvent(t, l) =>
                 Kept' \subseteq Kept \cup {[vc |-> clock[t], pos |-> pos]}
<1>1. UNCHANGED <<index, csHist>> => Kept' = Kept
  BY DEF Kept, KeptEvents, DepEvents, EventsIn, Sections
<1>2. clock[t] \in Clock /\ pos \in Nat /\ csHist \in [Locks -> [Threads -> Seq(CriticalSection)]]
  BY DEF TypeOK
<1>3. ASSUME NEW c \in CondVars, NEW loc \in SrcLocs, WaitEvent(t, c, loc)
      PROVE  Kept' \subseteq Kept \cup {[vc |-> clock[t], pos |-> pos]}
  <2> DEFINE evt == [vc |-> clock[t], pos |-> pos]
  <2>1. evt \in Event /\ c \in Resources
    BY <1>2 DEF Event, Resources
  <2>2. csHist' = csHist /\ IF Alone THEN index' = index ELSE HandleDepCreation(t, c, loc, evt)
    BY <1>3 DEF WaitEvent
  <2> HIDE DEF evt
  <2>3. EventsIn(index') \subseteq EventsIn(index) \cup {evt}
    BY <2>1, <2>2, TypeOfHandleDepCreation
  <2>4. Kept' \subseteq Kept \cup {evt}
    BY <2>2, <2>3, KeptSections, KeptEventsAfter
  <2> QED
    BY <2>4 DEF evt
<1>4. ASSUME NEW c \in CondVars, NEW all \in BOOLEAN, NotifyEvent(t, c, all)
      PROVE  Kept' \subseteq Kept
  <2>1. csHist' = csHist /\ c \in Resources
    BY <1>4 DEF NotifyEvent, Resources
  <2>2. EventsIn(index') \subseteq EventsIn(index)
    <3>1. CASE Alone
      BY <1>4, <3>1 DEF NotifyEvent
    <3>2. CASE ~Alone
      <4>1. index' = UpdateRecent(index, recent[t], c).index
        BY <1>4, <3>2 DEF NotifyEvent
      <4> QED
        BY <2>1, <4>1, UpdateRecentType DEF TypeOK
    <3> QED
      BY <3>1, <3>2
  <2>3. Kept' \subseteq Kept \cup {NoEvent}
    BY <2>1, <2>2, KeptSections, KeptEventsAfter
  <2>4. NoEvent \notin Kept'
    BY DEF Kept
  <2> QED
    BY <2>3, <2>4
<1>5. ASSUME NEW l \in Locks, NEW loc \in SrcLocs, RequestEvent(t, l, loc)
      PROVE  Kept' \subseteq Kept \cup
                {[vc |-> IF Alone THEN clock[t] ELSE AwakeClock(t, Associated(l)), pos |-> pos]}
  <2> DEFINE vc == IF Alone THEN clock[t] ELSE AwakeClock(t, Associated(l))
             evt == [vc |-> vc, pos |-> pos]
  <2>1. csHist' = csHist /\ IF Alone THEN index' = index ELSE HandleDepCreation(t, l, loc, evt)
    BY <1>5 DEF RequestEvent
  <2>2. l \in Resources /\ Associated(l) \in CondVars
    BY ConstantTypes
  <2>3. vc \in Clock
    BY <1>2, <2>2, TypeOfAwakeClock
  <2> HIDE DEF vc
  <2>4. evt \in Event
    BY <1>2, <2>3 DEF Event
  <2> HIDE DEF evt
  <2>5. EventsIn(index') \subseteq EventsIn(index) \cup {evt}
    BY <2>1, <2>2, <2>4, TypeOfHandleDepCreation
  <2>6. Kept' \subseteq Kept \cup {evt}
    BY <2>1, <2>5, KeptSections, KeptEventsAfter
  <2> QED
    BY <2>6 DEF evt, vc
<1>6. ASSUME NEW l \in Locks, AcquireEvent(t, l)
      PROVE  Kept' \subseteq Kept \cup {[vc |-> clock[t], pos |-> pos]}
  <2> DEFINE evt == [vc |-> clock[t], pos |-> pos]
             section == [lock |-> evt, unlock |-> NoEvent]
  <2>1. index' = index /\ csHist' = IF held'[t][l] = 1
                     THEN [csHist EXCEPT ![l][t] = Append(@, section)] ELSE csHist
    BY <1>6 DEF AcquireEvent
  <2>2. section \in CriticalSection /\ section.lock = evt /\ section.unlock = NoEvent
    BY <1>2, ConstantTypes DEF CriticalSection, Event
  <2> HIDE DEF section, evt
  <2>3. csHist[l][t] \in Seq(CriticalSection)
    BY <1>2
  <2>4. Elements(Append(csHist[l][t], section)) = Elements(csHist[l][t]) \cup {section}
    BY <2>2, <2>3, ElementsOfAppend
  <2>5. \A k \in Locks, u \in Threads :
           \/ csHist'[k][u] = csHist[k][u]
           \/ k = l /\ u = t /\ csHist'[k][u] = Append(csHist[l][t], section)
    BY <1>2, <2>1
  <2>6. \A k \in Locks, u \in Threads : \A s \in Elements(csHist'[k][u]) :
           s.lock \in KeptEvents \cup {evt, NoEvent} /\ s.unlock \in KeptEvents \cup {evt, NoEvent}
    BY <2>2, <2>4, <2>5, KeptSections
  <2>7. Kept' \subseteq Kept \cup {evt}
    BY <2>1, <2>6, KeptEventsAfter
  <2> QED
    BY <2>7 DEF evt
<1>7. ASSUME NEW l \in Locks, ReleaseEvent(t, l)
      PROVE  Kept' \subseteq Kept \cup {[vc |-> clock[t], pos |-> pos]}
  <2> DEFINE evt == [vc |-> clock[t], pos |-> pos]
             cs == csHist[l][t]
             closed == CloseLast(cs, evt)
  <2>1. index' = index /\ csHist' = IF held'[t][l] = 0
                     THEN [csHist EXCEPT ![l][t] = CloseLast(@, evt)] ELSE csHist
    BY <1>7 DEF ReleaseEvent
  <2>2. evt \in Event
    BY <1>2 DEF Event
  <2> HIDE DEF evt
  <2>3. cs \in Seq(CriticalSection)
    BY <1>2
  <2>4. \A s \in Elements(closed) : /\ s.lock \in KeptEvents \cup {evt, NoEvent}
                                    /\ s.unlock \in KeptEvents \cup {evt, NoEvent}
    <3>1. /\ closed \in Seq(CriticalSection) /\ Len(closed) = Len(cs)
          /\ \A i \in 1..Len(cs) : /\ closed[i].lock = cs[i].lock
                                   /\ closed[i].unlock = IF i = Len(cs) THEN evt ELSE cs[i].unlock
      BY <2>2, <2>3, CloseLastFacts
    <3>2. DOMAIN closed = 1..Len(cs) /\ DOMAIN cs = 1..Len(cs)
      BY <2>3, <3>1, LenProperties
    <3> HIDE DEF closed
    <3>3. \A i \in 1..Len(cs) : cs[i] \in Elements(cs)
      BY <3>2 DEF Elements
    <3>4. \A i \in 1..Len(cs) : cs[i].lock \in KeptEvents /\ cs[i].unlock \in KeptEvents
      BY <3>3, KeptSections
    <3> HIDE DEF cs
    <3>5. \A i \in 1..Len(cs) : /\ closed[i].lock \in KeptEvents \cup {evt, NoEvent}
                                /\ closed[i].unlock \in KeptEvents \cup {evt, NoEvent}
      BY <3>1, <3>4
    <3> QED
      BY <3>2, <3>5 DEF Elements, closed
  <2>5. \A k \in Locks, u \in Threads :
           \/ csHist'[k][u] = csHist[k][u]
           \/ k = l /\ u = t /\ csHist'[k][u] = closed
    BY <1>2, <2>1
  <2>6. \A k \in Locks, u \in Threads : \A s \in Elements(csHist'[k][u]) :
           s.lock \in KeptEvents \cup {evt, NoEvent} /\ s.unlock \in KeptEvents \cup {evt, NoEvent}
    BY <2>4, <2>5, KeptSections
  <2>7. Kept' \subseteq Kept \cup {evt}
    BY <2>1, <2>6, KeptEventsAfter
  <2> QED
    BY <2>7 DEF evt
<1> QED
  BY <1>1, <1>3, <1>4, <1>5, <1>6, <1>7

-----------------------------------------------------------------------------
(* An event, whatever its type.                                            *)

\* The past of the event that is recorded.
PastOf(t, type, target, loc) == NextEntry(t, type, target, loc).past

\* Clocks only grow.
LEMMA ClocksGrow ==
    ASSUME NEW v \in Clock
    PROVE  /\ Leq(v, v)
           /\ \A w \in Clock : Leq(v, Merge(v, w))
           /\ \A t \in Threads : Leq(v, Increment(v, t))
BY DEF Leq, Merge, Increment, Clock

\* An event of t, which is about to be recorded and whose clock is vc by the time that
\* the handler may keep it.
EventStep(t, type, target, loc, vc) ==
    /\ Record(t, type, target, loc)
    /\ t \in Alive
    /\ \A u \in Alive : u \in Alive' \/ (type = "JOIN" /\ u = target)
    /\ \A u \in Alive' : u \in Alive \/ (type = "FORK" /\ u = target)
    /\ type = "JOIN" => target # t
    /\ type = "FORK" => target \in Threads /\ status[target] = "unborn" /\ vc = clock[t]
    /\ \A u \in Threads : status'[u] = "unborn" =>
          status[u] = "unborn" /\ ~(type = "FORK" /\ u = target)
    /\ vc \in Clock /\ vc[t] = clock[t][t] /\ Leq(clock[t], vc)
    /\ Kept' \subseteq Kept \cup {[vc |-> vc, pos |-> pos]}
    /\ type = "FORK" => Kept' \subseteq Kept
    /\ \A u \in Threads : clock'[u] =
          IF u = t THEN IF type = "OTHER" THEN vc ELSE Increment(vc, t)
          ELSE IF type = "FORK" /\ u = target THEN Merge(clock[u], vc)
          ELSE clock[u]

\* Each thread knows its own events, which its clock counts, and somebody alive knows
\* whatever happened: a thread is joined by one that learns what it knew.
PastInv ==
    /\ \A e \in Kept : e.pos \in PositionsOf(log)
    /\ \A u \in Threads : Mine(log, u) \subseteq Known(log, u)
    /\ \A u \in Threads : status[u] = "unborn" => Mine(log, u) = {}
    /\ \A p \in PositionsOf(log) : \E v \in Alive : p \in Known(log, v)
    /\ \A u \in Threads : clock[u][u] = 1 + Cardinality(Own(log, u))

\* What is known after an event.
LEMMA KnownAfter ==
    ASSUME LogInv, LogInv', NEW t \in Threads, NEW type, NEW target, NEW loc, NEW vc,
           EventStep(t, type, target, loc, vc)
    PROVE  LET past == PastOf(t, type, target, loc)
           IN /\ Known(log, t) \subseteq past /\ past \subseteq PositionsOf(log)
              /\ type = "JOIN" => Known(log, target) \subseteq past
              /\ PositionsOf(log') = PositionsOf(log) \cup {pos} /\ pos \notin PositionsOf(log)
              /\ \A p \in PositionsOf(log) : log'[p + 1] = log[p + 1]
              /\ \A P : P \subseteq PositionsOf(log) =>
                    Upto(log', P) = Upto(log, P) /\ Upto(log, P) \subseteq PositionsOf(log)
              /\ Upto(log', {pos}) = past \cup {pos}
              /\ \A u : u = t \/ (type = "FORK" /\ u = target) =>
                    Known(log', u) = past \cup {pos}
              /\ \A u : ~(u = t \/ (type = "FORK" /\ u = target)) =>
                    Known(log', u) = Known(log, u) /\ Mine(log', u) = Mine(log, u)
              /\ \A y : type = "WR" /\ y = target => Written(log', y) = past \cup {pos}
              /\ \A y : ~(type = "WR" /\ y = target) => Written(log', y) = Written(log, y)
<1> DEFINE x == NextEntry(t, type, target, loc)
           past == PastOf(t, type, target, loc)
<1>1. /\ LogShape(log) /\ LogShape(log') /\ Len(log) = pos
      /\ x \in LogEntry /\ x.tid = t /\ x.type = type /\ x.target = target
      /\ log' = Append(log, x)
  BY RecordAppends DEF EventStep
<1>2. x.past = past
  BY DEF PastOf
<1>3. /\ Known(log, t) \subseteq past
      /\ type = "JOIN" => Known(log, target) \subseteq past
  <2>1. past = Known(log, t)
             \cup (IF type = "RD" THEN Written(log, target) ELSE {})
             \cup (IF type = "JOIN" THEN Known(log, target) ELSE {})
             \cup (IF type = "REQ" /\ status[t] = "sleeping"
                   THEN Upto(log, {wokenBy[t]} \ {NotWoken}) ELSE {})
    BY PastOfNext DEF PastOf
  <2> HIDE DEF past
  <2> QED
    BY <2>1
<1>4. past \subseteq PositionsOf(log)
  <2>1. past \subseteq 0..(pos - 1)
    <3>1. log' \in Seq(LogEntry)
      BY DEF LogInv
    <3>2. Len(log') = pos + 1 /\ log'[pos + 1] = x /\ pos \in Nat
      BY <3>1, RecordFacts DEF EventStep
    <3>3. pos \in PositionsOf(log')
      BY <3>2 DEF PositionsOf
    <3> QED
      BY <1>1, <1>2, <3>2, <3>3 DEF LogShape
  <2> QED
    BY <1>1, <2>1 DEF PositionsOf
<1> HIDE DEF x, past
<1>5. LET lg2 == Append(log, x)
          n == Len(log)
          mine(u) == x.tid = u \/ (x.type = "FORK" /\ x.target = u)
      IN /\ PositionsOf(lg2) = PositionsOf(log) \cup {n} /\ n \notin PositionsOf(log)
         /\ \A p \in PositionsOf(log) : lg2[p + 1] = log[p + 1]
         /\ \A P : P \subseteq PositionsOf(log) => Upto(lg2, P) = Upto(log, P)
         /\ Upto(lg2, {n}) = {n} \cup x.past
         /\ \A u : mine(u) => Known(lg2, u) = {n} \cup x.past
         /\ \A u : ~mine(u) => Known(lg2, u) = Known(log, u) /\ Mine(lg2, u) = Mine(log, u)
         /\ \A y : x.type = "WR" /\ x.target = y => Written(lg2, y) = {n} \cup x.past
         /\ \A y : ~(x.type = "WR" /\ x.target = y) => Written(lg2, y) = Written(log, y)
  BY <1>1, PastAfter
<1>6. /\ PositionsOf(log') = PositionsOf(log) \cup {pos} /\ pos \notin PositionsOf(log)
      /\ \A p \in PositionsOf(log) : log'[p + 1] = log[p + 1]
      /\ \A P : P \subseteq PositionsOf(log) => Upto(log', P) = Upto(log, P)
      /\ Upto(log', {pos}) = past \cup {pos}
      /\ \A u : u = t \/ (type = "FORK" /\ u = target) => Known(log', u) = past \cup {pos}
      /\ \A u : ~(u = t \/ (type = "FORK" /\ u = target)) =>
            Known(log', u) = Known(log, u) /\ Mine(log', u) = Mine(log, u)
      /\ \A y : type = "WR" /\ y = target => Written(log', y) = past \cup {pos}
      /\ \A y : ~(type = "WR" /\ y = target) => Written(log', y) = Written(log, y)
  BY <1>1, <1>2, <1>5
<1>8. \A P : P \subseteq PositionsOf(log) => Upto(log, P) \subseteq PositionsOf(log)
  BY <1>1, PastInLog
<1> QED
  BY <1>3, <1>4, <1>6, <1>8 DEF past

\* Every event keeps the invariant of the past.
LEMMA PastOfEvent ==
    ASSUME TypeOK, OwnTimeInv, LogInv, LogInv', PastInv,
           NEW t \in Threads, NEW type, NEW target, NEW loc, NEW vc,
           EventStep(t, type, target, loc, vc)
    PROVE  PastInv'
<1> DEFINE past == PastOf(t, type, target, loc)
           mine(u) == u = t \/ (type = "FORK" /\ u = target)
<1>1. /\ Known(log, t) \subseteq past /\ past \subseteq PositionsOf(log)
      /\ type = "JOIN" => Known(log, target) \subseteq past
      /\ PositionsOf(log') = PositionsOf(log) \cup {pos} /\ pos \notin PositionsOf(log)
      /\ \A p \in PositionsOf(log) : log'[p + 1] = log[p + 1]
      /\ \A u : mine(u) => Known(log', u) = past \cup {pos}
      /\ \A u : ~mine(u) => Known(log', u) = Known(log, u) /\ Mine(log', u) = Mine(log, u)
  BY KnownAfter
<1> HIDE DEF past
<1>2. \A e \in Kept' : e.pos \in PositionsOf(log')
  <2>1. Kept' \subseteq Kept \cup {[vc |-> vc, pos |-> pos]}
    BY DEF EventStep
  <2> QED
    BY <1>1, <2>1 DEF PastInv
<1>3. ASSUME NEW u \in Threads
      PROVE  Mine(log', u) \subseteq Known(log', u)
  <2>1. CASE ~mine(u)
    BY <1>1, <2>1 DEF PastInv
  <2>2. CASE mine(u)
    <3>1. Mine(log', u) \subseteq Mine(log, u) \cup {pos}
      BY <1>1 DEF Mine
    <3>2. u = t => Mine(log, u) \subseteq past
      BY <1>1 DEF PastInv
    <3>3. u # t => Mine(log, u) = {}
      BY <2>2 DEF PastInv, EventStep
    <3> QED
      BY <1>1, <2>2, <3>1, <3>2, <3>3
  <2> QED
    BY <2>1, <2>2
<1>4. ASSUME NEW u \in Threads, status'[u] = "unborn"
      PROVE  Mine(log', u) = {}
  <2>1. status[u] = "unborn" /\ ~(type = "FORK" /\ u = target)
    BY <1>4 DEF EventStep
  <2>2. u # t
    BY <2>1 DEF EventStep, Alive
  <2> QED
    BY <1>1, <2>1, <2>2 DEF PastInv
<1>5. ASSUME NEW p \in PositionsOf(log')
      PROVE  \E v \in Alive' : p \in Known(log', v)
  <2>1. t \in Alive' /\ Known(log', t) = past \cup {pos}
    BY <1>1 DEF EventStep
  <2>2. CASE p = pos
    BY <2>1, <2>2
  <2>3. CASE p \in PositionsOf(log)
    <3>1. PICK v \in Alive : p \in Known(log, v)
      BY <2>3 DEF PastInv
    <3>2. CASE v = t \/ (type = "JOIN" /\ v = target)
      BY <1>1, <2>1, <3>1, <3>2
    <3>3. CASE ~(v = t \/ (type = "JOIN" /\ v = target))
      <4>1. v \in Alive' /\ ~mine(v)
        BY <3>3 DEF EventStep, Alive
      <4> QED
        BY <1>1, <3>1, <4>1
    <3> QED
      BY <3>2, <3>3
  <2> QED
    BY <1>1, <2>2, <2>3
<1>6. ASSUME NEW u \in Threads
      PROVE  clock'[u][u] = 1 + Cardinality(Own(log', u))
  <2>1. /\ Cardinality(Own(log, u)) \in Nat
        /\ Cardinality(Own(log', u)) = Cardinality(Own(log, u))
             + (IF t = u /\ type # "OTHER" THEN 1 ELSE 0)
    <3> DEFINE x == NextEntry(t, type, target, loc)
    <3>1. /\ LogShape(log) /\ x \in LogEntry /\ x.tid = t /\ x.type = type
          /\ log' = Append(log, x)
      BY RecordAppends DEF EventStep
    <3> HIDE DEF x
    <3> QED
      BY <3>1, TimeAfter
  <2>2. clock[u][u] = 1 + Cardinality(Own(log, u))
    BY DEF PastInv
  <2>3. /\ vc \in Clock /\ vc[t] = clock[t][t] /\ clock[u] \in Clock
        /\ clock'[u] = IF u = t THEN IF type = "OTHER" THEN vc ELSE Increment(vc, t)
                       ELSE IF type = "FORK" /\ u = target THEN Merge(clock[u], vc)
                       ELSE clock[u]
    BY DEF EventStep, TypeOK
  <2>4. /\ Increment(vc, t)[t] = vc[t] + 1
        /\ Merge(clock[u], vc)[u] = IF clock[u][u] < vc[u] THEN vc[u] ELSE clock[u][u]
    BY <2>3, ClockTypes
  <2>5. CASE u = t
    BY <2>1, <2>2, <2>3, <2>4, <2>5
  <2>6. CASE u # t /\ ~(type = "FORK" /\ u = target)
    BY <2>1, <2>2, <2>3, <2>6
  <2>7. CASE u # t /\ type = "FORK" /\ u = target
    <3>1. vc[u] < clock[u][u]
      <4>1. status[u] = "unborn" /\ vc = clock[t]
        BY <2>7 DEF EventStep
      <4>2. Behind(clock[t], u)
        BY <2>7 DEF OwnTimeInv
      <4> QED
        BY <4>1, <4>2 DEF Behind
    <3>2. vc[u] \in Nat /\ clock[u][u] \in Nat
      BY <2>3 DEF Clock
    <3> QED
      BY <2>1, <2>2, <2>3, <2>4, <2>7, <3>1, <3>2
  <2> QED
    BY <2>5, <2>6, <2>7
<1>7. PastInv' <=> /\ \A e \in Kept' : e.pos \in PositionsOf(log')
                   /\ \A u \in Threads : Mine(log', u) \subseteq Known(log', u)
                   /\ \A u \in Threads : status'[u] = "unborn" => Mine(log', u) = {}
                   /\ \A p \in PositionsOf(log') : \E v \in Alive' : p \in Known(log', v)
                   /\ \A u \in Threads : clock'[u][u] = 1 + Cardinality(Own(log', u))
  BY DEF PastInv
<1> QED
  BY <1>2, <1>3, <1>4, <1>5, <1>6, <1>7

\* The only thread alive knows all that happened.
LEMMA AloneKnows ==
    ASSUME SleepInv, PastInv, NEW t \in Alive, Alone
    PROVE  PositionsOf(log) \subseteq Known(log, t)
<1>1. Alive = {t}
  BY AloneFacts
<1> QED
  BY <1>1 DEF PastInv

\* The kept events and the clocks of the threads know what happened before.
ClockInv ==
    /\ \A e \in Kept : Reflects(log, Kept, e.vc, Upto(log, {e.pos}))
    /\ \A u \in Threads : Reflects(log, Kept, clock[u], Known(log, u))

\* What a clock reflects, it still does after an event; and the clock of the event
\* reflects the event and its past.
LEMMA ReflectsStep ==
    ASSUME TypeOK, OwnTimeInv, LogInv, LogInv', PastInv,
           NEW t \in Threads, NEW type, NEW target, NEW loc, NEW vc,
           EventStep(t, type, target, loc, vc),
           Reflects(log, Kept, vc, PastOf(t, type, target, loc))
    PROVE  LET past == PastOf(t, type, target, loc)
           IN /\ Reflects(log', Kept', vc, past \cup {pos})
              /\ Reflects(log', Kept', Increment(vc, t), past \cup {pos})
              /\ \A c \in Clock : \A R \in SUBSET PositionsOf(log) :
                    Reflects(log, Kept, c, R) /\ c[t] < clock[t][t] => Reflects(log', Kept', c, R)
              /\ \A e \in Kept : e.vc[t] < clock[t][t]
<1> DEFINE past == PastOf(t, type, target, loc)
           x == NextEntry(t, type, target, loc)
           now == clock[t][t]
<1>1. /\ Known(log, t) \subseteq past /\ past \subseteq PositionsOf(log)
  BY KnownAfter
<1>2. /\ LogShape(log) /\ Len(log) = pos
      /\ x \in LogEntry /\ x.tid = t
      /\ log' = Append(log, x)
  BY RecordAppends DEF EventStep
<1>3. log \in Seq(LogEntry)
  BY DEF LogInv
<1>4. Kept \subseteq Event /\ \A e \in Kept : e.pos \in PositionsOf(log)
  BY KeptType DEF PastInv
<1>5. vc \in Clock /\ vc[t] = now /\ now \in Nat
  BY DEF EventStep, TypeOK, Clock
<1>6. Kept' \subseteq Kept \cup {[vc |-> vc, pos |-> Len(log)]}
  BY <1>2 DEF EventStep
<1>7. \A e \in Kept : e.vc[t] < now
  <2> TAKE e \in Kept
  <2>1. e.vc \in KeptClocks
    BY DEF Kept, KeptClocks
  <2>2. Behind(e.vc, t)
    BY <2>1 DEF OwnTimeInv
  <2>3. status[t] # "ended"
    BY DEF EventStep, Alive
  <2> QED
    BY <2>2, <2>3 DEF Behind
<1>8. \A e \in Kept : log[e.pos + 1].tid = t => e.pos \in past
  BY <1>1, <1>4 DEF PastInv, Mine
<1> HIDE DEF past, x, now
<1>9. Reflects(log, Kept, vc, past)
  BY DEF past
<1>10. LET lg2 == Append(log, x)
       IN /\ Reflects(lg2, Kept', vc, past \cup {Len(log)})
          /\ Reflects(lg2, Kept', Increment(vc, t), past \cup {Len(log)})
          /\ \A c \in Clock : \A R \in SUBSET PositionsOf(log) :
                Reflects(log, Kept, c, R) /\ c[t] < now => Reflects(lg2, Kept', c, R)
  BY <1>1, <1>2, <1>3, <1>4, <1>5, <1>6, <1>7, <1>8, <1>9, ReflectsAfter
<1> QED
  BY <1>2, <1>7, <1>10 DEF past, now

\* A thread that is forked learns what the one that forks it knows.
LEMMA ReflectsFork ==
    ASSUME TypeOK, OwnTimeInv, LogInv, LogInv', PastInv, ClockInv,
           NEW t \in Threads, NEW target, NEW loc, NEW vc,
           EventStep(t, "FORK", target, loc, vc),
           Reflects(log, Kept, vc, PastOf(t, "FORK", target, loc))
    PROVE  Reflects(log', Kept', Merge(clock[target], vc),
                    PastOf(t, "FORK", target, loc) \cup {pos})
<1> DEFINE past == PastOf(t, "FORK", target, loc)
           m == Merge(clock[target], vc)
<1>1. /\ target \in Threads /\ status[target] = "unborn" /\ vc = clock[t] /\ target # t
      /\ Kept' \subseteq Kept
      /\ vc \in Clock /\ clock[target] \in Clock
  BY DEF EventStep, TypeOK, Alive
<1>2. Reflects(log, Kept, clock[target], {})
  <2>1. Mine(log, target) = {}
    BY <1>1 DEF PastInv
  <2>2. Known(log, target) = {}
    BY <2>1 DEF Known, Upto, Latest
  <2> QED
    BY <1>1, <2>2 DEF ClockInv
<1>3. Kept \subseteq Event /\ \A e \in Kept : e.pos \in PositionsOf(log)
  BY KeptType DEF PastInv
<1>4. log \in Seq(LogEntry)
  BY DEF LogInv
<1>5. m \in Clock /\ m[t] = clock[t][t]
  <2>1. Behind(clock[target], t)
    BY <1>1 DEF OwnTimeInv
  <2>2. clock[target][t] \in Nat /\ clock[t][t] \in Nat
    BY <1>1 DEF TypeOK, Clock
  <2>3. clock[target][t] <= clock[t][t]
    BY <2>1, <2>2 DEF Behind
  <2>4. m \in Clock /\ m[t] = IF clock[target][t] < vc[t] THEN vc[t] ELSE clock[target][t]
    BY <1>1, ClockTypes
  <2> HIDE DEF m
  <2> QED
    BY <1>1, <2>2, <2>3, <2>4
<1> HIDE DEF past
<1>6. Reflects(log, Kept, m, past)
  <2>1. Reflects(log, Kept, vc, past)
    BY DEF past
  <2>2. Reflects(log, Kept, Merge(clock[target], vc), {} \cup past)
    BY <1>1, <1>2, <1>3, <1>4, <2>1, ReflectsMerge
  <2>3. {} \cup past = past
    OBVIOUS
  <2> QED
    BY <2>2, <2>3
<1>7. /\ \A e \in Kept : e.pos # pos
      /\ \A e \in Kept : log'[e.pos + 1] = log[e.pos + 1]
  BY <1>3, KnownAfter
<1> HIDE DEF m
<1>8. Reflects(log', Kept, m, past \cup {pos})
  BY <1>6, <1>7 DEF Reflects
<1>9. Reflects(log', Kept', m, past \cup {pos})
  BY <1>1, <1>8 DEF Reflects
<1> QED
  BY <1>9 DEF m, past

\* Every event whose clock reflects its past keeps the clocks true to the past.
LEMMA ClockOfEvent ==
    ASSUME TypeOK, OwnTimeInv, LogInv, LogInv', PastInv, ClockInv,
           NEW t \in Threads, NEW type, NEW target, NEW loc, NEW vc,
           EventStep(t, type, target, loc, vc),
           Reflects(log, Kept, vc, PastOf(t, type, target, loc))
    PROVE  ClockInv'
<1> DEFINE past == PastOf(t, type, target, loc)
           mine(u) == u = t \/ (type = "FORK" /\ u = target)
<1>1. /\ Reflects(log', Kept', vc, past \cup {pos})
      /\ Reflects(log', Kept', Increment(vc, t), past \cup {pos})
      /\ \A c \in Clock : \A R \in SUBSET PositionsOf(log) :
            Reflects(log, Kept, c, R) /\ c[t] < clock[t][t] => Reflects(log', Kept', c, R)
      /\ \A e \in Kept : e.vc[t] < clock[t][t]
  BY ReflectsStep
<1>2. /\ \A P : P \subseteq PositionsOf(log) =>
            Upto(log', P) = Upto(log, P) /\ Upto(log, P) \subseteq PositionsOf(log)
      /\ Upto(log', {pos}) = past \cup {pos}
      /\ \A u : mine(u) => Known(log', u) = past \cup {pos}
      /\ \A u : ~mine(u) => Known(log', u) = Known(log, u)
  BY KnownAfter
<1>3. type = "FORK" => Reflects(log', Kept', Merge(clock[target], vc), past \cup {pos})
  BY ReflectsFork
<1>4. Kept \subseteq Event /\ \A e \in Kept : e.pos \in PositionsOf(log)
  BY KeptType DEF PastInv
<1>5. /\ Kept' \subseteq Kept \cup {[vc |-> vc, pos |-> pos]}
      /\ \A u \in Threads : clock'[u] =
            IF u = t THEN IF type = "OTHER" THEN vc ELSE Increment(vc, t)
            ELSE IF type = "FORK" /\ u = target THEN Merge(clock[u], vc)
            ELSE clock[u]
  BY DEF EventStep
<1>6. \A u : Known(log, u) \in SUBSET PositionsOf(log)
  <2>1. LogShape(log)
    BY RecordAppends DEF EventStep
  <2> QED
    BY <2>1, PastInLog
<1> HIDE DEF past
<1>7. ASSUME NEW e \in Kept'
      PROVE  Reflects(log', Kept', e.vc, Upto(log', {e.pos}))
  <2>1. CASE e = [vc |-> vc, pos |-> pos]
    BY <1>1, <1>2, <2>1
  <2>2. CASE e \in Kept
    <3>1. e.vc \in Clock /\ e.vc[t] < clock[t][t]
      BY <1>1, <1>4, <2>2 DEF Event
    <3>2. /\ Upto(log', {e.pos}) = Upto(log, {e.pos})
          /\ Upto(log, {e.pos}) \in SUBSET PositionsOf(log)
      <4>1. {e.pos} \subseteq PositionsOf(log)
        BY <1>4, <2>2
      <4> QED
        BY <1>2, <4>1
    <3>3. Reflects(log, Kept, e.vc, Upto(log, {e.pos}))
      BY <2>2 DEF ClockInv
    <3> QED
      BY <1>1, <3>1, <3>2, <3>3
  <2> QED
    BY <1>5, <2>1, <2>2
<1>8. ASSUME NEW u \in Threads
      PROVE  Reflects(log', Kept', clock'[u], Known(log', u))
  <2>1. CASE u = t
    <3>1. Known(log', u) = past \cup {pos}
      BY <1>2, <2>1
    <3>2. clock'[u] = vc \/ clock'[u] = Increment(vc, t)
      BY <1>5, <2>1
    <3> QED
      BY <1>1, <3>1, <3>2
  <2>2. CASE u # t /\ type = "FORK" /\ u = target
    <3>1. Known(log', u) = past \cup {pos}
      BY <1>2, <2>2
    <3>2. clock'[u] = Merge(clock[target], vc)
      BY <1>5, <2>2
    <3> QED
      BY <1>3, <2>2, <3>1, <3>2
  <2>3. CASE u # t /\ ~(type = "FORK" /\ u = target)
    <3>1. Known(log', u) = Known(log, u)
      BY <1>2, <2>3
    <3>2. clock'[u] = clock[u] /\ clock[u] \in Clock
      BY <1>5, <2>3 DEF TypeOK
    <3>3. clock[u][t] < clock[t][t]
      <4>1. Behind(clock[u], t)
        BY <2>3 DEF OwnTimeInv
      <4>2. status[t] # "ended"
        BY DEF EventStep, Alive
      <4> QED
        BY <4>1, <4>2 DEF Behind
    <3>4. Reflects(log, Kept, clock[u], Known(log, u))
      BY DEF ClockInv
    <3> QED
      BY <1>1, <1>6, <3>1, <3>2, <3>3, <3>4
  <2> QED
    BY <2>1, <2>2, <2>3
<1>9. ClockInv' <=> /\ \A e \in Kept' : Reflects(log', Kept', e.vc, Upto(log', {e.pos}))
                    /\ \A u \in Threads : Reflects(log', Kept', clock'[u], Known(log', u))
  BY DEF ClockInv
<1> QED
  BY <1>7, <1>8, <1>9

-----------------------------------------------------------------------------
(* The clock of the last write.                                            *)

\* The clock of the last write to x knows the events S: all that the write knew, or
\* what it knew when the handler last kept it, if everyone alive knows the rest.
WriteKnows(x, S) ==
    /\ Reflects(log, Kept, lastWrite[x], S)
    /\ S \subseteq Written(log, x)
    /\ S = Written(log, x) \/ \A v \in Alive : Written(log, x) \subseteq Known(log, v)

WritesInv == \A x \in Vars : \E S : WriteKnows(x, S)

\* What everyone alive knows, they still know after an event.
LEMMA KnownByAll ==
    ASSUME LogInv, LogInv', NEW t \in Threads, NEW type, NEW target, NEW loc, NEW vc,
           EventStep(t, type, target, loc, vc),
           NEW W, \A v \in Alive : W \subseteq Known(log, v)
    PROVE  \A v \in Alive' : W \subseteq Known(log', v)
<1> DEFINE past == PastOf(t, type, target, loc)
           mine(u) == u = t \/ (type = "FORK" /\ u = target)
<1>1. /\ Known(log, t) \subseteq past
      /\ \A u : mine(u) => Known(log', u) = past \cup {pos}
      /\ \A u : ~mine(u) => Known(log', u) = Known(log, u)
  BY KnownAfter
<1> HIDE DEF past
<1>2. t \in Alive /\ \A v \in Alive' : v \in Alive \/ mine(v)
  BY DEF EventStep
<1> QED
  BY <1>1, <1>2

\* An event that does not write y leaves what its last write knows.
LEMMA WriteKept ==
    ASSUME TypeOK, OwnTimeInv, LogInv, LogInv', PastInv, ClockInv,
           NEW t \in Threads, NEW type, NEW target, NEW loc, NEW vc,
           EventStep(t, type, target, loc, vc),
           Reflects(log, Kept, vc, PastOf(t, type, target, loc)),
           NEW y \in Vars, lastWrite'[y] = lastWrite[y], type # "WR" \/ target # y,
           NEW S, WriteKnows(y, S)
    PROVE  WriteKnows(y, S)'
<1>1. Written(log', y) = Written(log, y)
  BY KnownAfter
<1>2. S \in SUBSET PositionsOf(log)
  <2>1. LogShape(log)
    BY RecordAppends DEF EventStep
  <2> QED
    BY <2>1, PastInLog DEF WriteKnows
<1>3. lastWrite[y] \in Clock /\ lastWrite[y][t] < clock[t][t]
  <2>1. Behind(lastWrite[y], t)
    BY KeptMembers DEF OwnTimeInv
  <2>2. status[t] # "ended"
    BY DEF EventStep, Alive
  <2> QED
    BY <2>1, <2>2 DEF Behind, TypeOK
<1>4. Reflects(log', Kept', lastWrite[y], S)
  BY <1>2, <1>3, ReflectsStep DEF WriteKnows
<1>5. ASSUME \A v \in Alive : Written(log, y) \subseteq Known(log, v)
      PROVE  \A v \in Alive' : Written(log, y) \subseteq Known(log', v)
  BY <1>5, KnownByAll
<1> QED
  BY <1>1, <1>4, <1>5 DEF WriteKnows

\* While one thread is alive the handler keeps the clock of an older write, and that
\* thread knows them all.
LEMMA WriteOfAlone ==
    ASSUME TypeOK, OwnTimeInv, LogInv, LogInv', PastInv, ClockInv, SleepInv,
           NEW t \in Threads, NEW y \in Vars, NEW loc, NEW vc,
           EventStep(t, "WR", y, loc, vc),
           Reflects(log, Kept, vc, PastOf(t, "WR", y, loc)),
           Alone, lastWrite'[y] = lastWrite[y],
           NEW S, WriteKnows(y, S)
    PROVE  WriteKnows(y, S)'
<1> DEFINE past == PastOf(t, "WR", y, loc)
<1>1. /\ Written(log', y) = past \cup {pos}
      /\ Known(log', t) = past \cup {pos}
      /\ Known(log, t) \subseteq past
  BY KnownAfter
<1> HIDE DEF past
<1>2. S \in SUBSET PositionsOf(log)
  <2>1. LogShape(log)
    BY RecordAppends DEF EventStep
  <2> QED
    BY <2>1, PastInLog DEF WriteKnows
<1>3. lastWrite[y] \in Clock /\ lastWrite[y][t] < clock[t][t]
  <2>1. Behind(lastWrite[y], t)
    BY KeptMembers DEF OwnTimeInv
  <2>2. status[t] # "ended"
    BY DEF EventStep, Alive
  <2> QED
    BY <2>1, <2>2 DEF Behind, TypeOK
<1>4. Reflects(log', Kept', lastWrite[y], S)
  BY <1>2, <1>3, ReflectsStep DEF WriteKnows
<1>5. t \in Alive /\ Alive' \subseteq Alive
  BY DEF EventStep
<1>6. PositionsOf(log) \subseteq Known(log, t) /\ Alive = {t}
  BY <1>5, AloneKnows, AloneFacts
<1>7. S \subseteq Written(log', y)
  BY <1>1, <1>2, <1>6
<1>8. \A v \in Alive' : Written(log', y) \subseteq Known(log', v)
  BY <1>1, <1>5, <1>6
<1> QED
  BY <1>4, <1>7, <1>8 DEF WriteKnows

\* Otherwise it keeps the clock of the write.
LEMMA WriteOfOne ==
    ASSUME TypeOK, OwnTimeInv, LogInv, LogInv', PastInv,
           NEW t \in Threads, NEW y \in Vars, NEW loc, NEW vc,
           EventStep(t, "WR", y, loc, vc),
           Reflects(log, Kept, vc, PastOf(t, "WR", y, loc)),
           lastWrite'[y] = vc
    PROVE  \E S : WriteKnows(y, S)'
<1> DEFINE past == PastOf(t, "WR", y, loc)
<1>1. Written(log', y) = past \cup {pos}
  BY KnownAfter
<1>2. Reflects(log', Kept', vc, past \cup {pos})
  BY ReflectsStep
<1> HIDE DEF past
<1>3. Reflects(log', Kept', lastWrite'[y], Written(log', y))
  BY <1>1, <1>2
<1>4. PICK R : R = Written(log', y)
  OBVIOUS
<1>5. WriteKnows(y, R)'
  BY <1>3, <1>4 DEF WriteKnows
<1> QED
  BY <1>5

-----------------------------------------------------------------------------
(* The clocks of the notifies in a queue.                                  *)

WokenBy(c) == [u \in Woken(c) |-> wokenBy[u]]

\* The queue of c holds the clocks of the notifies at P, which woke those who are to
\* go on.
QueueKnows(c, P) ==
    /\ QueueOf(notifQueue[c], WokenBy(c), P)
    /\ \A i \in 1..Len(notifQueue[c]) :
          P[i] \in PositionsOf(log) /\ Carries(log, Kept, notifQueue[c][i].vc, P[i])

QueuesInv == \A c \in CondVars : \E P : QueueKnows(c, P)

\* The elements of a queue.
LEMMA QueueElements ==
    ASSUME TypeOK, OwnTimeInv, NEW t \in Alive, NEW c \in CondVars
    PROVE  /\ notifQueue[c] \in Seq(Notification)
           /\ \A i \in 1..Len(notifQueue[c]) :
                 /\ notifQueue[c][i] \in Notification
                 /\ notifQueue[c][i].vc \in Clock
                 /\ notifQueue[c][i].vc[t] < clock[t][t]
                 /\ \A u \in Threads : Behind(notifQueue[c][i].vc, u)
<1>1. notifQueue[c] \in Seq(Notification)
  BY DEF TypeOK
<1> SUFFICES ASSUME NEW i \in 1..Len(notifQueue[c])
             PROVE  /\ notifQueue[c][i] \in Notification
                    /\ notifQueue[c][i].vc \in Clock
                    /\ notifQueue[c][i].vc[t] < clock[t][t]
                    /\ \A u \in Threads : Behind(notifQueue[c][i].vc, u)
  BY <1>1
<1>2. notifQueue[c][i] \in Notification
  BY <1>1, ElementOfSeq
<1>3. notifQueue[c][i] \in Elements(notifQueue[c])
  BY <1>1, LenProperties DEF Elements
<1>4. \A u \in Threads : Behind(notifQueue[c][i].vc, u)
  BY <1>3, KeptMembers DEF OwnTimeInv
<1>5. status[t] # "ended" /\ t \in Threads
  BY DEF Alive
<1>6. notifQueue[c][i].vc[t] < clock[t][t]
  BY <1>4, <1>5 DEF Behind
<1> QED
  BY <1>2, <1>4, <1>6 DEF Notification

\* A clock carries an event on, whatever happens.
LEMMA CarriesStep ==
    ASSUME TypeOK, OwnTimeInv, LogInv, LogInv', PastInv,
           NEW t \in Threads, NEW type, NEW target, NEW loc, NEW vc,
           EventStep(t, type, target, loc, vc),
           Reflects(log, Kept, vc, PastOf(t, type, target, loc))
    PROVE  /\ \A p \in PositionsOf(log) : p \in PositionsOf(log')
           /\ \A c \in Clock : \A p \in PositionsOf(log) :
                 Carries(log, Kept, c, p) /\ c[t] < clock[t][t] => Carries(log', Kept', c, p)
           /\ pos \in PositionsOf(log')
           /\ Carries(log', Kept', vc, pos)
<1> DEFINE past == PastOf(t, type, target, loc)
           x == NextEntry(t, type, target, loc)
<1>1. /\ PositionsOf(log') = PositionsOf(log) \cup {pos}
      /\ \A p \in PositionsOf(log) : log'[p + 1] = log[p + 1]
      /\ \A P : P \subseteq PositionsOf(log) =>
            Upto(log', P) = Upto(log, P) /\ Upto(log, P) \subseteq PositionsOf(log)
      /\ Upto(log', {pos}) = past \cup {pos}
  BY KnownAfter
<1>2. /\ Reflects(log', Kept', vc, past \cup {pos})
      /\ \A c \in Clock : \A R \in SUBSET PositionsOf(log) :
            Reflects(log, Kept, c, R) /\ c[t] < clock[t][t] => Reflects(log', Kept', c, R)
  BY ReflectsStep
<1>3. /\ LogShape(log) /\ Len(log) = pos
      /\ x \in LogEntry /\ x.tid = t
      /\ log' = Append(log, x)
  BY RecordAppends DEF EventStep
<1> HIDE DEF past, x
<1>4. LET lg2 == Append(log, x)
      IN /\ \A p \in PositionsOf(log) : TimeOf(lg2, p) = TimeOf(log, p)
         /\ TimeOf(lg2, Len(log)) = 1 + Cardinality(Own(log, x.tid))
         /\ lg2[Len(log) + 1] = x
  BY <1>3, TimeAfter, PastAfter
<1>5. /\ \A p \in PositionsOf(log) : TimeOf(log', p) = TimeOf(log, p)
      /\ TimeOf(log', pos) = 1 + Cardinality(Own(log, t))
      /\ log'[pos + 1].tid = t
  BY <1>3, <1>4
<1>6. ASSUME NEW c \in Clock, NEW p \in PositionsOf(log),
             Carries(log, Kept, c, p), c[t] < clock[t][t]
      PROVE  Carries(log', Kept', c, p)
  <2>1. Upto(log', {p}) = Upto(log, {p}) /\ Upto(log, {p}) \in SUBSET PositionsOf(log)
    <3>1. {p} \subseteq PositionsOf(log)
      OBVIOUS
    <3> QED
      BY <1>1, <3>1
  <2>2. Reflects(log', Kept', c, Upto(log', {p}))
    BY <1>2, <1>6, <2>1 DEF Carries
  <2>3. c[log'[p + 1].tid] >= TimeOf(log', p)
    BY <1>1, <1>5, <1>6 DEF Carries
  <2> QED
    BY <2>2, <2>3 DEF Carries
<1>7. Carries(log', Kept', vc, pos)
  <2>1. vc[t] = clock[t][t] /\ clock[t][t] = 1 + Cardinality(Own(log, t))
    BY DEF EventStep, PastInv
  <2>2. vc[t] \in Nat
    BY DEF EventStep, Clock
  <2>3. vc[log'[pos + 1].tid] >= TimeOf(log', pos)
    BY <1>5, <2>1, <2>2
  <2> QED
    BY <1>1, <1>2, <2>3 DEF Carries
<1> QED
  BY <1>1, <1>6, <1>7

\* An event that neither ends a wait on c nor notifies anyone leaves its queue.
LEMMA QueueKept ==
    ASSUME TypeOK, OwnTimeInv, LogInv, LogInv', PastInv,
           NEW t \in Threads, NEW type, NEW target, NEW loc, NEW vc,
           EventStep(t, type, target, loc, vc),
           Reflects(log, Kept, vc, PastOf(t, type, target, loc)),
           NEW c \in CondVars, notifQueue'[c] = notifQueue[c], WokenBy(c)' = WokenBy(c),
           NEW P, QueueKnows(c, P)
    PROVE  QueueKnows(c, P)'
<1>1. t \in Alive
  BY DEF EventStep
<1>2. ASSUME NEW i \in 1..Len(notifQueue[c])
      PROVE  P[i] \in PositionsOf(log') /\ Carries(log', Kept', notifQueue[c][i].vc, P[i])
  <2>1. P[i] \in PositionsOf(log) /\ Carries(log, Kept, notifQueue[c][i].vc, P[i])
    BY DEF QueueKnows
  <2>2. notifQueue[c][i].vc \in Clock /\ notifQueue[c][i].vc[t] < clock[t][t]
    BY <1>1, QueueElements
  <2> QED
    BY <2>1, <2>2, CarriesStep
<1>3. QueueOf(notifQueue'[c], WokenBy(c)', P)
  BY DEF QueueKnows
<1> QED
  BY <1>2, <1>3 DEF QueueKnows

\* Quiet events and waits leave the queues, and who is woken.
LEMMA WokenByKept ==
    ASSUME TypeOK, SleepInv, NEW t \in Threads, NEW c \in CondVars
    PROVE  /\ Quiet => WokenBy(c)' = WokenBy(c) /\ notifQueue'[c] = notifQueue[c]
           /\ \A d \in CondVars, loc \in SrcLocs : WaitEvent(t, d, loc) =>
                 WokenBy(c)' = WokenBy(c) /\ notifQueue'[c] = notifQueue[c]
<1>1. WokenBy(c)' = [u \in {v \in Threads : asleep'[v] /\ goal'[v] = c /\ wokenBy'[v] # NotWoken}
                       |-> wokenBy'[u]]
  BY DEF WokenBy, Woken, SleptOn
<1>2. WokenBy(c) = [u \in {v \in Threads : asleep[v] /\ goal[v] = c /\ wokenBy[v] # NotWoken}
                       |-> wokenBy[u]]
  BY DEF WokenBy, Woken, SleptOn
<1>3. ASSUME {v \in Threads : asleep'[v] /\ goal'[v] = c /\ wokenBy'[v] # NotWoken}
               = {v \in Threads : asleep[v] /\ goal[v] = c /\ wokenBy[v] # NotWoken},
             \A v \in Threads : asleep[v] /\ goal[v] = c /\ wokenBy[v] # NotWoken
               => wokenBy'[v] = wokenBy[v]
      PROVE  WokenBy(c)' = WokenBy(c)
  BY <1>1, <1>2, <1>3
<1>4. Quiet => WokenBy(c)' = WokenBy(c) /\ notifQueue'[c] = notifQueue[c]
  <2> HAVE Quiet
  <2>1. asleep' = asleep /\ notifQueue' = notifQueue
        /\ \A u \in Threads : asleep[u] => goal'[u] = goal[u] /\ wokenBy'[u] = wokenBy[u]
    BY DEF Quiet
  <2>2. {v \in Threads : asleep'[v] /\ goal'[v] = c /\ wokenBy'[v] # NotWoken}
          = {v \in Threads : asleep[v] /\ goal[v] = c /\ wokenBy[v] # NotWoken}
    BY <2>1
  <2> QED
    BY <1>3, <2>1, <2>2
<1>5. ASSUME NEW d \in CondVars, NEW loc \in SrcLocs, WaitEvent(t, d, loc)
      PROVE  WokenBy(c)' = WokenBy(c) /\ notifQueue'[c] = notifQueue[c]
  <2>1. ~asleep[t] /\ notifQueue' = notifQueue
    BY <1>5, QuietEvents DEF WaitEvent
  <2>2. /\ \A u \in Threads : u # t =>
              asleep'[u] = asleep[u] /\ goal'[u] = goal[u] /\ wokenBy'[u] = wokenBy[u]
        /\ wokenBy'[t] = NotWoken
    BY <1>5 DEF WaitEvent, Become, TypeOK
  <2>3. {v \in Threads : asleep'[v] /\ goal'[v] = c /\ wokenBy'[v] # NotWoken}
          = {v \in Threads : asleep[v] /\ goal[v] = c /\ wokenBy[v] # NotWoken}
    <3>1. \A v \in Threads : (asleep'[v] /\ goal'[v] = c /\ wokenBy'[v] # NotWoken)
                         <=> (asleep[v] /\ goal[v] = c /\ wokenBy[v] # NotWoken)
      BY <2>1, <2>2
    <3> QED
      BY <3>1
  <2> QED
    BY <1>3, <2>1, <2>2, <2>3
<1> QED
  BY <1>4, <1>5

\* A notify adds its clock at the end of the queue, for those whom it woke.
LEMMA QueueByNotify ==
    ASSUME TypeOK, OwnTimeInv, SleepInv, LogInv, LogInv', PastInv,
           NEW t \in Threads, NEW c \in CondVars, NEW all \in BOOLEAN,
           NotifyEvent(t, c, all), ~Alone, EventStep(t, "NOTIFY", c, 0, clock[t]),
           Reflects(log, Kept, clock[t], PastOf(t, "NOTIFY", c, 0)),
           Matched(c), NEW P, QueueKnows(c, P)
    PROVE  \E Q : QueueKnows(c, Q)'
<1> DEFINE n == IF all THEN toNotify[c] ELSE 1
           notif == [vc |-> clock[t], count |-> n]
           q == notifQueue[c]
<1>1. PICK S : Wakes(c, all, S)
  BY NotifyWakes
<1>2. IsFiniteSet(Unwoken(c)) /\ toNotify[c] = Cardinality(Unwoken(c))
  BY FiniteWoken DEF Matched
<1>3. /\ S \subseteq Unwoken(c) /\ S \cap Woken(c) = {}
      /\ Woken(c)' = Woken(c) \cup S
      /\ \A u \in Threads : wokenBy'[u] = IF u \in S THEN pos ELSE wokenBy[u]
  BY <1>1 DEF Wakes, Unwoken, Woken
<1>4. Woken(c) \subseteq Threads /\ S \subseteq Threads
  BY <1>3 DEF Woken, Unwoken, SleptOn
<1>5. DOMAIN WokenBy(c) = Woken(c) /\ \A u \in Woken(c) : WokenBy(c)[u] = wokenBy[u]
  BY DEF WokenBy
<1>6. WokenBy(c)' = [u \in Woken(c)' |-> wokenBy'[u]]
  BY DEF WokenBy
<1>7. CASE toNotify[c] = 0
  <2>1. S = {}
    BY <1>2, <1>3, <1>7, FS_EmptySet
  <2>2. WokenBy(c)' = WokenBy(c)
    <3>1. Woken(c)' = Woken(c) /\ \A u \in Woken(c) : wokenBy'[u] = wokenBy[u]
      BY <1>3, <1>4, <2>1
    <3> QED
      BY <1>6, <3>1 DEF WokenBy
  <2>3. notifQueue'[c] = notifQueue[c]
    BY <1>7, NotifyCounts
  <2>4. QueueKnows(c, P)'
    BY <2>2, <2>3, QueueKept
  <2> QED
    BY <2>4
<1>8. CASE toNotify[c] # 0
  <2>1. Unwoken(c) # {}
    BY <1>2, <1>8, FS_EmptySet
  <2>2. Cardinality(S) = n
    <3>1. CASE all
      BY <1>1, <1>2, <3>1 DEF Wakes
    <3>2. CASE ~all
      BY <1>1, <2>1, <3>2, FS_Singleton DEF Wakes
    <3> QED
      BY <3>1, <3>2
  <2>3. notifQueue'[c] = Append(q, notif) /\ notif \in Notification
    BY <1>8, NotifyCounts
  <2>4. notif.count = Cardinality(S) /\ notif.vc = clock[t]
    BY <2>2
  <2> HIDE DEF n, notif
  <2>5. t \in Alive
    BY DEF EventStep
  <2>6. /\ q \in Seq(Notification)
        /\ \A i \in 1..Len(q) : q[i].vc \in Clock /\ q[i].vc[t] < clock[t][t]
    BY <2>5, QueueElements
  <2>7. /\ QueueOf(q, WokenBy(c), P)
        /\ \A i \in 1..Len(q) : P[i] \in PositionsOf(log) /\ Carries(log, Kept, q[i].vc, P[i])
    BY DEF QueueKnows
  <2> HIDE DEF q
  <2>8. pos \in Nat /\ \A p \in PositionsOf(log) : p < pos
    <3>1. pos \in Nat /\ PositionsOf(log) = 0..(pos - 1)
      BY DEF TypeOK, LogInv, PositionsOf
    <3> QED
      BY <3>1
  <2>9. PICK Q : AfterNotify(q, WokenBy(c), P, S, pos, notif, Q)
    <3>1. \A i \in 1..Len(q) : P[i] < pos
      BY <2>7, <2>8
    <3>2. S \cap DOMAIN WokenBy(c) = {}
      BY <1>3, <1>5
    <3> QED
      BY <2>3, <2>4, <2>6, <2>7, <2>8, <3>1, <3>2, QueueAfterNotify
  <2>10. PICK r : r = Append(q, notif)
    OBVIOUS
  <2>11. /\ QueueOf(r, [u \in DOMAIN WokenBy(c) \cup S |->
                           IF u \in S THEN pos ELSE WokenBy(c)[u]], Q)
         /\ \A i \in 1..Len(q) : Q[i] = P[i] /\ r[i] = q[i]
         /\ Len(r) = Len(q) + 1 /\ Q[Len(r)] = pos /\ r[Len(r)] = notif
    BY <2>9, <2>10 DEF AfterNotify
  <2>12. [u \in DOMAIN WokenBy(c) \cup S |-> IF u \in S THEN pos ELSE WokenBy(c)[u]]
           = WokenBy(c)'
    <3>1. DOMAIN WokenBy(c) \cup S = Woken(c)'
      BY <1>3, <1>5
    <3>2. \A u \in Woken(c)' : (IF u \in S THEN pos ELSE WokenBy(c)[u]) = wokenBy'[u]
      BY <1>3, <1>4, <1>5
    <3> QED
      BY <1>6, <3>1, <3>2
  <2>13. \A i \in 1..Len(r) : Q[i] \in PositionsOf(log') /\ Carries(log', Kept', r[i].vc, Q[i])
    <3>1. ASSUME NEW i \in 1..Len(q)
          PROVE  P[i] \in PositionsOf(log') /\ Carries(log', Kept', q[i].vc, P[i])
      BY <2>6, <2>7, CarriesStep
    <3>2. pos \in PositionsOf(log') /\ Carries(log', Kept', notif.vc, pos)
      BY <2>4, CarriesStep
    <3>3. Len(q) \in Nat
      BY <2>6, LenProperties
    <3>4. ASSUME NEW i \in 1..Len(r)
          PROVE  Q[i] \in PositionsOf(log') /\ Carries(log', Kept', r[i].vc, Q[i])
      <4>1. CASE i \in 1..Len(q)
        BY <2>11, <3>1, <4>1
      <4>2. CASE i = Len(r)
        BY <2>11, <3>2, <4>2
      <4> QED
        BY <2>11, <3>3, <4>1, <4>2
    <3> QED
      BY <3>4
  <2>14. notifQueue'[c] = r
    BY <2>3, <2>10
  <2>15. QueueKnows(c, Q)'
    BY <2>11, <2>12, <2>13, <2>14 DEF QueueKnows
  <2> QED
    BY <2>15
<1> QED
  BY <1>7, <1>8

\* Threads go on in the order in which they were notified: the one that asks for its
\* lock was woken by the notify at the head of the queue.
LEMMA AwakeFacts ==
    ASSUME FifoWake, TypeOK, SleepInv, LogInv, NEW t \in Threads, NEW l \in Locks,
           NEW loc \in SrcLocs, RequestEvent(t, l, loc), asleep[t], wokenBy[t] # NotWoken,
           NEW P, QueueKnows(Associated(l), P)
    PROVE  LET c == Associated(l)
               q == notifQueue[c]
           IN /\ t \in Woken(c) /\ IsFiniteSet(Woken(c))
              /\ \A u \in Woken(c) : wokenBy[t] <= wokenBy[u]
              /\ q # <<>> /\ 1 \in 1..Len(q) /\ wokenBy[t] = P[1]
              /\ AwakeClock(t, c) = Merge(clock[t], q[1].vc)
<1> DEFINE c == Associated(l)
           q == notifQueue[c]
<1>1. c \in CondVars
  BY ConstantTypes
<1>2. MayWake(t, l) /\ goal[t] = c
  BY DEF SleepInv, RequestEvent, MayWake
<1>3. t \in Woken(c)
  BY <1>2 DEF Woken, SleptOn
<1>4. \A u \in Woken(c) : wokenBy[t] <= wokenBy[u]
  <2>1. \A u \in Woken(c) : /\ u \in Threads /\ status[u] = "sleeping"
                            /\ goal[u] = goal[t] /\ wokenBy[u] # NotWoken
    BY <1>2 DEF Woken, SleptOn, SleepInv
  <2> QED
    BY <1>2, <2>1 DEF MayWake
<1>5. IsFiniteSet(Woken(c))
  BY FiniteWoken
<1>6. DOMAIN WokenBy(c) = Woken(c) /\ \A u \in Woken(c) : WokenBy(c)[u] = wokenBy[u]
  BY DEF WokenBy
<1>7. q \in Seq(Notification)
  BY <1>1 DEF TypeOK
<1>8. QueueOf(q, WokenBy(c), P)
  BY DEF QueueKnows
<1> HIDE DEF q, c
<1>9. q # <<>> /\ Head(q) = q[1] /\ Len(q) >= 1 /\ WokenBy(c)[t] = P[1]
  BY <1>3, <1>4, <1>5, <1>6, <1>7, <1>8, HeadOfQueue
<1>10. 1 \in 1..Len(q)
  BY <1>7, <1>9, LenProperties
<1>11. AwakeClock(t, c) = Merge(clock[t], q[1].vc)
  BY <1>9 DEF AwakeClock, q
<1> QED
  BY <1>3, <1>4, <1>5, <1>6, <1>9, <1>10, <1>11 DEF q, c

\* A request takes the notify that woke its thread, if any, from the queue.
LEMMA QueueByRequest ==
    ASSUME FifoWake, TypeOK, OwnTimeInv, SleepInv, LogInv, LogInv', PastInv,
           NEW t \in Threads, NEW l \in Locks, NEW loc \in SrcLocs,
           RequestEvent(t, l, loc), ~Alone, asleep[t] => wokenBy[t] # NotWoken,
           NEW vc, EventStep(t, "REQ", l, loc, vc),
           Reflects(log, Kept, vc, PastOf(t, "REQ", l, loc)),
           NEW d \in CondVars, NEW P, QueueKnows(d, P)
    PROVE  \E Q : QueueKnows(d, Q)'
<1> DEFINE c == Associated(l)
           q == notifQueue[d]
           left == asleep[t] /\ d = c
<1>1. /\ SleptOn(d)' = SleptOn(d) \ {t}
      /\ t \in SleptOn(d) <=> left
      /\ notifQueue'[d] = IF left THEN WakeThread(q) ELSE q
      /\ \A u \in Threads : wokenBy'[u] = IF u = t THEN NotWoken ELSE wokenBy[u]
  BY RequestCounts
<1>2. /\ Woken(d)' = {u \in SleptOn(d)' : wokenBy'[u] # NotWoken}
      /\ SleptOn(d) \subseteq Threads
  BY DEF Woken, SleptOn
<1>3. Woken(d)' = Woken(d) \ {t} /\ (t \in Woken(d) <=> left)
  BY <1>1, <1>2 DEF Woken
<1>4. WokenBy(d)' = [u \in Woken(d) \ {t} |-> WokenBy(d)[u]]
  <2>1. WokenBy(d)' = [u \in Woken(d)' |-> wokenBy'[u]]
    BY DEF WokenBy
  <2>2. \A u \in Woken(d) \ {t} : wokenBy'[u] = WokenBy(d)[u]
    BY <1>1, <1>2 DEF WokenBy, Woken
  <2> QED
    BY <1>3, <2>1, <2>2
<1>5. DOMAIN WokenBy(d) = Woken(d) /\ \A u \in Woken(d) : WokenBy(d)[u] = wokenBy[u]
  BY DEF WokenBy
<1>6. CASE ~left
  <2>1. WokenBy(d)' = WokenBy(d)
    <3>1. Woken(d) \ {t} = Woken(d)
      BY <1>3, <1>6
    <3>2. [u \in Woken(d) |-> WokenBy(d)[u]] = WokenBy(d)
      BY <1>5 DEF WokenBy
    <3> QED
      BY <1>4, <3>1, <3>2
  <2>2. notifQueue'[d] = notifQueue[d]
    BY <1>1, <1>6
  <2>3. QueueKnows(d, P)'
    BY <2>1, <2>2, QueueKept
  <2> QED
    BY <2>3
<1>7. CASE left
  <2>1. /\ t \in Woken(d) /\ IsFiniteSet(Woken(d))
        /\ \A u \in Woken(d) : wokenBy[t] <= wokenBy[u]
    <3>1. QueueKnows(Associated(l), P) /\ asleep[t] /\ wokenBy[t] # NotWoken
      BY <1>7
    <3> QED
      BY <1>7, <3>1, AwakeFacts
  <2>2. t \in Alive
    BY DEF EventStep
  <2>3. /\ q \in Seq(Notification)
        /\ \A i \in 1..Len(q) : q[i].vc \in Clock /\ q[i].vc[t] < clock[t][t]
    BY <2>2, QueueElements
  <2>4. /\ QueueOf(q, WokenBy(d), P)
        /\ \A i \in 1..Len(q) : P[i] \in PositionsOf(log) /\ Carries(log, Kept, q[i].vc, P[i])
    BY DEF QueueKnows
  <2>5. notifQueue'[d] = WakeThread(q)
    BY <1>1, <1>7
  <2> HIDE DEF q, left, c
  <2>6. PICK Q : AfterWake(q, WokenBy(d), P, t, Q)
    BY <1>5, <2>1, <2>3, <2>4, QueueAfterWake
  <2>7. /\ QueueOf(WakeThread(q), [u \in DOMAIN WokenBy(d) \ {t} |-> WokenBy(d)[u]], Q)
        /\ \A i \in 1..Len(WakeThread(q)) : \E j \in 1..Len(q) :
              Q[i] = P[j] /\ WakeThread(q)[i].vc = q[j].vc
    BY <2>6 DEF AfterWake
  <2>8. \A i \in 1..Len(q) : P[i] \in PositionsOf(log') /\ Carries(log', Kept', q[i].vc, P[i])
    BY <2>3, <2>4, CarriesStep
  <2>9. \A i \in 1..Len(WakeThread(q)) :
           Q[i] \in PositionsOf(log') /\ Carries(log', Kept', WakeThread(q)[i].vc, Q[i])
    BY <2>7, <2>8
  <2>10. QueueOf(WakeThread(q), WokenBy(d)', Q)
    BY <1>4, <1>5, <2>7
  <2>11. QueueKnows(d, Q)'
    BY <2>5, <2>9, <2>10 DEF QueueKnows
  <2> QED
    BY <2>11
<1> QED
  BY <1>6, <1>7

-----------------------------------------------------------------------------
(* The handlers.                                                           *)

\* An event that only lets time pass for its thread.
LEMMA TickIsEvent ==
    ASSUME TypeOK, NEW t \in Threads, NEW type, NEW target, NEW loc, NEW vc \in Clock,
           type \notin {"FORK", "JOIN", "OTHER"}, Record(t, type, target, loc),
           Tick(t, vc), vc[t] = clock[t][t], Leq(clock[t], vc),
           Kept' \subseteq Kept \cup {[vc |-> vc, pos |-> pos]},
           t \in Alive, Alive' = Alive,
           \A u \in Threads : status'[u] = "unborn" => status[u] = "unborn"
    PROVE  EventStep(t, type, target, loc, vc)
<1>1. \A u \in Threads : clock'[u] = IF u = t THEN Increment(vc, t) ELSE clock[u]
  BY DEF TypeOK, Tick
<1> QED
  BY <1>1 DEF EventStep

\* A running thread is alive and stays so, whatever it does next.
LEMMA StatusFacts ==
    ASSUME TypeOK, NEW t \in Threads, status[t] \notin {"unborn", "ended"},
           \/ status' = status
           \/ \E st \in {"running", "requesting", "sleeping"} : \E g : Become(t, st, g)
    PROVE  /\ t \in Alive /\ Alive' = Alive
           /\ \A u \in Threads : status'[u] = "unborn" => status[u] = "unborn"
<1>1. \A u \in Threads : (u # t => status'[u] = status[u])
                         /\ status'[t] \notin {"unborn", "ended"}
  BY DEF TypeOK, Become
<1>2. Alive' = {u \in Threads : status'[u] \notin {"unborn", "ended"}}
  BY DEF Alive
<1> QED
  BY <1>1, <1>2 DEF Alive

\* Reads, writes, waits, notifies, requests, locks and unlocks are such events.
LEMMA TickingEvents ==
    ASSUME TypeOK, OwnTimeInv, NEW t \in Threads
    PROVE  /\ \A x \in Vars : ReadEvent(t, x) /\ Record(t, "RD", x, 0) =>
                 EventStep(t, "RD", x, 0,
                           IF Alone THEN clock[t] ELSE Merge(clock[t], lastWrite[x]))
           /\ \A x \in Vars : WriteEvent(t, x) /\ Record(t, "WR", x, 0) =>
                 EventStep(t, "WR", x, 0, clock[t])
           /\ \A c \in CondVars, loc \in SrcLocs :
                 WaitEvent(t, c, loc) /\ Record(t, "WAIT", c, loc) =>
                    EventStep(t, "WAIT", c, loc, clock[t])
           /\ \A c \in CondVars, all \in BOOLEAN :
                 NotifyEvent(t, c, all) /\ Record(t, "NOTIFY", c, 0) =>
                    EventStep(t, "NOTIFY", c, 0, clock[t])
           /\ \A l \in Locks :
                 AcquireEvent(t, l) /\ Record(t, "LK", l, 0) =>
                    EventStep(t, "LK", l, 0, clock[t])
           /\ \A l \in Locks :
                 ReleaseEvent(t, l) /\ Record(t, "UK", l, 0) =>
                    EventStep(t, "UK", l, 0, clock[t])
<1> USE DEF Running
<1>1. clock[t] \in Clock /\ Leq(clock[t], clock[t])
  BY ClocksGrow DEF TypeOK
<1>2. ASSUME NEW x \in Vars, ReadEvent(t, x), Record(t, "RD", x, 0)
      PROVE  EventStep(t, "RD", x, 0, IF Alone THEN clock[t] ELSE Merge(clock[t], lastWrite[x]))
  <2> DEFINE vc == IF Alone THEN clock[t] ELSE Merge(clock[t], lastWrite[x])
  <2>1. lastWrite[x] \in Clock
    BY DEF TypeOK
  <2>2. lastWrite[x][t] <= clock[t][t]
    <3>1. Behind(lastWrite[x], t)
      BY KeptMembers DEF OwnTimeInv
    <3> QED
      BY <1>1, <2>1, <3>1 DEF Behind, Clock
  <2>3. vc \in Clock /\ vc[t] = clock[t][t] /\ Leq(clock[t], vc)
    <3>1. vc \in Clock /\ vc[t] = clock[t][t]
      BY <1>1, <2>1, <2>2, ClockTypes, BehindMerge
    <3>2. Leq(clock[t], vc)
      BY <1>1, <2>1, ClocksGrow
    <3> QED
      BY <3>1, <3>2
  <2>4. status[t] = "running" /\ status' = status /\ Tick(t, vc) /\ Kept' = Kept
    BY <1>2, KeptByEvent DEF ReadEvent, Continue
  <2>5. /\ t \in Alive /\ Alive' = Alive
        /\ \A u \in Threads : status'[u] = "unborn" => status[u] = "unborn"
    BY <2>4, StatusFacts
  <2> HIDE DEF vc
  <2>6. EventStep(t, "RD", x, 0, vc)
    BY <1>2, <2>3, <2>4, <2>5, TickIsEvent
  <2> QED
    BY <2>6 DEF vc
<1>3. ASSUME NEW x \in Vars, WriteEvent(t, x), Record(t, "WR", x, 0)
      PROVE  EventStep(t, "WR", x, 0, clock[t])
  <2>1. status[t] = "running" /\ status' = status /\ Tick(t, clock[t]) /\ Kept' = Kept
    BY <1>3, KeptByEvent DEF WriteEvent, Continue
  <2>2. /\ t \in Alive /\ Alive' = Alive
        /\ \A u \in Threads : status'[u] = "unborn" => status[u] = "unborn"
    BY <2>1, StatusFacts
  <2> QED
    BY <1>1, <1>3, <2>1, <2>2, TickIsEvent
<1>4. ASSUME NEW c \in CondVars, NEW loc \in SrcLocs, WaitEvent(t, c, loc),
             Record(t, "WAIT", c, loc)
      PROVE  EventStep(t, "WAIT", c, loc, clock[t])
  <2>1. /\ status[t] = "running" /\ Become(t, "sleeping", c) /\ Tick(t, clock[t])
        /\ Kept' \subseteq Kept \cup {[vc |-> clock[t], pos |-> pos]}
    BY <1>4, KeptByEvent DEF WaitEvent
  <2>2. /\ t \in Alive /\ Alive' = Alive
        /\ \A u \in Threads : status'[u] = "unborn" => status[u] = "unborn"
    BY <2>1, StatusFacts
  <2> QED
    BY <1>1, <1>4, <2>1, <2>2, TickIsEvent
<1>5. ASSUME NEW c \in CondVars, NEW all \in BOOLEAN, NotifyEvent(t, c, all),
             Record(t, "NOTIFY", c, 0)
      PROVE  EventStep(t, "NOTIFY", c, 0, clock[t])
  <2>1. status[t] = "running" /\ status' = status /\ Tick(t, clock[t]) /\ Kept' \subseteq Kept
    BY <1>5, KeptByEvent DEF NotifyEvent
  <2>2. /\ t \in Alive /\ Alive' = Alive
        /\ \A u \in Threads : status'[u] = "unborn" => status[u] = "unborn"
    BY <2>1, StatusFacts
  <2> QED
    BY <1>1, <1>5, <2>1, <2>2, TickIsEvent
<1>6. ASSUME NEW l \in Locks, AcquireEvent(t, l), Record(t, "LK", l, 0)
      PROVE  EventStep(t, "LK", l, 0, clock[t])
  <2>1. /\ status[t] = "requesting" /\ Become(t, "running", NoGoal) /\ Tick(t, clock[t])
        /\ Kept' \subseteq Kept \cup {[vc |-> clock[t], pos |-> pos]}
    BY <1>6, KeptByEvent DEF AcquireEvent
  <2>2. /\ t \in Alive /\ Alive' = Alive
        /\ \A u \in Threads : status'[u] = "unborn" => status[u] = "unborn"
    BY <2>1, StatusFacts
  <2> QED
    BY <1>1, <1>6, <2>1, <2>2, TickIsEvent
<1>7. ASSUME NEW l \in Locks, ReleaseEvent(t, l), Record(t, "UK", l, 0)
      PROVE  EventStep(t, "UK", l, 0, clock[t])
  <2>1. /\ status[t] = "running" /\ status' = status /\ Tick(t, clock[t])
        /\ Kept' \subseteq Kept \cup {[vc |-> clock[t], pos |-> pos]}
    BY <1>7, KeptByEvent DEF ReleaseEvent, Continue
  <2>2. /\ t \in Alive /\ Alive' = Alive
        /\ \A u \in Threads : status'[u] = "unborn" => status[u] = "unborn"
    BY <2>1, StatusFacts
  <2> QED
    BY <1>1, <1>7, <2>1, <2>2, TickIsEvent
<1> QED
  BY <1>2, <1>3, <1>4, <1>5, <1>6, <1>7

\* The clock of a request, after the notify that woke its thread.
RequestClock(t, l) == IF Alone THEN clock[t] ELSE AwakeClock(t, Associated(l))

\* So are requests.
LEMMA RequestIsEvent ==
    ASSUME TypeOK, OwnTimeInv, NEW t \in Threads, NEW l \in Locks, NEW loc \in SrcLocs,
           RequestEvent(t, l, loc), Record(t, "REQ", l, loc)
    PROVE  EventStep(t, "REQ", l, loc, RequestClock(t, l))
<1> DEFINE c == Associated(l)
           vc == RequestClock(t, l)
<1>1. c \in CondVars /\ clock[t] \in Clock /\ Leq(clock[t], clock[t])
  BY ConstantTypes, ClocksGrow DEF TypeOK
<1>2. /\ status[t] \in {"running", "sleeping"} /\ Become(t, "requesting", l)
      /\ Tick(t, vc)
      /\ Kept' \subseteq Kept \cup {[vc |-> vc, pos |-> pos]}
  <2>1. Kept' \subseteq Kept \cup {[vc |-> vc, pos |-> pos]}
    BY KeptByEvent DEF RequestClock
  <2> QED
    BY <2>1 DEF RequestEvent, MayWake, RequestClock
<1>3. /\ t \in Alive /\ Alive' = Alive
      /\ \A u \in Threads : status'[u] = "unborn" => status[u] = "unborn"
  BY <1>2, StatusFacts
<1>4. vc \in Clock /\ vc[t] = clock[t][t] /\ Leq(clock[t], vc)
  <2>1. CASE Alone \/ ~(asleep[t] /\ notifQueue[c] # <<>>)
    BY <1>1, <2>1 DEF RequestClock, AwakeClock
  <2>2. CASE ~Alone /\ asleep[t] /\ notifQueue[c] # <<>>
    <3> DEFINE w == notifQueue[c][1].vc
    <3>1. 1 \in 1..Len(notifQueue[c]) /\ Head(notifQueue[c]) = notifQueue[c][1]
      <4>1. notifQueue[c] \in Seq(Notification)
        BY <1>1 DEF TypeOK
      <4> QED
        BY <2>2, <4>1, LenProperties, EmptySeq, HeadTailProperties
    <3>2. w \in Clock /\ w[t] < clock[t][t]
      BY <1>1, <1>3, <3>1, QueueElements
    <3>3. vc = Merge(clock[t], w)
      BY <2>2, <3>1 DEF RequestClock, AwakeClock
    <3> HIDE DEF w, vc
    <3>4. w[t] <= clock[t][t]
      BY <1>1, <3>2 DEF Clock
    <3>5. Leq(clock[t], vc)
      BY <1>1, <3>2, <3>3, ClocksGrow
    <3> QED
      BY <1>1, <3>2, <3>3, <3>4, <3>5, ClockTypes, BehindMerge
  <2> QED
    BY <2>1, <2>2
<1> HIDE DEF vc
<1>5. EventStep(t, "REQ", l, loc, vc)
  BY <1>2, <1>3, <1>4, TickIsEvent
<1> QED
  BY <1>5 DEF vc

\* Forks, joins and invalid events.
LEMMA OtherEvents ==
    ASSUME TypeOK, OwnTimeInv, NEW t \in Threads
    PROVE  /\ \A u \in Threads : ForkEvent(t, u) /\ Record(t, "FORK", u, 0) =>
                 EventStep(t, "FORK", u, 0, clock[t])
           /\ \A u \in Threads : JoinEvent(t, u) /\ Record(t, "JOIN", u, 0) =>
                 EventStep(t, "JOIN", u, 0, Merge(clock[t], clock[u])) /\ u # t
           /\ InvalidEvent(t) /\ Record(t, "OTHER", 0, 0) =>
                 EventStep(t, "OTHER", 0, 0, clock[t])
<1> USE DEF Running
<1>1. clock[t] \in Clock /\ Alive' = {u \in Threads : status'[u] \notin {"unborn", "ended"}}
      /\ Leq(clock[t], clock[t])
  BY ClocksGrow DEF TypeOK, Alive
<1>2. ASSUME NEW u \in Threads, ForkEvent(t, u), Record(t, "FORK", u, 0)
      PROVE  EventStep(t, "FORK", u, 0, clock[t])
  <2>1. /\ status[t] = "running" /\ status[u] = "unborn" /\ t # u
        /\ status' = [status EXCEPT ![u] = "running"]
        /\ clock' = [clock EXCEPT ![u] = Merge(@, clock[t]), ![t] = Increment(@, t)]
        /\ Kept' = Kept
    BY <1>2, KeptByEvent DEF ForkEvent
  <2>2. \A v \in Threads : status'[v] = IF v = u THEN "running" ELSE status[v]
    BY <2>1 DEF TypeOK
  <2>3. Alive' = Alive \cup {u} /\ t \in Alive
    BY <1>1, <2>1, <2>2 DEF Alive
  <2>4. \A v \in Threads : clock'[v] = IF v = t THEN Increment(clock[t], t)
                                       ELSE IF v = u THEN Merge(clock[v], clock[t])
                                       ELSE clock[v]
    BY <2>1 DEF TypeOK
  <2> QED
    BY <1>1, <1>2, <2>1, <2>2, <2>3, <2>4 DEF EventStep
<1>3. ASSUME NEW u \in Threads, JoinEvent(t, u), Record(t, "JOIN", u, 0)
      PROVE  EventStep(t, "JOIN", u, 0, Merge(clock[t], clock[u])) /\ u # t
  <2> DEFINE vc == Merge(clock[t], clock[u])
  <2>1. /\ status[t] = "running" /\ status[u] = "running" /\ u # t
        /\ status' = [status EXCEPT ![u] = "ended"]
        /\ Tick(t, vc)
        /\ Kept' = Kept
    BY <1>3, KeptByEvent DEF JoinEvent
  <2>2. \A v \in Threads : status'[v] = IF v = u THEN "ended" ELSE status[v]
    BY <2>1 DEF TypeOK
  <2>3. Alive' = Alive \ {u} /\ t \in Alive
    BY <1>1, <2>1, <2>2 DEF Alive
  <2>4. vc \in Clock /\ vc[t] = clock[t][t] /\ Leq(clock[t], vc)
    <3>1. Behind(clock[u], t) /\ clock[u] \in Clock
      BY <2>1 DEF OwnTimeInv, TypeOK
    <3>2. clock[u][t] <= clock[t][t]
      BY <1>1, <3>1 DEF Behind, Clock
    <3>3. Leq(clock[t], vc)
      BY <1>1, <3>1, ClocksGrow
    <3> QED
      BY <1>1, <3>1, <3>2, <3>3, ClockTypes, BehindMerge
  <2> HIDE DEF vc
  <2>5. \A v \in Threads : clock'[v] = IF v = t THEN Increment(vc, t) ELSE clock[v]
    BY <2>1 DEF TypeOK, Tick
  <2>6. EventStep(t, "JOIN", u, 0, vc)
    BY <1>3, <2>1, <2>2, <2>3, <2>4, <2>5 DEF EventStep
  <2> QED
    BY <2>1, <2>6 DEF vc
<1>4. ASSUME InvalidEvent(t), Record(t, "OTHER", 0, 0)
      PROVE  EventStep(t, "OTHER", 0, 0, clock[t])
  <2>1. status[t] = "running" /\ status' = status /\ clock' = clock /\ Kept' = Kept
    BY <1>4, KeptByEvent DEF InvalidEvent
  <2>2. t \in Alive /\ Alive' = Alive
    BY <1>1, <2>1 DEF Alive
  <2> QED
    BY <1>1, <1>4, <2>1, <2>2 DEF EventStep
<1> QED
  BY <1>2, <1>3, <1>4

\* The clock of an event that one thread alone has knows whatever happened.
LEMMA ReflectsAlone ==
    ASSUME SleepInv, LogInv, LogInv', PastInv, ClockInv, Alone,
           NEW t \in Threads, NEW type, NEW target, NEW loc,
           EventStep(t, type, target, loc, clock[t])
    PROVE  Reflects(log, Kept, clock[t], PastOf(t, type, target, loc))
<1>1. /\ Known(log, t) \subseteq PastOf(t, type, target, loc)
      /\ PastOf(t, type, target, loc) \subseteq PositionsOf(log)
  BY KnownAfter
<1>2. PositionsOf(log) \subseteq Known(log, t)
  BY AloneKnows DEF EventStep
<1>3. PastOf(t, type, target, loc) = Known(log, t)
  BY <1>1, <1>2
<1> QED
  BY <1>3 DEF ClockInv

\* An event that nothing else precedes has the past that its thread knows.
LEMMA PastKnown ==
    ASSUME LogInv, NEW t \in Threads, NEW type, NEW target, NEW loc,
           type # "RD", type # "JOIN", type = "REQ" => status[t] # "sleeping"
    PROVE  PastOf(t, type, target, loc) = Known(log, t)
<1>1. PastOf(t, type, target, loc) = NextEntry(t, type, target, loc).past
  BY DEF PastOf
<1>2. NextEntry(t, type, target, loc).past =
         Known(log, t)
         \cup (IF type = "RD" THEN Written(log, target) ELSE {})
         \cup (IF type = "JOIN" THEN Known(log, target) ELSE {})
         \cup (IF type = "REQ" /\ status[t] = "sleeping"
               THEN Upto(log, {wokenBy[t]} \ {NotWoken}) ELSE {})
  BY PastOfNext
<1> QED
  BY <1>1, <1>2

\* A read also has the past of the last write.
LEMMA PastOfRead ==
    ASSUME LogInv, NEW t \in Threads, NEW x
    PROVE  PastOf(t, "RD", x, 0) = Known(log, t) \cup Written(log, x)
<1>1. PastOf(t, "RD", x, 0) = NextEntry(t, "RD", x, 0).past
  BY DEF PastOf
<1>2. NextEntry(t, "RD", x, 0).past =
         Known(log, t)
         \cup (IF "RD" = "RD" THEN Written(log, x) ELSE {})
         \cup (IF "RD" = "JOIN" THEN Known(log, x) ELSE {})
         \cup (IF "RD" = "REQ" /\ status[t] = "sleeping"
               THEN Upto(log, {wokenBy[t]} \ {NotWoken}) ELSE {})
  BY PastOfNext
<1> QED
  BY <1>1, <1>2

\* A join also has that of the other thread.
LEMMA PastOfJoin ==
    ASSUME LogInv, NEW t \in Threads, NEW u
    PROVE  PastOf(t, "JOIN", u, 0) = Known(log, t) \cup Known(log, u)
<1>1. PastOf(t, "JOIN", u, 0) = NextEntry(t, "JOIN", u, 0).past
  BY DEF PastOf
<1>2. NextEntry(t, "JOIN", u, 0).past =
         Known(log, t)
         \cup (IF "JOIN" = "RD" THEN Written(log, u) ELSE {})
         \cup (IF "JOIN" = "JOIN" THEN Known(log, u) ELSE {})
         \cup (IF "JOIN" = "REQ" /\ status[t] = "sleeping"
               THEN Upto(log, {wokenBy[t]} \ {NotWoken}) ELSE {})
  BY PastOfNext
<1> QED
  BY <1>1, <1>2

\* A request that ends a wait also has that of the notify.
LEMMA PastOfWake ==
    ASSUME LogInv, NEW t \in Threads, NEW l, NEW loc,
           status[t] = "sleeping", wokenBy[t] # NotWoken
    PROVE  PastOf(t, "REQ", l, loc) = Known(log, t) \cup Upto(log, {wokenBy[t]})
<1>1. PastOf(t, "REQ", l, loc) = NextEntry(t, "REQ", l, loc).past
  BY DEF PastOf
<1>2. NextEntry(t, "REQ", l, loc).past =
         Known(log, t)
         \cup (IF "REQ" = "RD" THEN Written(log, l) ELSE {})
         \cup (IF "REQ" = "JOIN" THEN Known(log, l) ELSE {})
         \cup (IF "REQ" = "REQ" /\ status[t] = "sleeping"
               THEN Upto(log, {wokenBy[t]} \ {NotWoken}) ELSE {})
  BY PastOfNext
<1>3. {wokenBy[t]} \ {NotWoken} = {wokenBy[t]}
  OBVIOUS
<1> QED
  BY <1>1, <1>2, <1>3

\* The clock of a read, of which lastWrite held the clock of the last write, or that
\* of one before it while everyone knows of the last one.
LEMMA ReflectsRead ==
    ASSUME TypeOK, SleepInv, LogInv, LogInv', PastInv, ClockInv, WritesInv,
           NEW t \in Threads, NEW x \in Vars, NEW vc,
           vc = IF Alone THEN clock[t] ELSE Merge(clock[t], lastWrite[x]),
           EventStep(t, "RD", x, 0, vc)
    PROVE  Reflects(log, Kept, vc, PastOf(t, "RD", x, 0))
<1>1. CASE Alone
  BY <1>1, ReflectsAlone
<1>2. CASE ~Alone
  <2>1. PICK S : WriteKnows(x, S)
    BY DEF WritesInv
  <2>2. PastOf(t, "RD", x, 0) = Known(log, t) \cup Written(log, x)
    BY PastOfRead
  <2>3. Known(log, t) \cup S = Known(log, t) \cup Written(log, x)
    BY <2>1 DEF WriteKnows, EventStep
  <2>4. /\ log \in Seq(LogEntry) /\ Kept \subseteq Event
        /\ \A e \in Kept : e.pos \in PositionsOf(log)
        /\ clock[t] \in Clock /\ lastWrite[x] \in Clock
    BY KeptType DEF LogInv, PastInv, TypeOK
  <2>5. /\ Reflects(log, Kept, clock[t], Known(log, t))
        /\ Reflects(log, Kept, lastWrite[x], S)
    BY <2>1 DEF ClockInv, WriteKnows
  <2>6. Reflects(log, Kept, Merge(clock[t], lastWrite[x]), Known(log, t) \cup S)
    BY <2>4, <2>5, ReflectsMerge
  <2> QED
    BY <1>2, <2>2, <2>3, <2>6
<1> QED
  BY <1>1, <1>2

\* The clock of a join: that of both threads.
LEMMA ReflectsJoin ==
    ASSUME TypeOK, LogInv, PastInv, ClockInv, NEW t \in Threads, NEW u \in Threads
    PROVE  Reflects(log, Kept, Merge(clock[t], clock[u]), PastOf(t, "JOIN", u, 0))
<1>1. PastOf(t, "JOIN", u, 0) = Known(log, t) \cup Known(log, u)
  BY PastOfJoin
<1>2. /\ log \in Seq(LogEntry) /\ Kept \subseteq Event
      /\ \A e \in Kept : e.pos \in PositionsOf(log)
      /\ clock[t] \in Clock /\ clock[u] \in Clock
  BY KeptType DEF LogInv, PastInv, TypeOK
<1>3. /\ Reflects(log, Kept, clock[t], Known(log, t))
      /\ Reflects(log, Kept, clock[u], Known(log, u))
  BY DEF ClockInv
<1> QED
  BY <1>1, <1>2, <1>3, ReflectsMerge

\* The clock of a request, which ends a wait that was notified, if any.
LEMMA ReflectsRequest ==
    ASSUME FifoWake, TypeOK, OwnTimeInv, SleepInv, LogInv, LogInv', PastInv, ClockInv,
           QueuesInv, NEW t \in Threads, NEW l \in Locks, NEW loc \in SrcLocs,
           RequestEvent(t, l, loc), asleep[t] => wokenBy[t] # NotWoken,
           NEW vc, vc = RequestClock(t, l), EventStep(t, "REQ", l, loc, vc)
    PROVE  Reflects(log, Kept, vc, PastOf(t, "REQ", l, loc))
<1>1. t \in Alive
  BY DEF EventStep
<1>2. Reflects(log, Kept, clock[t], Known(log, t))
  BY DEF ClockInv
<1>3. CASE Alone
  <2>1. vc = clock[t]
    BY <1>3 DEF RequestClock
  <2> QED
    BY <1>3, <2>1, ReflectsAlone
<1>4. CASE ~Alone /\ ~asleep[t]
  <2>1. vc = clock[t]
    BY <1>4 DEF RequestClock, AwakeClock
  <2>2. status[t] # "sleeping"
    BY <1>1, <1>4, AloneFacts DEF SleepInv
  <2>3. PastOf(t, "REQ", l, loc) = Known(log, t)
    BY <2>2, PastKnown
  <2> QED
    BY <1>2, <2>1, <2>3
<1>5. CASE ~Alone /\ asleep[t]
  <2> DEFINE c == Associated(l)
             w == notifQueue[c][1].vc
             p == wokenBy[t]
  <2>1. c \in CondVars
    BY DEF CondVars
  <2>2. PICK P : QueueKnows(c, P)
    BY <2>1 DEF QueuesInv
  <2>3. /\ 1 \in 1..Len(notifQueue[c]) /\ p = P[1]
        /\ AwakeClock(t, c) = Merge(clock[t], w)
    BY <1>5, <2>2, AwakeFacts
  <2>4. Reflects(log, Kept, w, Upto(log, {p}))
    BY <2>2, <2>3 DEF QueueKnows, Carries
  <2>5. status[t] = "sleeping"
    BY <1>5 DEF SleepInv
  <2>6. PastOf(t, "REQ", l, loc) = Known(log, t) \cup Upto(log, {p})
    BY <1>5, <2>5, PastOfWake
  <2>8. w \in Clock
    BY <1>1, <2>1, <2>3, QueueElements
  <2>9. /\ log \in Seq(LogEntry) /\ Kept \subseteq Event
        /\ \A e \in Kept : e.pos \in PositionsOf(log)
        /\ clock[t] \in Clock
    BY KeptType DEF LogInv, PastInv, TypeOK
  <2>10. vc = Merge(clock[t], w)
    BY <1>5, <2>3 DEF RequestClock
  <2> HIDE DEF w, p
  <2>11. Reflects(log, Kept, Merge(clock[t], w), Known(log, t) \cup Upto(log, {p}))
    BY <1>2, <2>4, <2>8, <2>9, ReflectsMerge
  <2> QED
    BY <2>6, <2>10, <2>11
<1> QED
  BY <1>3, <1>4, <1>5

\* The clock of any other event is that of its thread.
LEMMA ReflectsOther ==
    ASSUME LogInv, ClockInv, NEW t \in Threads, NEW type, NEW target, NEW loc,
           type \notin {"RD", "JOIN", "REQ"}
    PROVE  Reflects(log, Kept, clock[t], PastOf(t, type, target, loc))
<1>1. PastOf(t, type, target, loc) = Known(log, t)
  BY PastKnown
<1> QED
  BY <1>1 DEF ClockInv

\* Every event keeps what is known of the last writes.
LEMMA WritesOfEvent ==
    ASSUME TypeOK, OwnTimeInv, LogInv, LogInv', PastInv, ClockInv, WritesInv,
           NEW t \in Threads, NEW type, NEW target, NEW loc, NEW vc,
           EventStep(t, type, target, loc, vc), type # "WR",
           Reflects(log, Kept, vc, PastOf(t, type, target, loc)), lastWrite' = lastWrite
    PROVE  WritesInv'
<1>1. ASSUME NEW y \in Vars
      PROVE  \E S : WriteKnows(y, S)'
  <2>1. PICK S : WriteKnows(y, S)
    BY DEF WritesInv
  <2>2. WriteKnows(y, S)'
    BY <2>1, WriteKept
  <2> QED
    BY <2>2
<1> QED
  BY <1>1 DEF WritesInv

\* A write is known of from then on, unless its thread is alone.
LEMMA WritesOfWrite ==
    ASSUME TypeOK, OwnTimeInv, SleepInv, LogInv, LogInv', PastInv, ClockInv, WritesInv,
           NEW t \in Threads, NEW x \in Vars, WriteEvent(t, x),
           EventStep(t, "WR", x, 0, clock[t]),
           Reflects(log, Kept, clock[t], PastOf(t, "WR", x, 0))
    PROVE  WritesInv'
<1>1. ASSUME NEW y \in Vars
      PROVE  \E S : WriteKnows(y, S)'
  <2>1. PICK S : WriteKnows(y, S)
    BY DEF WritesInv
  <2>2. lastWrite'[y] = IF ~Alone /\ y = x THEN clock[t] ELSE lastWrite[y]
    BY DEF WriteEvent, TypeOK
  <2>3. CASE y # x
    <3>1. WriteKnows(y, S)'
      BY <2>1, <2>2, <2>3, WriteKept
    <3> QED
      BY <3>1
  <2>4. CASE y = x /\ Alone
    <3>1. WriteKnows(y, S)'
      BY <2>1, <2>2, <2>4, WriteOfAlone
    <3> QED
      BY <3>1
  <2>5. CASE y = x /\ ~Alone
    BY <2>2, <2>5, WriteOfOne
  <2> QED
    BY <2>3, <2>4, <2>5
<1> QED
  BY <1>1 DEF WritesInv

\* An event that neither queues a notify nor takes one off keeps what the queues hold.
LEMMA QueuesOfEvent ==
    ASSUME TypeOK, OwnTimeInv, LogInv, LogInv', PastInv, QueuesInv,
           NEW t \in Threads, NEW type, NEW target, NEW loc, NEW vc,
           EventStep(t, type, target, loc, vc),
           Reflects(log, Kept, vc, PastOf(t, type, target, loc)),
           \A c \in CondVars : WokenBy(c)' = WokenBy(c) /\ notifQueue'[c] = notifQueue[c]
    PROVE  QueuesInv'
<1>1. ASSUME NEW c \in CondVars
      PROVE  \E P : QueueKnows(c, P)'
  <2>1. PICK P : QueueKnows(c, P)
    BY DEF QueuesInv
  <2>2. QueueKnows(c, P)'
    BY <2>1, QueueKept
  <2> QED
    BY <2>2
<1> QED
  BY <1>1 DEF QueuesInv

\* A notify joins the queue of its condition variable.
LEMMA QueuesOfNotify ==
    ASSUME TypeOK, OwnTimeInv, SleepInv, LogInv, LogInv', PastInv, QueuesInv,
           NEW t \in Threads, NEW c \in CondVars, NEW all \in BOOLEAN,
           NotifyEvent(t, c, all), ~Alone, EventStep(t, "NOTIFY", c, 0, clock[t]),
           Reflects(log, Kept, clock[t], PastOf(t, "NOTIFY", c, 0)), Matched(c)
    PROVE  QueuesInv'
<1>1. ASSUME NEW d \in CondVars
      PROVE  \E P : QueueKnows(d, P)'
  <2>1. PICK P : QueueKnows(d, P)
    BY DEF QueuesInv
  <2>2. CASE d = c
    BY <2>1, <2>2, QueueByNotify
  <2>3. CASE d # c
    <3>1. notifQueue'[d] = notifQueue[d]
      BY <2>3, NotifyCounts
    <3>2. Woken(d)' = Woken(d)
      BY <2>3, NotifyWakes
    <3>3. PICK S : Wakes(c, all, S)
      BY NotifyWakes
    <3>4. \A u \in Woken(d) : wokenBy'[u] = wokenBy[u]
      BY <3>3 DEF Wakes, Unwoken, Woken, SleptOn
    <3>5. WokenBy(d)' = WokenBy(d)
      BY <3>2, <3>4 DEF WokenBy
    <3>6. QueueKnows(d, P)'
      BY <2>1, <3>1, <3>5, QueueKept
    <3> QED
      BY <3>6
  <2> QED
    BY <2>2, <2>3
<1> QED
  BY <1>1 DEF QueuesInv

\* A thread that goes on leaves the queue of its condition variable.
LEMMA QueuesOfRequest ==
    ASSUME FifoWake, TypeOK, OwnTimeInv, SleepInv, LogInv, LogInv', PastInv, QueuesInv,
           NEW t \in Threads, NEW l \in Locks, NEW loc \in SrcLocs,
           RequestEvent(t, l, loc), ~Alone, asleep[t] => wokenBy[t] # NotWoken,
           NEW vc, EventStep(t, "REQ", l, loc, vc),
           Reflects(log, Kept, vc, PastOf(t, "REQ", l, loc))
    PROVE  QueuesInv'
<1>1. ASSUME NEW d \in CondVars
      PROVE  \E P : QueueKnows(d, P)'
  <2>1. PICK P : QueueKnows(d, P)
    BY DEF QueuesInv
  <2> QED
    BY <2>1, QueueByRequest
<1> QED
  BY <1>1 DEF QueuesInv

\* What the handler's clocks, its last writes and its queues know.
KnowInv == ClockInv /\ WritesInv /\ QueuesInv

\* What is known is kept by an event that writes nothing and takes no notify.
LEMMA KnowOfEvent ==
    ASSUME TypeOK, OwnTimeInv, LogInv, LogInv', PastInv, KnowInv,
           NEW t \in Threads, NEW type, NEW target, NEW loc, NEW vc,
           EventStep(t, type, target, loc, vc), type # "WR",
           Reflects(log, Kept, vc, PastOf(t, type, target, loc)), lastWrite' = lastWrite,
           \A c \in CondVars : WokenBy(c)' = WokenBy(c) /\ notifQueue'[c] = notifQueue[c]
    PROVE  KnowInv'
<1> USE DEF KnowInv
<1>1. ClockInv'
  BY ClockOfEvent
<1>2. WritesInv'
  BY WritesOfEvent
<1>3. QueuesInv'
  BY QueuesOfEvent
<1> QED
  BY <1>1, <1>2, <1>3

\* So it is by the events that do one of these.
LEMMA KnowOfWrite ==
    ASSUME TypeOK, OwnTimeInv, SleepInv, LogInv, LogInv', PastInv, KnowInv,
           NEW t \in Threads, NEW x \in Vars, WriteEvent(t, x), Record(t, "WR", x, 0)
    PROVE  KnowInv'
<1> USE DEF KnowInv
<1>1. EventStep(t, "WR", x, 0, clock[t])
  BY TickingEvents
<1>2. Reflects(log, Kept, clock[t], PastOf(t, "WR", x, 0))
  BY ReflectsOther
<1>3. ClockInv'
  BY <1>1, <1>2, ClockOfEvent
<1>4. WritesInv'
  BY <1>1, <1>2, WritesOfWrite
<1>5. \A c \in CondVars : WokenBy(c)' = WokenBy(c) /\ notifQueue'[c] = notifQueue[c]
  BY QuietEvents, WokenByKept
<1>6. QueuesInv'
  BY <1>1, <1>2, <1>5, QueuesOfEvent
<1> QED
  BY <1>3, <1>4, <1>6

\* A notify.
LEMMA KnowOfNotify ==
    ASSUME TypeOK, OwnTimeInv, SleepInv, LogInv, LogInv', PastInv, KnowInv,
           NEW t \in Threads, NEW c \in CondVars, NEW all \in BOOLEAN, Matched(c),
           NotifyEvent(t, c, all), Record(t, "NOTIFY", c, 0)
    PROVE  KnowInv'
<1> USE DEF KnowInv
<1>1. EventStep(t, "NOTIFY", c, 0, clock[t])
  BY TickingEvents
<1>2. Reflects(log, Kept, clock[t], PastOf(t, "NOTIFY", c, 0))
  BY ReflectsOther
<1>3. lastWrite' = lastWrite
  BY DEF NotifyEvent
<1>4. CASE Alone
  <2>1. \A d \in CondVars : WokenBy(d)' = WokenBy(d) /\ notifQueue'[d] = notifQueue[d]
    BY <1>4, QuietEvents, WokenByKept
  <2> QED
    BY <1>1, <1>2, <1>3, <2>1, KnowOfEvent
<1>5. CASE ~Alone
  <2>1. ClockInv'
    BY <1>1, <1>2, ClockOfEvent
  <2>2. WritesInv'
    BY <1>1, <1>2, <1>3, WritesOfEvent
  <2>3. QueuesInv'
    BY <1>1, <1>2, <1>5, QueuesOfNotify
  <2> QED
    BY <2>1, <2>2, <2>3
<1> QED
  BY <1>4, <1>5

\* A request, which ends no wait that nobody notified.
LEMMA KnowOfRequest ==
    ASSUME FifoWake, TypeOK, OwnTimeInv, SleepInv, LogInv, LogInv', PastInv, KnowInv,
           NEW t \in Threads, NEW l \in Locks, NEW loc \in SrcLocs,
           asleep[t] => wokenBy[t] # NotWoken,
           RequestEvent(t, l, loc), Record(t, "REQ", l, loc)
    PROVE  KnowInv'
<1> USE DEF KnowInv
<1>1. PICK vc : vc = RequestClock(t, l)
  OBVIOUS
<1>2. EventStep(t, "REQ", l, loc, vc)
  BY <1>1, RequestIsEvent
<1>3. Reflects(log, Kept, vc, PastOf(t, "REQ", l, loc))
  BY <1>1, <1>2, ReflectsRequest
<1>4. lastWrite' = lastWrite
  BY DEF RequestEvent
<1>5. CASE Alone
  <2>1. \A d \in CondVars : WokenBy(d)' = WokenBy(d) /\ notifQueue'[d] = notifQueue[d]
    BY <1>5, QuietEvents, WokenByKept
  <2> QED
    BY <1>2, <1>3, <1>4, <2>1, KnowOfEvent
<1>6. CASE ~Alone
  <2>1. ClockInv'
    BY <1>2, <1>3, ClockOfEvent
  <2>2. WritesInv'
    BY <1>2, <1>3, <1>4, WritesOfEvent
  <2>3. QueuesInv'
    BY <1>2, <1>3, <1>6, QueuesOfRequest
  <2> QED
    BY <2>1, <2>2, <2>3
<1> QED
  BY <1>5, <1>6

\* Reads and joins, whose clocks are merged.
LEMMA KnowOfMerge ==
    ASSUME TypeOK, OwnTimeInv, SleepInv, LogInv, LogInv', PastInv, KnowInv, NEW t \in Threads
    PROVE  /\ \A x \in Vars : ReadEvent(t, x) /\ Record(t, "RD", x, 0) => KnowInv'
           /\ \A u \in Threads : JoinEvent(t, u) /\ Record(t, "JOIN", u, 0) => KnowInv'
<1> USE DEF KnowInv
<1>1. ASSUME NEW x \in Vars, ReadEvent(t, x), Record(t, "RD", x, 0)
      PROVE  KnowInv'
  <2>1. PICK vc : vc = IF Alone THEN clock[t] ELSE Merge(clock[t], lastWrite[x])
    OBVIOUS
  <2>2. EventStep(t, "RD", x, 0, vc)
    BY <1>1, <2>1, TickingEvents
  <2>3. Reflects(log, Kept, vc, PastOf(t, "RD", x, 0))
    BY <2>1, <2>2, ReflectsRead
  <2>4. lastWrite' = lastWrite
    BY <1>1 DEF ReadEvent
  <2>5. \A c \in CondVars : WokenBy(c)' = WokenBy(c) /\ notifQueue'[c] = notifQueue[c]
    BY <1>1, QuietEvents, WokenByKept
  <2> QED
    BY <2>2, <2>3, <2>4, <2>5, KnowOfEvent
<1>2. ASSUME NEW u \in Threads, JoinEvent(t, u), Record(t, "JOIN", u, 0)
      PROVE  KnowInv'
  <2>1. PICK vc : vc = Merge(clock[t], clock[u])
    OBVIOUS
  <2>2. EventStep(t, "JOIN", u, 0, vc)
    BY <1>2, <2>1, OtherEvents
  <2>3. Reflects(log, Kept, vc, PastOf(t, "JOIN", u, 0))
    BY <2>1, ReflectsJoin
  <2>4. lastWrite' = lastWrite
    BY <1>2 DEF JoinEvent
  <2>5. \A c \in CondVars : WokenBy(c)' = WokenBy(c) /\ notifQueue'[c] = notifQueue[c]
    BY <1>2, QuietEvents, WokenByKept
  <2> QED
    BY <2>2, <2>3, <2>4, <2>5, KnowOfEvent
<1> QED
  BY <1>1, <1>2

\* The others, for which time only passes.
LEMMA KnowOfOthers ==
    ASSUME TypeOK, OwnTimeInv, SleepInv, LogInv, LogInv', PastInv, KnowInv, NEW t \in Threads
    PROVE  /\ \A c \in CondVars, loc \in SrcLocs :
                 WaitEvent(t, c, loc) /\ Record(t, "WAIT", c, loc) => KnowInv'
           /\ \A l \in Locks : AcquireEvent(t, l) /\ Record(t, "LK", l, 0) => KnowInv'
           /\ \A l \in Locks : ReleaseEvent(t, l) /\ Record(t, "UK", l, 0) => KnowInv'
           /\ \A u \in Threads : ForkEvent(t, u) /\ Record(t, "FORK", u, 0) => KnowInv'
           /\ InvalidEvent(t) /\ Record(t, "OTHER", 0, 0) => KnowInv'
<1>1. ASSUME NEW type, NEW target, NEW loc, EventStep(t, type, target, loc, clock[t]),
             type \notin {"RD", "WR", "JOIN", "REQ"}, lastWrite' = lastWrite,
             \A c \in CondVars : WokenBy(c)' = WokenBy(c) /\ notifQueue'[c] = notifQueue[c]
      PROVE  KnowInv'
  <2>1. Reflects(log, Kept, clock[t], PastOf(t, type, target, loc))
    BY <1>1, ReflectsOther DEF KnowInv
  <2>2. type # "WR"
    BY <1>1
  <2> QED
    BY <1>1, <2>1, <2>2, KnowOfEvent
<1>2. ASSUME Quiet
      PROVE  \A c \in CondVars : WokenBy(c)' = WokenBy(c) /\ notifQueue'[c] = notifQueue[c]
  BY <1>2, WokenByKept
<1>3. ASSUME NEW c \in CondVars, NEW loc \in SrcLocs, WaitEvent(t, c, loc),
             Record(t, "WAIT", c, loc)
      PROVE  KnowInv'
  <2>1. EventStep(t, "WAIT", c, loc, clock[t])
    BY <1>3, TickingEvents
  <2>2. lastWrite' = lastWrite
    BY <1>3 DEF WaitEvent
  <2>3. \A d \in CondVars : WokenBy(d)' = WokenBy(d) /\ notifQueue'[d] = notifQueue[d]
    BY <1>3, WokenByKept
  <2> QED
    BY <1>1, <2>1, <2>2, <2>3
<1>4. ASSUME NEW l \in Locks, AcquireEvent(t, l), Record(t, "LK", l, 0)
      PROVE  KnowInv'
  <2>1. EventStep(t, "LK", l, 0, clock[t]) /\ Quiet
    BY <1>4, TickingEvents, QuietEvents
  <2>2. lastWrite' = lastWrite
    BY <1>4 DEF AcquireEvent
  <2> QED
    BY <1>1, <1>2, <2>1, <2>2
<1>5. ASSUME NEW l \in Locks, ReleaseEvent(t, l), Record(t, "UK", l, 0)
      PROVE  KnowInv'
  <2>1. EventStep(t, "UK", l, 0, clock[t]) /\ Quiet
    BY <1>5, TickingEvents, QuietEvents
  <2>2. lastWrite' = lastWrite
    BY <1>5 DEF ReleaseEvent
  <2> QED
    BY <1>1, <1>2, <2>1, <2>2
<1>6. ASSUME NEW u \in Threads, ForkEvent(t, u), Record(t, "FORK", u, 0)
      PROVE  KnowInv'
  <2>1. EventStep(t, "FORK", u, 0, clock[t]) /\ Quiet
    BY <1>6, OtherEvents, QuietEvents
  <2>2. lastWrite' = lastWrite
    BY <1>6 DEF ForkEvent
  <2> QED
    BY <1>1, <1>2, <2>1, <2>2
<1>7. ASSUME InvalidEvent(t), Record(t, "OTHER", 0, 0)
      PROVE  KnowInv'
  <2>1. EventStep(t, "OTHER", 0, 0, clock[t]) /\ Quiet
    BY <1>7, OtherEvents, QuietEvents
  <2>2. lastWrite' = lastWrite
    BY <1>7 DEF InvalidEvent
  <2> QED
    BY <1>1, <1>2, <2>1, <2>2
<1> QED
  BY <1>3, <1>4, <1>5, <1>6, <1>7

\* Every event keeps what is known of the past, one step per action.
LEMMA PastOfStep ==
    TypeOK /\ OwnTimeInv /\ LogInv /\ LogInv' /\ PastInv /\ [LogNext]_logVars => PastInv'
<1> SUFFICES ASSUME TypeOK, OwnTimeInv, LogInv, LogInv', PastInv, [LogNext]_logVars
             PROVE  PastInv'
  OBVIOUS
<1>1. CASE UNCHANGED logVars
  <2>1. Kept' = Kept /\ Alive' = Alive
    BY <1>1 DEF logVars, vars, programVars, Kept, KeptEvents, DepEvents, EventsIn, Sections, Alive
  <2>2. log' = log /\ clock' = clock /\ status' = status
    BY <1>1 DEF logVars, vars, programVars
  <2> QED
    BY <2>1, <2>2 DEF PastInv
<1>2. CASE LogNext
  <2>1. ASSUME NEW t \in Threads, NEW type, NEW target, NEW loc, NEW vc,
               EventStep(t, type, target, loc, vc)
        PROVE  PastInv'
    BY <2>1, PastOfEvent
  <2>2. ASSUME NEW t \in Threads, NEW x \in Vars
        PROVE  /\ ReadEvent(t, x) /\ Record(t, "RD", x, 0) => PastInv'
               /\ WriteEvent(t, x) /\ Record(t, "WR", x, 0) => PastInv'
    BY <2>1, TickingEvents
  <2>3. ASSUME NEW t \in Threads, NEW c \in CondVars, NEW loc \in SrcLocs,
               WaitEvent(t, c, loc), Record(t, "WAIT", c, loc)
        PROVE  PastInv'
    BY <2>1, <2>3, TickingEvents
  <2>4. ASSUME NEW t \in Threads, NEW c \in CondVars, NEW all \in BOOLEAN,
               NotifyEvent(t, c, all), Record(t, "NOTIFY", c, 0)
        PROVE  PastInv'
    BY <2>1, <2>4, TickingEvents
  <2>5. ASSUME NEW t \in Threads, NEW l \in Locks, NEW loc \in SrcLocs,
               RequestEvent(t, l, loc), Record(t, "REQ", l, loc)
        PROVE  PastInv'
    BY <2>1, <2>5, RequestIsEvent
  <2>6. ASSUME NEW t \in Threads, NEW l \in Locks
        PROVE  /\ AcquireEvent(t, l) /\ Record(t, "LK", l, 0) => PastInv'
               /\ ReleaseEvent(t, l) /\ Record(t, "UK", l, 0) => PastInv'
    BY <2>1, TickingEvents
  <2>7. ASSUME NEW t \in Threads, NEW u \in Threads
        PROVE  /\ ForkEvent(t, u) /\ Record(t, "FORK", u, 0) => PastInv'
               /\ JoinEvent(t, u) /\ Record(t, "JOIN", u, 0) => PastInv'
    BY <2>1, OtherEvents
  <2>8. ASSUME NEW t \in Threads, InvalidEvent(t), Record(t, "OTHER", 0, 0)
        PROVE  PastInv'
    BY <2>1, <2>8, OtherEvents
  <2> QED
    BY <1>2, <2>2, <2>3, <2>4, <2>5, <2>6, <2>7, <2>8 DEF LogNext
<1> QED
  BY <1>1, <1>2

\* As long as every wait ends with a notify, every event keeps what is known.
LEMMA KnowOfStep ==
    FifoWake => (/\ TypeOK /\ OwnTimeInv /\ SleepInv /\ LogInv /\ LogInv' /\ PastInv
                 /\ AllNotified => \A c \in CondVars : Matched(c)
                 /\ AllNotified => KnowInv
                 /\ [LogNext]_logVars
                 => (AllNotified => KnowInv)')
<1> SUFFICES ASSUME FifoWake, TypeOK, OwnTimeInv, SleepInv, LogInv, LogInv', PastInv,
                    AllNotified => \A c \in CondVars : Matched(c),
                    AllNotified => KnowInv, [LogNext]_logVars, AllNotified'
             PROVE  KnowInv'
  OBVIOUS
<1>1. CASE UNCHANGED logVars
  <2>1. AllNotified
    BY <1>1 DEF logVars, AllNotified, Positions, Entry
  <2>2. Kept' = Kept /\ Alive' = Alive
    BY <1>1 DEF logVars, vars, programVars, Kept, KeptEvents, DepEvents, EventsIn, Sections, Alive
  <2>3. /\ log' = log /\ clock' = clock /\ lastWrite' = lastWrite /\ notifQueue' = notifQueue
        /\ asleep' = asleep /\ goal' = goal /\ wokenBy' = wokenBy
    BY <1>1 DEF logVars, vars, programVars, cvVars
  <2>4. ClockInv'
    BY <2>1, <2>2, <2>3 DEF KnowInv, ClockInv
  <2>5. WritesInv'
    BY <2>1, <2>2, <2>3 DEF KnowInv, WritesInv, WriteKnows
  <2>6. \A c \in CondVars : WokenBy(c)' = WokenBy(c)
    BY <2>3 DEF WokenBy, Woken, SleptOn
  <2>7. QueuesInv'
    BY <2>1, <2>2, <2>3, <2>6 DEF KnowInv, QueuesInv, QueueKnows
  <2> QED
    BY <2>4, <2>5, <2>7 DEF KnowInv
<1>2. CASE LogNext
  <2>1. ASSUME NEW t \in Threads, NEW type, NEW target, NEW loc,
               Record(t, type, target, loc)
        PROVE  /\ KnowInv /\ \A c \in CondVars : Matched(c)
               /\ type = "REQ" /\ asleep[t] => wokenBy[t] # NotWoken
    <3>1. /\ AllNotified
          /\ ~(type = "REQ" /\ status[t] = "sleeping" /\ wokenBy[t] = NotWoken)
      BY <2>1, AllNotifiedBefore
    <3> QED
      BY <3>1 DEF SleepInv
  <2>2. ASSUME NEW t \in Threads, NEW x \in Vars
        PROVE  /\ ReadEvent(t, x) /\ Record(t, "RD", x, 0) => KnowInv'
               /\ WriteEvent(t, x) /\ Record(t, "WR", x, 0) => KnowInv'
    BY <2>1, KnowOfMerge, KnowOfWrite
  <2>3. ASSUME NEW t \in Threads, NEW c \in CondVars, NEW loc \in SrcLocs,
               WaitEvent(t, c, loc), Record(t, "WAIT", c, loc)
        PROVE  KnowInv'
    BY <2>1, <2>3, KnowOfOthers
  <2>4. ASSUME NEW t \in Threads, NEW c \in CondVars, NEW all \in BOOLEAN,
               NotifyEvent(t, c, all), Record(t, "NOTIFY", c, 0)
        PROVE  KnowInv'
    <3>1. KnowInv /\ Matched(c)
      BY <2>1, <2>4
    <3> QED
      BY <2>4, <3>1, KnowOfNotify
  <2>5. ASSUME NEW t \in Threads, NEW l \in Locks, NEW loc \in SrcLocs,
               RequestEvent(t, l, loc), Record(t, "REQ", l, loc)
        PROVE  KnowInv'
    <3>1. KnowInv /\ (asleep[t] => wokenBy[t] # NotWoken)
      BY <2>1, <2>5
    <3> QED
      BY <2>5, <3>1, KnowOfRequest
  <2>6. ASSUME NEW t \in Threads, NEW l \in Locks
        PROVE  /\ AcquireEvent(t, l) /\ Record(t, "LK", l, 0) => KnowInv'
               /\ ReleaseEvent(t, l) /\ Record(t, "UK", l, 0) => KnowInv'
    BY <2>1, KnowOfOthers
  <2>7. ASSUME NEW t \in Threads, NEW u \in Threads
        PROVE  /\ ForkEvent(t, u) /\ Record(t, "FORK", u, 0) => KnowInv'
               /\ JoinEvent(t, u) /\ Record(t, "JOIN", u, 0) => KnowInv'
    BY <2>1, KnowOfOthers, KnowOfMerge
  <2>8. ASSUME NEW t \in Threads, InvalidEvent(t), Record(t, "OTHER", 0, 0)
        PROVE  KnowInv'
    BY <2>1, <2>8, KnowOfOthers
  <2> QED
    BY <1>2, <2>2, <2>3, <2>4, <2>5, <2>6, <2>7, <2>8 DEF LogNext
<1> QED
  BY <1>1, <1>2

\* At first nothing has happened and nothing is kept.
LEMMA KnowOfInit == LogInit => PastInv /\ KnowInv
<1> SUFFICES ASSUME LogInit
             PROVE  PastInv /\ KnowInv
  OBVIOUS
<1>1. Init /\ log = <<>>
  BY DEF LogInit
<1>2. PositionsOf(log) = {}
  BY <1>1 DEF PositionsOf
<1>3. /\ \A u : Mine(log, u) = {} /\ Own(log, u) = {}
      /\ \A x : WritesOf(log, x) = {}
  BY <1>2 DEF Mine, Own, WritesOf
<1>4. Upto(log, Latest({})) = {}
  BY DEF Upto, Latest
<1>5. \A x : Written(log, x) = {}
  BY <1>3, <1>4 DEF Written
<1>6. Kept = {}
  <2>1. /\ DOMAIN index.depEvents = {}
        /\ \A l \in Locks, t \in Threads : csHist[l][t] = <<>>
    BY <1>1 DEF Init, EmptyIndex
  <2>2. DepEvents = {}
    BY <2>1 DEF DepEvents, EventsIn
  <2>3. Sections = {}
    BY <2>1 DEF Sections, Elements
  <2> QED
    BY <2>2, <2>3 DEF Kept, KeptEvents
<1>7. PastInv
  <2>1. Cardinality({}) = 0
    BY FS_EmptySet
  <2>2. \A u \in Threads : clock[u][u] = 1
    BY <1>1 DEF Init, OwnedClock
  <2>3. \A u \in Threads : clock[u][u] = 1 + Cardinality(Own(log, u))
    <3>1. \A u \in Threads : Own(log, u) = {}
      BY <1>3
    <3>2. \A u \in Threads : Cardinality(Own(log, u)) = 0
      BY <2>1, <3>1, Zenon
    <3>3. 1 = 1 + 0
      OBVIOUS
    <3> QED
      BY <2>2, <3>2, <3>3, Zenon
  <2> QED
    BY <1>2, <1>3, <1>6, <2>3 DEF PastInv
<1>8. \A c, S : Reflects(log, Kept, c, S)
  BY <1>6 DEF Reflects
<1>9. ClockInv
  BY <1>6, <1>8 DEF ClockInv
<1>10. WritesInv
  <2>1. \A x \in Vars : WriteKnows(x, {})
    BY <1>5, <1>8 DEF WriteKnows
  <2> QED
    BY <2>1 DEF WritesInv
<1>11. QueuesInv
  <2>1. ASSUME NEW c \in CondVars
        PROVE  QueueKnows(c, [i \in {} |-> 0])
    <3>1. notifQueue[c] = <<>> /\ Woken(c) = {}
      BY <1>1 DEF Init, Woken, SleptOn
    <3>2. 1..Len(notifQueue[c]) = {} /\ DOMAIN WokenBy(c) = {}
      BY <3>1 DEF WokenBy
    <3>3. [i \in {} |-> 0] \in [{} -> Nat]
      OBVIOUS
    <3>4. QueueOf(notifQueue[c], WokenBy(c), [i \in {} |-> 0])
      BY <3>2, <3>3 DEF QueueOf
    <3> QED
      BY <3>2, <3>4 DEF QueueKnows
  <2> QED
    BY <2>1 DEF QueuesInv
<1> QED
  BY <1>7, <1>9, <1>10, <1>11 DEF KnowInv

\* What a clock knows is what the clocks of kept events have in common with the past.
LEMMA KnowImplies ==
    ASSUME TypeOK, LogInv, PastInv, ClockInv
    PROVE  \A e, f \in Kept : e.pos # f.pos =>
              (Leq(e.vc, f.vc) <=> e.pos \in Entry(f.pos).past)
<1> SUFFICES ASSUME NEW e \in Kept, NEW f \in Kept, e.pos # f.pos
             PROVE  Leq(e.vc, f.vc) <=> e.pos \in Entry(f.pos).past
  OBVIOUS
<1>1. Reflects(log, Kept, f.vc, Upto(log, {f.pos}))
  BY DEF ClockInv
<1>2. e.pos \in PositionsOf(log)
  BY DEF PastInv
<1>3. log[e.pos + 1].tid \in Threads
  <2>1. e.pos + 1 \in 1..Len(log) /\ log \in Seq(LogEntry)
    BY <1>2 DEF PositionsOf, LogInv
  <2>2. log[e.pos + 1] \in LogEntry
    BY <2>1
  <2> QED
    BY <2>2 DEF LogEntry
<1>4. Leq(e.vc, f.vc) <=> e.pos \in Upto(log, {f.pos})
  BY <1>1, <1>3, ReflectsOrder
<1>5. Upto(log, {f.pos}) = {f.pos} \cup log[f.pos + 1].past
  BY DEF Upto
<1> QED
  BY <1>4, <1>5 DEF Entry

\* As long as every wait ends with a notify, and threads that were notified go on in
\* that order, the clocks of the events that the handler keeps are ordered as the
\* events happened: handlers that return early while one thread is alive lose no
\* edge, and merging writes, notifies and joined threads invents none.
THEOREM ClocksFollowHappensBefore ==
    ASSUME FifoWake
    PROVE  LogSpec => []ClocksAreHappensBefore
<1> DEFINE Inv == TypeOK /\ OwnTimeInv /\ SleepInv /\ LogInv /\ PastInv
                  /\ (AllNotified => \A c \in CondVars : Matched(c))
                  /\ (AllNotified => KnowInv)
<1>1. LogInit => Inv
  BY TypeOfInit, OwnTimeOfInit, SleepOfInit, LogOfInit, MatchedOfInit, KnowOfInit DEF LogInit
<1>2. Inv /\ [LogNext]_logVars => Inv'
  BY LogStepIsStep, TypeOfStep, OwnTimeOfStep, SleepOfStep, LogOfStep, MatchedOfStep,
     PastOfStep, KnowOfStep
<1>3. Inv => ClocksAreHappensBefore
  BY KnowImplies DEF ClocksAreHappensBefore, KnowInv, Kept
<1> QED
  BY <1>1, <1>2, <1>3, PTL DEF LogSpec

\* Only a request of its thread ends a wait.
LEMMA WaitEndsByRequest ==
    ASSUME TypeOK, SleepInv, LogNext, NEW t \in Threads, asleep[t], ~asleep'[t]
    PROVE  \E l \in Locks, loc \in SrcLocs :
              RequestEvent(t, l, loc) /\ Record(t, "REQ", l, loc) /\ ~Alone
<1>1. ASSUME NEW u \in Threads, NEW l \in Locks, NEW loc \in SrcLocs,
             RequestEvent(u, l, loc), Record(u, "REQ", l, loc)
      PROVE  u = t /\ ~Alone
  <2>1. ~Alone
    BY <1>1, QuietEvents DEF Quiet
  <2>2. asleep' = [asleep EXCEPT ![u] = FALSE]
    BY <1>1, <2>1 DEF RequestEvent, HandleSleepness
  <2> QED
    BY <2>1, <2>2 DEF TypeOK
<1>2. ~Quiet
  BY DEF Quiet
<1>3. ASSUME NEW u \in Threads, NEW c \in CondVars, NEW loc \in SrcLocs, WaitEvent(u, c, loc)
      PROVE  FALSE
  <2>1. asleep' = asleep \/ asleep' = [asleep EXCEPT ![u] = TRUE]
    BY <1>3 DEF WaitEvent
  <2> QED
    BY <2>1 DEF TypeOK
<1>4. ASSUME NEW u \in Threads, NEW c \in CondVars, NEW all \in BOOLEAN, NotifyEvent(u, c, all)
      PROVE  FALSE
  BY <1>4 DEF NotifyEvent
<1>5. PICK u \in Threads :
         \/ \E x \in Vars : ReadEvent(u, x) \/ WriteEvent(u, x)
         \/ \E c \in CondVars, loc \in SrcLocs : WaitEvent(u, c, loc)
         \/ \E c \in CondVars, all \in BOOLEAN : NotifyEvent(u, c, all)
         \/ \E l \in Locks, loc \in SrcLocs :
               RequestEvent(u, l, loc) /\ Record(u, "REQ", l, loc)
         \/ \E l \in Locks : AcquireEvent(u, l) \/ ReleaseEvent(u, l)
         \/ \E v \in Threads : ForkEvent(u, v) \/ JoinEvent(u, v)
         \/ InvalidEvent(u)
  BY DEF LogNext
<1>6. \E l \in Locks, loc \in SrcLocs : RequestEvent(u, l, loc) /\ Record(u, "REQ", l, loc)
  BY <1>2, <1>3, <1>4, <1>5, QuietEvents
<1> QED
  BY <1>1, <1>6

\* A thread that goes on has the time of the notify that woke it.
LEMMA WakeOfStep ==
    ASSUME FifoWake, TypeOK, OwnTimeInv, SleepInv, LogInv, LogInv', PastInv,
           AllNotified => KnowInv, LogNext, AllNotified',
           NEW t \in Threads, asleep[t], ~asleep'[t]
    PROVE  clock'[t][Entry(wokenBy[t]).tid] >= LocalTime(wokenBy[t])
<1> DEFINE p == wokenBy[t]
           o == Entry(p).tid
<1>1. PICK l \in Locks, loc \in SrcLocs :
         RequestEvent(t, l, loc) /\ Record(t, "REQ", l, loc) /\ ~Alone
  BY WaitEndsByRequest
<1> DEFINE c == Associated(l)
           w == notifQueue[c][1].vc
<1>2. AllNotified /\ p # NotWoken
  <2>1. status[t] = "sleeping"
    BY DEF SleepInv
  <2> QED
    BY <1>1, <2>1, AllNotifiedBefore
<1>3. c \in CondVars
  BY DEF CondVars
<1>4. PICK P : QueueKnows(c, P)
  BY <1>2, <1>3 DEF KnowInv, QueuesInv
<1>5. /\ 1 \in 1..Len(notifQueue[c]) /\ p = P[1]
      /\ AwakeClock(t, c) = Merge(clock[t], w)
  BY <1>1, <1>2, <1>4, AwakeFacts
<1>6. Carries(log, Kept, w, p) /\ p \in PositionsOf(log)
  BY <1>4, <1>5 DEF QueueKnows
<1>7. w[o] >= TimeOf(log, p)
  BY <1>6 DEF Carries, Entry
<1>8. TimeOf(log, p) = LocalTime(p)
  <2>1. {q \in Own(log, log[p + 1].tid) : q < p}
          = {q \in Positions : /\ q < p /\ Entry(q).tid = Entry(p).tid
                               /\ Entry(q).type # "OTHER"}
    BY DEF Own, PositionsOf, Positions, Entry
  <2> QED
    BY <2>1 DEF TimeOf, LocalTime
<1>9. o \in Threads
  <2>1. p + 1 \in 1..Len(log) /\ log \in Seq(LogEntry)
    BY <1>6 DEF PositionsOf, LogInv
  <2>2. log[p + 1] \in LogEntry
    BY <2>1
  <2> QED
    BY <2>2 DEF LogEntry, Entry
<1>10. w \in Clock /\ clock[t] \in Clock
  <2>1. t \in Alive
    BY DEF SleepInv, Alive
  <2> QED
    BY <1>3, <1>5, <2>1, QueueElements DEF TypeOK
<1>11. clock'[t] = Increment(Merge(clock[t], w), t)
  BY <1>1, <1>5 DEF RequestEvent, Tick, TypeOK
<1> HIDE DEF w, o, p
<1>12. clock'[t][o] >= w[o]
  <2>1. /\ Merge(clock[t], w) \in Clock
        /\ Merge(clock[t], w)[o] = IF clock[t][o] < w[o] THEN w[o] ELSE clock[t][o]
    BY <1>9, <1>10, ClockTypes
  <2>2. Increment(Merge(clock[t], w), t)[o]
          = IF o = t THEN Merge(clock[t], w)[o] + 1 ELSE Merge(clock[t], w)[o]
    BY <1>9, <2>1, ClockTypes
  <2>3. clock[t][o] \in Nat /\ w[o] \in Nat
    BY <1>9, <1>10 DEF Clock
  <2> QED
    BY <1>11, <2>1, <2>2, <2>3
<1>13. w[o] \in Nat /\ TimeOf(log, p) \in Nat
  <2>1. w[o] \in Nat
    BY <1>9, <1>10 DEF Clock
  <2>2. LogShape(log)
    BY DEF LogInv, LogShape, Positions, PositionsOf, Entry
  <2>3. IsFiniteSet({q \in Own(log, log[p + 1].tid) : q < p})
    <3>1. {q \in Own(log, log[p + 1].tid) : q < p} \subseteq 0..(Len(log) - 1)
      BY DEF Own, PositionsOf
    <3>2. IsFiniteSet(0..(Len(log) - 1))
      <4>1. Len(log) - 1 \in Int
        BY DEF LogInv
      <4> QED
        BY <4>1, FS_Interval
    <3> QED
      BY <3>1, <3>2, FS_Subset
  <2>4. Cardinality({q \in Own(log, log[p + 1].tid) : q < p}) \in Nat
    BY <2>3, FS_CardinalityType
  <2>5. TimeOf(log, p) \in Nat
    BY <2>4 DEF TimeOf
  <2> QED
    BY <2>1, <2>5
<1>14. clock'[t][o] \in Nat
  <2>1. Increment(Merge(clock[t], w), t) \in Clock
    BY <1>10, ClockTypes
  <2> QED
    BY <1>9, <1>11, <2>1 DEF Clock
<1>15. clock'[t][o] >= LocalTime(p)
  BY <1>7, <1>8, <1>12, <1>13, <1>14
<1> QED
  BY <1>15 DEF o, p

\* As long as every wait ends with a notify, a thread that goes on has merged the clock
\* of the notify that woke it: handle_sleepness takes no other one off the queue.
THEOREM WakeMergesItsNotify ==
    ASSUME FifoWake
    PROVE  LogSpec => WakeSeesItsNotify
<1> DEFINE Inv == TypeOK /\ OwnTimeInv /\ SleepInv /\ LogInv /\ PastInv
                  /\ (AllNotified => \A c \in CondVars : Matched(c))
                  /\ (AllNotified => KnowInv)
           Wake == AllNotified' => \A t \in Threads : (asleep[t] /\ ~asleep'[t]) =>
                      clock'[t][Entry(wokenBy[t]).tid] >= LocalTime(wokenBy[t])
<1>1. LogInit => Inv
  BY TypeOfInit, OwnTimeOfInit, SleepOfInit, LogOfInit, MatchedOfInit, KnowOfInit DEF LogInit
<1>2. Inv /\ [LogNext]_logVars => Inv'
  BY LogStepIsStep, TypeOfStep, OwnTimeOfStep, SleepOfStep, LogOfStep, MatchedOfStep,
     PastOfStep, KnowOfStep
<1>3. Inv /\ Inv' /\ [LogNext]_logVars => [Wake]_logVars
  BY WakeOfStep
<1>4. WakeSeesItsNotify <=> [][Wake]_logVars
  BY DEF WakeSeesItsNotify
<1> QED
  BY <1>1, <1>2, <1>3, <1>4, PTL DEF LogSpec
=============================================================================
