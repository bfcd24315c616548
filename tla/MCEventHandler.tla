--------------------------- MODULE MCEventHandler ---------------------------
(***************************************************************************)
(* Small programs whose traces TLC feeds to the event handler: for each    *)
(* thread a sequence of choices, in every interleaving.                    *)
(***************************************************************************)
EXTENDS HappensBefore, TLC

CONSTANTS starter, m, a, b, idle

Is(type, targets) == {type} \X targets
LockEvents(ls) == {"REQ", "LK", "UK"} \X ls
Notifies(cs) == {"NOTIFY", "NOTIFYALL"} \X cs
Repeat(n, choice) == [i \in 1..n |-> choice]

Wait == <<Is("UK", {1}), Is("WAIT", {-1}), Is("REQ", {1})>>

\* Two threads wait on one condition variable, the second forked by the first
\* while it holds the lock, and a third notifies it.
SleepWorkload ==
    (m :> <<Is("FORK", {a}), Is("REQ", {1}), Is("LK", {1}),
             Notifies({-1}), Notifies({-1}), Is("UK", {1})>>)
    @@ (a :> <<Is("REQ", {1}), Is("LK", {1}), Is("FORK", {b})>> \o Wait \o <<Is("LK", {1})>>)
    @@ (b :> <<Is("REQ", {1}), Is("LK", {1})>> \o Wait \o <<Is("LK", {1})>>)

\* One thread holds both locks and notifies while it asks for them again.
Again == ({"REQ", "LK"} \X {1, 2}) \cup Is("NOTIFY", {-1, -2})
HoldBoth == <<Is("REQ", {1}), Is("LK", {1}), Is("REQ", {2}), Is("LK", {2})>>

EvictWorkload == (m :> HoldBoth \o <<Is("FORK", {a})>> \o Repeat(13, Again)) @@ (a :> <<>>)

\* One of two programs, which the starting thread chooses.  In the first, two
\* threads read, write and take nested locks, re-entering them; m, who is alone
\* once it has joined the starting thread, forks a and may join it.  In the second,
\* b holds both locks, forks a thread that does nothing, and notifies.
EitherWorkload ==
    (starter :> <<Is("FORK", {m, b})>>)
    @@ (m :> <<Is("JOIN", {starter})>>
             \o Repeat(2, LockEvents({1}) \cup Is("FORK", {a}))
             \o Repeat(3, LockEvents({1, 2}) \cup Is("JOIN", {a}) \cup Is("WR", Vars)))
    @@ (a :> Repeat(2, LockEvents({1}) \cup Is("RD", Vars) \cup Is("OTHER", {NoGoal}))
             \o Repeat(4, LockEvents({1, 2})))
    @@ (b :> <<Is("JOIN", {starter})>> \o HoldBoth \o <<Is("FORK", {idle})>>
             \o Repeat(8, Again))
    @@ (idle :> <<>>)

\* Only the second program asks from two source locations.
LocationsOfSecond ==
    log' # log /\ log'[Len(log')].loc = 2 => log'[Len(log')].tid = b
=============================================================================
