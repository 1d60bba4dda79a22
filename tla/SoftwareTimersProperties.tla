---------------------- MODULE SoftwareTimersProperties ----------------------
(***************************************************************************)
(* What the software timers guarantee the modules that own one.            *)
(***************************************************************************)
EXTENDS SoftwareTimers

CONSTANT NoDeadline    \* the deadline of an owner without a timer

Timer == [expire : 0..(Clock - 1), interval : Intervals, id : Nat, owner : Owners]

TimersTypeOK ==
    /\ timers \in Seq(Timer) /\ Len(timers) <= MaxTimers
    /\ nextId \in Nat /\ current \in Nat \ {0}
    /\ handle \in [Owners -> Nat \cup {None}]
    /\ now \in 0..(Clock - 1)

\* Every handle an owner keeps names one timer, and every timer is in the hands
\* of its owner, although deleting moves timers and callbacks delete and add
\* timers in the middle of SoftwareTimerRun(): no timer is lost or orphaned.
HandlesLive ==
    /\ \A k \in 1..Len(timers) : handle[timers[k].owner] = timers[k].id
    /\ \A o \in Owners : handle[o] # None =>
          \E k \in 1..Len(timers) : timers[k].owner = o /\ timers[k].id = handle[o]
    /\ \A j, k \in 1..Len(timers) : timers[j].id = timers[k].id => j = k

\* The cursor is on a timer whenever there is one: SoftwareTimerRun() never
\* looks at a slot of the pool that is no longer in use.
CursorInside == current \in 1..(IF timers = <<>> THEN 1 ELSE Len(timers))

\* A timer that is set expires, unless it is set again or deleted before,
\* however many others there are and whatever they do.
TimerServed ==
    \A o \in Owners : handle[o] # None ~> o \in moved \/ handle[o] = None

\* The deadlines a pool keeps: that of the timer the handle names, if any.
DeadlinesIn(pool) == [o \in Owners |->
    IF \E k \in 1..Len(pool.timers) : pool.timers[k].id = pool.handle[o]
    THEN LET k == CHOOSE j \in 1..Len(pool.timers) : pool.timers[j].id = pool.handle[o]
         IN  [due |-> pool.timers[k].expire, interval |-> pool.timers[k].interval]
    ELSE NoDeadline]

Deadlines == DeadlinesIn(Pool)

\* The table keeps the deadlines of its owners.
Promise == INSTANCE TimerPromise WITH None <- NoDeadline, deadline <- Deadlines

\* As long as callbacks delete no timer, the pool, its swaps and its cursor
\* implement one independent deadline per owner: SoftwareTimerRun() never runs
\* a callback early and never touches the deadline of another timer.
ImplementsPromise == Promise!Spec
=============================================================================
