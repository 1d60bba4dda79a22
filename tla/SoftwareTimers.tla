--------------------------- MODULE SoftwareTimers ---------------------------
(***************************************************************************)
(* The software timers of the super-loop                                   *)
(* (lib-superloop/src/softwaretimers.cpp) and the modules that own one     *)
(* timer each and keep its handle: the background discovery, the display,  *)
(* the status LED, the configuration store, DHCP, ACD and others.          *)
(*                                                                         *)
(* Every operation runs to its end before the next; but a callback runs in *)
(* the middle of SoftwareTimerRun() and may call the other operations.     *)
(***************************************************************************)
EXTENDS Integers, Sequences

CONSTANTS
    Owners,      \* the modules that own a timer
    MaxTimers,   \* kSoftwareTimersMax
    Intervals,   \* the periods in use
    Clock,       \* 2^32: the milliseconds wrap
    MaxLag,      \* bound: how late the super-loop may look at a timer that is due
    Callbacks,   \* what callbacks do: a subset of CallbackKinds
    MaxIds       \* bound: how many timers are added

CallbackKinds == {"return", "start", "stop", "change", "delete"}

ASSUME TimersAssumption ==
    /\ MaxTimers \in Nat \ {0} /\ MaxIds \in Nat /\ MaxLag \in Nat
    /\ Clock \in Nat \ {0} /\ Intervals \subseteq Nat
    /\ Callbacks \subseteq CallbackKinds /\ "return" \in Callbacks

None == -1     \* kTimerIdNone

VARIABLES
    timers,      \* s_timers[0 .. s_timers_count - 1]
    current,     \* s_timer_current, counted from 1
    nextId,      \* s_next_id
    handle,      \* s_timer_id of every owner
    now,         \* timing::Millis()
    moved        \* the owners whose deadline the last step changed

vars == <<timers, current, nextId, handle, now, moved>>

Pool == [timers |-> timers, current |-> current, nextId |-> nextId, handle |-> handle]

Later(i) == (now + i) % Clock
Due(t) == (now + Clock - t.expire) % Clock < Clock \div 2
Lag(t) == IF Due(t) THEN (now + Clock - t.expire) % Clock ELSE 0

Init ==
    /\ timers = <<>> /\ current = 1 /\ nextId = 0
    /\ handle = [o \in Owners |-> None]
    /\ now = 0 /\ moved = {}

(***************************************************************************)
(* The operations, as functions of the pool.                               *)
(***************************************************************************)
Added(pool, o, i) ==
    [pool EXCEPT !.timers = Append(@, [expire |-> Later(i), interval |-> i,
                                       id |-> pool.nextId, owner |-> o]),
                 !.nextId = @ + 1,
                 !.handle[o] = pool.nextId]

SoftwareTimerAdd(pool, o, i) ==
    IF Len(pool.timers) >= MaxTimers THEN [pool EXCEPT !.handle[o] = None]
    ELSE Added(pool, o, i)

\* Variant that must break HandlesLive: the first timer moves, not the last.
SwapFirst(ts, k) ==
    [j \in 1..(Len(ts) - 1) |-> IF j = k THEN ts[1] ELSE ts[j]]

\* Timer k is replaced by the last one.
SwapLast(ts, k) ==
    [j \in 1..(Len(ts) - 1) |-> IF j = k THEN ts[Len(ts)] ELSE ts[j]]

\* The cursor when n timers are left.
CursorWithin(c, n) == IF c > n THEN 1 ELSE c

SoftwareTimerDelete(pool, o) ==
    LET Found == {k \in 1..Len(pool.timers) : pool.timers[k].id = pool.handle[o]}
    IN  IF Found = {} THEN pool
        ELSE LET k == CHOOSE j \in Found : TRUE
             IN  [pool EXCEPT !.timers = SwapLast(@, k),
                              !.current = CursorWithin(@, Len(pool.timers) - 1),
                              !.handle[o] = None]

SoftwareTimerChange(pool, o, i) ==
    [pool EXCEPT !.timers = [k \in 1..Len(@) |->
        IF @[k].id = pool.handle[o]
        THEN [@[k] EXCEPT !.expire = Later(i), !.interval = i] ELSE @[k]]]

\* How the owners set their timers: added once, changed from then on.
Start(pool, o, i) ==
    IF pool.handle[o] = None THEN SoftwareTimerAdd(pool, o, i)
    ELSE SoftwareTimerChange(pool, o, i)

(***************************************************************************)
(* The actions.                                                            *)
(***************************************************************************)
TimerOf(pool, o) ==
    { pool.timers[k] : k \in {j \in 1..Len(pool.timers) : pool.timers[j].id = pool.handle[o]} }

Becomes(pool) ==
    /\ pool.nextId <= MaxIds
    /\ timers' = pool.timers /\ current' = pool.current
    /\ nextId' = pool.nextId /\ handle' = pool.handle
    /\ moved' = {o \in Owners : TimerOf(pool, o) # TimerOf(Pool, o)}

StartTimer(o) ==
    /\ \E i \in Intervals : Becomes(Start(Pool, o, i))
    /\ UNCHANGED now

StopTimer(o) ==
    /\ Becomes(SoftwareTimerDelete(Pool, o))
    /\ UNCHANGED now

\* What the callback of o may have made of the pool when it returns.
Returned(o) ==
    {Pool}
    \cup (IF "start" \in Callbacks
          THEN { Start(Pool, p, i) : p \in Owners \ {o}, i \in Intervals } ELSE {})
    \cup (IF "stop" \in Callbacks
          THEN { SoftwareTimerDelete(Pool, p) : p \in Owners \ {o} } ELSE {})
    \cup (IF "change" \in Callbacks
          THEN { SoftwareTimerChange(Pool, o, i) : i \in Intervals } ELSE {})
    \cup (IF "delete" \in Callbacks THEN { SoftwareTimerDelete(Pool, o) } ELSE {})

\* Variant that must break ImplementsPromise: rescheduled from the deadline.
RescheduledFromDeadline(pool, t) ==
    IF pool.timers = <<>> THEN pool
    ELSE [pool EXCEPT !.timers[pool.current].expire = (t.expire + t.interval) % Clock]

\* The slot under the cursor, whoever owns it now, gets the next deadline of t.
Rescheduled(pool, t) ==
    IF pool.timers = <<>> THEN pool
    ELSE [pool EXCEPT !.timers[pool.current].expire = Later(t.interval)]

\* Variant that must break TimerServed: the cursor stays on the timer.
NotAdvanced(pool) == pool

Advanced(pool) ==
    [pool EXCEPT !.current = CursorWithin(@ + 1, Len(pool.timers))]

\* SoftwareTimerRun() on a timer that is due.
Expire ==
    /\ timers # <<>> /\ Due(timers[current])
    /\ LET t == timers[current]
       IN  \E pool \in Returned(t.owner) : Becomes(Advanced(Rescheduled(pool, t)))
    /\ UNCHANGED now

\* SoftwareTimerRun() on a timer that is not.
Pass ==
    /\ timers # <<>> /\ ~Due(timers[current])
    /\ Becomes(Advanced(Pool))
    /\ UNCHANGED now

SoftwareTimerRun == Expire \/ Pass

Tick ==
    /\ \A k \in 1..Len(timers) : Lag(timers[k]) < MaxLag
    /\ now' = (now + 1) % Clock
    /\ moved' = {}
    /\ UNCHANGED <<timers, current, nextId, handle>>

Next == (\E o \in Owners : StartTimer(o) \/ StopTimer(o)) \/ SoftwareTimerRun \/ Tick

Spec == Init /\ [][Next]_vars

\* The super-loop runs for ever, and so does the clock.
FairSpec == Spec /\ WF_vars(SoftwareTimerRun) /\ WF_vars(Tick)
=============================================================================
