---------------------------- MODULE TimerPromise ----------------------------
(***************************************************************************)
(* What the software timers promise their owners: a timer is a deadline    *)
(* and a period.  It expires only when its deadline has passed, the next   *)
(* deadline is one period later, and nothing but its owner changes it.     *)
(*                                                                         *)
(* Module SoftwareTimers models the table behind it.                       *)
(***************************************************************************)
EXTENDS Naturals

CONSTANTS Owners, Intervals, Clock, None

VARIABLES deadline,    \* None or [due, interval] of every owner
          now          \* milliseconds, modulo Clock

vars == <<deadline, now>>

Passed(due) == (now + Clock - due) % Clock < Clock \div 2

In(i) == [due |-> (now + i) % Clock, interval |-> i]

Init == deadline = [o \in Owners |-> None] /\ now = 0

Set(o) == \E i \in Intervals : deadline' = [deadline EXCEPT ![o] = In(i)]

Cancel(o) == deadline' = [deadline EXCEPT ![o] = None]

\* The deadlines f, with that of o one period from now.
Renewed(f, o) == [f EXCEPT ![o].due = In(deadline[o].interval).due]

\* The callback of o runs.  It may set the timer of another owner or give its
\* own another period, which counts from the deadline after the next.
Expire(o) ==
    /\ deadline[o] # None /\ Passed(deadline[o].due)
    /\ \/ deadline' = Renewed(deadline, o)
       \/ \E p \in Owners, i \in Intervals :
             deadline' = Renewed([deadline EXCEPT ![p] = In(i)], o)

Next == \/ \E o \in Owners : (Set(o) \/ Cancel(o) \/ Expire(o)) /\ now' = now
        \/ now' = (now + 1) % Clock /\ UNCHANGED deadline

Spec == Init /\ [][Next]_vars
=============================================================================
