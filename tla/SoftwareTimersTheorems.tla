----------------------- MODULE SoftwareTimersTheorems -----------------------
(***************************************************************************)
(* The pool of software timers stays consistent for every number of owners *)
(* and timers, every set of periods and everything a callback may do.      *)
(***************************************************************************)
EXTENDS SoftwareTimersProperties, TLAPS

\* The inductive invariant, for a pool in the middle of an operation too: ids
\* in use are below the next one, so a new timer never shares the id of an old.
PoolOK(pool) ==
    /\ pool = [timers |-> pool.timers, current |-> pool.current,
               nextId |-> pool.nextId, handle |-> pool.handle]
    /\ pool.timers \in Seq(Timer) /\ Len(pool.timers) <= MaxTimers
    /\ pool.nextId \in Nat
    /\ pool.handle \in [Owners -> Nat \cup {None}]
    /\ \A k \in 1..Len(pool.timers) : pool.handle[pool.timers[k].owner] = pool.timers[k].id
    /\ \A o \in Owners : pool.handle[o] # None =>
          \E k \in 1..Len(pool.timers) :
              pool.timers[k].owner = o /\ pool.timers[k].id = pool.handle[o]
    /\ \A j, k \in 1..Len(pool.timers) : pool.timers[j].id = pool.timers[k].id => j = k
    /\ \A k \in 1..Len(pool.timers) : pool.timers[k].id < pool.nextId

CursorOK(pool) ==
    pool.current \in 1..(IF Len(pool.timers) = 0 THEN 1 ELSE Len(pool.timers))

IInv == PoolOK(Pool) /\ CursorOK(Pool) /\ now \in 0..(Clock - 1)

\* The end of a period is a time of the clock.
LEMMA LaterFacts ==
    ASSUME now \in 0..(Clock - 1), NEW i \in Intervals
    PROVE  Later(i) \in 0..(Clock - 1)
BY TimersAssumption DEF Later

\* The cursor is put back inside whatever it was.
LEMMA CursorWithinFacts ==
    ASSUME NEW c \in Nat \ {0}, NEW n \in Nat
    PROVE  CursorWithin(c, n) \in 1..(IF n = 0 THEN 1 ELSE n)
BY DEF CursorWithin

\* An owner without a timer gets one, and an id no timer had.
LEMMA AddFacts ==
    ASSUME NEW pool, PoolOK(pool), CursorOK(pool), now \in 0..(Clock - 1),
           NEW o \in Owners, NEW i \in Intervals, pool.handle[o] = None
    PROVE  PoolOK(SoftwareTimerAdd(pool, o, i)) /\ CursorOK(SoftwareTimerAdd(pool, o, i))
<1> DEFINE new == SoftwareTimerAdd(pool, o, i)
           n == Len(pool.timers)
           t == [expire |-> Later(i), interval |-> i, id |-> pool.nextId, owner |-> o]
<1>1. CASE n >= MaxTimers
  <2>1. pool.handle \in [Owners -> Nat \cup {None}]
    BY DEF PoolOK
  <2>2. [pool.handle EXCEPT ![o] = None] = pool.handle
    BY <2>1
  <2>3. new = [pool EXCEPT !.handle[o] = None]
    BY <1>1 DEF SoftwareTimerAdd
  <2>4. new = pool
    BY <2>2, <2>3 DEF PoolOK
  <2> QED
    BY <2>4
<1>2. CASE ~(n >= MaxTimers)
  <2>1. n \in Nat /\ MaxTimers \in Nat
    BY TimersAssumption DEF PoolOK
  <2>2. t \in Timer
    BY LaterFacts DEF PoolOK, Timer
  <2>3. /\ new = [timers |-> Append(pool.timers, t), current |-> pool.current,
                  nextId |-> pool.nextId + 1,
                  handle |-> [pool.handle EXCEPT ![o] = pool.nextId]]
    BY <1>2 DEF SoftwareTimerAdd, Added, PoolOK
  <2>4. /\ Append(pool.timers, t) \in Seq(Timer)
        /\ Len(Append(pool.timers, t)) = n + 1
        /\ \A k \in 1..n : Append(pool.timers, t)[k] = pool.timers[k]
        /\ Append(pool.timers, t)[n + 1] = t
    BY <2>2 DEF PoolOK
  <2> DEFINE ts == Append(pool.timers, t)
             h == [pool.handle EXCEPT ![o] = pool.nextId]
  <2>5. /\ h \in [Owners -> Nat \cup {None}] /\ h[o] = pool.nextId
        /\ \A p \in Owners : p # o => h[p] = pool.handle[p]
    BY DEF PoolOK
  <2>6. t.id = pool.nextId /\ t.owner = o
    OBVIOUS
  <2> HIDE DEF t, ts, h
  <2>7. \A k \in 1..n : pool.timers[k].owner # o
    <3>1. \A k \in 1..n : pool.timers[k] \in Timer
      BY DEF PoolOK
    <3> QED
      BY <3>1 DEF PoolOK, Timer, None
  <2>8. \A k \in 1..(n + 1) : k \in 1..n \/ k = n + 1
    BY <2>1
  <2>9. \A k \in 1..n : pool.timers[k].owner \in Owners /\ pool.timers[k].id \in Nat
    <3>1. \A k \in 1..n : pool.timers[k] \in Timer
      BY DEF PoolOK
    <3> QED
      BY <3>1 DEF Timer
  <2>10. \A k \in 1..(n + 1) : h[ts[k].owner] = ts[k].id
    BY <2>4, <2>5, <2>6, <2>7, <2>8, <2>9 DEF PoolOK, ts
  <2>11. ASSUME NEW p \in Owners, h[p] # None
         PROVE  \E k \in 1..(n + 1) : ts[k].owner = p /\ ts[k].id = h[p]
    <3>1. CASE p = o
      BY <2>1, <2>4, <2>5, <2>6, <3>1 DEF ts
    <3>2. CASE p # o
      <4>1. PICK k \in 1..n : pool.timers[k].owner = p /\ pool.timers[k].id = pool.handle[p]
        BY <2>5, <2>11, <3>2 DEF PoolOK
      <4> QED
        BY <2>1, <2>4, <2>5, <3>2, <4>1 DEF ts
    <3> QED
      BY <3>1, <3>2
  <2>12. \A j, k \in 1..(n + 1) : ts[j].id = ts[k].id => j = k
    BY <2>4, <2>6, <2>8, <2>9 DEF PoolOK, ts
  <2>13. \A k \in 1..(n + 1) : ts[k].id < pool.nextId + 1
    BY <2>4, <2>6, <2>8, <2>9 DEF PoolOK, ts
  <2>14. new.timers = ts /\ new.current = pool.current
         /\ new.nextId = pool.nextId + 1 /\ new.handle = h
    BY <2>3 DEF ts, h
  <2>15. PoolOK(new)
    <3> HIDE DEF new
    <3>1. new = [timers |-> new.timers, current |-> new.current,
                 nextId |-> new.nextId, handle |-> new.handle]
      BY <2>3
    <3>2. Len(ts) = n + 1 /\ ts \in Seq(Timer) /\ n + 1 <= MaxTimers
      BY <1>2, <2>1, <2>4 DEF ts
    <3>3. pool.nextId + 1 \in Nat
      BY DEF PoolOK
    <3> QED
      BY <2>5, <2>10, <2>11, <2>12, <2>13, <2>14, <3>1, <3>2, <3>3 DEF PoolOK
  <2>16. CursorOK(new)
    BY <2>1, <2>4, <2>14 DEF CursorOK, ts
  <2> QED
    BY <2>15, <2>16
<1> QED
  BY <1>1, <1>2

\* Deleting moves the last timer and forgets the right handle.
LEMMA DeleteTimerFacts ==
    ASSUME NEW pool, PoolOK(pool), CursorOK(pool), NEW o \in Owners
    PROVE  PoolOK(SoftwareTimerDelete(pool, o)) /\ CursorOK(SoftwareTimerDelete(pool, o))
<1> DEFINE n == Len(pool.timers)
           Found == {k \in 1..n : pool.timers[k].id = pool.handle[o]}
           new == SoftwareTimerDelete(pool, o)
<1>1. CASE Found = {}
  BY <1>1 DEF SoftwareTimerDelete
<1>2. CASE Found # {}
  <2> DEFINE k == CHOOSE j \in Found : TRUE
             ts == SwapLast(pool.timers, k)
             h == [pool.handle EXCEPT ![o] = None]
             c == CursorWithin(pool.current, n - 1)
  <2>1. k \in 1..n /\ pool.timers[k].id = pool.handle[o]
    BY <1>2
  <2>2. new = [timers |-> ts, current |-> c, nextId |-> pool.nextId, handle |-> h]
    BY <1>2 DEF SoftwareTimerDelete, PoolOK
  <2> HIDE DEF k
  <2>3. n \in Nat /\ n >= 1 /\ n - 1 \in Nat
    BY <2>1 DEF PoolOK
  <2>4. \A j \in 1..n : pool.timers[j] \in Timer
    BY DEF PoolOK
  <2>5. ts \in [1..(n - 1) -> Timer]
    BY <2>1, <2>3, <2>4 DEF SwapLast
  <2>6. \A j \in 1..(n - 1) : ts[j] = IF j = k THEN pool.timers[n] ELSE pool.timers[j]
    BY DEF SwapLast
  <2> HIDE DEF ts
  <2>7. ts \in Seq(Timer) /\ Len(ts) = n - 1
    <3> HIDE DEF n
    <3> QED
      BY <2>3, <2>5
  <2>8. /\ h \in [Owners -> Nat \cup {None}] /\ h[o] = None
        /\ \A p \in Owners : p # o => h[p] = pool.handle[p]
    BY DEF PoolOK
  <2> HIDE DEF h, n
  <2>9. /\ \A j \in 1..n : /\ pool.timers[j].owner \in Owners
                           /\ pool.timers[j].id \in Nat
                           /\ pool.handle[pool.timers[j].owner] = pool.timers[j].id
                           /\ pool.timers[j].id < pool.nextId
        /\ \A i, j \in 1..n : pool.timers[i].id = pool.timers[j].id => i = j
        /\ \A p \in Owners : pool.handle[p] # None =>
             \E j \in 1..n : pool.timers[j].owner = p /\ pool.timers[j].id = pool.handle[p]
    BY <2>4 DEF PoolOK, Timer, n
  <2>10. pool.timers[k].owner = o
    <3>1. pool.handle[o] # None
      BY <2>1, <2>9 DEF None
    <3>2. PICK j \in 1..n : pool.timers[j].owner = o /\ pool.timers[j].id = pool.handle[o]
      BY <2>9, <3>1
    <3>3. j = k
      BY <2>1, <2>9, <3>2
    <3> QED
      BY <3>2, <3>3
  <2> DEFINE From(j) == IF j = k THEN n ELSE j
  <2>11. \A j \in 1..(n - 1) : /\ From(j) \in 1..n /\ From(j) # k
                               /\ ts[j] = pool.timers[From(j)]
    BY <2>1, <2>3, <2>6
  <2>12. \A i, j \in 1..(n - 1) : From(i) = From(j) => i = j
    BY <2>1, <2>3
  <2>13. \A j \in 1..n : j # k => \E i \in 1..(n - 1) : From(i) = j
    <3> SUFFICES ASSUME NEW j \in 1..n, j # k PROVE \E i \in 1..(n - 1) : From(i) = j
      OBVIOUS
    <3>1. CASE j = n
      <4>1. k \in 1..(n - 1) /\ From(k) = n
        BY <2>1, <2>3, <3>1
      <4> QED
        BY <3>1, <4>1
    <3>2. CASE j # n
      <4>1. j \in 1..(n - 1) /\ From(j) = j
        BY <2>3, <3>2
      <4> QED
        BY <4>1
    <3> QED
      BY <3>1, <3>2
  <2> HIDE DEF From
  <2>14. \A j \in 1..(n - 1) : ts[j].owner # o
    <3> SUFFICES ASSUME NEW j \in 1..(n - 1), ts[j].owner = o PROVE FALSE
      OBVIOUS
    <3>1. pool.timers[From(j)].owner = o
      BY <2>11
    <3>2. pool.timers[From(j)].id = pool.timers[k].id
      BY <2>1, <2>9, <2>11, <3>1
    <3> QED
      BY <2>1, <2>9, <2>11, <3>2
  <2>15. \A j \in 1..(n - 1) : h[ts[j].owner] = ts[j].id
    BY <2>8, <2>9, <2>11, <2>14
  <2>16. ASSUME NEW p \in Owners, h[p] # None
         PROVE  \E j \in 1..(n - 1) : ts[j].owner = p /\ ts[j].id = h[p]
    <3>1. p # o /\ h[p] = pool.handle[p]
      BY <2>8, <2>16
    <3>2. PICK j \in 1..n : pool.timers[j].owner = p /\ pool.timers[j].id = pool.handle[p]
      BY <2>9, <2>16, <3>1
    <3>3. j # k
      BY <2>10, <3>1, <3>2
    <3>4. PICK i \in 1..(n - 1) : From(i) = j
      BY <2>13, <3>3
    <3> QED
      BY <2>11, <3>1, <3>2, <3>4
  <2>17. \A i, j \in 1..(n - 1) : ts[i].id = ts[j].id => i = j
    BY <2>9, <2>11, <2>12
  <2>18. \A j \in 1..(n - 1) : ts[j].id < pool.nextId
    BY <2>9, <2>11
  <2>19. new.timers = ts /\ new.current = c /\ new.nextId = pool.nextId /\ new.handle = h
    BY <2>2
  <2>20. PoolOK(new)
    <3> HIDE DEF new
    <3>1. new = [timers |-> new.timers, current |-> new.current,
                 nextId |-> new.nextId, handle |-> new.handle]
      BY <2>2
    <3>2. Len(ts) <= MaxTimers /\ pool.nextId \in Nat
      BY <2>3, <2>7, TimersAssumption DEF PoolOK, n
    <3> QED
      BY <2>7, <2>8, <2>15, <2>16, <2>17, <2>18, <2>19, <3>1, <3>2 DEF PoolOK
  <2>21. CursorOK(new)
    <3>1. pool.current \in Nat \ {0}
      BY <2>3 DEF CursorOK, n
    <3>2. c \in 1..(IF n - 1 = 0 THEN 1 ELSE n - 1)
      BY <2>3, <3>1, CursorWithinFacts
    <3> HIDE DEF c
    <3> QED
      BY <2>7, <2>19, <3>2 DEF CursorOK
  <2> QED
    BY <2>20, <2>21
<1> QED
  BY <1>1, <1>2

\* Timers that keep their id and their owner keep the pool consistent.
LEMMA RetimedFacts ==
    ASSUME NEW pool, PoolOK(pool), CursorOK(pool), NEW ts,
           ts \in [1..Len(pool.timers) -> Timer],
           \A k \in 1..Len(pool.timers) : /\ ts[k].id = pool.timers[k].id
                                          /\ ts[k].owner = pool.timers[k].owner
    PROVE  /\ PoolOK([pool EXCEPT !.timers = ts])
           /\ CursorOK([pool EXCEPT !.timers = ts])
<1> DEFINE new == [pool EXCEPT !.timers = ts]
           n == Len(pool.timers)
<1>1. n \in Nat
  BY DEF PoolOK
<1>2. ts \in Seq(Timer) /\ Len(ts) = n
  <2> HIDE DEF n
  <2> SUFFICES ASSUME ts \in [1..n -> Timer] PROVE ts \in Seq(Timer) /\ Len(ts) = n
    BY DEF n
  <2> QED
    BY <1>1
<1>3. new = [timers |-> ts, current |-> pool.current,
             nextId |-> pool.nextId, handle |-> pool.handle]
  BY DEF PoolOK
<1>4. /\ new.timers = ts /\ new.current = pool.current
      /\ new.nextId = pool.nextId /\ new.handle = pool.handle
  BY <1>3
<1> HIDE DEF new
<1>5. new = [timers |-> new.timers, current |-> new.current,
             nextId |-> new.nextId, handle |-> new.handle]
  BY <1>3, <1>4
<1>6. CursorOK(new)
  BY <1>2, <1>4 DEF CursorOK
<1>7. \A k \in 1..n : new.handle[ts[k].owner] = ts[k].id /\ ts[k].id < new.nextId
  BY <1>4 DEF PoolOK
<1>8. \A o \in Owners : new.handle[o] # None =>
        \E k \in 1..n : ts[k].owner = o /\ ts[k].id = new.handle[o]
  <2> SUFFICES ASSUME NEW o \in Owners, new.handle[o] # None
               PROVE  \E k \in 1..n : ts[k].owner = o /\ ts[k].id = new.handle[o]
    OBVIOUS
  <2>1. PICK k \in 1..n : pool.timers[k].owner = o /\ pool.timers[k].id = pool.handle[o]
    BY <1>4 DEF PoolOK
  <2> QED
    BY <1>4, <2>1
<1>9. \A j, k \in 1..n : ts[j].id = ts[k].id => j = k
  BY DEF PoolOK
<1>10. PoolOK(new)
  <2>1. n <= MaxTimers /\ pool.nextId \in Nat /\ pool.handle \in [Owners -> Nat \cup {None}]
    BY DEF PoolOK
  <2> HIDE DEF n
  <2> QED
    BY <1>2, <1>4, <1>5, <1>7, <1>8, <1>9, <2>1 DEF PoolOK
<1> QED
  BY <1>6, <1>10 DEF new

\* Changing a timer moves its deadline and nothing else.
LEMMA ChangeFacts ==
    ASSUME NEW pool, PoolOK(pool), CursorOK(pool), now \in 0..(Clock - 1),
           NEW o \in Owners, NEW i \in Intervals
    PROVE  PoolOK(SoftwareTimerChange(pool, o, i)) /\ CursorOK(SoftwareTimerChange(pool, o, i))
<1> DEFINE ts == [k \in 1..Len(pool.timers) |->
                    IF pool.timers[k].id = pool.handle[o]
                    THEN [pool.timers[k] EXCEPT !.expire = Later(i), !.interval = i]
                    ELSE pool.timers[k]]
<1>1. \A k \in 1..Len(pool.timers) : pool.timers[k] \in Timer
  BY DEF PoolOK
<1>2. ASSUME NEW k \in 1..Len(pool.timers)
      PROVE  /\ ts[k] \in Timer
             /\ ts[k].id = pool.timers[k].id /\ ts[k].owner = pool.timers[k].owner
  <2>1. pool.timers[k] \in Timer /\ Later(i) \in 0..(Clock - 1)
    BY <1>1, LaterFacts
  <2> QED
    BY <2>1 DEF Timer
<1>3. ts \in [1..Len(pool.timers) -> Timer]
  BY <1>2
<1>4. SoftwareTimerChange(pool, o, i) = [pool EXCEPT !.timers = ts]
  BY DEF SoftwareTimerChange, PoolOK
<1> HIDE DEF ts
<1> QED
  BY <1>2, <1>3, <1>4, RetimedFacts

\* A timer is started by adding or by changing it.
LEMMA StartFacts ==
    ASSUME NEW pool, PoolOK(pool), CursorOK(pool), now \in 0..(Clock - 1),
           NEW o \in Owners, NEW i \in Intervals
    PROVE  PoolOK(Start(pool, o, i)) /\ CursorOK(Start(pool, o, i))
BY AddFacts, ChangeFacts DEF Start

\* Whatever the callback did, the pool it leaves is consistent.
LEMMA ReturnedFacts ==
    ASSUME IInv, NEW o \in Owners, NEW pool \in Returned(o)
    PROVE  PoolOK(pool) /\ CursorOK(pool)
BY StartFacts, DeleteTimerFacts, ChangeFacts DEF IInv, Returned

\* The new deadline of the slot under the cursor, when there is one.
LEMMA RescheduledFacts ==
    ASSUME NEW pool, PoolOK(pool), CursorOK(pool), now \in 0..(Clock - 1),
           NEW t \in Timer
    PROVE  PoolOK(Rescheduled(pool, t)) /\ CursorOK(Rescheduled(pool, t))
<1>1. CASE pool.timers = <<>>
  BY <1>1 DEF Rescheduled
<1>2. CASE pool.timers # <<>>
  <2> DEFINE ts == [pool.timers EXCEPT ![pool.current].expire = Later(t.interval)]
  <2>1. Rescheduled(pool, t) = [pool EXCEPT !.timers = ts]
    BY <1>2 DEF Rescheduled, PoolOK
  <2>2. Later(t.interval) \in 0..(Clock - 1)
    BY LaterFacts DEF Timer
  <2>3. \A k \in 1..Len(pool.timers) : pool.timers[k] \in Timer
    BY DEF PoolOK
  <2>4. ts = [k \in 1..Len(pool.timers) |->
                IF k = pool.current THEN [pool.timers[k] EXCEPT !.expire = Later(t.interval)]
                ELSE pool.timers[k]]
    <3>1. pool.timers = [k \in 1..Len(pool.timers) |-> pool.timers[k]]
      BY DEF PoolOK
    <3>2. DOMAIN pool.timers = 1..Len(pool.timers)
      BY DEF PoolOK
    <3> QED
      BY <3>1, <3>2, Zenon
  <2> HIDE DEF ts
  <2>5. ASSUME NEW k \in 1..Len(pool.timers)
        PROVE  /\ ts[k] \in Timer
               /\ ts[k].id = pool.timers[k].id /\ ts[k].owner = pool.timers[k].owner
    BY <2>2, <2>3, <2>4 DEF Timer
  <2>6. ts \in [1..Len(pool.timers) -> Timer]
    BY <2>4, <2>5
  <2> QED
    BY <2>1, <2>5, <2>6, RetimedFacts
<1> QED
  BY <1>1, <1>2

\* The cursor moves on and stays inside.
LEMMA AdvancedFacts ==
    ASSUME NEW pool, PoolOK(pool), CursorOK(pool)
    PROVE  PoolOK(Advanced(pool)) /\ CursorOK(Advanced(pool))
<1>1. Len(pool.timers) \in Nat /\ pool.current + 1 \in Nat \ {0}
  BY DEF PoolOK, CursorOK
<1> DEFINE c == CursorWithin(pool.current + 1, Len(pool.timers))
<1>2. c \in 1..(IF Len(pool.timers) = 0 THEN 1 ELSE Len(pool.timers))
  BY <1>1, CursorWithinFacts
<1>3. Advanced(pool) = [timers |-> pool.timers, current |-> c,
                        nextId |-> pool.nextId, handle |-> pool.handle]
  BY DEF Advanced, PoolOK
<1> HIDE DEF c
<1> QED
  BY <1>2, <1>3 DEF PoolOK, CursorOK

\* The step to the pool of an operation.
LEMMA BecomesFacts ==
    ASSUME NEW pool, PoolOK(pool), CursorOK(pool), Becomes(pool), now' \in 0..(Clock - 1)
    PROVE  IInv'
<1>1. Pool' = pool
  BY DEF Becomes, Pool, PoolOK
<1> QED
  BY <1>1 DEF IInv, PoolOK, CursorOK

THEOREM Inductive == Spec => []IInv
<1>1. Init => IInv
  BY TimersAssumption DEF Init, IInv, PoolOK, CursorOK, Pool, None
<1>2. IInv /\ [Next]_vars => IInv'
  <2> SUFFICES ASSUME IInv, [Next]_vars PROVE IInv'
    OBVIOUS
  <2>0. /\ PoolOK(Pool) /\ CursorOK(Pool) /\ now \in 0..(Clock - 1)
        /\ Pool.timers = timers /\ Pool.current = current
    BY DEF IInv, Pool
  <2>1. ASSUME NEW o \in Owners, StartTimer(o) PROVE IInv'
    <3>1. PICK i \in Intervals : Becomes(Start(Pool, o, i))
      BY <2>1 DEF StartTimer
    <3> QED
      BY <2>0, <2>1, <3>1, StartFacts, BecomesFacts DEF StartTimer
  <2>2. ASSUME NEW o \in Owners, StopTimer(o) PROVE IInv'
    BY <2>0, <2>2, DeleteTimerFacts, BecomesFacts DEF StopTimer
  <2>3. CASE Expire
    <3>1. timers # <<>> /\ timers \in Seq(Timer) /\ current \in 1..Len(timers)
      BY <2>0, <2>3 DEF Expire, PoolOK, CursorOK
    <3>2. timers[current] \in Timer /\ timers[current].owner \in Owners
      <4>1. timers[current] \in Timer
        BY <3>1
      <4> QED
        BY <4>1 DEF Timer
    <3>3. PICK pool \in Returned(timers[current].owner) :
             Becomes(Advanced(Rescheduled(pool, timers[current])))
      BY <2>3 DEF Expire
    <3>4. PoolOK(pool) /\ CursorOK(pool)
      BY <3>2, <3>3, ReturnedFacts
    <3>5. /\ PoolOK(Rescheduled(pool, timers[current]))
          /\ CursorOK(Rescheduled(pool, timers[current]))
      BY <2>0, <3>2, <3>4, RescheduledFacts
    <3>6. now' \in 0..(Clock - 1)
      BY <2>0, <2>3 DEF Expire
    <3> QED
      BY <3>3, <3>5, <3>6, AdvancedFacts, BecomesFacts
  <2>4. CASE Pass
    BY <2>0, <2>4, AdvancedFacts, BecomesFacts DEF Pass
  <2>5. CASE Tick
    <3>1. now' \in 0..(Clock - 1) /\ Pool' = Pool
      BY <2>0, <2>5, TimersAssumption DEF Tick, Pool
    <3> QED
      BY <2>0, <3>1 DEF IInv, PoolOK, CursorOK
  <2>6. CASE UNCHANGED vars
    BY <2>0, <2>6 DEF IInv, PoolOK, CursorOK, Pool, vars
  <2> QED
    BY <2>1, <2>2, <2>3, <2>4, <2>5, <2>6 DEF Next, SoftwareTimerRun
<1> QED
  BY <1>1, <1>2, PTL DEF Spec

\* The table has its type for every pool size, owner and period.
THEOREM TypeCorrect == Spec => []TimersTypeOK
<1>1. IInv => TimersTypeOK
  BY DEF IInv, PoolOK, CursorOK, Pool, TimersTypeOK
<1> QED
  BY <1>1, Inductive, PTL

\* No operation and no callback loses a timer or leaves a handle dangling.
THEOREM HandlesAlwaysLive == Spec => []HandlesLive
<1>1. IInv => HandlesLive
  BY DEF IInv, PoolOK, Pool, HandlesLive
<1> QED
  BY <1>1, Inductive, PTL

\* The round-robin cursor never leaves the timers in use.
THEOREM CursorAlwaysInside == Spec => []CursorInside
<1>1. IInv => CursorInside
  <2> SUFFICES ASSUME IInv PROVE CursorInside
    OBVIOUS
  <2>1. timers \in Seq(Timer) /\ current \in 1..(IF Len(timers) = 0 THEN 1 ELSE Len(timers))
    BY DEF IInv, PoolOK, CursorOK, Pool
  <2> QED
    BY <2>1 DEF CursorInside
<1> QED
  BY <1>1, Inductive, PTL

(***************************************************************************)
(* The refinement: the pool implements one deadline per owner.             *)
(***************************************************************************)

\* What a timer says of its owner.
Says(t) == [due |-> t.expire, interval |-> t.interval]

Entry(pool, k) == Says(pool.timers[k])

Deadline == [due : 0..(Clock - 1), interval : Intervals] \cup {NoDeadline}

\* The deadline of an owner is the one in its timer, wherever that is.
LEMMA DeadlineFacts ==
    ASSUME NEW pool, PoolOK(pool)
    PROVE  /\ DeadlinesIn(pool) = [o \in Owners |-> DeadlinesIn(pool)[o]]
           /\ DeadlinesIn(pool) \in [Owners -> Deadline]
           /\ \A k \in 1..Len(pool.timers) :
                 DeadlinesIn(pool)[pool.timers[k].owner] = Entry(pool, k)
           /\ \A o \in Owners : pool.handle[o] = None => DeadlinesIn(pool)[o] = NoDeadline
           /\ \A o \in Owners : pool.handle[o] # None =>
                 \E k \in 1..Len(pool.timers) : pool.timers[k].owner = o
<1>1. DeadlinesIn(pool) = [o \in Owners |-> DeadlinesIn(pool)[o]]
  BY DEF DeadlinesIn
<1>2. \A k \in 1..Len(pool.timers) : pool.timers[k].owner \in Owners /\ pool.timers[k].id \in Nat
  <2>1. \A k \in 1..Len(pool.timers) : pool.timers[k] \in Timer
    BY DEF PoolOK
  <2> QED
    BY <2>1 DEF Timer
<1>3. ASSUME NEW k \in 1..Len(pool.timers)
      PROVE  DeadlinesIn(pool)[pool.timers[k].owner] = Entry(pool, k)
  <2> DEFINE o == pool.timers[k].owner
             j == CHOOSE i \in 1..Len(pool.timers) : pool.timers[i].id = pool.handle[o]
  <2>1. o \in Owners /\ pool.timers[k].id = pool.handle[o]
    BY <1>2 DEF PoolOK
  <2>2. j \in 1..Len(pool.timers) /\ pool.timers[j].id = pool.handle[o]
    BY <2>1
  <2>3. j = k
    BY <2>1, <2>2 DEF PoolOK
  <2>4. DeadlinesIn(pool)[o] = Entry(pool, j)
    BY <2>1, <2>2 DEF DeadlinesIn, Entry, Says
  <2> QED
    BY <2>3, <2>4
<1>4. ASSUME NEW o \in Owners, pool.handle[o] = None
      PROVE  DeadlinesIn(pool)[o] = NoDeadline
  <2>1. \A k \in 1..Len(pool.timers) : pool.timers[k].id # pool.handle[o]
    BY <1>2, <1>4 DEF None
  <2> QED
    BY <2>1 DEF DeadlinesIn
<1>5. \A o \in Owners : pool.handle[o] # None =>
        \E k \in 1..Len(pool.timers) : pool.timers[k].owner = o
  BY DEF PoolOK
<1>6. ASSUME NEW o \in Owners PROVE DeadlinesIn(pool)[o] \in Deadline
  <2>1. CASE pool.handle[o] = None
    BY <1>4, <2>1 DEF Deadline
  <2>2. CASE pool.handle[o] # None
    <3>1. PICK k \in 1..Len(pool.timers) : pool.timers[k].owner = o
      BY <1>5, <2>2
    <3>2. pool.timers[k] \in Timer
      BY DEF PoolOK
    <3>3. Entry(pool, k) \in Deadline
      BY <3>2 DEF Entry, Says, Timer, Deadline
    <3> QED
      BY <1>3, <3>1, <3>3
  <2> QED
    BY <2>1, <2>2
<1> QED
  BY <1>1, <1>3, <1>4, <1>5, <1>6

\* The deadlines d are those of every timer and of every owner without one.
Agrees(new, d) ==
    /\ \A k \in 1..Len(new.timers) : d[new.timers[k].owner] = Entry(new, k)
    /\ \A o \in Owners : new.handle[o] = None => d[o] = NoDeadline

\* The deadlines a pool keeps are known from its timers and from the owners
\* without one.
LEMMA SameDeadlines ==
    ASSUME NEW new, PoolOK(new), NEW d \in [Owners -> Deadline], Agrees(new, d)
    PROVE  DeadlinesIn(new) = d
<1>1. ASSUME NEW o \in Owners PROVE DeadlinesIn(new)[o] = d[o]
  <2>1. CASE new.handle[o] = None
    BY <2>1, DeadlineFacts DEF Agrees
  <2>2. CASE new.handle[o] # None
    <3>1. PICK k \in 1..Len(new.timers) : new.timers[k].owner = o
      BY <2>2, DeadlineFacts
    <3>2. DeadlinesIn(new)[o] = Entry(new, k)
      BY <3>1, DeadlineFacts
    <3> QED
      BY <3>1, <3>2 DEF Agrees
  <2> QED
    BY <2>1, <2>2
<1>2. DeadlinesIn(new) = [o \in Owners |-> DeadlinesIn(new)[o]]
  BY DeadlineFacts
<1>3. d = [o \in Owners |-> d[o]]
  OBVIOUS
<1> QED
  BY <1>1, <1>2, <1>3

\* The deadline of a period that starts now.
EndIn(i) == [due |-> Later(i), interval |-> i]

\* The timers of a pool are where they were, whatever became of their deadlines.
Kept(pool, new) ==
    /\ new.current = pool.current /\ Len(new.timers) >= Len(pool.timers)
    /\ \A k \in 1..Len(pool.timers) : new.timers[k].owner = pool.timers[k].owner

\* An owner without a timer gets a deadline when there is room, and no other
\* deadline moves.
LEMMA AddDeadlines ==
    ASSUME NEW pool, PoolOK(pool), CursorOK(pool), now \in 0..(Clock - 1),
           NEW o \in Owners, NEW i \in Intervals, pool.handle[o] = None
    PROVE  LET new == SoftwareTimerAdd(pool, o, i)
           IN  /\ \/ DeadlinesIn(new) = DeadlinesIn(pool)
                  \/ DeadlinesIn(new) = [DeadlinesIn(pool) EXCEPT ![o] = EndIn(i)]
               /\ Kept(pool, new)
<1> DEFINE new == SoftwareTimerAdd(pool, o, i)
           n == Len(pool.timers)
           t == [expire |-> Later(i), interval |-> i, id |-> pool.nextId, owner |-> o]
           d == [DeadlinesIn(pool) EXCEPT ![o] = EndIn(i)]
<1>0. n \in Nat /\ MaxTimers \in Nat
  BY TimersAssumption DEF PoolOK
<1>1. CASE n >= MaxTimers
  <2>1. [pool.handle EXCEPT ![o] = None] = pool.handle
    BY DEF PoolOK
  <2>2. new = [pool EXCEPT !.handle[o] = None]
    BY <1>1 DEF SoftwareTimerAdd
  <2>3. new = pool
    BY <2>1, <2>2 DEF PoolOK
  <2> QED
    BY <1>0, <2>3 DEF Kept
<1>2. CASE ~(n >= MaxTimers)
  <2>1. t \in Timer
    BY LaterFacts DEF PoolOK, Timer
  <2>2. new = [timers |-> Append(pool.timers, t), current |-> pool.current,
               nextId |-> pool.nextId + 1,
               handle |-> [pool.handle EXCEPT ![o] = pool.nextId]]
    BY <1>2 DEF SoftwareTimerAdd, Added, PoolOK
  <2>3. /\ Len(Append(pool.timers, t)) = n + 1
        /\ \A k \in 1..n : Append(pool.timers, t)[k] = pool.timers[k]
        /\ Append(pool.timers, t)[n + 1] = t
    BY <2>1 DEF PoolOK
  <2>4. /\ Len(new.timers) = n + 1 /\ new.current = pool.current
        /\ \A k \in 1..n : new.timers[k] = pool.timers[k]
        /\ new.timers[n + 1] = t
        /\ \A p \in Owners : p # o => new.handle[p] = pool.handle[p]
        /\ new.handle[o] = pool.nextId
    BY <2>2, <2>3 DEF PoolOK
  <2>5. PoolOK(new)
    BY AddFacts
  <2>6. Kept(pool, new)
    BY <1>0, <2>4 DEF Kept
  <2> HIDE DEF new
  <2>7. \A k \in 1..(n + 1) : k \in 1..n \/ k = n + 1
    BY <1>0
  <2>8. d \in [Owners -> Deadline] /\ d[o] = EndIn(i)
        /\ \A p \in Owners : p # o => d[p] = DeadlinesIn(pool)[p]
    BY DeadlineFacts, LaterFacts DEF EndIn, Deadline
  <2> HIDE DEF d
  <2>9. \A k \in 1..n : pool.timers[k].owner \in Owners /\ pool.timers[k].owner # o
    <3>1. \A k \in 1..n : pool.timers[k].owner \in Owners /\ pool.timers[k].id # None
      <4>1. \A k \in 1..n : pool.timers[k] \in Timer
        BY DEF PoolOK
      <4> QED
        BY <4>1 DEF Timer, None
    <3> QED
      BY <3>1 DEF PoolOK
  <2>10. ASSUME NEW k \in 1..(n + 1) PROVE d[new.timers[k].owner] = Entry(new, k)
    <3>1. CASE k \in 1..n
      <4>1. DeadlinesIn(pool)[pool.timers[k].owner] = Entry(pool, k)
        BY <3>1, DeadlineFacts
      <4>2. Entry(new, k) = Entry(pool, k)
        BY <2>4, <3>1 DEF Entry
      <4> QED
        BY <2>4, <2>8, <2>9, <3>1, <4>1, <4>2
    <3>2. CASE k = n + 1
      BY <2>4, <2>8, <3>2 DEF Entry, Says, EndIn
    <3> QED
      BY <2>7, <3>1, <3>2
  <2>11. \A p \in Owners : new.handle[p] = None => d[p] = NoDeadline
    <3>1. pool.nextId # None
      BY DEF PoolOK, None
    <3> QED
      BY <2>4, <2>8, <3>1, DeadlineFacts
  <2>12. DeadlinesIn(new) = d
    <3>1. Agrees(new, d)
      BY <2>4, <2>10, <2>11 DEF Agrees
    <3> QED
      BY <2>5, <2>8, <3>1, SameDeadlines
  <2> QED
    BY <2>6, <2>12 DEF d, new
<1> QED
  BY <1>1, <1>2

\* Deleting forgets the deadline of the owner and moves no other, although it
\* moves a timer.
LEMMA DeleteDeadlines ==
    ASSUME NEW pool, PoolOK(pool), CursorOK(pool), NEW o \in Owners
    PROVE  DeadlinesIn(SoftwareTimerDelete(pool, o)) =
             [DeadlinesIn(pool) EXCEPT ![o] = NoDeadline]
<1> DEFINE n == Len(pool.timers)
           Found == {k \in 1..n : pool.timers[k].id = pool.handle[o]}
           new == SoftwareTimerDelete(pool, o)
           d == [DeadlinesIn(pool) EXCEPT ![o] = NoDeadline]
<1>0. d \in [Owners -> Deadline] /\ d[o] = NoDeadline
      /\ \A p \in Owners : p # o => d[p] = DeadlinesIn(pool)[p]
  BY DeadlineFacts DEF Deadline
<1>1. CASE Found = {}
  <2>1. pool.handle[o] = None
    BY <1>1 DEF PoolOK
  <2>2. DeadlinesIn(pool)[o] = NoDeadline
    BY <2>1, DeadlineFacts
  <2>3. d = DeadlinesIn(pool)
    BY <2>2, DeadlineFacts
  <2> HIDE DEF d
  <2> QED
    BY <1>1, <2>3 DEF SoftwareTimerDelete, d
<1>2. CASE Found # {}
  <2> DEFINE k == CHOOSE j \in Found : TRUE
             ts == SwapLast(pool.timers, k)
             h == [pool.handle EXCEPT ![o] = None]
             c == CursorWithin(pool.current, n - 1)
             From(j) == IF j = k THEN n ELSE j
  <2>1. k \in 1..n /\ pool.timers[k].id = pool.handle[o]
    BY <1>2
  <2>2. new = [timers |-> ts, current |-> c, nextId |-> pool.nextId, handle |-> h]
    BY <1>2 DEF SoftwareTimerDelete, PoolOK
  <2>3. PoolOK(new)
    BY DeleteTimerFacts
  <2>4. n \in Nat /\ n - 1 \in Nat
    BY <2>1 DEF PoolOK
  <2> HIDE DEF k
  <2>5. Len(ts) = n - 1
    <3>1. ts = [j \in 1..(n - 1) |-> ts[j]]
      BY DEF SwapLast
    <3> HIDE DEF ts, n
    <3> QED
      BY <2>4, <3>1
  <2>6. \A j \in 1..(n - 1) : ts[j] = pool.timers[From(j)]
    BY DEF SwapLast
  <2>7. \A j \in 1..(n - 1) : From(j) \in 1..n
    <3> HIDE DEF n
    <3> QED
      BY <2>1, <2>4
  <2> HIDE DEF ts, c, From
  <2>8. /\ Len(new.timers) = n - 1
        /\ \A j \in 1..(n - 1) : From(j) \in 1..n /\ new.timers[j] = pool.timers[From(j)]
        /\ new.handle[o] = None
        /\ \A p \in Owners : p # o => new.handle[p] = pool.handle[p]
    BY <2>2, <2>5, <2>6, <2>7 DEF PoolOK
  <2> HIDE DEF new, d
  <2>9. ASSUME NEW j \in 1..(n - 1) PROVE d[new.timers[j].owner] = Entry(new, j)
    <3> DEFINE p == new.timers[j].owner
    <3>1. new.timers[j] \in Timer /\ new.handle[p] = new.timers[j].id
      BY <2>3, <2>8 DEF PoolOK
    <3>2. p \in Owners /\ p # o
      BY <2>8, <3>1 DEF Timer, None
    <3>3. DeadlinesIn(pool)[pool.timers[From(j)].owner] = Entry(pool, From(j))
      BY <2>8, DeadlineFacts
    <3>4. Entry(new, j) = Entry(pool, From(j))
      BY <2>8 DEF Entry
    <3> QED
      BY <1>0, <2>8, <3>2, <3>3, <3>4
  <2>10. \A p \in Owners : new.handle[p] = None => d[p] = NoDeadline
    BY <1>0, <2>8, DeadlineFacts
  <2>11. DeadlinesIn(new) = d
    <3>1. Agrees(new, d)
      BY <2>8, <2>9, <2>10 DEF Agrees
    <3> QED
      BY <1>0, <2>3, <3>1, SameDeadlines
  <2> QED
    BY <2>11 DEF new, d
<1> QED
  BY <1>1, <1>2

\* A pool whose timers of one owner alone have another deadline.
LEMMA RetimedDeadlines ==
    ASSUME NEW pool, PoolOK(pool), CursorOK(pool), NEW ts,
           ts \in [1..Len(pool.timers) -> Timer],
           \A k \in 1..Len(pool.timers) : /\ ts[k].id = pool.timers[k].id
                                          /\ ts[k].owner = pool.timers[k].owner,
           NEW o \in Owners, NEW e \in Deadline,
           \A k \in 1..Len(pool.timers) :
              Says(ts[k]) = IF pool.timers[k].owner = o THEN e ELSE Entry(pool, k)
    PROVE  LET new == [pool EXCEPT !.timers = ts]
           IN  /\ Kept(pool, new)
               /\ DeadlinesIn(new) = IF pool.handle[o] = None THEN DeadlinesIn(pool)
                                     ELSE [DeadlinesIn(pool) EXCEPT ![o] = e]
<1> DEFINE new == [pool EXCEPT !.timers = ts]
           n == Len(pool.timers)
           d == IF pool.handle[o] = None THEN DeadlinesIn(pool)
                ELSE [DeadlinesIn(pool) EXCEPT ![o] = e]
<1>1. n \in Nat
  BY DEF PoolOK
<1>2. Len(ts) = n
  <2> HIDE DEF n
  <2> SUFFICES ASSUME ts \in [1..n -> Timer] PROVE Len(ts) = n
    BY DEF n
  <2> QED
    BY <1>1
<1>3. new.timers = ts /\ new.current = pool.current /\ new.handle = pool.handle
  BY DEF PoolOK
<1>4. PoolOK(new)
  BY RetimedFacts
<1> HIDE DEF new
<1>5. Kept(pool, new)
  BY <1>1, <1>2, <1>3 DEF Kept
<1>6. /\ d \in [Owners -> Deadline]
      /\ pool.handle[o] # None => d[o] = e
      /\ \A p \in Owners : p # o \/ pool.handle[o] = None => d[p] = DeadlinesIn(pool)[p]
  BY DeadlineFacts
<1> HIDE DEF d
<1>7. ASSUME NEW k \in 1..n PROVE d[new.timers[k].owner] = Entry(new, k)
  <2> DEFINE p == pool.timers[k].owner
  <2>1. pool.timers[k] \in Timer /\ pool.handle[p] = pool.timers[k].id
    BY DEF PoolOK
  <2>2. p \in Owners /\ pool.handle[p] # None
    BY <2>1 DEF Timer, None
  <2>3. new.timers[k].owner = p /\ Entry(new, k) = IF p = o THEN e ELSE Entry(pool, k)
    BY <1>3 DEF Entry
  <2>4. DeadlinesIn(pool)[p] = Entry(pool, k)
    BY DeadlineFacts
  <2> HIDE DEF p
  <2> QED
    BY <1>6, <2>2, <2>3, <2>4
<1>8. \A p \in Owners : new.handle[p] = None => d[p] = NoDeadline
  BY <1>3, <1>6, DeadlineFacts
<1>9. DeadlinesIn(new) = d
  <2>1. Agrees(new, d)
    BY <1>2, <1>3, <1>7, <1>8 DEF Agrees
  <2> QED
    BY <1>4, <1>6, <2>1, SameDeadlines
<1> QED
  BY <1>5, <1>9 DEF new, d

\* Changing a timer sets the deadline of its owner, when that has one.
LEMMA ChangeDeadlines ==
    ASSUME NEW pool, PoolOK(pool), CursorOK(pool), now \in 0..(Clock - 1),
           NEW o \in Owners, NEW i \in Intervals
    PROVE  LET new == SoftwareTimerChange(pool, o, i)
           IN  /\ Kept(pool, new)
               /\ DeadlinesIn(new) = IF pool.handle[o] = None THEN DeadlinesIn(pool)
                                     ELSE [DeadlinesIn(pool) EXCEPT ![o] = EndIn(i)]
<1> DEFINE ts == [k \in 1..Len(pool.timers) |->
                    IF pool.timers[k].id = pool.handle[o]
                    THEN [pool.timers[k] EXCEPT !.expire = Later(i), !.interval = i]
                    ELSE pool.timers[k]]
<1>1. \A k \in 1..Len(pool.timers) : pool.timers[k] \in Timer
  BY DEF PoolOK
<1>2. ASSUME NEW k \in 1..Len(pool.timers)
      PROVE  pool.timers[k].id = pool.handle[o] <=> pool.timers[k].owner = o
  <2>1. pool.timers[k].owner = o => pool.timers[k].id = pool.handle[o]
    BY DEF PoolOK
  <2>2. ASSUME pool.timers[k].id = pool.handle[o] PROVE pool.timers[k].owner = o
    <3>1. pool.handle[o] # None
      BY <1>1, <2>2 DEF Timer, None
    <3>2. PICK j \in 1..Len(pool.timers) :
             pool.timers[j].owner = o /\ pool.timers[j].id = pool.handle[o]
      BY <3>1 DEF PoolOK
    <3> QED
      BY <2>2, <3>2 DEF PoolOK
  <2> QED
    BY <2>1, <2>2
<1>3. ASSUME NEW k \in 1..Len(pool.timers)
      PROVE  /\ ts[k] \in Timer
             /\ ts[k].id = pool.timers[k].id /\ ts[k].owner = pool.timers[k].owner
             /\ Says(ts[k]) = IF pool.timers[k].owner = o THEN EndIn(i) ELSE Entry(pool, k)
  <2>1. pool.timers[k] \in Timer /\ Later(i) \in 0..(Clock - 1)
    BY <1>1, LaterFacts
  <2> QED
    BY <1>2, <2>1 DEF Timer, EndIn, Entry, Says
<1>4. ts \in [1..Len(pool.timers) -> Timer]
  BY <1>3
<1>5. SoftwareTimerChange(pool, o, i) = [pool EXCEPT !.timers = ts]
  BY DEF SoftwareTimerChange, PoolOK
<1>6. EndIn(i) \in Deadline
  BY LaterFacts DEF EndIn, Deadline
<1> HIDE DEF ts
<1> QED
  BY <1>3, <1>4, <1>5, <1>6, RetimedDeadlines

\* A timer that is started has its owner's deadline in its period, or there was
\* no room for it; it moves no other timer.
LEMMA StartDeadlines ==
    ASSUME NEW pool, PoolOK(pool), CursorOK(pool), now \in 0..(Clock - 1),
           NEW o \in Owners, NEW i \in Intervals
    PROVE  LET new == Start(pool, o, i)
           IN  /\ Kept(pool, new)
               /\ \/ DeadlinesIn(new) = DeadlinesIn(pool)
                  \/ DeadlinesIn(new) = [DeadlinesIn(pool) EXCEPT ![o] = EndIn(i)]
<1>1. CASE pool.handle[o] = None
  BY <1>1, AddDeadlines DEF Start
<1>2. CASE pool.handle[o] # None
  BY <1>2, ChangeDeadlines DEF Start
<1> QED
  BY <1>1, <1>2

\* The deadlines d, with that of o at another time.
Moved(d, o, due) == [d EXCEPT ![o].due = due]

\* The slot under the cursor gets its owner's next deadline.
LEMMA RescheduledDeadlines ==
    ASSUME NEW pool, PoolOK(pool), CursorOK(pool), now \in 0..(Clock - 1),
           pool.timers # <<>>, NEW t \in Timer,
           NEW o, o = pool.timers[pool.current].owner
    PROVE  DeadlinesIn(Rescheduled(pool, t)) = Moved(DeadlinesIn(pool), o, Later(t.interval))
<1> DEFINE k == pool.current
           e == [due |-> Later(t.interval), interval |-> pool.timers[k].interval]
           ts == [pool.timers EXCEPT ![k].expire = Later(t.interval)]
<1>1. /\ pool.timers \in Seq(Timer) /\ k \in 1..Len(pool.timers)
      /\ \A j \in 1..Len(pool.timers) : pool.timers[j] \in Timer
  BY DEF PoolOK, CursorOK
<1>2. Rescheduled(pool, t) = [pool EXCEPT !.timers = ts]
  BY DEF Rescheduled, PoolOK
<1>3. Later(t.interval) \in 0..(Clock - 1)
  BY LaterFacts DEF Timer
<1>4. ts = [j \in 1..Len(pool.timers) |->
              IF j = k THEN [pool.timers[j] EXCEPT !.expire = Later(t.interval)]
              ELSE pool.timers[j]]
  <2>1. pool.timers = [j \in 1..Len(pool.timers) |-> pool.timers[j]]
    BY <1>1
  <2>2. DOMAIN pool.timers = 1..Len(pool.timers)
    BY <1>1
  <2> QED
    BY <2>1, <2>2, Zenon
<1> HIDE DEF ts
<1>5. o \in Owners /\ pool.handle[o] # None
  <2>1. pool.timers[k] \in Timer /\ pool.handle[o] = pool.timers[k].id
    BY <1>1 DEF PoolOK
  <2> QED
    BY <2>1 DEF Timer, None
<1>6. ASSUME NEW j \in 1..Len(pool.timers) PROVE pool.timers[j].owner = o <=> j = k
  <2>1. pool.timers[j].owner = o => pool.timers[j].id = pool.timers[k].id
    BY <1>1 DEF PoolOK
  <2>2. pool.timers[j].id = pool.timers[k].id => j = k
    BY <1>1 DEF PoolOK
  <2> QED
    BY <2>1, <2>2
<1>7. ASSUME NEW j \in 1..Len(pool.timers)
      PROVE  /\ ts[j] \in Timer
             /\ ts[j].id = pool.timers[j].id /\ ts[j].owner = pool.timers[j].owner
             /\ Says(ts[j]) = IF pool.timers[j].owner = o THEN e ELSE Entry(pool, j)
  <2>1. pool.timers[j] \in Timer
    BY <1>1
  <2>2. CASE j = k
    BY <1>3, <1>4, <2>1, <2>2 DEF Timer, Says
  <2>3. CASE j # k
    BY <1>4, <1>6, <2>1, <2>3 DEF Entry
  <2> QED
    BY <2>2, <2>3
<1>8. ts \in [1..Len(pool.timers) -> Timer]
  BY <1>4, <1>7
<1>9. e \in Deadline
  <2>0. pool.timers[k] \in Timer
    BY <1>1
  <2>1. pool.timers[k].interval \in Intervals
    BY <2>0 DEF Timer
  <2>2. ASSUME NEW d \in 0..(Clock - 1), NEW i \in Intervals
        PROVE  [due |-> d, interval |-> i] \in Deadline
    BY DEF Deadline
  <2> HIDE DEF k
  <2> QED
    BY ONLY <1>3, <2>1, <2>2
<1>10. DeadlinesIn(pool)[o] = [due |-> pool.timers[k].expire, interval |-> pool.timers[k].interval]
  BY <1>1, DeadlineFacts DEF Entry, Says
<1>11. Moved(DeadlinesIn(pool), o, Later(t.interval)) = [DeadlinesIn(pool) EXCEPT ![o] = e]
  <2>1. [DeadlinesIn(pool)[o] EXCEPT !.due = Later(t.interval)] = e
    BY <1>10
  <2> HIDE DEF e
  <2> QED
    BY <2>1 DEF Moved
<1>12. DeadlinesIn([pool EXCEPT !.timers = ts]) = [DeadlinesIn(pool) EXCEPT ![o] = e]
  <2>1. \A j \in 1..Len(pool.timers) : /\ ts[j].id = pool.timers[j].id
                                         /\ ts[j].owner = pool.timers[j].owner
    BY <1>7
  <2>2. \A j \in 1..Len(pool.timers) :
           Says(ts[j]) = IF pool.timers[j].owner = o THEN e ELSE Entry(pool, j)
    BY <1>7
  <2> HIDE DEF e
  <2>3. DeadlinesIn([pool EXCEPT !.timers = ts]) =
           IF pool.handle[o] = None THEN DeadlinesIn(pool)
           ELSE [DeadlinesIn(pool) EXCEPT ![o] = e]
    BY <1>5, <1>8, <1>9, <2>1, <2>2, RetimedDeadlines
  <2> QED
    BY <1>5, <2>3
<1> QED
  BY <1>2, <1>11, <1>12

\* The step to the pool of an operation is the step to its deadlines.
LEMMA BecomesDeadlines ==
    ASSUME NEW pool, PoolOK(pool), Becomes(pool)
    PROVE  Deadlines' = DeadlinesIn(pool)
<1>1. Pool' = pool
  BY DEF Becomes, Pool, PoolOK
<1>2. Deadlines' = DeadlinesIn(Pool')
  BY DEF Deadlines, DeadlinesIn
<1> QED
  BY <1>1, <1>2

\* SoftwareTimerRun() on a timer that is due: its owner's deadline has passed
\* and the next is one period from now, whatever the callback did meanwhile.
LEMMA ExpireDeadlines ==
    ASSUME IInv, Expire, Callbacks \subseteq {"return", "start", "change"},
           NoDeadline \notin [due : Nat, interval : Nat]
    PROVE  \E o \in Owners : Promise!Expire(o)
<1> DEFINE t == timers[current]
           o == t.owner
           d == Deadlines
<1>1. /\ timers # <<>> /\ timers \in Seq(Timer) /\ current \in 1..Len(timers) /\ Due(t)
      /\ PoolOK(Pool) /\ CursorOK(Pool) /\ now \in 0..(Clock - 1)
      /\ Pool.timers = timers /\ Pool.current = current
  BY DEF Expire, IInv, PoolOK, CursorOK, Pool
<1>2. t \in Timer
  BY <1>1
<1>3. o \in Owners /\ t.expire \in Nat /\ t.interval \in Nat /\ t.interval \in Intervals
  <2> HIDE DEF t
  <2>1. t.owner \in Owners /\ t.expire \in 0..(Clock - 1) /\ t.interval \in Intervals
    BY <1>2 DEF Timer
  <2>2. \A x \in 0..(Clock - 1) : x \in Nat
    BY TimersAssumption
  <2>3. \A x \in Intervals : x \in Nat
    BY TimersAssumption
  <2> QED
    BY ONLY <2>1, <2>2, <2>3
<1>4. d[o] = Says(t)
  BY <1>1, DeadlineFacts DEF Entry, Deadlines
<1>5. d[o] # NoDeadline /\ Promise!Passed(d[o].due) /\ d[o].interval = t.interval
  <2>1. Says(t) \in [due : Nat, interval : Nat] /\ Says(t).due = t.expire
        /\ Says(t).interval = t.interval
    BY <1>3 DEF Says
  <2> HIDE DEF d, o, t
  <2> QED
    BY <1>1, <1>4, <2>1 DEF Due, Promise!Passed
<1>6. PICK pool \in Returned(o) : Becomes(Advanced(Rescheduled(pool, t)))
  BY DEF Expire
<1> DEFINE Either(f) == \/ f = d
                         \/ \E p \in Owners, i \in Intervals : f = [d EXCEPT ![p] = EndIn(i)]
<1>7. PoolOK(pool) /\ CursorOK(pool) /\ Kept(Pool, pool) /\ Either(DeadlinesIn(pool))
  <2>1. \/ pool = Pool
        \/ \E p \in Owners, i \in Intervals : pool = Start(Pool, p, i)
        \/ \E i \in Intervals : pool = SoftwareTimerChange(Pool, o, i)
    <3> HIDE DEF o
    <3> QED
      BY <1>6 DEF Returned
  <2>2. CASE pool = Pool
    BY <1>1, <2>2 DEF Kept, Deadlines, PoolOK
  <2>3. ASSUME NEW p \in Owners, NEW i \in Intervals, pool = Start(Pool, p, i)
        PROVE  Kept(Pool, pool) /\ Either(DeadlinesIn(pool))
    BY <1>1, <2>3, StartDeadlines DEF Deadlines
  <2>4. ASSUME NEW i \in Intervals, pool = SoftwareTimerChange(Pool, o, i)
        PROVE  Kept(Pool, pool) /\ Either(DeadlinesIn(pool))
    BY <1>1, <1>3, <2>4, ChangeDeadlines DEF Deadlines
  <2>5. PoolOK(pool) /\ CursorOK(pool)
    BY <1>3, <1>6, ReturnedFacts
  <2> QED
    BY <2>1, <2>2, <2>3, <2>4, <2>5
<1>8. /\ pool.timers # <<>> /\ pool.current = current
      /\ pool.timers[pool.current].owner = o
  <2>1. Len(timers) \in Nat /\ Len(timers) >= 1 /\ pool.timers \in Seq(Timer)
    BY <1>1, <1>7 DEF PoolOK
  <2> QED
    BY <1>1, <1>7, <2>1 DEF Kept
<1> DEFINE new == Rescheduled(pool, t)
<1>9. PoolOK(new) /\ CursorOK(new) /\ PoolOK(Advanced(new))
  BY <1>1, <1>2, <1>7, RescheduledFacts, AdvancedFacts
<1>10. DeadlinesIn(new) = Moved(DeadlinesIn(pool), o, Later(t.interval))
  <2> HIDE DEF t, o
  <2> QED
    BY <1>1, <1>2, <1>7, <1>8, RescheduledDeadlines
<1>11. DeadlinesIn(Advanced(new)) = DeadlinesIn(new)
  BY DEF Advanced, DeadlinesIn
<1>12. Deadlines' = Moved(DeadlinesIn(pool), o, Later(t.interval))
  BY <1>6, <1>9, <1>10, <1>11, BecomesDeadlines
<1>13. Later(t.interval) = Promise!In(d[o].interval).due
  BY <1>5 DEF Later, Promise!In
<1>14. \A i : EndIn(i) = Promise!In(i)
  BY DEF EndIn, Later, Promise!In
<1>15. Deadlines' = Promise!Renewed(DeadlinesIn(pool), o)
  <2> HIDE DEF o, t, d
  <2> QED
    BY <1>12, <1>13 DEF d, Moved, Promise!Renewed
<1>16. Promise!Expire(o)
  <2> HIDE DEF o, new, t
  <2> QED
    BY <1>5, <1>7, <1>14, <1>15 DEF Promise!Expire
<1> QED
  BY <1>3, <1>16

\* The pool, its swaps, its cursor and its handles implement one independent
\* deadline per owner, as long as callbacks delete no timer: SoftwareTimerRun()
\* expires no timer early, reschedules only the one that expired, one of its own
\* periods on, and no operation touches the deadline of another owner.
THEOREM PoolImplementsPromise ==
    ASSUME Callbacks \subseteq {"return", "start", "change"},
           NoDeadline \notin [due : Nat, interval : Nat]
    PROVE  Spec => ImplementsPromise
<1>1. Init => Promise!Init
  <2> SUFFICES ASSUME Init PROVE Promise!Init
    OBVIOUS
  <2>1. Len(timers) = 0 /\ now = 0 /\ Pool.timers = timers
    BY DEF Init, Pool
  <2>2. Deadlines = [o \in Owners |-> NoDeadline]
    BY <2>1 DEF Deadlines, DeadlinesIn
  <2> QED
    BY <2>1, <2>2 DEF Promise!Init
<1>2. IInv /\ [Next]_vars => [Promise!Next]_(Promise!vars)
  <2> SUFFICES ASSUME IInv, [Next]_vars PROVE [Promise!Next]_(Promise!vars)
    OBVIOUS
  <2>1. PoolOK(Pool) /\ CursorOK(Pool) /\ now \in 0..(Clock - 1)
    BY DEF IInv
  <2>2. \A i : EndIn(i) = Promise!In(i)
    BY DEF EndIn, Later, Promise!In
  <2>3. ASSUME NEW o \in Owners, StartTimer(o) PROVE [Promise!Next]_(Promise!vars)
    <3>1. PICK i \in Intervals : Becomes(Start(Pool, o, i))
      BY <2>3 DEF StartTimer
    <3>2. \/ Deadlines' = Deadlines
          \/ Deadlines' = [Deadlines EXCEPT ![o] = EndIn(i)]
      BY <2>1, <3>1, StartFacts, StartDeadlines, BecomesDeadlines DEF Deadlines
    <3>3. now' = now
      BY <2>3 DEF StartTimer
    <3>4. CASE Deadlines' = Deadlines
      BY <3>3, <3>4 DEF Promise!vars
    <3>5. CASE Deadlines' = [Deadlines EXCEPT ![o] = EndIn(i)]
      <4>1. Promise!Set(o)
        BY <2>2, <3>5 DEF Promise!Set
      <4> QED
        BY <3>3, <4>1 DEF Promise!Next
    <3> QED
      BY <3>2, <3>4, <3>5
  <2>4. ASSUME NEW o \in Owners, StopTimer(o) PROVE [Promise!Next]_(Promise!vars)
    <3>1. Becomes(SoftwareTimerDelete(Pool, o)) /\ now' = now
      BY <2>4 DEF StopTimer
    <3>2. Deadlines' = [Deadlines EXCEPT ![o] = NoDeadline]
      BY <2>1, <3>1, DeleteTimerFacts, DeleteDeadlines, BecomesDeadlines DEF Deadlines
    <3>3. Promise!Cancel(o)
      BY <3>2 DEF Promise!Cancel
    <3> QED
      BY <3>1, <3>3 DEF Promise!Next
  <2>5. CASE Expire
    <3>1. PICK o \in Owners : Promise!Expire(o)
      BY <2>5, ExpireDeadlines
    <3>2. now' = now
      BY <2>5 DEF Expire
    <3> QED
      BY <3>1, <3>2 DEF Promise!Next
  <2>6. CASE Pass
    <3>1. Becomes(Advanced(Pool)) /\ now' = now
      BY <2>6 DEF Pass
    <3>2. DeadlinesIn(Advanced(Pool)) = DeadlinesIn(Pool)
      BY DEF Advanced, DeadlinesIn, Pool
    <3>3. Deadlines' = Deadlines
      BY <2>1, <3>1, <3>2, AdvancedFacts, BecomesDeadlines DEF Deadlines
    <3> QED
      BY <3>1, <3>3 DEF Promise!vars
  <2>7. CASE Tick
    <3>1. Pool' = Pool /\ now' = (now + 1) % Clock
      BY <2>7 DEF Tick, Pool
    <3>2. Deadlines' = Deadlines
      BY <3>1 DEF Deadlines, DeadlinesIn
    <3> QED
      BY <3>1, <3>2 DEF Promise!Next
  <2>8. CASE UNCHANGED vars
    <3>1. Pool' = Pool /\ now' = now
      BY <2>8 DEF vars, Pool
    <3>2. Deadlines' = Deadlines
      BY <3>1 DEF Deadlines, DeadlinesIn
    <3> QED
      BY <3>1, <3>2 DEF Promise!vars
  <2> QED
    BY <2>3, <2>4, <2>5, <2>6, <2>7, <2>8 DEF Next, SoftwareTimerRun
<1> QED
  BY <1>1, <1>2, Inductive, PTL DEF Spec, ImplementsPromise, Promise!Spec
=============================================================================
