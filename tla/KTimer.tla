------------------------------- MODULE KTimer -------------------------------
(***************************************************************************)
(* sleep() and the timer interrupt over the binary heap of sleepers        *)
(* (timer.c, common.c).  Heap and clock change under timer_lock; sleep()   *)
(* reads the clock before it takes the lock.  Keys are ints of Width bits, *)
(* the clock is unsigned.                                                  *)
(***************************************************************************)
EXTENDS Integers, SequencesExt

CONSTANTS
  SLEEPERS,     \* threads
  Width,        \* bits of an int
  MaxTime,      \* bound of the timer interrupts
  MaxSleep,     \* bound of sleep()'s argument
  InitRoom,     \* INITIAL_HEAP_SIZE
  MinRoom       \* VECTOR_MINIMUM_SIZE

VARIABLES
  ticks,  \* the clock
  timers, \* the heap: a sequence of [key, value, due]
  room,   \* the capacity of its vector
  node,   \* node[t]: made by t and not yet inserted (a set of at most one)
  now     \* history: the timer interrupts so far; a node's due is such a time

timerVars == <<ticks, timers, room, node, now>>

-----------------------------------------------------------------------------
Swap(h, i, j) == [h EXCEPT ![i] = h[j], ![j] = h[i]]

RECURSIVE SiftUp(_, _), SiftDown(_, _), Expire(_, _)

SiftUp(h, i) ==
  IF i = 1 \/ h[i].key >= h[i \div 2].key THEN h
  ELSE SiftUp(Swap(h, i, i \div 2), i \div 2)

HeapInsert(h, e) == SiftUp(Append(h, e), Len(h) + 1)

\* Mutant: the right child is never looked at.
SmallestLeft(h, i) ==
  LET l == 2 * i
  IN  IF l \in DOMAIN h /\ h[l].key < h[i].key THEN l ELSE i

\* The smallest of a node and its children; on a tie the node, then the left.
Smallest(h, i) ==
  LET family == {i, 2 * i, 2 * i + 1} \cap DOMAIN h
  IN  Min({j \in family : \A k \in family : h[j].key <= h[k].key})

SiftDown(h, i) ==
  IF h = <<>> \/ Smallest(h, i) = i THEN h
  ELSE SiftDown(Swap(h, i, Smallest(h, i)), Smallest(h, i))

HeapPop(h) == SiftDown(Front([h EXCEPT ![1] = Last(h)]), 1)

Signed(x)   == IF x < 2 ^ (Width - 1) THEN x ELSE x - 2 ^ Width
Unsigned(k) == k % 2 ^ Width

\* vector_try_shink, when the smaller array can be had.
Shrunk(n, r) == IF n < r \div 3 /\ r \div 2 >= MinRoom THEN r \div 2 ELSE r

\* check_timers: the comparison with the clock is unsigned.
Expire(h, r) ==
  IF h # <<>> /\ Unsigned(h[1].key) <= ticks'
  THEN Expire(HeapPop(h), Shrunk(Len(h) - 1, r))
  ELSE [timers |-> h, room |-> r]

Asleep(h) == {e.value : e \in Range(h)}
-----------------------------------------------------------------------------
TimerInit ==
  /\ ticks = 0 /\ now = 0 /\ timers = <<>> /\ room = InitRoom
  /\ node = [t \in SLEEPERS |-> {}]

SleepEnter(t, dt) ==
  /\ node[t] = {} /\ t \notin Asleep(timers)
  /\ node' = [node EXCEPT ![t] = {[key |-> Signed((ticks + dt) % 2 ^ Width),
                                   value |-> t, due |-> now + dt]}]
  /\ UNCHANGED <<ticks, timers, room, now>>

SleepInsert(t) ==
  /\ \E e \in node[t] : timers' = HeapInsert(timers, e)
  /\ room' = IF Len(timers) = room THEN 2 * room ELSE room
  /\ node' = [node EXCEPT ![t] = {}]
  /\ UNCHANGED <<ticks, now>>

\* No memory for a larger vector: sleep returns an error.
SleepFail(t) ==
  /\ node[t] # {} /\ Len(timers) = room
  /\ node' = [node EXCEPT ![t] = {}]
  /\ UNCHANGED <<ticks, timers, room, now>>

TimerTick ==
  /\ now < MaxTime
  /\ now' = now + 1
  /\ ticks' = (ticks + 1) % 2 ^ Width
  /\ LET r == Expire(timers, room) IN timers' = r.timers /\ room' = r.room
  /\ UNCHANGED node

TimerNext == TimerTick \/ \E t \in SLEEPERS :
               SleepInsert(t) \/ SleepFail(t) \/ \E dt \in 1 .. MaxSleep : SleepEnter(t, dt)

TimerSpec == TimerInit /\ [][TimerNext]_timerVars
-----------------------------------------------------------------------------
(* Properties *)

\* A sleeper is woken by the first timer interrupt at or after the time it
\* asked for: never before, and never left in the heap by a later one.
WakesOnTime ==
  [][/\ \A e \in Range(timers) \ Range(timers') : e.due <= now'
     /\ now' # now => \A e \in Range(timers') : e.due > now']_timerVars
=============================================================================
