------------------------------- MODULE Timer -------------------------------
(***************************************************************************)
(* The alarm clock: timer_sleep and the timer interrupt of devices/timer.c *)
(* inside intr_handler of threads/interrupt.c, on the scheduler of module  *)
(* Threads.  The handler's wake-up loop is one step per iteration; nothing *)
(* else runs until intr_handler returns.                                   *)
(***************************************************************************)
EXTENDS Threads

CONSTANTS
  SleepTicks,   \* arguments of timer_sleep
  MaxTick       \* bound: no timer_sleep that ends after this tick

ASSUME TimerAssumption == SleepTicks \subseteq Int /\ MaxTick \in Nat

VARIABLES
  ticks, sleeping_list, morning_tick,
  in_external_intr, yield_on_return,
  panicked        \* an ASSERT has failed: the kernel has stopped

alarm == <<ticks, sleeping_list, morning_tick>>
intr == <<in_external_intr, yield_on_return, panicked>>
vars == <<sched, priority, origin_priority, pc, arg, alarm, intr>>

TimerInit ==
  /\ ThreadsInit
  /\ ticks = 0
  /\ sleeping_list = <<>>
  /\ morning_tick = [t \in Thread |-> 0]
  /\ in_external_intr = FALSE /\ yield_on_return = FALSE /\ panicked = FALSE

\* compare_tick
ByTick(morning) == [a \in Thread |-> [b \in Thread |-> morning[a] < morning[b]]]
-----------------------------------------------------------------------------
\* timer_sleep reads the clock; a tick may come before thread_to_sleep has
\* disabled interrupts.
TimerSleep(t, n) ==
  /\ At(t, "run")
  /\ ticks + n <= MaxTick
  /\ Goto(t, "sleep", ticks + n)
  /\ UNCHANGED <<sched, priority, origin_priority, alarm, intr>>

\* Variant: the sleeper goes to the end of the list.
sleep_unsorted(t) ==
  /\ At(t, "sleep")
  /\ morning_tick' = [morning_tick EXCEPT ![t] = arg[t]]
  /\ sleeping_list' = Append(sleeping_list, t)
  /\ thread_block
  /\ Goto(t, "run", NULL)
  /\ UNCHANGED <<priority, origin_priority, ticks, intr>>

thread_to_sleep(t) ==
  /\ At(t, "sleep")
  /\ morning_tick' = [morning_tick EXCEPT ![t] = arg[t]]
  /\ sleeping_list' = list_insert_ordered(sleeping_list, t, ByTick(morning_tick'))
  /\ thread_block
  /\ Goto(t, "run", NULL)
  /\ UNCHANGED <<priority, origin_priority, ticks, intr>>
-----------------------------------------------------------------------------
\* intr_handler calls timer_interrupt: the clock, then thread_tick.  The
\* clock stops at MaxTick, when no sleeper is left that waits for a later one.
TimerInterrupt ==
  /\ ~in_external_intr
  /\ in_external_intr' = TRUE
  /\ ticks' = IF ticks < MaxTick THEN ticks + 1 ELSE ticks
  /\ thread_ticks' = thread_ticks + 1
  /\ yield_on_return' = (thread_ticks + 1 >= TIME_SLICE)
  /\ WakeHlt
  /\ UNCHANGED <<status, ready_list, current, priority, origin_priority, arg,
                 sleeping_list, morning_tick, panicked>>

\* Variant: the loop wakes a sleeper one tick before its time.
due_early == sleeping_list # <<>> /\ ticks + 1 >= morning_tick[Head(sleeping_list)]

\* The front sleeper is due at this tick.
Due == sleeping_list # <<>> /\ ticks >= morning_tick[Head(sleeping_list)]

\* One iteration of thread_to_wakeup's loop.  thread_unblock calls
\* thread_yield when the woken thread has the higher priority, and
\* thread_yield asserts that it is not called in an interrupt.
thread_to_wakeup ==
  LET t == Head(sleeping_list) IN
  /\ in_external_intr
  /\ Due
  /\ sleeping_list' = Tail(sleeping_list)
  /\ status' = [status EXCEPT ![t] = "READY"]
  /\ ready_list' = list_insert_ordered(ready_list, t, ByPriority(priority))
  /\ panicked' = Preempts(t, priority)
  /\ UNCHANGED <<current, thread_ticks, priority, origin_priority, pc, arg, ticks,
                 morning_tick, in_external_intr, yield_on_return>>

\* Variant: the loop stops after the first sleeper.
IntrReturnEarly ==
  /\ in_external_intr
  /\ in_external_intr' = FALSE
  /\ IF yield_on_return
     THEN thread_yield(status, ready_list, priority)
     ELSE UNCHANGED sched
  /\ UNCHANGED <<priority, origin_priority, pc, arg, alarm, yield_on_return, panicked>>

\* The loop is over; intr_handler yields if thread_tick asked for it.
IntrReturn ==
  /\ in_external_intr
  /\ ~Due
  /\ in_external_intr' = FALSE
  /\ IF yield_on_return
     THEN thread_yield(status, ready_list, priority)
     ELSE UNCHANGED sched
  /\ UNCHANGED <<priority, origin_priority, pc, arg, alarm, yield_on_return, panicked>>
-----------------------------------------------------------------------------
\* init_thread zeroes the new thread.
ThreadCreate(t, n, p) ==
  /\ thread_create(t, n, p)
  /\ morning_tick' = [morning_tick EXCEPT ![n] = 0]
  /\ UNCHANGED <<ticks, sleeping_list, intr>>

ThreadCreateYield(t) == thread_create_yield(t) /\ UNCHANGED <<alarm, intr>>
ThreadSetPriority(t, p) == thread_set_priority(t, p) /\ UNCHANGED <<alarm, intr>>
ThreadExit(t) == thread_exit(t) /\ UNCHANGED <<alarm, intr>>
Idle == idle /\ UNCHANGED <<alarm, intr>>

ThreadYield(t) ==
  /\ At(t, "run")
  /\ thread_yield(status, ready_list, priority)
  /\ UNCHANGED <<priority, origin_priority, pc, arg, alarm, intr>>

ThreadStep(t) ==
  /\ ~in_external_intr
  /\ \/ \E n \in SleepTicks : TimerSleep(t, n)
     \/ thread_to_sleep(t)
     \/ \E n \in Thread, p \in Pri : ThreadCreate(t, n, p)
     \/ ThreadCreateYield(t)
     \/ \E p \in Pri : ThreadSetPriority(t, p)
     \/ ThreadYield(t)
     \/ ThreadExit(t)

Interrupt == TimerInterrupt \/ thread_to_wakeup \/ IntrReturn

Next ==
  /\ ~panicked
  /\ \/ \E t \in Thread : ThreadStep(t)
     \/ ~in_external_intr /\ Idle
     \/ Interrupt

Spec == TimerInit /\ [][Next]_vars

\* The timer goes on ticking and its handler runs to its end.
Fairness == WF_vars(~panicked /\ Interrupt)

FairSpec == Spec /\ Fairness
-----------------------------------------------------------------------------
(* Properties.                                                             *)

Sleeping == Range(sleeping_list)

\* Exactly the blocked threads are on the sleeping list, once each, in the
\* order of their wake-up times, and exactly the ready ones on the run queue:
\* `elem' is never on both lists.
SleepersListed ==
  /\ NoDuplicates(sleeping_list) /\ NoDuplicates(ready_list)
  /\ \A t \in Thread : t \in Sleeping <=> status[t] = "BLOCKED"
  /\ \A t \in Thread : t \in Range(ready_list) <=> status[t] = "READY"
  /\ \A i, j \in 1..Len(sleeping_list) :
       i < j => morning_tick[sleeping_list[i]] <= morning_tick[sleeping_list[j]]

\* timer_sleep never returns early: a thread that can run has reached the
\* tick it last asked for.
NoEarlyWakeup ==
  \A t \in Thread : status[t] \in {"READY", "RUNNING"} => ticks >= morning_tick[t]

\* No sleeper is left over: when the timer interrupt returns, every thread
\* still asleep has its wake-up time ahead of it.
NoOversleep ==
  [][in_external_intr /\ ~in_external_intr'
       => \A t \in Sleeping' : ticks' < morning_tick'[t]]_vars

\* A sleeper of the highest priority gets the CPU again, whatever the other
\* threads do, unless the interrupt that wakes it stops the kernel: waking it
\* above a thread of lower priority yields inside the interrupt handler.
SleeperRuns ==
  \A t \in Thread :
    (t \in Sleeping /\ priority[t] = PRI_MAX) ~> (current = t \/ panicked)
=============================================================================
