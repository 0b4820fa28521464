---------------------------- MODULE TimerProofs ----------------------------
(***************************************************************************)
(* The safety of the alarm clock, for any number of threads, any arguments *)
(* of timer_sleep and any length of the time slice.                        *)
(*                                                                         *)
(* The inductive invariant adds to the properties of module Timer that the *)
(* running thread is the one marked running, that a thread on its way to   *)
(* sleep has read a tick, and that the time slice is only used up inside a *)
(* handler that is going to yield.                                         *)
(***************************************************************************)
EXTENDS Timer, ThreadsProofs

CpuInv ==
  /\ Consistent(status, ready_list)
  /\ current \in AllThread
  /\ RunsOnly(status, current)
  /\ thread_ticks \in Nat
  /\ ~in_external_intr \/ ~yield_on_return => thread_ticks < TIME_SLICE

\* A thread on its way to sleep knows when it is to be woken.
PcInv ==
  /\ DOMAIN pc = AllThread /\ DOMAIN arg = AllThread
  /\ \A t \in Thread : pc[t] = "sleep" => arg[t] \in Int

SleepInv ==
  /\ sleeping_list \in Seq(Thread) /\ NoDuplicates(sleeping_list)
  /\ Range(sleeping_list) = Blocked(status)
  /\ morning_tick \in [Thread -> Int]
  /\ SortedBy(sleeping_list, morning_tick)

\* A thread that is neither asleep nor dead has had its sleep.
ClockInv ==
  /\ ticks \in Nat
  /\ \A t \in Thread : t \notin Blocked(status) \cup Dead(status) => ticks >= morning_tick[t]

IInv == CpuInv /\ PcInv /\ SleepInv /\ ClockInv

\* The inductive invariant implies the properties that the runs check.
LEMMA InvariantImplies ==
  ASSUME IInv
  PROVE  SleepersListed /\ NoEarlyWakeup
<1>1. SleepersListed
  BY DEF IInv, CpuInv, SleepInv, Consistent, SortedBy, Blocked, SleepersListed, Sleeping
<1>2. NoEarlyWakeup
  BY DEF IInv, ClockInv, Blocked, Dead, NoEarlyWakeup
<1> QED BY <1>1, <1>2

LEMMA InitInvariant ==
  ASSUME TimerInit
  PROVE  IInv
<1>1. SchedInv /\ Blocked(status) = {}
  BY SchedInit DEF TimerInit
<1>2. CpuInv
  BY <1>1, ThreadsAssumption DEF CpuInv, SchedInv
<1>3. PcInv
  BY ThreadsAssumption DEF TimerInit, ThreadsInit, PcInv, AllThread
<1>4. SleepInv
  BY <1>1 DEF TimerInit, SleepInv, NoDuplicates, SortedBy, Range
<1>5. ClockInv
  BY DEF TimerInit, ClockInv
<1> QED BY <1>2, <1>3, <1>4, <1>5 DEF IInv

\* Outside the handler the scheduler is as thread.c has it.
LEMMA SchedulerOutside ==
  ASSUME IInv, ~in_external_intr
  PROVE  SchedInv
BY ThreadsAssumption DEF IInv, CpuInv, SchedInv

\* A step outside the handler that blocks nobody and leaves the clock alone.
LEMMA QuietStep ==
  ASSUME IInv, ~in_external_intr, SchedInv', UNCHANGED <<alarm, intr>>,
         Blocked(status') = Blocked(status), Dead(status) \subseteq Dead(status'), PcInv'
  PROVE  IInv'
<1>1. /\ UNCHANGED <<ticks, sleeping_list, morning_tick>>
      /\ UNCHANGED in_external_intr
  BY DEF alarm, intr
<1>2. CpuInv'
  BY <1>1, ThreadsAssumption DEF CpuInv, SchedInv
<1>3. SleepInv'
  BY <1>1 DEF IInv, SleepInv, SortedBy, NoDuplicates
<1>4. ClockInv'
  BY <1>1 DEF IInv, ClockInv
<1> QED BY <1>2, <1>3, <1>4 DEF IInv

\* The running thread is neither blocked nor dead.
LEMMA RunningThread ==
  ASSUME IInv, NEW t \in Thread, current = t
  PROVE  t \notin Blocked(status) \cup Dead(status)
BY DEF IInv, CpuInv, RunsOnly, Blocked, Dead, AllThread
-----------------------------------------------------------------------------
LEMMA ThreadInvariant ==
  ASSUME IInv, ~in_external_intr, NEW t \in Thread,
         \/ \E n \in SleepTicks : TimerSleep(t, n)
         \/ ThreadCreateYield(t) \/ ThreadYield(t) \/ ThreadExit(t)
         \/ \E p \in Pri : ThreadSetPriority(t, p)
  PROVE  IInv'
<1>1. current = t /\ UNCHANGED <<alarm, intr>>
  BY DEF TimerSleep, ThreadCreateYield, ThreadYield, ThreadExit, ThreadSetPriority,
         thread_create_yield, thread_exit, thread_set_priority, At
<1>2. SchedInv
  BY SchedulerOutside
<1>3. /\ SchedInv' /\ Blocked(status') = Blocked(status)
      /\ Dead(status) \subseteq Dead(status')
  <2>1. CASE UNCHANGED sched
    BY <2>1, <1>2 DEF SchedInv, sched, Consistent, RunsOnly
  <2>2. CASE \E pri : thread_yield(status, ready_list, pri)
    BY <2>2, <1>2, YieldStep DEF SchedInv
  <2>3. CASE ThreadExit(t)
    BY <2>3, <1>1, <1>2, ExitStep DEF ThreadExit, thread_exit
  <2> QED BY <2>1, <2>2, <2>3 DEF TimerSleep, ThreadCreateYield, ThreadYield, ThreadSetPriority,
             thread_create_yield, thread_set_priority
<1>4. PcInv'
  <2>1. CASE UNCHANGED <<pc, arg>>
    BY <2>1 DEF IInv, PcInv
  <2>2. CASE \E n \in SleepTicks : TimerSleep(t, n)
    <3>1. PICK n \in SleepTicks : TimerSleep(t, n)
      BY <2>2
    <3>2. ticks + n \in Int
      BY TimerAssumption DEF IInv, ClockInv
    <3>3. pc' = [pc EXCEPT ![t] = "sleep"] /\ arg' = [arg EXCEPT ![t] = ticks + n]
      BY <3>1 DEF TimerSleep, Goto
    <3> QED BY <3>2, <3>3 DEF IInv, PcInv, AllThread
  <2>3. CASE ThreadCreateYield(t)
    <3>1. pc' = [pc EXCEPT ![t] = "run"] /\ arg' = [arg EXCEPT ![t] = NULL]
      BY <2>3 DEF ThreadCreateYield, thread_create_yield, Goto
    <3> QED BY <3>1 DEF IInv, PcInv, AllThread
  <2> QED BY <2>1, <2>2, <2>3 DEF ThreadYield, ThreadExit, ThreadSetPriority,
             thread_exit, thread_set_priority
<1> QED BY <1>1, <1>3, <1>4, QuietStep

\* A new thread has no wake-up time.
LEMMA ThreadCreateInvariant ==
  ASSUME IInv, ~in_external_intr, NEW t \in Thread, NEW n \in Thread, NEW p \in Pri,
         ThreadCreate(t, n, p)
  PROVE  IInv'
<1>1. /\ current = t /\ status[n] = "NONE" /\ thread_unblock(n, priority')
      /\ pc' = [pc EXCEPT ![t] = "create", ![n] = "run"]
      /\ arg' = [arg EXCEPT ![t] = p, ![n] = NULL]
      /\ morning_tick' = [morning_tick EXCEPT ![n] = 0]
      /\ UNCHANGED <<ticks, sleeping_list, in_external_intr>>
  BY DEF ThreadCreate, thread_create, At, intr
<1>2. SchedInv
  BY SchedulerOutside
<1>3. /\ SchedInv' /\ Blocked(status') = Blocked(status) \ {n}
      /\ Dead(status') = Dead(status) \ {n}
  BY <1>1, <1>2, UnblockStep
<1>4. n \notin Blocked(status) /\ n \notin Range(sleeping_list)
  BY <1>1 DEF IInv, SleepInv, Blocked
<1>5. CpuInv'
  BY <1>1, <1>3, ThreadsAssumption DEF CpuInv, SchedInv
<1>6. PcInv'
  BY <1>1 DEF IInv, PcInv, AllThread
<1>7. SleepInv'
  <2>1. \A u \in Thread : u # n => morning_tick'[u] = morning_tick[u]
    BY <1>1 DEF IInv, SleepInv
  <2>2. morning_tick' \in [Thread -> Int]
    BY <1>1 DEF IInv, SleepInv
  <2>3. \A i \in 1..Len(sleeping_list) : sleeping_list[i] \in Thread /\ sleeping_list[i] # n
    BY <1>4, InRange DEF IInv, SleepInv
  <2>4. SortedBy(sleeping_list, morning_tick')
    BY <2>1, <2>3 DEF IInv, SleepInv, SortedBy
  <2> QED BY <1>1, <1>3, <1>4, <2>2, <2>4 DEF IInv, SleepInv
<1>8. ClockInv'
  BY <1>1, <1>3 DEF IInv, ClockInv, SleepInv
<1> QED BY <1>5, <1>6, <1>7, <1>8 DEF IInv

\* The sleeper is put where its wake-up time belongs.
LEMMA SleepInvariant ==
  ASSUME IInv, ~in_external_intr, NEW t \in Thread, thread_to_sleep(t)
  PROVE  IInv'
<1>1. /\ current = t /\ pc[t] = "sleep" /\ thread_block
      /\ morning_tick' = [morning_tick EXCEPT ![t] = arg[t]]
      /\ sleeping_list' = list_insert_ordered(sleeping_list, t, ByTick(morning_tick'))
      /\ pc' = [pc EXCEPT ![t] = "run"] /\ arg' = [arg EXCEPT ![t] = NULL]
      /\ UNCHANGED <<ticks, in_external_intr>>
  BY DEF thread_to_sleep, At, Goto, intr
<1>2. SchedInv
  BY SchedulerOutside
<1>3. /\ SchedInv' /\ Blocked(status') = Blocked(status) \cup {t}
      /\ Dead(status') = Dead(status)
  BY <1>1, <1>2, BlockStep
<1>4. t \notin Range(sleeping_list)
  BY <1>1, RunningThread DEF IInv, SleepInv
<1>5. CpuInv'
  BY <1>1, <1>3, ThreadsAssumption DEF CpuInv, SchedInv
<1>6. PcInv'
  BY <1>1 DEF IInv, PcInv, AllThread
<1>7. /\ morning_tick' \in [Thread -> Int]
      /\ \A u \in Thread : u # t => morning_tick'[u] = morning_tick[u]
  BY <1>1 DEF IInv, PcInv, SleepInv
<1>8. SleepInv'
  <2>1. \A i \in 1..Len(sleeping_list) : sleeping_list[i] \in Thread /\ sleeping_list[i] # t
    BY <1>4, InRange DEF IInv, SleepInv
  <2>2. SortedBy(sleeping_list, morning_tick')
    BY <1>7, <2>1 DEF IInv, SleepInv, SortedBy
  <2>3. SortedBy(sleeping_list', morning_tick')
    <3> DEFINE less == ByTick(morning_tick')
    <3>1. \A a, b \in Thread : less[a][b] <=> morning_tick'[a] < morning_tick'[b]
      BY DEF ByTick
    <3>2. sleeping_list \in Seq(Thread) /\ sleeping_list' = list_insert_ordered(sleeping_list, t, less)
      BY <1>1 DEF IInv, SleepInv
    <3> HIDE DEF less
    <3> QED BY <1>7, <2>2, <3>1, <3>2, InsertOrderedSorted
  <2>4. /\ sleeping_list' \in Seq(Thread) /\ NoDuplicates(sleeping_list')
        /\ Range(sleeping_list') = Range(sleeping_list) \cup {t}
    BY <1>1, <1>4, InsertOrderedElements DEF IInv, SleepInv
  <2> QED BY <1>3, <1>7, <2>3, <2>4 DEF IInv, SleepInv
<1>9. ClockInv'
  BY <1>1, <1>3, <1>7 DEF IInv, ClockInv
<1> QED BY <1>5, <1>6, <1>8, <1>9 DEF IInv

LEMMA IdleInvariant ==
  ASSUME IInv, ~in_external_intr, Idle
  PROVE  IInv'
<1>1. /\ current = idle_thread /\ thread_block /\ UNCHANGED <<alarm, intr>>
      /\ pc' = [pc EXCEPT ![idle_thread] = "hlt"] /\ arg' = [arg EXCEPT ![idle_thread] = NULL]
  BY DEF Idle, idle, At, Goto
<1>2. SchedInv' /\ Blocked(status') = Blocked(status) /\ Dead(status') = Dead(status)
  BY <1>1, SchedulerOutside, BlockStep, ThreadsAssumption
<1>3. PcInv'
  BY <1>1, ThreadsAssumption DEF IInv, PcInv, AllThread
<1> QED BY <1>1, <1>2, <1>3, QuietStep
-----------------------------------------------------------------------------
\* The clock goes on, and nobody is woken yet.
LEMMA TickInvariant ==
  ASSUME IInv, TimerInterrupt
  PROVE  IInv'
<1>1. /\ ~in_external_intr /\ in_external_intr' = TRUE
      /\ ticks' = IF ticks < MaxTick THEN ticks + 1 ELSE ticks
      /\ thread_ticks' = thread_ticks + 1
      /\ yield_on_return' = (thread_ticks + 1 >= TIME_SLICE)
      /\ WakeHlt
      /\ UNCHANGED <<status, ready_list, current, arg, sleeping_list, morning_tick>>
  BY DEF TimerInterrupt
<1>2. CpuInv'
  <2>1. /\ thread_ticks' \in Nat
        /\ ~yield_on_return' => thread_ticks' < TIME_SLICE
    <3>1. thread_ticks \in Nat /\ TIME_SLICE \in Nat
      BY ThreadsAssumption DEF IInv, CpuInv
    <3>2. ~yield_on_return' => ~(thread_ticks + 1 >= TIME_SLICE)
      BY <1>1, Zenon
    <3> QED BY <1>1, <3>1, <3>2
  <2> QED BY <1>1, <2>1 DEF IInv, CpuInv
<1>3. PcInv'
  BY <1>1, ThreadsAssumption DEF IInv, PcInv, WakeHlt, AllThread
<1>4. SleepInv'
  BY <1>1 DEF IInv, SleepInv, SortedBy
<1>5. ClockInv'
  <2>1. ticks' \in Nat /\ ticks' >= ticks
    BY <1>1, TimerAssumption DEF IInv, ClockInv
  <2> QED BY <1>1, <2>1 DEF IInv, ClockInv, SleepInv
<1> QED BY <1>2, <1>3, <1>4, <1>5 DEF IInv

\* The front sleeper is woken when it is due.
LEMMA WakeupInvariant ==
  ASSUME IInv, thread_to_wakeup
  PROVE  IInv'
<1> DEFINE t == Head(sleeping_list)
<1>1. /\ in_external_intr /\ sleeping_list # <<>> /\ ticks >= morning_tick[t]
      /\ sleeping_list' = Tail(sleeping_list)
      /\ status' = [status EXCEPT ![t] = "READY"]
      /\ ready_list' = list_insert_ordered(ready_list, t, ByPriority(priority))
      /\ UNCHANGED <<current, thread_ticks, pc, arg, ticks, morning_tick,
                     in_external_intr, yield_on_return>>
  BY DEF thread_to_wakeup, Due
<1>2. /\ t \in Thread /\ t \in Range(sleeping_list)
      /\ sleeping_list' \in Seq(Thread) /\ NoDuplicates(sleeping_list')
      /\ Range(sleeping_list') = Range(sleeping_list) \ {t}
  BY <1>1, TailElements DEF IInv, SleepInv
<1>3. SortedBy(sleeping_list', morning_tick')
  <2>1. /\ Len(sleeping_list) \in Nat /\ Len(sleeping_list') = Len(sleeping_list) - 1
        /\ \A i \in 1..Len(sleeping_list) - 1 : sleeping_list'[i] = sleeping_list[i + 1]
    BY <1>1 DEF IInv, SleepInv
  <2>2. \A i, j \in 1..Len(sleeping_list) :
          i < j => morning_tick[sleeping_list[i]] <= morning_tick[sleeping_list[j]]
    BY DEF IInv, SleepInv, SortedBy
  <2> QED BY <1>1, <2>1, <2>2 DEF SortedBy
<1> HIDE DEF t
<1>4. t \in Blocked(status) /\ status[t] = "BLOCKED"
  BY <1>2 DEF IInv, SleepInv, Blocked
<1>5. /\ status' \in [AllThread -> Status] /\ status'[t] = "READY"
      /\ \A u \in AllThread : u # t => status'[u] = status[u]
  BY <1>1, <1>2 DEF IInv, CpuInv, Consistent, AllThread, Status
<1>6. Blocked(status') = Blocked(status) \ {t} /\ Dead(status') = Dead(status) \ {t}
  BY <1>5 DEF Blocked, Dead, AllThread
<1>7. CpuInv'
  <2>1. t \notin Range(ready_list)
    BY <1>2, <1>4 DEF IInv, CpuInv, Consistent
  <2>2. /\ ready_list' \in Seq(Thread) /\ NoDuplicates(ready_list')
        /\ Range(ready_list') = Range(ready_list) \cup {t}
    BY <1>1, <1>2, <2>1, InsertOrderedElements DEF IInv, CpuInv, Consistent
  <2>3. Consistent(status', ready_list')
    BY <1>2, <1>5, <2>2 DEF IInv, CpuInv, Consistent, AllThread
  <2>4. RunsOnly(status', current')
    BY <1>1, <1>2, <1>4, <1>5 DEF IInv, CpuInv, RunsOnly, AllThread
  <2> QED BY <1>1, <2>3, <2>4 DEF IInv, CpuInv
<1>8. PcInv'
  BY <1>1 DEF IInv, PcInv
<1>9. SleepInv'
  BY <1>1, <1>2, <1>3, <1>6 DEF IInv, SleepInv
<1>10. ClockInv'
  BY <1>1, <1>6 DEF IInv, ClockInv
<1> QED BY <1>7, <1>8, <1>9, <1>10 DEF IInv

\* The handler returns, and may yield.
LEMMA ReturnInvariant ==
  ASSUME IInv, IntrReturn
  PROVE  IInv'
<1>1. /\ UNCHANGED <<pc, arg, ticks, sleeping_list, morning_tick>>
      /\ \/ yield_on_return /\ thread_yield(status, ready_list, priority)
         \/ ~yield_on_return /\ UNCHANGED <<status, ready_list, current, thread_ticks>>
  BY DEF IntrReturn, alarm, sched
<1>2. SchedInv' /\ Blocked(status') = Blocked(status) /\ Dead(status') = Dead(status)
  <2>1. CASE thread_yield(status, ready_list, priority)
    BY <2>1, YieldStep DEF IInv, CpuInv
  <2>2. CASE ~yield_on_return /\ UNCHANGED <<status, ready_list, current, thread_ticks>>
    BY <2>2, ThreadsAssumption DEF IInv, CpuInv, SchedInv
  <2> QED BY <1>1, <2>1, <2>2
<1>3. CpuInv'
  BY <1>2, ThreadsAssumption DEF CpuInv, SchedInv
<1>4. PcInv'
  BY <1>1 DEF IInv, PcInv
<1>5. SleepInv'
  BY <1>1, <1>2 DEF IInv, SleepInv, SortedBy
<1>6. ClockInv'
  BY <1>1, <1>2 DEF IInv, ClockInv
<1> QED BY <1>3, <1>4, <1>5, <1>6 DEF IInv
-----------------------------------------------------------------------------
LEMMA NextInvariant ==
  ASSUME IInv, [Next]_vars
  PROVE  IInv'
<1>1. ASSUME NEW t \in Thread, ThreadStep(t) PROVE IInv'
  <2>1. ASSUME thread_to_sleep(t) PROVE IInv'
    BY <1>1, <2>1, SleepInvariant DEF ThreadStep
  <2>2. ASSUME NEW n \in Thread, NEW p \in Pri, ThreadCreate(t, n, p) PROVE IInv'
    BY <1>1, <2>2, ThreadCreateInvariant DEF ThreadStep
  <2>3. ASSUME \/ \E n \in SleepTicks : TimerSleep(t, n)
               \/ ThreadCreateYield(t) \/ ThreadYield(t) \/ ThreadExit(t)
               \/ \E p \in Pri : ThreadSetPriority(t, p)
        PROVE  IInv'
    BY <1>1, <2>3, ThreadInvariant DEF ThreadStep
  <2> QED BY <1>1, <2>1, <2>2, <2>3 DEF ThreadStep
<1>2. ASSUME ~in_external_intr, Idle PROVE IInv'
  BY <1>2, IdleInvariant
<1>3. ASSUME Interrupt PROVE IInv'
  BY <1>3, TickInvariant, WakeupInvariant, ReturnInvariant DEF Interrupt
<1>4. ASSUME UNCHANGED vars PROVE IInv'
  BY <1>4 DEF vars, sched, alarm, intr, IInv, CpuInv, Consistent, RunsOnly, PcInv, SleepInv,
     SortedBy, NoDuplicates, Blocked, Dead, ClockInv
<1> QED BY <1>1, <1>2, <1>3, <1>4 DEF Next

\* The inductive invariant holds of every reachable state.
THEOREM InvariantHolds == Spec => []IInv
<1>1. TimerInit => IInv
  BY InitInvariant
<1>2. IInv /\ [Next]_vars => IInv'
  BY NextInvariant
<1> QED BY <1>1, <1>2, PTL DEF Spec

\* Exactly the sleeping threads are on the sleeping list, in order.
THEOREM SleepersAreListed == Spec => []SleepersListed
<1>1. IInv => SleepersListed
  BY InvariantImplies
<1> QED BY <1>1, InvariantHolds, PTL

\* timer_sleep never returns early.
THEOREM NobodyWakesEarly == Spec => []NoEarlyWakeup
<1>1. IInv => NoEarlyWakeup
  BY InvariantImplies
<1> QED BY <1>1, InvariantHolds, PTL

\* The wake-up loop may stop at the first sleeper that is not due, because the
\* sleepers behind it are due even later.
LEMMA ReturnLeavesNobody ==
  ASSUME IInv, [Next]_vars, in_external_intr, ~in_external_intr'
  PROVE  \A t \in Sleeping' : ticks' < morning_tick'[t]
<1>1. IntrReturn
  BY DEF Next, ThreadStep, Interrupt, TimerInterrupt, thread_to_wakeup, vars, intr
<1>2. UNCHANGED <<ticks, sleeping_list, morning_tick>> /\ ~Due
  BY <1>1 DEF IntrReturn, alarm
<1> SUFFICES ASSUME NEW t \in Range(sleeping_list) PROVE ticks < morning_tick[t]
  BY <1>2 DEF Sleeping
<1>3. PICK i \in 1..Len(sleeping_list) : t = sleeping_list[i]
  BY InRange DEF IInv, SleepInv
<1>4. /\ sleeping_list # <<>> /\ Head(sleeping_list) = sleeping_list[1]
      /\ 1 \in 1..Len(sleeping_list)
      /\ sleeping_list[1] \in Thread /\ sleeping_list[i] \in Thread
  BY <1>3 DEF IInv, SleepInv
<1>5. morning_tick[sleeping_list[1]] \in Int /\ morning_tick[t] \in Int /\ ticks \in Nat
  BY <1>3, <1>4 DEF IInv, SleepInv, ClockInv
<1>6. ticks < morning_tick[sleeping_list[1]]
  BY <1>2, <1>4, <1>5 DEF Due
<1>7. morning_tick[sleeping_list[1]] <= morning_tick[t]
  <2>1. CASE i = 1
    BY <2>1, <1>3, <1>5
  <2>2. CASE i # 1
    BY <2>2, <1>3, <1>4 DEF IInv, SleepInv, SortedBy
  <2> QED BY <2>1, <2>2
<1> QED BY <1>5, <1>6, <1>7

\* Nobody is left asleep past its time when the timer interrupt returns.
THEOREM NobodyOversleeps == Spec => NoOversleep
<1>1. IInv /\ [Next]_vars
        => [in_external_intr /\ ~in_external_intr'
              => \A t \in Sleeping' : ticks' < morning_tick'[t]]_vars
  BY ReturnLeavesNobody
<1> QED BY <1>1, InvariantHolds, PTL DEF Spec, NoOversleep
=============================================================================
