--------------------------- MODULE ThreadsProofs ---------------------------
(***************************************************************************)
(* What the scheduler's operations preserve, for any number of threads:    *)
(* the run queue holds exactly the ready threads, once each, and the CPU   *)
(* runs the one thread that is marked running.                             *)
(***************************************************************************)
EXTENDS Threads, ListsProofs

\* The thread states st agree with the run queue rl.
Consistent(st, rl) ==
  /\ st \in [AllThread -> Status]
  /\ rl \in Seq(Thread)
  /\ NoDuplicates(rl)
  /\ \A t \in Thread : t \in Range(rl) <=> st[t] = "READY"

RunsOnly(st, cur) == \A t \in AllThread : st[t] = "RUNNING" <=> t = cur

SchedInv ==
  /\ Consistent(status, ready_list)
  /\ current \in AllThread
  /\ RunsOnly(status, current)
  /\ thread_ticks \in 0..TIME_SLICE - 1

Blocked(st) == {t \in Thread : st[t] = "BLOCKED"}
Dead(st) == {t \in Thread : st[t] \in {"NONE", "DYING"}}

\* schedule() leaves the thread states and the run queue consistent.
LEMMA ScheduleStep ==
  ASSUME NEW st, NEW rl, Consistent(st, rl), current \in AllThread,
         \A t \in AllThread : st[t] # "RUNNING",
         schedule(st, rl)
  PROVE  /\ Consistent(status', ready_list')
         /\ current' \in AllThread /\ RunsOnly(status', current')
         /\ thread_ticks' \in 0..TIME_SLICE - 1
         /\ Blocked(status') = Blocked(st)
         /\ Dead(status') = Dead(st)
<1> DEFINE next == IF rl = <<>> THEN idle_thread ELSE Head(rl)
           freed == IF st[current] = "DYING" /\ current # initial_thread
                    THEN "NONE" ELSE st[current]
           s1 == [st EXCEPT ![current] = freed]
<1> USE DEF AllThread
<1>0. /\ st \in [AllThread -> Status] /\ rl \in Seq(Thread) /\ NoDuplicates(rl)
      /\ \A t \in Thread : t \in Range(rl) <=> st[t] = "READY"
  BY DEF Consistent
<1>1. /\ s1 \in [AllThread -> Status]
      /\ \A t \in AllThread : s1[t] # "RUNNING"
      /\ \A t \in AllThread : s1[t] = "READY" <=> st[t] = "READY"
      /\ \A t \in AllThread : s1[t] = "BLOCKED" <=> st[t] = "BLOCKED"
      /\ \A t \in AllThread : s1[t] \in {"NONE", "DYING"} <=> st[t] \in {"NONE", "DYING"}
  BY <1>0 DEF Status
<1>2. /\ current' = next /\ thread_ticks' = 0
      /\ ready_list' = IF rl = <<>> THEN rl ELSE Tail(rl)
      /\ status' = [s1 EXCEPT ![next] = "RUNNING"]
  BY DEF schedule
<1>3. 0 \in 0..TIME_SLICE - 1
  BY ThreadsAssumption
<1> HIDE DEF s1, next
<1>4. CASE rl = <<>>
  <2>1. next = idle_thread /\ ready_list' = rl /\ idle_thread \notin Thread
    BY <1>2, <1>4, ThreadsAssumption DEF next
  <2>2. /\ status' \in [AllThread -> Status] /\ status'[idle_thread] = "RUNNING"
        /\ \A t \in Thread : status'[t] = s1[t]
    BY <1>1, <1>2, <2>1 DEF Status
  <2>3. Consistent(status', ready_list')
    BY <1>0, <1>1, <2>1, <2>2 DEF Consistent
  <2>4. RunsOnly(status', current')
    BY <1>1, <1>2, <2>1, <2>2 DEF RunsOnly
  <2>5. Blocked(status') = Blocked(st) /\ Dead(status') = Dead(st)
    BY <1>1, <2>2 DEF Blocked, Dead
  <2> QED BY <1>2, <1>3, <2>1, <2>3, <2>4, <2>5
<1>5. CASE rl # <<>>
  <2>1. /\ next \in Thread /\ next = Head(rl) /\ next \in Range(rl)
        /\ Tail(rl) \in Seq(Thread) /\ Range(Tail(rl)) = Range(rl) \ {next}
        /\ NoDuplicates(Tail(rl)) /\ ready_list' = Tail(rl)
    BY <1>0, <1>2, <1>5, TailElements DEF next
  <2>2. /\ status' \in [AllThread -> Status] /\ status'[next] = "RUNNING"
        /\ \A t \in AllThread : t # next => status'[t] = s1[t]
    BY <1>1, <1>2, <2>1 DEF Status
  <2>3. Consistent(status', ready_list')
    BY <1>0, <1>1, <2>1, <2>2 DEF Consistent
  <2>4. RunsOnly(status', current')
    BY <1>1, <1>2, <2>1, <2>2 DEF RunsOnly
  <2>5. st[next] = "READY"
    BY <1>0, <2>1
  <2>6. Blocked(status') = Blocked(st) /\ Dead(status') = Dead(st)
    BY <1>1, <2>1, <2>2, <2>5 DEF Blocked, Dead
  <2> QED BY <1>2, <1>3, <2>1, <2>3, <2>4, <2>6
<1> QED BY <1>4, <1>5

\* thread_yield puts the caller, unless it is the idle thread, on the queue.
LEMMA YieldStep ==
  ASSUME NEW st, NEW rl, NEW pri, Consistent(st, rl), current \in AllThread,
         RunsOnly(st, current), thread_yield(st, rl, pri)
  PROVE  /\ SchedInv'
         /\ Blocked(status') = Blocked(st) /\ Dead(status') = Dead(st)
<1> DEFINE s1 == [st EXCEPT ![current] = "READY"]
           r1 == IF current = idle_thread THEN rl
                 ELSE list_insert_ordered(rl, current, ByPriority(pri))
<1> USE DEF AllThread
<1>0. /\ st \in [AllThread -> Status] /\ rl \in Seq(Thread) /\ NoDuplicates(rl)
      /\ \A t \in Thread : t \in Range(rl) <=> st[t] = "READY"
  BY DEF Consistent
<1>1. /\ s1 \in [AllThread -> Status] /\ s1[current] = "READY"
      /\ \A t \in AllThread : t # current => s1[t] = st[t] /\ s1[t] # "RUNNING"
      /\ st[current] = "RUNNING"
  BY <1>0 DEF Status, RunsOnly
<1>2. schedule(s1, r1)
  BY DEF thread_yield
<1>3. Consistent(s1, r1)
  <2>1. CASE current = idle_thread
    BY <2>1, <1>0, <1>1, ThreadsAssumption DEF Consistent
  <2>2. CASE current # idle_thread
    <3>1. current \in Thread /\ current \notin Range(rl)
      BY <2>2, <1>0, <1>1
    <3>2. /\ r1 \in Seq(Thread) /\ Range(r1) = Range(rl) \cup {current}
          /\ NoDuplicates(r1)
      BY <2>2, <3>1, <1>0, InsertOrderedElements
    <3> HIDE DEF r1, s1
    <3> QED BY <1>0, <1>1, <3>1, <3>2 DEF Consistent
  <2> QED BY <2>1, <2>2
<1>4. Blocked(s1) = Blocked(st) /\ Dead(s1) = Dead(st)
  <2> HIDE DEF s1
  <2> QED BY <1>1 DEF Blocked, Dead
<1> HIDE DEF s1, r1
<1>5. \A t \in AllThread : s1[t] # "RUNNING"
  BY <1>1
<1> QED BY <1>2, <1>3, <1>4, <1>5, ScheduleStep DEF SchedInv

\* thread_block blocks the caller.
LEMMA BlockStep ==
  ASSUME SchedInv, thread_block
  PROVE  /\ SchedInv'
         /\ Blocked(status') = Blocked(status) \cup ({current} \cap Thread)
         /\ Dead(status') = Dead(status)
<1> DEFINE s1 == [status EXCEPT ![current] = "BLOCKED"]
<1>0. /\ status \in [AllThread -> Status] /\ ready_list \in Seq(Thread)
      /\ NoDuplicates(ready_list) /\ current \in AllThread
      /\ \A t \in Thread : t \in Range(ready_list) <=> status[t] = "READY"
      /\ \A t \in AllThread : status[t] = "RUNNING" <=> t = current
  BY DEF SchedInv, Consistent, RunsOnly
<1>1. /\ s1 \in [AllThread -> Status] /\ s1[current] = "BLOCKED"
      /\ \A t \in AllThread : t # current => s1[t] = status[t] /\ s1[t] # "RUNNING"
  BY <1>0 DEF Status
<1>2. schedule(s1, ready_list)
  BY DEF thread_block
<1> HIDE DEF s1
<1>3. Consistent(s1, ready_list)
  BY <1>0, <1>1 DEF Consistent, AllThread
<1>4. /\ Blocked(s1) = Blocked(status) \cup ({current} \cap Thread)
      /\ Dead(s1) = Dead(status)
  BY <1>0, <1>1 DEF Blocked, Dead, AllThread
<1>5. \A t \in AllThread : s1[t] # "RUNNING"
  BY <1>1
<1> QED BY <1>0, <1>2, <1>3, <1>4, <1>5, ScheduleStep DEF SchedInv

\* thread_unblock makes its thread ready, and may give up the CPU.
LEMMA UnblockStep ==
  ASSUME SchedInv, NEW t \in Thread, NEW pri,
         status[t] \in {"BLOCKED", "NONE"}, thread_unblock(t, pri)
  PROVE  /\ SchedInv'
         /\ Blocked(status') = Blocked(status) \ {t}
         /\ Dead(status') = Dead(status) \ {t}
<1> DEFINE s1 == [status EXCEPT ![t] = "READY"]
           r1 == list_insert_ordered(ready_list, t, ByPriority(pri))
<1>0. /\ status \in [AllThread -> Status] /\ ready_list \in Seq(Thread)
      /\ NoDuplicates(ready_list) /\ current \in AllThread
      /\ \A u \in Thread : u \in Range(ready_list) <=> status[u] = "READY"
      /\ \A u \in AllThread : status[u] = "RUNNING" <=> u = current
      /\ thread_ticks \in 0..TIME_SLICE - 1
  BY DEF SchedInv, Consistent, RunsOnly
<1>1. /\ s1 \in [AllThread -> Status] /\ s1[t] = "READY"
      /\ \A u \in AllThread : u # t => s1[u] = status[u]
  BY <1>0 DEF Status, AllThread
<1>2. /\ r1 \in Seq(Thread) /\ Range(r1) = Range(ready_list) \cup {t}
      /\ NoDuplicates(r1)
  BY <1>0, InsertOrderedElements
<1>3. \/ thread_yield(s1, r1, pri)
      \/ status' = s1 /\ ready_list' = r1 /\ UNCHANGED <<current, thread_ticks>>
  BY DEF thread_unblock
<1> HIDE DEF s1, r1
<1>4. Consistent(s1, r1) /\ RunsOnly(s1, current)
  BY <1>0, <1>1, <1>2 DEF Consistent, RunsOnly, AllThread
<1>5. Blocked(s1) = Blocked(status) \ {t} /\ Dead(s1) = Dead(status) \ {t}
  BY <1>1 DEF Blocked, Dead, AllThread
<1>6. CASE thread_yield(s1, r1, pri)
  BY <1>0, <1>4, <1>5, <1>6, YieldStep
<1>7. CASE status' = s1 /\ ready_list' = r1 /\ UNCHANGED <<current, thread_ticks>>
  BY <1>0, <1>4, <1>5, <1>7 DEF SchedInv
<1> QED BY <1>3, <1>6, <1>7

\* thread_exit removes the caller for good.
LEMMA ExitStep ==
  ASSUME SchedInv, NEW t \in Thread, t = current,
         schedule([status EXCEPT ![t] = "DYING"], ready_list)
  PROVE  /\ SchedInv'
         /\ Blocked(status') = Blocked(status)
         /\ Dead(status') = Dead(status) \cup {t}
<1> DEFINE s1 == [status EXCEPT ![t] = "DYING"]
<1>0. /\ status \in [AllThread -> Status] /\ ready_list \in Seq(Thread)
      /\ NoDuplicates(ready_list) /\ current \in AllThread
      /\ \A u \in Thread : u \in Range(ready_list) <=> status[u] = "READY"
      /\ \A u \in AllThread : status[u] = "RUNNING" <=> u = current
  BY DEF SchedInv, Consistent, RunsOnly
<1>1. /\ s1 \in [AllThread -> Status] /\ s1[t] = "DYING"
      /\ \A u \in AllThread : u # t => s1[u] = status[u] /\ s1[u] # "RUNNING"
      /\ status[t] = "RUNNING"
  BY <1>0 DEF Status, AllThread
<1>2. schedule(s1, ready_list)
  OBVIOUS
<1> HIDE DEF s1
<1>3. Consistent(s1, ready_list)
  BY <1>0, <1>1 DEF Consistent, AllThread
<1>4. Blocked(s1) = Blocked(status) /\ Dead(s1) = Dead(status) \cup {t}
  BY <1>1 DEF Blocked, Dead, AllThread
<1>5. \A u \in AllThread : s1[u] # "RUNNING"
  BY <1>1
<1> QED BY <1>0, <1>2, <1>3, <1>4, <1>5, ScheduleStep DEF SchedInv

\* A timer tick may switch threads and changes nothing else.
LEMMA TickStep ==
  ASSUME SchedInv, thread_tick(status, ready_list)
  PROVE  /\ SchedInv'
         /\ Blocked(status') = Blocked(status) /\ Dead(status') = Dead(status)
<1>1. CASE thread_yield(status, ready_list, priority)
  BY <1>1, YieldStep DEF SchedInv
<1>2. CASE /\ thread_ticks + 1 < TIME_SLICE
           /\ thread_ticks' = thread_ticks + 1
           /\ UNCHANGED <<status, ready_list, current>>
  <2>1. thread_ticks' \in 0..TIME_SLICE - 1
    BY <1>2, ThreadsAssumption DEF SchedInv
  <2> QED BY <1>2, <2>1 DEF SchedInv
<1> QED BY <1>1, <1>2, ThreadsAssumption DEF thread_tick, SchedInv

\* The initial state of the scheduler.
LEMMA SchedInit ==
  ASSUME ThreadsInit
  PROVE  SchedInv /\ Blocked(status) = {}
         /\ priority \in [Thread -> Pri] /\ origin_priority = priority
<1> USE DEF AllThread
<1>1. /\ \A t \in Thread : status[t] = IF t = initial_thread THEN "RUNNING" ELSE "NONE"
      /\ status[idle_thread] = "BLOCKED" /\ status \in [AllThread -> Status]
  BY ThreadsAssumption, Zenon DEF ThreadsInit, Status
<1>2. Range(ready_list) = {} /\ NoDuplicates(ready_list) /\ ready_list \in Seq(Thread)
  BY DEF ThreadsInit, Range, NoDuplicates
<1>3. Consistent(status, ready_list)
  BY <1>1, <1>2 DEF Consistent
<1>4. current \in AllThread /\ RunsOnly(status, current)
  BY <1>1, ThreadsAssumption DEF ThreadsInit, RunsOnly
<1>5. thread_ticks \in 0..TIME_SLICE - 1
  BY ThreadsAssumption DEF ThreadsInit
<1>6. Blocked(status) = {}
  BY <1>1 DEF Blocked
<1>7. priority \in [Thread -> Pri] /\ origin_priority = priority
  BY ThreadsAssumption DEF ThreadsInit, Pri
<1> QED BY <1>3, <1>4, <1>5, <1>6, <1>7 DEF SchedInv
=============================================================================
