------------------------------ MODULE Threads ------------------------------
(***************************************************************************)
(* The thread table and the scheduler of threads/thread.c on one CPU.      *)
(*                                                                         *)
(* A run of kernel code with interrupts off is one atomic step, up to the  *)
(* point where it calls schedule(); what the thread does after it is       *)
(* switched to again is its next step, at its program counter pc.  Timer   *)
(* interrupts arrive between the steps of code that has interrupts on.     *)
(* This module has the state and the operations of thread.c; the modules   *)
(* that extend it (Synch, Timer) add the callers and a specification.      *)
(***************************************************************************)
EXTENDS Lists

CONSTANTS
  Thread,          \* the pages that can hold a struct thread, idle excluded
  initial_thread,  \* the thread main() runs in
  idle_thread,
  PRI_MIN, PRI_DEFAULT, PRI_MAX,
  TIME_SLICE,      \* timer ticks a thread may run before it is preempted
  NULL

ASSUME ThreadsAssumption ==
  /\ initial_thread \in Thread
  /\ idle_thread \notin Thread
  /\ NULL \notin Thread \cup {idle_thread}
  /\ PRI_MIN \in Nat /\ PRI_MAX \in Nat /\ PRI_DEFAULT \in PRI_MIN..PRI_MAX
  /\ TIME_SLICE \in Nat \ {0}

VARIABLES
  status,           \* status[t]; "NONE" when t's page holds no thread
  ready_list,
  current,          \* running_thread()
  priority, origin_priority,
  thread_ticks,
  pc,               \* where each thread is in the kernel's code
  arg               \* the argument of the call pc is in

sched == <<status, ready_list, current, thread_ticks>>

AllThread == Thread \cup {idle_thread}
Pri == PRI_MIN..PRI_MAX
Status == {"NONE", "RUNNING", "READY", "BLOCKED", "DYING"}

\* priority_compare_two_thread: the thread of higher priority comes first.
ByPriority(pri) == [a \in Thread |-> [b \in Thread |-> pri[a] > pri[b]]]

\* thread_start has returned: main runs, the idle thread has blocked itself.
ThreadsInit ==
  /\ status = [t \in AllThread |-> CASE t = initial_thread -> "RUNNING"
                                     [] t = idle_thread    -> "BLOCKED"
                                     [] OTHER              -> "NONE"]
  /\ ready_list = <<>>
  /\ current = initial_thread
  /\ priority = [t \in Thread |-> PRI_DEFAULT]
  /\ origin_priority = priority
  /\ thread_ticks = 0
  /\ pc = [t \in AllThread |-> IF t = idle_thread THEN "hlt" ELSE "run"]
  /\ arg = [t \in AllThread |-> NULL]

\* schedule and schedule_tail, from a state where st and rl are already the
\* thread states and the ready list.  A dying thread's page is freed, except
\* the initial thread's.
schedule(st, rl) ==
  LET next == IF rl = <<>> THEN idle_thread ELSE Head(rl)
      freed == IF st[current] = "DYING" /\ current # initial_thread
               THEN "NONE" ELSE st[current]
  IN  /\ current' = next
      /\ ready_list' = IF rl = <<>> THEN rl ELSE Tail(rl)
      /\ status' = [st EXCEPT ![current] = freed, ![next] = "RUNNING"]
      /\ thread_ticks' = 0

thread_block == schedule([status EXCEPT ![current] = "BLOCKED"], ready_list)

\* The idle thread is never put on the ready list.
thread_yield(st, rl, pri) ==
  schedule([st EXCEPT ![current] = "READY"],
           IF current = idle_thread THEN rl
           ELSE list_insert_ordered(rl, current, ByPriority(pri)))

\* thread_unblock(t) with the priorities pri: the caller gives up the CPU
\* when t's priority is higher than its own.
Preempts(t, pri) == current # idle_thread /\ pri[t] > pri[current]

thread_unblock(t, pri) ==
  LET st == [status EXCEPT ![t] = "READY"]
      rl == list_insert_ordered(ready_list, t, ByPriority(pri))
  IN  IF Preempts(t, pri)
      THEN thread_yield(st, rl, pri)
      ELSE /\ status' = st
           /\ ready_list' = rl
           /\ UNCHANGED <<current, thread_ticks>>

\* thread t executes kernel code at label l.
At(t, l) == current = t /\ pc[t] = l

Goto(t, l, a) ==
  /\ pc' = [pc EXCEPT ![t] = l]
  /\ arg' = [arg EXCEPT ![t] = a]

\* thread_create, up to the return of thread_unblock: n's page is a new
\* thread of priority p.  tid_lock and the allocators' locks are left out.
thread_create(t, n, p) ==
  /\ At(t, "run")
  /\ status[n] = "NONE"
  /\ priority' = [priority EXCEPT ![n] = p]
  /\ origin_priority' = [origin_priority EXCEPT ![n] = p]
  /\ thread_unblock(n, priority')
  /\ pc' = [pc EXCEPT ![t] = "create", ![n] = "run"]
  /\ arg' = [arg EXCEPT ![t] = p, ![n] = NULL]

\* The rest of thread_create: a second priority test, on the argument.
thread_create_yield(t) ==
  /\ At(t, "create")
  /\ IF priority[t] < arg[t]
     THEN thread_yield(status, ready_list, priority)
     ELSE UNCHANGED sched
  /\ Goto(t, "run", NULL)
  /\ UNCHANGED <<priority, origin_priority>>

\* A thread that runs at a donated priority only gets a new base priority.
thread_set_priority(t, p) ==
  /\ At(t, "run")
  /\ origin_priority' = [origin_priority EXCEPT ![t] = p]
  /\ IF priority[t] # origin_priority[t]
     THEN UNCHANGED <<priority, sched>>
     ELSE /\ priority' = [priority EXCEPT ![t] = p]
          /\ IF ready_list # <<>> /\ p < priority[Head(ready_list)]
             THEN thread_yield(status, ready_list, priority')
             ELSE UNCHANGED sched
  /\ UNCHANGED <<pc, arg>>

thread_exit(t) ==
  /\ At(t, "run")
  /\ schedule([status EXCEPT ![t] = "DYING"], ready_list)
  /\ UNCHANGED <<priority, origin_priority, pc, arg>>

\* The idle thread's loop: thread_block, then wait in hlt for an interrupt.
idle ==
  /\ At(idle_thread, "loop")
  /\ thread_block
  /\ Goto(idle_thread, "hlt", NULL)
  /\ UNCHANGED <<priority, origin_priority>>

\* An interrupt ends the idle thread's hlt.
WakeHlt == IF current = idle_thread
           THEN pc' = [pc EXCEPT ![idle_thread] = "loop"]
           ELSE UNCHANGED pc

\* The end of intr_handler for a timer tick: thread_tick asks for a yield
\* when the time slice is used up, and intr_handler yields on its way out.
thread_tick(st, rl) ==
  IF thread_ticks + 1 >= TIME_SLICE
  THEN thread_yield(st, rl, priority)
  ELSE /\ thread_ticks' = thread_ticks + 1
       /\ status' = st
       /\ ready_list' = rl
       /\ UNCHANGED current
-----------------------------------------------------------------------------
ThreadsTypeOK ==
  /\ status \in [AllThread -> Status]
  /\ ready_list \in Seq(Thread)
  /\ current \in AllThread
  /\ priority \in [Thread -> Pri]
  /\ origin_priority \in [Thread -> Pri]
  /\ thread_ticks \in 0..TIME_SLICE - 1
  /\ DOMAIN pc = AllThread
  /\ DOMAIN arg = AllThread
=============================================================================
