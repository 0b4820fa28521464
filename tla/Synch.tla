------------------------------- MODULE Synch -------------------------------
(***************************************************************************)
(* Semaphores and locks of threads/synch.c, with priority donation, on the *)
(* scheduler of module Threads.  Every thread may, whenever it runs with   *)
(* interrupts on, call any operation its assertions allow; timer ticks     *)
(* preempt it between any two steps with interrupts on.                    *)
(***************************************************************************)
EXTENDS Threads

CONSTANTS
  Semaphore,    \* semaphores that are not part of a lock
  Lock,         \* locks, each with the semaphore inside it
  Address,      \* Address[l]: lock l's kernel address, as an int
  MaxValue      \* bound on a semaphore's value

ASSUME SynchAssumption ==
  /\ Semaphore \cap Lock = {}
  /\ NULL \notin Semaphore \cup Lock
  /\ Address \in [Lock -> {a \in Int : a < 0}]
  /\ MaxValue \in Nat \ {0}

VARIABLES
  value, waiters,       \* of every semaphore, a lock's included
  holder,
  waiting_lock, potential_donator

Sema == Semaphore \cup Lock

synch == <<value, waiters, holder, waiting_lock, potential_donator>>
vars == <<sched, priority, origin_priority, pc, arg, synch>>

SynchInit ==
  /\ ThreadsInit
  /\ value = [s \in Sema |-> IF s \in Lock THEN 1 ELSE 0]
  /\ waiters = [s \in Sema |-> <<>>]
  /\ holder = [l \in Lock |-> NULL]
  /\ waiting_lock = [t \in Thread |-> NULL]
  /\ potential_donator = [t \in Thread |-> <<>>]
-----------------------------------------------------------------------------
(* Priority donation.                                                      *)

\* compare_priority applied to donation_elem members: list_entry is told the
\* element is `elem', so the word it reads as the priority is the one in front
\* of donation_elem, which is waiting_lock.  The list is ordered by address.
ByLockAddress(wl) ==
  LET Word(a) == IF wl[a] = NULL THEN 0 ELSE Address[wl[a]]
  IN  [a \in Thread |-> [b \in Thread |-> Word(a) > Word(b)]]

\* One iteration of donate_priority's loop for a caller of priority p, on the
\* set S of threads that have p already: the loop goes on from a thread to the
\* holder of the lock it waits for while that holder's priority is lower.
Donees(S, wl, p) ==
  S \cup {h \in Thread : /\ priority[h] < p
                        /\ \E u \in S : wl[u] # NULL /\ holder[wl[u]] = h}

\* The priorities after thread t's donate_priority, which follows the chain
\* for at most eight links; wl is waiting_lock.
donate_priority(t, wl) ==
  LET Two(S)  == Donees(Donees(S, wl, priority[t]), wl, priority[t])
      Four(S) == Two(Two(S))
      raised  == Four(Four({t}))
  IN  [u \in Thread |-> IF u \in raised THEN priority[t] ELSE priority[u]]

\* Variant: the donors for the released lock are not removed.
restore_keeps_donors(t, l) ==
  \E donors \in list_sort(potential_donator[t], ByLockAddress(waiting_lock)) :
     /\ potential_donator' = [potential_donator EXCEPT ![t] = donors]
     /\ priority' = [priority EXCEPT ![t] = origin_priority[t]]

\* Variant: the donated priority stays.
restore_keeps_priority(t, l) ==
  /\ potential_donator' \in
       {[potential_donator EXCEPT ![t] = donors] :
          donors \in list_sort_keep(potential_donator[t],
                                   {d \in Thread : waiting_lock[d] # l},
                                   ByLockAddress(waiting_lock))}
  /\ UNCHANGED priority

\* restore_priority(lock) of thread t: it forgets the donors that wait for
\* the lock, returns to its own priority, and takes the priority of the donor
\* at the front if that is higher.
restore_priority(t, l) ==
  \E donors \in list_sort_keep(potential_donator[t],
                               {d \in Thread : waiting_lock[d] # l},
                               ByLockAddress(waiting_lock)) :
     /\ potential_donator' = [potential_donator EXCEPT ![t] = donors]
     /\ priority' = [priority EXCEPT ![t] =
                       IF donors # <<>> /\ priority[Head(donors)] > origin_priority[t]
                       THEN priority[Head(donors)] ELSE origin_priority[t]]
-----------------------------------------------------------------------------
(* Semaphores.                                                             *)

\* sema_down's loop body when the value is 0: donate, queue, block.  The
\* thread is at label l when it runs again, with interrupts still off.
SemaWait(t, s, l, wl) ==
  /\ value[s] = 0
  /\ priority' = donate_priority(t, wl)
  /\ waiters' = [waiters EXCEPT ![s] = Append(@, t)]
  /\ thread_block
  /\ Goto(t, l, s)
  /\ UNCHANGED <<value, origin_priority>>

SemaTake(s) ==
  /\ value[s] > 0
  /\ value' = [value EXCEPT ![s] = @ - 1]
  /\ UNCHANGED waiters

\* Variant: the woken thread stays on the wait list.
up_without_pop(s, pri) ==
  /\ value' = [value EXCEPT ![s] = @ + 1]
  /\ IF waiters[s] = <<>>
     THEN UNCHANGED <<waiters, sched>>
     ELSE \E q \in list_sort(waiters[s], ByPriority(pri)) :
            waiters' = [waiters EXCEPT ![s] = q] /\ thread_unblock(Head(q), pri)

\* Variant: a waiter is woken only when the value was zero.
up_wakes_at_zero(s, pri) ==
  /\ value' = [value EXCEPT ![s] = @ + 1]
  /\ IF waiters[s] = <<>> \/ value[s] > 0
     THEN UNCHANGED <<waiters, sched>>
     ELSE \E q \in list_sort(waiters[s], ByPriority(pri)) :
            /\ waiters' = [waiters EXCEPT ![s] = Tail(q)]
            /\ thread_unblock(Head(q), pri)

\* sema_up with the priorities pri: the waiter of highest priority, first
\* come first among equals, leaves the sorted queue and is unblocked.
sema_up(s, pri) ==
  /\ value' = [value EXCEPT ![s] = @ + 1]
  /\ IF waiters[s] = <<>>
     THEN UNCHANGED <<waiters, sched>>
     ELSE \E q \in list_sort(waiters[s], ByPriority(pri)) :
            /\ waiters' = [waiters EXCEPT ![s] = Tail(q)]
            /\ thread_unblock(Head(q), pri)

\* sema_down called by thread t.
SemaDown(t, s) ==
  /\ At(t, "run")
  /\ \/ /\ SemaTake(s)
        /\ UNCHANGED <<sched, priority, origin_priority, pc, arg>>
     \/ SemaWait(t, s, "down", waiting_lock)
  /\ UNCHANGED <<holder, waiting_lock, potential_donator>>

\* sema_down after thread_block returns: the loop tests the value again.
SemaDownResume(t) ==
  /\ At(t, "down")
  /\ \/ /\ SemaTake(arg[t])
        /\ Goto(t, "run", NULL)
        /\ UNCHANGED <<sched, priority, origin_priority>>
     \/ SemaWait(t, arg[t], "down", waiting_lock)
  /\ UNCHANGED <<holder, waiting_lock, potential_donator>>

SemaTryDown(t, s) ==
  /\ At(t, "run")
  /\ SemaTake(s)
  /\ UNCHANGED <<sched, priority, origin_priority, pc, arg, holder, waiting_lock,
                 potential_donator>>

SemaUp(t, s) ==
  /\ At(t, "run")
  /\ value[s] < MaxValue
  /\ sema_up(s, priority)
  /\ UNCHANGED <<priority, origin_priority, pc, arg, holder, waiting_lock,
                 potential_donator>>
-----------------------------------------------------------------------------
(* Locks.                                                                  *)

\* lock_acquire up to its return or to its first thread_block.  A thread that
\* finds a holder registers with it as a donor; waiting_lock stays set when
\* the lock is acquired.
LockAcquire(t, l) ==
  /\ At(t, "run")
  /\ holder[l] # t
  /\ IF holder[l] = NULL
     THEN UNCHANGED <<waiting_lock, potential_donator>>
     ELSE /\ waiting_lock' = [waiting_lock EXCEPT ![t] = l]
          /\ potential_donator' = [potential_donator EXCEPT ![holder[l]] =
               list_insert_ordered(@, t, ByLockAddress(waiting_lock'))]
  /\ \/ /\ SemaTake(l)
        /\ holder' = [holder EXCEPT ![l] = t]
        /\ UNCHANGED <<sched, priority, origin_priority, pc, arg>>
     \/ /\ SemaWait(t, l, "acquire", waiting_lock')
        /\ UNCHANGED holder

\* Variant: sema_down tests the value with `if', not `while'.
resume_without_test(t) ==
  /\ At(t, "acquire")
  /\ value' = [value EXCEPT ![arg[t]] = (@ - 1) % 2^16]
  /\ holder' = [holder EXCEPT ![arg[t]] = t]
  /\ Goto(t, "run", NULL)
  /\ UNCHANGED <<sched, priority, origin_priority, waiters, waiting_lock, potential_donator>>

\* lock_acquire after thread_block returns in its sema_down.
LockAcquireResume(t) ==
  LET l == arg[t] IN
  /\ At(t, "acquire")
  /\ \/ /\ SemaTake(l)
        /\ holder' = [holder EXCEPT ![l] = t]
        /\ Goto(t, "run", NULL)
        /\ UNCHANGED <<sched, priority, origin_priority>>
     \/ /\ SemaWait(t, l, "acquire", waiting_lock)
        /\ UNCHANGED holder
  /\ UNCHANGED <<waiting_lock, potential_donator>>

LockTryAcquire(t, l) ==
  /\ At(t, "run")
  /\ holder[l] # t
  /\ SemaTake(l)
  /\ waiting_lock' = [waiting_lock EXCEPT ![t] = NULL]
  /\ holder' = [holder EXCEPT ![l] = t]
  /\ UNCHANGED <<sched, priority, origin_priority, pc, arg, potential_donator>>

\* lock_release clears the holder before it disables interrupts.
LockRelease(t, l) ==
  /\ At(t, "run")
  /\ holder[l] = t
  /\ holder' = [holder EXCEPT ![l] = NULL]
  /\ Goto(t, "release", l)
  /\ UNCHANGED <<sched, priority, origin_priority, value, waiters, waiting_lock,
                 potential_donator>>

LockReleaseRest(t) ==
  /\ At(t, "release")
  /\ restore_priority(t, arg[t])
  /\ sema_up(arg[t], priority')
  /\ Goto(t, "run", NULL)
  /\ UNCHANGED <<origin_priority, holder, waiting_lock>>
-----------------------------------------------------------------------------
\* init_thread resets the donation members of the new thread.
ThreadCreate(t, n, p) ==
  /\ thread_create(t, n, p)
  /\ waiting_lock' = [waiting_lock EXCEPT ![n] = NULL]
  /\ potential_donator' = [potential_donator EXCEPT ![n] = <<>>]
  /\ UNCHANGED <<value, waiters, holder>>

ThreadCreateYield(t) == thread_create_yield(t) /\ UNCHANGED synch
ThreadSetPriority(t, p) == thread_set_priority(t, p) /\ UNCHANGED synch
Idle == idle /\ UNCHANGED synch

\* No caller in the kernel exits while it holds a lock.
ThreadExit(t) ==
  /\ \A l \in Lock : holder[l] # t
  /\ thread_exit(t)
  /\ UNCHANGED synch

\* thread_yield called by a thread.
ThreadYield(t) ==
  /\ At(t, "run")
  /\ thread_yield(status, ready_list, priority)
  /\ UNCHANGED <<priority, origin_priority, pc, arg, synch>>

\* A timer interrupt.  Code that waits in sema_down resumes with interrupts
\* off, so no interrupt comes before it has tested the value again.
IntrOn == pc[current] \notin {"down", "acquire"}

TimerTick ==
  /\ IntrOn
  /\ thread_tick(status, ready_list)
  /\ WakeHlt
  /\ UNCHANGED <<priority, origin_priority, arg, synch>>

ThreadStep(t) ==
  \/ \E s \in Semaphore : SemaDown(t, s) \/ SemaTryDown(t, s) \/ SemaUp(t, s)
  \/ SemaDownResume(t)
  \/ \E l \in Lock : LockAcquire(t, l) \/ LockTryAcquire(t, l) \/ LockRelease(t, l)
  \/ LockAcquireResume(t)
  \/ LockReleaseRest(t)
  \/ \E n \in Thread, p \in Pri : ThreadCreate(t, n, p)
  \/ ThreadCreateYield(t)
  \/ \E p \in Pri : ThreadSetPriority(t, p)
  \/ ThreadYield(t)
  \/ ThreadExit(t)

Next ==
  \/ \E t \in Thread : ThreadStep(t)
  \/ Idle
  \/ TimerTick

Spec == SynchInit /\ [][Next]_vars

\* Code inside a kernel call runs on; so does the idle thread after hlt.  A
\* tick that comes while interrupts are off stays pending at the controller
\* and is delivered when they are enabled, hence strong fairness.
Fairness ==
  /\ WF_vars(\E t \in Thread : \/ SemaDownResume(t) \/ LockAcquireResume(t)
                              \/ LockReleaseRest(t) \/ ThreadCreateYield(t))
  /\ WF_vars(Idle)
  /\ SF_vars(TimerTick)

FairSpec == Spec /\ Fairness
-----------------------------------------------------------------------------
(* Properties.                                                             *)

Waiting == {"down", "acquire"}

TypeOK ==
  /\ ThreadsTypeOK
  /\ pc \in [AllThread -> {"run", "create", "down", "acquire", "release", "hlt", "loop"}]
  /\ arg \in [AllThread -> Sema \cup Pri \cup {NULL}]
  /\ value \in [Sema -> Nat]
  /\ waiters \in [Sema -> Seq(Thread)]
  /\ holder \in [Lock -> Thread \cup {NULL}]
  /\ waiting_lock \in [Thread -> Lock \cup {NULL}]
  /\ potential_donator \in [Thread -> Seq(Thread)]

\* The rule in thread.h for the one list element a thread has: exactly the
\* ready threads are on the run queue, exactly the threads blocked in a
\* semaphore's sema_down are on that semaphore's wait list, once each, and
\* the CPU runs the one thread that is marked running.
ElemOnOneList ==
  /\ \A t \in AllThread : status[t] = "RUNNING" <=> t = current
  /\ NoDuplicates(ready_list)
  /\ \A t \in Thread : t \in Range(ready_list) <=> status[t] = "READY"
  /\ \A s \in Sema : NoDuplicates(waiters[s])
  /\ \A t \in Thread, s \in Sema :
       t \in Range(waiters[s])
         <=> status[t] = "BLOCKED" /\ pc[t] \in Waiting /\ arg[t] = s
  /\ \A t \in Thread : status[t] = "BLOCKED" => pc[t] \in Waiting /\ arg[t] \in Sema

\* Thread t is between lock_acquire's and lock_release's updates of the lock's
\* semaphore; in the last part of it the holder is already NULL.
Owns(t, l) == holder[l] = t \/ (pc[t] = "release" /\ arg[t] = l)

\* A lock is either free, with semaphore value 1 and no owner, or owned by
\* exactly one thread, with value 0: lock_acquire and lock_release neither
\* lose a lock nor hand it to two threads.
LockFreeOrOwned ==
  \A l \in Lock :
    \/ value[l] = 1 /\ \A t \in Thread : ~Owns(t, l)
    \/ /\ value[l] = 0
       /\ \E t \in Thread : Owns(t, l)
       /\ \A t, u \in Thread : Owns(t, l) /\ Owns(u, l) => t = u

\* A thread is in a potential_donator list, once, only while it waits in
\* lock_acquire for a lock that the list's thread owns: donation_elem is never
\* on two lists, and restore_priority never takes a priority from a thread
\* that has stopped waiting.
DonorsWaitForOwner ==
  \A h \in Thread :
    /\ NoDuplicates(potential_donator[h])
    /\ \A d \in Range(potential_donator[h]) :
         /\ pc[d] = "acquire" /\ waiting_lock[d] = arg[d]
         /\ Owns(h, arg[d])

\* A donated priority is given back with the locks: a thread that owns no
\* lock runs at its own priority.
DonationEndsWithOwnership ==
  \A t \in Thread : (\A l \in Lock : ~Owns(t, l)) => priority[t] = origin_priority[t]

\* No wake-up is lost: while threads are queued on a semaphore, every unit of
\* its value has a woken thread on the way to test it again.
NoLostWakeup ==
  \A s \in Sema :
    waiters[s] # <<>> =>
      value[s] <= Cardinality({t \in Thread : /\ pc[t] \in Waiting /\ arg[t] = s
                                             /\ status[t] \in {"READY", "RUNNING"}})

\* Round robin among equals: with a single priority level, every thread on the
\* run queue gets the CPU, whatever the others do with it.
ReadyThreadRuns ==
  PRI_MIN = PRI_MAX =>
    \A t \in Thread : (status[t] = "READY") ~> (status[t] = "RUNNING")

\* schedule takes the front of ready_list, which is ordered at insertion only:
\* a switch passes over a ready thread of higher priority only if that priority
\* is a donated one, which came when the thread was already on the list.
OnlyDonationInverts ==
  [][current' # current /\ current' \in Thread =>
       \A t \in Range(ready_list') :
         priority'[t] > priority'[current'] => priority'[t] > origin_priority'[t]]_vars
=============================================================================
