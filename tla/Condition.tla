----------------------------- MODULE Condition -----------------------------
(***************************************************************************)
(* One condition variable of threads/synch.c and the lock it belongs to.   *)
(* cond_wait is the sequence of a lock_release, a sema_down on a semaphore *)
(* of its own and a lock_acquire of module Synch; `step' says which of     *)
(* them a thread calls next.  The semaphore on the stack of thread t is    *)
(* named t.                                                                *)
(***************************************************************************)
EXTENDS Synch

CONSTANT CondLock        \* the lock that protects the condition

ASSUME ConditionAssumption == Semaphore = Thread /\ CondLock \in Lock

VARIABLES
  cond_waiters,          \* cond->waiters
  step,                  \* the next call of each thread's cond_* function
  panicked               \* list_front's ASSERT (!list_empty (list)) failed

cond == <<cond_waiters, step, panicked>>
cvars == <<vars, cond>>

ConditionInit ==
  /\ SynchInit
  /\ cond_waiters = <<>>
  /\ step = [t \in Thread |-> "none"]
  /\ panicked = FALSE

Step(t, from, to) ==
  /\ step[t] = from
  /\ step' = [step EXCEPT ![t] = to]
-----------------------------------------------------------------------------
\* cond_wait: the new semaphore joins the waiters while the lock is held.
CondWait(t) ==
  /\ At(t, "run")
  /\ holder[CondLock] = t
  /\ Step(t, "none", "release")
  /\ value' = [value EXCEPT ![t] = 0]
  /\ cond_waiters' = Append(cond_waiters, t)
  /\ UNCHANGED <<sched, priority, origin_priority, pc, arg, waiters, holder, waiting_lock,
                 potential_donator, panicked>>

CondWaitRelease(t) ==
  /\ LockRelease(t, CondLock)
  /\ Step(t, "release", "down")
  /\ UNCHANGED <<cond_waiters, panicked>>

CondWaitDown(t) ==
  /\ SemaDown(t, t)
  /\ Step(t, "down", "acquire")
  /\ UNCHANGED <<cond_waiters, panicked>>

CondWaitAcquire(t) ==
  /\ LockAcquire(t, CondLock)
  /\ Step(t, "acquire", "none")
  /\ UNCHANGED <<cond_waiters, panicked>>

\* Variant: the signalled semaphore stays on the list.
signal_front ==
  \E q \in list_sort(cond_waiters, ByPriority(priority)) :
    /\ cond_waiters' = q
    /\ sema_up(Head(q), priority)
    /\ UNCHANGED <<priority, origin_priority, pc, arg, holder, waiting_lock,
                   potential_donator, panicked>>

\* cond_signal on a nonempty list.  compare_sema_priority takes the front of
\* the two semaphores' own lists; every element of a list of two or more is
\* compared, and a thread that has not blocked in sema_down yet leaves its
\* semaphore's list empty.
signal ==
  \/ /\ Len(cond_waiters) > 1
     /\ \E w \in Range(cond_waiters) : waiters[w] = <<>>
     /\ panicked' = TRUE
     /\ UNCHANGED <<vars, cond_waiters>>
  \/ /\ Len(cond_waiters) > 1 => \A w \in Range(cond_waiters) : waiters[w] # <<>>
     /\ \E q \in list_sort(cond_waiters, ByPriority(priority)) :
          /\ cond_waiters' = Tail(q)
          /\ sema_up(Head(q), priority)
     /\ UNCHANGED <<priority, origin_priority, pc, arg, holder, waiting_lock,
                    potential_donator, panicked>>

CondSignal(t) ==
  /\ At(t, "run") /\ step[t] = "none"
  /\ holder[CondLock] = t
  /\ cond_waiters # <<>>
  /\ signal
  /\ UNCHANGED step

\* cond_broadcast signals until the list is empty.
CondBroadcast(t) ==
  /\ At(t, "run")
  /\ holder[CondLock] = t
  /\ cond_waiters # <<>>
  /\ \/ Step(t, "none", "broadcast")
     \/ step[t] = "broadcast" /\ UNCHANGED step
  /\ signal

CondBroadcastEnd(t) ==
  /\ At(t, "run")
  /\ cond_waiters = <<>>
  /\ Step(t, "broadcast", "none")
  /\ UNCHANGED <<vars, cond_waiters, panicked>>
-----------------------------------------------------------------------------
\* The steps of module Synch that a thread takes outside cond_* functions.
OtherStep(t) ==
  /\ step[t] = "none"
  /\ \/ \E l \in Lock : LockAcquire(t, l) \/ LockRelease(t, l)
     \/ \E n \in Thread, p \in Pri : ThreadCreate(t, n, p)
     \/ \E p \in Pri : ThreadSetPriority(t, p)
     \/ ThreadExit(t)
  /\ UNCHANGED cond

Continue(t) ==
  /\ \/ SemaDownResume(t) \/ LockAcquireResume(t) \/ LockReleaseRest(t)
     \/ ThreadCreateYield(t)
  /\ UNCHANGED cond

CondStep(t) ==
  \/ CondWait(t) \/ CondWaitRelease(t) \/ CondWaitDown(t) \/ CondWaitAcquire(t)
  \/ CondSignal(t) \/ CondBroadcast(t) \/ CondBroadcastEnd(t)
  \/ OtherStep(t) \/ Continue(t)

CondNext ==
  /\ ~panicked
  /\ \/ \E t \in Thread : CondStep(t)
     \/ (Idle \/ TimerTick) /\ UNCHANGED cond

CondSpec == ConditionInit /\ [][CondNext]_cvars
-----------------------------------------------------------------------------
(* Properties.                                                             *)

\* t has called cond_wait and has not been through its sema_down.
Waits(t) == step[t] \in {"release", "down"} \/ pc[t] = "down"

\* No signal is lost and none is given twice: a thread in cond_wait is on the
\* condition's list until exactly one signal raises its semaphore, also when
\* the signal comes between its lock_release and its sema_down; no other
\* thread is on the list or has a raised semaphore.
SignalledOnce ==
  /\ NoDuplicates(cond_waiters)
  /\ \A t \in Thread :
       IF Waits(t) THEN value[t] = (IF t \in Range(cond_waiters) THEN 0 ELSE 1)
                   ELSE value[t] = 0 /\ t \notin Range(cond_waiters)
=============================================================================
