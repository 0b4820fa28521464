---------------------------- MODULE SynchProofs ----------------------------
(***************************************************************************)
(* The lock operations keep the invariant of module SynchInvariant, hence  *)
(* every step does, and the properties of module Synch follow.             *)
(***************************************************************************)
EXTENDS SynchInvariant

\* A lock whose semaphore is positive has no owner; one with an owner has
\* value 0.
LEMMA FreeLock ==
  ASSUME IInv, NEW l \in Lock
  PROVE  /\ value[l] > 0 => value[l] = 1 /\ \A t \in Thread : ~Owns(t, l)
         /\ \A t \in Thread : Owns(t, l) => value[l] = 0
         /\ \A t, u \in Thread : Owns(t, l) /\ Owns(u, l) => t = u
         /\ value[l] > 0 => holder[l] = NULL
BY DEF IInv, OwnerInv, LockFreeOrOwned, Owns

\* Thread t takes the free lock l, at the end of lock_acquire or
\* lock_try_acquire.
LEMMA TakeLock ==
  ASSUME IInv, NEW t \in Thread, NEW l \in Lock, current = t,
         pc[t] = "run" \/ (pc[t] = "acquire" /\ arg[t] = l),
         SemaTake(l), holder' = [holder EXCEPT ![l] = t],
         UNCHANGED <<sched, priority, origin_priority, potential_donator>>,
         \A u \in Thread : u # t => waiting_lock'[u] = waiting_lock[u],
         waiting_lock' \in [Thread -> Lock \cup {NULL}],
         \/ UNCHANGED <<pc, arg>> /\ pc[t] = "run"
         \/ Goto(t, "run", NULL)
  PROVE  IInv'
<1>1. t \notin Blocked(status) /\ t \notin Dead(status)
  BY RunningThread DEF IInv
<1>2. SchedInv' /\ Blocked(status') = Blocked(status) /\ Dead(status') = Dead(status)
  BY DEF IInv, SchedInv, sched, Consistent, RunsOnly
<1>3. /\ PcInv' /\ pc'[t] = "run"
      /\ \A u \in AllThread : u # t => pc'[u] = pc[u] /\ arg'[u] = arg[u]
  <2>1. CASE UNCHANGED <<pc, arg>> /\ pc[t] = "run"
    BY <2>1 DEF IInv, PcInv
  <2>2. CASE Goto(t, "run", NULL)
    BY <2>2, GotoStep DEF IInv
  <2> QED BY <2>1, <2>2
<1>4. /\ value[l] = 1 /\ (\A u \in Thread : ~Owns(u, l)) /\ holder[l] = NULL
      /\ value' \in [Sema -> Nat] /\ value'[l] = 0 /\ waiters' = waiters
      /\ \A k \in Lock : k # l => value'[k] = value[k]
  BY FreeLock DEF SemaTake, IInv, QueueInv, Sema
<1>5. /\ holder' \in [Lock -> Thread \cup {NULL}] /\ holder'[l] = t
      /\ \A k \in Lock : k # l => holder'[k] = holder[k]
  BY DEF IInv, OwnerInv
<1>6. /\ \A u \in Thread, k \in Lock : k # l => (Owns(u, k)' <=> Owns(u, k))
      /\ \A u \in Thread : Owns(u, l)' <=> u = t
  <2>1. ASSUME NEW u \in Thread, NEW k \in Lock, k # l PROVE Owns(u, k)' <=> Owns(u, k)
    BY <1>3, <1>5, <2>1 DEF Owns, AllThread
  <2>2. ASSUME NEW u \in Thread PROVE Owns(u, l)' <=> u = t
    <3>1. CASE u = t
      BY <1>5, <3>1 DEF Owns
    <3>2. CASE u # t
      <4>1. ~(pc'[u] = "release" /\ arg'[u] = l)
        BY <1>3, <1>4, <3>2 DEF Owns, AllThread
      <4> QED BY <1>5, <3>2, <4>1 DEF Owns
    <3> QED BY <3>1, <3>2
  <2> QED BY <2>1, <2>2
<1>7. QueueInv'
  <2>1. \A u \in Dead(status') : pc'[u] = "run"
    BY <1>1, <1>2, <1>3 DEF IInv, QueueInv, Dead, AllThread
  <2>2. \A u \in Blocked(status) : pc'[u] = pc[u] /\ arg'[u] = arg[u]
    BY <1>1, <1>3 DEF Blocked, AllThread
  <2>3. \A u \in Thread, r \in Sema :
          u \in Range(waiters'[r]) <=> u \in Range(waiters[r]) /\ u \in Blocked(status')
    BY <1>2, <1>4 DEF IInv, QueueInv
  <2>4. waiters' \in [Sema -> Seq(Thread)] /\ \A r \in Sema : NoDuplicates(waiters'[r])
    BY <1>4 DEF IInv, QueueInv
  <2> QED BY <1>2, <1>4, <2>1, <2>2, <2>3, <2>4, UpKeepsQueues, SMTT(40)
<1>8. OwnerInv'
  <2>1. LockFreeOrOwned'
    BY <1>4, <1>6 DEF IInv, OwnerInv, LockFreeOrOwned
  <2>2. \A u \in Dead(status'), k \in Lock : holder'[k] # u
    BY <1>1, <1>2, <1>5 DEF IInv, OwnerInv
  <2>3. \A u \in Thread : pc'[u] = "release" => holder'[arg'[u]] = NULL
    <3> SUFFICES ASSUME NEW u \in Thread, pc'[u] = "release" PROVE holder'[arg'[u]] = NULL
      OBVIOUS
    <3>1. u # t /\ pc[u] = "release" /\ arg'[u] = arg[u] /\ arg[u] \in Lock
      BY <1>3 DEF AllThread, IInv, PcInv
    <3>2. arg[u] # l
      BY <1>4, <3>1 DEF Owns
    <3> QED BY <1>5, <3>1, <3>2 DEF IInv, OwnerInv
  <2> QED BY <1>5, <2>1, <2>2, <2>3 DEF OwnerInv
<1>9. DonorInv'
  <2>1. ASSUME NEW h \in Thread, NEW d \in Range(potential_donator'[h])
        PROVE  pc'[d] = "acquire" /\ waiting_lock'[d] = arg'[d] /\ Owns(h, arg[d])'
    <3>1. /\ d \in Thread /\ pc[d] = "acquire" /\ waiting_lock[d] = arg[d]
          /\ arg[d] \in Lock /\ Owns(h, arg[d])
      BY <2>1, Donor
    <3>2. arg[d] # l
      BY <1>4, <3>1
    <3>3. d # t
      BY <3>1, <3>2
    <3>4. pc'[d] = pc[d] /\ arg'[d] = arg[d] /\ waiting_lock'[d] = waiting_lock[d]
      BY <1>3, <3>1, <3>3 DEF AllThread
    <3>5. Owns(h, arg[d])'
      BY <1>6, <3>1, <3>2, <3>4 DEF Owns
    <3> QED BY <3>1, <3>4, <3>5
  <2> QED BY <2>1 DEF IInv, DonorInv, DonorsWaitForOwner
<1>10. PriorityInv'
  <2>1. \A u \in Thread, k \in Lock : Owns(u, k) => Owns(u, k)'
    BY <1>4, <1>6
  <2> QED BY <2>1 DEF IInv, PriorityInv, DonationEndsWithOwnership
<1> QED BY <1>2, <1>3, <1>7, <1>8, <1>9, <1>10 DEF IInv

\* The waiting branches of lock_acquire: a thread that finds a holder joins
\* that holder's donors as it starts to wait.
LEMMA LockAcquireInvariant ==
  ASSUME IInv, NEW t \in Thread, NEW l \in Lock, LockAcquire(t, l)
  PROVE  IInv'
<1>1. current = t /\ pc[t] = "run" /\ l \in Sema /\ holder[l] \in Thread \cup {NULL}
  BY DEF LockAcquire, At, Sema, IInv, OwnerInv
<1>2. waiting_lock' \in [Thread -> Lock \cup {NULL}]
  BY DEF LockAcquire, IInv, DonorInv
<1>3. CASE SemaTake(l) /\ holder' = [holder EXCEPT ![l] = t]
           /\ UNCHANGED <<sched, priority, origin_priority, pc, arg>>
  <2>1. holder[l] = NULL
    BY <1>3, FreeLock DEF SemaTake
  <2>2. UNCHANGED <<waiting_lock, potential_donator>>
    BY <2>1 DEF LockAcquire
  <2> QED BY <1>1, <1>2, <1>3, <2>2, TakeLock, Zenon
<1>4. CASE SemaWait(t, l, "acquire", waiting_lock') /\ UNCHANGED holder
  <2>1. "acquire" \in Waiting
    BY DEF Waiting
  <2>2. /\ SchedInv' /\ PcInv' /\ QueueInv'
        /\ Dead(status') = Dead(status)
        /\ priority' \in [Thread -> Pri]
        /\ \A u \in Thread : (\A k \in Lock : holder[k] # u) => priority'[u] = priority[u]
        /\ value' = value /\ origin_priority' = origin_priority
        /\ pc'[t] = "acquire" /\ arg'[t] = l
        /\ \A u \in AllThread : u # t => pc'[u] = pc[u] /\ arg'[u] = arg[u]
    BY <1>1, <1>2, <1>4, <2>1, SemaWaitStep
  <2>3. /\ OwnerInv' /\ PriorityInv'
        /\ \A u \in Thread, k \in Lock : Owns(u, k)' <=> Owns(u, k)
    BY <1>1, <1>4, <2>1, <2>2, WaitKeepsOwners
  <2>4. DonorInv'
    <3>1. CASE holder[l] = NULL
      <4>1. UNCHANGED <<waiting_lock, potential_donator>>
        BY <3>1 DEF LockAcquire
      <4>2. \A d \in Thread : pc[d] = "acquire" => pc'[d] = pc[d] /\ arg'[d] = arg[d]
        BY <1>1, <2>2 DEF AllThread
      <4> QED BY <2>3, <4>1, <4>2, SameDonors
    <3>2. CASE holder[l] # NULL
      <4> DEFINE h == holder[l]
                 q == list_insert_ordered(potential_donator[h], t, ByLockAddress(waiting_lock'))
      <4>1. /\ h \in Thread /\ Owns(h, l)
            /\ waiting_lock' = [waiting_lock EXCEPT ![t] = l]
            /\ potential_donator' = [potential_donator EXCEPT ![h] = q]
            /\ potential_donator \in [Thread -> Seq(Thread)]
        BY <1>1, <3>2 DEF LockAcquire, Owns, IInv, DonorInv
      <4>2. \A g \in Thread : NoDuplicates(potential_donator[g])
                               /\ t \notin Range(potential_donator[g])
        BY <1>1, Donor DEF IInv, DonorInv, DonorsWaitForOwner
      <4>3. q \in Seq(Thread) /\ NoDuplicates(q) /\ Range(q) = Range(potential_donator[h]) \cup {t}
        BY <4>1, <4>2, InsertOrderedElements
      <4> HIDE DEF q, h
      <4>4. /\ potential_donator' \in [Thread -> Seq(Thread)] /\ potential_donator'[h] = q
            /\ \A g \in Thread : g # h => potential_donator'[g] = potential_donator[g]
            /\ waiting_lock'[t] = l
            /\ \A u \in Thread : u # t => waiting_lock'[u] = waiting_lock[u]
        BY <4>1, <4>3 DEF IInv, DonorInv
      <4>5. \A g \in Thread : NoDuplicates(potential_donator'[g])
        BY <4>2, <4>3, <4>4, Zenon
      <4>6. ASSUME NEW g \in Thread, NEW d \in Range(potential_donator'[g])
            PROVE  pc'[d] = "acquire" /\ waiting_lock'[d] = arg'[d] /\ Owns(g, arg[d])'
        <5>1. CASE d = t
          <6>1. g = h
            BY <4>2, <4>4, <4>6, <5>1
          <6>2. Owns(g, arg[d])'
            BY <2>2, <2>3, <4>1, <5>1, <6>1 DEF Owns
          <6> QED BY <2>2, <4>4, <5>1, <6>2
        <5>2. CASE d # t
          <6>1. d \in Range(potential_donator[g])
            BY <4>3, <4>4, <4>6, <5>2, Zenon
          <6>2. /\ d \in Thread /\ pc[d] = "acquire" /\ waiting_lock[d] = arg[d]
                /\ arg[d] \in Lock /\ Owns(g, arg[d])
            BY <6>1, Donor
          <6>3. pc'[d] = pc[d] /\ arg'[d] = arg[d] /\ waiting_lock'[d] = waiting_lock[d]
            BY <2>2, <4>4, <5>2, <6>2 DEF AllThread
          <6>4. Owns(g, arg[d])'
            BY <2>3, <6>2, <6>3 DEF Owns
          <6> QED BY <6>2, <6>3, <6>4
        <5> QED BY <5>1, <5>2
      <4> QED BY <1>2, <4>4, <4>5, <4>6 DEF DonorInv, DonorsWaitForOwner
    <3> QED BY <3>1, <3>2
  <2> QED BY <2>2, <2>3, <2>4 DEF IInv
<1> QED BY <1>3, <1>4 DEF LockAcquire

LEMMA LockAcquireResumeInvariant ==
  ASSUME IInv, NEW t \in Thread, LockAcquireResume(t)
  PROVE  IInv'
<1> DEFINE l == arg[t]
<1>1. /\ current = t /\ pc[t] = "acquire" /\ l \in Lock /\ l \in Sema
      /\ UNCHANGED <<waiting_lock, potential_donator>>
      /\ waiting_lock \in [Thread -> Lock \cup {NULL}]
  BY DEF LockAcquireResume, At, Sema, IInv, PcInv, DonorInv
<1>2. CASE SemaTake(l) /\ holder' = [holder EXCEPT ![l] = t] /\ Goto(t, "run", NULL)
           /\ UNCHANGED <<sched, priority, origin_priority>>
  BY <1>1, <1>2, TakeLock, Zenon
<1>3. CASE SemaWait(t, l, "acquire", waiting_lock) /\ UNCHANGED holder
  <2>1. "acquire" \in Waiting
    BY DEF Waiting
  <2> HIDE DEF l
  <2>2. /\ SchedInv' /\ PcInv' /\ QueueInv'
        /\ Dead(status') = Dead(status)
        /\ priority' \in [Thread -> Pri]
        /\ \A u \in Thread : (\A k \in Lock : holder[k] # u) => priority'[u] = priority[u]
        /\ value' = value /\ origin_priority' = origin_priority
        /\ pc'[t] = "acquire" /\ arg'[t] = l
        /\ \A u \in AllThread : u # t => pc'[u] = pc[u] /\ arg'[u] = arg[u]
    BY <1>1, <1>3, <2>1, SemaWaitStep
  <2>3. /\ OwnerInv' /\ PriorityInv'
        /\ \A u \in Thread, k \in Lock : Owns(u, k)' <=> Owns(u, k)
    BY <1>1, <1>3, <2>1, <2>2, WaitKeepsOwners, SMTT(40)
  <2>4. \A d \in Thread : pc[d] = "acquire" => pc'[d] = pc[d] /\ arg'[d] = arg[d]
    BY <1>1, <2>2 DEF AllThread, l
  <2>5. DonorInv'
    BY <1>1, <2>3, <2>4, SameDonors
  <2> QED BY <2>2, <2>3, <2>5 DEF IInv
<1> QED BY <1>2, <1>3 DEF LockAcquireResume

LEMMA LockTryAcquireInvariant ==
  ASSUME IInv, NEW t \in Thread, NEW l \in Lock, LockTryAcquire(t, l)
  PROVE  IInv'
<1>1. /\ waiting_lock' \in [Thread -> Lock \cup {NULL}]
      /\ \A u \in Thread : u # t => waiting_lock'[u] = waiting_lock[u]
  BY DEF LockTryAcquire, IInv, DonorInv
<1> QED BY <1>1, TakeLock, Zenon DEF LockTryAcquire, At

\* The first part of lock_release moves the ownership from holder to label.
LEMMA LockReleaseInvariant ==
  ASSUME IInv, NEW t \in Thread, NEW l \in Lock, LockRelease(t, l)
  PROVE  IInv'
<1>1. /\ current = t /\ pc[t] = "run" /\ holder[l] = t
      /\ holder' = [holder EXCEPT ![l] = NULL] /\ Goto(t, "release", l)
      /\ UNCHANGED <<sched, priority, origin_priority, value, waiters, waiting_lock,
                     potential_donator>>
  BY DEF LockRelease, At
<1>2. t \notin Blocked(status) /\ t \notin Dead(status)
  BY <1>1, RunningThread DEF IInv
<1>3. SchedInv' /\ Blocked(status') = Blocked(status) /\ Dead(status') = Dead(status)
  BY <1>1 DEF IInv, SchedInv, sched, Consistent, RunsOnly
<1>4. /\ PcInv' /\ pc'[t] = "release" /\ arg'[t] = l
      /\ \A u \in AllThread : u # t => pc'[u] = pc[u] /\ arg'[u] = arg[u]
  BY <1>1, GotoStep DEF IInv, Sema
<1>5. /\ holder' \in [Lock -> Thread \cup {NULL}] /\ holder'[l] = NULL
      /\ \A k \in Lock : k # l => holder'[k] = holder[k]
  BY <1>1 DEF IInv, OwnerInv
<1>6. ASSUME NEW u \in Thread, NEW k \in Lock PROVE Owns(u, k)' <=> Owns(u, k)
  <2>1. CASE u = t
    BY <1>1, <1>4, <1>5, <2>1, ThreadsAssumption DEF Owns
  <2>2. CASE u # t
    BY <1>1, <1>4, <1>5, <2>2, ThreadsAssumption, SMTT(40) DEF Owns, AllThread
  <2> QED BY <2>1, <2>2
<1>7. QueueInv'
  <2>1. \A u \in Dead(status') : pc'[u] = "run"
    BY <1>2, <1>3, <1>4 DEF IInv, QueueInv, Dead, AllThread
  <2>2. \A u \in Blocked(status) : pc'[u] = pc[u] /\ arg'[u] = arg[u]
    BY <1>2, <1>4 DEF Blocked, AllThread
  <2> QED BY <1>1, <1>3, <2>1, <2>2, UpKeepsQueues, SMTT(40) DEF IInv, QueueInv
<1>8. OwnerInv'
  <2>1. LockFreeOrOwned'
    BY <1>1, <1>6 DEF IInv, OwnerInv, LockFreeOrOwned
  <2>2. \A u \in Dead(status'), k \in Lock : holder'[k] # u
    BY <1>3, <1>5, ThreadsAssumption DEF IInv, OwnerInv, Dead
  <2>3. ASSUME NEW u \in Thread, pc'[u] = "release" PROVE holder'[arg'[u]] = NULL
    <3>1. CASE u = t
      BY <1>4, <1>5, <3>1
    <3>2. CASE u # t
      <4>1. pc[u] = "release" /\ arg'[u] = arg[u] /\ arg[u] \in Lock
        BY <1>4, <2>3, <3>2 DEF AllThread, IInv, PcInv
      <4>2. holder[arg[u]] = NULL
        BY <4>1 DEF IInv, OwnerInv
      <4> QED BY <1>5, <4>1, <4>2
    <3> QED BY <3>1, <3>2
  <2> QED BY <1>5, <2>1, <2>2, <2>3 DEF OwnerInv
<1>9. DonorInv'
  <2>1. \A d \in Thread : pc[d] = "acquire" => pc'[d] = pc[d] /\ arg'[d] = arg[d]
    BY <1>1, <1>4 DEF AllThread
  <2> QED BY <1>1, <1>6, <2>1, SameDonors
<1>10. PriorityInv'
  BY <1>1, <1>6 DEF IInv, PriorityInv, DonationEndsWithOwnership
<1> QED BY <1>3, <1>4, <1>7, <1>8, <1>9, <1>10 DEF IInv

\* The second part gives back the donated priority and the lock.
LEMMA LockReleaseRestInvariant ==
  ASSUME IInv, NEW t \in Thread, LockReleaseRest(t)
  PROVE  IInv'
<1>0. PICK l \in Lock : l = arg[t]
  BY DEF LockReleaseRest, At, IInv, PcInv
<1>1. /\ current = t /\ pc[t] = "release" /\ l \in Lock /\ l \in Sema
      /\ sema_up(l, priority') /\ Goto(t, "run", NULL)
      /\ UNCHANGED <<origin_priority, holder, waiting_lock>>
      /\ holder[l] = NULL
  BY <1>0 DEF LockReleaseRest, At, Sema, IInv, OwnerInv
<1>2. PICK donors \in list_sort_keep(potential_donator[t],
                               {d \in Thread : waiting_lock[d] # l},
                               ByLockAddress(waiting_lock)) :
        /\ potential_donator' = [potential_donator EXCEPT ![t] = donors]
        /\ priority' = [priority EXCEPT ![t] =
                          IF donors # <<>> /\ priority[Head(donors)] > origin_priority[t]
                          THEN priority[Head(donors)] ELSE origin_priority[t]]
  BY <1>0, Zenon DEF LockReleaseRest, restore_priority
<1>3. t \notin Blocked(status) /\ t \notin Dead(status)
  BY <1>1, RunningThread DEF IInv
<1>4. /\ PcInv' /\ pc'[t] = "run"
      /\ \A u \in AllThread : u # t => pc'[u] = pc[u] /\ arg'[u] = arg[u]
  BY <1>1, GotoStep DEF IInv
<1>5. /\ SchedInv' /\ Dead(status') = Dead(status)
      /\ Blocked(status') \subseteq Blocked(status)
      /\ value' = [value EXCEPT ![l] = @ + 1] /\ value' \in [Sema -> Nat]
      /\ waiters' \in [Sema -> Seq(Thread)]
      /\ \A r \in Sema : NoDuplicates(waiters'[r])
      /\ \A u \in Thread, r \in Sema :
           u \in Range(waiters'[r]) <=> u \in Range(waiters[r]) /\ u \in Blocked(status')
  BY <1>1, SemaUpStep
<1>6. QueueInv'
  <2>1. \A u \in Dead(status') : pc'[u] = "run"
    BY <1>3, <1>4, <1>5, SMTT(40) DEF IInv, QueueInv, Dead, AllThread
  <2>2. \A u \in Blocked(status) : pc'[u] = pc[u] /\ arg'[u] = arg[u]
    BY <1>3, <1>4 DEF Blocked, AllThread
  <2> QED BY <1>5, <2>1, <2>2, UpKeepsQueues, SMTT(40)
<1>7. /\ Owns(t, l) /\ value[l] = 0
      /\ \A u \in Thread : Owns(u, l) => u = t
  <2>1. Owns(t, l)
    BY <1>0, <1>1 DEF Owns
  <2> QED BY <1>1, <2>1, FreeLock, SMTT(40)
<1>8. /\ \A u \in Thread : ~Owns(u, l)'
      /\ \A u \in Thread, k \in Lock : k # l => (Owns(u, k)' <=> Owns(u, k))
  <2>1. ASSUME NEW u \in Thread PROVE ~Owns(u, l)'
    <3>1. CASE u = t
      BY <1>1, <1>4, <3>1, ThreadsAssumption, SMTT(40) DEF Owns
    <3>2. CASE u # t
      <4>1. ~Owns(u, l)
        BY <1>7, <3>2
      <4>2. pc'[u] = pc[u] /\ arg'[u] = arg[u]
        BY <1>4, <3>2 DEF AllThread
      <4> QED BY <1>1, <4>1, <4>2 DEF Owns
    <3> QED BY <3>1, <3>2
  <2>2. ASSUME NEW u \in Thread, NEW k \in Lock, k # l PROVE Owns(u, k)' <=> Owns(u, k)
    <3>1. CASE u = t
      BY <1>0, <1>1, <1>4, <2>2, <3>1, SMTT(40) DEF Owns
    <3>2. CASE u # t
      BY <1>1, <1>4, <3>2, SMTT(40) DEF Owns, AllThread
    <3> QED BY <3>1, <3>2
  <2> QED BY <2>1, <2>2
<1>9. OwnerInv'
  <2>1. value'[l] = 1 /\ \A k \in Lock : k # l => value'[k] = value[k]
    <3>1. value \in [Sema -> Nat] /\ l \in Sema /\ Lock \subseteq Sema
      BY <1>1, Zenon DEF IInv, QueueInv, Sema
    <3>2. value' = [value EXCEPT ![l] = value[l] + 1] /\ value[l] = 0
      BY <1>5, <1>7, SMTT(40)
    <3> QED BY <3>1, <3>2
  <2>2. LockFreeOrOwned'
    BY <1>8, <2>1, SMTT(40) DEF IInv, OwnerInv, LockFreeOrOwned
  <2>3. ASSUME NEW u \in Thread, pc'[u] = "release" PROVE holder'[arg'[u]] = NULL
    <3>1. u # t /\ pc[u] = "release" /\ arg'[u] = arg[u]
      BY <1>4, <2>3, SMTT(40) DEF AllThread
    <3> QED BY <1>1, <3>1, SMTT(40) DEF IInv, OwnerInv
  <2> QED BY <1>1, <1>5, <2>2, <2>3 DEF IInv, OwnerInv
<1>10. /\ donors \in Seq(Thread) /\ NoDuplicates(donors)
       /\ Range(donors) = Range(potential_donator[t]) \cap {d \in Thread : waiting_lock[d] # l}
  <2>1. potential_donator[t] \in Seq(Thread) /\ NoDuplicates(potential_donator[t])
    BY DEF IInv, DonorInv, DonorsWaitForOwner
  <2> QED BY <2>1, SortKeepElements, SMTT(40)
<1>11. /\ potential_donator' \in [Thread -> Seq(Thread)] /\ potential_donator'[t] = donors
       /\ \A h \in Thread : h # t => potential_donator'[h] = potential_donator[h]
  BY <1>2, <1>10, SMTT(40) DEF IInv, DonorInv
<1>12. ASSUME NEW h \in Thread, NEW d \in Range(potential_donator'[h])
       PROVE  /\ pc'[d] = "acquire" /\ waiting_lock'[d] = arg'[d] /\ Owns(h, arg[d])'
              /\ \E k \in Lock : Owns(h, k)'
  <2>1. d \in Range(potential_donator[h]) /\ (h = t => waiting_lock[d] # l)
    BY <1>10, <1>11, <1>12, SMTT(40)
  <2>2. /\ d \in Thread /\ pc[d] = "acquire" /\ waiting_lock[d] = arg[d]
        /\ arg[d] \in Lock /\ Owns(h, arg[d])
    BY <2>1, Donor
  <2>3. arg[d] # l
    BY <1>7, <2>1, <2>2, SMTT(40)
  <2>4. pc'[d] = pc[d] /\ arg'[d] = arg[d]
    BY <1>1, <1>4, <2>2, SMTT(40) DEF AllThread
  <2>5. PICK k \in Lock : k = arg[d]
    BY <2>2, SMTT(40)
  <2>6. Owns(h, k)'
    BY <1>8, <2>2, <2>3, <2>5, SMTT(40)
  <2>7. Owns(h, arg[d])'
    BY <2>4, <2>5, <2>6, SMTT(40) DEF Owns
  <2>8. pc'[d] = "acquire" /\ waiting_lock'[d] = arg'[d]
    <3>1. waiting_lock' = waiting_lock
      BY <1>1, Zenon
    <3> QED BY <2>2, <2>4, <3>1, Zenon
  <2>9. \E j \in Lock : Owns(h, j)'
    BY <2>6, Zenon
  <2> QED BY <2>7, <2>8, <2>9, Zenon
<1>13. DonorInv'
  <2>1. \A h \in Thread : NoDuplicates(potential_donator'[h])
    BY <1>10, <1>11, ZenonT(40) DEF IInv, DonorInv, DonorsWaitForOwner
  <2> QED BY <1>1, <1>11, <1>12, <2>1, SMTT(40) DEF IInv, DonorInv, DonorsWaitForOwner
<1>14. PriorityInv'
  <2>1. donors # <<>> => Head(donors) \in Thread /\ Head(donors) \in Range(donors)
    BY <1>10, TailElements, SMTT(40)
  <2>2. /\ priority' \in [Thread -> Pri]
        /\ \A u \in Thread : u # t => priority'[u] = priority[u]
        /\ donors = <<>> => priority'[t] = origin_priority[t]
    BY <1>2, <2>1, SMTT(40) DEF IInv, PriorityInv
  <2>3. ASSUME NEW u \in Thread, \A k \in Lock : ~Owns(u, k)'
        PROVE  priority'[u] = origin_priority'[u]
    <3>1. CASE u = t
      <4>1. donors = <<>>
        BY <1>11, <1>12, <2>1, <2>3, <3>1, SMTT(40)
      <4> QED BY <1>1, <2>2, <3>1, <4>1, SMTT(40)
    <3>2. CASE u # t
      <4>1. \A k \in Lock : ~Owns(u, k)
        BY <1>7, <1>8, <2>3, <3>2
      <4> QED BY <1>1, <2>2, <3>2, <4>1, SMTT(40) DEF IInv, PriorityInv, DonationEndsWithOwnership
    <3> QED BY <3>1, <3>2, SMTT(40)
  <2> QED BY <1>1, <2>2, <2>3 DEF IInv, PriorityInv, DonationEndsWithOwnership
<1> QED BY <1>4, <1>5, <1>6, <1>9, <1>13, <1>14 DEF IInv
-----------------------------------------------------------------------------
\* Every step of the specification preserves the invariant.
LEMMA NextInvariant ==
  ASSUME IInv, [Next]_vars
  PROVE  IInv'
<1>1. ASSUME NEW t \in Thread, ThreadStep(t) PROVE IInv'
  <2>1. ASSUME NEW s \in Semaphore, SemaDown(t, s) \/ SemaTryDown(t, s) PROVE IInv'
    BY <2>1, SemaDownInvariant
  <2>2. ASSUME SemaDownResume(t) PROVE IInv'
    <3>1. arg[t] \in Semaphore
      BY <2>2 DEF SemaDownResume, At, IInv, PcInv
    <3> QED BY <2>2, <3>1, SemaDownInvariant
  <2>3. ASSUME NEW s \in Semaphore, SemaUp(t, s) PROVE IInv'
    BY <2>3, SemaUpInvariant
  <2>4. ASSUME NEW l \in Lock, LockAcquire(t, l) \/ LockTryAcquire(t, l) \/ LockRelease(t, l)
        PROVE  IInv'
    BY <2>4, LockAcquireInvariant, LockTryAcquireInvariant, LockReleaseInvariant
  <2>5. ASSUME LockAcquireResume(t) \/ LockReleaseRest(t) PROVE IInv'
    BY <2>5, LockAcquireResumeInvariant, LockReleaseRestInvariant
  <2>6. ASSUME NEW n \in Thread, NEW p \in Pri, ThreadCreate(t, n, p) PROVE IInv'
    BY <2>6, ThreadCreateInvariant
  <2>7. ASSUME \/ ThreadCreateYield(t) \/ ThreadYield(t)
               \/ \E p \in Pri : ThreadSetPriority(t, p)
        PROVE  IInv'
    BY <2>7, ThreadInvariant
  <2>8. ASSUME ThreadExit(t) PROVE IInv'
    BY <2>8, ThreadExitInvariant
  <2> QED BY <1>1, <2>1, <2>2, <2>3, <2>4, <2>5, <2>6, <2>7, <2>8, SMTT(40) DEF ThreadStep
<1>2. ASSUME Idle \/ TimerTick PROVE IInv'
  BY <1>2, IdleInvariant, SMTT(40)
<1>3. ASSUME UNCHANGED vars PROVE IInv'
  BY <1>3 DEF vars, sched, synch, IInv, SchedInv, Consistent, RunsOnly, PcInv, QueueInv,
     Blocked, Dead, OwnerInv, LockFreeOrOwned, Owns, DonorInv, DonorsWaitForOwner,
     PriorityInv, DonationEndsWithOwnership
<1> QED BY <1>1, <1>2, <1>3 DEF Next

\* The inductive invariant holds of every reachable state.
THEOREM InvariantHolds == Spec => []IInv
<1>1. SynchInit => IInv
  BY InitInvariant
<1>2. IInv /\ [Next]_vars => IInv'
  BY NextInvariant
<1> QED BY <1>1, <1>2, PTL DEF Spec

\* The state of threads, semaphores and locks is well-formed.
THEOREM SynchTypeCorrect == Spec => []TypeOK
<1>1. IInv => TypeOK
  BY InvariantImplies
<1> QED BY <1>1, InvariantHolds, PTL

\* list_elem discipline of struct thread: the run queue and the wait lists
\* hold exactly the ready and the waiting threads, each once.
THEOREM ListDiscipline == Spec => []ElemOnOneList
<1>1. IInv => ElemOnOneList
  BY InvariantImplies
<1> QED BY <1>1, InvariantHolds, PTL

\* lock_acquire, lock_try_acquire and lock_release give a lock to at most one
\* thread and never lose one.
THEOREM MutualExclusion == Spec => []LockFreeOrOwned
<1>1. IInv => LockFreeOrOwned
  BY InvariantImplies
<1> QED BY <1>1, InvariantHolds, PTL

\* Every registered donor waits for a lock of the thread it is registered with.
THEOREM DonorsAreWaiting == Spec => []DonorsWaitForOwner
<1>1. IInv => DonorsWaitForOwner
  BY InvariantImplies
<1> QED BY <1>1, InvariantHolds, PTL

\* lock_release returns every donated priority.
THEOREM DonationIsReturned == Spec => []DonationEndsWithOwnership
<1>1. IInv => DonationEndsWithOwnership
  BY InvariantImplies
<1> QED BY <1>1, InvariantHolds, PTL
=============================================================================
