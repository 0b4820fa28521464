-------------------------- MODULE SynchInvariant --------------------------
(***************************************************************************)
(* The safety of semaphores, locks and priority donation, for any number   *)
(* of threads, semaphores, locks and priority levels.                      *)
(*                                                                         *)
(* The inductive invariant adds to the properties of module Synch what the *)
(* code relies on without saying it: a page that holds no live thread owns *)
(* no lock and is in no call, and the argument kept across a context       *)
(* switch is of the kind that the call is about.                           *)
(***************************************************************************)
EXTENDS Synch, ThreadsProofs

PcInv ==
  /\ pc \in [AllThread -> {"run", "create", "down", "acquire", "release", "hlt", "loop"}]
  /\ arg \in [AllThread -> Sema \cup Pri \cup {NULL}]
  /\ \A t \in Thread : /\ pc[t] \notin {"hlt", "loop"}
                       /\ pc[t] = "down" => arg[t] \in Semaphore
                       /\ pc[t] \in {"acquire", "release"} => arg[t] \in Lock
  /\ pc[idle_thread] \in {"hlt", "loop"}

QueueInv ==
  /\ value \in [Sema -> Nat]
  /\ waiters \in [Sema -> Seq(Thread)]
  /\ \A s \in Sema : NoDuplicates(waiters[s])
  /\ \A t \in Thread, s \in Sema :
       t \in Range(waiters[s])
         <=> t \in Blocked(status) /\ pc[t] \in Waiting /\ arg[t] = s
  /\ \A t \in Blocked(status) : pc[t] \in Waiting
  /\ \A t \in Dead(status) : pc[t] = "run"

OwnerInv ==
  /\ holder \in [Lock -> Thread \cup {NULL}]
  /\ LockFreeOrOwned
  /\ \A t \in Dead(status), l \in Lock : holder[l] # t
  /\ \A t \in Thread : pc[t] = "release" => holder[arg[t]] = NULL

DonorInv ==
  /\ waiting_lock \in [Thread -> Lock \cup {NULL}]
  /\ potential_donator \in [Thread -> Seq(Thread)]
  /\ DonorsWaitForOwner

PriorityInv ==
  /\ priority \in [Thread -> Pri]
  /\ origin_priority \in [Thread -> Pri]
  /\ DonationEndsWithOwnership

IInv == SchedInv /\ PcInv /\ QueueInv /\ OwnerInv /\ DonorInv /\ PriorityInv
-----------------------------------------------------------------------------
\* The inductive invariant implies the properties that the runs check.
LEMMA InvariantImplies ==
  ASSUME IInv
  PROVE  TypeOK /\ ElemOnOneList /\ LockFreeOrOwned /\ DonorsWaitForOwner
         /\ DonationEndsWithOwnership
<1>1. TypeOK
  BY DEF IInv, SchedInv, Consistent, PcInv, QueueInv, OwnerInv, DonorInv, PriorityInv,
         TypeOK, ThreadsTypeOK
<1>2. ElemOnOneList
  BY DEF IInv, SchedInv, Consistent, RunsOnly, PcInv, QueueInv, Blocked, ElemOnOneList,
         Waiting, Sema
<1> QED BY <1>1, <1>2 DEF IInv, OwnerInv, DonorInv, PriorityInv

\* The initial state satisfies the invariant.
LEMMA InitInvariant ==
  ASSUME SynchInit
  PROVE  IInv
<1>1. SchedInv /\ Blocked(status) = {} /\ priority \in [Thread -> Pri] /\ origin_priority = priority
  BY SchedInit DEF SynchInit
<1>2. PcInv
  BY ThreadsAssumption DEF SynchInit, ThreadsInit, PcInv, AllThread
<1>3. /\ \A t \in Thread : pc[t] = "run"
      /\ \A l \in Lock : holder[l] = NULL /\ value[l] = 1
      /\ \A t \in Thread, l \in Lock : ~Owns(t, l)
  BY ThreadsAssumption DEF SynchInit, ThreadsInit, AllThread, Owns, Sema
<1>4. Range(<<>>) = {} /\ NoDuplicates(<<>>) /\ <<>> \in Seq(Thread)
  BY DEF Range, NoDuplicates
<1>5. QueueInv
  <2>1. value \in [Sema -> Nat] /\ waiters \in [Sema -> Seq(Thread)]
    BY <1>4 DEF SynchInit
  <2>2. \A s \in Sema : waiters[s] = <<>>
    BY DEF SynchInit
  <2> QED BY <1>1, <1>3, <1>4, <2>1, <2>2 DEF QueueInv, Blocked, Dead
<1>6. OwnerInv
  <2>1. holder \in [Lock -> Thread \cup {NULL}]
    BY DEF SynchInit
  <2> QED BY <1>3, <2>1, ThreadsAssumption DEF OwnerInv, LockFreeOrOwned, Dead
<1>7. DonorInv
  <2>1. /\ waiting_lock \in [Thread -> Lock \cup {NULL}]
        /\ potential_donator \in [Thread -> Seq(Thread)]
        /\ \A t \in Thread : potential_donator[t] = <<>>
    BY <1>4 DEF SynchInit
  <2> QED BY <1>4, <2>1 DEF DonorInv, DonorsWaitForOwner
<1>8. PriorityInv
  BY <1>1 DEF PriorityInv, DonationEndsWithOwnership
<1> QED BY <1>1, <1>2, <1>5, <1>6, <1>7, <1>8 DEF IInv

\* The thread on the CPU is neither blocked nor dead.
LEMMA RunningThread ==
  ASSUME SchedInv, NEW t \in Thread, current = t
  PROVE  t \notin Blocked(status) /\ t \notin Dead(status)
BY DEF SchedInv, RunsOnly, Blocked, Dead, AllThread

\* donate_priority keeps priorities in range and raises only lock holders.
LEMMA DonateKeepsOthers ==
  ASSUME NEW wl, holder \in [Lock -> Thread \cup {NULL}], wl \in [Thread -> Lock \cup {NULL}],
         priority \in [Thread -> Pri], NEW t \in Thread
  PROVE  /\ donate_priority(t, wl) \in [Thread -> Pri]
         /\ \A u \in Thread : (\A l \in Lock : holder[l] # u)
                                => donate_priority(t, wl)[u] = priority[u]
<1> DEFINE D(S) == Donees(S, wl, priority[t])
           Q(S) == S \subseteq Thread /\ \A u \in S : u = t \/ \E l \in Lock : holder[l] = u
           S2 == D(D({t}))
           S4 == D(D(S2))
           S6 == D(D(S4))
           S8 == D(D(S6))
<1>1. ASSUME NEW S, Q(S) PROVE Q(D(S))
  BY <1>1 DEF Donees
<1>2. Q({t})
  OBVIOUS
<1> HIDE DEF Q
<1>3. Q(S2)
  BY <1>1, <1>2
<1> HIDE DEF S2
<1>4. Q(S4)
  BY <1>1, <1>3
<1> HIDE DEF S4
<1>5. Q(S6)
  BY <1>1, <1>4
<1> HIDE DEF S6
<1>6. Q(S8)
  BY <1>1, <1>5
<1> HIDE DEF S8
<1>7. donate_priority(t, wl) = [u \in Thread |-> IF u \in S8 THEN priority[t] ELSE priority[u]]
  BY DEF donate_priority, S2, S4, S6, S8
<1> QED BY <1>6, <1>7 DEF Q

\* A thread that waits in sema_down joins the semaphore's queue, blocked.
LEMMA SemaWaitStep ==
  ASSUME IInv, NEW t \in Thread, current = t, NEW s \in Sema,
         NEW lbl \in Waiting, IF lbl = "down" THEN s \in Semaphore ELSE s \in Lock,
         NEW wl, wl \in [Thread -> Lock \cup {NULL}],
         SemaWait(t, s, lbl, wl)
  PROVE  /\ SchedInv' /\ PcInv' /\ QueueInv'
         /\ Dead(status') = Dead(status)
         /\ priority' \in [Thread -> Pri]
         /\ \A u \in Thread : (\A l \in Lock : holder[l] # u) => priority'[u] = priority[u]
         /\ value' = value /\ origin_priority' = origin_priority
         /\ pc'[t] = lbl /\ arg'[t] = s
         /\ \A u \in AllThread : u # t => pc'[u] = pc[u] /\ arg'[u] = arg[u]
<1>1. /\ priority' \in [Thread -> Pri]
      /\ \A u \in Thread : (\A l \in Lock : holder[l] # u) => priority'[u] = priority[u]
  BY DonateKeepsOthers DEF SemaWait, IInv, OwnerInv, PriorityInv
<1>2. /\ SchedInv' /\ Dead(status') = Dead(status)
      /\ Blocked(status') = Blocked(status) \cup {t}
  BY BlockStep DEF SemaWait, IInv
<1>3. t \notin Blocked(status) /\ t \notin Dead(status)
  BY RunningThread DEF IInv
<1>4. /\ pc' = [pc EXCEPT ![t] = lbl] /\ arg' = [arg EXCEPT ![t] = s]
      /\ waiters' = [waiters EXCEPT ![s] = Append(waiters[s], t)]
      /\ value' = value /\ origin_priority' = origin_priority
  BY DEF SemaWait, Goto
<1>5. /\ pc'[t] = lbl /\ arg'[t] = s
      /\ \A u \in AllThread : u # t => pc'[u] = pc[u] /\ arg'[u] = arg[u]
  BY <1>4 DEF IInv, PcInv, AllThread
<1>6. PcInv'
  <2>1. /\ pc' \in [AllThread -> {"run", "create", "down", "acquire", "release", "hlt", "loop"}]
        /\ arg' \in [AllThread -> Sema \cup Pri \cup {NULL}]
    BY <1>4 DEF IInv, PcInv, Waiting, AllThread
  <2> QED BY <1>5, <2>1, ThreadsAssumption DEF IInv, PcInv, Waiting, AllThread
<1>7. /\ waiters[s] \in Seq(Thread) /\ NoDuplicates(waiters[s]) /\ t \notin Range(waiters[s])
      /\ waiters \in [Sema -> Seq(Thread)]
  BY <1>3 DEF IInv, QueueInv
<1>8. /\ waiters'[s] \in Seq(Thread) /\ NoDuplicates(waiters'[s])
      /\ Range(waiters'[s]) = Range(waiters[s]) \cup {t}
      /\ \A r \in Sema : r # s => waiters'[r] = waiters[r]
      /\ waiters' \in [Sema -> Seq(Thread)]
  BY <1>4, <1>7, AppendElements
<1>9. QueueInv'
  <2>1. ASSUME NEW u \in Thread, NEW r \in Sema
        PROVE  u \in Range(waiters'[r])
                 <=> u \in Blocked(status') /\ pc'[u] \in Waiting /\ arg'[u] = r
    <3>1. u \in Range(waiters[r])
            <=> u \in Blocked(status) /\ pc[u] \in Waiting /\ arg[u] = r
      BY DEF IInv, QueueInv
    <3>2. CASE u = t
      BY <1>2, <1>3, <1>5, <1>8, <3>1, <3>2, SMTT(40)
    <3>3. CASE u # t
      <4>1. u \in Range(waiters'[r]) <=> u \in Range(waiters[r])
        BY <1>8, <3>3
      <4>2. pc'[u] = pc[u] /\ arg'[u] = arg[u]
        BY <1>5, <3>3 DEF AllThread
      <4> QED BY <1>2, <3>1, <3>3, <4>1, <4>2
    <3> QED BY <3>2, <3>3
  <2>2. \A r \in Sema : NoDuplicates(waiters'[r])
    BY <1>8, Zenon DEF IInv, QueueInv
  <2>3. \A u \in Blocked(status') : pc'[u] \in Waiting
    BY <1>2, <1>5, Zenon DEF IInv, QueueInv, AllThread, Blocked
  <2>4. \A u \in Dead(status') : pc'[u] = "run"
    BY <1>2, <1>3, <1>5 DEF IInv, QueueInv, AllThread, Dead
  <2> QED BY <1>4, <1>8, <2>1, <2>2, <2>3, <2>4 DEF IInv, QueueInv, Waiting
<1> QED BY <1>1, <1>2, <1>4, <1>5, <1>6, <1>9, SMTT(40)

\* sema_up frees at most one waiter, and only from its own queue.
LEMMA SemaUpStep ==
  ASSUME IInv, NEW s \in Sema, NEW pri, sema_up(s, pri)
  PROVE  /\ SchedInv' /\ Dead(status') = Dead(status)
         /\ Blocked(status') \subseteq Blocked(status)
         /\ value' = [value EXCEPT ![s] = @ + 1] /\ value' \in [Sema -> Nat]
         /\ waiters' \in [Sema -> Seq(Thread)]
         /\ \A r \in Sema : NoDuplicates(waiters'[r])
         /\ \A u \in Thread, r \in Sema :
              u \in Range(waiters'[r]) <=> u \in Range(waiters[r]) /\ u \in Blocked(status')
<1>0. /\ value' = [value EXCEPT ![s] = @ + 1] /\ value \in [Sema -> Nat]
      /\ waiters \in [Sema -> Seq(Thread)]
      /\ \A r \in Sema : NoDuplicates(waiters[r])
      /\ \A u \in Thread, r \in Sema : u \in Range(waiters[r]) => u \in Blocked(status)
      /\ \A u \in Thread, r, q \in Sema :
           u \in Range(waiters[r]) /\ u \in Range(waiters[q]) => r = q
  <2>1. value' = [value EXCEPT ![s] = @ + 1]
    BY DEF sema_up
  <2>2. QueueInv
    BY DEF IInv
  <2>3. /\ value \in [Sema -> Nat] /\ waiters \in [Sema -> Seq(Thread)]
        /\ \A r \in Sema : NoDuplicates(waiters[r])
    BY <2>2 DEF QueueInv
  <2>4. \A u \in Thread, r \in Sema :
          u \in Range(waiters[r]) => u \in Blocked(status) /\ arg[u] = r
    BY <2>2, Zenon DEF QueueInv
  <2> QED BY <2>1, <2>3, <2>4, Zenon
<1>1. value' \in [Sema -> Nat]
  BY <1>0
<1>2. CASE waiters[s] = <<>>
  <2>1. UNCHANGED <<waiters, sched>>
    BY <1>2 DEF sema_up
  <2>2. SchedInv' /\ Blocked(status') = Blocked(status) /\ Dead(status') = Dead(status)
    BY <2>1 DEF IInv, SchedInv, sched, Consistent, RunsOnly
  <2> QED BY <1>0, <1>1, <2>1, <2>2 DEF sched
<1>3. CASE waiters[s] # <<>>
  <2>1. PICK q \in list_sort(waiters[s], ByPriority(pri)) :
          waiters' = [waiters EXCEPT ![s] = Tail(q)] /\ thread_unblock(Head(q), pri)
    BY <1>3 DEF sema_up
  <2>2. /\ q \in Seq(Thread) /\ Range(q) = Range(waiters[s]) /\ NoDuplicates(q) /\ q # <<>>
    BY <1>0, <1>3, SortElements
  <2> DEFINE w == Head(q)
  <2>3. /\ w \in Thread /\ w \in Range(waiters[s]) /\ Tail(q) \in Seq(Thread)
        /\ Range(Tail(q)) = Range(waiters[s]) \ {w} /\ NoDuplicates(Tail(q))
    BY <2>2, TailElements
  <2> HIDE DEF w
  <2>4. /\ SchedInv' /\ Blocked(status') = Blocked(status) \ {w}
        /\ Dead(status') = Dead(status) \ {w}
    <3>1. status[w] = "BLOCKED"
      BY <1>0, <2>3 DEF Blocked
    <3> QED BY <2>1, <2>3, <3>1, UnblockStep DEF w, IInv
  <2>5. w \notin Dead(status)
    BY <1>0, <2>3 DEF Blocked, Dead
  <2>6. /\ waiters' \in [Sema -> Seq(Thread)] /\ waiters'[s] = Tail(q)
        /\ \A r \in Sema : r # s => waiters'[r] = waiters[r]
    BY <1>0, <2>1, <2>3
  <2>7. \A r \in Sema : NoDuplicates(waiters'[r])
    BY <1>0, <2>3, <2>6, Zenon
  <2>8. ASSUME NEW u \in Thread, NEW r \in Sema
        PROVE  u \in Range(waiters'[r]) <=> u \in Range(waiters[r]) /\ u \in Blocked(status')
    BY <1>0, <2>3, <2>4, <2>6, Zenon
  <2> QED BY <1>0, <1>1, <2>4, <2>5, <2>6, <2>7, <2>8
<1> QED BY <1>2, <1>3
-----------------------------------------------------------------------------
\* The members of a potential_donator list are threads in lock_acquire.
LEMMA Donor ==
  ASSUME IInv, NEW h \in Thread, NEW d \in Range(potential_donator[h])
  PROVE  /\ d \in Thread /\ pc[d] = "acquire" /\ arg[d] \in Lock
         /\ waiting_lock[d] = arg[d] /\ Owns(h, arg[d])
<1>1. potential_donator[h] \in Seq(Thread)
  BY DEF IInv, DonorInv
<1>2. \E i \in 1..Len(potential_donator[h]) : d = potential_donator[h][i]
  BY <1>1, InRange
<1>3. d \in Thread
  BY <1>1, <1>2
<1> QED BY <1>3 DEF IInv, PcInv, DonorInv, DonorsWaitForOwner

\* Steps that change the owner of no lock.
LEMMA SameOwners ==
  ASSUME OwnerInv, holder' = holder,
         \A t \in Thread, l \in Lock : Owns(t, l)' <=> Owns(t, l),
         \A l \in Lock : value'[l] = value[l],
         \A t \in Dead(status'), l \in Lock : holder[l] # t,
         \A t \in Thread : pc'[t] = "release" => pc[t] = "release" /\ arg'[t] = arg[t]
  PROVE  OwnerInv'
<1>1. LockFreeOrOwned'
  BY DEF OwnerInv, LockFreeOrOwned
<1> QED BY <1>1 DEF OwnerInv

\* Steps that change no donation list, no donor and take no lock away.
LEMMA SameDonors ==
  ASSUME IInv, UNCHANGED <<waiting_lock, potential_donator>>,
         \A d \in Thread : pc[d] = "acquire" => pc'[d] = pc[d] /\ arg'[d] = arg[d],
         \A h \in Thread, l \in Lock : Owns(h, l) => Owns(h, l)'
  PROVE  DonorInv'
<1>1. ASSUME NEW h \in Thread, NEW d \in Range(potential_donator'[h])
      PROVE  pc'[d] = "acquire" /\ waiting_lock'[d] = arg'[d] /\ Owns(h, arg[d])'
  <2>1. /\ d \in Thread /\ pc[d] = "acquire" /\ waiting_lock[d] = arg[d]
        /\ arg[d] \in Lock /\ Owns(h, arg[d])
    BY <1>1, Donor
  <2>2. pc'[d] = pc[d] /\ arg'[d] = arg[d]
    BY <2>1
  <2>3. Owns(h, arg[d])'
    BY <2>1, <2>2 DEF Owns
  <2> QED BY <2>1, <2>2, <2>3
<1> QED BY <1>1 DEF IInv, DonorInv, DonorsWaitForOwner

\* Steps in which threads move only outside the parts of lock_acquire and
\* lock_release that the invariants speak of, and queues do not change.
LEMMA QuietStep ==
  ASSUME IInv, SchedInv', PcInv', Blocked(status') = Blocked(status),
         \A u \in Dead(status') : pc'[u] = "run" /\ \A l \in Lock : holder[l] # u,
         \A u \in Thread :
           \/ pc'[u] = pc[u] /\ arg'[u] = arg[u]
           \/ /\ u \notin Blocked(status)
              /\ pc[u] \notin {"acquire", "release"} /\ pc'[u] \notin {"acquire", "release"},
         value' \in [Sema -> Nat], \A l \in Lock : value'[l] = value[l],
         UNCHANGED <<waiters, holder, waiting_lock, potential_donator>>,
         priority' \in [Thread -> Pri], origin_priority' \in [Thread -> Pri],
         \A u \in Thread : priority[u] = origin_priority[u] => priority'[u] = origin_priority'[u]
  PROVE  IInv'
<1>1. \A t \in Thread, l \in Lock : Owns(t, l)' <=> Owns(t, l)
  BY DEF Owns
<1>2. QueueInv'
  <2>1. \A u \in Blocked(status) : u \in Thread
    BY DEF Blocked
  <2>2. \A u \in Thread, r \in Sema : u \in Range(waiters'[r])
          <=> u \in Blocked(status') /\ pc'[u] \in Waiting /\ arg'[u] = r
    BY ZenonT(40) DEF IInv, QueueInv
  <2>3. \A u \in Blocked(status') : pc'[u] \in Waiting
    BY <2>1 DEF IInv, QueueInv
  <2> QED BY <2>2, <2>3 DEF IInv, QueueInv, Waiting
<1>3. OwnerInv'
  BY <1>1, SameOwners DEF IInv
<1>4. DonorInv'
  BY <1>1, SameDonors
<1>5. PriorityInv'
  BY <1>1 DEF IInv, PriorityInv, DonationEndsWithOwnership
<1> QED BY <1>2, <1>3, <1>4, <1>5 DEF IInv

\* Waiting in sema_down leaves lock owners and their priorities in order.
LEMMA WaitKeepsOwners ==
  ASSUME IInv, NEW t \in Thread, pc[t] # "release", pc'[t] \in Waiting,
         \A u \in AllThread : u # t => pc'[u] = pc[u] /\ arg'[u] = arg[u],
         holder' = holder, value' = value, Dead(status') = Dead(status),
         priority' \in [Thread -> Pri], origin_priority' = origin_priority,
         \A u \in Thread : (\A l \in Lock : holder[l] # u) => priority'[u] = priority[u]
  PROVE  /\ OwnerInv' /\ PriorityInv'
         /\ \A u \in Thread, l \in Lock : Owns(u, l)' <=> Owns(u, l)
<1>1. \A u \in Thread, l \in Lock : Owns(u, l)' <=> Owns(u, l)
  BY DEF Owns, AllThread, Waiting
<1>2. OwnerInv'
  BY <1>1, SameOwners DEF IInv, OwnerInv, AllThread, Waiting
<1>3. \A u \in Thread : (\A l \in Lock : ~Owns(u, l)) => \A l \in Lock : holder[l] # u
  BY DEF Owns
<1>4. PriorityInv'
  BY <1>1, <1>3 DEF IInv, PriorityInv, DonationEndsWithOwnership
<1> QED BY <1>1, <1>2, <1>4
-----------------------------------------------------------------------------
\* A label change of the running thread keeps the labels well-formed.
LEMMA GotoStep ==
  ASSUME PcInv, NEW t \in Thread, NEW lbl \in {"run", "create", "down", "acquire", "release"},
         NEW a \in Sema \cup Pri \cup {NULL}, Goto(t, lbl, a),
         lbl = "down" => a \in Semaphore, lbl \in {"acquire", "release"} => a \in Lock
  PROVE  /\ PcInv' /\ pc'[t] = lbl /\ arg'[t] = a
         /\ \A u \in AllThread : u # t => pc'[u] = pc[u] /\ arg'[u] = arg[u]
<1>1. pc' = [pc EXCEPT ![t] = lbl] /\ arg' = [arg EXCEPT ![t] = a]
  BY DEF Goto
<1>2. /\ pc' \in [AllThread -> {"run", "create", "down", "acquire", "release", "hlt", "loop"}]
      /\ arg' \in [AllThread -> Sema \cup Pri \cup {NULL}]
  BY <1>1, Zenon DEF PcInv
<1>3. /\ pc'[t] = lbl /\ arg'[t] = a
      /\ \A u \in AllThread : u # t => pc'[u] = pc[u] /\ arg'[u] = arg[u]
  BY <1>1 DEF PcInv, AllThread
<1> QED BY <1>2, <1>3, ThreadsAssumption DEF PcInv, AllThread

\* SemaDown, SemaDownResume and SemaTryDown preserve the invariant.
LEMMA SemaDownInvariant ==
  ASSUME IInv, NEW t \in Thread,
         \E s \in Semaphore : SemaDown(t, s) \/ SemaTryDown(t, s) \/
                              (s = arg[t] /\ SemaDownResume(t))
  PROVE  IInv'
<1>1. PICK s \in Semaphore : SemaDown(t, s) \/ SemaTryDown(t, s) \/
                             (s = arg[t] /\ SemaDownResume(t))
  OBVIOUS
<1>2. /\ current = t /\ pc[t] \in {"run", "down"} /\ s \in Sema /\ s \notin Lock
      /\ UNCHANGED <<holder, waiting_lock, potential_donator>>
  BY <1>1, SynchAssumption DEF SemaDown, SemaTryDown, SemaDownResume, At, Sema
<1>3. t \notin Blocked(status) /\ t \notin Dead(status)
  BY <1>2, RunningThread DEF IInv
<1>4. CASE /\ SemaTake(s) /\ UNCHANGED <<sched, priority, origin_priority>>
           /\ UNCHANGED <<pc, arg>> \/ Goto(t, "run", NULL)
  <2>1. SchedInv' /\ Blocked(status') = Blocked(status) /\ Dead(status') = Dead(status)
    BY <1>4 DEF IInv, SchedInv, sched, Consistent, RunsOnly
  <2>2. /\ PcInv' /\ pc'[t] \in {"run", "down"}
        /\ \A u \in AllThread : u # t => pc'[u] = pc[u] /\ arg'[u] = arg[u]
    <3>1. CASE UNCHANGED <<pc, arg>>
      BY <3>1, <1>2 DEF IInv, PcInv
    <3>2. CASE Goto(t, "run", NULL)
      BY <3>2, GotoStep, SMTT(40) DEF IInv
    <3> QED BY <1>4, <3>1, <3>2
  <2>3. /\ value' \in [Sema -> Nat] /\ \A l \in Lock : value'[l] = value[l]
        /\ waiters' = waiters
    BY <1>2, <1>4 DEF SemaTake, IInv, QueueInv, Sema
  <2>4. \A u \in Dead(status') : pc'[u] = "run" /\ \A l \in Lock : holder[l] # u
    BY <1>3, <2>1, <2>2 DEF IInv, QueueInv, OwnerInv, Dead, AllThread
  <2>5. \A u \in Thread :
           \/ pc'[u] = pc[u] /\ arg'[u] = arg[u]
           \/ /\ u \notin Blocked(status)
              /\ pc[u] \notin {"acquire", "release"} /\ pc'[u] \notin {"acquire", "release"}
    BY <1>2, <1>3, <2>2 DEF AllThread
  <2>6. /\ priority' \in [Thread -> Pri] /\ origin_priority' \in [Thread -> Pri]
        /\ priority' = priority /\ origin_priority' = origin_priority
    BY <1>4 DEF IInv, PriorityInv
  <2> QED BY <1>2, <2>1, <2>2, <2>3, <2>4, <2>5, <2>6, QuietStep
<1>5. CASE SemaWait(t, s, "down", waiting_lock)
  <2>1. "down" \in Waiting /\ waiting_lock \in [Thread -> Lock \cup {NULL}]
    BY DEF Waiting, IInv, DonorInv
  <2>2. /\ SchedInv' /\ PcInv' /\ QueueInv'
        /\ Dead(status') = Dead(status)
        /\ priority' \in [Thread -> Pri]
        /\ \A u \in Thread : (\A l \in Lock : holder[l] # u) => priority'[u] = priority[u]
        /\ value' = value /\ origin_priority' = origin_priority
        /\ pc'[t] = "down"
        /\ \A u \in AllThread : u # t => pc'[u] = pc[u] /\ arg'[u] = arg[u]
    BY <1>2, <1>5, <2>1, SemaWaitStep, SMTT(40)
  <2>3. /\ OwnerInv' /\ PriorityInv'
        /\ \A u \in Thread, l \in Lock : Owns(u, l)' <=> Owns(u, l)
    BY <1>2, <2>1, <2>2, WaitKeepsOwners, SMTT(40)
  <2>4. DonorInv'
    BY <1>2, <2>2, <2>3, SameDonors DEF AllThread
  <2> QED BY <2>2, <2>3, <2>4 DEF IInv
<1> QED BY <1>1, <1>4, <1>5 DEF SemaDown, SemaTryDown, SemaDownResume

\* After sema_up the queues match the blocked threads again.
LEMMA UpKeepsQueues ==
  ASSUME IInv, value' \in [Sema -> Nat], waiters' \in [Sema -> Seq(Thread)],
         \A r \in Sema : NoDuplicates(waiters'[r]),
         \A u \in Thread, r \in Sema :
           u \in Range(waiters'[r]) <=> u \in Range(waiters[r]) /\ u \in Blocked(status'),
         Blocked(status') \subseteq Blocked(status),
         \A u \in Blocked(status) : pc'[u] = pc[u] /\ arg'[u] = arg[u],
         \A u \in Dead(status') : pc'[u] = "run"
  PROVE  QueueInv'
<1>1. \A u \in Thread, r \in Sema : u \in Range(waiters'[r])
        <=> u \in Blocked(status') /\ pc'[u] \in Waiting /\ arg'[u] = r
  BY ZenonT(40) DEF IInv, QueueInv
<1>2. \A u \in Blocked(status') : pc'[u] \in Waiting
  BY DEF IInv, QueueInv
<1> QED BY <1>1, <1>2 DEF QueueInv, Waiting

LEMMA SemaUpInvariant ==
  ASSUME IInv, NEW t \in Thread, NEW s \in Semaphore, SemaUp(t, s)
  PROVE  IInv'
<1>1. s \in Sema /\ s \notin Lock
  BY SynchAssumption DEF Sema
<1>2. /\ UNCHANGED <<priority, origin_priority, pc, arg, holder, waiting_lock, potential_donator>>
      /\ sema_up(s, priority)
  BY DEF SemaUp
<1>3. /\ SchedInv' /\ Dead(status') = Dead(status)
      /\ Blocked(status') \subseteq Blocked(status)
      /\ value' = [value EXCEPT ![s] = @ + 1] /\ value' \in [Sema -> Nat]
      /\ waiters' \in [Sema -> Seq(Thread)]
      /\ \A r \in Sema : NoDuplicates(waiters'[r])
      /\ \A u \in Thread, r \in Sema :
           u \in Range(waiters'[r]) <=> u \in Range(waiters[r]) /\ u \in Blocked(status')
  BY <1>1, <1>2, SemaUpStep
<1>4. QueueInv'
  BY <1>2, <1>3, UpKeepsQueues DEF IInv, QueueInv
<1>5. \A u \in Thread, l \in Lock : Owns(u, l)' <=> Owns(u, l)
  BY <1>2, SMTT(40) DEF Owns
<1>6. OwnerInv'
  <2>1. \A l \in Lock : value'[l] = value[l]
    BY <1>1, <1>3 DEF IInv, QueueInv, Sema
  <2> QED BY <1>2, <1>3, <1>5, <2>1, SameOwners, ZenonT(40) DEF IInv, OwnerInv
<1>7. DonorInv'
  BY <1>2, <1>5, SameDonors
<1>8. PriorityInv'
  BY <1>2, <1>5 DEF IInv, PriorityInv, DonationEndsWithOwnership
<1>9. PcInv'
  BY <1>2 DEF IInv, PcInv
<1> QED BY <1>3, <1>4, <1>6, <1>7, <1>8, <1>9 DEF IInv
-----------------------------------------------------------------------------
\* thread_create reuses only pages that hold no thread, own no lock and wait
\* for nothing.
LEMMA ThreadCreateInvariant ==
  ASSUME IInv, NEW t \in Thread, NEW n \in Thread, NEW p \in Pri, ThreadCreate(t, n, p)
  PROVE  IInv'
<1>1. /\ current = t /\ pc[t] = "run" /\ status[n] = "NONE" /\ thread_unblock(n, priority')
      /\ priority' = [priority EXCEPT ![n] = p]
      /\ origin_priority' = [origin_priority EXCEPT ![n] = p]
      /\ pc' = [pc EXCEPT ![t] = "create", ![n] = "run"]
      /\ arg' = [arg EXCEPT ![t] = p, ![n] = NULL]
      /\ waiting_lock' = [waiting_lock EXCEPT ![n] = NULL]
      /\ potential_donator' = [potential_donator EXCEPT ![n] = <<>>]
      /\ UNCHANGED <<value, waiters, holder>>
  BY DEF ThreadCreate, thread_create, At
<1>2. /\ SchedInv' /\ Blocked(status') = Blocked(status) \ {n}
      /\ Dead(status') = Dead(status) \ {n}
  BY <1>1, UnblockStep DEF IInv
<1>3. /\ t \notin Blocked(status) /\ t \notin Dead(status)
      /\ n \notin Blocked(status) /\ n \in Dead(status) /\ n # t
  BY <1>1, RunningThread, SMTT(40) DEF IInv, Blocked, Dead
<1>4. pc[n] = "run" /\ \A l \in Lock : holder[l] # n
  BY <1>3, SMTT(40) DEF IInv, QueueInv, OwnerInv
<1>5. /\ pc' \in [AllThread -> {"run", "create", "down", "acquire", "release", "hlt", "loop"}]
      /\ arg' \in [AllThread -> Sema \cup Pri \cup {NULL}]
      /\ pc'[t] = "create" /\ pc'[n] = "run"
      /\ \A u \in AllThread : u # t /\ u # n => pc'[u] = pc[u] /\ arg'[u] = arg[u]
  BY <1>1, <1>3 DEF IInv, PcInv, AllThread
<1>6. PcInv'
  BY <1>5, ThreadsAssumption, SMTT(40) DEF IInv, PcInv, AllThread
<1>7. \A u \in Thread, l \in Lock : Owns(u, l)' <=> Owns(u, l)
  BY <1>1, <1>4, <1>5, SMTT(40) DEF Owns, AllThread
<1>8. QueueInv'
  <2>1. \A u \in Blocked(status) : pc'[u] = pc[u] /\ arg'[u] = arg[u]
    BY <1>3, <1>5 DEF Blocked, AllThread
  <2>2. \A u \in Dead(status') : pc'[u] = "run"
    BY <1>2, <1>3, <1>5, Zenon DEF IInv, QueueInv, Dead, AllThread
  <2>3. \A u \in Thread, r \in Sema :
          u \in Range(waiters'[r]) <=> u \in Range(waiters[r]) /\ u \in Blocked(status')
    BY <1>1, <1>2, <1>3 DEF IInv, QueueInv
  <2> QED BY <1>1, <1>2, <2>1, <2>2, <2>3, UpKeepsQueues, Zenon DEF IInv, QueueInv
<1>9. OwnerInv'
  <2>1. \A u \in Thread : pc'[u] = "release" => pc[u] = "release" /\ arg'[u] = arg[u]
    BY <1>5 DEF AllThread
  <2> QED BY <1>1, <1>2, <1>7, <2>1, SameOwners, Zenon DEF IInv, OwnerInv
<1>10. DonorInv'
  <2>1. <<>> \in Seq(Thread) /\ NoDuplicates(<<>>) /\ Range(<<>>) = {}
    BY DEF NoDuplicates, Range
  <2>2. /\ waiting_lock' \in [Thread -> Lock \cup {NULL}]
        /\ \A u \in Thread : u # n => waiting_lock'[u] = waiting_lock[u]
    BY <1>1 DEF IInv, DonorInv
  <2>3. /\ potential_donator' \in [Thread -> Seq(Thread)] /\ potential_donator'[n] = <<>>
        /\ \A h \in Thread : h # n => potential_donator'[h] = potential_donator[h]
    BY <1>1, <2>1, SMTT(40) DEF IInv, DonorInv
  <2>4. ASSUME NEW h \in Thread, NEW d \in Range(potential_donator'[h])
        PROVE  pc'[d] = "acquire" /\ waiting_lock'[d] = arg'[d] /\ Owns(h, arg[d])'
    <3>1. d \in Range(potential_donator[h])
      BY <2>1, <2>3, <2>4
    <3>2. /\ d \in Thread /\ pc[d] = "acquire" /\ waiting_lock[d] = arg[d]
          /\ arg[d] \in Lock /\ Owns(h, arg[d])
      BY <3>1, Donor, SMTT(40)
    <3>3. pc'[d] = pc[d] /\ arg'[d] = arg[d] /\ waiting_lock'[d] = waiting_lock[d]
      BY <1>1, <1>4, <1>5, <2>2, <3>2, SMTT(40) DEF AllThread
    <3>4. Owns(h, arg[d])'
      BY <1>7, <3>2, <3>3, SMTT(40) DEF Owns
    <3> QED BY <3>2, <3>3, <3>4
  <2>5. \A h \in Thread : NoDuplicates(potential_donator'[h])
    BY <2>1, <2>3, ZenonT(40) DEF IInv, DonorInv, DonorsWaitForOwner
  <2> QED BY <2>2, <2>3, <2>4, <2>5 DEF DonorInv, DonorsWaitForOwner
<1>11. PriorityInv'
  <2>1. /\ priority' \in [Thread -> Pri] /\ origin_priority' \in [Thread -> Pri]
        /\ \A u \in Thread : priority[u] = origin_priority[u] => priority'[u] = origin_priority'[u]
    BY <1>1 DEF IInv, PriorityInv
  <2> QED BY <1>7, <2>1 DEF IInv, PriorityInv, DonationEndsWithOwnership
<1> QED BY <1>2, <1>6, <1>8, <1>9, <1>10, <1>11, SMTT(40) DEF IInv

\* The remaining steps of a thread outside locks and semaphores.
LEMMA ThreadInvariant ==
  ASSUME IInv, NEW t \in Thread,
         \/ ThreadCreateYield(t) \/ ThreadYield(t)
         \/ \E p \in Pri : ThreadSetPriority(t, p)
  PROVE  IInv'
<1>1. /\ current = t /\ pc[t] \in {"run", "create"} /\ UNCHANGED synch
  BY DEF ThreadCreateYield, ThreadYield, ThreadSetPriority, thread_create_yield,
         thread_set_priority, At
<1>2. UNCHANGED <<value, waiters, holder, waiting_lock, potential_donator>>
  BY <1>1 DEF synch
<1>3. t \notin Blocked(status) /\ t \notin Dead(status)
  BY <1>1, RunningThread DEF IInv
<1>4. /\ PcInv' /\ pc'[t] \in {"run", "create"}
      /\ \A u \in AllThread : u # t => pc'[u] = pc[u] /\ arg'[u] = arg[u]
  <2>1. CASE UNCHANGED <<pc, arg>>
    BY <1>1, <2>1 DEF IInv, PcInv
  <2>2. CASE Goto(t, "run", NULL)
    BY <2>2, GotoStep, SMTT(40) DEF IInv
  <2> QED BY <2>1, <2>2 DEF ThreadCreateYield, ThreadYield, ThreadSetPriority,
             thread_create_yield, thread_set_priority
<1>5. /\ priority' \in [Thread -> Pri] /\ origin_priority' \in [Thread -> Pri]
      /\ \A u \in Thread : priority[u] = origin_priority[u] => priority'[u] = origin_priority'[u]
  <2>1. CASE UNCHANGED <<priority, origin_priority>>
    BY <2>1 DEF IInv, PriorityInv
  <2>2. CASE \E p \in Pri : ThreadSetPriority(t, p)
    <3>1. PICK p \in Pri : ThreadSetPriority(t, p)
      BY <2>2
    <3>2. /\ origin_priority' = [origin_priority EXCEPT ![t] = p]
          /\ \/ priority[t] # origin_priority[t] /\ priority' = priority
             \/ priority' = [priority EXCEPT ![t] = p]
      BY <3>1, SMTT(40) DEF ThreadSetPriority, thread_set_priority
    <3> QED BY <3>2 DEF IInv, PriorityInv
  <2> QED BY <2>1, <2>2 DEF ThreadCreateYield, ThreadYield, thread_create_yield
<1>6. SchedInv' /\ Blocked(status') = Blocked(status) /\ Dead(status') = Dead(status)
  <2>1. CASE UNCHANGED sched
    BY <2>1 DEF IInv, SchedInv, sched, Consistent, RunsOnly
  <2>2. CASE \E pri : thread_yield(status, ready_list, pri)
    BY <2>2, YieldStep, SMTT(40) DEF IInv, SchedInv
  <2> QED BY <2>1, <2>2 DEF ThreadCreateYield, ThreadYield, ThreadSetPriority,
             thread_create_yield, thread_set_priority
<1>7. \A u \in Dead(status') : pc'[u] = "run" /\ \A l \in Lock : holder[l] # u
  BY <1>3, <1>4, <1>6 DEF IInv, QueueInv, OwnerInv, Dead, AllThread
<1>8. \A u \in Thread :
        \/ pc'[u] = pc[u] /\ arg'[u] = arg[u]
        \/ /\ u \notin Blocked(status)
           /\ pc[u] \notin {"acquire", "release"} /\ pc'[u] \notin {"acquire", "release"}
  BY <1>1, <1>3, <1>4, SMTT(40) DEF AllThread
<1>9. value' \in [Sema -> Nat]
  BY <1>2, SMTT(40) DEF IInv, QueueInv
<1> QED BY <1>2, <1>4, <1>5, <1>6, <1>7, <1>8, <1>9, QuietStep

\* Steps that touch only the scheduler's state and the idle thread's label.
LEMMA SchedulerInvariant ==
  ASSUME IInv, SchedInv', Blocked(status') = Blocked(status), UNCHANGED synch,
         UNCHANGED <<priority, origin_priority>>,
         \A u \in Dead(status') : pc'[u] = "run" /\ \A l \in Lock : holder[l] # u,
         \A u \in Thread : pc'[u] = pc[u] /\ arg'[u] = arg[u], PcInv'
  PROVE  IInv'
<1>1. UNCHANGED <<value, waiters, holder, waiting_lock, potential_donator>>
  BY SMTT(40) DEF synch
<1>2. value' \in [Sema -> Nat] /\ priority' \in [Thread -> Pri] /\ origin_priority' \in [Thread -> Pri]
  BY <1>1 DEF IInv, QueueInv, PriorityInv
<1> QED BY <1>1, <1>2, QuietStep, SMTT(40)

LEMMA ThreadExitInvariant ==
  ASSUME IInv, NEW t \in Thread, ThreadExit(t)
  PROVE  IInv'
<1>1. /\ current = t /\ pc[t] = "run" /\ \A l \in Lock : holder[l] # t
      /\ UNCHANGED synch /\ UNCHANGED <<priority, origin_priority, pc, arg>>
  BY DEF ThreadExit, thread_exit, At
<1>2. SchedInv' /\ Blocked(status') = Blocked(status) /\ Dead(status') = Dead(status) \cup {t}
  BY <1>1, ExitStep, SMTT(40) DEF ThreadExit, thread_exit, IInv
<1>3. \A u \in Dead(status') : pc'[u] = "run" /\ \A l \in Lock : holder[l] # u
  BY <1>1, <1>2 DEF IInv, QueueInv, OwnerInv
<1>4. PcInv'
  BY <1>1, SMTT(40) DEF IInv, PcInv
<1> QED BY <1>1, <1>2, <1>3, <1>4, SchedulerInvariant

LEMMA IdleInvariant ==
  ASSUME IInv, Idle \/ TimerTick
  PROVE  IInv'
<1>1. UNCHANGED synch /\ UNCHANGED <<priority, origin_priority>>
  BY DEF Idle, idle, TimerTick
<1>2. SchedInv' /\ Blocked(status') = Blocked(status) /\ Dead(status') = Dead(status)
  <2>1. CASE Idle
    <3>1. current = idle_thread /\ thread_block /\ idle_thread \notin Thread
      BY <2>1, ThreadsAssumption DEF Idle, idle, At
    <3> QED BY <3>1, BlockStep DEF IInv
  <2>2. CASE TimerTick
    BY <2>2, TickStep DEF TimerTick, IInv
  <2> QED BY <2>1, <2>2
<1>3. PcInv' /\ \A u \in Thread : pc'[u] = pc[u] /\ arg'[u] = arg[u]
  <2>1. \/ UNCHANGED <<pc, arg>>
        \/ \E x \in {"hlt", "loop"} :
             /\ pc' = [pc EXCEPT ![idle_thread] = x]
             /\ arg' = arg \/ arg' = [arg EXCEPT ![idle_thread] = NULL]
    BY DEF Idle, idle, Goto, TimerTick, WakeHlt
  <2>2. CASE UNCHANGED <<pc, arg>>
    BY <2>2 DEF IInv, PcInv
  <2>3. ASSUME NEW x \in {"hlt", "loop"}, pc' = [pc EXCEPT ![idle_thread] = x],
               arg' = arg \/ arg' = [arg EXCEPT ![idle_thread] = NULL]
        PROVE  PcInv' /\ \A u \in Thread : pc'[u] = pc[u] /\ arg'[u] = arg[u]
    BY <2>3, ThreadsAssumption, SMTT(40) DEF IInv, PcInv, AllThread
  <2> QED BY <2>1, <2>2, <2>3
<1>4. \A u \in Dead(status') : pc'[u] = "run" /\ \A l \in Lock : holder[l] # u
  BY <1>2, <1>3 DEF IInv, QueueInv, OwnerInv, Dead
<1> QED BY <1>1, <1>2, <1>3, <1>4, SchedulerInvariant, Zenon
=============================================================================
