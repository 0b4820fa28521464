------------------------------ MODULE Process -------------------------------
(***************************************************************************)
(* Starting, waiting for and ending processes: process_execute,            *)
(* start_process, process_wait and process_exit of userprog/process.c with *)
(* exit_process of userprog/syscall.c.  A process may be preempted between *)
(* any two actions.  Process ids are handed out in order; process 0 is the *)
(* kernel's main thread, which starts the first user process.              *)
(***************************************************************************)
EXTENDS Integers, Sequences, FiniteSets

CONSTANTS
  MaxPid,        \* bound on processes
  ExitStatus     \* statuses that programs exit with; -1 if they are killed

ASSUME ProcessAssumption == MaxPid \in Nat /\ ExitStatus \subseteq Int

VARIABLES
  pid_cnt,         \* processes created
  parent_process,
  child_list,      \* per process, a sequence of [pid, is_wait, status]
  child_lock,      \* per process, the value of the semaphore
  load_success, lock_child_id,
  at,              \* where a process is; "none" before it exists, "dead" after
  arg,             \* the child being started or waited for, or the exit status
  ret,             \* what a call has just returned: [call, pid, val], or NoRet
  loaded, exited,  \* the outcome of a child's load, and its exit status
  raced,           \* a child's exit was signalled to a parent that did not wait
  crashed          \* the kernel followed a pointer into a page that is gone

proc_vars == <<pid_cnt, parent_process, child_list, child_lock, load_success, lock_child_id, at, arg,
               ret, loaded, exited, raced, crashed>>

Pid == 0..MaxPid
NONE_PID == -1
UNSET == -2        \* exit_code of a thread that has not exited
NoRet == [call |-> "none", pid |-> NONE_PID, val |-> 0]

ProcessInit ==
  /\ pid_cnt = 0
  /\ parent_process = [p \in Pid |-> NONE_PID]
  /\ child_list = [p \in Pid |-> <<>>] /\ child_lock = [p \in Pid |-> 0]
  /\ load_success = [p \in Pid |-> FALSE] /\ lock_child_id = [p \in Pid |-> NONE_PID]
  /\ at = [p \in Pid |-> IF p = 0 THEN "run" ELSE "none"]
  /\ arg = [p \in Pid |-> UNSET] /\ ret = NoRet
  /\ loaded = [p \in Pid |-> FALSE] /\ exited = [p \in Pid |-> UNSET]
  /\ raced = FALSE /\ crashed = FALSE

Alive(p) == at[p] \notin {"none", "dead"}
Goto(p, where) == at' = [at EXCEPT ![p] = where]
Returns(p, call, pid, val) ==
  /\ ret' = [call |-> call, pid |-> pid, val |-> val]
  /\ arg' = [arg EXCEPT ![p] = UNSET]
Down(p) == child_lock[p] > 0 /\ child_lock' = [child_lock EXCEPT ![p] = @ - 1]
Up(p) == child_lock' = [child_lock EXCEPT ![p] = @ + 1]
-----------------------------------------------------------------------------
(* process_execute and start_process.                                      *)

\* thread_create with the child's entry, or without a thread: there is no page
\* for it, and the semaphore is waited for all the same.  (Without a page for
\* the command line the call fails at once and nothing changes.)
process_execute(p) ==
  /\ at[p] = "run" /\ (p = 0 => pid_cnt = 0)
  /\ \/ /\ pid_cnt < MaxPid
        /\ LET c == pid_cnt + 1 IN
           /\ pid_cnt' = c
           /\ parent_process' = [parent_process EXCEPT ![c] = p]
           /\ child_list' = [child_list EXCEPT
                               ![p] = Append(@, [pid |-> c, is_wait |-> FALSE, status |-> UNSET])]
           /\ at' = [at EXCEPT ![p] = "exec_down", ![c] = "start"]
           /\ arg' = [arg EXCEPT ![p] = c]
     \/ /\ arg' = [arg EXCEPT ![p] = NONE_PID]
        /\ Goto(p, "exec_down")
        /\ UNCHANGED <<pid_cnt, parent_process, child_list>>
  /\ ret' = NoRet
  /\ UNCHANGED <<child_lock, load_success, lock_child_id, loaded, exited, raced, crashed>>

ExecuteDown(p) ==
  /\ at[p] = "exec_down"
  /\ Down(p)
  /\ Goto(p, "exec_result")
  /\ ret' = NoRet
  /\ UNCHANGED <<pid_cnt, parent_process, child_list, load_success, lock_child_id, arg, loaded,
                 exited, raced, crashed>>

ExecuteResult(p) ==
  /\ at[p] = "exec_result"
  /\ Returns(p, "execute", arg[p], IF load_success[p] THEN arg[p] ELSE NONE_PID)
  /\ Goto(p, "run")
  /\ UNCHANGED <<pid_cnt, parent_process, child_list, child_lock, load_success, lock_child_id,
                 loaded, exited, raced, crashed>>

\* The parent of c, or, when its page was freed and used again, a process whose
\* page that is now.
ParentPage(c) ==
  IF Alive(parent_process[c]) THEN {parent_process[c]}
  ELSE {q \in Pid : Alive(q) /\ q > parent_process[c]}

\* The page is gone: the access may stop the kernel or find no harm.
Gone(c) == ~Alive(parent_process[c])
Dangling(c) == Gone(c) /\ crashed' \in BOOLEAN

\* Variant: the result is stored after the parent is woken.
load_result_late(c, ok) == UNCHANGED load_success

LoadResult(c, ok) ==
  \E q \in ParentPage(c) : load_success' = [load_success EXCEPT ![q] = ok]

start_process(c) ==
  /\ at[c] = "start"
  /\ \E ok \in BOOLEAN :
       /\ loaded' = [loaded EXCEPT ![c] = ok]
       /\ \/ LoadResult(c, ok) /\ UNCHANGED crashed
          \/ Dangling(c) /\ UNCHANGED load_success
  /\ Goto(c, "start_up")
  /\ ret' = NoRet
  /\ UNCHANGED <<pid_cnt, parent_process, child_list, child_lock, lock_child_id, arg, exited, raced>>

SignalStarted(c) == \E q \in ParentPage(c) : Up(q)

\* A program that was not loaded exits through thread_exit, with status -1.
StartUp(c) ==
  /\ at[c] = "start_up"
  /\ \/ SignalStarted(c) /\ UNCHANGED crashed
     \/ Dangling(c) /\ UNCHANGED child_lock
  /\ Goto(c, IF loaded[c] THEN "run" ELSE "exit_mark")
  /\ arg' = [arg EXCEPT ![c] = -1]
  /\ exited' = IF loaded[c] THEN exited ELSE [exited EXCEPT ![c] = -1]
  /\ ret' = NoRet
  /\ UNCHANGED <<pid_cnt, parent_process, child_list, load_success, lock_child_id, loaded, raced>>
-----------------------------------------------------------------------------
(* exit_process, and thread_exit after it.                                 *)

\* The process exits, or is killed with status -1.
exit_process(p) ==
  /\ at[p] = "run" /\ p # 0
  /\ \E status \in ExitStatus :
       /\ arg' = [arg EXCEPT ![p] = status]
       /\ exited' = [exited EXCEPT ![p] = status]
  /\ Goto(p, "exit_mark")
  /\ ret' = NoRet
  /\ UNCHANGED <<pid_cnt, parent_process, child_list, child_lock, load_success, lock_child_id, loaded, raced, crashed>>

Marked(list, p) ==
  [i \in DOMAIN list |->
     IF list[i].pid = p THEN [list[i] EXCEPT !.is_wait = TRUE, !.status = arg[p]] ELSE list[i]]

ExitMark(p) ==
  /\ at[p] = "exit_mark"
  /\ IF Gone(p) THEN Dangling(p) /\ UNCHANGED child_list
     ELSE /\ child_list' = [child_list EXCEPT ![parent_process[p]] = Marked(@, p)]
          /\ UNCHANGED crashed
  /\ Goto(p, "exit_up")
  /\ ret' = NoRet
  /\ UNCHANGED <<pid_cnt, parent_process, child_lock, load_success, lock_child_id, arg, loaded,
                 exited, raced>>

Waits(q, p) == lock_child_id[q] = p

ExitUp(p) ==
  /\ at[p] = "exit_up"
  /\ LET q == parent_process[p] IN
     IF Gone(p) THEN Dangling(p) /\ UNCHANGED <<child_lock, raced>>
     ELSE /\ IF Waits(q, p)
             THEN Up(q) /\ raced' = (raced \/ at[q] # "wait_down")
             ELSE UNCHANGED <<child_lock, raced>>
          /\ UNCHANGED crashed
  /\ Goto(p, "exiting")
  /\ ret' = NoRet
  /\ UNCHANGED <<pid_cnt, parent_process, child_list, load_success, lock_child_id, arg, loaded,
                 exited>>

\* The rest of thread_exit: the children's entries and the page are freed.  A
\* program that was not loaded comes here from within thread_exit, and closes
\* its working directory a second time: the memory that was freed may hold
\* anything.
thread_exit(p) ==
  /\ at[p] = "exiting"
  /\ child_list' = [child_list EXCEPT ![p] = <<>>]
  /\ Goto(p, "dead")
  /\ child_lock' = [child_lock EXCEPT ![p] = 0]
  /\ arg' = [arg EXCEPT ![p] = UNSET] /\ ret' = NoRet
  /\ crashed' \in IF loaded[p] THEN {FALSE} ELSE BOOLEAN
  /\ UNCHANGED <<pid_cnt, parent_process, load_success, lock_child_id, loaded, exited, raced>>
-----------------------------------------------------------------------------
(* process_wait.                                                           *)

Entries(p, c) == {i \in DOMAIN child_list[p] : child_list[p][i].pid = c}
Entry(p, c) == child_list[p][CHOOSE i \in Entries(p, c) : TRUE]

\* Variant: the parent does not say which child it waits for.
register_nothing(p, c) == UNCHANGED lock_child_id

Register(p, c) == lock_child_id' = [lock_child_id EXCEPT ![p] = c]

process_wait(p, c) ==
  /\ at[p] = "run"
  /\ \/ /\ Entries(p, c) = {}
        /\ Returns(p, "wait", NONE_PID, -1)
        /\ UNCHANGED <<at, lock_child_id>>
     \/ /\ Entries(p, c) # {}
        /\ arg' = [arg EXCEPT ![p] = c]
        /\ Register(p, c)
        /\ Goto(p, "wait_test")
        /\ ret' = NoRet
  /\ UNCHANGED <<pid_cnt, parent_process, child_list, child_lock, load_success, loaded, exited, raced,
                 crashed>>

HasExited(p) == Entry(p, arg[p]).is_wait

WaitTest(p) ==
  /\ at[p] = "wait_test"
  /\ Goto(p, IF HasExited(p) THEN "wait_status" ELSE "wait_down")
  /\ ret' = NoRet
  /\ UNCHANGED <<pid_cnt, parent_process, child_list, child_lock, load_success, lock_child_id, arg, loaded, exited, raced, crashed>>

WaitDown(p) ==
  /\ at[p] = "wait_down"
  /\ Down(p)
  /\ Goto(p, "wait_status")
  /\ ret' = NoRet
  /\ UNCHANGED <<pid_cnt, parent_process, child_list, load_success, lock_child_id, arg, loaded,
                 exited, raced, crashed>>

WaitStatus(p) ==
  /\ at[p] = "wait_status"
  /\ Returns(p, "wait", arg[p], Entry(p, arg[p]).status)
  /\ child_list' = [child_list EXCEPT ![p] = SelectSeq(@, LAMBDA e : e.pid # arg[p])]
  /\ Goto(p, "run")
  /\ UNCHANGED <<pid_cnt, parent_process, child_lock, load_success, lock_child_id, loaded, exited, raced,
                 crashed>>

\* The steps of calls that have begun.
ProcessGoesOn(p) ==
  \/ ExecuteDown(p) \/ ExecuteResult(p) \/ start_process(p) \/ StartUp(p)
  \/ ExitMark(p) \/ ExitUp(p) \/ thread_exit(p)
  \/ WaitTest(p) \/ WaitDown(p) \/ WaitStatus(p)

ProcessNext ==
  \E p \in Pid :
    \/ ProcessGoesOn(p) \/ process_execute(p) \/ exit_process(p)
    \/ \E c \in Pid : process_wait(p, c)
-----------------------------------------------------------------------------
\* process_wait returns the exit status of the child, and process_execute the
\* child's id exactly if the child was loaded, as long as no exit was signalled
\* to a parent that had already seen it: the same semaphore serves both calls,
\* and a value left over ends the next one too early.  A positive value is
\* always for a call that is about to take it.
CallsAnswered ==
  ~raced =>
    /\ ret.pid # NONE_PID =>
         CASE ret.call = "wait" -> ret.val = exited[ret.pid]
           [] ret.call = "execute" -> (ret.val = ret.pid) <=> loaded[ret.pid]
    /\ \A p \in Pid :
         Alive(p) /\ child_lock[p] > 0
           => child_lock[p] = 1 /\ at[p] \in {"exec_down", "wait_down"}

\* A call comes back: process_wait when the child has exited, also when the exit
\* falls between the parent's test and its sema_down, and process_execute when
\* it has created a thread, whatever becomes of the load.
CallsReturn ==
  \A p \in Pid :
    (\/ at[p] = "wait_down" /\ exited[arg[p]] # UNSET
     \/ at[p] = "exec_down" /\ arg[p] # NONE_PID) ~> (at[p] = "run" \/ crashed)
=============================================================================
