------------------------------ MODULE Devices -------------------------------
(***************************************************************************)
(* The device drivers: the terminal and a disk channel.  They share        *)
(* nothing, so a behaviour exercises one of them; and a behaviour of the   *)
(* terminal has readers at work or writers, with handlers that print in    *)
(* both.                                                                   *)
(***************************************************************************)
EXTENDS Terminal, Disk

VARIABLE part

dev_vars == <<vars, disk_vars, part>>

Init ==
  /\ part \in {"input", "output", "disk"}
  /\ TerminalInit /\ DiskInit
  /\ part # "disk" => fitted = [d \in Dev |-> "none"]

OnTerminal(A) ==
  /\ part \in {"input", "output"}
  /\ A
  /\ part = "input" => UNCHANGED left
  /\ part = "output" => UNCHANGED <<held, rbr, in_cnt>>
  /\ UNCHANGED <<disk_vars, part>>

OnDisk(A) == part = "disk" /\ ~failed /\ A /\ UNCHANGED <<vars, part>>

Next == OnTerminal(TerminalNext) \/ OnDisk(DiskNext)

Spec == Init /\ [][Next]_dev_vars

\* Threads that can run do, the UART and the controller go on, and enabled
\* interrupts are taken.  A lock that is free again and again is got: its
\* waiters are served in order.
Fairness ==
  /\ WF_dev_vars(OnTerminal(serial_interrupt)) /\ WF_dev_vars(OnTerminal(UartSends))
  /\ \A t \in Thread : WF_dev_vars(OnTerminal(TerminalGoesOn(t)))
  /\ WF_dev_vars(OnDisk(DiskBoot)) /\ WF_dev_vars(OnDisk(interrupt_handler))
  /\ WF_dev_vars(OnDisk(Answer \/ Store))
  /\ \A t \in User : WF_dev_vars(OnDisk(DiskThread(t))) /\ SF_dev_vars(OnDisk(Lock(t)))

FairSpec == Spec /\ Fairness
=============================================================================
