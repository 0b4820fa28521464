-------------------------------- MODULE Disk --------------------------------
(***************************************************************************)
(* One ATA channel of devices/disk.c with its two devices.  The channel's  *)
(* lock and semaphore are those of Synch, here in one step each.  The      *)
(* controller answers commands in its own time, raises an interrupt when   *)
(* it has data for a read or has stored a write, and may raise a stray     *)
(* one or report an error.  Polls of the status register are guards: they  *)
(* end when the register shows what they wait for.                         *)
(***************************************************************************)
EXTENDS Integers, FiniteSets

CONSTANTS
  User,          \* threads that use the disks
  Sector, Value,
  NONE,
  MaxOps,        \* bound on the calls of a thread
  MaxStray       \* bound on stray interrupts

VARIABLES
  channel_lock, completion_wait, expecting_interrupt,
  ctl,           \* the controller: state, device, sector, command, data
  irq,           \* its interrupt is pending
  media,         \* media[d][s]
  boot,          \* what disk_init does next
  is_ata,        \* per device, as found at boot
  fitted,        \* whether a working ATA disk, another device or none is there
  dpc, op,       \* where a thread is, and the device, sector and data of its call
  ops,           \* calls of a thread so far
  written,       \* the value of the last write of each sector, in lock order
  stray, failed  \* stray interrupts so far, and whether a transfer failed

boot_vars == <<boot, is_ata, fitted>>
call_vars == <<op, ops>>
hw_vars == <<ctl, irq, media>>
log_vars_disk == <<written, stray, failed>>
disk_vars == <<channel_lock, completion_wait, expecting_interrupt, hw_vars, boot_vars, call_vars, dpc,
               log_vars_disk>>

Dev == {0, 1}
Boot == "boot"   \* the thread that runs disk_init, before any other

DiskInit ==
  /\ channel_lock = NONE /\ completion_wait = 0 /\ expecting_interrupt = FALSE
  /\ ctl = [state |-> "idle", dev |-> 0, sec |-> NONE, cmd |-> "none", data |-> NONE]
  /\ irq = FALSE
  /\ media = [d \in Dev |-> [s \in Sector |-> CHOOSE v \in Value : TRUE]]
  /\ boot = "check0" /\ is_ata = [d \in Dev |-> FALSE]
  /\ fitted \in [Dev -> {"ata", "other", "none"}]
  /\ dpc = [t \in User \cup {Boot} |-> "idle"]
  /\ op = [t \in User |-> NONE] /\ ops = [t \in User |-> 0]
  /\ written = media /\ stray = 0 /\ failed = FALSE

Go(t, to) == dpc' = [dpc EXCEPT ![t] = to]
-----------------------------------------------------------------------------
(* The parts of a transfer.                                                *)

\* select_device_wait and select_sector; reading the status register drops a
\* pending interrupt.
select_sector(d, s) ==
  /\ ctl.state = "idle"
  /\ ctl' = [ctl EXCEPT !.dev = d, !.sec = s]
  /\ irq' = FALSE

\* Variant: no interrupt is expected.
issue_unexpected(cmd) ==
  ctl' = [ctl EXCEPT !.state = "busy", !.cmd = cmd] /\ UNCHANGED expecting_interrupt

issue_pio_command(cmd) ==
  /\ expecting_interrupt' = TRUE
  /\ ctl' = [ctl EXCEPT !.state = "busy", !.cmd = cmd]

sema_down_completion == completion_wait > 0 /\ completion_wait' = completion_wait - 1

\* wait_while_busy: the controller is done with the command, and asks for a
\* transfer or, after an error, does not.
Ready == ctl.state \in {"data", "want_data"}
Refused == ctl.state = "idle"

interrupt_handler ==
  /\ irq /\ irq' = FALSE
  /\ IF expecting_interrupt THEN completion_wait' = completion_wait + 1 ELSE UNCHANGED completion_wait
  /\ UNCHANGED <<channel_lock, expecting_interrupt, ctl, media, boot_vars, call_vars, dpc,
                 log_vars_disk>>
-----------------------------------------------------------------------------
(* disk_init: check_device_type of device 0 and, unless that shows that    *)
(* there is none, of device 1; then identify_ata_device of each ATA disk.  *)

check_device_type(d) ==
  /\ boot = IF d = 0 THEN "check0" ELSE "check1"
  /\ is_ata' = [is_ata EXCEPT ![d] = fitted[d] = "ata"]
  /\ boot' \in IF d = 1 THEN {"id0"} ELSE IF fitted[0] = "none" THEN {"check1", "id0"} ELSE {"check1"}
  /\ UNCHANGED <<channel_lock, completion_wait, expecting_interrupt, hw_vars, fitted, call_vars, dpc,
                 log_vars_disk>>

IdDev == IF boot = "id0" THEN 0 ELSE 1
Identified == boot' = IF boot = "id0" THEN "id1" ELSE "done"

identify_ata_device ==
  /\ boot \in {"id0", "id1"}
  /\ \/ /\ ~is_ata[IdDev] /\ dpc[Boot] = "idle"
        /\ Identified
        /\ UNCHANGED <<completion_wait, expecting_interrupt, hw_vars, is_ata, dpc>>
     \/ /\ is_ata[IdDev] /\ dpc[Boot] = "idle"
        /\ select_sector(IdDev, NONE)
        /\ Go(Boot, "issue")
        /\ UNCHANGED <<completion_wait, expecting_interrupt, media, boot, is_ata>>
     \/ /\ dpc[Boot] = "issue"
        /\ issue_pio_command("identify")
        /\ Go(Boot, "read_sema")
        /\ UNCHANGED <<completion_wait, irq, media, boot, is_ata>>
     \/ /\ dpc[Boot] = "read_sema"
        /\ sema_down_completion
        /\ Go(Boot, "poll")
        /\ UNCHANGED <<expecting_interrupt, hw_vars, boot, is_ata>>
     \/ /\ dpc[Boot] = "poll" /\ (Ready \/ Refused)
        /\ is_ata' = [is_ata EXCEPT ![IdDev] = Ready]
        /\ ctl' = [ctl EXCEPT !.state = "idle"]
        /\ Go(Boot, "idle")
        /\ Identified
        /\ UNCHANGED <<completion_wait, expecting_interrupt, irq, media>>
  /\ UNCHANGED <<channel_lock, fitted, call_vars, log_vars_disk>>
-----------------------------------------------------------------------------
(* disk_read and disk_write.                                               *)

Reads(t) == op[t].val = NONE

\* A call, on a disk that disk_get returns; v is NONE for a read.
Call(t, d, s, v) ==
  /\ boot = "done" /\ is_ata[d] /\ dpc[t] = "idle" /\ ops[t] < MaxOps
  /\ op' = [op EXCEPT ![t] = [dev |-> d, sec |-> s, val |-> v]]
  /\ ops' = [ops EXCEPT ![t] = @ + 1]
  /\ Go(t, "lock")
  /\ UNCHANGED <<channel_lock, completion_wait, expecting_interrupt, hw_vars, boot_vars,
                 log_vars_disk>>

\* Variant: the channel is not locked.
no_channel_lock(t) == UNCHANGED channel_lock

acquire_channel(t) == channel_lock = NONE /\ channel_lock' = t

Lock(t) ==
  /\ dpc[t] = "lock"
  /\ acquire_channel(t)
  /\ Go(t, "select")
  /\ UNCHANGED <<completion_wait, expecting_interrupt, hw_vars, boot_vars, call_vars, log_vars_disk>>

Select(t) ==
  /\ dpc[t] = "select"
  /\ select_sector(op[t].dev, op[t].sec)
  /\ Go(t, "issue")
  /\ UNCHANGED <<channel_lock, completion_wait, expecting_interrupt, media, boot_vars, call_vars,
                 log_vars_disk>>

Issue(t) ==
  /\ dpc[t] = "issue"
  /\ issue_pio_command(IF Reads(t) THEN "read" ELSE "write")
  /\ Go(t, IF Reads(t) THEN "read_sema" ELSE "poll")
  /\ UNCHANGED <<channel_lock, completion_wait, irq, media, boot_vars, call_vars, log_vars_disk>>

ReadSema(t) ==
  /\ dpc[t] = "read_sema"
  /\ sema_down_completion
  /\ Go(t, "poll")
  /\ UNCHANGED <<channel_lock, expecting_interrupt, hw_vars, boot_vars, call_vars, log_vars_disk>>

input_sector(t) ==
  /\ dpc[t] = "poll" /\ Ready /\ Reads(t)
  /\ op' = [op EXCEPT ![t].val = ctl.data]
  /\ ctl' = [ctl EXCEPT !.state = "idle", !.data = NONE]
  /\ Go(t, "release_read")
  /\ UNCHANGED <<channel_lock, completion_wait, expecting_interrupt, irq, media, boot_vars, ops,
                 log_vars_disk>>

output_sector(t) ==
  /\ dpc[t] = "poll" /\ Ready /\ ~Reads(t)
  /\ ctl' = [ctl EXCEPT !.state = "storing", !.data = op[t].val]
  /\ written' = [written EXCEPT ![op[t].dev][op[t].sec] = op[t].val]
  /\ Go(t, "write_sema")
  /\ UNCHANGED <<channel_lock, completion_wait, expecting_interrupt, irq, media, boot_vars, call_vars,
                 stray, failed>>

\* PANIC: the transfer failed.
TransferFails(t) ==
  /\ dpc[t] = "poll" /\ Refused
  /\ failed' = TRUE
  /\ UNCHANGED <<channel_lock, completion_wait, expecting_interrupt, hw_vars, boot_vars, call_vars, dpc,
                 written, stray>>

WriteSema(t) ==
  /\ dpc[t] = "write_sema"
  /\ sema_down_completion
  /\ Go(t, "release")
  /\ UNCHANGED <<channel_lock, expecting_interrupt, hw_vars, boot_vars, call_vars, log_vars_disk>>

Release(t) ==
  /\ dpc[t] \in {"release", "release_read"}
  /\ channel_lock' = NONE
  /\ op' = [op EXCEPT ![t] = NONE]
  /\ Go(t, "idle")
  /\ UNCHANGED <<completion_wait, expecting_interrupt, hw_vars, boot_vars, ops, log_vars_disk>>
-----------------------------------------------------------------------------
(* The controller.                                                         *)

\* A command is done, with data, ready for data, or with an error.
Answer ==
  /\ ctl.state = "busy"
  /\ \/ /\ ctl.cmd = "read"
        /\ ctl' = [ctl EXCEPT !.state = "data", !.data = media[ctl.dev][ctl.sec]]
        /\ irq' = TRUE
     \/ ctl.cmd = "write" /\ ctl' = [ctl EXCEPT !.state = "want_data"] /\ UNCHANGED irq
     \/ ctl.cmd = "identify" /\ ctl' = [ctl EXCEPT !.state = "data"] /\ irq' = TRUE
     \/ ctl' = [ctl EXCEPT !.state = "idle"] /\ irq' = TRUE
  /\ UNCHANGED <<channel_lock, completion_wait, expecting_interrupt, media, boot_vars, call_vars, dpc,
                 log_vars_disk>>

Store ==
  /\ ctl.state = "storing"
  /\ media' = [media EXCEPT ![ctl.dev][ctl.sec] = ctl.data]
  /\ ctl' = [ctl EXCEPT !.state = "idle", !.data = NONE]
  /\ irq' = TRUE
  /\ UNCHANGED <<channel_lock, completion_wait, expecting_interrupt, boot_vars, call_vars, dpc,
                 log_vars_disk>>

StrayInterrupt ==
  /\ stray < MaxStray /\ ~irq
  /\ irq' = TRUE /\ stray' = stray + 1
  /\ UNCHANGED <<channel_lock, completion_wait, expecting_interrupt, ctl, media, boot_vars, call_vars,
                 dpc, written, failed>>

DiskThread(t) ==
  \/ Lock(t) \/ Select(t) \/ Issue(t) \/ ReadSema(t) \/ input_sector(t) \/ output_sector(t)
  \/ TransferFails(t) \/ WriteSema(t) \/ Release(t)

DiskBoot == identify_ata_device \/ \E d \in Dev : check_device_type(d)

Controller == interrupt_handler \/ Answer \/ Store

DiskNext ==
  \/ DiskBoot \/ Controller \/ StrayInterrupt
  \/ \E t \in User :
       \/ DiskThread(t)
       \/ \E d \in Dev, s \in Sector, v \in Value \cup {NONE} : Call(t, d, s, v)
-----------------------------------------------------------------------------
\* A read returns what the last write of the sector, in the order of the calls'
\* transfers, wrote, although a write may return before it is stored when a
\* stray interrupt ends it early.
DiskReadsLastWrite ==
  \A t \in User :
    dpc[t] = "release_read" => op[t].val = written[op[t].dev][op[t].sec]

\* Without stray interrupts, a write has reached the medium when disk_write
\* returns.  The handler takes any interrupt for a completion, as
\* expecting_interrupt stays set.
WriteStored ==
  \A t \in User :
    dpc[t] = "release" /\ stray = 0 => media[op[t].dev][op[t].sec] = op[t].val

\* A command is given to an idle controller, for the device and sector of the
\* thread that gives it.
SelectedWhenIssued ==
  \A t \in User :
    dpc[t] = "issue" => ctl.state = "idle" /\ ctl.dev = op[t].dev /\ ctl.sec = op[t].sec

\* What the disk owes its users: each sector keeps what disk_write was given,
\* and calls on the channel do not mix up their devices and sectors.
DiskKeepsData == DiskReadsLastWrite /\ WriteStored /\ SelectedWhenIssued

\* The disks are identified at boot, and a disk call returns unless a transfer
\* fails and the kernel stops.
DiskReturns ==
  /\ boot = "id0" ~> boot = "done"
  /\ \A t \in User : dpc[t] = "lock" ~> (dpc[t] = "idle" \/ failed)
=============================================================================
