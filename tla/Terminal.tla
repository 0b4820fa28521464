------------------------------ MODULE Terminal ------------------------------
(***************************************************************************)
(* The console and its devices: lib/kernel/console.c, devices/serial.c,    *)
(* input.c, kbd.c and their interrupt queues, devices/intq.c.  Writers     *)
(* print a string under the console lock, readers take keys, handlers run  *)
(* between any two steps of the threads.  What a thread does with          *)
(* interrupts off is one step, up to the point where it blocks.  All       *)
(* threads have one priority, as user processes do, so waking one never    *)
(* yields.  A queue's buffer, head and tail are the sequence of its bytes. *)
(***************************************************************************)
EXTENDS Integers, Sequences, FiniteSets

CONSTANTS
  Reader, Writer, NULL,
  INTQ_BUFSIZE,
  StrLen,            \* characters in a writer's string
  MaxIn, MaxIntr,    \* bounds: bytes received, bytes printed by handlers
  Mapped,            \* scancodes that the keymaps turn into a character
  ShiftKey           \* scancodes of the shift keys

ASSUME TerminalAssumption ==
  /\ INTQ_BUFSIZE \in Nat \ {0, 1} /\ StrLen \in Nat \ {0}
  /\ MaxIn \in Nat /\ MaxIntr \in Nat
  /\ NULL \notin Reader \cup Writer /\ Mapped \cap ShiftKey = {}

VARIABLES
  txq, not_full,            \* the serial port's queue and its waiting thread
  inq, in_lock, not_empty,  \* the input buffer, its lock and waiting thread
  ier, thre, rbr,           \* UART: enabled interrupts, ready to send, a byte is there
  mode, console_lock, console_lock_depth,
  down,                     \* shift keys that kbd.c takes to be down
  held,                     \* shift keys that are held down
  pc, left,                 \* left[t]: characters left in each print call of t, innermost first
  printed, sent, taken,     \* bytes in the order queued or polled, sent, read
  in_cnt, intr_cnt,
  panicked

queue_vars == <<txq, not_full, inq, in_lock, not_empty>>
uart_vars == <<ier, thre, rbr>>
console_vars == <<console_lock, console_lock_depth, left>>
log_vars == <<printed, sent, taken, in_cnt, intr_cnt>>
kbd_vars == <<down, held>>
vars == <<queue_vars, uart_vars, mode, console_vars, kbd_vars, pc, log_vars, panicked>>

Thread == Reader \cup Writer
Full(q) == Len(q) = INTQ_BUFSIZE - 1

TerminalInit ==
  /\ txq = <<>> /\ inq = <<>> /\ not_full = NULL /\ not_empty = NULL /\ in_lock = NULL
  /\ ier = {} /\ thre = TRUE /\ rbr = FALSE /\ mode = "UNINIT"
  /\ console_lock = NULL /\ console_lock_depth = 0
  /\ down = {} /\ held = {}
  /\ pc = [t \in Thread |-> "idle"] /\ left = [t \in Writer |-> <<>>]
  /\ printed = <<>> /\ sent = <<>> /\ taken = <<>> /\ in_cnt = 0 /\ intr_cnt = 0
  /\ panicked = FALSE

\* Variant: sending is enabled while there is room.
xmit_when_room(tx, in) ==
  ier' = (IF Full(tx) THEN {} ELSE {"XMIT"}) \cup (IF Full(in) THEN {} ELSE {"RECV"})

\* The interrupts that the queues call for.
write_ier(tx, in) ==
  ier' = (IF tx # <<>> THEN {"XMIT"} ELSE {}) \cup (IF Full(in) THEN {} ELSE {"RECV"})

serial_notify(in) == IF mode = "QUEUE" THEN write_ier(txq, in) ELSE UNCHANGED ier

\* signal: the waiting thread of a queue, if any, runs again.
Woken(waiter) == IF waiter = NULL THEN pc ELSE [pc EXCEPT ![waiter] = "woken"]

serial_init_queue ==
  /\ ~panicked /\ mode # "QUEUE"
  /\ mode' = "QUEUE"
  /\ write_ier(txq, inq)
  /\ UNCHANGED <<queue_vars, thre, rbr, console_vars, kbd_vars, pc, log_vars, panicked>>
-----------------------------------------------------------------------------
(* The output side.  A byte is its printer and the depth of the print call.*)

\* Variant: with the queue full, the new byte is the one that is polled out.
poll_the_byte(byte) == sent' = Append(sent, byte) /\ UNCHANGED <<txq, not_full>>

\* serial_putc where the queue is full and interrupts were off: the oldest byte
\* goes out to make room.
poll_oldest(byte) ==
  /\ sent' = Append(sent, Head(txq))
  /\ txq' = Append(Tail(txq), byte)
  /\ not_full' = NULL

\* serial_putc where it does not have to wait; off: interrupts were off.
serial_putc(byte, off) ==
  /\ printed' = Append(printed, byte)
  /\ \/ /\ mode # "QUEUE"
        /\ mode' = "POLL" /\ sent' = Append(sent, byte) /\ thre' = FALSE
        /\ UNCHANGED <<txq, not_full, ier>>
     \/ /\ mode = "QUEUE" /\ ~Full(txq)
        /\ txq' = Append(txq, byte)
        /\ write_ier(txq', inq)
        /\ UNCHANGED <<not_full, sent, thre, mode>>
     \/ /\ mode = "QUEUE" /\ Full(txq) /\ off
        /\ poll_oldest(byte)
        /\ thre' = FALSE
        /\ write_ier(txq', inq)
        /\ UNCHANGED mode

acquire_console(t) ==
  \/ /\ console_lock = t
     /\ console_lock_depth' = console_lock_depth + 1
     /\ UNCHANGED console_lock
  \/ /\ console_lock = NULL
     /\ console_lock' = t
     /\ UNCHANGED console_lock_depth

release_console ==
  IF console_lock_depth > 0
  THEN console_lock_depth' = console_lock_depth - 1 /\ UNCHANGED console_lock
  ELSE console_lock' = NULL /\ UNCHANGED console_lock_depth

HasPrinted(t, depth) == \E i \in DOMAIN printed : printed[i] = <<t, depth>>

\* putbuf, puts, vprintf or putchar starts; a printing thread may print again
\* inside the call, as the comment on console_lock_depth explains.
StartPrint(t) ==
  /\ ~panicked /\ pc[t] = "idle"
  /\ \/ left[t] = <<>> /\ ~HasPrinted(t, 1)
     \/ left[t] = <<1>> /\ ~HasPrinted(t, 2)
  /\ acquire_console(t)
  /\ left' = [left EXCEPT ![t] = <<IF @ = <<>> THEN StrLen ELSE 1>> \o @]
  /\ UNCHANGED <<queue_vars, uart_vars, mode, kbd_vars, pc, log_vars, panicked>>

\* putchar_have_lock: a character, unless it has to wait for room.
Putchar(t) ==
  /\ ~panicked /\ pc[t] \in {"idle", "woken"} /\ left[t] # <<>> /\ left[t][1] > 0
  /\ \E off \in {FALSE, pc[t] = "idle"} : serial_putc(<<t, Len(left[t])>>, off)
  /\ pc' = [Woken(IF not_full' = NULL THEN not_full ELSE NULL) EXCEPT ![t] = "idle"]
  /\ left' = [left EXCEPT ![t][1] = @ - 1]
  /\ UNCHANGED <<inq, in_lock, not_empty, rbr, console_lock, console_lock_depth, kbd_vars,
                 taken, in_cnt, intr_cnt, panicked>>

\* intq_putc with the queue full: its lock is free, since only the thread with
\* the console lock comes here, and is given up on waking.
PutcWait(t) ==
  /\ ~panicked /\ pc[t] \in {"idle", "woken"} /\ left[t] # <<>> /\ left[t][1] > 0
  /\ mode = "QUEUE" /\ Full(txq)
  /\ pc' = [pc EXCEPT ![t] = "full"] /\ not_full' = t
  /\ UNCHANGED <<txq, inq, in_lock, not_empty, uart_vars, mode, console_vars, kbd_vars, log_vars,
                 panicked>>

FinishPrint(t) ==
  /\ ~panicked /\ pc[t] = "idle" /\ left[t] # <<>> /\ left[t][1] = 0
  /\ left' = [left EXCEPT ![t] = Tail(@)]
  /\ release_console
  /\ UNCHANGED <<queue_vars, uart_vars, mode, kbd_vars, pc, log_vars, panicked>>

\* A handler prints: no lock, interrupts off.
InterruptPrint ==
  /\ ~panicked /\ intr_cnt < MaxIntr
  /\ serial_putc(<<NULL, 1>>, TRUE)
  /\ pc' = Woken(IF not_full' = NULL THEN not_full ELSE NULL)
  /\ intr_cnt' = intr_cnt + 1
  /\ UNCHANGED <<inq, in_lock, not_empty, rbr, console_vars, kbd_vars, taken, in_cnt, panicked>>

\* debug_panic: interrupts off and no lock any more, it prints and flushes.
Panic ==
  /\ panicked' = TRUE
  /\ printed' = Append(printed, <<NULL, 0>>)
  /\ sent' = (sent \o txq) \o <<<<NULL, 0>>>>
  /\ txq' = <<>> /\ not_full' = NULL
  /\ UNCHANGED <<inq, in_lock, not_empty, uart_vars, mode, console_vars, kbd_vars, pc, taken,
                 in_cnt, intr_cnt>>
-----------------------------------------------------------------------------
(* The input side.                                                         *)

\* input_getc with a byte there; signal finds nobody, as nothing waits for
\* room in the input buffer.
Take(t) ==
  /\ taken' = Append(taken, Head(inq))
  /\ inq' = Tail(inq)
  /\ serial_notify(inq')
  /\ pc' = [pc EXCEPT ![t] = "idle"]

\* Variant: no lock orders the readers.
wait_unlocked(t) ==
  /\ not_empty' = t /\ pc' = [pc EXCEPT ![t] = "waiting"]
  /\ UNCHANGED in_lock

\* intq_getc with the buffer empty: wait for the lock, then for a byte.
WaitForByte(t) ==
  IF in_lock \in {NULL, t}
  THEN /\ in_lock' = t /\ not_empty' = t
       /\ pc' = [pc EXCEPT ![t] = "waiting"]
  ELSE /\ pc' = [pc EXCEPT ![t] = "locking"]
       /\ UNCHANGED <<in_lock, not_empty>>

input_getc(t) ==
  /\ ~panicked /\ pc[t] = "idle" /\ Len(taken) < MaxIn
  /\ \/ inq # <<>> /\ Take(t) /\ UNCHANGED <<in_lock, not_empty>>
     \/ inq = <<>> /\ WaitForByte(t) /\ UNCHANGED <<inq, ier, taken>>
  /\ UNCHANGED <<txq, not_full, thre, rbr, mode, console_vars, kbd_vars, printed, sent, in_cnt,
                 intr_cnt, panicked>>

\* The reader that was signalled gives up the lock and looks again.
GetcWoken(t) ==
  /\ ~panicked /\ pc[t] = "woken"
  /\ \/ /\ inq # <<>> /\ Take(t)
        /\ in_lock' = NULL /\ UNCHANGED not_empty
     \/ inq = <<>> /\ WaitForByte(t) /\ UNCHANGED <<inq, ier, taken>>
  /\ UNCHANGED <<txq, not_full, thre, rbr, mode, console_vars, kbd_vars, printed, sent, in_cnt,
                 intr_cnt, panicked>>

\* A reader gets the lock: wait asserts that the buffer is still empty.
GetcLocked(t) ==
  /\ ~panicked /\ pc[t] = "locking" /\ in_lock = NULL
  /\ IF inq # <<>> THEN Panic
     ELSE /\ WaitForByte(t)
          /\ UNCHANGED <<txq, not_full, inq, uart_vars, mode, console_vars, kbd_vars, log_vars,
                         panicked>>

\* Bytes are numbered in the order in which they are accepted.
input_putc(waiter) ==
  /\ in_cnt' = in_cnt + 1
  /\ inq' = Append(inq, in_cnt + 1)
  /\ not_empty' = NULL

\* serial_interrupt: a received byte, then a byte to send.
serial_interrupt ==
  LET receives == rbr /\ ~Full(inq)
      sends == thre /\ txq # <<>>
  IN  /\ ~panicked
      /\ \/ "XMIT" \in ier /\ thre
         \/ "RECV" \in ier /\ rbr
      /\ IF receives THEN input_putc(not_empty) /\ rbr' = FALSE
         ELSE UNCHANGED <<in_cnt, inq, not_empty, rbr>>
      /\ IF sends
         THEN /\ sent' = Append(sent, Head(txq)) /\ txq' = Tail(txq)
              /\ thre' = FALSE /\ not_full' = NULL
         ELSE UNCHANGED <<sent, txq, thre, not_full>>
      /\ pc' = [t \in Thread |-> IF (receives /\ t = not_empty) \/ (sends /\ t = not_full)
                                  THEN "woken" ELSE pc[t]]
      /\ write_ier(txq', inq')
      /\ UNCHANGED <<in_lock, mode, console_vars, kbd_vars, printed, taken, intr_cnt, panicked>>

\* The UART sends its byte, receives one.
UartSends == ~panicked /\ ~thre /\ thre' = TRUE
             /\ UNCHANGED <<queue_vars, ier, rbr, mode, console_vars, kbd_vars, pc, log_vars, panicked>>
UartReceives == ~panicked /\ ~rbr /\ in_cnt < MaxIn /\ rbr' = TRUE
                /\ UNCHANGED <<queue_vars, ier, thre, mode, console_vars, kbd_vars, pc, log_vars, panicked>>

\* The shift key's state after the key is pressed or released.
ShiftState(code, release) == IF release THEN down \ {code} ELSE down \cup {code}

\* keyboard_interrupt: a shift key is recorded, a mapped key pressed is put into
\* the buffer unless it is full.
keyboard_interrupt(code, release) ==
  /\ ~panicked
  /\ code \in ShiftKey => (release <=> code \in held)
  /\ held' = IF code \notin ShiftKey THEN held
             ELSE IF release THEN held \ {code} ELSE held \cup {code}
  /\ down' = IF code \in ShiftKey THEN ShiftState(code, release) ELSE down
  /\ IF code \in Mapped /\ ~release /\ ~Full(inq)
     THEN /\ in_cnt < MaxIn
          /\ input_putc(not_empty)
          /\ pc' = Woken(not_empty)
          /\ serial_notify(inq')
     ELSE UNCHANGED <<in_cnt, inq, not_empty, pc, ier>>
  /\ UNCHANGED <<txq, not_full, in_lock, thre, rbr, mode, console_vars, printed, sent, taken,
                 intr_cnt, panicked>>

ThreadStep(t) ==
  \/ t \in Writer /\ (StartPrint(t) \/ Putchar(t) \/ PutcWait(t) \/ FinishPrint(t))
  \/ t \in Reader /\ (input_getc(t) \/ GetcWoken(t) \/ GetcLocked(t))

TerminalNext ==
  \/ \E t \in Thread : ThreadStep(t)
  \/ serial_init_queue \/ InterruptPrint \/ serial_interrupt
  \/ UartSends \/ UartReceives
  \/ \E code \in Mapped \cup ShiftKey, release \in BOOLEAN : keyboard_interrupt(code, release)

\* What a thread does to finish a call it has begun.
TerminalGoesOn(t) ==
  \/ t \in Writer /\ (Putchar(t) \/ PutcWait(t) \/ FinishPrint(t))
  \/ t \in Reader /\ (GetcWoken(t) \/ GetcLocked(t))
-----------------------------------------------------------------------------
\* Bytes leave the serial port in the order in which they were printed, none
\* lost or sent twice, whether they are polled, queued, printed by a handler or
\* flushed by a panic; and readers get the accepted bytes in order, each once.
BytesInOrder ==
  /\ sent \o txq = printed
  /\ taken \o inq = [i \in 1..in_cnt |-> i]

\* A string that a thread prints is not interrupted by another thread's.
StringsWhole ==
  \A i, j, k \in DOMAIN printed :
    i < j /\ j < k /\ printed[i][1] = printed[k][1] /\ printed[i][1] # NULL
      => printed[j][1] \in {printed[i][1], NULL}

\* In queue mode the UART interrupts while there is something to send and while
\* there is room to receive, so neither direction is ever stuck.
InterruptsEnabled ==
  mode = "QUEUE" /\ ~panicked
    => /\ txq # <<>> <=> "XMIT" \in ier
       /\ ~Full(inq) <=> "RECV" \in ier

\* A thread that sleeps on a queue is the one that the next signal wakes.
WaitersRegistered ==
  \A t \in Thread :
    ~panicked => /\ pc[t] = "full" => not_full = t
                 /\ pc[t] = "waiting" => not_empty = t /\ in_lock = t

\* What the terminal owes its users: bytes in order, strings whole, interrupts
\* enabled when they are needed, sleepers where the next signal finds them, and
\* kbd.c's idea of the shift keys, down exactly while they are held.
TerminalOrderly ==
  BytesInOrder /\ StringsWhole /\ InterruptsEnabled /\ WaitersRegistered /\ down = held

\* A print call that waits for room goes on.
PrintGoesOn == \A t \in Writer : pc[t] = "full" ~> (pc[t] = "idle" \/ panicked)

\* No key stays in the buffer while a reader waits for one.
KeysAreTaken ==
  (inq # <<>> /\ \E t \in Reader : pc[t] # "idle")
    ~> (inq = <<>> \/ (\A t \in Reader : pc[t] = "idle") \/ panicked)
=============================================================================
