------------------------------- MODULE Serial -------------------------------
(***************************************************************************)
(* The serial port of devices/serial.c and the input buffer of             *)
(* devices/input.c: two interrupt queues, tx for bytes to send and rx for  *)
(* keys to read, coupled by the UART's interrupt enable register, which    *)
(* every change of either queue has to keep up to date.                    *)
(*                                                                         *)
(* Threads and handlers run the code with interrupts off, in one step up   *)
(* to the point where they block.  Loops that look at the UART again and   *)
(* again take a step for each turn, and hold the CPU in between.           *)
(***************************************************************************)
EXTENDS Integers

CONSTANTS
  Reader,        \* the thread that calls input_getc()
  Writer,        \* the thread that calls serial_putc() with interrupts on
  Byte, NULL, INTQ_BUFSIZE

ASSUME SerialAssumption ==
  /\ Reader \cap Writer = {}
  /\ NULL \notin Reader \cup Writer
  /\ INTQ_BUFSIZE \in Nat \ {0, 1}

VARIABLES
  rx_buf, rx_head, rx_tail, rx_not_full, rx_not_empty, rx_holder, rx_pc,
  rx_byte, rx_out, rx_panic,   \* the input buffer
  tx_buf, tx_head, tx_tail, tx_not_full, tx_not_empty, tx_holder, tx_pc,
  tx_byte, tx_out, tx_panic,   \* the transmit queue, txq
  mode,    \* transmission mode
  ready,   \* serial_init_queue() has returned
  ier,     \* the interrupt enable register
  cpu,     \* which loop holds the CPU with interrupts off, or "free"
  dr,      \* UART: a received byte is in RBR
  thre,    \* UART: THR is empty
  thri     \* UART: the interrupt for an empty THR is pending

rxVars == <<rx_buf, rx_head, rx_tail, rx_not_full, rx_not_empty, rx_holder,
            rx_pc, rx_byte, rx_out, rx_panic>>
txVars == <<tx_buf, tx_head, tx_tail, tx_not_full, tx_not_empty, tx_holder,
            tx_pc, tx_byte, tx_out, tx_panic>>
vars == <<rxVars, txVars, mode, ready, ier, cpu, dr, thre, thri>>

rx == INSTANCE Intq WITH
  Writer <- {}, IntrGet <- FALSE, IntrPut <- TRUE,
  buf <- rx_buf, head <- rx_head, tail <- rx_tail, not_full <- rx_not_full,
  not_empty <- rx_not_empty, holder <- rx_holder, pc <- rx_pc,
  byte <- rx_byte, out <- rx_out, panic <- rx_panic

tx == INSTANCE Intq WITH
  Reader <- {}, IntrGet <- TRUE, IntrPut <- TRUE,
  buf <- tx_buf, head <- tx_head, tail <- tx_tail, not_full <- tx_not_full,
  not_empty <- tx_not_empty, holder <- tx_holder, pc <- tx_pc,
  byte <- tx_byte, out <- tx_out, panic <- tx_panic

SerialTypeOK ==
  /\ rx!TypeOK /\ tx!TypeOK
  /\ mode \in {"UNINIT", "POLL", "QUEUE"}
  /\ ier \subseteq {"XMIT", "RECV"}
  /\ cpu \in {"free", "recv", "xmit", "putc", "flush"}
  /\ {ready, dr, thre, thri} \subseteq BOOLEAN

SerialInit ==
  /\ rx!Init /\ tx!Init
  /\ mode = "UNINIT"
  /\ ready = FALSE
  /\ ier = {}
  /\ cpu = "free"
  /\ dr = FALSE /\ thre = TRUE /\ thri = FALSE

Free == cpu = "free" /\ ~rx_panic /\ ~tx_panic

-----------------------------------------------------------------------------
(* Mutant: the receive interrupt is always enabled.                        *)
write_ier_recv ==
  /\ ier' = (IF tx!intq_empty' THEN {} ELSE {"XMIT"}) \cup {"RECV"}
  /\ thri' = (thri \/ ("XMIT" \in ier' \ ier /\ thre))

(* write_ier(), after the queues have changed.  A UART whose THR is empty  *)
(* raises its interrupt when that interrupt is enabled.                    *)
write_ier ==
  /\ ier' = (IF tx!intq_empty' THEN {} ELSE {"XMIT"})
            \cup (IF rx!intq_full' THEN {} ELSE {"RECV"})
  /\ thri' = (thri \/ ("XMIT" \in ier' \ ier /\ thre))

serial_notify == IF mode = "QUEUE" THEN write_ier ELSE UNCHANGED <<ier, thri>>

(* outb (THR_REG, ...), which waits in putc_poll() until THR is empty.     *)
SendByte == thre /\ thre' = FALSE /\ thri' = FALSE

(* serial_init_queue(): the mode changes with interrupts on ...            *)
serial_init_queue ==
  /\ Free /\ mode # "QUEUE"
  /\ mode' = "QUEUE"
  /\ UNCHANGED <<rxVars, txVars, ready, ier, cpu, dr, thre, thri>>

(* ... and the register is written next.                                   *)
init_write_ier ==
  /\ Free /\ mode = "QUEUE" /\ ~ready
  /\ UNCHANGED <<rxVars, txVars, mode, cpu, dr, thre>>
  /\ write_ier
  /\ ready' = TRUE

-----------------------------------------------------------------------------
(* serial_putc() before the queue is in use: init_poll(), putc_poll().     *)
putc_poll ==
  /\ Free /\ mode # "QUEUE"
  /\ mode' = "POLL"
  /\ SendByte
  /\ UNCHANGED <<rxVars, txVars, ready, ier, cpu, dr>>

(* The end of serial_putc(), reached when intq_putc() has not blocked.     *)
PutDone(t) == IF tx_pc'[t] = "idle" THEN write_ier ELSE UNCHANGED <<ier, thri>>

(* serial_putc() by a thread with interrupts on: it waits if txq is full.  *)
serial_putc(t) ==
  /\ Free /\ mode = "QUEUE"
  /\ \/ \E b \in Byte : tx!intq_putc(t, b)
     \/ tx!resume(t)
  /\ UNCHANGED <<rxVars, mode, ready, cpu, dr, thre>>
  /\ PutDone(t)

(* serial_putc() with interrupts off does not wait: if txq is full it      *)
(* sends the oldest byte itself ...                                        *)
putc_make_room ==
  /\ Free /\ mode = "QUEUE"
  /\ tx!intq_full
  /\ tx!intr_getc
  /\ SendByte
  /\ cpu' = "putc"
  /\ UNCHANGED <<rxVars, mode, ready, ier, dr>>

(* ... and then there is room.                                             *)
putc_intr_off ==
  /\ ~rx_panic /\ ~tx_panic /\ mode = "QUEUE"
  /\ cpu \in {"free", "putc"}
  /\ \E b \in Byte : tx!intr_putc(b)
  /\ cpu' = "free"
  /\ UNCHANGED <<rxVars, mode, ready, dr, thre>>
  /\ write_ier

(* serial_flush(): everything is sent by polling, and the register is left *)
(* as it was.                                                              *)
serial_flush ==
  /\ Free \/ cpu = "flush"
  /\ \/ ~tx!intq_empty /\ tx!intr_getc /\ SendByte /\ cpu' = "flush"
     \/ cpu = "flush" /\ tx!intq_empty /\ cpu' = "free"
        /\ UNCHANGED <<txVars, thre, thri>>
  /\ UNCHANGED <<rxVars, mode, ready, ier, dr>>

-----------------------------------------------------------------------------
(* input_getc(), which waits if the buffer is empty.                       *)
input_getc(t) ==
  /\ Free
  /\ rx!intq_getc(t) \/ rx!resume(t)
  /\ UNCHANGED <<txVars, mode, ready, cpu, dr, thre>>
  /\ IF rx_pc'[t] = "idle" THEN serial_notify ELSE UNCHANGED <<ier, thri>>

(* input_putc(), whose callers have seen that the buffer has room.         *)
input_putc ==
  /\ \E b \in Byte : rx!intr_putc(b)
  /\ UNCHANGED txVars
  /\ serial_notify

(* keyboard_interrupt(), of a key with a character.                        *)
keyboard_interrupt ==
  /\ Free
  /\ ~rx!intq_full
  /\ input_putc
  /\ UNCHANGED <<mode, ready, cpu, dr, thre>>

(* serial_interrupt(): reading IIR takes back the interrupt it reports,    *)
(* unless that is the one for a received byte ...                          *)
Received == "RECV" \in ier /\ dr

serial_interrupt ==
  /\ Free
  /\ Received \/ ("XMIT" \in ier /\ thri)
  /\ thri' = (thri /\ Received)
  /\ cpu' = "recv"
  /\ UNCHANGED <<rxVars, txVars, mode, ready, ier, dr, thre>>

(* Mutant: nothing is received.                                            *)
intr_recv_none ==
  /\ cpu = "recv" /\ ~rx_panic
  /\ cpu' = "xmit"
  /\ UNCHANGED <<rxVars, txVars, mode, ready, ier, dr, thre, thri>>

(* ... bytes are received while there are any and there is room ...        *)
intr_recv ==
  /\ cpu = "recv" /\ ~rx_panic
  /\ \/ ~rx!intq_full /\ dr /\ dr' = FALSE /\ input_putc /\ UNCHANGED cpu
     \/ (rx!intq_full \/ ~dr) /\ cpu' = "xmit"
        /\ UNCHANGED <<rxVars, txVars, ier, dr, thri>>
  /\ UNCHANGED <<mode, ready, thre>>

(* Mutant: nothing is sent.                                                *)
intr_xmit_none ==
  /\ cpu = "xmit" /\ ~tx_panic
  /\ cpu' = "free"
  /\ UNCHANGED <<rxVars, txVars, mode, ready, dr, thre>>
  /\ write_ier

(* ... and sent while there are any and the UART takes them.               *)
intr_xmit ==
  /\ cpu = "xmit" /\ ~tx_panic
  /\ \/ ~tx!intq_empty /\ tx!intr_getc /\ SendByte /\ UNCHANGED <<ier, cpu>>
     \/ /\ tx!intq_empty \/ ~thre
        /\ cpu' = "free"
        /\ UNCHANGED <<rxVars, txVars, thre>>
        /\ write_ier
  /\ UNCHANGED <<rxVars, mode, ready, dr>>

(* The UART receives a byte, or has sent the one in THR.                   *)
UartReceives ==
  /\ ~dr
  /\ dr' = TRUE
  /\ UNCHANGED <<rxVars, txVars, mode, ready, ier, cpu, thre, thri>>

UartSends ==
  /\ ~thre
  /\ thre' = TRUE
  /\ thri' = TRUE
  /\ UNCHANGED <<rxVars, txVars, mode, ready, ier, cpu, dr>>

Next ==
  \/ serial_init_queue \/ init_write_ier
  \/ putc_poll \/ putc_make_room \/ putc_intr_off \/ serial_flush
  \/ \E t \in Writer : serial_putc(t)
  \/ \E t \in Reader : input_getc(t)
  \/ keyboard_interrupt
  \/ serial_interrupt \/ intr_recv \/ intr_xmit
  \/ UartReceives \/ UartSends

Spec == SerialInit /\ [][Next]_vars

(* The UART sends what it is given; what holds the CPU goes on; the        *)
(* interrupt controller keeps a request pending while interrupts are off;  *)
(* a thread that was woken runs.  Nothing obliges a thread to read, to     *)
(* write, or to poll.                                                      *)
FairSpec ==
  /\ Spec
  /\ WF_vars(UartSends)
  /\ WF_vars(init_write_ier)
  /\ WF_vars(cpu = "putc" /\ putc_intr_off)
  /\ WF_vars(cpu = "flush" /\ serial_flush)
  /\ WF_vars(intr_recv) /\ WF_vars(intr_xmit)
  /\ SF_vars(serial_interrupt)
  /\ \A t \in Writer : SF_vars(tx_pc[t] = "woken" /\ serial_putc(t))
  /\ \A t \in Reader : SF_vars(rx_pc[t] = "woken" /\ input_getc(t))

-----------------------------------------------------------------------------
(* Properties.                                                             *)

(* No ASSERT of intq.c or input.c fails on either queue, with one thread   *)
(* at each and handlers, polling and flushes in between.                   *)
SerialNoPanic == ~rx_panic /\ ~tx_panic

(* Whenever interrupts are on, the register agrees with the two queues:    *)
(* bytes to send can never wait with their interrupt disabled, and the     *)
(* UART interrupts for a received byte exactly when there is room for it.  *)
(* And no ASSERT fails.                                                    *)
IerMatchesQueues ==
  /\ SerialTypeOK /\ SerialNoPanic
  /\ ready /\ cpu = "free" =>
       /\ ~tx!intq_empty => "XMIT" \in ier
       /\ "RECV" \in ier <=> ~rx!intq_full

(* A byte is never left in txq: the oldest one goes out, whatever the      *)
(* threads do next.                                                        *)
BytesSent ==
  \A p \in tx!Pos : (~tx!intq_empty /\ tx_tail = p) ~> tx_tail # p

(* A writer that waits for room gets its byte in, unless serial_putc()     *)
(* with interrupts off keeps taking the room that it was woken for.        *)
WriterReturns == tx!PutcReturns \/ []<><<putc_intr_off>>_vars

(* A byte the UART has received is taken while there is room, also after   *)
(* the receive interrupt was disabled because there was none; and a reader *)
(* that waits gets a key once there is one.                                *)
InputResumes ==
  /\ (ready /\ dr /\ ~rx!intq_full) ~> (~dr \/ rx!intq_full)
  /\ rx!GetcReturns
=============================================================================
