----------------------------- MODULE Interrupt ------------------------------
(***************************************************************************)
(* Interrupt dispatch (threads/interrupt.c): handlers, gates, the PICs'    *)
(* end-of-interrupt protocol, nesting on the threads' stacks, and the      *)
(* yield on return.  A gate is its type; a frame is what the processor     *)
(* pushed (the vector, the interrupt flag) and how far intr_handler() is.  *)
(***************************************************************************)
EXTENDS Integers, Sequences, SequencesExt, FiniteSetsExt

CONSTANTS
  Thread,
  External,             \* external vectors that handlers are registered for
  Internal,             \* the level each internal vector is registered with
  MaxDepth              \* interrupts of one thread within another

VARIABLES
  idt,                  \* the gate of each vector with a handler
  curr, level,          \* the running thread, the interrupt flag
  saved,                \* of a thread that does not run: its level on resuming
  stack,                \* of each thread, its interrupt frames
  in_external_intr, yield_on_return,
  in_service,           \* the PICs' in-service registers, by vector
  unexpected,           \* the kernel stopped at an interrupt without a handler
  panic                 \* an ASSERT failed

vars == <<idt, curr, level, saved, stack, in_external_intr, yield_on_return, in_service,
          unexpected, panic>>

Off == "INTR_OFF"
On == "INTR_ON"
Spurious == {39, 47}
Cascade == 34
is_external(v) == v >= 32 /\ v < 48
intr_context == in_external_intr

Init ==
  /\ idt = << >>
  /\ curr \in Thread /\ level = Off /\ saved = [t \in Thread |-> On]
  /\ stack = [t \in Thread |-> << >>]
  /\ in_external_intr = FALSE /\ yield_on_return = FALSE
  /\ in_service = {} /\ unexpected = FALSE /\ panic = FALSE

Alive == ~panic /\ ~unexpected
Top == Last(stack[curr])
InBody == stack[curr] # << >> /\ Top.pc = "body"
Returning == stack[curr] # << >> /\ Top.pc = "return"
InExternal == InBody /\ is_external(Top.vec)
(* Code that may block or be interrupted: a thread's own, or an internal   *)
(* interrupt's handler.                                                    *)
InThread == Alive /\ ~InExternal /\ ~Returning

register_handler(v, lvl) ==
  /\ IF v \in DOMAIN idt THEN panic' = TRUE /\ UNCHANGED idt
     ELSE /\ idt' = [w \in DOMAIN idt \union {v} |->
                       IF w = v THEN (IF lvl = On THEN "trap" ELSE "interrupt") ELSE idt[w]]
          /\ UNCHANGED panic
  /\ UNCHANGED <<curr, level, saved, stack, in_external_intr, yield_on_return, in_service,
                 unexpected>>

(* Drivers register a vector once, at boot or with interrupts already on.  *)
intr_register_ext(v) == InThread /\ v \notin DOMAIN idt /\ register_handler(v, Off)
intr_register_int(v, lvl) == InThread /\ v \notin DOMAIN idt /\ register_handler(v, lvl)

Push(v, pc) ==
  stack' = [stack EXCEPT ![curr] = Append(@, [vec |-> v, flag |-> level, pc |-> pc])]

(* The in-service registers after the PICs deliver v.  A spurious          *)
(* interrupt sets no bit of the chip it comes from.                        *)
Delivered(v) ==
  (IF v \in Spurious \ DOMAIN idt THEN {} ELSE {v}) \union (IF v >= 40 THEN {Cascade} ELSE {})

Master == {v \in in_service : v < 40}
Slave == in_service \ Master

(* Each PIC delivers only what is above all that it has in service.        *)
Deliverable(v) ==
  /\ \A w \in Master : (IF v >= 40 THEN Cascade ELSE v) < w
  /\ v >= 40 => \A w \in Slave : v < w

(* intr_handler() up to the call of the handler, for an external vector.   *)
(* It panics when there is none, unless the interrupt may be spurious.     *)
external_interrupt(v) ==
  /\ Alive /\ level = On /\ Deliverable(v)
  /\ Len(stack[curr]) <= MaxDepth
  /\ in_service' = in_service \union Delivered(v)
  /\ Push(v, "body")
  /\ level' = Off
  /\ panic' = intr_context
  /\ in_external_intr' = TRUE /\ yield_on_return' = FALSE
  /\ unexpected' = (v \notin DOMAIN idt \union Spurious)
  /\ UNCHANGED <<idt, curr, saved>>

(* The same for an exception or a system call.  A trap gate leaves the     *)
(* interrupt flag alone; without a handler the gate is not one.            *)
internal_interrupt(v) ==
  /\ InThread /\ Len(stack[curr]) < MaxDepth
  /\ Push(v, "body")
  /\ level' = IF v \in DOMAIN idt /\ idt[v] = "trap" THEN level ELSE Off
  /\ unexpected' = (v \notin DOMAIN idt)
  /\ UNCHANGED <<idt, curr, saved, in_external_intr, yield_on_return, in_service, panic>>

intr_yield_on_return ==
  /\ Alive /\ InExternal /\ ~yield_on_return
  /\ yield_on_return' = TRUE
  /\ UNCHANGED <<idt, curr, level, saved, stack, in_external_intr, in_service, unexpected, panic>>

(* A PIC clears the bit of highest priority that it has in service.        *)
EndOn(chip) == IF chip = {} THEN {} ELSE {Min(chip)}

(* Mutant: the slave is not acknowledged.                                  *)
pic_end_of_interrupt_master(irq) == in_service \ EndOn(Master)

pic_end_of_interrupt(irq) ==
  in_service \ (EndOn(Master) \union IF irq >= 40 THEN EndOn(Slave) ELSE {})

(* thread_yield(): another thread, or the same one, resumes.               *)
Switch(lvl) ==
  \E u \in Thread :
    /\ curr' = u
    /\ saved' = [saved EXCEPT ![curr] = lvl]
    /\ level' = saved'[u]

(* The end of intr_handler() for an external interrupt, up to the return   *)
(* to its stub.                                                            *)
external_end ==
  /\ Alive /\ InExternal
  /\ panic' = (level # Off \/ ~intr_context)
  /\ in_external_intr' = FALSE
  /\ in_service' = pic_end_of_interrupt(Top.vec)
  /\ stack' = [stack EXCEPT ![curr] = Append(Front(@), [Top EXCEPT !.pc = "return"])]
  /\ IF yield_on_return THEN Switch(level) ELSE UNCHANGED <<curr, level, saved>>
  /\ UNCHANGED <<idt, yield_on_return, unexpected>>

internal_end ==
  /\ Alive /\ InBody /\ ~is_external(Top.vec)
  /\ stack' = [stack EXCEPT ![curr] = Append(Front(@), [Top EXCEPT !.pc = "return"])]
  /\ UNCHANGED <<idt, curr, level, saved, in_external_intr, yield_on_return, in_service, unexpected,
                 panic>>

iret ==
  /\ Alive /\ Returning
  /\ stack' = [stack EXCEPT ![curr] = Front(@)]
  /\ level' = Top.flag
  /\ UNCHANGED <<idt, curr, saved, in_external_intr, yield_on_return, in_service, unexpected,
                 panic>>

intr_enable ==
  /\ InThread
  /\ panic' = intr_context
  /\ level' = On
  /\ UNCHANGED <<idt, curr, saved, stack, in_external_intr, yield_on_return, in_service, unexpected>>

intr_disable ==
  /\ InThread
  /\ level' = Off
  /\ UNCHANGED <<idt, curr, saved, stack, in_external_intr, yield_on_return, in_service, unexpected,
                 panic>>

thread_yield ==
  /\ InThread
  /\ panic' = intr_context
  /\ Switch(level)
  /\ UNCHANGED <<idt, stack, in_external_intr, yield_on_return, in_service, unexpected>>

(* The loop that debug_panic() ends in.                                    *)
halted == unexpected /\ UNCHANGED vars

Next ==
  \/ \E v \in External : intr_register_ext(v)
  \/ \E v \in DOMAIN Internal : intr_register_int(v, Internal[v])
  \/ \E v \in External \union Spurious : external_interrupt(v)
  \/ \E v \in DOMAIN Internal : internal_interrupt(v)
  \/ intr_yield_on_return \/ external_end \/ internal_end \/ iret
  \/ intr_enable \/ intr_disable \/ thread_yield
  \/ halted

Spec == Init /\ [][Next]_vars

-----------------------------------------------------------------------------
(* External interrupts are handled one at a time with interrupts off, on   *)
(* top of the stack of the thread they interrupt, and never twice on one   *)
(* stack; intr_context() is true exactly then; whenever anything else runs *)
(* no PIC has an interrupt in service, so every line can interrupt again,  *)
(* a yield on return included; and no ASSERT of the dispatcher fails.      *)
InterruptsSound ==
  /\ ~panic
  /\ in_external_intr = InExternal
  /\ InExternal => level = Off
  /\ in_service # {} => in_external_intr
  /\ \A t \in Thread : \A j \in 1..Len(stack[t]) :
       is_external(stack[t][j].vec) =>
         /\ j = Len(stack[t])
         /\ t # curr => stack[t][j].pc = "return" /\ saved[t] = Off

=============================================================================
