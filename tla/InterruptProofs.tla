-------------------------- MODULE InterruptProofs ---------------------------
(***************************************************************************)
(* Proofs about Interrupt, for any threads, vectors and nesting depth.     *)
(***************************************************************************)
EXTENDS Interrupt, SequenceTheorems, TLAPS

(* What the proofs need of the constants: external vectors are the PICs'   *)
(* (intr_register_ext() asserts it), internal ones are not (so does        *)
(* intr_register_int()).                                                   *)
InterruptConstants ==
  /\ External \subseteq 32..47
  /\ DOMAIN Internal \subseteq Int
  /\ \A v \in DOMAIN Internal : ~is_external(v)

Level == {Off, On}
Frame == [vec : Int, flag : Level, pc : {"body", "return"}]

InterruptType ==
  /\ curr \in Thread
  /\ level \in Level
  /\ saved \in [Thread -> Level]
  /\ stack \in [Thread -> Seq(Frame)]
  /\ in_external_intr \in BOOLEAN

(* Frame j of a thread's stack is an external interrupt's.                 *)
ExternalAt(t, j) == is_external(stack[t][j].vec)

(* An external interrupt's frame is on top, and its thread either runs     *)
(* with interrupts off or will.                                            *)
StackOK ==
  \A t \in Thread : \A j \in 1..Len(stack[t]) : ExternalAt(t, j) =>
     /\ j = Len(stack[t])
     /\ t = curr => level = Off
     /\ t # curr => stack[t][j].pc = "return" /\ saved[t] = Off

(* The handler of an external interrupt runs.                              *)
Handling ==
  LET n == Len(stack[curr])
  IN  n > 0 /\ stack[curr][n].pc = "body" /\ ExternalAt(curr, n)

(* What is in service is the interrupt being handled, and the cascade line *)
(* when it came through the slave.                                         *)
ServiceOK ==
  /\ Handling =>
       LET v == stack[curr][Len(stack[curr])].vec
       IN  in_service \subseteq IF v >= 40 THEN {v, Cascade} ELSE {v}
  /\ ~Handling => in_service = {}

(* The inductive invariant.                                                *)
InterruptInv ==
  /\ InterruptType /\ StackOK /\ ServiceOK
  /\ panic = FALSE
  /\ in_external_intr = TRUE <=> Handling

(* A stack after a push.                                                   *)
LEMMA Pushed ==
  ASSUME NEW s \in Seq(Frame), NEW f \in Frame
  PROVE  /\ Append(s, f) \in Seq(Frame)
         /\ Len(Append(s, f)) = Len(s) + 1
         /\ Append(s, f)[Len(s) + 1] = f
         /\ \A j \in 1..Len(s) : Append(s, f)[j] = s[j]
OBVIOUS

(* A stack after a pop.                                                    *)
LEMMA Popped ==
  ASSUME NEW s \in Seq(Frame), s # << >>
  PROVE  /\ Len(s) \in Nat /\ Len(s) > 0
         /\ Front(s) \in Seq(Frame)
         /\ Len(Front(s)) = Len(s) - 1
         /\ \A j \in 1..(Len(s) - 1) : Front(s)[j] = s[j]
<1>1. PICK k \in Nat : k = Len(s) - 1
  OBVIOUS
<1>2. Len(s) = k + 1 /\ \A j \in 1..k : s[j] \in Frame
  BY <1>1
<1>3. Front(s) = SubSeq(s, 1, k)
  BY <1>1 DEF Front
<1>4. /\ SubSeq(s, 1, k) \in Seq(Frame)
      /\ Len(SubSeq(s, 1, k)) = IF 1 <= k THEN k - 1 + 1 ELSE 0
      /\ \A j \in 1..(k - 1 + 1) : SubSeq(s, 1, k)[j] = s[1 + j - 1]
  BY <1>2, SubSeqProperties
<1>5. (IF 1 <= k THEN k - 1 + 1 ELSE 0) = k /\ k - 1 + 1 = k
  OBVIOUS
<1>6. \A j \in 1..k : 1 + j - 1 = j
  OBVIOUS
<1>7. /\ Front(s) \in Seq(Frame)
      /\ Len(Front(s)) = k
      /\ \A j \in 1..k : Front(s)[j] = s[j]
  BY <1>3, <1>4, <1>5, <1>6, Zenon
<1>8. k = Len(s) - 1 /\ Len(s) \in Nat /\ Len(s) > 0
  BY <1>1
<1>9. QED
  BY <1>7, <1>8, Zenon

(* A stack whose top is replaced.                                          *)
LEMMA Retopped ==
  ASSUME NEW s \in Seq(Frame), s # << >>, NEW f \in Frame
  PROVE  /\ Append(Front(s), f) \in Seq(Frame)
         /\ Len(Append(Front(s), f)) = Len(s)
         /\ Append(Front(s), f)[Len(s)] = f
         /\ \A j \in 1..(Len(s) - 1) : Append(Front(s), f)[j] = s[j]
<1> DEFINE r == Front(s)
<1>1. /\ r \in Seq(Frame) /\ Len(s) \in Nat /\ Len(r) = Len(s) - 1
      /\ \A j \in 1..(Len(s) - 1) : r[j] = s[j]
  BY Popped
<1>2. /\ Append(r, f) \in Seq(Frame)
      /\ Len(Append(r, f)) = Len(r) + 1
      /\ Append(r, f)[Len(r) + 1] = f
      /\ \A j \in 1..Len(r) : Append(r, f)[j] = r[j]
  BY <1>1, Pushed
<1> HIDE DEF r
<1>3. Len(r) + 1 = Len(s)
  BY <1>1
<1>4. QED
  BY <1>1, <1>2, <1>3 DEF r

(* Handling is the model's InExternal.                                     *)
LEMMA HandlingIs ==
  ASSUME InterruptType
  PROVE  Handling <=> InExternal
BY DEF Handling, InExternal, InBody, Top, Last, InterruptType, ExternalAt

(* The initial state has no frame.                                         *)
LEMMA InterruptInit == Init => InterruptInv
<1> SUFFICES ASSUME Init PROVE InterruptInv
  OBVIOUS
<1>1. InterruptType
  <2>1. << >> \in Seq(Frame)
    OBVIOUS
  <2>2. in_external_intr \in BOOLEAN
    BY Zenon DEF Init
  <2>3. QED
    BY <2>1, <2>2 DEF Init, InterruptType, Level
<1>2. \A t \in Thread : Len(stack[t]) = 0
  BY DEF Init
<1>3. QED
  BY <1>1, <1>2 DEF Init, InterruptInv, StackOK, ServiceOK, Handling, InterruptType

(* pic_end_of_interrupt() leaves nothing in service.                       *)
LEMMA Acknowledged ==
  ASSUME InterruptInv, Handling
  PROVE  pic_end_of_interrupt(Top.vec) = {}
<1> DEFINE v == Top.vec
<1>1. v \in Int /\ in_service \subseteq IF v >= 40 THEN {v, Cascade} ELSE {v}
  <2>1. Top \in Frame
    BY DEF InterruptInv, Handling, InterruptType, Top, Last
  <2>2. QED
    BY <2>1 DEF InterruptInv, ServiceOK, Top, Last, Frame
<1> HIDE DEF v
<1>2. \A w \in Int : EndOn({w}) = {w}
  <2>1. SUFFICES ASSUME NEW w \in Int PROVE EndOn({w}) = {w}
    OBVIOUS
  <2>2. w \in {w} /\ \A y \in {w} : w <= y
    OBVIOUS
  <2>3. Min({w}) \in {w}
    BY <2>2 DEF Min
  <2>4. QED
    BY <2>3 DEF EndOn
<1>3. CASE v < 40
  <2>1. \A w \in Master : w = v
    BY <1>1, <1>3 DEF Master
  <2>2. in_service \subseteq Master
    BY <1>1, <1>3 DEF Master
  <2>3. Master = {} \/ Master = {v}
    BY <2>1
  <2>4. EndOn(Master) = Master
    BY <1>1, <1>2, <2>3 DEF EndOn
  <2>5. QED
    BY <2>2, <2>4 DEF pic_end_of_interrupt, v
<1>4. CASE v >= 40
  <2>1. (\A w \in Master : w = Cascade) /\ (\A w \in Slave : w = v)
    BY <1>1, <1>4 DEF Master, Slave, Cascade
  <2>2. (Master = {} \/ Master = {Cascade}) /\ (Slave = {} \/ Slave = {v})
    BY <2>1
  <2>3. in_service = Master \cup Slave
    BY DEF Master, Slave
  <2>4. EndOn(Master) = Master /\ EndOn(Slave) = Slave
    <3>1. EndOn({}) = {} /\ Cascade \in Int
      BY DEF EndOn, Cascade
    <3>2. QED
      BY <1>1, <1>2, <2>2, <3>1
  <2>5. QED
    BY <1>4, <2>3, <2>4 DEF pic_end_of_interrupt, v
<1>5. QED
  BY <1>1, <1>3, <1>4

(* Code that may block has no external frame below it.                     *)
LEMMA NoneBelow ==
  ASSUME InterruptInv, InThread
  PROVE  ~Handling /\ \A j \in 1..Len(stack[curr]) : ~ExternalAt(curr, j)
<1>1. ~Handling
  BY HandlingIs DEF InterruptInv, InThread
<1>2. SUFFICES ASSUME NEW j \in 1..Len(stack[curr]), ExternalAt(curr, j) PROVE FALSE
  BY <1>1
<1>3. stack[curr] \in Seq(Frame) /\ j = Len(stack[curr])
  BY <1>2 DEF InterruptInv, StackOK, InterruptType
<1>4. stack[curr][j].pc = "body" \/ stack[curr][j].pc = "return"
  <2>1. stack[curr][j] \in Frame
    BY <1>3
  <2>2. QED
    BY <2>1 DEF Frame
<1>5. QED
  BY <1>1, <1>2, <1>3, <1>4 DEF InThread, Returning, Handling, Top, Last

(* With interrupts on no external frame is there.                          *)
LEMMA NoneWhenOn ==
  ASSUME InterruptInv, level = On
  PROVE  ~Handling /\ \A j \in 1..Len(stack[curr]) : ~ExternalAt(curr, j)
BY DEF InterruptInv, StackOK, InterruptType, Handling, On, Off

(* A step that leaves the stacks and the levels alone.                     *)
LEMMA SameStep ==
  ASSUME InterruptInv,
         UNCHANGED <<curr, level, saved, stack, in_external_intr, in_service, panic>>
  PROVE  InterruptInv'
BY DEF InterruptInv, InterruptType, StackOK, ServiceOK, Handling, ExternalAt

(* A frame is pushed on the running thread's stack, which has no external  *)
(* interrupt's frame.                                                      *)
LEMMA PushStep ==
  ASSUME InterruptInv, NEW v \in Int, Push(v, "body"),
         ~Handling, \A j \in 1..Len(stack[curr]) : ~ExternalAt(curr, j),
         curr' = curr, saved' = saved, level' \in Level,
         is_external(v) => level' = Off,
         panic' = FALSE, in_external_intr' \in BOOLEAN,
         in_external_intr' = TRUE <=> is_external(v),
         IF is_external(v)
           THEN in_service' \subseteq (IF v >= 40 THEN {v, Cascade} ELSE {v})
           ELSE in_service' = {}
  PROVE  InterruptInv'
<1> DEFINE f == [vec |-> v, flag |-> level, pc |-> "body"]
           n == Len(stack[curr])
           s == Append(stack[curr], f)
<1>1. f \in Frame /\ f.vec = v /\ f.pc = "body"
  BY DEF InterruptInv, InterruptType, Frame
<1>2. /\ curr \in Thread /\ stack \in [Thread -> Seq(Frame)]
      /\ stack[curr] \in Seq(Frame) /\ n \in Nat
  BY DEF InterruptInv, InterruptType
<1> HIDE DEF f
<1>3. /\ s \in Seq(Frame) /\ Len(s) = n + 1 /\ s[n + 1] = f
      /\ \A j \in 1..n : s[j] = stack[curr][j]
  BY <1>1, <1>2, Pushed
<1>4. stack' = [stack EXCEPT ![curr] = s]
  BY DEF Push, f
<1> HIDE DEF s
<1>5. /\ stack' \in [Thread -> Seq(Frame)] /\ stack'[curr] = s
      /\ \A t \in Thread : t # curr => stack'[t] = stack[t]
  BY <1>2, <1>3, <1>4
<1>6. InterruptType'
  BY <1>5 DEF InterruptInv, InterruptType
<1>7. StackOK'
  <2> SUFFICES ASSUME NEW t \in Thread, NEW j \in 1..Len(stack'[t]), ExternalAt(t, j)'
               PROVE  /\ j = Len(stack'[t])
                      /\ t = curr' => level' = Off
                      /\ t # curr' => stack'[t][j].pc = "return" /\ saved'[t] = Off
    BY DEF StackOK
  <2>1. CASE t = curr
    <3>1. j \in 1..(n + 1)
      BY <1>3, <1>5, <2>1
    <3>2. j # n + 1 => j \in 1..n
      BY <1>2, <3>1
    <3>3. j = n + 1
      BY <1>3, <1>5, <2>1, <3>2 DEF ExternalAt
    <3>4. is_external(v)
      BY <1>1, <1>3, <1>5, <2>1, <3>3 DEF ExternalAt
    <3>5. QED
      BY <1>3, <1>5, <2>1, <3>3, <3>4
  <2>2. CASE t # curr
    BY <1>5, <2>2 DEF InterruptInv, StackOK, ExternalAt
  <2>3. QED
    BY <2>1, <2>2
<1>8. /\ Handling' <=> is_external(v)
      /\ stack'[curr'][Len(stack'[curr'])].vec = v
  <2>1. Len(stack'[curr']) = n + 1 /\ stack'[curr'][n + 1] = f /\ n + 1 > 0
    BY <1>2, <1>3, <1>5
  <2>2. QED
    BY <1>1, <2>1 DEF Handling, ExternalAt
<1>9. ServiceOK'
  BY <1>8 DEF ServiceOK
<1>10. QED
  BY <1>6, <1>7, <1>8, <1>9 DEF InterruptInv

(* An external interrupt is delivered.                                     *)
LEMMA ExternalStep ==
  ASSUME InterruptConstants, InterruptInv,
         NEW v \in External \union Spurious, external_interrupt(v)
  PROVE  InterruptInv'
<1>1. v \in Int /\ is_external(v)
  BY DEF InterruptConstants, Spurious, is_external
<1>2. ~Handling /\ \A j \in 1..Len(stack[curr]) : ~ExternalAt(curr, j)
  BY NoneWhenOn DEF external_interrupt
<1>3. in_service = {}
  BY <1>2 DEF InterruptInv, ServiceOK
<1>4. in_service' \subseteq IF v >= 40 THEN {v, Cascade} ELSE {v}
  BY <1>1, <1>3 DEF external_interrupt, Delivered
<1>5. in_external_intr = FALSE
  BY <1>2, Zenon DEF InterruptInv, InterruptType
<1>6. /\ panic' = FALSE /\ in_external_intr' = TRUE /\ in_external_intr' \in BOOLEAN
      /\ level' = Off /\ curr' = curr /\ saved' = saved /\ Push(v, "body")
  BY <1>5, Zenon DEF external_interrupt, intr_context
<1>7. level' \in Level
  BY <1>6 DEF Level
<1>8. QED
  BY <1>1, <1>2, <1>4, <1>6, <1>7, PushStep

(* An exception or a system call.                                          *)
LEMMA InternalStep ==
  ASSUME InterruptConstants, InterruptInv, NEW v \in DOMAIN Internal,
         internal_interrupt(v)
  PROVE  InterruptInv'
<1>1. v \in Int /\ ~is_external(v)
  BY DEF InterruptConstants
<1>2. ~Handling /\ \A j \in 1..Len(stack[curr]) : ~ExternalAt(curr, j)
  BY NoneBelow DEF internal_interrupt
<1>3. in_service' = {}
  BY <1>2 DEF InterruptInv, ServiceOK, internal_interrupt
<1>4. level' \in Level
  BY DEF InterruptInv, InterruptType, internal_interrupt, Level
<1>5. /\ panic' = FALSE /\ in_external_intr' \in BOOLEAN /\ ~(in_external_intr' = TRUE)
      /\ curr' = curr /\ saved' = saved /\ Push(v, "body")
  BY <1>2, Zenon DEF InterruptInv, InterruptType, internal_interrupt
<1>6. QED
  BY <1>1, <1>2, <1>3, <1>4, <1>5, PushStep

(* The top frame goes from its handler to its return.                      *)
LEMMA TopReturns ==
  ASSUME InterruptInv, InBody,
         stack' = [stack EXCEPT ![curr] = Append(Front(@), [Top EXCEPT !.pc = "return"])]
  PROVE  /\ stack' \in [Thread -> Seq(Frame)]
         /\ \A t \in Thread : t # curr => stack'[t] = stack[t]
         /\ Len(stack'[curr]) = Len(stack[curr]) /\ Len(stack[curr]) \in Nat
         /\ Len(stack[curr]) > 0
         /\ stack'[curr][Len(stack[curr])].pc = "return"
         /\ \A j \in 1..Len(stack[curr]) : stack'[curr][j].vec = stack[curr][j].vec
<1> DEFINE n == Len(stack[curr])
           f == [Top EXCEPT !.pc = "return"]
           s == Append(Front(stack[curr]), f)
<1>1. /\ curr \in Thread /\ stack \in [Thread -> Seq(Frame)]
      /\ stack[curr] \in Seq(Frame) /\ stack[curr] # << >> /\ n \in Nat /\ n > 0
  BY DEF InterruptInv, InterruptType, InBody
<1>2. Top \in Frame /\ Top = stack[curr][n]
  BY <1>1 DEF Top, Last
<1>3. f \in Frame /\ f.pc = "return" /\ f.vec = stack[curr][n].vec
  BY <1>2 DEF Frame
<1> HIDE DEF f
<1>4. /\ s \in Seq(Frame) /\ Len(s) = n /\ s[n] = f
      /\ \A j \in 1..(n - 1) : s[j] = stack[curr][j]
  BY <1>1, <1>3, Retopped
<1>5. stack' = [stack EXCEPT ![curr] = s]
  BY DEF f
<1> HIDE DEF s
<1>6. /\ stack' \in [Thread -> Seq(Frame)] /\ stack'[curr] = s
      /\ \A t \in Thread : t # curr => stack'[t] = stack[t]
  BY <1>1, <1>4, <1>5
<1>7. ASSUME NEW j \in 1..n PROVE s[j].vec = stack[curr][j].vec
  <2>1. j = n \/ j \in 1..(n - 1)
    BY <1>1
  <2>2. QED
    BY <1>3, <1>4, <2>1
<1>8. QED
  BY <1>1, <1>3, <1>4, <1>6, <1>7

(* The end of intr_handler() for an external interrupt.                    *)
LEMMA ExternalEndStep ==
  ASSUME InterruptInv, external_end
  PROVE  InterruptInv'
<1> DEFINE n == Len(stack[curr])
<1>1. /\ InExternal /\ Handling /\ InBody
  BY HandlingIs DEF InterruptInv, external_end, InExternal
<1>2. /\ stack' \in [Thread -> Seq(Frame)]
      /\ \A t \in Thread : t # curr => stack'[t] = stack[t]
      /\ Len(stack'[curr]) = n /\ n \in Nat /\ n > 0
      /\ stack'[curr][n].pc = "return"
      /\ \A j \in 1..n : stack'[curr][j].vec = stack[curr][j].vec
  BY <1>1, TopReturns DEF external_end
<1>3. level = Off /\ in_external_intr = TRUE
  BY <1>1, <1>2 DEF Handling, InterruptInv, StackOK, InterruptType
<1>4. panic' = FALSE /\ in_external_intr' = FALSE /\ in_external_intr' \in BOOLEAN
  BY <1>3, Zenon DEF external_end, intr_context
<1>5. in_service' = {}
  BY <1>1, Acknowledged DEF external_end
<1>6. /\ curr \in Thread /\ curr' \in Thread
      /\ saved' \in [Thread -> Level] /\ level' \in Level
      /\ \A t \in Thread : t # curr => saved'[t] = saved[t]
      /\ curr' # curr => saved'[curr] = Off /\ level' = saved[curr']
      /\ curr' = curr => level' = Off
  <2>1. CASE yield_on_return
    <3>1. PICK u \in Thread : /\ curr' = u
                              /\ saved' = [saved EXCEPT ![curr] = level]
                              /\ level' = saved'[u]
      BY <2>1 DEF external_end, Switch
    <3>2. QED
      BY <1>3, <3>1 DEF InterruptInv, InterruptType, Level
  <2>2. CASE ~yield_on_return
    <3>1. curr' = curr /\ level' = level /\ saved' = saved
      BY <2>2 DEF external_end
    <3>2. QED
      BY <1>3, <3>1 DEF InterruptInv, InterruptType
  <2>3. QED
    BY <2>1, <2>2
<1>7. InterruptType'
  BY <1>2, <1>4, <1>6 DEF InterruptType
<1>8. StackOK'
  <2> SUFFICES ASSUME NEW t \in Thread, NEW j \in 1..Len(stack'[t]), ExternalAt(t, j)'
               PROVE  /\ j = Len(stack'[t])
                      /\ t = curr' => level' = Off
                      /\ t # curr' => stack'[t][j].pc = "return" /\ saved'[t] = Off
    BY DEF StackOK
  <2>1. CASE t = curr
    <3>1. j \in 1..n /\ ExternalAt(curr, j)
      BY <1>2, <2>1 DEF ExternalAt
    <3>2. j = n
      BY <1>6, <3>1 DEF InterruptInv, StackOK
    <3>3. QED
      BY <1>2, <1>6, <2>1, <3>2
  <2>2. CASE t # curr
    <3>1. /\ j = Len(stack[t]) /\ stack'[t] = stack[t]
          /\ stack[t][j].pc = "return" /\ saved[t] = Off
      BY <1>2, <2>2 DEF InterruptInv, StackOK, ExternalAt
    <3>2. QED
      BY <1>6, <2>2, <3>1
  <2>3. QED
    BY <2>1, <2>2
<1>9. ~Handling'
  <2>1. CASE curr' = curr
    BY <1>2, <2>1 DEF Handling
  <2>2. CASE curr' # curr
    <3> DEFINE u == curr'
               m == Len(stack[u])
    <3>1. u \in Thread /\ u # curr /\ stack'[u] = stack[u] /\ m \in Nat
      BY <1>2, <1>6, <2>2 DEF InterruptInv, InterruptType
    <3>2. m > 0 /\ is_external(stack[u][m].vec) => stack[u][m].pc = "return"
      BY <3>1 DEF InterruptInv, StackOK, ExternalAt
    <3>3. QED
      BY <3>1, <3>2 DEF Handling, ExternalAt
  <2>3. QED
    BY <2>1, <2>2
<1>10. QED
  BY <1>4, <1>5, <1>7, <1>8, <1>9 DEF InterruptInv, ServiceOK

(* The same for an internal one.                                           *)
LEMMA InternalEndStep ==
  ASSUME InterruptInv, internal_end
  PROVE  InterruptInv'
<1> DEFINE n == Len(stack[curr])
<1>1. InBody /\ ~InExternal /\ ~Handling
  BY HandlingIs DEF InterruptInv, internal_end, InExternal
<1>2. /\ stack' \in [Thread -> Seq(Frame)]
      /\ \A t \in Thread : t # curr => stack'[t] = stack[t]
      /\ Len(stack'[curr]) = n /\ n \in Nat /\ n > 0
      /\ stack'[curr][n].pc = "return"
      /\ \A j \in 1..n : stack'[curr][j].vec = stack[curr][j].vec
  BY <1>1, TopReturns DEF internal_end
<1>3. UNCHANGED <<curr, level, saved, in_external_intr, in_service, panic>>
  BY DEF internal_end
<1>4. InterruptType'
  BY <1>2, <1>3 DEF InterruptInv, InterruptType
<1>5. StackOK'
  <2> SUFFICES ASSUME NEW t \in Thread, NEW j \in 1..Len(stack'[t]), ExternalAt(t, j)'
               PROVE  /\ j = Len(stack'[t])
                      /\ t = curr' => level' = Off
                      /\ t # curr' => stack'[t][j].pc = "return" /\ saved'[t] = Off
    BY DEF StackOK
  <2>1. CASE t = curr
    <3>1. j \in 1..n /\ ExternalAt(curr, j)
      BY <1>2, <2>1 DEF ExternalAt
    <3>2. j = n /\ level = Off
      BY <2>1, <3>1 DEF InterruptInv, StackOK
    <3>3. QED
      BY <1>2, <1>3, <2>1, <3>2
  <2>2. CASE t # curr
    BY <1>2, <1>3, <2>2 DEF InterruptInv, StackOK, ExternalAt
  <2>3. QED
    BY <2>1, <2>2
<1>6. ~Handling'
  BY <1>2, <1>3 DEF Handling
<1>7. QED
  BY <1>1, <1>3, <1>4, <1>5, <1>6 DEF InterruptInv, ServiceOK

(* The return from an interrupt pops its frame.                            *)
LEMMA IretStep ==
  ASSUME InterruptInv, iret
  PROVE  InterruptInv'
<1> DEFINE n == Len(stack[curr])
           s == Front(stack[curr])
<1>1. /\ curr \in Thread /\ stack \in [Thread -> Seq(Frame)]
      /\ stack[curr] \in Seq(Frame) /\ stack[curr] # << >>
  BY DEF InterruptInv, InterruptType, iret, Returning
<1>2. /\ n \in Nat /\ n > 0
      /\ s \in Seq(Frame) /\ Len(s) = n - 1
      /\ \A j \in 1..(n - 1) : s[j] = stack[curr][j]
  BY <1>1, Popped
<1>3. stack' = [stack EXCEPT ![curr] = s]
  BY DEF iret
<1> HIDE DEF s
<1>4. /\ stack' \in [Thread -> Seq(Frame)] /\ stack'[curr] = s
      /\ \A t \in Thread : t # curr => stack'[t] = stack[t]
  BY <1>1, <1>2, <1>3
<1>5. UNCHANGED <<curr, saved, in_external_intr, in_service, panic>>
  BY DEF iret
<1>6. Top \in Frame /\ Top = stack[curr][n] /\ Top.pc = "return"
  BY <1>1, <1>2 DEF iret, Returning, Top, Last
<1>7. level' \in Level
  BY <1>6 DEF iret, Frame
<1>8. InterruptType'
  BY <1>4, <1>5, <1>7 DEF InterruptInv, InterruptType
<1>9. \A j \in 1..(n - 1) : ~ExternalAt(curr, j)
  BY <1>1, <1>2 DEF InterruptInv, StackOK
<1>10. \A j \in 1..Len(stack'[curr]) : ~ExternalAt(curr, j)'
  BY <1>2, <1>4, <1>5, <1>9 DEF ExternalAt
<1>11. StackOK'
  BY <1>4, <1>5, <1>10 DEF InterruptInv, StackOK, ExternalAt
<1>12. ~Handling
  BY <1>6 DEF Handling
<1>13. ~Handling'
  <2>1. \A j \in 1..(n - 1) : ~is_external(s[j].vec)
    BY <1>2, <1>9 DEF ExternalAt
  <2>2. Len(stack'[curr']) = n - 1 /\ stack'[curr'] = s
    BY <1>2, <1>4, <1>5
  <2>3. QED
    BY <1>2, <2>1, <2>2 DEF Handling, ExternalAt
<1>14. QED
  BY <1>5, <1>8, <1>11, <1>12, <1>13 DEF InterruptInv, ServiceOK

(* intr_enable() and intr_disable().                                       *)
LEMMA LevelStep ==
  ASSUME InterruptInv, intr_enable \/ intr_disable
  PROVE  InterruptInv'
<1>1. ~Handling /\ \A j \in 1..Len(stack[curr]) : ~ExternalAt(curr, j)
  BY NoneBelow DEF intr_enable, intr_disable
<1>2. in_external_intr = FALSE
  BY <1>1, Zenon DEF InterruptInv, InterruptType
<1>3. panic' = FALSE
  BY <1>2, Zenon DEF InterruptInv, intr_enable, intr_disable, intr_context
<1>4. /\ UNCHANGED <<curr, saved, stack, in_external_intr, in_service>>
      /\ level' \in Level
  BY DEF intr_enable, intr_disable, Level
<1>5. InterruptType'
  BY <1>4 DEF InterruptInv, InterruptType
<1>6. StackOK'
  BY <1>1, <1>4 DEF InterruptInv, StackOK, ExternalAt
<1>7. Handling' <=> Handling
  BY <1>4 DEF Handling, ExternalAt
<1>8. QED
  BY <1>1, <1>3, <1>4, <1>5, <1>6, <1>7 DEF InterruptInv, ServiceOK

(* thread_yield().                                                         *)
LEMMA YieldStep ==
  ASSUME InterruptInv, thread_yield
  PROVE  InterruptInv'
<1>1. ~Handling /\ \A j \in 1..Len(stack[curr]) : ~ExternalAt(curr, j)
  BY NoneBelow DEF thread_yield
<1>2. in_external_intr = FALSE
  BY <1>1, Zenon DEF InterruptInv, InterruptType
<1>3. panic' = FALSE /\ UNCHANGED <<stack, in_external_intr, in_service>>
  BY <1>2, Zenon DEF thread_yield, intr_context
<1>4. PICK u \in Thread : /\ curr' = u
                          /\ saved' = [saved EXCEPT ![curr] = level]
                          /\ level' = saved'[u]
  BY DEF thread_yield, Switch
<1>5. /\ saved' \in [Thread -> Level] /\ level' \in Level
      /\ \A t \in Thread : t # curr => saved'[t] = saved[t]
      /\ u # curr => level' = saved[u]
  BY <1>4 DEF InterruptInv, InterruptType
<1>6. InterruptType'
  BY <1>3, <1>4, <1>5 DEF InterruptInv, InterruptType
<1>7. StackOK'
  BY <1>1, <1>3, <1>4, <1>5 DEF InterruptInv, StackOK, ExternalAt
<1>8. ~Handling'
  <2>1. CASE u = curr
    BY <1>1, <1>3, <1>4, <2>1 DEF Handling, ExternalAt
  <2>2. CASE u # curr
    <3>1. Len(stack[u]) \in Nat
      BY DEF InterruptInv, InterruptType
    <3>2. Len(stack[u]) > 0 /\ ExternalAt(u, Len(stack[u])) =>
             stack[u][Len(stack[u])].pc = "return"
      BY <2>2, <3>1 DEF InterruptInv, StackOK
    <3>3. QED
      BY <1>3, <1>4, <3>2 DEF Handling, ExternalAt
  <2>3. QED
    BY <2>1, <2>2
<1>9. QED
  BY <1>1, <1>2, <1>3, <1>6, <1>7, <1>8 DEF InterruptInv, ServiceOK

(* Registering a handler, and intr_yield_on_return().                      *)
LEMMA OtherStep ==
  ASSUME InterruptInv,
         \/ \E v \in External : intr_register_ext(v)
         \/ \E v \in DOMAIN Internal : intr_register_int(v, Internal[v])
         \/ intr_yield_on_return
         \/ UNCHANGED vars
  PROVE  InterruptInv'
<1>1. UNCHANGED <<curr, level, saved, stack, in_external_intr, in_service, panic>>
  BY Zenon DEF intr_register_ext, intr_register_int, register_handler,
     intr_yield_on_return, vars
<1>2. QED
  BY <1>1, SameStep

(* Every step preserves the invariant.                                     *)
LEMMA InterruptStep ==
  ASSUME InterruptConstants PROVE InterruptInv /\ [Next]_vars => InterruptInv'
<1> SUFFICES ASSUME InterruptInv, [Next]_vars PROVE InterruptInv'
  OBVIOUS
<1>1. CASE \E v \in External \union Spurious : external_interrupt(v)
  BY <1>1, ExternalStep
<1>2. CASE \E v \in DOMAIN Internal : internal_interrupt(v)
  BY <1>2, InternalStep
<1>3. CASE external_end \/ internal_end \/ iret
  BY <1>3, ExternalEndStep, InternalEndStep, IretStep
<1>4. CASE intr_enable \/ intr_disable \/ thread_yield
  BY <1>4, LevelStep, YieldStep
<1>5. CASE \/ \E v \in External : intr_register_ext(v)
           \/ \E v \in DOMAIN Internal : intr_register_int(v, Internal[v])
           \/ intr_yield_on_return
           \/ UNCHANGED vars
  BY <1>5, OtherStep
<1>6. QED
  BY <1>1, <1>2, <1>3, <1>4, <1>5 DEF Next, halted

(* External interrupts are handled one at a time, with interrupts off, on  *)
(* top of the stack of the thread they interrupt; nothing is in service    *)
(* when anything else runs, a thread yielded to on return included; and no *)
(* ASSERT of the dispatcher fails, whatever the nesting of internal        *)
(* interrupts.                                                             *)
THEOREM DispatchSound == ASSUME InterruptConstants PROVE Spec => []InterruptsSound
<1>1. InterruptInv => InterruptsSound
  <2> SUFFICES ASSUME InterruptInv PROVE InterruptsSound
    OBVIOUS
  <2>1. Handling <=> InExternal
    BY HandlingIs DEF InterruptInv
  <2>2. InExternal \in BOOLEAN /\ in_external_intr = InExternal /\ ~panic
    BY <2>1, Zenon DEF InterruptInv, InterruptType, InExternal
  <2>3. InExternal => level = Off
    BY <2>1 DEF InterruptInv, InterruptType, StackOK, Handling
  <2>4. in_service # {} => in_external_intr
    BY <2>1, <2>2 DEF InterruptInv, ServiceOK
  <2>5. QED
    BY <2>2, <2>3, <2>4 DEF InterruptInv, StackOK, ExternalAt, InterruptsSound
<1>2. QED
  BY <1>1, InterruptInit, InterruptStep, PTL DEF Spec
=============================================================================
