----------------------------- MODULE Arithmetic -----------------------------
(***************************************************************************)
(* The 64-bit division of lib/arithmetic.c, which GCC calls and which is   *)
(* made of divisions by the x86 instruction DIVL.  The machine word has W  *)
(* bits, 32 in the code; a long long has 2 * W.                            *)
(***************************************************************************)
EXTENDS Integers

CONSTANT W   \* a power of two

VARIABLES
  n,  \* the operands, as unsigned numbers of 2 * W bits
  d

vars == <<n, d>>

b == 2 ^ W
Long == 0 .. b * b - 1
Trap == -1   \* what divl() yields when the machine raises #DE

hi(x) == x \div b
lo(x) == x % b

divl(num, den) == IF den = 0 \/ num \div den >= b THEN Trap ELSE num \div den

(* The tests against 0x0000FFFF, 0x00FFFFFF, ..., of nlz() halve the step. *)
RECURSIVE NlzFrom(_, _)
NlzFrom(x, step) ==
  LET small == x <= 2 ^ (W - step) - 1
  IN  IF step = 1 THEN (IF small THEN 1 ELSE 0)
      ELSE IF small THEN step + NlzFrom((x * 2 ^ step) % b, step \div 2)
      ELSE NlzFrom(x, step \div 2)
nlz(x) == NlzFrom(x, W \div 2)

(* The estimate q of the quotient is one too large or right.  The          *)
(* arithmetic is that of uint64_t.                                         *)
Corrected(num, den, q) ==
  LET rest == (num - (q - 1) * den) % (b * b)
  IN  IF rest < den THEN (q - 1) % (b * b) ELSE q

udiv64(num, den) ==
  IF hi(den) = 0
  THEN LET low == divl(b * (hi(num) % lo(den)) + lo(num), lo(den))
       IN  IF low = Trap THEN Trap ELSE low + b * (hi(num) \div lo(den))
  ELSE IF num < den THEN 0
  ELSE LET s == nlz(hi(den))
           e == divl(num \div 2, hi((den * 2 ^ s) % (b * b)))
       IN  IF e = Trap THEN Trap ELSE Corrected(num, den, e \div 2 ^ (W - 1 - s))

(* The remainder is returned as a uint32_t.                                *)
umod64(num, den) == (num - den * udiv64(num, den)) % b

(* The value of a long long, and its bits.                                 *)
Signed(x) == IF x >= (b * b) \div 2 THEN x - b * b ELSE x
Bits(x) == x % (b * b)
Abs(x) == IF Signed(x) >= 0 THEN x ELSE Bits(-x)

sdiv64(num, den) ==
  LET q_abs == udiv64(Abs(num), Abs(den))
  IN  IF (Signed(num) < 0) = (Signed(den) < 0) THEN q_abs ELSE Bits(-q_abs)

(* The remainder is returned as an int32_t, then widened to a long long.   *)
smod64(num, den) ==
  LET r == (Signed(num) - Signed(den) * Signed(sdiv64(num, den))) % b
  IN  IF r >= b \div 2 THEN Bits(r - b) ELSE r

(* A call with some operands, then the return.                             *)
Idle == n = 0 /\ d = 1
Init == Idle
Call == Idle /\ n' \in Long /\ d' \in Long \ {0}
Return == ~Idle /\ n' = 0 /\ d' = 1
Next == Call \/ Return
Spec == Init /\ [][Next]_vars

-----------------------------------------------------------------------------
(* C's division truncates.  The one quotient that is not a long long, the  *)
(* smallest number by -1, wraps around.                                    *)
Truncated(num, den) ==
  LET q == (IF num < 0 THEN -num ELSE num) \div (IF den < 0 THEN -den ELSE den)
  IN  IF (num < 0) = (den < 0) THEN q ELSE -q

(* __udivdi3() and __divdi3() return the quotient of any two numbers and   *)
(* DIVL never traps on the way, at the edges of the word and of the long   *)
(* word too.  __umoddi3() and __moddi3() return the remainder when it fits *)
(* the 32 bits that umod64() and smod64() return it in: when the divisor   *)
(* is a uint32_t or, signed, no larger than the largest int32_t plus one.  *)
QuotientExact ==
  /\ udiv64(n, d) = n \div d
  /\ sdiv64(n, d) = Bits(Truncated(Signed(n), Signed(d)))
  /\ d < b => umod64(n, d) = n % d
  /\ Signed(d) \in -(b \div 2) .. (b \div 2) =>
       smod64(n, d) =
         Bits(Signed(n) - Signed(d) * Truncated(Signed(n), Signed(d)))

=============================================================================
