-------------------------------- MODULE Stdio -------------------------------
(***************************************************************************)
(* Formatted output of lib/stdio.c: what one conversion of a format string *)
(* puts out, and how much of it vsnprintf() keeps in a buffer.             *)
(*                                                                         *)
(* A conversion is the record of its option characters: the flags, the     *)
(* width and the precision (None when there is none; a number from a "*"   *)
(* argument may be negative), the type and the conversion character.       *)
(* What it puts out is a record of its parts in their order: the blanks,   *)
(* the sign, whether there is a "0x", the zeros that pad, the buffer (of   *)
(* digits, the last one first, and commas) and the blanks.  Of a string    *)
(* only the length counts.                                                 *)
(***************************************************************************)
EXTENDS Integers, Sequences, SequencesExt, FiniteSetsExt

CONSTANTS
  Flags,      \* the sets of flag characters a conversion may have
  Width,      \* the widths, the negative ones from "*"
  Precision,  \* the precisions, likewise, and None
  TypeBits,   \* the number of bits of each argument type
  Arg,        \* the arguments, as bit patterns of the longest type
  String,     \* the lengths of the arguments of %s
  BUF,        \* the size of format_integer()'s buf, 64 in the code
  BufSize     \* the buf_size arguments of vsnprintf()

VARIABLE call   \* the conversion in progress, or NoCall

None == -1
Comma == -1
NoCall == [conv |-> "none"]

base_d == [base |-> 10, x |-> FALSE, group |-> 3]
base_o == [base |-> 8,  x |-> FALSE, group |-> 3]
base_x == [base |-> 16, x |-> TRUE,  group |-> 4]   \* and base_X

(* cnt characters that only their number is known of.                      *)
Text(cnt) == [k \in 1 .. cnt |-> 0]

(* The number of characters put out.                                       *)
Length(out) ==
  out.left + (IF out.sign = "none" THEN 0 ELSE 1) + (IF out.x THEN 2 ELSE 0)
    + out.zeros + Len(out.buf) + out.right

(* The options as parse_conversion() leaves them in *c.  A negative width  *)
(* adds MINUS after MINUS was checked against ZERO.                        *)
parse_conversion(f) ==
  LET flags == (f.flags \ IF "-" \in f.flags THEN {"0"} ELSE {})
                        \ IF "+" \in f.flags THEN {" "} ELSE {}
      left  == IF f.width < 0 THEN flags \cup {"-"} ELSE flags
  IN  [flags     |-> IF f.precision >= 0 THEN left \ {"0"} ELSE left,
       width     |-> IF f.width < 0 THEN -f.width ELSE f.width,
       precision |-> IF f.precision < 0 THEN None ELSE f.precision,
       type      |-> f.type]

-----------------------------------------------------------------------------
(* format_integer().                                                       *)
Sign(c, is_signed, negative) ==
  IF ~is_signed THEN "none"
  ELSE IF negative THEN "-"
  ELSE IF "+" \in c.flags THEN "+"
  ELSE IF " " \in c.flags THEN " " ELSE "none"

(* The digits of value > 0 are accumulated in reverse, with a comma        *)
(* between groups.                                                         *)
RECURSIVE Accumulate(_, _, _, _, _)
Accumulate(value, b, c, buf, digit_cnt) ==
  IF value = 0 THEN buf
  ELSE LET comma == IF "'" \in c.flags /\ digit_cnt > 0 /\ digit_cnt % b.group = 0
                    THEN <<Comma>> ELSE << >>
       IN  Accumulate(value \div b.base, b, c, buf \o comma \o <<value % b.base>>, digit_cnt + 1)

(* Zeros until buf, commas included, has as many characters as the         *)
(* precision says, or BUF - 1.                                             *)
WithZeros(buf, c) ==
  LET precision == IF c.precision < 0 THEN 1 ELSE c.precision
      cnt == Min({precision, BUF - 1}) - Len(buf)
  IN  buf \o [k \in 1 .. Max({0, cnt}) |-> 0]

(* buf when the output starts.                                             *)
Buffer(value, b, c) ==
  LET buf == WithZeros(Accumulate(value, b, c, << >>, 0), c)
  IN  IF "#" \in c.flags /\ b.base = 8 /\ (buf = << >> \/ Last(buf) # 0)
      THEN Append(buf, 0) ELSE buf

pad_cnt(c, out) == Max({0, c.width - Length(out)})

format_integer(value, is_signed, negative, b, c) ==
  LET out == [left |-> 0, sign |-> Sign(c, is_signed, negative),
              x |-> "#" \in c.flags /\ value # 0 /\ b.x,
              zeros |-> 0, buf |-> Buffer(value, b, c), right |-> 0]
      pad == pad_cnt(c, out)
  IN  [out EXCEPT !.left  = IF c.flags \cap {"-", "0"} = {} THEN pad ELSE 0,
                  !.zeros = IF "0" \in c.flags THEN pad ELSE 0,
                  !.right = IF "-" \in c.flags THEN pad ELSE 0]

format_string(length, c) ==
  LET pad == Max({0, c.width - length})
  IN  [left |-> IF "-" \in c.flags THEN 0 ELSE pad, sign |-> "none", x |-> FALSE, zeros |-> 0,
       buf |-> Text(length), right |-> IF "-" \in c.flags THEN pad ELSE 0]

(* The message put out instead of a conversion, "<<no %n in kernel>>".     *)
Refusal == [left |-> 0, sign |-> "none", x |-> FALSE, zeros |-> 0, buf |-> Text(19), right |-> 0]

-----------------------------------------------------------------------------
(* __vprintf(): fetch the argument by its type, then convert.              *)
Unsigned(f) == f.arg % 2 ^ TypeBits[f.type]
Signed(f) ==
  LET u == Unsigned(f)
  IN  IF u >= 2 ^ (TypeBits[f.type] - 1) THEN u - 2 ^ TypeBits[f.type] ELSE u

Base(f) == CASE f.conv = "o" -> base_o [] f.conv \in {"x", "X"} -> base_x [] OTHER -> base_d

__vprintf(f) ==
  LET c == parse_conversion(f)
  IN  CASE f.conv \in {"d", "i"} ->
             LET v == Signed(f)
             IN  format_integer(IF v < 0 THEN -v ELSE v, TRUE, v < 0, base_d, c)
        [] f.conv \in {"o", "u", "x", "X"} ->
             format_integer(Unsigned(f), FALSE, FALSE, Base(f), c)
        [] f.conv = "p" ->
             format_integer(Unsigned(f), FALSE, FALSE, base_x, [c EXCEPT !.flags = {"#"}])
        [] f.conv = "c" -> format_string(1, c)
        [] f.conv = "s" ->
             format_string(IF c.precision = None THEN f.string ELSE Min({c.precision, f.string}), c)
        [] OTHER -> Refusal

(* Mutant: no place is left for the terminator.                            *)
vsnprintf_helper_full(aux, ch) ==
  [length |-> aux.length + 1, max_length |-> aux.max_length,
   p |-> IF aux.length <= aux.max_length THEN aux.p + 1 ELSE aux.p]

(* p is where the next character goes, from the start of the buffer.       *)
vsnprintf_helper(aux, ch) ==
  [length |-> aux.length + 1, max_length |-> aux.max_length,
   p |-> IF aux.length < aux.max_length THEN aux.p + 1 ELSE aux.p]

(* Where the terminator goes, the number of bytes of the buffer that are   *)
(* written, and the value returned.                                        *)
vsnprintf(f, buf_size) ==
  LET aux == FoldLeft(vsnprintf_helper,
                      [length |-> 0, p |-> 0, max_length |-> IF buf_size > 0 THEN buf_size - 1 ELSE 0],
                      Text(Length(__vprintf(f))))
  IN  [nul |-> aux.p, written |-> aux.p + IF buf_size > 0 THEN 1 ELSE 0, retval |-> aux.length]

-----------------------------------------------------------------------------
IntegerConv == {"d", "i", "o", "u", "x", "X"}

Init == call = NoCall

CallInteger ==
  /\ call = NoCall
  /\ call' \in [conv : IntegerConv \cup {"p"}, flags : Flags, width : Width,
                precision : Precision, type : DOMAIN TypeBits, arg : Arg]
  /\ call'.conv = "p" => call'.type = "INT"

CallString ==
  /\ call = NoCall
  /\ call' \in [conv : {"s", "c", "n"}, flags : Flags, width : Width,
                precision : Precision, type : {"INT"}, string : String]

Return == call # NoCall /\ call' = NoCall

Next == CallInteger \/ CallString \/ Return

Spec == Init /\ [][Next]_call

-----------------------------------------------------------------------------
(* The number that digits, the last one first, stand for.                  *)
Number(digits, base) == FoldRight(LAMBDA k, n : n * base + k, digits, 0)

(* A conversion of an integer puts out its digits, from which the number   *)
(* can be read back with its sign, in groups when asked to, in a field of  *)
(* exactly the width, or of the length it needs when that is more.  There  *)
(* are as many digits as the precision asks for, except that format_       *)
(* integer() stops adding zeros one short of the end of buf, and that the  *)
(* commas of a grouped number count as digits.  buf is not overrun.  (The  *)
(* field is too wide for a "0" flag and a negative "*" width: it is then   *)
(* padded on both sides.)                                                  *)
IntegerExact ==
  call.conv \in IntegerConv =>
    LET out == __vprintf(call)
        c == parse_conversion(call)
        b == Base(call)
        v == IF call.conv \in {"d", "i"} THEN Signed(call) ELSE Unsigned(call)
        digits == SelectSeq(out.buf, LAMBDA k : k # Comma)
        commas == Len(out.buf) - Len(digits)
        both_sides == "0" \in c.flags /\ "-" \in c.flags
    IN  /\ Number(digits, b.base) = IF v < 0 THEN -v ELSE v
        /\ out.sign = "-" <=> v < 0
        /\ \A k \in DOMAIN out.buf :
             out.buf[k] = Comma => "'" \in c.flags /\ k % (b.group + 1) = 0 /\ k < Len(out.buf)
        /\ Length(out) >= c.width
        /\ Length(out) > c.width /\ ~both_sides => out.left + out.zeros + out.right = 0
        /\ Len(digits) >= Min({IF c.precision < 0 THEN 1 ELSE c.precision, BUF - 1}) - commas
        /\ Len(out.buf) <= BUF

(* vsnprintf() writes at most BUF_SIZE characters to the buffer, ends them *)
(* with a null unless BUF_SIZE is zero, cuts off no more than it has to,   *)
(* and returns the length that the whole output has.                       *)
BufferBounded ==
  call # NoCall => \A size \in BufSize :
    LET r == vsnprintf(call, size)
    IN  /\ r.written <= size
        /\ size > 0 => r.nul = Min({size - 1, Length(__vprintf(call))})
        /\ r.retval = Length(__vprintf(call))

=============================================================================
