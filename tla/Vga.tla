-------------------------------- MODULE Vga ---------------------------------
(***************************************************************************)
(* The text display (devices/vga.c).  The frame buffer is a sequence of    *)
(* rows of characters, counted from 1; cp is the hardware's cursor.        *)
(* vga_putc() turns interrupts off, so a call is one step.                 *)
(***************************************************************************)
EXTENDS Integers, Sequences

CONSTANTS
  COL_CNT, ROW_CNT,
  TAB,   \* columns between tab stops, 8 in the code
  Char   \* characters with no special meaning

VARIABLES
  fb, cx, cy, inited, cp,
  lines  \* the lines that should be seen, the last one the cursor's

vars == <<fb, cx, cy, inited, cp, lines>>

Space == " "
blank == [x \in 1..COL_CNT |-> Space]

(* The BIOS has written up to the cursor, which it left on the screen.     *)
Init ==
  /\ cp \in 0..COL_CNT * ROW_CNT - 1
  /\ LET y == cp \div COL_CNT
     IN  \E c \in Char :
           /\ fb = [r \in 1..ROW_CNT |-> IF r <= y + 1 THEN [blank EXCEPT ![1] = c] ELSE blank]
           /\ lines = SubSeq(fb, 1, y + 1)
  /\ cx = 0 /\ cy = 0 /\ inited = FALSE

(* Each of the following returns the display [fb, cx, cy] after the call.  *)
clear_row(d, y) == [d EXCEPT !.fb[y + 1] = blank]

cls(d) == [fb |-> [y \in 1..ROW_CNT |-> blank], cx |-> 0, cy |-> 0]

newline(d) ==
  IF d.cy + 1 >= ROW_CNT
  THEN clear_row([fb |-> [y \in 1..ROW_CNT |-> d.fb[IF y < ROW_CNT THEN y + 1 ELSE y]],
                  cx |-> 0, cy |-> ROW_CNT - 1], ROW_CNT - 1)
  ELSE [d EXCEPT !.cx = 0, !.cy = @ + 1]

wrapped(d) == IF d.cx >= COL_CNT THEN newline(d) ELSE d

ROUND_UP(x, step) == ((x + step - 1) \div step) * step

put(d, c) ==
  CASE c = "NL" -> newline(d)
    [] c = "FF" -> cls(d)
    [] c = "BS" -> [d EXCEPT !.cx = IF @ > 0 THEN @ - 1 ELSE @]
    [] c = "CR" -> [d EXCEPT !.cx = 0]
    [] c = "HT" -> wrapped([d EXCEPT !.cx = ROUND_UP(@ + 1, TAB)])
    [] OTHER -> wrapped([d EXCEPT !.fb[d.cy + 1][d.cx + 1] = c, !.cx = @ + 1])

find_cursor == [fb |-> fb, cx |-> cp % COL_CNT, cy |-> cp \div COL_CNT]

init == IF inited THEN [fb |-> fb, cx |-> cx, cy |-> cy] ELSE find_cursor

-----------------------------------------------------------------------------
(* What the control characters mean for an endless roll of paper, of which *)
(* the last ROW_CNT lines are seen: col is the cursor's column.            *)
LastLines(ls) == SubSeq(ls, IF Len(ls) > ROW_CNT THEN Len(ls) - ROW_CNT + 1 ELSE 1, Len(ls))

Typed(ls, col, c) ==
  CASE c = "FF" -> <<blank>>
    [] c = "NL" \/ (c = "HT" /\ col >= COL_CNT - TAB) -> Append(ls, blank)
    [] c \in {"BS", "CR", "HT"} -> ls
    [] OTHER -> LET written == [ls EXCEPT ![Len(ls)][col + 1] = c]
                IN  IF col = COL_CNT - 1 THEN Append(written, blank) ELSE written

vga_putc(c) ==
  LET old == init
      d == put(old, c)
  IN  /\ fb' = d.fb /\ cx' = d.cx /\ cy' = d.cy
      /\ inited' = TRUE
      /\ cp' = d.cx + COL_CNT * d.cy
      /\ lines' = LastLines(Typed(lines, old.cx, c))

Next == \E c \in Char \union {"NL", "FF", "BS", "CR", "HT"} : vga_putc(c)

Spec == Init /\ [][Next]_vars

(* The screen shows the last lines of the text, from the top, and blank    *)
(* rows below; the cursor, the hardware's too, is on the last of them and  *)
(* inside the screen.                                                      *)
DisplayExact ==
  /\ fb = [y \in 1..ROW_CNT |-> IF y <= Len(lines) THEN lines[y] ELSE blank]
  /\ inited =>
       /\ cx \in 0..COL_CNT - 1 /\ cy = Len(lines) - 1
       /\ cp = cx + COL_CNT * cy

=============================================================================
