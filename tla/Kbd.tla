-------------------------------- MODULE Kbd ---------------------------------
(***************************************************************************)
(* The keyboard's interrupt handler (devices/kbd.c).  Scancodes and        *)
(* characters are numbers.  A key that sends a prefix has both bytes ready *)
(* when its interrupt is handled.                                          *)
(***************************************************************************)
EXTENDS Integers, Sequences

CONSTANTS
  Key,       \* scancodes of the keys that are pressed, prefix included
  BufSize    \* characters the input buffer holds

VARIABLES
  shift_state,   \* the shift keys' variables, by scancode
  caps_lock,
  buffer,        \* the input buffer (devices/input.c)
  held,          \* the shift keys that are down
  expected       \* the characters the reader should find

vars == <<shift_state, caps_lock, buffer, held, expected>>

Prefix == 224 * 256
left_shift == 42
right_shift == 54
left_alt == 56
right_alt == Prefix + 56
left_ctrl == 29
right_ctrl == Prefix + 29
shift_keys == {left_shift, right_shift, left_alt, right_alt, left_ctrl, right_ctrl}
CapsLock == 58

(* Runs of scancodes and the ASCII codes of their characters.              *)
invariant_keymap ==
  {<<1, <<27>>>>, <<14, <<8>>>>,
   <<15, <<9, 81, 87, 69, 82, 84, 89, 85, 73, 79, 80>>>>,
   <<28, <<13>>>>, <<30, <<65, 83, 68, 70, 71, 72, 74, 75, 76>>>>,
   <<44, <<90, 88, 67, 86, 66, 78, 77>>>>, <<55, <<42>>>>, <<57, <<32>>>>}

unshifted_keymap ==
  {<<2, <<49, 50, 51, 52, 53, 54, 55, 56, 57, 48, 45, 61>>>>, <<26, <<91, 93>>>>,
   <<39, <<59, 39, 96>>>>, <<43, <<92>>>>, <<51, <<44, 46, 47>>>>}

shifted_keymap ==
  {<<2, <<33, 64, 35, 36, 37, 94, 38, 42, 40, 41, 95, 43>>>>, <<26, <<123, 125>>>>,
   <<39, <<58, 34, 126>>>>, <<43, <<124>>>>, <<51, <<60, 62, 63>>>>}

(* The characters map_key() finds, none or one.                            *)
map_key(k, scancode) ==
  {run[2][scancode - run[1] + 1] :
     run \in {r \in k : scancode >= r[1] /\ scancode < r[1] + Len(r[2])}}

tolower(c) == IF c \in 65..90 THEN c + 32 ELSE c

Init ==
  /\ shift_state = [k \in shift_keys |-> FALSE] /\ caps_lock = FALSE
  /\ buffer = << >> /\ held = {} /\ expected = << >>

shift == shift_state[left_shift] \/ shift_state[right_shift]
alt == shift_state[left_alt] \/ shift_state[right_alt]
ctrl == shift_state[left_ctrl] \/ shift_state[right_ctrl]

chars(code) ==
  map_key(invariant_keymap, code)
    \union map_key(IF shift THEN shifted_keymap ELSE unshifted_keymap, code)

modified(c) ==
  LET d == IF ctrl /\ c >= 64 /\ c < 96 THEN c - 64
           ELSE IF shift = caps_lock THEN tolower(c) ELSE c
  IN  IF alt THEN d + 128 ELSE d

keyboard_interrupt(code, release) ==
  \/ /\ code = CapsLock
     /\ caps_lock' = IF release THEN caps_lock ELSE ~caps_lock
     /\ UNCHANGED <<shift_state, buffer>>
  \/ /\ code # CapsLock
     /\ \E c \in chars(code) :
          buffer' = IF release \/ Len(buffer) = BufSize THEN buffer
                    ELSE Append(buffer, modified(c))
     /\ UNCHANGED <<shift_state, caps_lock>>
  \/ /\ code # CapsLock /\ chars(code) = {}
     /\ shift_state' = IF code \in shift_keys THEN [shift_state EXCEPT ![code] = ~release]
                       ELSE shift_state
     /\ UNCHANGED <<caps_lock, buffer>>

-----------------------------------------------------------------------------
(* The plain and the shifted character of some keys.                       *)
Legend == [A |-> <<97, 65>>, TWO |-> <<50, 64>>, BRACKET |-> <<91, 123>>, SPACE |-> <<32, 32>>]
LegendOf(key) ==
  CASE key = 30 -> <<Legend.A>> [] key = 3 -> <<Legend.TWO>> [] key = 26 -> <<Legend.BRACKET>>
    [] key = 57 -> <<Legend.SPACE>> [] OTHER -> << >>

(* What a key types, from the keys held: Ctrl makes letters and @[\]^_     *)
(* control codes, Caps Lock inverts Shift for letters, Alt adds 128.       *)
Types(l) ==
  LET s == held \intersect {left_shift, right_shift} # {}
      letter == l = Legend.A
      c == IF s # (letter /\ caps_lock) THEN l[2] ELSE l[1]
      d == IF held \intersect {left_ctrl, right_ctrl} = {} THEN c
           ELSE IF letter THEN 1 ELSE IF c \in 64..95 THEN c - 64 ELSE c
  IN  IF held \intersect {left_alt, right_alt} = {} THEN d ELSE d + 128

press(key) ==
  /\ keyboard_interrupt(key, FALSE)
  /\ held' = held \union ({key} \intersect shift_keys)
  /\ expected' = IF LegendOf(key) = << >> \/ Len(expected) = BufSize THEN expected
                 ELSE Append(expected, Types(LegendOf(key)[1]))

release_key(key) ==
  /\ keyboard_interrupt(key, TRUE)
  /\ held' = held \ {key}
  /\ UNCHANGED expected

input_getc ==
  /\ buffer # << >> /\ buffer' = Tail(buffer)
  /\ expected' = IF expected = << >> THEN << >> ELSE Tail(expected)
  /\ UNCHANGED <<shift_state, caps_lock, held>>

Next == input_getc \/ \E key \in Key : press(key) \/ release_key(key)

Spec == Init /\ [][Next]_vars

(* Whatever keys were pressed and released before, in whatever order, the  *)
(* handler believes held exactly the shift keys that are, a shift that     *)
(* comes with a prefix not being one of them; and the reader finds the     *)
(* character that each key types under the keys held with it.              *)
KeysExact ==
  /\ \A k \in shift_keys : shift_state[k] = (k \in held)
  /\ buffer = expected

=============================================================================
