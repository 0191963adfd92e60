-------------------------------- MODULE Keyboard --------------------------------
(***************************************************************************)
(* kbdgetc() (kbd.c): scan codes in, the state of the modifier keys out.   *)
(* A key sends its code when pressed and the code + 128 when released; the *)
(* keys right of the main block send the byte E0 first.  An interrupt may  *)
(* come between any two bytes, and the state is kept in static variables.  *)
(***************************************************************************)
EXTENDS Integers, Sequences, FiniteSets

VARIABLES
  shift,     \* the bits of the static variable shift
  down,      \* keys that are held
  fifo       \* bytes the controller has not handed over

kbdVars == <<shift, down, fifo>>

E0 == 224
E0ESC == "E0ESC"

\* A key: its code, and whether it is announced by E0.  Two Shift keys, two Control,
\* two Alt, Caps Lock, a letter, an arrow and the E0 2A pair that Print Screen sends.
KeyCaps == {<<42, FALSE>>, <<54, FALSE>>, <<29, FALSE>>, <<29, TRUE>>, <<56, FALSE>>, <<56, TRUE>>,
            <<58, FALSE>>, <<30, FALSE>>, <<75, TRUE>>, <<42, TRUE>>}

shiftcode[d \in 0..255] == CASE d \in {29, 157} -> {"CTL"}
                             [] d \in {42, 54} -> {"SHIFT"}
                             [] d \in {56, 184} -> {"ALT"}
                             [] OTHER -> {}

togglecode[d \in 0..255] == CASE d = 58 -> {"CAPSLOCK"}
                              [] d = 69 -> {"NUMLOCK"}
                              [] d = 70 -> {"SCROLLLOCK"}
                              [] OTHER -> {}

KbdInit == shift = {} /\ down = {} /\ fifo = <<>>

\* The keyboard: at most MaxHeld keys at once.
MaxHeld == 3

KeyEvent(k, released) ==
  /\ fifo = <<>>
  /\ released = (k \in down)
  /\ ~released => Cardinality(down) < MaxHeld
  /\ down' = IF released THEN down \ {k} ELSE down \cup {k}
  /\ fifo' = (IF k[2] THEN <<E0>> ELSE <<>>) \o <<k[1] + (IF released THEN 128 ELSE 0)>>
  /\ UNCHANGED shift

\* A release looked up without taking the release bit off.
ReleasedRaw(data) == shift \ (shiftcode[data] \cup {E0ESC})

\* The second branch of kbdgetc(): a key is released.
Released(data) ==
  shift \ (shiftcode[IF E0ESC \in shift THEN data ELSE data % 128] \cup {E0ESC})

\* The rest of kbdgetc(): a key is pressed.
Pressed(data) ==
  LET d == IF E0ESC \in shift THEN data + 128 ELSE data
      s == (shift \ {E0ESC}) \cup shiftcode[d]
  IN (s \cup togglecode[d]) \ (s \cap togglecode[d])

\* kbdgetc() with a byte in the controller.
KbdGetc ==
  /\ fifo # <<>>
  /\ shift' = LET data == Head(fifo) IN
              IF data = E0 THEN shift \cup {E0ESC}
              ELSE IF data >= 128 THEN Released(data) ELSE Pressed(data)
  /\ fifo' = Tail(fifo)
  /\ UNCHANGED down

KbdNext == KbdGetc \/ \E k \in KeyCaps, released \in BOOLEAN : KeyEvent(k, released)

(***************************************************************************)
(* Properties.                                                             *)
(***************************************************************************)

ModifiersOf(k) == CASE k[1] = 29 -> {"CTL"} [] k[1] = 56 -> {"ALT"}
                    [] k \in {<<42, FALSE>>, <<54, FALSE>>} -> {"SHIFT"}
                    [] OTHER -> {}

\* A modifier does not stick, whatever keys are pressed and released in whatever order:
\* once every byte is handed over, the bits set belong to keys that are held, and the
\* escape of a two-byte code is not left for the next key.
NoStuckModifier ==
  fifo = <<>> => shift \ {"CAPSLOCK", "NUMLOCK", "SCROLLLOCK"} \subseteq UNION {ModifiersOf(k) : k \in down}
================================================================================
