------------------------------ MODULE Keyboard ------------------------------
(***************************************************************************)
(* kbd_proc_data of kern/console.c: the scan codes of the keyboard         *)
(* controller become characters, under the modifiers in shift.  A person   *)
(* presses and releases keys; the controller queues their codes; the       *)
(* kernel polls and reads one byte at a time.                              *)
(*                                                                         *)
(* A key is its code (below 0x80) and whether 0xE0 precedes it.  Bytes are *)
(* numbers, the flags of shift a set.  Of the character tables the keys    *)
(* that matter here are kept: KEY_DEL, a letter, and the keys without a    *)
(* character.                                                              *)
(***************************************************************************)
EXTENDS Routine, Sequences, FiniteSetsExt

CONSTANTS Key,          \* the keys of the keyboard: [code, e0]
          MaxBytes      \* bound on the controller's queue

E0 == 224               \* 0xE0

(* No keyboard has a key of code 0x60: its release would read as 0xE0. *)
ASSUME KeyAssumption ==
  /\ MaxBytes \in Nat
  /\ Key \subseteq [code : 1 .. 127 \ {E0 - 128}, e0 : BOOLEAN]

(* shiftcode[data], as a set: 0x1D, 0x9D; 0x2A, 0x36; 0x38, 0xB8. *)
shiftcode(data) ==
  CASE data \in {29, 157} -> {"CTL"}
    [] data \in {42, 54} -> {"SHIFT"}
    [] data \in {56, 184} -> {"ALT"}
    [] OTHER -> {}

(* togglecode[data]: 0x3A, 0x45, 0x46. *)
togglecode(data) ==
  CASE data = 58 -> {"CAPSLOCK"}
    [] data = 69 -> {"NUMLOCK"}
    [] data = 70 -> {"SCROLLLOCK"}
    [] OTHER -> {}

(* charcode[shift & (CTL | SHIFT)][data]: 0xD3 is KEY_DEL in every map,    *)
(* 0x1E the letter 'a', the modifiers have no character.                   *)
charcode(shift, data) ==
  CASE data = 211 -> "DEL"
    [] data = 30 /\ "CTL" \in shift -> "ctrl-A"
    [] data = 30 /\ "CTL" \notin shift ->
         IF ("SHIFT" \in shift) = ("CAPSLOCK" \in shift) THEN "a" ELSE "A"
    [] OTHER -> "NO"

KbdInit ==
  /\ job = "kbd"
  /\ st = [pc |-> "poll", held |-> {}, queue |-> <<>>, shift |-> {},
           c |-> "NO", reboot |-> FALSE]

------------------------------------------------------------------------------
(* external: the person at the keyboard, and the controller *)
Codes(k, up) ==
  (IF k.e0 THEN <<E0>> ELSE <<>>) \o <<IF up THEN k.code + 128 ELSE k.code>>

KeyDown(k) ==
  /\ job = "kbd" /\ k \notin st.held /\ Len(st.queue) + 2 <= MaxBytes
  /\ Becomes([st EXCEPT !.held = @ \cup {k}, !.queue = @ \o Codes(k, FALSE)])

KeyUp(k) ==
  /\ job = "kbd" /\ k \in st.held /\ Len(st.queue) + 2 <= MaxBytes
  /\ Becomes([st EXCEPT !.held = @ \ {k}, !.queue = @ \o Codes(k, TRUE)])

------------------------------------------------------------------------------
(* Mutant: E0ESC survives the release of a key. *)
ReleasedKeepsEsc(shift, byte) ==
  LET data == IF "E0ESC" \in shift THEN byte ELSE byte % 128
  IN  shift \ shiftcode(data)

(* shift after the release of a key. *)
Released(shift, byte) ==
  LET data == IF "E0ESC" \in shift THEN byte ELSE byte % 128
  IN  shift \ (shiftcode(data) \cup {"E0ESC"})

(* The code the tables are indexed with, for a key pressed. *)
Pressed(shift, byte) == IF "E0ESC" \in shift THEN byte + 128 ELSE byte

AfterPress(shift, data) ==
  SymDiff((shift \ {"E0ESC"}) \cup shiftcode(data), togglecode(data))

(* A byte is waiting and is read. *)
KbdProcData ==
  /\ At("kbd", "poll") /\ st.queue # <<>>
  /\ LET byte == Head(st.queue)
         s == [st EXCEPT !.queue = Tail(@), !.c = "NO", !.reboot = FALSE]
         data == Pressed(st.shift, byte)
         shift == AfterPress(st.shift, data)
         c == charcode(shift, data)
     IN  Becomes(CASE byte = E0 -> [s EXCEPT !.shift = @ \cup {"E0ESC"}]
                   [] byte # E0 /\ byte >= 128 ->
                        [s EXCEPT !.shift = Released(@, byte)]
                   [] OTHER ->
                        [s EXCEPT !.shift = shift, !.c = c,
                           !.reboot = {"CTL", "ALT"} \subseteq shift
                                        /\ c = "DEL"])

KbdNext == (\E k \in Key : KeyDown(k) \/ KeyUp(k)) \/ KbdProcData

KbdSpec == KbdInit /\ [][KbdNext]_routineVars

------------------------------------------------------------------------------
Modifier == {"SHIFT", "CTL", "ALT"}

(* The modifier a key is for: either by its own code or by its 0xE0 one. *)
ModifierOf(k) ==
  shiftcode(IF k.e0 THEN k.code + 128 ELSE k.code)

(* No modifier sticks: once all bytes are read, a modifier is on only if a *)
(* key for it is held down, no 0xE0 is pending, and what rebooted the      *)
(* machine is the Del key (0xE0 0x53), not the point of the number pad.    *)
ModifiersHeld ==
  job = "kbd" /\ st.queue = <<>> =>
    /\ "E0ESC" \notin st.shift
    /\ st.shift \cap Modifier \subseteq UNION {ModifierOf(k) : k \in st.held}
    /\ st.reboot => [code |-> 83, e0 |-> TRUE] \in st.held
=============================================================================
