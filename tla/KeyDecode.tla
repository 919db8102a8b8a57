----------------------------- MODULE KeyDecode ------------------------------
(***************************************************************************)
(* The part of keyboard_callback() that turns scancodes into characters,   *)
(* which runs before monitor_enter, with interrupts disabled.  The keys    *)
(* are those of a keyboard that a user presses, holds and releases in any  *)
(* order; a key that is held repeats its make code.  The extended ones send *)
(* 0xE0 first, which is to the callback the release of a key 0x60 that      *)
(* nobody has and changes nothing; then a code it cannot tell from that of  *)
(* the key it extends.                                                      *)
(***************************************************************************)
EXTENDS Integers

CONSTANTS
  Letters,                \* the keys of a to z
  Symbols,                \* keys with two other characters
  Blanks,                 \* the same character in kbd_us and in kbd_us_shift
  Mutes,                  \* 0 in both tables
  Fakes                   \* the extended keys sent between E0 2A and E0 AA: PrintScreen,
                          \* and with NumLock the arrows and the six above them

Modifiers  == {"LeftShift", "RightShift", "CapsLock"}
Characters == Letters \cup Symbols \cup Blanks
Key        == Characters \cup Mutes \cup Modifiers

(* Every key is of one kind. *)
ASSUME KeyAssumption ==
  /\ Fakes \subseteq Blanks \cup Mutes
  /\ Modifiers \cap (Characters \cup Mutes) = {}
  /\ Letters \cap (Symbols \cup Blanks \cup Mutes) = {}
  /\ Symbols \cap (Blanks \cup Mutes) = {}
  /\ Blanks \cap Mutes = {}

VARIABLES
  left_shift_pressed, right_shift_pressed, caps_lock,
  c,                      \* what the last key press gave: the callback's local c
  held,                   \* the keys the user holds down
  capsLight,              \* the CapsLock state the user expects
  confused                \* an E0 AA came with LeftShift down, which has not moved since

shiftVars == <<left_shift_pressed, right_shift_pressed, caps_lock>>
vars      == <<shiftVars, c, held, capsLight, confused>>

(* A character is the key it is on and its place there; "none" stands for 0. *)
Char == Key \X {"none", "low", "high"}

TypeOK ==
  /\ left_shift_pressed \in BOOLEAN /\ right_shift_pressed \in BOOLEAN
  /\ caps_lock \in BOOLEAN /\ capsLight \in BOOLEAN /\ confused \in BOOLEAN
  /\ c \in Char
  /\ held \subseteq Key

Init ==
  /\ left_shift_pressed = FALSE /\ right_shift_pressed = FALSE
  /\ caps_lock = FALSE /\ capsLight = FALSE
  /\ c = <<"CapsLock", "none">>
  /\ held = {}
  /\ confused = FALSE

-----------------------------------------------------------------------------
kbd_us[k \in Key] == <<k, IF k \in Characters THEN "low" ELSE "none">>

kbd_us_shift[k \in Key] ==
  IF k \in Letters \cup Symbols THEN <<k, "high">> ELSE kbd_us[k]

\* Mutant: only a to z are looked at, so CapsLock with Shift stays upper case.
DecodeNoToggle(k) ==
  LET shift == left_shift_pressed \/ right_shift_pressed
  IN  IF shift \/ (caps_lock /\ k \in Letters) THEN kbd_us_shift[k] ELSE kbd_us[k]

(* The character of a key press: first the table that Shift selects, then the
   other one if CapsLock is on and the character is a letter. *)
Decode(k) ==
  LET shift == left_shift_pressed \/ right_shift_pressed
      first == IF shift THEN kbd_us_shift[k] ELSE kbd_us[k]
      lower == first \in Letters \X {"low"}
      upper == first \in Letters \X {"high"}
  IN  IF caps_lock /\ lower /\ ~shift THEN kbd_us_shift[k]
      ELSE IF caps_lock /\ upper /\ shift THEN kbd_us[k]
      ELSE first

(* A make code: the key goes down, or has been held long enough to repeat. *)
Press(k) ==
  /\ held' = held \cup {k}
  /\ left_shift_pressed' = (left_shift_pressed \/ k \in Fakes \cup {"LeftShift"})
  /\ right_shift_pressed' = (right_shift_pressed \/ k = "RightShift")
  /\ caps_lock' = IF k = "CapsLock" THEN ~caps_lock ELSE caps_lock
  /\ c' = IF k \in Modifiers THEN c ELSE Decode(k)
  /\ capsLight' = IF k = "CapsLock" THEN ~capsLight ELSE capsLight
  /\ confused' = (confused /\ k # "LeftShift")

\* Mutant: 0xAA is tested for, but not 0xB6.
ReleasedLeft(k) == IF k \in Fakes \cup {"LeftShift"} THEN {"LeftShift"} ELSE {}

(* "Handle Key Releases": the Shift keys that a break code of k lets go. *)
Released(k) ==
  IF k \in Fakes THEN {"LeftShift"} ELSE {k} \cap {"LeftShift", "RightShift"}

(* A break code: bit 7 set. *)
Release(k) ==
  /\ k \in held
  /\ held' = held \ {k}
  /\ left_shift_pressed' = (left_shift_pressed /\ "LeftShift" \notin Released(k))
  /\ right_shift_pressed' = (right_shift_pressed /\ "RightShift" \notin Released(k))
  /\ confused' = IF k \in Fakes THEN confused \/ "LeftShift" \in held
                                ELSE confused /\ k # "LeftShift"
  /\ UNCHANGED <<caps_lock, c, capsLight>>

Next == \E k \in Key : Press(k) \/ Release(k)

Spec == Init /\ [][Next]_vars

-----------------------------------------------------------------------------
(* What a typist expects of key k: the upper place of a letter when exactly one
   of Shift and CapsLock applies, of another key when a Shift is held. *)
Expected(k) ==
  LET shifted == {"LeftShift", "RightShift"} \cap held # {}
  IN  IF k \in Letters THEN <<k, IF shifted # capsLight THEN "high" ELSE "low">>
      ELSE IF k \in Symbols THEN <<k, IF shifted THEN "high" ELSE "low">>
      ELSE kbd_us[k]

(* keyboard_callback: whatever else is held, pressed twice or released in
   between, a key press gives the character the user sees himself typing;
   except next to an extended key that comes with a Shift of its own, which the
   callback takes for the user's: while that key is down, and after it for as
   long as the user leaves the left Shift down that it has let go. *)
TypesWhatIsExpected ==
  [][\A k \in Characters \cup Mutes :
       Press(k) /\ held \cap Fakes = {} /\ ~confused => c' = Expected(k)]_vars

(* No order of presses and releases leaves a Shift behind that no key that is
   down accounts for, and only an E0 AA takes one away. *)
ShiftsAreHeld ==
  /\ TypeOK
  /\ right_shift_pressed <=> "RightShift" \in held
  /\ left_shift_pressed => held \cap (Fakes \cup {"LeftShift"}) # {}
  /\ "LeftShift" \in held /\ ~confused => left_shift_pressed
=============================================================================
