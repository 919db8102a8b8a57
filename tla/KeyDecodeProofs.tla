-------------------------- MODULE KeyDecodeProofs --------------------------
(***************************************************************************)
(* The decoder of keyboard_callback is right for every keyboard: any keys  *)
(* of each kind, any of them extended, in any order of presses, repeats    *)
(* and releases.                                                           *)
(***************************************************************************)
EXTENDS KeyDecode, TLAPS

(* The two tables stay within their rows. *)
LEMMA DecodeType == ASSUME NEW k \in Key PROVE Decode(k) \in Char
<1>1. kbd_us[k] \in Char /\ kbd_us_shift[k] \in Char
  BY DEF kbd_us, kbd_us_shift, Char
<1>. QED
  BY <1>1 DEF Decode

LEMMA InitHeld == Init => ShiftsAreHeld
<1>1. <<"CapsLock", "none">> \in Char
  BY DEF Char, Key, Modifiers
<1>. QED
  BY <1>1 DEF Init, ShiftsAreHeld, TypeOK

LEMMA PressHeld ==
  ASSUME ShiftsAreHeld, NEW k \in Key, Press(k)
  PROVE  ShiftsAreHeld'
<1>1. TypeOK'
  BY DecodeType DEF ShiftsAreHeld, TypeOK, Press
<1>2. k \in Fakes => k # "RightShift" /\ k # "LeftShift"
  BY KeyAssumption DEF Modifiers, Characters
<1>. QED
  BY <1>1, <1>2 DEF ShiftsAreHeld, TypeOK, Press

LEMMA ReleaseHeld ==
  ASSUME ShiftsAreHeld, NEW k \in Key, Release(k)
  PROVE  ShiftsAreHeld'
<1>1. TypeOK'
  BY DEF ShiftsAreHeld, TypeOK, Release
<1>2. k \in Fakes => k # "RightShift" /\ k # "LeftShift"
  BY KeyAssumption DEF Modifiers, Characters
<1>3. CASE k \in Fakes
  BY <1>1, <1>2, <1>3 DEF ShiftsAreHeld, TypeOK, Release, Released
<1>4. CASE k \notin Fakes
  BY <1>1, <1>4 DEF ShiftsAreHeld, TypeOK, Release, Released
<1>. QED
  BY <1>3, <1>4

LEMMA NextHeld == ShiftsAreHeld /\ [Next]_vars => ShiftsAreHeld'
<1>. SUFFICES ASSUME ShiftsAreHeld, [Next]_vars PROVE ShiftsAreHeld'
  OBVIOUS
<1>1. CASE Next
  BY <1>1, PressHeld, ReleaseHeld DEF Next
<1>2. CASE UNCHANGED vars
  BY <1>2 DEF ShiftsAreHeld, TypeOK, vars, shiftVars
<1>. QED
  BY <1>1, <1>2

(* keyboard_callback's idea of the Shift keys: the right one is on exactly while
   it is held, the left one only while it, or an extended key that sends a Shift
   of its own, is held, and certainly while it is unless such a key let go of it. *)
THEOREM ShiftsAlwaysHeld == Spec => []ShiftsAreHeld
BY InitHeld, NextHeld, PTL DEF Spec

-----------------------------------------------------------------------------
(* CapsLock, the other half of what the decoder remembers. *)
CapsAgree == caps_lock = capsLight

LEMMA CapsAlwaysAgree == Spec => []CapsAgree
<1>1. Init => CapsAgree
  BY DEF Init, CapsAgree
<1>2. CapsAgree /\ [Next]_vars => CapsAgree'
  BY DEF CapsAgree, Next, Press, Release, vars, shiftVars
<1>. QED
  BY <1>1, <1>2, PTL DEF Spec

(* In such a state the two flags say what a Shift key that is held would. *)
LEMMA ShiftsSeen ==
  ASSUME ShiftsAreHeld, held \cap Fakes = {}, ~confused
  PROVE  left_shift_pressed \/ right_shift_pressed
           <=> {"LeftShift", "RightShift"} \cap held # {}
BY DEF ShiftsAreHeld

(* The two steps of the decoder, the table and the correction for CapsLock, give
   what the modifiers together call for. *)
LEMMA Decodes ==
  ASSUME ShiftsAreHeld, CapsAgree, held \cap Fakes = {}, ~confused,
         NEW k \in Characters \cup Mutes
  PROVE  Decode(k) = Expected(k)
<1>. DEFINE shift == left_shift_pressed \/ right_shift_pressed
<1>1. shift <=> {"LeftShift", "RightShift"} \cap held # {}
  BY ShiftsSeen
<1>2. k \in Key
  BY DEF Key
<1>3. CASE k \in Letters
  <2>1. kbd_us[k] = <<k, "low">> /\ kbd_us_shift[k] = <<k, "high">>
    BY <1>2, <1>3 DEF kbd_us, kbd_us_shift, Characters
  <2>2. /\ <<k, "low">> \in Letters \X {"low"}
        /\ <<k, "low">> \notin Letters \X {"high"}
        /\ <<k, "high">> \in Letters \X {"high"}
        /\ <<k, "high">> \notin Letters \X {"low"}
    BY <1>3
  <2>3. Expected(k) = <<k, IF shift # caps_lock THEN "high" ELSE "low">>
    BY <1>1, <1>3 DEF Expected, CapsAgree, ShiftsAreHeld, TypeOK
  <2>. QED
    BY <2>1, <2>2, <2>3 DEF Decode, ShiftsAreHeld, TypeOK
<1>4. CASE k \notin Letters
  <2>1. \A row \in {"none", "low", "high"}, column \in {"low", "high"} :
          <<k, row>> \notin Letters \X {column}
    BY <1>4
  <2>2. Decode(k) = IF shift THEN kbd_us_shift[k] ELSE kbd_us[k]
    BY <1>2, <2>1 DEF Decode, kbd_us, kbd_us_shift
  <2>3. CASE k \in Symbols
    BY <1>1, <1>2, <1>4, <2>2, <2>3 DEF Expected, kbd_us, kbd_us_shift, Characters
  <2>4. CASE k \notin Symbols
    BY <1>2, <1>4, <2>2, <2>4 DEF Expected, kbd_us_shift
  <2>. QED
    BY <2>3, <2>4
<1>. QED
  BY <1>3, <1>4

(* keyboard_callback gives the character the user sees himself typing, whatever
   else is held, repeated or released in between. *)
THEOREM TypesAlwaysWhatIsExpected == Spec => TypesWhatIsExpected
<1>1. ASSUME ShiftsAreHeld, CapsAgree,
             NEW k \in Characters \cup Mutes, Press(k), held \cap Fakes = {}, ~confused
      PROVE  c' = Expected(k)
  <2>1. k \notin Modifiers
    BY KeyAssumption
  <2>. QED
    BY <1>1, <2>1, Decodes DEF Press
<1>2. ShiftsAreHeld /\ CapsAgree /\ [Next]_vars =>
        [\A k \in Characters \cup Mutes :
           Press(k) /\ held \cap Fakes = {} /\ ~confused => c' = Expected(k)]_vars
  BY <1>1
<1>. QED
  BY <1>2, ShiftsAlwaysHeld, CapsAlwaysAgree, PTL DEF Spec, TypesWhatIsExpected
=============================================================================
