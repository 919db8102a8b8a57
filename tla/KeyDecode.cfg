CONSTANTS
  Letters = {"a"}
  Symbols = {"1"}
  Blanks = {"space", "PrintScreen"}
  Mutes = {"F1", "Up"}
  Fakes = {"PrintScreen", "Up"}
SPECIFICATION Spec
INVARIANT ShiftsAreHeld
PROPERTY TypesWhatIsExpected
