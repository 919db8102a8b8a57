CONSTANTS
  Printers = {shell, echo}
  Letters = {"a", "b"}
  WIDTH = 24
  HEIGHT = 28
  MaxChars = 5
SPECIFICATION Spec
INVARIANTS ShowsTheText NestedStaysOnScreen
CHECK_DEADLOCK FALSE
