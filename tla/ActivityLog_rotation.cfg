SPECIFICATION Spec
CONSTANTS
  Writer = {"broker"}
  Directory <- NoLegacy
  MaxLines = 2
  MaxShown = 2
  MaxEvents = 4
  MaxStarts = 0
  CanFail = FALSE
INVARIANT NewestAreShown
CHECK_DEADLOCK FALSE
