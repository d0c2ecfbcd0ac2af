SPECIFICATION Spec
CONSTANTS
  a = a
  b = b
  i = i
  j = j
  Server <- MCServer
  Item <- MCItem
  Watch <- MCWatch
  None = None
  Note = Note
  Panel = Panel
  MaxWrites = 1
  MaxOpen <- MCOpen
SYMMETRY MCSymmetry
CHECK_DEADLOCK FALSE
INVARIANTS TypeOK SavesGoBack ShowsThePanel OneSaveAtATime FlagsComeDown
