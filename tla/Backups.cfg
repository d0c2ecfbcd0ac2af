SPECIFICATION Spec
CONSTANTS
  Op = {o1, o2, o3}
  Id = {b1}
  Path = {p1, p2}
  Value = {v}
  None = None
  Damaged = Damaged
SYMMETRY Symmetry
INVARIANTS  DeletedIsGone
PROPERTY Implements
