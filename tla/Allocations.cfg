SPECIFICATION Spec
CONSTANTS
  Server = {s1, s2}
  Alloc = {1, 2, 3}
  n1 = n1
  n2 = n2
  Node = {n1, n2}
  NodeOf <- TwoNodes
  Worker = {w1, w2}
  None = None
  Gone = Gone
SYMMETRY Symmetry
INVARIANTS PrimaryExists PrimaryLostOnlyToRival
