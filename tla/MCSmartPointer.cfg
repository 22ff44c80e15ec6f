SPECIFICATION Spec
CONSTANTS
  None = None
  Variables = {u, v, w}
  Blocks = {b1, b2, b3, b4}
SYMMETRY Symmetry
INVARIANTS CountsAreHandles OnlyCyclesLeak
CHECK_DEADLOCK FALSE
