CONSTANTS
  Requests = {q1, q2}
  MaxConns = 2
  MaxChunks = 2
  MaxLen = 2
  None = None
SPECIFICATION Spec
SYMMETRY Symmetry
CHECK_DEADLOCK FALSE
INVARIANTS
  StreamsAreWhole
