CONSTANTS
  Nodes = {1, 2, 3, 4}
  Current = {1, 2, 4}
  Edges <- MCEdges
  MaxEdges = 3
SPECIFICATION Spec
INVARIANTS FindsExactlyBlocking
PROPERTIES Returns
CHECK_DEADLOCK FALSE
