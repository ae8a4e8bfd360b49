\* Clients that do not delete the last of several items, and callbacks
\* that delete only the item they are called for.
SPECIFICATION QueueSpec
CONSTANTS
  a1 = a1
  a2 = a2
  a3 = a3
  a4 = a4
  Node = {a1, a2, a3, a4}
  x = x
  y = y
  Item = {x, y}
  Null = null
  Uses = {}
SYMMETRY Addresses
INVARIANTS
  QueueTypeOK
  NoDangling
  Shape
  VisitsEach
PROPERTY ImplementsFifo
CHECK_DEADLOCK FALSE
