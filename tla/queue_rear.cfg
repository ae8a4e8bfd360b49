\* Clients that delete any item.
SPECIFICATION QueueSpec
CONSTANTS
  a1 = a1
  a2 = a2
  a3 = a3
  a4 = a4
  Node = {a1, a2, a3, a4}
  x = x
  y = y
  Item = {x, y}
  Null = null
  Uses = {"rear"}
SYMMETRY Addresses
PROPERTY ImplementsFifo
CHECK_DEADLOCK FALSE
