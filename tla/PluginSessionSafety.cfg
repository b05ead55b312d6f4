CONSTANTS
  Callers = {p1, p2}
  Closers = {d1}
  MaxId = 3
  PipeCap = 1
  Bodies = {"result"}
  NoLine = NoLine
SPECIFICATION SessionSpec
SYMMETRY Symmetry
INVARIANTS
  RequestServedOnce
  WaiterIsServed
