\* Two goroutines, three ids: a caller can time out and call again while its
\* first answer is still under way.
CONSTANTS
  Callers = {p1, p2}
  Closers = {d1}
  MaxId = 3
  PipeCap = 1
  Bodies = {"result"}
  NoLine = NoLine
SPECIFICATION Spec
SYMMETRY Symmetry
INVARIANTS
  NoSendOnClosedChannel
  ReadLoopNeverBlocks
  CallsGetTheirOwnAnswer
  NoForgottenWaiter
  PendingBelongsToACall
  NothingPendingOnceClosed
PROPERTY ImplementsPluginCalls
