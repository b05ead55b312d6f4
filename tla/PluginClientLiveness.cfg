CONSTANTS
  Callers = {p1}
  Closers = {d1}
  MaxId = 3
  PipeCap = 1
  Bodies = {"result"}
  NoLine = NoLine
SPECIFICATION FairSpec
PROPERTIES
  ContextEndsCall
  CloseEndsCalls
  PluginExitClosesClient
  ReadLoopEnds
