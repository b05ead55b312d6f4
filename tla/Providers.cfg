CONSTANTS
  Threads = {t1, t2}
  MaxCalls = 4
  MaxConnections = 2
  SystemAnswers <- MCSystemAnswers
  GatewayAnswers <- MCGatewayAnswers
  NoOne = NoOne
  Mixed = Mixed
SPECIFICATION Spec
SYMMETRY AnyThread
INVARIANTS
  ConnectedOverviewsSucceed
  HealthyMeansNoAlarm
  SessionOfItsConnection
  SSHConnectionsKept
CHECK_DEADLOCK FALSE
