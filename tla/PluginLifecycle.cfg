CONSTANTS
  Goroutines = {g1, g2, g3}
  MaxProcs = 2
  Nobody = Nobody
SPECIFICATION FairSpec
INVARIANTS LifecycleInv NoOrphanProcess OneGeneration OnlyConnectedPluginsAreAsked ReplacedClientsAreClosed
PROPERTY EveryOperationEnds
