----------------------- MODULE PluginLifecycleProofs -----------------------
(***************************************************************************)
(* Proofs about PluginLifecycle, for any goroutines and any number of      *)
(* plugin processes.  LifecycleInv is inductive: one lemma per action.     *)
(***************************************************************************)
EXTENDS PluginLifecycle, TLAPS

\* The initial state satisfies the invariant.
LEMMA LifecycleInit == Init => LifecycleInv
BY ProcsAssumption, NobodyAssumption
DEF Init, LifecycleInv, TypeOK, LockHeld, Fields, Unstarted, NoOrphanProcess, OneGeneration,
    OnlyConnectedPluginsAreAsked, ReplacedClientsAreClosed, Procs, None, Waiting, Writing

\* Killing a process changes nothing but that process, and it runs no more.
LEMMA KillStep ==
  ASSUME TypeOK, NEW k, Kill(k)
  PROVE  /\ proc' \in [Procs -> {"none", "running", "killed", "zombie", "reaped"}]
         /\ \A j \in Procs : proc'[j] = "running" => proc[j] = "running" /\ j # k
         /\ \A j \in Procs : proc[j] = "none" => proc'[j] = "none"
BY DEF TypeOK, Kill

\* What a step of g does to pc.
LEMMA GotoStep ==
  ASSUME TypeOK, NEW g \in Goroutines, NEW label \in {"idle", "use"} \cup Waiting \cup Writing,
         Goto(g, label)
  PROVE  /\ pc' \in [Goroutines -> {"idle", "use"} \cup Waiting \cup Writing]
         /\ \A h \in Goroutines : pc'[h] = IF h = g THEN label ELSE pc[h]
BY DEF TypeOK, Goto

\* Entering an operation, before the lock is taken.
LEMMA EnterStep ==
  ASSUME LifecycleInv, NEW g \in Goroutines, NEW op \in Waiting, Enter(g, op)
  PROVE  LifecycleInv'
<1>1. TypeOK'
  BY DEF LifecycleInv, TypeOK, Enter
<1>2. \A h \in Goroutines : pc'[h] = IF h = g THEN op ELSE pc[h]
  BY DEF LifecycleInv, TypeOK, Enter
<1>3. pc[g] = "idle" /\ UNCHANGED <<writer, held, client, cmd, info, started, proc, open, ready>>
  BY DEF Enter
<1>4. QED
  BY <1>1, <1>2, <1>3
  DEF LifecycleInv, LockHeld, Fields, Unstarted, NoOrphanProcess, OneGeneration,
      OnlyConnectedPluginsAreAsked, ReplacedClientsAreClosed, Waiting, Writing

\* Connect takes the lock: nobody else is connecting or disconnecting, so
\* client and cmd are of one generation, and both are done away with.
LEMMA ConnectBeginStep ==
  ASSUME LifecycleInv, NEW g \in Goroutines, ConnectBegin(g)
  PROVE  LifecycleInv'
<1> USE DEF None
<1>0. TypeOK /\ Kill(cmd) /\ writer = Nobody /\ writer' = g /\ g # Nobody
  BY NobodyAssumption DEF LifecycleInv, ConnectBegin, Acquire
<1>1. /\ proc' \in [Procs -> {"none", "running", "killed", "zombie", "reaped"}]
      /\ \A j \in Procs : proc'[j] = "running" => proc[j] = "running" /\ j # cmd
      /\ \A j \in Procs : proc[j] = "none" => proc'[j] = "none"
  BY <1>0, KillStep
<1>2. /\ pc' \in [Goroutines -> {"idle", "use"} \cup Waiting \cup Writing]
      /\ \A h \in Goroutines : pc'[h] = IF h = g THEN "start" ELSE pc[h]
  BY <1>0, GotoStep DEF ConnectBegin, Writing
<1>3. /\ open' = open \ {client} /\ client' = 0 /\ cmd' = 0
      /\ UNCHANGED <<held, info, started, ready>>
  BY DEF ConnectBegin
<1>4. TypeOK'
  BY <1>0, <1>1, <1>2, <1>3, ProcsAssumption DEF TypeOK
<1>a. \A h \in Goroutines : pc[h] \notin Writing
  BY <1>0, NobodyAssumption DEF LifecycleInv, LockHeld
<1>5. LockHeld' /\ Fields'
  <2>1. LockHeld'
    BY <1>0, <1>2, <1>a DEF LockHeld, Writing
  <2>2. Fields'
    BY <1>2, <1>3, <1>a DEF Fields, Writing
  <2>3. QED
    BY <2>1, <2>2
<1>6. Unstarted' /\ NoOrphanProcess'
  BY <1>1, <1>3 DEF LifecycleInv, Unstarted, NoOrphanProcess
<1>7. OneGeneration' /\ ReplacedClientsAreClosed'
  BY <1>0, <1>3 DEF LifecycleInv, OneGeneration, ReplacedClientsAreClosed
<1>8. OnlyConnectedPluginsAreAsked'
  BY <1>2, <1>3 DEF LifecycleInv, OnlyConnectedPluginsAreAsked
<1>9. QED
  BY <1>4, <1>5, <1>6, <1>7, <1>8 DEF LifecycleInv

\* A failed start returns with neither client nor process.
LEMMA ConnectStartFailsStep ==
  ASSUME LifecycleInv, NEW g \in Goroutines, ConnectStartFails(g)
  PROVE  LifecycleInv'
<1>1. /\ pc' \in [Goroutines -> {"idle", "use"} \cup Waiting \cup Writing]
      /\ \A h \in Goroutines : pc'[h] = IF h = g THEN "idle" ELSE pc[h]
  BY GotoStep DEF LifecycleInv, ConnectStartFails, Return
<1>2. /\ pc[g] = "start" /\ writer' = Nobody
      /\ UNCHANGED <<held, client, cmd, info, started, proc, open, ready>>
  BY DEF ConnectStartFails, Return
<1>3. writer = g /\ g # Nobody /\ client = None /\ cmd = None
  BY <1>2, NobodyAssumption DEF LifecycleInv, LockHeld, Fields, Writing
<1>4. TypeOK'
  BY <1>1, <1>2 DEF LifecycleInv, TypeOK
<1>5. LockHeld' /\ Fields'
  BY <1>1, <1>2, <1>3, NobodyAssumption DEF LifecycleInv, LockHeld, Fields, Writing
<1>6. QED
  BY <1>1, <1>2, <1>3, <1>4, <1>5
  DEF LifecycleInv, Unstarted, NoOrphanProcess, OneGeneration,
      OnlyConnectedPluginsAreAsked, ReplacedClientsAreClosed

\* The new process and client are the next generation.
LEMMA ConnectStartStep ==
  ASSUME LifecycleInv, NEW g \in Goroutines, ConnectStart(g)
  PROVE  LifecycleInv'
<1> DEFINE k == started + 1
<1>0. /\ pc[g] = "start" /\ k \in Procs /\ k # 0 /\ started \in Nat
      /\ proc' = [proc EXCEPT ![k] = "running"]
      /\ open' = open \cup {k} /\ client' = k /\ cmd' = k /\ started' = k
      /\ UNCHANGED <<writer, held, info, ready>>
  BY ProcsAssumption DEF LifecycleInv, TypeOK, ConnectStart, Procs
<1>1. /\ pc' \in [Goroutines -> {"idle", "use"} \cup Waiting \cup Writing]
      /\ \A h \in Goroutines : pc'[h] = IF h = g THEN "handshake" ELSE pc[h]
  BY GotoStep DEF LifecycleInv, ConnectStart, Writing
<1>2. writer = g /\ g # Nobody /\ client = None /\ cmd = None
  BY <1>0, NobodyAssumption DEF LifecycleInv, LockHeld, Fields, Writing
<1>3. \A j \in Procs : proc'[j] = IF j = k THEN "running" ELSE proc[j]
  BY <1>0 DEF LifecycleInv, TypeOK
<1>4. open = {}
  BY <1>2 DEF LifecycleInv, TypeOK, ReplacedClientsAreClosed, None, Procs
<1>5. TypeOK'
  <2>1. proc' \in [Procs -> {"none", "running", "killed", "zombie", "reaped"}]
    BY <1>0 DEF LifecycleInv, TypeOK
  <2>2. k \in 0..MaxProcs /\ open' \in SUBSET Procs
    BY <1>0 DEF LifecycleInv, TypeOK, Procs
  <2>3. QED
    BY <1>0, <1>1, <2>1, <2>2 DEF LifecycleInv, TypeOK
<1>6. LockHeld'
  BY <1>0, <1>1, <1>2 DEF LifecycleInv, LockHeld, Writing
<1>7. Fields'
  BY <1>0, <1>1, <1>2 DEF LifecycleInv, LockHeld, Fields, Writing, None
<1>8. Unstarted'
  BY <1>0, <1>3 DEF LifecycleInv, Unstarted, Procs
<1>9. NoOrphanProcess'
  BY <1>0, <1>2, <1>3 DEF LifecycleInv, NoOrphanProcess, None, Procs
<1>10. OneGeneration' /\ ReplacedClientsAreClosed'
  BY <1>0, <1>2, <1>4 DEF OneGeneration, ReplacedClientsAreClosed
<1>11. OnlyConnectedPluginsAreAsked'
  BY <1>0, <1>1 DEF LifecycleInv, OnlyConnectedPluginsAreAsked
<1>12. QED
  BY <1>5, <1>6, <1>7, <1>8, <1>9, <1>10, <1>11 DEF LifecycleInv

\* The handshake and the provider's connection, under the lock.
LEMMA ConnectHandshakeStep ==
  ASSUME LifecycleInv, NEW g \in Goroutines, ConnectHandshake(g)
  PROVE  LifecycleInv'
<1>1. /\ pc' \in [Goroutines -> {"idle", "use"} \cup Waiting \cup Writing]
      /\ \A h \in Goroutines : pc'[h] = IF h = g THEN "connect" ELSE pc[h]
  BY GotoStep DEF LifecycleInv, ConnectHandshake, Writing
<1>2. /\ pc[g] = "handshake" /\ info' = client
      /\ UNCHANGED <<writer, held, client, cmd, started, proc, open, ready>>
  BY DEF ConnectHandshake
<1>3. writer = g /\ g # Nobody
  BY <1>2, NobodyAssumption DEF LifecycleInv, LockHeld, Writing
<1>4. TypeOK'
  BY <1>1, <1>2 DEF LifecycleInv, TypeOK
<1>5. LockHeld' /\ Fields'
  BY <1>1, <1>2, <1>3 DEF LifecycleInv, LockHeld, Fields, Writing
<1>6. QED
  BY <1>1, <1>2, <1>3, <1>4, <1>5
  DEF LifecycleInv, Unstarted, NoOrphanProcess, OneGeneration,
      OnlyConnectedPluginsAreAsked, ReplacedClientsAreClosed

\* Connect succeeds: the generation is ready before the lock is released.
LEMMA ConnectDoneStep ==
  ASSUME LifecycleInv, NEW g \in Goroutines, ConnectDone(g)
  PROVE  LifecycleInv'
<1>1. /\ pc' \in [Goroutines -> {"idle", "use"} \cup Waiting \cup Writing]
      /\ \A h \in Goroutines : pc'[h] = IF h = g THEN "idle" ELSE pc[h]
  BY GotoStep DEF LifecycleInv, ConnectDone, Return
<1>2. /\ pc[g] = "connect" /\ ready' = ready \cup {client} /\ writer' = Nobody
      /\ UNCHANGED <<held, client, cmd, info, started, proc, open>>
  BY DEF ConnectDone, Return
<1>3. /\ writer = g /\ g # Nobody
      /\ client = cmd /\ client # None /\ info = client
  BY <1>2, NobodyAssumption DEF LifecycleInv, LockHeld, Fields, Writing
<1>4. client \in Procs
  BY <1>3 DEF LifecycleInv, TypeOK, None, Procs
<1>5. TypeOK'
  BY <1>1, <1>2, <1>4 DEF LifecycleInv, TypeOK
<1>6. LockHeld' /\ Fields'
  BY <1>1, <1>2, <1>3, NobodyAssumption DEF LifecycleInv, LockHeld, Fields, Writing
<1>7. OneGeneration'
  BY <1>2, <1>3 DEF OneGeneration
<1>8. OnlyConnectedPluginsAreAsked'
  BY <1>1, <1>2 DEF LifecycleInv, OnlyConnectedPluginsAreAsked
<1>9. QED
  BY <1>2, <1>5, <1>6, <1>7, <1>8
  DEF LifecycleInv, Unstarted, NoOrphanProcess, ReplacedClientsAreClosed

\* Connect fails: its client is closed and its process killed.
LEMMA ConnectFailsStep ==
  ASSUME LifecycleInv, NEW g \in Goroutines, ConnectFails(g)
  PROVE  LifecycleInv'
<1>0. TypeOK /\ Kill(cmd)
  BY DEF LifecycleInv, ConnectFails
<1>1. /\ proc' \in [Procs -> {"none", "running", "killed", "zombie", "reaped"}]
      /\ \A j \in Procs : proc'[j] = "running" => proc[j] = "running" /\ j # cmd
      /\ \A j \in Procs : proc[j] = "none" => proc'[j] = "none"
  BY <1>0, KillStep
<1>2. /\ pc' \in [Goroutines -> {"idle", "use"} \cup Waiting \cup Writing]
      /\ \A h \in Goroutines : pc'[h] = IF h = g THEN "idle" ELSE pc[h]
  BY <1>0, GotoStep DEF ConnectFails, Return
<1>3. /\ pc[g] \in {"handshake", "connect"}
      /\ open' = open \ {client} /\ client' = None /\ cmd' = None /\ writer' = Nobody
      /\ UNCHANGED <<held, info, started, ready>>
  BY DEF ConnectFails, Return
<1>4. writer = g /\ g # Nobody
  BY <1>3, NobodyAssumption DEF LifecycleInv, LockHeld, Writing
<1>5. TypeOK'
  BY <1>0, <1>1, <1>2, <1>3, ProcsAssumption DEF TypeOK, None
<1>6. LockHeld' /\ Fields'
  BY <1>2, <1>3, <1>4, NobodyAssumption DEF LifecycleInv, LockHeld, Fields, Writing
<1>7. Unstarted' /\ NoOrphanProcess'
  BY <1>1, <1>3 DEF LifecycleInv, Unstarted, NoOrphanProcess
<1>8. OneGeneration' /\ ReplacedClientsAreClosed'
  BY <1>3 DEF LifecycleInv, OneGeneration, ReplacedClientsAreClosed
<1>9. OnlyConnectedPluginsAreAsked'
  BY <1>2, <1>3 DEF LifecycleInv, OnlyConnectedPluginsAreAsked
<1>10. QED
  BY <1>5, <1>6, <1>7, <1>8, <1>9 DEF LifecycleInv

\* Disconnect returns at once, or takes the lock of a connected plugin.
LEMMA DisconnectBeginStep ==
  ASSUME LifecycleInv, NEW g \in Goroutines, DisconnectBegin(g)
  PROVE  LifecycleInv'
<1>1. /\ pc[g] = "wantDisconnect" /\ writer = Nobody
      /\ UNCHANGED <<held, client, cmd, info, started, proc, open, ready>>
  BY DEF DisconnectBegin
<1>2. CASE client = None
  <2>1. /\ pc' \in [Goroutines -> {"idle", "use"} \cup Waiting \cup Writing]
        /\ \A h \in Goroutines : pc'[h] = IF h = g THEN "idle" ELSE pc[h]
    BY <1>2, GotoStep DEF LifecycleInv, DisconnectBegin, Return
  <2>2. writer' = Nobody
    BY <1>2 DEF DisconnectBegin, Return
  <2>3. TypeOK'
    BY <1>1, <2>1, <2>2 DEF LifecycleInv, TypeOK
  <2>4. LockHeld' /\ Fields'
    BY <1>1, <2>1, <2>2 DEF LifecycleInv, LockHeld, Fields, Writing
  <2>5. QED
    BY <1>1, <2>1, <2>2, <2>3, <2>4
    DEF LifecycleInv, Unstarted, NoOrphanProcess, OneGeneration,
        OnlyConnectedPluginsAreAsked, ReplacedClientsAreClosed
<1>3. CASE client # None
  <2>1. /\ pc' \in [Goroutines -> {"idle", "use"} \cup Waiting \cup Writing]
        /\ \A h \in Goroutines : pc'[h] = IF h = g THEN "disconnect" ELSE pc[h]
    BY <1>3, GotoStep DEF LifecycleInv, DisconnectBegin, Writing
  <2>2. writer' = g /\ g # Nobody
    BY <1>3, NobodyAssumption DEF DisconnectBegin, Acquire
  <2>3. client = cmd /\ info = client /\ client \in ready
    BY <1>1, <1>3 DEF LifecycleInv, OneGeneration
  <2>4. TypeOK'
    BY <1>1, <2>1, <2>2 DEF LifecycleInv, TypeOK
  <2>a. \A h \in Goroutines : pc[h] \notin Writing
    BY <1>1, NobodyAssumption DEF LifecycleInv, LockHeld
  <2>5. LockHeld' /\ Fields'
    <3>1. LockHeld'
      BY <2>1, <2>2, <2>a DEF LockHeld, Writing
    <3>2. Fields'
      BY <1>1, <1>3, <2>1, <2>3, <2>a DEF Fields, Writing
    <3>3. QED
      BY <3>1, <3>2
  <2>6. QED
    BY <1>1, <2>1, <2>2, <2>4, <2>5
    DEF LifecycleInv, Unstarted, NoOrphanProcess, OneGeneration,
        OnlyConnectedPluginsAreAsked, ReplacedClientsAreClosed
<1>4. QED
  BY <1>2, <1>3

\* The client is closed and the process killed; it still has to be reaped.
LEMMA DisconnectCallStep ==
  ASSUME LifecycleInv, NEW g \in Goroutines, DisconnectCall(g)
  PROVE  LifecycleInv'
<1>0. TypeOK /\ Kill(cmd)
  BY DEF LifecycleInv, DisconnectCall
<1>1. /\ proc' \in [Procs -> {"none", "running", "killed", "zombie", "reaped"}]
      /\ \A j \in Procs : proc'[j] = "running" => proc[j] = "running" /\ j # cmd
      /\ \A j \in Procs : proc[j] = "none" => proc'[j] = "none"
  BY <1>0, KillStep
<1>2. /\ pc' \in [Goroutines -> {"idle", "use"} \cup Waiting \cup Writing]
      /\ \A h \in Goroutines : pc'[h] = IF h = g THEN "reap" ELSE pc[h]
  BY <1>0, GotoStep DEF DisconnectCall, Writing
<1>3. /\ pc[g] = "disconnect"
      /\ open' = open \ {client} /\ client' = None
      /\ UNCHANGED <<writer, held, cmd, info, started, ready>>
  BY DEF DisconnectCall
<1>4. writer = g /\ g # Nobody /\ cmd # None
  BY <1>3, NobodyAssumption DEF LifecycleInv, LockHeld, Fields, Writing
<1>5. TypeOK'
  BY <1>0, <1>1, <1>2, <1>3, ProcsAssumption DEF TypeOK, None
<1>6. LockHeld' /\ Fields'
  BY <1>2, <1>3, <1>4 DEF LifecycleInv, LockHeld, Fields, Writing
<1>7. Unstarted' /\ NoOrphanProcess'
  BY <1>1, <1>3 DEF LifecycleInv, Unstarted, NoOrphanProcess
<1>8. OneGeneration' /\ ReplacedClientsAreClosed'
  BY <1>3, <1>4 DEF LifecycleInv, OneGeneration, ReplacedClientsAreClosed
<1>9. OnlyConnectedPluginsAreAsked'
  BY <1>2, <1>3 DEF LifecycleInv, OnlyConnectedPluginsAreAsked
<1>10. QED
  BY <1>5, <1>6, <1>7, <1>8, <1>9 DEF LifecycleInv

\* The exited process is reaped: neither client nor process is left.
LEMMA DisconnectWaitStep ==
  ASSUME LifecycleInv, NEW g \in Goroutines, DisconnectWait(g)
  PROVE  LifecycleInv'
<1>1. /\ pc' \in [Goroutines -> {"idle", "use"} \cup Waiting \cup Writing]
      /\ \A h \in Goroutines : pc'[h] = IF h = g THEN "idle" ELSE pc[h]
  BY GotoStep DEF LifecycleInv, DisconnectWait, Return
<1>2. /\ pc[g] = "reap" /\ proc[cmd] = "zombie"
      /\ proc' = [proc EXCEPT ![cmd] = "reaped"]
      /\ cmd' = None /\ writer' = Nobody
      /\ UNCHANGED <<held, client, info, started, open, ready>>
  BY DEF DisconnectWait, Return
<1>3. writer = g /\ g # Nobody /\ client = None
  BY <1>2, NobodyAssumption DEF LifecycleInv, LockHeld, Fields, Writing
<1>4. \A j \in Procs : proc'[j] \in {proc[j], "reaped"}
                       /\ (j = cmd => proc'[j] = "reaped")
                       /\ (j # cmd => proc'[j] = proc[j])
  BY <1>2 DEF LifecycleInv, TypeOK
<1>5. TypeOK'
  <2>1. proc' \in [Procs -> {"none", "running", "killed", "zombie", "reaped"}]
    BY <1>2 DEF LifecycleInv, TypeOK
  <2>2. cmd' \in 0..MaxProcs
    BY <1>2, ProcsAssumption DEF None
  <2>3. QED
    BY <1>1, <1>2, <2>1, <2>2 DEF LifecycleInv, TypeOK
<1>6. LockHeld' /\ Fields'
  BY <1>1, <1>2, <1>3, NobodyAssumption DEF LifecycleInv, LockHeld, Fields, Writing
<1>7. Unstarted'
  <2> SUFFICES ASSUME NEW k \in Procs, k > started PROVE proc'[k] = "none"
    BY <1>2 DEF Unstarted
  <2>1. proc[k] = "none"
    BY DEF LifecycleInv, Unstarted
  <2>2. k # cmd
    BY <1>2, <2>1
  <2>3. QED
    BY <1>4, <2>1, <2>2
<1>8. NoOrphanProcess'
  BY <1>4 DEF LifecycleInv, NoOrphanProcess
<1>9. OneGeneration' /\ ReplacedClientsAreClosed'
  BY <1>2, <1>3 DEF LifecycleInv, OneGeneration, ReplacedClientsAreClosed
<1>10. OnlyConnectedPluginsAreAsked'
  BY <1>1, <1>2 DEF LifecycleInv, OnlyConnectedPluginsAreAsked
<1>11. QED
  BY <1>5, <1>6, <1>7, <1>8, <1>9, <1>10 DEF LifecycleInv

\* A snapshot is taken only when nobody holds the lock: it is connected.
LEMMA GetClientStep ==
  ASSUME LifecycleInv, NEW g \in Goroutines, GetClient(g)
  PROVE  LifecycleInv'
<1>1. /\ pc[g] = "wantClient" /\ writer = Nobody
      /\ UNCHANGED <<writer, client, cmd, info, started, proc, open, ready>>
  BY DEF GetClient
<1>2. CASE client = None
  <2>1. /\ pc' \in [Goroutines -> {"idle", "use"} \cup Waiting \cup Writing]
        /\ \A h \in Goroutines : pc'[h] = IF h = g THEN "idle" ELSE pc[h]
    BY <1>2, GotoStep DEF LifecycleInv, GetClient
  <2>2. held' = held
    BY <1>2 DEF GetClient
  <2>3. TypeOK'
    BY <1>1, <2>1, <2>2 DEF LifecycleInv, TypeOK
  <2>4. QED
    BY <1>1, <2>1, <2>2, <2>3
    DEF LifecycleInv, LockHeld, Fields, Unstarted, NoOrphanProcess, OneGeneration,
        OnlyConnectedPluginsAreAsked, ReplacedClientsAreClosed, Writing
<1>3. CASE client # None
  <2>1. /\ pc' \in [Goroutines -> {"idle", "use"} \cup Waiting \cup Writing]
        /\ \A h \in Goroutines : pc'[h] = IF h = g THEN "use" ELSE pc[h]
    BY <1>3, GotoStep DEF LifecycleInv, GetClient
  <2>2. held' = [held EXCEPT ![g] = client]
    BY <1>3 DEF GetClient
  <2>3. client \in ready
    BY <1>1, <1>3 DEF LifecycleInv, OneGeneration
  <2>4. TypeOK'
    BY <1>1, <2>1, <2>2 DEF LifecycleInv, TypeOK
  <2>5. OnlyConnectedPluginsAreAsked'
    BY <1>1, <2>1, <2>2, <2>3 DEF LifecycleInv, TypeOK, OnlyConnectedPluginsAreAsked
  <2>6. QED
    BY <1>1, <2>1, <2>4, <2>5
    DEF LifecycleInv, LockHeld, Fields, Unstarted, NoOrphanProcess, OneGeneration,
        ReplacedClientsAreClosed, Writing
<1>4. QED
  BY <1>2, <1>3

\* An operation on a snapshot ends.
LEMMA UseEndsStep ==
  ASSUME LifecycleInv, NEW g \in Goroutines, UseEnds(g)
  PROVE  LifecycleInv'
<1>1. /\ pc' \in [Goroutines -> {"idle", "use"} \cup Waiting \cup Writing]
      /\ \A h \in Goroutines : pc'[h] = IF h = g THEN "idle" ELSE pc[h]
  BY GotoStep DEF LifecycleInv, UseEnds
<1>2. /\ pc[g] = "use" /\ held' = [held EXCEPT ![g] = None]
      /\ UNCHANGED <<writer, client, cmd, info, started, proc, open, ready>>
  BY DEF UseEnds
<1>3. held' \in [Goroutines -> 0..MaxProcs]
  BY <1>2, ProcsAssumption DEF LifecycleInv, TypeOK, None
<1>4. \A h \in Goroutines : h # g => held'[h] = held[h]
  BY <1>2 DEF LifecycleInv, TypeOK
<1>5. TypeOK'
  BY <1>1, <1>2, <1>3 DEF LifecycleInv, TypeOK
<1>6. OnlyConnectedPluginsAreAsked'
  BY <1>1, <1>2, <1>4 DEF LifecycleInv, OnlyConnectedPluginsAreAsked
<1>7. QED
  BY <1>1, <1>2, <1>5, <1>6
  DEF LifecycleInv, LockHeld, Fields, Unstarted, NoOrphanProcess, OneGeneration,
      ReplacedClientsAreClosed, Writing

\* A process exits, and its client sees the end of file.
LEMMA ProcessStep ==
  ASSUME LifecycleInv, NEW k \in Procs, ProcExit(k) \/ ClientEOF(k)
  PROVE  LifecycleInv'
<1>1. CASE ProcExit(k)
  <2>1. /\ proc' = [proc EXCEPT ![k] = "zombie"] /\ proc[k] # "none"
        /\ UNCHANGED <<writer, pc, held, client, cmd, info, started, open, ready>>
    BY <1>1 DEF ProcExit
  <2>2. \A j \in Procs : proc'[j] = IF j = k THEN "zombie" ELSE proc[j]
    BY <2>1 DEF LifecycleInv, TypeOK
  <2>3. TypeOK'
    BY <2>1 DEF LifecycleInv, TypeOK
  <2>4. Unstarted' /\ NoOrphanProcess'
    BY <2>1, <2>2 DEF LifecycleInv, Unstarted, NoOrphanProcess
  <2>5. QED
    BY <2>1, <2>3, <2>4
    DEF LifecycleInv, LockHeld, Fields, OneGeneration, OnlyConnectedPluginsAreAsked,
        ReplacedClientsAreClosed
<1>2. CASE ClientEOF(k)
  <2>1. /\ open' = open \ {k}
        /\ UNCHANGED <<writer, pc, held, client, cmd, info, started, proc, ready>>
    BY <1>2 DEF ClientEOF
  <2>2. QED
    BY <2>1
    DEF LifecycleInv, TypeOK, LockHeld, Fields, Unstarted, NoOrphanProcess, OneGeneration,
        OnlyConnectedPluginsAreAsked, ReplacedClientsAreClosed
<1>3. QED
  BY <1>1, <1>2

\* The invariant is inductive.
LEMMA LifecycleInvStep == LifecycleInv /\ [Next]_vars => LifecycleInv'
<1> SUFFICES ASSUME LifecycleInv, [Next]_vars PROVE LifecycleInv'
  OBVIOUS
<1>1. CASE UNCHANGED vars
  BY <1>1
  DEF LifecycleInv, TypeOK, LockHeld, Fields, Unstarted, NoOrphanProcess, OneGeneration,
      OnlyConnectedPluginsAreAsked, ReplacedClientsAreClosed, vars
<1>2. ASSUME NEW g \in Goroutines, Work(g) PROVE LifecycleInv'
  BY <1>2, ConnectStartStep, ConnectStartFailsStep, ConnectHandshakeStep, ConnectDoneStep,
     ConnectFailsStep, DisconnectCallStep, DisconnectWaitStep, UseEndsStep DEF Work
<1>3. ASSUME NEW g \in Goroutines, Lock(g) PROVE LifecycleInv'
  BY <1>3, ConnectBeginStep, DisconnectBeginStep, GetClientStep DEF Lock
<1>4. ASSUME NEW g \in Goroutines, NEW op \in Waiting, Enter(g, op) PROVE LifecycleInv'
  BY <1>4, EnterStep
<1>5. ASSUME NEW k \in Procs, ProcExit(k) \/ ClientEOF(k) PROVE LifecycleInv'
  BY <1>5, ProcessStep
<1>6. QED
  BY <1>1, <1>2, <1>3, <1>4, <1>5 DEF Next

\* LifecycleInv holds in every reachable state.
THEOREM LifecycleInvariance == Spec => []LifecycleInv
BY LifecycleInit, LifecycleInvStep, PTL DEF Spec

\* No plugin process runs that Disconnect or the next Connect cannot reach.
THEOREM NoProcessIsForgotten == Spec => []NoOrphanProcess
<1>1. LifecycleInv => NoOrphanProcess
  BY DEF LifecycleInv
<1>2. QED
  BY <1>1, LifecycleInvariance, PTL

\* Outside Connect and Disconnect, client, process and capabilities are of
\* one connected generation.
THEOREM FieldsAgree == Spec => []OneGeneration
<1>1. LifecycleInv => OneGeneration
  BY DEF LifecycleInv
<1>2. QED
  BY <1>1, LifecycleInvariance, PTL

\* Requests go to plugins whose Connect succeeded, although the client is
\* used outside the lock.
THEOREM RequestsNeedAConnection == Spec => []OnlyConnectedPluginsAreAsked
<1>1. LifecycleInv => OnlyConnectedPluginsAreAsked
  BY DEF LifecycleInv
<1>2. QED
  BY <1>1, LifecycleInvariance, PTL

\* An open client is the plugin's current one.
THEOREM OldClientsAreClosed == Spec => []ReplacedClientsAreClosed
<1>1. LifecycleInv => ReplacedClientsAreClosed
  BY DEF LifecycleInv
<1>2. QED
  BY <1>1, LifecycleInvariance, PTL
=============================================================================
