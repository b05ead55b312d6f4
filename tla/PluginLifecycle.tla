-------------------------- MODULE PluginLifecycle --------------------------
(***************************************************************************)
(* The plugin object of pkg/plugin/plugin.go: one RWMutex guards which     *)
(* process and which client the plugin has.  Connect and Disconnect hold   *)
(* the write lock across their RPCs; every other operation takes a         *)
(* snapshot of the client under the read lock (getClient) and calls it     *)
(* after the lock is released.  Process k and client k are made together,  *)
(* by the k-th Start.                                                      *)
(*                                                                         *)
(* A call on a client ends as PluginCalls says: answered, or failed for a  *)
(* reason of which there is always one (the context, an RPC error, a       *)
(* closed client).                                                         *)
(***************************************************************************)
EXTENDS Naturals, FiniteSets

CONSTANTS
  Goroutines,  \* goroutines that use the plugin (the command, TUI fetches)
  MaxProcs,    \* bound: plugin processes started
  Nobody       \* holder of a free lock

Procs == 1..MaxProcs
None  == 0

ASSUME ProcsAssumption  == MaxProcs \in Nat \ {0}
ASSUME NobodyAssumption == Nobody \notin Goroutines

VARIABLES
  writer,   \* the goroutine that holds mu for writing, or Nobody
  pc,       \* pc[g]: the operation g is in and how far it is
  held,     \* held[g]: the client g's operation uses
  client,   \* p.client: its number, or None
  cmd,      \* p.cmd: the number of its process, or None
  info,     \* the process whose handshake set name, version, capabilities
  started,  \* processes started so far
  proc,     \* proc[k]: process k
  open,     \* the clients that are not closed
  ready     \* history: processes whose provider has connected

vars == <<writer, pc, held, client, cmd, info, started, proc, open, ready>>

Waiting == {"wantConnect", "wantDisconnect", "wantClient"}
Writing == {"start", "handshake", "connect", "disconnect", "reap"}

TypeOK ==
  /\ writer \in Goroutines \cup {Nobody}
  /\ pc \in [Goroutines -> {"idle", "use"} \cup Waiting \cup Writing]
  /\ held \in [Goroutines -> 0..MaxProcs]
  /\ client \in 0..MaxProcs /\ cmd \in 0..MaxProcs /\ info \in 0..MaxProcs
  /\ started \in 0..MaxProcs
  /\ proc \in [Procs -> {"none", "running", "killed", "zombie", "reaped"}]
  /\ open \in SUBSET Procs
  /\ ready \in SUBSET Procs

Init ==
  /\ writer = Nobody
  /\ pc = [g \in Goroutines |-> "idle"]
  /\ held = [g \in Goroutines |-> None]
  /\ client = None /\ cmd = None /\ info = None /\ started = 0
  /\ proc = [k \in Procs |-> "none"]
  /\ open = {} /\ ready = {}

\* An operation is entered; it may have to wait for the lock.
Enter(g, op) ==
  /\ pc[g] = "idle"
  /\ pc' = [pc EXCEPT ![g] = op]
  /\ UNCHANGED <<writer, held, client, cmd, info, started, proc, open, ready>>

Goto(g, label) == pc' = [pc EXCEPT ![g] = label]
Acquire(g) == writer = Nobody /\ writer' = g
Return(g)  == Goto(g, "idle") /\ writer' = Nobody

\* Process.Kill of process k, if there is one: no effect on an exited process.
Kill(k) == proc' = [j \in Procs |-> IF j = k /\ proc[j] = "running" THEN "killed" ELSE proc[j]]

-----------------------------------------------------------------------------
(* Connect *)

\* Mutant: the earlier client is dropped without closing it.
ConnectBeginLeavesOpen(g) ==
  /\ pc[g] = "wantConnect"
  /\ Acquire(g)
  /\ Goto(g, "start")
  /\ Kill(cmd)
  /\ client' = None /\ cmd' = None
  /\ UNCHANGED <<held, info, started, open, ready>>

\* Take the lock, close the client and kill the process of an earlier
\* Connect.  The process is not waited for.
ConnectBegin(g) ==
  /\ pc[g] = "wantConnect"
  /\ Acquire(g)
  /\ Goto(g, "start")
  /\ open' = open \ {client}
  /\ Kill(cmd)
  /\ client' = None /\ cmd' = None
  /\ UNCHANGED <<held, info, started, ready>>

\* Mutant: a bad binary returns without releasing the lock.
ConnectStartFailsLocked(g) ==
  /\ pc[g] = "start"
  /\ Goto(g, "idle")
  /\ UNCHANGED <<writer, held, client, cmd, info, started, proc, open, ready>>

\* The checks of the binary and the start of the process fail ...
ConnectStartFails(g) ==
  /\ pc[g] = "start"
  /\ Return(g)
  /\ UNCHANGED <<held, client, cmd, info, started, proc, open, ready>>

\* ... or a new process runs, with a client of its own.
ConnectStart(g) ==
  /\ pc[g] = "start"
  /\ started < MaxProcs
  /\ LET k == started + 1 IN
     /\ started' = k
     /\ proc' = [proc EXCEPT ![k] = "running"]
     /\ open' = open \cup {k}
     /\ client' = k /\ cmd' = k
  /\ Goto(g, "handshake")
  /\ UNCHANGED <<writer, held, info, ready>>

\* The handshake is answered.
ConnectHandshake(g) ==
  /\ pc[g] = "handshake"
  /\ info' = client
  /\ Goto(g, "connect")
  /\ UNCHANGED <<writer, held, client, cmd, started, proc, open, ready>>

\* The provider of the plugin connects to its device.
ConnectDone(g) ==
  /\ pc[g] = "connect"
  /\ ready' = ready \cup {client}
  /\ Return(g)
  /\ UNCHANGED <<held, client, cmd, info, started, proc, open>>

\* Mutant: the process of a failed Connect is not killed.
ConnectFailsNoKill(g) ==
  /\ pc[g] \in {"handshake", "connect"}
  /\ open' = open \ {client}
  /\ client' = None /\ cmd' = None
  /\ Return(g)
  /\ UNCHANGED <<held, info, started, proc, ready>>

\* Mutant: a failed Connect leaves its client in place.
ConnectFailsKeepsClient(g) ==
  /\ pc[g] \in {"handshake", "connect"}
  /\ open' = open \ {client}
  /\ Kill(cmd)
  /\ cmd' = None
  /\ Return(g)
  /\ UNCHANGED <<held, client, info, started, ready>>

\* Either call fails: close the client and kill the process, without Wait.
ConnectFails(g) ==
  /\ pc[g] \in {"handshake", "connect"}
  /\ open' = open \ {client}
  /\ Kill(cmd)
  /\ client' = None /\ cmd' = None
  /\ Return(g)
  /\ UNCHANGED <<held, info, started, ready>>

-----------------------------------------------------------------------------
(* Disconnect *)

DisconnectBegin(g) ==
  /\ pc[g] = "wantDisconnect"
  /\ writer = Nobody
  /\ IF client = None
       THEN Return(g)
       ELSE Acquire(g) /\ Goto(g, "disconnect")
  /\ UNCHANGED <<held, client, cmd, info, started, proc, open, ready>>

\* provider.disconnect ends, its outcome is ignored; close and kill.
DisconnectCall(g) ==
  /\ pc[g] = "disconnect"
  /\ open' = open \ {client}
  /\ client' = None
  /\ Kill(cmd)
  /\ Goto(g, "reap")
  /\ UNCHANGED <<writer, held, cmd, info, started, ready>>

\* cmd.Wait returns when the process has exited.
DisconnectWait(g) ==
  /\ pc[g] = "reap"
  /\ proc[cmd] = "zombie"
  /\ proc' = [proc EXCEPT ![cmd] = "reaped"]
  /\ cmd' = None
  /\ Return(g)
  /\ UNCHANGED <<held, client, info, started, open, ready>>

-----------------------------------------------------------------------------
(* The other operations *)

\* Mutant: the snapshot is taken without the lock.
GetClientUnlocked(g) ==
  /\ pc[g] = "wantClient"
  /\ IF client = None
       THEN Goto(g, "idle") /\ UNCHANGED held
       ELSE Goto(g, "use") /\ held' = [held EXCEPT ![g] = client]
  /\ UNCHANGED <<writer, client, cmd, info, started, proc, open, ready>>

\* getClient, under the read lock: ErrNotConnected, or a snapshot.
GetClient(g) ==
  /\ pc[g] = "wantClient"
  /\ writer = Nobody
  /\ IF client = None
       THEN Goto(g, "idle") /\ UNCHANGED held
       ELSE Goto(g, "use") /\ held' = [held EXCEPT ![g] = client]
  /\ UNCHANGED <<writer, client, cmd, info, started, proc, open, ready>>

\* The call on the snapshot ends, whatever became of that client meanwhile.
UseEnds(g) ==
  /\ pc[g] = "use"
  /\ Goto(g, "idle")
  /\ held' = [held EXCEPT ![g] = None]
  /\ UNCHANGED <<writer, client, cmd, info, started, proc, open, ready>>

-----------------------------------------------------------------------------
(* The process: it exits when killed, by itself, or because the context *)
(* of the Connect that started it is done.                               *)

ProcExit(k) ==
  /\ proc[k] \in {"running", "killed"}
  /\ proc' = [proc EXCEPT ![k] = "zombie"]
  /\ UNCHANGED <<writer, pc, held, client, cmd, info, started, open, ready>>

\* readLoop sees the end of file and closes the client.
ClientEOF(k) ==
  /\ proc[k] \in {"zombie", "reaped"}
  /\ k \in open
  /\ open' = open \ {k}
  /\ UNCHANGED <<writer, pc, held, client, cmd, info, started, proc, ready>>

Work(g) ==
  \/ ConnectStart(g) \/ ConnectStartFails(g) \/ ConnectHandshake(g) \/ ConnectDone(g)
  \/ ConnectFails(g) \/ DisconnectCall(g) \/ DisconnectWait(g) \/ UseEnds(g)
Lock(g) == ConnectBegin(g) \/ DisconnectBegin(g) \/ GetClient(g)

Next ==
  \/ \E g \in Goroutines : Work(g) \/ Lock(g) \/ \E op \in Waiting : Enter(g, op)
  \/ \E k \in Procs : ProcExit(k) \/ ClientEOF(k)

Spec == Init /\ [][Next]_vars

\* Calls end (PluginSession shows it of SDK plugins: EveryCallEnds), a killed
\* process exits, and an RWMutex lets every waiting goroutine in eventually.
FairSpec ==
  /\ Spec
  /\ \A g \in Goroutines : WF_vars(Work(g)) /\ SF_vars(Lock(g))
  /\ \A k \in Procs : WF_vars(proc[k] = "killed" /\ ProcExit(k))

-----------------------------------------------------------------------------
(* Properties *)

\* No plugin process runs that the plugin object has forgotten: whatever
\* Connects fail or are repeated, a process that nobody can disconnect any
\* more has been killed.
NoOrphanProcess == \A k \in Procs : proc[k] = "running" => cmd = k

\* When nobody is connecting, the client, the process and the capabilities
\* that Capabilities() reports belong together, and the provider behind them
\* is connected to its device.
OneGeneration ==
  writer = Nobody =>
    /\ client = cmd
    /\ client # None => info = client /\ client \in ready

\* An operation never sends its request to a plugin that is still
\* connecting, or whose Connect failed, although it uses its client outside
\* the lock.
OnlyConnectedPluginsAreAsked ==
  \A g \in Goroutines : pc[g] = "use" => held[g] \in ready

\* A client that has been replaced or disconnected is closed, so an operation
\* still waiting on a snapshot of it is woken.
ReplacedClientsAreClosed == \A k \in open : k = client

\* Every operation ends: one that waits for the lock is not kept out for
\* ever by a Connect that fails, or by a Disconnect of a dead plugin.
EveryOperationEnds == \A g \in Goroutines : pc[g] # "idle" ~> pc[g] = "idle"

\* The inductive invariant: who is inside Connect or Disconnect holds the
\* lock, and what it has done to the fields so far.
LockHeld == \A g \in Goroutines : pc[g] \in Writing <=> writer = g
Fields ==
  \A g \in Goroutines :
    /\ pc[g] = "start" => client = None /\ cmd = None
    /\ pc[g] \in {"handshake", "connect", "disconnect"} => client = cmd /\ client # None
    /\ pc[g] \in {"connect", "disconnect"} => info = client
    /\ pc[g] = "disconnect" => client \in ready
    /\ pc[g] = "reap" => client = None /\ cmd # None
Unstarted == \A k \in Procs : k > started => proc[k] = "none"

LifecycleInv ==
  /\ TypeOK /\ LockHeld /\ Fields /\ Unstarted
  /\ NoOrphanProcess /\ OneGeneration /\ OnlyConnectedPluginsAreAsked
  /\ ReplacedClientsAreClosed
=============================================================================
