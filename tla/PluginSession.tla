---------------------------- MODULE PluginSession ----------------------------
(***************************************************************************)
(* The plugin client connected to a plugin written with the SDK: the       *)
(* arbitrary peer of PluginClient is replaced by the server loop of        *)
(* pkg/plugin/sdk/server.go, which takes one request at a time off stdin,  *)
(* runs the provider's method and writes one response to stdout.  Both     *)
(* pipes are bounded, so each side can be blocked by the other.            *)
(***************************************************************************)
EXTENDS PluginClient

VARIABLES
  srv,    \* the server loop: "scan", "handle" or "write"
  srvId,  \* the id of the request being served, 0 for a notification
  srvBody \* the kind of response about to be written

srvVars     == <<srv, srvId, srvBody>>
sessionVars == <<vars, srvVars>>

SessionInit ==
  /\ Init
  /\ srv = "scan" /\ srvId = 0 /\ srvBody = "none"

\* scanner.Scan returns a line that parses as a request.
ServerScan ==
  /\ srv = "scan"
  /\ peerAlive
  /\ reqPipe # <<>>
  /\ srvId' = Head(reqPipe)
  /\ reqPipe' = Tail(reqPipe)
  /\ srv' = "handle"
  /\ UNCHANGED <<srvBody, clientVars, callVars, readVars, closePc, endVars, respPipe,
                 peerAlive>>

\* Mutant: at the end of its input the plugin goes on.
ServerStopIgnoresEOF ==
  /\ srv = "scan"
  /\ peerAlive
  /\ reqPipe # <<>>
  /\ peerAlive' = FALSE
  /\ UNCHANGED <<srvVars, clientVars, callVars, readVars, closePc, endVars, reqPipe,
                 respPipe>>

\* Scan returns FALSE: end of file because the client closed the plugin's
\* stdin, or a line longer than maxMsgSize.  Run returns and the plugin
\* exits.
ServerStop ==
  /\ srv = "scan"
  /\ peerAlive
  /\ reqPipe # <<>> \/ ~writerOpen
  /\ peerAlive' = FALSE
  /\ UNCHANGED <<srvVars, clientVars, callVars, readVars, closePc, endVars, reqPipe,
                 respPipe>>

\* handleRequest: whatever the method, and whether the parameters parse and
\* the provider succeeds, exactly one of sendResponse and sendError follows.
ServerHandle ==
  /\ srv = "handle"
  /\ peerAlive
  /\ srvBody' \in Bodies
  /\ srv' = "write"
  /\ UNCHANGED <<srvId, vars>>

\* Mutant: a return is missing after sendError, so a second answer follows.
ServerWriteTwice ==
  /\ srv = "write"
  /\ peerAlive /\ readerOpen
  /\ Len(respPipe) < PipeCap
  /\ respPipe' = Append(respPipe, [id |-> srvId, body |-> srvBody])
  /\ srv' \in {"scan", "write"}
  /\ UNCHANGED <<srvId, srvBody, clientVars, callVars, readVars, closePc, endVars, reqPipe,
                 peerAlive>>

\* Mutant: a result that cannot be encoded is dropped without an answer.
ServerWriteDrops ==
  /\ srv = "write"
  /\ peerAlive
  /\ srv' = "scan" /\ srvId' = 0 /\ srvBody' = "none"
  /\ UNCHANGED vars

\* The write of the response blocks while stdout is full.  A write to a
\* stdout nobody reads kills the process (SIGPIPE).
ServerWrite ==
  /\ srv = "write"
  /\ peerAlive
  /\ \/ /\ readerOpen
        /\ Len(respPipe) < PipeCap
        /\ respPipe' = Append(respPipe, [id |-> srvId, body |-> srvBody])
        /\ srv' = "scan" /\ srvId' = 0 /\ srvBody' = "none"
        /\ UNCHANGED peerAlive
     \/ /\ ~readerOpen
        /\ peerAlive' = FALSE
        /\ UNCHANGED <<respPipe, srvVars>>
  /\ UNCHANGED <<clientVars, callVars, readVars, closePc, endVars, reqPipe>>

Server == ServerScan \/ ServerStop \/ ServerHandle \/ ServerWrite

SessionNext ==
  \/ (ClientNext \/ PeerExit) /\ UNCHANGED srvVars
  \/ Server

SessionSpec == SessionInit /\ [][SessionNext]_sessionVars

\* Besides the client's goroutines, the server process runs, and the methods
\* of its provider return.  Nobody has to set a deadline or close anything.
\* A writer blocked on a full pipe holds writeMu, so it gets the next room,
\* and a Go mutex in starvation mode passes to its waiters in their order:
\* a write that can go on again and again eventually does.
SessionFairness ==
  /\ \A p \in Callers : WF_sessionVars(CallerStep(p) /\ UNCHANGED srvVars)
  /\ \A p \in Callers : SF_sessionVars((CallWrite(p) \/ NotifyWrite(p)) /\ UNCHANGED srvVars)
  /\ WF_sessionVars(ReadLoop /\ UNCHANGED srvVars)
  /\ \A c \in Closers \cup {"readLoop"} :
       WF_sessionVars(ClosePipes(c) /\ UNCHANGED srvVars)
  /\ WF_sessionVars(Server)

FairSessionSpec == SessionSpec /\ SessionFairness

-----------------------------------------------------------------------------
(* Properties *)

InPipe(pipe, i) == {k \in 1..Len(pipe) : pipe[k] = i}
ResponsesFor(i) == {k \in 1..Len(respPipe) : respPipe[k].id = i}
One(b) == IF b THEN 1 ELSE 0

\* A request is in at most one place on its way through the plugin and back:
\* no request is served twice and no call is answered twice, so an answer
\* that readLoop drops is always the answer of a call that gave up.
RequestServedOnce ==
  \A i \in Ids :
    Cardinality(InPipe(reqPipe, i)) + One(srv # "scan" /\ srvId = i)
      + Cardinality(ResponsesFor(i)) + One(rl = "send" /\ rlLine.id = i)
      + One(slot[i] # NoLine) <= 1

\* A call that waits in its select on an open client, with the plugin
\* running, has its request or its answer somewhere on the way: it cannot
\* wait for an answer that nobody will send.
WaiterIsServed ==
  \A p \in Callers :
    (pc[p] = "select" /\ ~closed /\ peerAlive) =>
      LET i == callId[p] IN
      \/ InPipe(reqPipe, i) # {} \/ ResponsesFor(i) # {}
      \/ srv # "scan" /\ srvId = i
      \/ rl = "send" /\ rlLine.id = i
      \/ slot[i] # NoLine

\* Every call ends, without any deadline: full pipes, abandoned calls,
\* notifications and a plugin that crashes or stops never leave client and
\* server waiting for each other.
EveryCallEnds == \A p \in Callers : pc[p] \in InCall ~> pc[p] = "idle"

\* Once the client is closed the plugin comes to its end by itself: it sees
\* the end of its stdin or dies writing to its stdout.
CloseEndsPlugin == closed ~> ~peerAlive
=============================================================================
