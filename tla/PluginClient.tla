---------------------------- MODULE PluginClient ----------------------------
(***************************************************************************)
(* The JSON-RPC client that multiplexes the calls of many goroutines over  *)
(* the stdin/stdout pipes of one plugin process (pkg/plugin/client.go).    *)
(*                                                                         *)
(* A goroutine in Call allocates an id, registers a one-slot channel under *)
(* it, writes its request, and selects over its context, the client's      *)
(* closeCh and its channel.  One readLoop goroutine takes response lines   *)
(* off the other pipe and hands each to the channel registered under its   *)
(* id.  Close may run at any time, from readLoop at end of file or from    *)
(* the plugin object.  A section between mu.Lock and mu.Unlock is one      *)
(* action; what the code does outside the lock is an action of its own.    *)
(*                                                                         *)
(* The plugin is any program: it may answer in any order, twice, or with   *)
(* an id nobody asked for, fall silent, or exit.  PluginSession replaces   *)
(* it by the server loop of the plugin SDK.                                *)
(***************************************************************************)
EXTENDS Naturals, Sequences, FiniteSets

CONSTANTS
  Callers,   \* goroutines that use the client
  Closers,   \* goroutines, other than readLoop, that call Close
  MaxId,     \* bound: the number of ids nextID hands out
  PipeCap,   \* bound: lines an OS pipe holds before a write blocks
  Bodies,    \* kinds of response the plugin sends: results, JSON-RPC errors
  NoLine     \* the value of an empty channel slot

Ids    == 1..MaxId
\* A response line: the id it carries (0: no id, or a line that does not
\* parse, which readLoop treats alike) and whether it is a JSON-RPC error.
Lines  == [id : 0..MaxId, body : Bodies]

ASSUME BoundsAssumption == MaxId \in Nat \ {0} /\ PipeCap \in Nat \ {0}
ASSUME BodiesAssumption == Bodies \subseteq {"result", "error"}
ASSUME NoLineAssumption == NoLine \notin Lines
ASSUME GoroutineAssumption == "readLoop" \notin Closers

VARIABLES
  nextID,     \* the last id handed out (atomic counter)
  closed,     \* the closed flag; closeCh is closed in the same section
  pending,    \* ids with a registered channel
  slot,       \* slot[i]: what the channel made for id i buffers
  closedCh,   \* ids whose channel has been closed
  pc,         \* pc[p]: where caller p is in Call or Notify
  callId,     \* callId[p]: the id of p's call, 0 before there is one
  expired,    \* callers whose call's context is done
  outcome,    \* outcome[p]: what p's last call returned, or will return
  got,        \* got[p]: the response that p's call received
  rl,         \* readLoop's program counter
  rlLine,     \* the line readLoop holds
  closePc,    \* closePc[c]: where c is in Close
  writerOpen, \* the client's end of the plugin's stdin
  readerOpen, \* the client's end of the plugin's stdout
  reqPipe,    \* ids of request lines on their way to the plugin (0: Notify)
  respPipe,   \* response lines on their way to the client
  peerAlive   \* the plugin process runs

clientVars == <<nextID, closed, pending, slot, closedCh>>
callVars   == <<pc, callId, expired, outcome, got>>
readVars   == <<rl, rlLine>>
pipeVars   == <<reqPipe, respPipe, peerAlive>>
endVars    == <<writerOpen, readerOpen>>
vars == <<clientVars, callVars, readVars, closePc, endVars, pipeVars>>

Outcomes == {"none", "ok", "rpcError", "closed", "ctx", "writeError", "sent"}
InCall   == {"register", "write", "select", "return"}
\* Past CallRegister and before the deferred delete has run.
Registered == {"write", "select", "return"}

FlagsOK ==
  /\ closed \in BOOLEAN /\ peerAlive \in BOOLEAN
  /\ writerOpen \in BOOLEAN /\ readerOpen \in BOOLEAN

TypeOK ==
  /\ FlagsOK
  /\ nextID \in 0..MaxId
  /\ pending \in SUBSET Ids
  /\ slot \in [Ids -> Lines \cup {NoLine}]
  /\ closedCh \in SUBSET Ids
  /\ pc \in [Callers -> {"idle", "notify"} \cup InCall]
  /\ callId \in [Callers -> 0..MaxId]
  /\ expired \in SUBSET Callers
  /\ outcome \in [Callers -> Outcomes]
  /\ got \in [Callers -> Lines \cup {NoLine}]
  /\ rl \in {"read", "send", "close", "done"}
  /\ rlLine \in Lines \cup {NoLine}
  /\ closePc \in [Closers \cup {"readLoop"} -> {"idle", "pipes"}]
  /\ reqPipe \in Seq(0..MaxId) /\ respPipe \in Seq(Lines)

Init ==
  /\ nextID = 0 /\ closed = FALSE /\ pending = {} /\ closedCh = {}
  /\ slot = [i \in Ids |-> NoLine]
  /\ pc = [p \in Callers |-> "idle"]
  /\ callId = [p \in Callers |-> 0]
  /\ expired = {}
  /\ outcome = [p \in Callers |-> "none"]
  /\ got = [p \in Callers |-> NoLine]
  /\ rl = "read" /\ rlLine = NoLine
  /\ closePc = [c \in Closers \cup {"readLoop"} |-> "idle"]
  /\ writerOpen = TRUE /\ readerOpen = TRUE
  /\ reqPipe = <<>> /\ respPipe = <<>> /\ peerAlive = TRUE

-----------------------------------------------------------------------------
(* Call *)

\* The id, the context and the response of a call are gone when it returns.
Forget(p) ==
  /\ callId' = [callId EXCEPT ![p] = 0]
  /\ got' = [got EXCEPT ![p] = NoLine]
  /\ expired' = expired \ {p}

\* The first check of closed fails the call before it has an id.
CallRefused(p) ==
  /\ pc[p] = "idle"
  /\ closed
  /\ outcome' = [outcome EXCEPT ![p] = "closed"]
  /\ UNCHANGED <<clientVars, pc, callId, expired, got, readVars, closePc, endVars,
                 pipeVars>>

\* The first check passes and nextID.Add hands out the id.  The two run
\* without the lock between them, but only Add reads or writes nextID, so
\* joining them hides no interleaving.  The context may already be done.
CallBegin(p) ==
  /\ pc[p] = "idle"
  /\ ~closed
  /\ nextID < MaxId
  /\ nextID' = nextID + 1
  /\ callId' = [callId EXCEPT ![p] = nextID + 1]
  /\ pc' = [pc EXCEPT ![p] = "register"]
  /\ expired' \in {expired, expired \cup {p}}
  /\ outcome' = [outcome EXCEPT ![p] = "none"]
  /\ UNCHANGED <<closed, pending, slot, closedCh, got, readVars, closePc, endVars, pipeVars>>

\* Mutant: the registration relies on the first check of closed.
CallRegisterUnchecked(p) ==
  /\ pc[p] = "register"
  /\ pending' = pending \cup {callId[p]}
  /\ pc' = [pc EXCEPT ![p] = "write"]
  /\ UNCHANGED <<nextID, closed, slot, closedCh, callId, expired, got, outcome, readVars,
                 closePc, endVars, pipeVars>>

\* The second check of closed and the registration are one locked section.
CallRegister(p) ==
  /\ pc[p] = "register"
  /\ \/ /\ closed
        /\ outcome' = [outcome EXCEPT ![p] = "closed"]
        /\ pc' = [pc EXCEPT ![p] = "idle"]
        /\ Forget(p)
        /\ UNCHANGED pending
     \/ /\ ~closed
        /\ pending' = pending \cup {callId[p]}
        /\ pc' = [pc EXCEPT ![p] = "write"]
        /\ UNCHANGED <<callId, expired, got, outcome>>
  /\ UNCHANGED <<nextID, closed, slot, closedCh, readVars, closePc, endVars, pipeVars>>

\* A write succeeds while the pipe has room, fails once either end is
\* closed, and otherwise blocks.  writeMu makes it atomic: whoever waits for
\* the lock of a blocked writer waits for the same room in the pipe.
CanWrite     == writerOpen /\ peerAlive /\ Len(reqPipe) < PipeCap
WriteFails   == ~writerOpen \/ ~peerAlive

CallWrite(p) ==
  /\ pc[p] = "write"
  /\ \/ /\ CanWrite
        /\ reqPipe' = Append(reqPipe, callId[p])
        /\ pc' = [pc EXCEPT ![p] = "select"]
        /\ UNCHANGED outcome
     \/ /\ WriteFails
        /\ outcome' = [outcome EXCEPT ![p] = "writeError"]
        /\ pc' = [pc EXCEPT ![p] = "return"]
        /\ UNCHANGED reqPipe
  /\ UNCHANGED <<clientVars, callId, expired, got, readVars, closePc, endVars,
                 respPipe, peerAlive>>

\* Mutant: the select has no branch for the context.
SelectCtxMissing(p) == p \in {} /\ UNCHANGED vars

\* The three branches of the select; Go picks any branch that is ready.
SelectCtx(p) ==
  /\ pc[p] = "select"
  /\ p \in expired
  /\ outcome' = [outcome EXCEPT ![p] = "ctx"]
  /\ pc' = [pc EXCEPT ![p] = "return"]
  /\ UNCHANGED <<clientVars, callId, expired, got, readVars, closePc, endVars, pipeVars>>

SelectClosed(p) ==
  /\ pc[p] = "select"
  /\ closed
  /\ outcome' = [outcome EXCEPT ![p] = "closed"]
  /\ pc' = [pc EXCEPT ![p] = "return"]
  /\ UNCHANGED <<clientVars, callId, expired, got, readVars, closePc, endVars, pipeVars>>

\* Mutant: a nil response from a closed channel is taken for a result.
SelectResponseUnchecked(p) ==
  LET i == callId[p] IN
  /\ pc[p] = "select"
  /\ slot[i] # NoLine \/ i \in closedCh
  /\ outcome' = [outcome EXCEPT ![p] = "ok"]
  /\ got' = [got EXCEPT ![p] = slot[i]]
  /\ slot' = [slot EXCEPT ![i] = NoLine]
  /\ pc' = [pc EXCEPT ![p] = "return"]
  /\ UNCHANGED <<nextID, closed, pending, closedCh, callId, expired, readVars, closePc,
                 endVars, pipeVars>>

\* Receive from the channel: a buffered response first, and once the channel
\* is closed and empty a nil one, which the code reports as ErrClientClosed.
SelectResponse(p) ==
  LET i == callId[p] IN
  /\ pc[p] = "select"
  /\ \/ /\ slot[i] # NoLine
        /\ outcome' = [outcome EXCEPT ![p] =
                         IF slot[i].body = "error" THEN "rpcError" ELSE "ok"]
        /\ got' = [got EXCEPT ![p] = slot[i]]
        /\ slot' = [slot EXCEPT ![i] = NoLine]
     \/ /\ slot[i] = NoLine
        /\ i \in closedCh
        /\ outcome' = [outcome EXCEPT ![p] = "closed"]
        /\ UNCHANGED <<slot, got>>
  /\ pc' = [pc EXCEPT ![p] = "return"]
  /\ UNCHANGED <<nextID, closed, pending, closedCh, callId, expired, readVars, closePc,
                 endVars, pipeVars>>

\* Mutant: only readLoop and Close take a registration back.
CallReturnLeaves(p) ==
  /\ pc[p] = "return"
  /\ pc' = [pc EXCEPT ![p] = "idle"]
  /\ Forget(p)
  /\ UNCHANGED <<clientVars, outcome, readVars, closePc, endVars, pipeVars>>

\* The deferred delete, on every way out of Call after the registration.
CallReturn(p) ==
  /\ pc[p] = "return"
  /\ pending' = pending \ {callId[p]}
  /\ pc' = [pc EXCEPT ![p] = "idle"]
  /\ Forget(p)
  /\ UNCHANGED <<nextID, closed, slot, closedCh, outcome, readVars, closePc, endVars,
                 pipeVars>>

\* The deadline or the cancellation of the context of a call in progress.
Expire(p) ==
  /\ pc[p] \in InCall
  /\ p \notin expired
  /\ expired' = expired \cup {p}
  /\ UNCHANGED <<clientVars, pc, callId, outcome, got, readVars, closePc, endVars,
                 pipeVars>>

-----------------------------------------------------------------------------
(* Notify: a request without an id, for which nobody waits *)

NotifyBegin(p) ==
  /\ pc[p] = "idle"
  /\ ~closed
  /\ pc' = [pc EXCEPT ![p] = "notify"]
  /\ outcome' = [outcome EXCEPT ![p] = "none"]
  /\ UNCHANGED <<clientVars, callId, expired, got, readVars, closePc, endVars, pipeVars>>

NotifyWrite(p) ==
  /\ pc[p] = "notify"
  /\ \/ /\ CanWrite
        /\ reqPipe' = Append(reqPipe, 0)
        /\ outcome' = [outcome EXCEPT ![p] = "sent"]
     \/ /\ WriteFails
        /\ outcome' = [outcome EXCEPT ![p] = "writeError"]
        /\ UNCHANGED reqPipe
  /\ pc' = [pc EXCEPT ![p] = "idle"]
  /\ UNCHANGED <<clientVars, callId, expired, got, readVars, closePc, endVars,
                 respPipe, peerAlive>>

-----------------------------------------------------------------------------
(* Close *)

\* Mutant: pending is emptied without closing the channels in it.
CloseSectionForgets(c) ==
  /\ \/ closed /\ UNCHANGED <<closed, pending, closePc>>
     \/ /\ ~closed
        /\ closed' = TRUE
        /\ pending' = {}
        /\ closePc' = [closePc EXCEPT ![c] = "pipes"]
  /\ UNCHANGED <<nextID, slot, closedCh>>

\* The locked section: set closed, close closeCh, and empty pending, closing
\* every channel in it.  A second Close returns at once.
CloseSection(c) ==
  /\ \/ /\ closed
        /\ UNCHANGED <<closed, pending, closedCh, closePc>>
     \/ /\ ~closed
        /\ closed' = TRUE
        /\ pending' = {}
        /\ closedCh' = closedCh \cup pending
        /\ closePc' = [closePc EXCEPT ![c] = "pipes"]
  /\ UNCHANGED <<nextID, slot>>

Close(c) ==
  /\ closePc[c] = "idle"
  /\ CloseSection(c)
  /\ UNCHANGED <<callVars, readVars, endVars, pipeVars>>

\* Mutant: the writer stays open.
ClosePipesReaderOnly(c) ==
  /\ closePc[c] = "pipes"
  /\ closePc' = [closePc EXCEPT ![c] = "idle"]
  /\ readerOpen' = FALSE
  /\ UNCHANGED <<clientVars, callVars, readVars, writerOpen, pipeVars>>

\* Outside the lock the writer is closed, then the reader.
ClosePipes(c) ==
  /\ closePc[c] = "pipes"
  /\ closePc' = [closePc EXCEPT ![c] = "idle"]
  /\ writerOpen' = FALSE /\ readerOpen' = FALSE
  /\ UNCHANGED <<clientVars, callVars, readVars, pipeVars>>

-----------------------------------------------------------------------------
(* readLoop *)

\* Mutant: the registration is looked up and not taken.
ReadLoopLineKeeps ==
  /\ rl = "read"
  /\ respPipe # <<>>
  /\ respPipe' = Tail(respPipe)
  /\ IF Head(respPipe).id \in pending
       THEN rlLine' = Head(respPipe) /\ rl' = "send"
       ELSE UNCHANGED readVars
  /\ UNCHANGED <<clientVars, callVars, closePc, endVars, reqPipe, peerAlive>>

\* A line without a usable id is skipped.  Otherwise, under the lock, the
\* registration is taken out of pending if there is one; the line is
\* dropped if there is none.  bufio may still hold lines after the reader
\* is closed, so a line can be processed at any time.
ReadLoopLine ==
  /\ rl = "read"
  /\ respPipe # <<>>
  /\ respPipe' = Tail(respPipe)
  /\ IF Head(respPipe).id \in pending
       THEN /\ pending' = pending \ {Head(respPipe).id}
            /\ rlLine' = Head(respPipe)
            /\ rl' = "send"
       ELSE UNCHANGED <<pending, readVars>>
  /\ UNCHANGED <<nextID, closed, slot, closedCh, callVars, closePc, endVars, reqPipe,
                 peerAlive>>

\* Mutant: the channel has no buffer, so somebody must be receiving.
ReadLoopSendUnbuffered ==
  /\ rl = "send"
  /\ \E p \in Callers : pc[p] = "select" /\ callId[p] = rlLine.id
  /\ slot' = [slot EXCEPT ![rlLine.id] = rlLine]
  /\ rl' = "read"
  /\ rlLine' = NoLine
  /\ UNCHANGED <<nextID, closed, pending, closedCh, callVars, closePc, endVars, pipeVars>>

\* ch <- &resp, outside the lock: blocks while the slot is full, and
\* panics if the channel is closed (see NoSendOnClosedChannel).
ReadLoopSend ==
  /\ rl = "send"
  /\ slot[rlLine.id] = NoLine
  /\ slot' = [slot EXCEPT ![rlLine.id] = rlLine]
  /\ rl' = "read"
  /\ rlLine' = NoLine
  /\ UNCHANGED <<nextID, closed, pending, closedCh, callVars, closePc, endVars, pipeVars>>

\* Mutant: readLoop returns at end of file without closing the client.
ReadLoopEOFReturns ==
  /\ rl = "read"
  /\ ~readerOpen \/ (respPipe = <<>> /\ ~peerAlive)
  /\ rl' = "done"
  /\ UNCHANGED <<clientVars, callVars, rlLine, closePc, endVars, pipeVars>>

\* End of file, or an error because the client's end was closed.
ReadLoopEOF ==
  /\ rl = "read"
  /\ ~readerOpen \/ (respPipe = <<>> /\ ~peerAlive)
  /\ rl' = "close"
  /\ UNCHANGED <<clientVars, callVars, rlLine, closePc, endVars, pipeVars>>

ReadLoopClose ==
  /\ rl = "close"
  /\ CloseSection("readLoop")
  /\ rl' = "done"
  /\ UNCHANGED <<callVars, rlLine, endVars, pipeVars>>

-----------------------------------------------------------------------------
(* The plugin process, an arbitrary program on the other end of the pipes *)

PeerRead ==
  /\ peerAlive
  /\ reqPipe # <<>>
  /\ reqPipe' = Tail(reqPipe)
  /\ UNCHANGED <<clientVars, callVars, readVars, closePc, endVars, respPipe, peerAlive>>

PeerWrite(line) ==
  /\ peerAlive
  /\ readerOpen
  /\ Len(respPipe) < PipeCap
  /\ respPipe' = Append(respPipe, line)
  /\ UNCHANGED <<clientVars, callVars, readVars, closePc, endVars, reqPipe, peerAlive>>

PeerExit ==
  /\ peerAlive
  /\ peerAlive' = FALSE
  /\ UNCHANGED <<clientVars, callVars, readVars, closePc, endVars, reqPipe, respPipe>>

-----------------------------------------------------------------------------
Select(p) == SelectCtx(p) \/ SelectClosed(p) \/ SelectResponse(p)

\* What a caller does on its own once it is inside Call or Notify.
CallerStep(p) ==
  \/ CallRegister(p) \/ CallWrite(p) \/ Select(p) \/ CallReturn(p)
  \/ NotifyWrite(p)

Caller(p) ==
  \/ CallRefused(p) \/ CallBegin(p) \/ NotifyBegin(p)
  \/ CallerStep(p)
  \/ Expire(p)

ReadLoop == ReadLoopLine \/ ReadLoopSend \/ ReadLoopEOF \/ ReadLoopClose

ClientNext ==
  \/ \E p \in Callers : Caller(p)
  \/ ReadLoop
  \/ \E c \in Closers : Close(c)
  \/ \E c \in Closers \cup {"readLoop"} : ClosePipes(c)

Peer == PeerRead \/ PeerExit \/ \E line \in Lines : PeerWrite(line)

Next == ClientNext \/ Peer

Spec == Init /\ [][Next]_vars

\* The Go scheduler runs every runnable goroutine: callers inside a call,
\* readLoop and a Close in progress.  Nothing is assumed of the plugin, of
\* who starts a call, or of who closes the client.
ClientFairness ==
  /\ \A p \in Callers : WF_vars(CallerStep(p))
  /\ WF_vars(ReadLoop)
  /\ \A c \in Closers \cup {"readLoop"} : WF_vars(ClosePipes(c))

FairSpec == Spec /\ ClientFairness

-----------------------------------------------------------------------------
(* Properties *)

\* readLoop sends outside the lock, so Close may run between its lookup and
\* its send.  The channel it is about to send on has not been closed: a send
\* on a closed channel panics and takes the whole program down.
NoSendOnClosedChannel == rl = "send" => rlLine.id \notin closedCh

\* The slot readLoop is about to fill is empty, even when the plugin answers
\* twice and the caller has given up: readLoop never blocks on a caller, so
\* one abandoned call cannot stop the answers of all the others.
ReadLoopNeverBlocks == rl = "send" => slot[rlLine.id] = NoLine

\* No two calls in progress share an id, and a call that returns a response
\* returns one that carries its own id, whatever ids the plugin sends and
\* however late it sends them.
CallsGetTheirOwnAnswer ==
  /\ \A p, q \in Callers :
       (p # q /\ pc[p] \in InCall /\ pc[q] \in InCall) => callId[p] # callId[q]
  /\ \A p \in Callers :
       (pc[p] = "return" /\ outcome[p] \in {"ok", "rpcError"}) =>
         got[p] # NoLine /\ got[p].id = callId[p]

\* Every id in pending belongs to a call that is still in progress: a call
\* that timed out, failed to write or was answered leaves nothing behind, so
\* a late answer finds no channel and the map does not grow with each timeout.
PendingBelongsToACall ==
  \A i \in pending : \E p \in Callers : callId[p] = i /\ pc[p] \in Registered

\* A call that passed the first check of closed cannot register after another
\* goroutine's Close has swept pending: nobody would close its channel.
NothingPendingOnceClosed == closed => pending = {}

\* A call that waits on a channel outside pending is about to be woken:
\* its response is buffered or in readLoop's hands, or the channel is closed.
\* No call is left waiting on a channel that everybody has forgotten.
NoForgottenWaiter ==
  \A p \in Callers : pc[p] = "select" =>
    \/ callId[p] \in pending
    \/ callId[p] \in closedCh
    \/ slot[callId[p]] # NoLine
    \/ rl = "send" /\ rlLine.id = callId[p]

\* The inductive invariant behind the properties above.  An id is used by
\* one call only, ids above nextID are untouched, a channel in pending is open
\* and empty, and readLoop holds a registration that nobody else can reach.
FreshIds ==
  \A i \in Ids : i > nextID => /\ i \notin pending \cup closedCh
                              /\ slot[i] = NoLine
CallsOwnTheirIds ==
  /\ \A p \in Callers : pc[p] \in InCall => callId[p] \in 1..nextID
  /\ \A p, q \in Callers :
       (p # q /\ pc[p] \in InCall /\ pc[q] \in InCall) => callId[p] # callId[q]
UnregisteredIds ==
  \A p \in Callers : pc[p] = "register" =>
    /\ callId[p] \notin pending \cup closedCh
    /\ slot[callId[p]] = NoLine
    /\ rl = "send" => rlLine.id # callId[p]
PendingUntouched == \A i \in pending : i \notin closedCh /\ slot[i] = NoLine
SendOwned ==
  rl = "send" => /\ rlLine \in Lines
                 /\ rlLine.id \in 1..nextID
                 /\ rlLine.id \notin pending \cup closedCh
                 /\ slot[rlLine.id] = NoLine
SlotsMatch == \A i \in Ids : slot[i] # NoLine => slot[i].id = i
AnswersMatch ==
  \A p \in Callers :
    (pc[p] = "return" /\ outcome[p] \in {"ok", "rpcError"}) =>
      got[p] # NoLine /\ got[p].id = callId[p]
WaitersKnown ==
  \A p \in Callers : pc[p] \in {"write", "select"} =>
    \/ callId[p] \in pending
    \/ callId[p] \in closedCh
    \/ slot[callId[p]] # NoLine
    \/ rl = "send" /\ rlLine.id = callId[p]

ClientInv ==
  /\ TypeOK /\ FreshIds /\ CallsOwnTheirIds /\ UnregisteredIds
  /\ PendingUntouched /\ PendingBelongsToACall /\ NothingPendingOnceClosed
  /\ SendOwned /\ SlotsMatch /\ AnswersMatch /\ WaitersKnown

\* A call whose context is done returns, however silent the plugin is, once
\* its request is written.
ContextEndsCall ==
  \A p \in Callers : (pc[p] = "select" /\ p \in expired) ~> pc[p] = "idle"

\* After Close every call in progress returns, also one blocked in its write.
CloseEndsCalls ==
  \A p \in Callers : (closed /\ pc[p] # "idle") ~> pc[p] = "idle"

\* When the plugin exits the client closes itself, and after Close readLoop
\* ends: no reader goroutine outlives its client.
PluginExitClosesClient == ~peerAlive ~> closed
ReadLoopEnds == closed ~> rl = "done"
=============================================================================
