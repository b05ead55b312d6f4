------------------------- MODULE PluginClientProofs -------------------------
(***************************************************************************)
(* The safety properties of PluginClient for every set of callers, every   *)
(* number of ids and every pipe capacity.  ClientInv is inductive; each    *)
(* property is a consequence of it.  The step lemmas take the actions in   *)
(* the groups that touch the same state.                                   *)
(***************************************************************************)
EXTENDS MCPluginClient, TLAPS

LEMMA TypeInit == Init => TypeOK
<1>1. Init => FlagsOK
  BY DEF Init, FlagsOK
<1>2. QED
  BY <1>1, BoundsAssumption DEF Init, TypeOK, InCall, Ids, Outcomes

LEMMA FlagsStep == FlagsOK /\ [Next]_vars => FlagsOK'
<1> SUFFICES ASSUME FlagsOK, [Next]_vars PROVE FlagsOK'
  OBVIOUS
<1> USE DEF FlagsOK
<1>1. ASSUME NEW p \in Callers, Caller(p) PROVE FlagsOK'
  BY <1>1 DEF Caller, CallerStep, Select, CallRefused, CallBegin, NotifyBegin,
     CallRegister, CallWrite, SelectCtx, SelectClosed, SelectResponse, CallReturn,
     NotifyWrite, Expire, clientVars, endVars, pipeVars
<1>2. ASSUME ReadLoop PROVE FlagsOK'
  BY <1>2 DEF ReadLoop, ReadLoopLine, ReadLoopSend, ReadLoopEOF, ReadLoopClose,
     CloseSection, clientVars, endVars, pipeVars
<1>3. ASSUME NEW c \in Closers, Close(c) PROVE FlagsOK'
  BY <1>3 DEF Close, CloseSection, endVars, pipeVars
<1>4. ASSUME NEW c \in Closers \cup {"readLoop"}, ClosePipes(c) PROVE FlagsOK'
  BY <1>4 DEF ClosePipes, clientVars, pipeVars
<1>5. ASSUME Peer PROVE FlagsOK'
  BY <1>5 DEF Peer, PeerRead, PeerWrite, PeerExit, clientVars, endVars
<1>6. CASE UNCHANGED vars
  BY <1>6 DEF vars, clientVars, endVars, pipeVars
<1>7. QED
  BY <1>1, <1>2, <1>3, <1>4, <1>5, <1>6 DEF Next, ClientNext

LEMMA TypeStep == TypeOK /\ CallsOwnTheirIds /\ [Next]_vars => TypeOK'
<1> SUFFICES ASSUME TypeOK, CallsOwnTheirIds, [Next]_vars PROVE TypeOK'
  OBVIOUS
<1>0. FlagsOK'
  BY FlagsStep DEF TypeOK
<1> USE <1>0, BoundsAssumption, NoLineAssumption
<1>1. ASSUME NEW p \in Callers, Caller(p) PROVE TypeOK'
  <2>0. pc[p] \in InCall => callId[p] \in Ids
    BY DEF CallsOwnTheirIds, TypeOK, Ids
  <2>1. CASE CallRefused(p)
    BY <2>1 DEF CallRefused, TypeOK, clientVars, readVars, endVars, pipeVars, Outcomes
  <2>2. CASE CallBegin(p)
    BY <2>2 DEF CallBegin, TypeOK, InCall, Ids, readVars, endVars, pipeVars, Outcomes
  <2>3. CASE NotifyBegin(p)
    BY <2>3 DEF NotifyBegin, TypeOK, clientVars, readVars, endVars, pipeVars, Outcomes
  <2>4. CASE CallRegister(p)
    <3>1. CASE closed
      <4>1. /\ outcome' = [outcome EXCEPT ![p] = "closed"]
            /\ pc' = [pc EXCEPT ![p] = "idle"]
            /\ Forget(p)
            /\ UNCHANGED pending
        BY <2>4, <3>1 DEF CallRegister
      <4>2. UNCHANGED <<nextID, slot, closedCh, rl, rlLine, closePc, reqPipe, respPipe>>
        BY <2>4 DEF CallRegister, readVars, pipeVars
      <4>3. QED
        BY <4>1, <4>2 DEF Forget, TypeOK, Outcomes
    <3>2. CASE ~closed
      <4>1. pending' \in SUBSET Ids
        BY <2>0, <2>4, <3>2 DEF CallRegister, TypeOK, InCall
      <4>2. QED
        BY <4>1, <2>4, <3>2 DEF CallRegister, TypeOK, InCall, readVars, endVars, pipeVars
    <3>3. QED
      BY <3>1, <3>2
  <2>5. CASE CallWrite(p)
    <3>1. reqPipe' = Append(reqPipe, callId[p]) \/ reqPipe' = reqPipe
      BY <2>5 DEF CallWrite
    <3>2. callId[p] \in 0..MaxId /\ reqPipe \in Seq(0..MaxId)
      BY DEF TypeOK
    <3>3. reqPipe' \in Seq(0..MaxId)
      BY <3>1, <3>2
    <3>4. QED
      BY <2>5, <3>3 DEF CallWrite, TypeOK, InCall, clientVars, readVars, endVars, Outcomes
  <2>6. CASE SelectCtx(p) \/ SelectClosed(p)
    BY <2>6 DEF SelectCtx, SelectClosed, TypeOK, InCall, clientVars, readVars, endVars,
       pipeVars, Outcomes
  <2>7. CASE SelectResponse(p)
    <3>1. callId[p] \in Ids
      BY <2>0, <2>7 DEF SelectResponse, InCall
    <3>2. QED
      BY <2>7, <3>1 DEF SelectResponse, TypeOK, InCall, readVars, endVars, pipeVars, Outcomes
  <2>8. CASE CallReturn(p)
    BY <2>8 DEF CallReturn, Forget, TypeOK, readVars, endVars, pipeVars
  <2>9. CASE NotifyWrite(p)
    <3>1. reqPipe' = Append(reqPipe, 0) \/ reqPipe' = reqPipe
      BY <2>9 DEF NotifyWrite
    <3>2. 0 \in 0..MaxId /\ reqPipe \in Seq(0..MaxId)
      BY DEF TypeOK
    <3>3. reqPipe' \in Seq(0..MaxId)
      BY <3>1, <3>2
    <3>4. QED
      BY <2>9, <3>3 DEF NotifyWrite, TypeOK, clientVars, readVars, endVars, Outcomes
  <2>10. CASE Expire(p)
    BY <2>10 DEF Expire, TypeOK, clientVars, readVars, endVars, pipeVars
  <2>11. QED
    BY <1>1, <2>1, <2>2, <2>3, <2>4, <2>5, <2>6, <2>7, <2>8, <2>9, <2>10
    DEF Caller, CallerStep, Select
<1>2. ASSUME ReadLoop PROVE TypeOK'
  <2>1. CASE ReadLoopLine
    BY <2>1 DEF ReadLoopLine, TypeOK, callVars, readVars, endVars
  <2>2. CASE ReadLoopSend
    BY <2>2 DEF ReadLoopSend, TypeOK, callVars, endVars, pipeVars
  <2>3. CASE ReadLoopEOF
    BY <2>3 DEF ReadLoopEOF, TypeOK, clientVars, callVars, endVars, pipeVars
  <2>4. CASE ReadLoopClose
    BY <2>4 DEF ReadLoopClose, CloseSection, TypeOK, callVars, endVars, pipeVars
  <2>5. QED
    BY <1>2, <2>1, <2>2, <2>3, <2>4 DEF ReadLoop
<1>3. ASSUME NEW c \in Closers, Close(c) PROVE TypeOK'
  BY <1>3 DEF Close, CloseSection, TypeOK, callVars, readVars, endVars, pipeVars
<1>4. ASSUME NEW c \in Closers \cup {"readLoop"}, ClosePipes(c) PROVE TypeOK'
  BY <1>4 DEF ClosePipes, TypeOK, clientVars, callVars, readVars, pipeVars
<1>5. ASSUME Peer PROVE TypeOK'
  <2>1. CASE PeerRead
    BY <2>1 DEF PeerRead, TypeOK, clientVars, callVars, readVars, endVars
  <2>2. CASE PeerExit
    BY <2>2 DEF PeerExit, TypeOK, clientVars, callVars, readVars, endVars
  <2>3. ASSUME NEW line \in Lines, PeerWrite(line) PROVE TypeOK'
    <3>1. respPipe' \in Seq(Lines)
      BY <2>3 DEF PeerWrite, TypeOK
    <3>2. QED
      BY <2>3, <3>1 DEF PeerWrite, TypeOK, clientVars, callVars, readVars, endVars
  <2>4. QED
    BY <1>5, <2>1, <2>2, <2>3 DEF Peer
<1>6. CASE UNCHANGED vars
  BY <1>6 DEF vars, TypeOK, clientVars, callVars, readVars, endVars, pipeVars
<1>7. QED
  BY <1>1, <1>2, <1>3, <1>4, <1>5, <1>6 DEF Next, ClientNext

-----------------------------------------------------------------------------
\* One step of each action preserves ClientInv.  The type invariant of the
\* next state comes from TypeStep.

LEMMA CallRefusedStep ==
  ASSUME ClientInv, TypeOK', NEW p \in Callers, CallRefused(p)
  PROVE  ClientInv'
<1> USE DEF ClientInv
<1>1. AnswersMatch'
  BY DEF CallRefused, clientVars, readVars, AnswersMatch, TypeOK
<1>2. FreshIds' /\ CallsOwnTheirIds' /\ UnregisteredIds' /\ PendingUntouched' /\ PendingBelongsToACall' /\ NothingPendingOnceClosed' /\ SendOwned' /\ SlotsMatch' /\ WaitersKnown'
  BY DEF CallRefused, clientVars, readVars, FreshIds, Ids, CallsOwnTheirIds, InCall,
       UnregisteredIds, PendingUntouched, PendingBelongsToACall, Registered,
       NothingPendingOnceClosed, SendOwned, SlotsMatch, WaitersKnown, TypeOK
<1>3. QED
  BY <1>1, <1>2

LEMMA CallBeginStep ==
  ASSUME ClientInv, TypeOK', NEW p \in Callers, CallBegin(p)
  PROVE  ClientInv'
<1> USE DEF ClientInv
<1>1. FreshIds'
  BY DEF CallBegin, readVars, FreshIds, Ids, TypeOK
<1>2. CallsOwnTheirIds'
  BY DEF CallBegin, readVars, CallsOwnTheirIds, InCall, TypeOK
<1>3. UnregisteredIds'
  <2>1. nextID + 1 \in Ids /\ nextID + 1 > nextID
    BY DEF CallBegin, TypeOK, Ids
  <2>2. /\ nextID + 1 \notin pending \cup closedCh
        /\ slot[nextID + 1] = NoLine
        /\ rl = "send" => rlLine.id # nextID + 1
    BY <2>1 DEF FreshIds, SendOwned, TypeOK
  <2>3. QED
    BY <2>2 DEF CallBegin, readVars, UnregisteredIds, TypeOK
<1>4. PendingBelongsToACall'
  BY DEF CallBegin, readVars, PendingBelongsToACall, Registered, TypeOK
<1>5. SendOwned'
  BY DEF CallBegin, readVars, SendOwned, TypeOK
<1>6. AnswersMatch'
  BY DEF CallBegin, readVars, AnswersMatch, TypeOK
<1>7. WaitersKnown'
  BY DEF CallBegin, readVars, WaitersKnown, TypeOK
<1>8. PendingUntouched' /\ NothingPendingOnceClosed' /\ SlotsMatch'
  BY DEF CallBegin, readVars, PendingUntouched, NothingPendingOnceClosed, SlotsMatch,
       TypeOK
<1>9. QED
  BY <1>1, <1>2, <1>3, <1>4, <1>5, <1>6, <1>7, <1>8

LEMMA CallRegisterStep ==
  ASSUME ClientInv, TypeOK', NEW p \in Callers, CallRegister(p) PROVE ClientInv'
<1> USE DEF ClientInv
<1>1. CASE closed
  <2>1. /\ outcome' = [outcome EXCEPT ![p] = "closed"]
        /\ pc' = [pc EXCEPT ![p] = "idle"]
        /\ callId' = [callId EXCEPT ![p] = 0]
        /\ got' = [got EXCEPT ![p] = NoLine]
        /\ UNCHANGED <<nextID, closed, pending, slot, closedCh, rl, rlLine>>
    BY <1>1 DEF CallRegister, Forget, readVars
  <2>2. pending = {}
    BY <1>1 DEF NothingPendingOnceClosed
  <2>3. FreshIds' /\ SlotsMatch' /\ SendOwned' /\ PendingUntouched'
    BY <2>1 DEF FreshIds, SlotsMatch, SendOwned, PendingUntouched
  <2>4. PendingBelongsToACall' /\ NothingPendingOnceClosed'
    BY <2>1, <2>2 DEF PendingBelongsToACall, NothingPendingOnceClosed
  <2>5. CallsOwnTheirIds' /\ UnregisteredIds'
    BY <2>1 DEF CallsOwnTheirIds, UnregisteredIds, InCall, TypeOK
  <2>6. AnswersMatch' /\ WaitersKnown'
    BY <2>1 DEF AnswersMatch, WaitersKnown, TypeOK
  <2>7. QED
    BY <2>3, <2>4, <2>5, <2>6
<1>2. CASE ~closed
  <2>1. /\ pending' = pending \cup {callId[p]}
        /\ pc[p] = "register"
        /\ pc' = [pc EXCEPT ![p] = "write"]
        /\ UNCHANGED <<nextID, closed, slot, closedCh, callId, outcome, got, rl, rlLine>>
    BY <1>2 DEF CallRegister, readVars
  <2>2. /\ callId[p] \in 1..nextID /\ callId[p] \in Ids
        /\ callId[p] \notin pending \cup closedCh
        /\ slot[callId[p]] = NoLine
        /\ rl = "send" => rlLine.id # callId[p]
    BY <2>1 DEF CallsOwnTheirIds, UnregisteredIds, InCall, TypeOK, Ids
  <2>3. FreshIds' /\ SlotsMatch' /\ SendOwned' /\ PendingUntouched'
    BY <2>1, <2>2 DEF FreshIds, SlotsMatch, SendOwned, PendingUntouched, TypeOK
  <2>4. PendingBelongsToACall'
    <3>1. pc'[p] \in Registered
      BY <2>1 DEF Registered, TypeOK
    <3>2. \A q \in Callers : pc[q] \in Registered => pc'[q] \in Registered
      BY <2>1 DEF Registered, TypeOK
    <3>3. QED
      BY <2>1, <3>1, <3>2 DEF PendingBelongsToACall
  <2>5. NothingPendingOnceClosed'
    BY <1>2, <2>1 DEF NothingPendingOnceClosed
  <2>6. CallsOwnTheirIds'
    BY <2>1 DEF CallsOwnTheirIds, InCall, TypeOK
  <2>7. UnregisteredIds'
    <3>1. \A q \in Callers : pc'[q] = "register" => pc[q] = "register" /\ callId[q] # callId[p]
      BY <2>1 DEF CallsOwnTheirIds, InCall, TypeOK
    <3>2. QED
      BY <2>1, <3>1 DEF UnregisteredIds
  <2>8. AnswersMatch' /\ WaitersKnown'
    BY <2>1, <2>2 DEF AnswersMatch, WaitersKnown, TypeOK
  <2>9. QED
    BY <2>3, <2>4, <2>5, <2>6, <2>7, <2>8
<1>3. QED
  BY <1>1, <1>2

LEMMA CallWriteStep ==
  ASSUME ClientInv, TypeOK', NEW p \in Callers, CallWrite(p)
  PROVE  ClientInv'
<1> USE BoundsAssumption, NoLineAssumption DEF ClientInv
<1>1. CallsOwnTheirIds'
  BY DEF CallWrite, clientVars, readVars, CallsOwnTheirIds, InCall, TypeOK
<1>2. UnregisteredIds'
  BY DEF CallWrite, clientVars, readVars, UnregisteredIds, InCall, TypeOK
<1>3. PendingBelongsToACall'
  <2>1. \A q \in Callers : pc[q] \in Registered => pc'[q] \in Registered
    BY DEF CallWrite, Registered, TypeOK
  <2>2. QED
    BY <2>1 DEF CallWrite, clientVars, PendingBelongsToACall
<1>4. AnswersMatch'
  BY DEF CallWrite, clientVars, readVars, AnswersMatch, TypeOK
<1>5. WaitersKnown'
  BY DEF CallWrite, clientVars, readVars, WaitersKnown, TypeOK
<1>6. FreshIds' /\ PendingUntouched' /\ NothingPendingOnceClosed' /\ SendOwned' /\ SlotsMatch'
  BY DEF CallWrite, clientVars, readVars, FreshIds, Ids, PendingUntouched,
       NothingPendingOnceClosed, SendOwned, SlotsMatch, TypeOK
<1>7. QED
  BY <1>1, <1>2, <1>3, <1>4, <1>5, <1>6

LEMMA SelectCtxStep ==
  ASSUME ClientInv, TypeOK', NEW p \in Callers, SelectCtx(p)
  PROVE  ClientInv'
<1> USE DEF ClientInv
<1>1. CallsOwnTheirIds'
  BY DEF SelectCtx, clientVars, readVars, CallsOwnTheirIds, InCall, TypeOK
<1>2. PendingBelongsToACall'
  BY DEF SelectCtx, clientVars, readVars, PendingBelongsToACall, Registered, TypeOK
<1>3. AnswersMatch'
  BY DEF SelectCtx, clientVars, readVars, AnswersMatch, TypeOK
<1>4. WaitersKnown'
  BY DEF SelectCtx, clientVars, readVars, WaitersKnown, TypeOK
<1>5. FreshIds' /\ UnregisteredIds' /\ PendingUntouched' /\ NothingPendingOnceClosed' /\ SendOwned' /\ SlotsMatch'
  BY DEF SelectCtx, clientVars, readVars, FreshIds, Ids, UnregisteredIds, InCall,
       PendingUntouched, NothingPendingOnceClosed, SendOwned, SlotsMatch, TypeOK
<1>6. QED
  BY <1>1, <1>2, <1>3, <1>4, <1>5

LEMMA SelectClosedStep ==
  ASSUME ClientInv, TypeOK', NEW p \in Callers, SelectClosed(p)
  PROVE  ClientInv'
<1> USE DEF ClientInv
<1>1. CallsOwnTheirIds'
  BY DEF SelectClosed, clientVars, readVars, CallsOwnTheirIds, InCall, TypeOK
<1>2. PendingBelongsToACall'
  BY DEF SelectClosed, clientVars, readVars, PendingBelongsToACall, Registered, TypeOK
<1>3. AnswersMatch'
  BY DEF SelectClosed, clientVars, readVars, AnswersMatch, TypeOK
<1>4. WaitersKnown'
  BY DEF SelectClosed, clientVars, readVars, WaitersKnown, TypeOK
<1>5. FreshIds' /\ UnregisteredIds' /\ PendingUntouched' /\ NothingPendingOnceClosed' /\ SendOwned' /\ SlotsMatch'
  BY DEF SelectClosed, clientVars, readVars, FreshIds, Ids, UnregisteredIds, InCall,
       PendingUntouched, NothingPendingOnceClosed, SendOwned, SlotsMatch, TypeOK
<1>6. QED
  BY <1>1, <1>2, <1>3, <1>4, <1>5

LEMMA SelectResponseStep ==
  ASSUME ClientInv, TypeOK', NEW p \in Callers, SelectResponse(p)
  PROVE  ClientInv'
<1> USE BoundsAssumption, NoLineAssumption DEF ClientInv
<1>0. /\ callId[p] \in Ids /\ pc[p] = "select"
      /\ \A j \in Ids : slot'[j] \in {slot[j], NoLine}
      /\ \A j \in Ids \ {callId[p]} : slot'[j] = slot[j]
  BY DEF SelectResponse, CallsOwnTheirIds, InCall, TypeOK, Ids
<1>1. FreshIds'
  BY <1>0 DEF SelectResponse, FreshIds
<1>2. CallsOwnTheirIds'
  BY DEF SelectResponse, readVars, CallsOwnTheirIds, InCall, TypeOK
<1>3. UnregisteredIds'
  <2>1. \A q \in Callers : pc'[q] = "register" => pc[q] = "register" /\ callId[q] \in Ids
    BY DEF SelectResponse, CallsOwnTheirIds, InCall, TypeOK, Ids
  <2>2. QED
    BY <1>0, <2>1 DEF SelectResponse, readVars, UnregisteredIds
<1>4. PendingUntouched'
  BY <1>0 DEF SelectResponse, PendingUntouched, TypeOK
<1>5. PendingBelongsToACall'
  BY DEF SelectResponse, readVars, PendingBelongsToACall, Registered, TypeOK
<1>6. SendOwned'
  <2>1. rl = "send" => rlLine.id \in Ids
    BY DEF SendOwned, TypeOK, Ids
  <2>2. QED
    BY <1>0, <2>1 DEF SelectResponse, readVars, SendOwned
<1>7. SlotsMatch'
  BY DEF SelectResponse, readVars, SlotsMatch, TypeOK
<1>8. AnswersMatch'
  <2>1. CASE slot[callId[p]] # NoLine
    <3>1. got' = [got EXCEPT ![p] = slot[callId[p]]] /\ slot[callId[p]].id = callId[p]
      BY <1>0, <2>1 DEF SelectResponse, SlotsMatch
    <3>2. QED
      BY <2>1, <3>1 DEF SelectResponse, AnswersMatch, TypeOK
  <2>2. CASE slot[callId[p]] = NoLine
    BY <2>2 DEF SelectResponse, AnswersMatch, TypeOK
  <2>3. QED
    BY <2>1, <2>2
<1>9. WaitersKnown'
  <2>1. \A q \in Callers : pc'[q] \in {"write", "select"} =>
           /\ pc[q] \in {"write", "select"}
           /\ callId[q] \in Ids \ {callId[p]}
    BY DEF SelectResponse, CallsOwnTheirIds, InCall, TypeOK, Ids
  <2>2. QED
    BY <1>0, <2>1 DEF SelectResponse, readVars, WaitersKnown
<1>10. NothingPendingOnceClosed'
  BY DEF SelectResponse, readVars, NothingPendingOnceClosed, TypeOK
<1>11. QED
  BY <1>1, <1>2, <1>3, <1>4, <1>5, <1>6, <1>7, <1>8, <1>9, <1>10

LEMMA CallReturnStep ==
  ASSUME ClientInv, TypeOK', NEW p \in Callers, CallReturn(p)
  PROVE  ClientInv'
<1> USE DEF ClientInv
<1>1. CallsOwnTheirIds'
  BY DEF CallReturn, Forget, readVars, CallsOwnTheirIds, InCall, TypeOK
<1>2. UnregisteredIds'
  BY DEF CallReturn, Forget, readVars, UnregisteredIds, InCall, TypeOK
<1>3. PendingBelongsToACall'
  BY DEF CallReturn, Forget, readVars, PendingBelongsToACall, Registered, TypeOK
<1>4. AnswersMatch'
  BY DEF CallReturn, Forget, readVars, AnswersMatch, TypeOK
<1>5. WaitersKnown'
  <2>1. \A q \in Callers : pc'[q] \in {"write", "select"} =>
           /\ q # p /\ pc[q] \in {"write", "select"}
           /\ callId'[q] = callId[q] /\ callId[q] # callId[p]
    BY DEF CallReturn, Forget, CallsOwnTheirIds, InCall, TypeOK
  <2>2. QED
    BY <2>1 DEF CallReturn, readVars, WaitersKnown
<1>6. FreshIds' /\ PendingUntouched' /\ NothingPendingOnceClosed' /\ SendOwned' /\ SlotsMatch'
  BY DEF CallReturn, Forget, readVars, FreshIds, Ids, PendingUntouched,
       NothingPendingOnceClosed, SendOwned, SlotsMatch, TypeOK
<1>7. QED
  BY <1>1, <1>2, <1>3, <1>4, <1>5, <1>6

LEMMA NotifyBeginStep ==
  ASSUME ClientInv, TypeOK', NEW p \in Callers, NotifyBegin(p)
  PROVE  ClientInv'
<1> USE DEF ClientInv
<1>1. CallsOwnTheirIds'
  BY DEF NotifyBegin, clientVars, readVars, CallsOwnTheirIds, InCall, TypeOK
<1>2. PendingBelongsToACall'
  BY DEF NotifyBegin, clientVars, readVars, PendingBelongsToACall, Registered, TypeOK
<1>3. AnswersMatch'
  BY DEF NotifyBegin, clientVars, readVars, AnswersMatch, TypeOK
<1>4. WaitersKnown'
  BY DEF NotifyBegin, clientVars, readVars, WaitersKnown, TypeOK
<1>5. FreshIds' /\ UnregisteredIds' /\ PendingUntouched' /\ NothingPendingOnceClosed' /\ SendOwned' /\ SlotsMatch'
  BY DEF NotifyBegin, clientVars, readVars, FreshIds, Ids, UnregisteredIds, InCall,
       PendingUntouched, NothingPendingOnceClosed, SendOwned, SlotsMatch, TypeOK
<1>6. QED
  BY <1>1, <1>2, <1>3, <1>4, <1>5

LEMMA NotifyWriteStep ==
  ASSUME ClientInv, TypeOK', NEW p \in Callers, NotifyWrite(p)
  PROVE  ClientInv'
<1> USE DEF ClientInv
<1>1. CallsOwnTheirIds'
  BY DEF NotifyWrite, clientVars, readVars, CallsOwnTheirIds, InCall, TypeOK
<1>2. PendingBelongsToACall'
  BY DEF NotifyWrite, clientVars, readVars, PendingBelongsToACall, Registered, TypeOK
<1>3. AnswersMatch'
  BY DEF NotifyWrite, clientVars, readVars, AnswersMatch, TypeOK
<1>4. WaitersKnown'
  BY DEF NotifyWrite, clientVars, readVars, WaitersKnown, TypeOK
<1>5. FreshIds' /\ UnregisteredIds' /\ PendingUntouched' /\ NothingPendingOnceClosed' /\ SendOwned' /\ SlotsMatch'
  BY DEF NotifyWrite, clientVars, readVars, FreshIds, Ids, UnregisteredIds, InCall,
       PendingUntouched, NothingPendingOnceClosed, SendOwned, SlotsMatch, TypeOK
<1>6. QED
  BY <1>1, <1>2, <1>3, <1>4, <1>5

LEMMA CloseSectionStep ==
  ASSUME ClientInv, TypeOK', NEW c \in Closers \cup {"readLoop"}, CloseSection(c), UNCHANGED callVars, UNCHANGED rlLine, 
         rl' = rl \/ (rl # "send" /\ rl' # "send")
  PROVE  ClientInv'
<1> USE DEF ClientInv
<1>1. FreshIds'
  BY DEF CloseSection, callVars, FreshIds, Ids, TypeOK
<1>2. UnregisteredIds'
  BY DEF CloseSection, callVars, UnregisteredIds, InCall, TypeOK
<1>3. PendingUntouched'
  BY DEF CloseSection, callVars, PendingUntouched, TypeOK
<1>4. PendingBelongsToACall'
  BY DEF CloseSection, callVars, PendingBelongsToACall, Registered, TypeOK
<1>5. NothingPendingOnceClosed'
  BY DEF CloseSection, callVars, NothingPendingOnceClosed, TypeOK
<1>6. SendOwned'
  BY DEF CloseSection, callVars, SendOwned, TypeOK
<1>7. WaitersKnown'
  <2>1. \A i \in Ids : i \in pending \cup closedCh => i \in pending' \cup closedCh'
    BY DEF CloseSection, TypeOK
  <2>2. \A q \in Callers : pc[q] \in {"write", "select"} => callId[q] \in Ids
    BY DEF CallsOwnTheirIds, InCall, TypeOK, Ids
  <2>3. UNCHANGED <<pc, callId, slot, rlLine>> /\ (rl = "send" => rl' = "send")
    BY DEF CloseSection, callVars
  <2>4. QED
    BY <2>1, <2>2, <2>3 DEF WaitersKnown
<1>8. CallsOwnTheirIds' /\ SlotsMatch' /\ AnswersMatch'
  BY DEF CloseSection, callVars, CallsOwnTheirIds, InCall, SlotsMatch, AnswersMatch,
       TypeOK
<1>9. QED
  BY <1>1, <1>2, <1>3, <1>4, <1>5, <1>6, <1>7, <1>8

LEMMA ReadLoopLineStep ==
  ASSUME ClientInv, TypeOK', ReadLoopLine
  PROVE  ClientInv'
<1> USE DEF ClientInv
<1>1. UnregisteredIds'
  BY DEF ReadLoopLine, callVars, readVars, UnregisteredIds, InCall, TypeOK
<1>2. SendOwned'
  <2>1. CASE Head(respPipe).id \notin pending
    BY <2>1 DEF ReadLoopLine, readVars, SendOwned
  <2>2. CASE Head(respPipe).id \in pending
    <3> DEFINE line == Head(respPipe)
    <3>1. line \in Lines
      BY DEF ReadLoopLine, TypeOK
    <3>2. line.id \in 1..nextID
      <4>1. line.id \in Ids /\ ~(line.id > nextID)
        BY <2>2 DEF FreshIds, TypeOK
      <4>2. QED
        BY <4>1 DEF TypeOK, Ids
    <3>3. line.id \notin closedCh /\ slot[line.id] = NoLine
      BY <2>2 DEF PendingUntouched
    <3>4. rlLine' = line /\ pending' = pending \ {line.id} /\ UNCHANGED <<nextID, closedCh, slot>>
      BY <2>2 DEF ReadLoopLine
    <3>5. QED
      BY <3>1, <3>2, <3>3, <3>4 DEF SendOwned
  <2>3. QED
    BY <2>1, <2>2
<1>3. PendingBelongsToACall'
  BY DEF ReadLoopLine, callVars, readVars, PendingBelongsToACall, Registered, TypeOK
<1>4. WaitersKnown'
  BY DEF ReadLoopLine, callVars, readVars, WaitersKnown, TypeOK
<1>5. PendingUntouched'
  BY DEF ReadLoopLine, callVars, readVars, PendingUntouched, TypeOK
<1>6. FreshIds'
  BY DEF ReadLoopLine, callVars, readVars, FreshIds, Ids, TypeOK
<1>7. CallsOwnTheirIds' /\ NothingPendingOnceClosed' /\ SlotsMatch' /\ AnswersMatch'
  BY DEF ReadLoopLine, callVars, readVars, CallsOwnTheirIds, InCall,
       NothingPendingOnceClosed, SlotsMatch, AnswersMatch, TypeOK
<1>8. QED
  BY <1>1, <1>2, <1>3, <1>4, <1>5, <1>6, <1>7

LEMMA ReadLoopSendStep ==
  ASSUME ClientInv, TypeOK', ReadLoopSend
  PROVE  ClientInv'
<1> USE BoundsAssumption, NoLineAssumption DEF ClientInv
<1>0. /\ rlLine \in Lines /\ rlLine.id \in Ids /\ rlLine.id <= nextID
      /\ rlLine.id \notin pending \cup closedCh
      /\ slot' = [slot EXCEPT ![rlLine.id] = rlLine]
      /\ rl = "send"
  BY DEF ReadLoopSend, SendOwned, TypeOK, Ids
<1>1. FreshIds'
  BY <1>0 DEF ReadLoopSend, callVars, FreshIds, Ids, TypeOK
<1>2. UnregisteredIds'
  BY DEF ReadLoopSend, callVars, UnregisteredIds, InCall, TypeOK
<1>3. PendingUntouched'
  BY <1>0 DEF ReadLoopSend, PendingUntouched, TypeOK
<1>4. SendOwned'
  BY DEF ReadLoopSend, callVars, SendOwned, TypeOK
<1>5. SlotsMatch'
  BY DEF ReadLoopSend, callVars, SlotsMatch, TypeOK
<1>6. WaitersKnown'
  <2>1. \A j \in Ids : slot[j] # NoLine => slot'[j] # NoLine
    BY <1>0 DEF TypeOK
  <2>2. slot'[rlLine.id] # NoLine
    BY <1>0 DEF TypeOK
  <2>3. \A q \in Callers : pc[q] \in {"write", "select"} => callId[q] \in Ids
    BY DEF CallsOwnTheirIds, InCall, TypeOK, Ids
  <2>4. QED
    BY <2>1, <2>2, <2>3 DEF ReadLoopSend, callVars, WaitersKnown
<1>7. CallsOwnTheirIds' /\ PendingBelongsToACall' /\ NothingPendingOnceClosed' /\ AnswersMatch'
  BY DEF ReadLoopSend, callVars, CallsOwnTheirIds, InCall, PendingBelongsToACall,
       Registered, NothingPendingOnceClosed, AnswersMatch, TypeOK
<1>8. QED
  BY <1>1, <1>2, <1>3, <1>4, <1>5, <1>6, <1>7

LEMMA ClientInvInit == Init => ClientInv
<1> SUFFICES ASSUME Init PROVE ClientInv
  OBVIOUS
<1>1. TypeOK
  BY TypeInit
<1>2. FreshIds /\ SlotsMatch /\ PendingUntouched /\ PendingBelongsToACall
  BY DEF Init, FreshIds, SlotsMatch, PendingUntouched, PendingBelongsToACall
<1>3. CallsOwnTheirIds /\ UnregisteredIds /\ AnswersMatch /\ WaitersKnown
  BY DEF Init, CallsOwnTheirIds, UnregisteredIds, AnswersMatch, WaitersKnown, InCall
<1>4. NothingPendingOnceClosed /\ SendOwned
  BY DEF Init, NothingPendingOnceClosed, SendOwned
<1>5. QED
  BY <1>1, <1>2, <1>3, <1>4 DEF ClientInv

\* What the steps of the pipes, of the contexts and of the plugin leave alone.
LEMMA FrameStep ==
  ASSUME ClientInv, TypeOK', UNCHANGED clientVars, UNCHANGED readVars,
         UNCHANGED <<pc, callId, outcome, got>>
  PROVE  ClientInv'
BY DEF ClientInv, clientVars, readVars, FreshIds, CallsOwnTheirIds, UnregisteredIds,
   PendingUntouched, PendingBelongsToACall, NothingPendingOnceClosed, SendOwned,
   SlotsMatch, AnswersMatch, WaitersKnown

LEMMA ReadLoopEOFStep ==
  ASSUME ClientInv, TypeOK', ReadLoopEOF
  PROVE  ClientInv'
BY DEF ReadLoopEOF, ClientInv, clientVars, callVars, FreshIds, CallsOwnTheirIds,
   UnregisteredIds, PendingUntouched, PendingBelongsToACall, NothingPendingOnceClosed,
   SendOwned, SlotsMatch, AnswersMatch, WaitersKnown

LEMMA ClientInvStep == ClientInv /\ [Next]_vars => ClientInv'
<1> SUFFICES ASSUME ClientInv, [Next]_vars PROVE ClientInv'
  OBVIOUS
<1>0. TypeOK'
  BY TypeStep DEF ClientInv
<1>1. ASSUME NEW p \in Callers, Caller(p) PROVE ClientInv'
  <2>1. CASE Expire(p)
    BY <1>0, <2>1, FrameStep DEF Expire
  <2>2. QED
    BY <1>0, <1>1, <2>1, CallRefusedStep, CallBeginStep, NotifyBeginStep,
       CallRegisterStep, CallWriteStep, SelectCtxStep, SelectClosedStep,
       SelectResponseStep, CallReturnStep, NotifyWriteStep
    DEF Caller, CallerStep, Select
<1>2. ASSUME ReadLoop PROVE ClientInv'
  <2>1. CASE ReadLoopClose
    <3>1. /\ CloseSection("readLoop")
          /\ UNCHANGED callVars /\ UNCHANGED rlLine
          /\ rl # "send" /\ rl' # "send"
      BY <2>1 DEF ReadLoopClose
    <3>2. QED
      BY <1>0, <3>1, CloseSectionStep
  <2>2. QED
    BY <1>0, <1>2, <2>1, ReadLoopLineStep, ReadLoopSendStep, ReadLoopEOFStep DEF ReadLoop
<1>3. ASSUME NEW c \in Closers, Close(c) PROVE ClientInv'
  <2>1. /\ CloseSection(c)
        /\ UNCHANGED callVars /\ UNCHANGED rlLine
        /\ rl' = rl
    BY <1>3 DEF Close, readVars
  <2>2. QED
    BY <1>0, <2>1, CloseSectionStep
<1>4. ASSUME NEW c \in Closers \cup {"readLoop"}, ClosePipes(c) PROVE ClientInv'
  BY <1>0, <1>4, FrameStep DEF ClosePipes, callVars
<1>5. ASSUME Peer PROVE ClientInv'
  BY <1>0, <1>5, FrameStep DEF Peer, PeerRead, PeerWrite, PeerExit, callVars
<1>6. CASE UNCHANGED vars
  BY <1>0, <1>6, FrameStep DEF vars, callVars
<1>7. QED
  BY <1>1, <1>2, <1>3, <1>4, <1>5, <1>6 DEF Next, ClientNext

-----------------------------------------------------------------------------
\* In every reachable state the variables have their types and ids, channels
\* and registrations are used as ClientInv says, for any number of callers,
\* ids and any pipe capacity.
THEOREM ClientInvariance == Spec => []ClientInv
BY ClientInvInit, ClientInvStep, PTL DEF Spec

\* The variables of the client keep their types (Client in client.go).
THEOREM TypeCorrect == Spec => []TypeOK
<1>1. ClientInv => TypeOK
  BY DEF ClientInv
<1>2. QED
  BY <1>1, ClientInvariance, PTL

\* readLoop never panics by sending on a channel that Close has closed.
THEOREM NoPanic == Spec => []NoSendOnClosedChannel
<1>1. ClientInv => NoSendOnClosedChannel
  BY DEF ClientInv, SendOwned, NoSendOnClosedChannel
<1>2. QED
  BY <1>1, ClientInvariance, PTL

\* readLoop never blocks on the channel of a call that has given up.
THEOREM NoBlocking == Spec => []ReadLoopNeverBlocks
<1>1. ClientInv => ReadLoopNeverBlocks
  BY DEF ClientInv, SendOwned, ReadLoopNeverBlocks
<1>2. QED
  BY <1>1, ClientInvariance, PTL

\* A call returns no other call's answer, whatever the plugin sends.
THEOREM Correlation == Spec => []CallsGetTheirOwnAnswer
<1>1. ClientInv => CallsGetTheirOwnAnswer
  BY DEF ClientInv, CallsOwnTheirIds, AnswersMatch, CallsGetTheirOwnAnswer
<1>2. QED
  BY <1>1, ClientInvariance, PTL

\* A call leaves no registration behind, however it returns (the deferred delete
\* of Call).
THEOREM NoLeak == Spec => []PendingBelongsToACall
<1>1. ClientInv => PendingBelongsToACall
  BY DEF ClientInv
<1>2. QED
  BY <1>1, ClientInvariance, PTL

\* No call registers once Close has emptied pending (the check of closed in the
\* locked section of Call).
THEOREM NoLateRegistration == Spec => []NothingPendingOnceClosed
<1>1. ClientInv => NothingPendingOnceClosed
  BY DEF ClientInv
<1>2. QED
  BY <1>1, ClientInvariance, PTL

\* A call waiting in its select is never forgotten by everybody else.
THEOREM NoLostWaiter == Spec => []NoForgottenWaiter
<1>1. ClientInv => NoForgottenWaiter
  BY DEF ClientInv, WaitersKnown, NoForgottenWaiter
<1>2. QED
  BY <1>1, ClientInvariance, PTL

-----------------------------------------------------------------------------
(* The client implements the calls of PluginCalls: every step is a step of the *)
(* abstract calls or leaves them alone.                                        *)

\* Besides ClientInv the mapping needs that a call about to return has the reason
\* that its outcome tells, and keeps it.
GotAtReturn == \A p \in Callers : got[p] # NoLine => pc[p] = "return"
ReasonsKnown ==
  \A p \in Callers : pc[p] = "return" =>
    \/ outcome[p] \in {"ok", "rpcError"}
    \/ outcome[p] = "closed" /\ closed
    \/ outcome[p] = "ctx" /\ p \in expired
    \/ outcome[p] = "writeError" /\ (~writerOpen \/ ~peerAlive)
OpenUntilClosed == closedCh # {} => closed

CallsInv == ClientInv /\ GotAtReturn /\ ReasonsKnown /\ OpenUntilClosed

-----------------------------------------------------------------------------
\* Nothing of the calls changes.
LEMMA CallsFrame ==
  ASSUME UNCHANGED <<pc, callId, expired, outcome, got, slot, closed>>,
         rl = "send" <=> rl' = "send", rlLine' = rlLine,
         (~writerOpen \/ ~peerAlive) = (~writerOpen \/ ~peerAlive)'
  PROVE  UNCHANGED Calls!vars
BY DEF Calls!vars, InProgress, Answered, Ended

LEMMA BeginStep ==
  ASSUME CallsInv, NEW p \in Callers, CallBegin(p)
  PROVE  Calls!Begin(p)
<1>1. /\ pc[p] = "idle" /\ ~closed /\ nextID \in Nat /\ nextID + 1 \in Ids
      /\ pc' = [pc EXCEPT ![p] = "register"] /\ callId' = [callId EXCEPT ![p] = nextID + 1]
      /\ expired' \in {expired, expired \cup {p}} /\ outcome' = [outcome EXCEPT ![p] = "none"]
      /\ UNCHANGED <<closed, slot, got, rl, rlLine, writerOpen, peerAlive>>
      /\ pc \in [Callers -> {"idle", "notify"} \cup InCall]
      /\ callId \in [Callers -> 0..MaxId] /\ outcome \in [Callers -> Outcomes]
  BY BoundsAssumption DEF CallBegin, readVars, endVars, pipeVars, CallsInv, ClientInv, TypeOK, Ids
<1>2. /\ got[p] = NoLine /\ slot[nextID + 1] = NoLine
      /\ rl = "send" => rlLine.id # nextID + 1
  BY <1>1, BoundsAssumption DEF CallsInv, GotAtReturn, ClientInv, FreshIds, SendOwned
<1>3. p \notin InProgress /\ InProgress' = InProgress \cup {p}
  BY <1>1 DEF InProgress, InCall
<1>4. Answered' = Answered
  BY <1>1, <1>2, <1>3 DEF Answered
<1>5. Ended' = [Ended EXCEPT ![p] = "none"]
  BY <1>1, <1>3 DEF Ended
<1> QED
  BY <1>1, <1>3, <1>4, <1>5 DEF Calls!Begin

\* A call ends: the caller leaves InProgress, with a reason.
LEMMA EndStep ==
  ASSUME CallsInv, NEW p \in Callers, NEW how, pc[p] \in InCall, outcome'[p] = how,
         how \in {"ok", "rpcError", "closed", "ctx", "writeError"},
         \/ how \in {"ok", "rpcError"} /\ got[p] # NoLine
         \/ how = "closed" /\ closed
         \/ how = "ctx" /\ p \in expired
         \/ how = "writeError" /\ (~writerOpen \/ ~peerAlive),
         pc' = [pc EXCEPT ![p] = "idle"], Forget(p),
         outcome' = outcome \/ outcome' = [outcome EXCEPT ![p] = how],
         UNCHANGED <<closed, slot, rl, rlLine, writerOpen, peerAlive>>
  PROVE  Calls!End(p, how)
<1>1. /\ pc \in [Callers -> {"idle", "notify"} \cup InCall] /\ callId \in [Callers -> 0..MaxId]
      /\ outcome \in [Callers -> Outcomes] /\ got \in [Callers -> Lines \cup {NoLine}]
  BY DEF CallsInv, ClientInv, TypeOK
<1>2. p \in InProgress /\ InProgress' = InProgress \ {p}
  BY <1>1 DEF InProgress, InCall
<1>3. Answered' = Answered \ {p}
  BY <1>1, <1>2 DEF Answered, Forget
<1>4. Ended' = [Ended EXCEPT ![p] = how]
  BY <1>1, <1>2 DEF Ended
<1>5. how \in {"ok", "rpcError"} /\ got[p] # NoLine => p \in Answered
  BY <1>2 DEF Answered
<1> QED
  BY <1>2, <1>3, <1>4, <1>5 DEF Calls!End, Calls!Justified, Forget

LEMMA CallerMaps ==
  ASSUME CallsInv, NEW p \in Callers, Caller(p)
  PROVE  [Calls!Next]_Calls!vars
<1>1. /\ pc \in [Callers -> {"idle", "notify"} \cup InCall] /\ callId \in [Callers -> 0..MaxId]
      /\ outcome \in [Callers -> Outcomes] /\ got \in [Callers -> Lines \cup {NoLine}]
      /\ slot \in [Ids -> Lines \cup {NoLine}]
  BY DEF CallsInv, ClientInv, TypeOK
<1>2. \A q \in Callers \ {p} : pc[p] \in InCall /\ pc[q] \in InCall => callId[q] # callId[p]
  BY DEF CallsInv, ClientInv, CallsOwnTheirIds
<1>3. pc[p] \in InCall => callId[p] \in Ids
  BY BoundsAssumption DEF CallsInv, ClientInv, CallsOwnTheirIds, TypeOK, Ids
<1>4. CASE CallRefused(p)
  <2>1. /\ pc[p] = "idle" /\ closed /\ outcome' = [outcome EXCEPT ![p] = "closed"]
        /\ UNCHANGED <<pc, callId, expired, got, slot, closed, rl, rlLine, writerOpen, peerAlive>>
    BY <1>4 DEF CallRefused, clientVars, readVars, endVars, pipeVars
  <2>2. p \notin InProgress /\ UNCHANGED <<InProgress, Answered>>
    BY <2>1 DEF InProgress, Answered, InCall
  <2>3. Ended' = [Ended EXCEPT ![p] = "closed"]
    BY <1>1, <2>1, <2>2 DEF Ended
  <2>4. Calls!Refuse(p)
    BY <2>1, <2>2, <2>3 DEF Calls!Refuse
  <2> QED
    BY <2>4 DEF Calls!Next
<1>5. CASE CallBegin(p)
  BY <1>5, BeginStep DEF Calls!Next
<1>6. CASE CallRegister(p)
  <2>1. pc[p] = "register" /\ UNCHANGED <<closed, slot, rl, rlLine, writerOpen, peerAlive>>
    BY <1>6 DEF CallRegister, readVars, endVars, pipeVars
  <2>2. CASE closed
    <3>1. Calls!End(p, "closed")
      BY <1>1, <1>6, <2>1, <2>2, EndStep DEF CallRegister, InCall
    <3> QED
      BY <3>1 DEF Calls!Next
  <2>3. CASE ~closed
    <3>1. /\ pc' = [pc EXCEPT ![p] = "write"]
          /\ UNCHANGED <<callId, expired, got, outcome>>
      BY <1>6, <2>3 DEF CallRegister
    <3>2. UNCHANGED InProgress
      BY <1>1, <2>1, <3>1 DEF InProgress, InCall
    <3>3. UNCHANGED <<Answered, Ended>>
      BY <2>1, <3>1, <3>2 DEF Answered, Ended
    <3> QED
      BY <2>1, <3>1, <3>2, <3>3 DEF Calls!vars
  <2> QED
    BY <2>2, <2>3
<1>7. CASE CallWrite(p) \/ SelectCtx(p) \/ SelectClosed(p)
  <2>1. /\ UNCHANGED <<callId, expired, got, slot, closed, rl, rlLine, writerOpen, peerAlive>>
        /\ pc[p] \in InCall
        /\ \E at \in {"select", "return"} : pc' = [pc EXCEPT ![p] = at]
        /\ outcome' = outcome \/ \E how : outcome' = [outcome EXCEPT ![p] = how]
    BY <1>7 DEF CallWrite, SelectCtx, SelectClosed, clientVars, readVars, endVars, pipeVars, InCall
  <2>2. UNCHANGED InProgress /\ p \in InProgress
    BY <1>1, <2>1 DEF InProgress, InCall
  <2>3. UNCHANGED <<Answered, Ended>>
    BY <1>1, <2>1, <2>2 DEF Answered, Ended
  <2> QED
    BY <2>1, <2>2, <2>3 DEF Calls!vars
<1>8. CASE SelectResponse(p)
  <2>1. /\ UNCHANGED <<callId, expired, closed, rl, rlLine, writerOpen, peerAlive>>
        /\ pc[p] \in InCall /\ pc' = [pc EXCEPT ![p] = "return"]
        /\ \E how : outcome' = [outcome EXCEPT ![p] = how]
        /\ \/ UNCHANGED <<slot, got>>
           \/ /\ slot[callId[p]] # NoLine
              /\ got' = [got EXCEPT ![p] = slot[callId[p]]]
              /\ slot' = [slot EXCEPT ![callId[p]] = NoLine]
    BY <1>8 DEF SelectResponse, readVars, endVars, pipeVars, InCall
  <2>2. UNCHANGED InProgress /\ p \in InProgress
    BY <1>1, <2>1 DEF InProgress, InCall
  <2>3. UNCHANGED Ended
    BY <1>1, <2>1, <2>2 DEF Ended
  <2>4. UNCHANGED Answered
    <3>1. CASE UNCHANGED <<slot, got>>
      BY <2>1, <2>2, <3>1 DEF Answered
    <3>2. CASE /\ slot[callId[p]] # NoLine
               /\ got' = [got EXCEPT ![p] = slot[callId[p]]]
               /\ slot' = [slot EXCEPT ![callId[p]] = NoLine]
      <4>1. p \in Answered /\ p \in Answered'
        BY <1>1, <2>2, <3>2 DEF Answered
      <4>2. ASSUME NEW q \in Callers \ {p} PROVE q \in Answered <=> q \in Answered'
        <5>1. q \in InProgress => slot'[callId[q]] = slot[callId[q]]
          BY <1>1, <1>2, <2>1, <3>2 DEF InProgress
        <5> QED
          BY <1>1, <2>1, <2>2, <3>2, <5>1 DEF Answered
      <4> QED
        BY <4>1, <4>2 DEF Answered, InProgress
    <3> QED
      BY <2>1, <3>1, <3>2
  <2> QED
    BY <2>1, <2>2, <2>3, <2>4 DEF Calls!vars
<1>9. CASE CallReturn(p)
  <2>1. /\ pc[p] = "return" /\ pc[p] \in InCall /\ outcome' = outcome
        /\ pc' = [pc EXCEPT ![p] = "idle"] /\ Forget(p)
        /\ UNCHANGED <<closed, slot, rl, rlLine, writerOpen, peerAlive>>
    BY <1>9 DEF CallReturn, readVars, endVars, pipeVars, InCall
  <2>2. \/ outcome[p] \in {"ok", "rpcError"} /\ got[p] # NoLine
        \/ outcome[p] = "closed" /\ closed
        \/ outcome[p] = "ctx" /\ p \in expired
        \/ outcome[p] = "writeError" /\ (~writerOpen \/ ~peerAlive)
    BY <2>1 DEF CallsInv, ReasonsKnown, ClientInv, AnswersMatch
  <2>3. Calls!End(p, outcome[p])
    BY <2>1, <2>2, EndStep
  <2>4. outcome[p] \in {"ok", "rpcError", "closed", "ctx", "writeError"}
    BY <2>2
  <2> QED
    BY <2>3, <2>4 DEF Calls!Next
<1>10. CASE NotifyBegin(p) \/ NotifyWrite(p)
  <2>1. PICK how \in {"none", "sent", "writeError"} :
          /\ outcome' = [outcome EXCEPT ![p] = how]
          /\ how = "writeError" => ~writerOpen \/ ~peerAlive
    BY <1>10 DEF NotifyBegin, NotifyWrite, WriteFails
  <2>2. /\ pc[p] \notin InCall
        /\ \E at \in {"idle", "notify"} : pc' = [pc EXCEPT ![p] = at]
        /\ UNCHANGED <<callId, expired, got, slot, closed, rl, rlLine, writerOpen, peerAlive>>
    BY <1>10 DEF NotifyBegin, NotifyWrite, clientVars, readVars, endVars, pipeVars, InCall
  <2>3. p \notin InProgress /\ UNCHANGED InProgress
    BY <1>1, <2>2 DEF InProgress, InCall
  <2>4. UNCHANGED Answered
    BY <2>2, <2>3 DEF Answered
  <2>5. Ended' = [Ended EXCEPT ![p] = how]
    BY <1>1, <2>1, <2>3 DEF Ended
  <2>6. Calls!Notify(p, how)
    BY <2>1, <2>2, <2>3, <2>4, <2>5 DEF Calls!Notify
  <2> QED
    BY <2>6 DEF Calls!Next
<1>11. CASE Expire(p)
  <2>1. /\ pc[p] \in InCall /\ expired' = expired \cup {p}
        /\ UNCHANGED <<pc, callId, outcome, got, slot, closed, rl, rlLine, writerOpen, peerAlive>>
    BY <1>11 DEF Expire, clientVars, readVars, endVars, pipeVars
  <2>2. p \in InProgress /\ UNCHANGED <<InProgress, Answered, Ended>>
    BY <2>1 DEF InProgress, Answered, Ended
  <2>3. Calls!Expire(p)
    BY <2>1, <2>2 DEF Calls!Expire
  <2> QED
    BY <2>3 DEF Calls!Next
<1> QED
  BY <1>4, <1>5, <1>6, <1>7, <1>8, <1>9, <1>10, <1>11 DEF Caller, CallerStep, Select

\* The reader that takes a registration answers its call.
LEMMA ReadLoopLineMaps ==
  ASSUME CallsInv, ReadLoopLine
  PROVE  [Calls!Next]_Calls!vars
<1> DEFINE n == Head(respPipe).id
<1>1. /\ rl = "read"
      /\ UNCHANGED <<pc, callId, expired, outcome, got, slot, closed, writerOpen, peerAlive>>
      /\ IF n \in pending THEN rl' = "send" /\ rlLine'.id = n ELSE UNCHANGED <<rl, rlLine>>
  BY DEF ReadLoopLine, callVars, readVars, endVars
<1> HIDE DEF n
<1>2. CASE n \notin pending
  BY <1>1, <1>2, CallsFrame
<1>3. CASE n \in pending
  <2>1. PICK p \in Callers : callId[p] = n /\ pc[p] \in Registered
    BY <1>3 DEF CallsInv, ClientInv, PendingBelongsToACall
  <2>2. p \in InProgress /\ UNCHANGED <<InProgress, Ended>>
    BY <1>1, <2>1 DEF InProgress, Ended, Registered, InCall
  <2>3. \A q \in InProgress : callId[q] = n <=> q = p
    BY <2>1, <2>2 DEF InProgress, CallsInv, ClientInv, CallsOwnTheirIds
  <2>4. Answered' = Answered \cup {p}
    BY <1>1, <1>3, <2>2, <2>3 DEF Answered
  <2>5. CASE p \in Answered
    BY <1>1, <2>2, <2>4, <2>5 DEF Calls!vars
  <2>6. CASE p \notin Answered
    <3>1. Calls!Answer(p)
      BY <1>1, <2>2, <2>4, <2>6 DEF Calls!Answer
    <3> QED
      BY <3>1 DEF Calls!Next
  <2> QED
    BY <2>5, <2>6
<1> QED
  BY <1>2, <1>3

\* The answer moves from the reader's hands to the slot of its call.
LEMMA ReadLoopSendMaps ==
  ASSUME CallsInv, ReadLoopSend
  PROVE  UNCHANGED Calls!vars
<1>1. /\ rl = "send" /\ rl' = "read" /\ slot' = [slot EXCEPT ![rlLine.id] = rlLine]
      /\ UNCHANGED <<pc, callId, expired, outcome, got, closed, writerOpen, peerAlive>>
      /\ rlLine \in Lines /\ rlLine # NoLine /\ slot \in [Ids -> Lines \cup {NoLine}]
  BY NoLineAssumption DEF ReadLoopSend, callVars, endVars, pipeVars, CallsInv, ClientInv,
     TypeOK, SendOwned
<1>2. rlLine.id \in Ids
  BY <1>1, BoundsAssumption DEF CallsInv, ClientInv, TypeOK, SendOwned, Ids
<1>3. UNCHANGED <<InProgress, Ended>>
  BY <1>1 DEF InProgress, Ended
<1>4. \A q \in InProgress : slot'[callId[q]] # NoLine <=> slot[callId[q]] # NoLine \/ rlLine.id = callId[q]
  <2>1. \A q \in InProgress : callId[q] \in Ids
    BY BoundsAssumption DEF InProgress, CallsInv, ClientInv, CallsOwnTheirIds, TypeOK, Ids
  <2> QED
    BY <1>1, <1>2, <2>1
<1>5. UNCHANGED Answered
  BY <1>1, <1>3, <1>4 DEF Answered
<1> QED
  BY <1>1, <1>3, <1>5 DEF Calls!vars

LEMMA CloseSectionMaps ==
  ASSUME NEW c, CloseSection(c), UNCHANGED callVars, UNCHANGED rlLine, UNCHANGED endVars,
         UNCHANGED pipeVars, rl = "send" <=> rl' = "send"
  PROVE  [Calls!Next]_Calls!vars
<1>1. CASE closed
  BY <1>1, CallsFrame DEF CloseSection, callVars, endVars, pipeVars
<1>2. CASE ~closed
  <2>1. ~closed /\ closed' /\ UNCHANGED slot
    BY <1>2 DEF CloseSection
  <2>2. UNCHANGED <<InProgress, Answered, Ended>>
    BY <2>1 DEF callVars, InProgress, Answered, Ended
  <2>3. Calls!Close
    BY <2>1, <2>2 DEF Calls!Close, callVars, endVars, pipeVars
  <2> QED
    BY <2>3 DEF Calls!Next
<1> QED
  BY <1>1, <1>2

\* One end of the pipes goes away.
LEMMA BreakMaps ==
  ASSUME UNCHANGED clientVars, UNCHANGED callVars, UNCHANGED readVars,
         ~writerOpen' \/ ~peerAlive'
  PROVE  [Calls!Next]_Calls!vars
<1>1. UNCHANGED <<InProgress, Answered, Ended>>
  BY DEF clientVars, callVars, readVars, InProgress, Answered, Ended
<1>2. Calls!Break
  BY <1>1 DEF Calls!Break, clientVars, callVars
<1> QED
  BY <1>2 DEF Calls!Next

LEMMA CallsMap ==
  ASSUME CallsInv, [Next]_vars
  PROVE  [Calls!Next]_Calls!vars
<1>1. ASSUME NEW p \in Callers, Caller(p) PROVE [Calls!Next]_Calls!vars
  BY <1>1, CallerMaps
<1>2. ASSUME ReadLoop PROVE [Calls!Next]_Calls!vars
  <2>1. CASE ReadLoopEOF
    BY <2>1, CallsFrame DEF ReadLoopEOF, clientVars, callVars, endVars, pipeVars
  <2>2. CASE ReadLoopClose
    <3>1. /\ CloseSection("readLoop") /\ UNCHANGED callVars /\ UNCHANGED rlLine
          /\ UNCHANGED endVars /\ UNCHANGED pipeVars /\ rl = "close" /\ rl' = "done"
      BY <2>2 DEF ReadLoopClose
    <3> QED
      BY <3>1, CloseSectionMaps
  <2> QED
    BY <1>2, <2>1, <2>2, ReadLoopLineMaps, ReadLoopSendMaps DEF ReadLoop
<1>3. ASSUME NEW c \in Closers, Close(c) PROVE [Calls!Next]_Calls!vars
  <2>1. /\ CloseSection(c) /\ UNCHANGED callVars /\ UNCHANGED readVars
        /\ UNCHANGED endVars /\ UNCHANGED pipeVars
    BY <1>3 DEF Close
  <2> QED
    BY <2>1, CloseSectionMaps DEF readVars
<1>4. ASSUME NEW c \in Closers \cup {"readLoop"}, ClosePipes(c)
      PROVE  [Calls!Next]_Calls!vars
  BY <1>4, BreakMaps DEF ClosePipes
<1>5. ASSUME Peer PROVE [Calls!Next]_Calls!vars
  <2>1. CASE PeerExit
    BY <2>1, BreakMaps DEF PeerExit
  <2>2. CASE PeerRead \/ \E line \in Lines : PeerWrite(line)
    BY <2>2, CallsFrame DEF PeerRead, PeerWrite, clientVars, callVars, readVars, endVars
  <2> QED
    BY <1>5, <2>1, <2>2 DEF Peer
<1>6. CASE UNCHANGED vars
  BY <1>6, CallsFrame DEF vars, clientVars, callVars, readVars, endVars, pipeVars
<1> QED
  BY <1>1, <1>2, <1>3, <1>4, <1>5, <1>6 DEF Next, ClientNext

LEMMA CallsInit == Init => Calls!Init
<1> SUFFICES ASSUME Init PROVE Calls!Init
  OBVIOUS
<1>1. InProgress = {} /\ Answered = {}
  BY DEF Init, InProgress, Answered, InCall
<1>2. Ended = [p \in Callers |-> "none"]
  BY <1>1 DEF Init, Ended
<1> QED
  BY <1>1, <1>2 DEF Init, Calls!Init

-----------------------------------------------------------------------------
(* The reasons of the calls *)

LEMMA ReasonsOfCallers ==
  ASSUME CallsInv, NEW p \in Callers, Caller(p)
  PROVE  GotAtReturn' /\ ReasonsKnown' /\ OpenUntilClosed'
<1> USE DEF GotAtReturn, ReasonsKnown, OpenUntilClosed
<1>1. /\ pc \in [Callers -> {"idle", "notify"} \cup InCall]
      /\ outcome \in [Callers -> Outcomes] /\ got \in [Callers -> Lines \cup {NoLine}]
  BY DEF CallsInv, ClientInv, TypeOK
<1>2. GotAtReturn /\ ReasonsKnown /\ OpenUntilClosed
  BY DEF CallsInv
<1>3. CASE CallRefused(p) \/ CallBegin(p) \/ NotifyBegin(p) \/ NotifyWrite(p) \/ CallWrite(p)
  BY <1>1, <1>2, <1>3 DEF CallRefused, CallBegin, NotifyBegin, NotifyWrite, CallWrite, WriteFails,
     clientVars, readVars, endVars, pipeVars
<1>4. CASE CallRegister(p) \/ CallReturn(p)
  BY <1>1, <1>2, <1>4 DEF CallRegister, CallReturn, Forget, clientVars, readVars, endVars, pipeVars
<1>5. CASE SelectCtx(p) \/ SelectClosed(p) \/ Expire(p)
  BY <1>1, <1>2, <1>5 DEF SelectCtx, SelectClosed, Expire, clientVars, readVars, endVars, pipeVars
<1>6. CASE SelectResponse(p)
  BY <1>1, <1>2, <1>6 DEF SelectResponse, readVars, endVars, pipeVars
<1> QED
  BY <1>3, <1>4, <1>5, <1>6 DEF Caller, CallerStep, Select

LEMMA CallsInvStep == CallsInv /\ [Next]_vars => CallsInv'
<1> SUFFICES ASSUME CallsInv, [Next]_vars PROVE CallsInv'
  OBVIOUS
<1>1. ClientInv'
  BY ClientInvStep DEF CallsInv
<1>2. ASSUME UNCHANGED callVars, closed => closed', closedCh' = closedCh \/ closed',
             writerOpen' => writerOpen, peerAlive' => peerAlive
      PROVE  GotAtReturn' /\ ReasonsKnown' /\ OpenUntilClosed'
  BY <1>2 DEF CallsInv, callVars, GotAtReturn, ReasonsKnown, OpenUntilClosed
<1>3. ASSUME ReadLoop PROVE GotAtReturn' /\ ReasonsKnown' /\ OpenUntilClosed'
  BY <1>2, <1>3 DEF ReadLoop, ReadLoopLine, ReadLoopSend, ReadLoopEOF, ReadLoopClose,
     CloseSection, clientVars, endVars, pipeVars
<1>4. ASSUME NEW c \in Closers, Close(c)
      PROVE  GotAtReturn' /\ ReasonsKnown' /\ OpenUntilClosed'
  BY <1>2, <1>4 DEF Close, CloseSection, endVars, pipeVars
<1>5. ASSUME NEW c \in Closers \cup {"readLoop"}, ClosePipes(c)
      PROVE  GotAtReturn' /\ ReasonsKnown' /\ OpenUntilClosed'
  BY <1>2, <1>5 DEF ClosePipes, clientVars, pipeVars
<1>6. ASSUME Peer PROVE GotAtReturn' /\ ReasonsKnown' /\ OpenUntilClosed'
  BY <1>2, <1>6 DEF Peer, PeerRead, PeerWrite, PeerExit, clientVars, endVars
<1>7. ASSUME UNCHANGED vars PROVE GotAtReturn' /\ ReasonsKnown' /\ OpenUntilClosed'
  BY <1>2, <1>7 DEF vars, clientVars, endVars, pipeVars
<1> QED
  BY <1>1, <1>3, <1>4, <1>5, <1>6, <1>7, ReasonsOfCallers DEF CallsInv, Next, ClientNext

\* The client implements the abstract calls: each ends once, and for a reason (Call
\* and Notify in client.go).
THEOREM ClientImplementsCalls == Spec => ImplementsPluginCalls
<1>1. Init => CallsInv
  BY ClientInvInit DEF Init, CallsInv, GotAtReturn, ReasonsKnown, OpenUntilClosed
<1>2. CallsInv /\ [Next]_vars => CallsInv' /\ [Calls!Next]_Calls!vars
  BY CallsInvStep, CallsMap
<1> QED
  BY <1>1, <1>2, CallsInit, PTL DEF Spec, ImplementsPluginCalls, Calls!Spec
=============================================================================
