------------------------- MODULE PluginSessionProofs -------------------------
(***************************************************************************)
(* A session of the client with an SDK plugin is a behaviour of the client *)
(* with an arbitrary plugin, so the theorems of PluginClientProofs hold of *)
(* it; and what only an SDK plugin gives, that a request is served once    *)
(* and that no call waits for an answer that is not coming, holds for any  *)
(* number of callers, ids and any pipe capacity.                           *)
(***************************************************************************)
EXTENDS PluginSession, PluginClientProofs, FiniteSetTheorems, SequenceTheorems

\* The types of the server's variables: what it writes is a response line.
SrvTypeOK ==
  /\ srv \in {"scan", "handle", "write"}
  /\ srvId \in 0..MaxId
  /\ srv = "write" => srvBody \in Bodies

-----------------------------------------------------------------------------
(* The session implements the client with an arbitrary plugin *)

LEMMA ServerIsAPeer ==
  ASSUME TypeOK, SrvTypeOK, Server
  PROVE  [Next]_vars /\ SrvTypeOK'
<1>1. CASE ServerScan
  <2>1. PeerRead
    BY <1>1 DEF ServerScan, PeerRead
  <2>2. Head(reqPipe) \in 0..MaxId
    <3>1. reqPipe \in Seq(0..MaxId) /\ reqPipe # <<>>
      BY <1>1 DEF ServerScan, TypeOK
    <3> QED
      BY <3>1, HeadTailProperties
  <2> QED
    BY <1>1, <2>1, <2>2 DEF ServerScan, SrvTypeOK, Next, Peer
<1>2. CASE ServerStop
  <2>1. PeerExit
    BY <1>2 DEF ServerStop, PeerExit
  <2> QED
    BY <1>2, <2>1 DEF ServerStop, srvVars, SrvTypeOK, Next, Peer
<1>3. CASE ServerHandle
  BY <1>3 DEF ServerHandle, SrvTypeOK
<1>4. CASE ServerWrite
  <2>1. CASE readerOpen
    <3>1. [id |-> srvId, body |-> srvBody] \in Lines
      BY <1>4 DEF ServerWrite, SrvTypeOK, Lines
    <3>2. PeerWrite([id |-> srvId, body |-> srvBody])
      BY <1>4, <2>1 DEF ServerWrite, PeerWrite
    <3>3. Peer
      BY <3>1, <3>2 DEF Peer
    <3> QED
      BY <1>4, <2>1, <3>3, BoundsAssumption DEF ServerWrite, SrvTypeOK, Next
  <2>2. CASE ~readerOpen
    <3>1. PeerExit
      BY <1>4, <2>2 DEF ServerWrite, PeerExit
    <3> QED
      BY <1>4, <2>2, <3>1 DEF ServerWrite, srvVars, SrvTypeOK, Next, Peer
  <2> QED
    BY <2>1, <2>2 DEF TypeOK, FlagsOK
<1> QED
  BY <1>1, <1>2, <1>3, <1>4 DEF Server

LEMMA SessionStep ==
  ASSUME TypeOK, SrvTypeOK, [SessionNext]_sessionVars
  PROVE  [Next]_vars /\ SrvTypeOK'
<1>1. CASE ClientNext /\ UNCHANGED srvVars
  BY <1>1 DEF SrvTypeOK, srvVars, Next
<1>2. CASE PeerExit /\ UNCHANGED srvVars
  BY <1>2 DEF SrvTypeOK, srvVars, Next, Peer
<1>3. CASE Server
  BY <1>3, ServerIsAPeer
<1>4. CASE UNCHANGED sessionVars
  BY <1>4 DEF sessionVars, srvVars, SrvTypeOK
<1> QED
  BY <1>1, <1>2, <1>3, <1>4 DEF SessionNext

LEMMA SessionInitTypes == SessionInit => SrvTypeOK
BY BoundsAssumption DEF SessionInit, SrvTypeOK

\* An SDK plugin is one of the arbitrary plugins: every step of the session is a
\* step of PluginClient or leaves its variables alone.
LEMMA SessionIsClient == SessionSpec => Spec
<1>1. SessionInit => Init /\ ClientInv /\ SrvTypeOK
  BY SessionInitTypes, ClientInvInit DEF SessionInit
<1>2. ASSUME ClientInv /\ SrvTypeOK, [SessionNext]_sessionVars
      PROVE  [Next]_vars /\ (ClientInv /\ SrvTypeOK)'
  <2>1. [Next]_vars /\ SrvTypeOK'
    BY <1>2, SessionStep DEF ClientInv
  <2> QED
    BY <1>2, <2>1, ClientInvStep
<1> QED
  BY <1>1, <1>2, PTL DEF SessionSpec, Spec

\* readLoop does not panic in a session with an SDK plugin.
THEOREM SessionNoPanic == SessionSpec => []NoSendOnClosedChannel
BY SessionIsClient, NoPanic, PTL

-----------------------------------------------------------------------------
(* Where a request is *)

\* Some element of s is in X; at most one is.
Has(s, X)  == \E k \in 1..Len(s) : s[k] \in X
Once(s, X) == \A j, k \in 1..Len(s) : s[j] \in X /\ s[k] \in X => j = k

LinesOf(i) == {line \in Lines : line.id = i}
Asked    == {i \in Ids : Has(reqPipe, {i})}
Served   == {i \in Ids : srv # "scan" /\ srvId = i}
Responded == {i \in Ids : Has(respPipe, LinesOf(i))}
Held     == {i \in Ids : rl = "send" /\ rlLine.id = i}
Buffered == {i \in Ids : slot[i] # NoLine}
UnderWay == Asked \cup Served \cup Responded \cup Held \cup Buffered

\* The inductive invariant of a session: a request is in one place from its write
\* on and nowhere before, and so is whatever an open client's call waits for.
OnceInPipes == \A i \in Ids : Once(reqPipe, {i}) /\ Once(respPipe, LinesOf(i))
OnePlace ==
  /\ Asked \cap (Served \cup Responded \cup Held \cup Buffered) = {}
  /\ Served \cap (Responded \cup Held \cup Buffered) = {}
  /\ Responded \cap (Held \cup Buffered) = {}
  /\ Held \cap Buffered = {}
UnsentIds ==
  /\ \A i \in UnderWay : i <= nextID
  /\ \A p \in Callers : pc[p] \in {"register", "write"} => callId[p] \notin UnderWay
WaitersServed ==
  \A p \in Callers : pc[p] = "select" /\ ~closed /\ peerAlive => callId[p] \in UnderWay
OpenChannels == closedCh # {} => closed

SessionInv ==
  /\ ClientInv /\ SrvTypeOK
  /\ OnceInPipes /\ OnePlace /\ UnsentIds /\ WaitersServed /\ OpenChannels

-----------------------------------------------------------------------------
(* Sequences *)

LEMMA HasAppend ==
  ASSUME NEW S, NEW s \in Seq(S), NEW x \in S, NEW X
  PROVE  /\ Has(Append(s, x), X) <=> Has(s, X) \/ x \in X
         /\ Once(s, X) /\ ~(Has(s, X) /\ x \in X) => Once(Append(s, x), X)
<1> DEFINE t == Append(s, x)
           n == Len(s)
<1>1. /\ n \in Nat /\ Len(t) = n + 1 /\ t[n + 1] = x
      /\ \A k \in 1..n : t[k] = s[k]
  OBVIOUS
<1> HIDE DEF t
<1>2. \A k : k \in 1..(n + 1) <=> k \in 1..n \/ k = n + 1
  BY <1>1
<1>3. Has(t, X) <=> Has(s, X) \/ x \in X
  BY <1>1, <1>2 DEF Has
<1>4. Once(s, X) /\ ~(Has(s, X) /\ x \in X) => Once(t, X)
  BY <1>1, <1>2 DEF Has, Once
<1> QED
  BY <1>3, <1>4 DEF t

LEMMA HasTail ==
  ASSUME NEW S, NEW s \in Seq(S), s # <<>>, NEW X
  PROVE  /\ Has(s, X) <=> Head(s) \in X \/ Has(Tail(s), X)
         /\ Once(s, X) => Once(Tail(s), X) /\ (Head(s) \in X => ~Has(Tail(s), X))
<1> DEFINE t == Tail(s)
           n == Len(t)
<1>1. /\ n \in Nat /\ Len(s) = n + 1 /\ s[1] = Head(s)
      /\ \A k \in 1..n : t[k] = s[k + 1]
  <2>1. Len(s) \in Nat \ {0} /\ Head(s) = s[1]
    BY EmptySeq
  <2> QED
    BY <2>1, HeadTailProperties
<1> HIDE DEF t
<1>2. /\ \A k \in 1..n : k + 1 \in 1..(n + 1) /\ k + 1 # 1
      /\ \A k \in 1..(n + 1) : k = 1 \/ \E l \in 1..n : k = l + 1
      /\ 1 \in 1..(n + 1)
  <2>1. \A k \in 1..(n + 1) : k = 1 \/ (k - 1 \in 1..n /\ k = (k - 1) + 1)
    BY <1>1
  <2> QED
    BY <1>1, <2>1
<1>3. Has(s, X) <=> Head(s) \in X \/ Has(t, X)
  BY <1>1, <1>2 DEF Has
<1>4. ASSUME Once(s, X) PROVE Once(t, X)
  <2>1. SUFFICES ASSUME NEW j \in 1..n, NEW k \in 1..n, t[j] \in X, t[k] \in X
                 PROVE  j = k
    BY DEF Once
  <2>2. j + 1 = k + 1
    BY <1>1, <1>2, <1>4, <2>1 DEF Once
  <2> QED
    BY <1>1, <2>2
<1>5. ASSUME Once(s, X), Head(s) \in X PROVE ~Has(t, X)
  BY <1>1, <1>2, <1>5 DEF Has, Once
<1> QED
  BY <1>3, <1>4, <1>5 DEF t

-----------------------------------------------------------------------------
(* The steps *)

\* Nothing moves.
LEMMA PlacesFrame ==
  ASSUME UNCHANGED <<reqPipe, respPipe, slot, srv, srvId, rlLine>>,
         rl = "send" <=> rl' = "send"
  PROVE  /\ UNCHANGED <<Asked, Served, Responded, Held, Buffered, UnderWay>>
         /\ OnceInPipes => OnceInPipes'
         /\ OnePlace => OnePlace'
BY DEF Asked, Served, Responded, Held, Buffered, UnderWay, OnceInPipes, OnePlace

\* A step that moves requests from one place to another and starts no wait.
LEMMA QuietStep ==
  ASSUME SessionInv, ClientInv', SrvTypeOK', OnceInPipes', OnePlace',
         UnderWay' = UnderWay, nextID' = nextID,
         closed => closed', peerAlive' => peerAlive, closedCh' = closedCh \/ closed',
         \A q \in Callers :
           /\ pc'[q] \in {"register", "write"} =>
                pc[q] \in {"register", "write"} /\ callId'[q] = callId[q]
           /\ pc'[q] = "select" => pc[q] = "select" /\ callId'[q] = callId[q]
  PROVE  SessionInv'
<1>1. UnsentIds' /\ WaitersServed' /\ OpenChannels'
  BY DEF SessionInv, UnsentIds, WaitersServed, OpenChannels
<1> QED
  BY <1>1 DEF SessionInv

LEMMA ServerScanStep ==
  ASSUME SessionInv, ClientInv', SrvTypeOK', ServerScan
  PROVE  SessionInv'
<1> DEFINE h == Head(reqPipe)
<1>1. reqPipe \in Seq(0..MaxId) /\ reqPipe # <<>> /\ reqPipe' = Tail(reqPipe)
  BY DEF ServerScan, SessionInv, ClientInv, TypeOK
<1>2. \A i \in Ids : Has(reqPipe, {i}) <=> h = i \/ Has(reqPipe', {i})
  BY <1>1, HasTail
<1>3. \A i \in Ids : Once(reqPipe', {i}) /\ (h = i => ~Has(reqPipe', {i}))
  BY <1>1, HasTail DEF SessionInv, OnceInPipes
<1>4. /\ srv = "scan" /\ srv' = "handle" /\ srvId' = h
      /\ UNCHANGED <<respPipe, slot, rl, rlLine, nextID, closed, closedCh, pc, callId, peerAlive>>
  BY DEF ServerScan, clientVars, callVars, readVars
<1> HIDE DEF h
<1>5. /\ Served = {} /\ Served' = {h} \cap Ids /\ Asked = Asked' \cup Served'
      /\ Asked' \cap Served' = {} /\ UNCHANGED <<Responded, Held, Buffered>>
  BY <1>2, <1>3, <1>4 DEF Asked, Served, Responded, Held, Buffered
<1>6. UnderWay' = UnderWay /\ OnePlace'
  BY <1>5 DEF SessionInv, OnePlace, UnderWay
<1>7. OnceInPipes'
  BY <1>3, <1>4 DEF SessionInv, OnceInPipes
<1> QED
  BY <1>4, <1>6, <1>7, QuietStep

LEMMA ServerWriteStep ==
  ASSUME SessionInv, ClientInv', SrvTypeOK', ServerWrite, readerOpen
  PROVE  SessionInv'
<1> DEFINE line == [id |-> srvId, body |-> srvBody]
<1>1. /\ line \in Lines /\ line.id = srvId /\ respPipe \in Seq(Lines)
      /\ respPipe' = Append(respPipe, line)
  BY DEF ServerWrite, SessionInv, ClientInv, TypeOK, SrvTypeOK, Lines
<1>2. /\ srv = "write" /\ srv' = "scan"
      /\ UNCHANGED <<reqPipe, slot, rl, rlLine, nextID, closed, closedCh, pc, callId, peerAlive>>
  BY DEF ServerWrite, clientVars, callVars, readVars
<1> HIDE DEF line
<1>3. \A i \in Ids : line \in LinesOf(i) <=> i = srvId
  BY <1>1 DEF LinesOf
<1>4. \A i \in Ids : Has(respPipe', LinesOf(i)) <=> Has(respPipe, LinesOf(i)) \/ i = srvId
  BY <1>1, <1>3, HasAppend
<1>5. /\ Served = {srvId} \cap Ids /\ Served' = {} /\ Responded' = Responded \cup Served
      /\ UNCHANGED <<Asked, Held, Buffered>>
  BY <1>2, <1>4 DEF Asked, Served, Responded, Held, Buffered
<1>6. UnderWay' = UnderWay /\ OnePlace'
  BY <1>5 DEF SessionInv, OnePlace, UnderWay
<1>7. \A i \in Ids : Once(respPipe', LinesOf(i))
  <2>1. TAKE i \in Ids
  <2>2. Once(respPipe, LinesOf(i)) /\ ~(Has(respPipe, LinesOf(i)) /\ line \in LinesOf(i))
    BY <1>3, <1>5 DEF SessionInv, OnceInPipes, OnePlace, Responded
  <2> QED
    BY <1>1, <2>2, HasAppend
<1>8. OnceInPipes'
  BY <1>2, <1>7 DEF SessionInv, OnceInPipes
<1> QED
  BY <1>2, <1>6, <1>8, QuietStep

LEMMA CallBeginQuiet ==
  ASSUME SessionInv, ClientInv', SrvTypeOK', NEW p \in Callers, CallBegin(p), UNCHANGED srvVars
  PROVE  SessionInv'
<1>1. /\ UNCHANGED <<reqPipe, respPipe, slot, rl, rlLine, closed, closedCh, peerAlive>>
      /\ nextID' = nextID + 1 /\ nextID \in Nat
      /\ pc' = [pc EXCEPT ![p] = "register"] /\ callId' = [callId EXCEPT ![p] = nextID + 1]
      /\ pc \in [Callers -> {"idle", "notify"} \cup InCall] /\ callId \in [Callers -> 0..MaxId]
  BY BoundsAssumption DEF CallBegin, readVars, pipeVars, SessionInv, ClientInv, TypeOK
<1>2. UnderWay' = UnderWay /\ OnceInPipes' /\ OnePlace'
  BY <1>1, PlacesFrame DEF srvVars, SessionInv
<1>3. UnderWay \subseteq Nat /\ \A i \in UnderWay : i <= nextID
  BY BoundsAssumption DEF SessionInv, UnsentIds, UnderWay, Asked, Served, Responded, Held, Buffered, Ids
<1>4. (\A i \in UnderWay : i <= nextID + 1) /\ nextID + 1 \notin UnderWay
  BY <1>1, <1>3
<1>5. UnsentIds'
  BY <1>1, <1>2, <1>4 DEF SessionInv, UnsentIds
<1>6. WaitersServed' /\ OpenChannels'
  BY <1>1, <1>2 DEF SessionInv, WaitersServed, OpenChannels
<1> QED
  BY <1>2, <1>5, <1>6 DEF SessionInv

LEMMA CallWriteMoves ==
  ASSUME SessionInv, ClientInv', SrvTypeOK', NEW p \in Callers, CallWrite(p), UNCHANGED srvVars
  PROVE  SessionInv'
<1> DEFINE n == callId[p]
<1>1. /\ UNCHANGED <<respPipe, slot, rl, rlLine, srv, srvId>>
      /\ UNCHANGED <<nextID, closed, closedCh, callId, peerAlive>>
      /\ pc[p] = "write" /\ n \in Ids /\ n <= nextID
      /\ pc \in [Callers -> {"idle", "notify"} \cup InCall]
      /\ reqPipe \in Seq(0..MaxId) /\ n \in 0..MaxId
  BY BoundsAssumption DEF CallWrite, clientVars, readVars, srvVars, SessionInv, ClientInv, TypeOK,
     CallsOwnTheirIds, InCall, Ids
<1>2. \A q \in Callers \ {p} : pc[q] \in {"register", "write", "select"} => callId[q] # n
  BY <1>1 DEF SessionInv, ClientInv, CallsOwnTheirIds, InCall
<1>3. n \notin UnderWay
  BY <1>1 DEF SessionInv, UnsentIds
<1> HIDE DEF n
<1>4. CASE WriteFails /\ pc' = [pc EXCEPT ![p] = "return"] /\ reqPipe' = reqPipe
  <2>1. UnderWay' = UnderWay /\ OnceInPipes' /\ OnePlace'
    BY <1>1, <1>4, PlacesFrame DEF SessionInv
  <2> QED
    BY <1>1, <1>4, <2>1, QuietStep
<1>5. CASE reqPipe' = Append(reqPipe, n) /\ pc' = [pc EXCEPT ![p] = "select"]
  <2>1. \A i \in Ids : Has(reqPipe', {i}) <=> Has(reqPipe, {i}) \/ i = n
    BY <1>1, <1>5, HasAppend
  <2>2. Asked' = Asked \cup {n} /\ UNCHANGED <<Served, Responded, Held, Buffered>>
    BY <1>1, <2>1 DEF Asked, Served, Responded, Held, Buffered
  <2>3. UnderWay' = UnderWay \cup {n} /\ OnePlace'
    BY <1>3, <2>2 DEF SessionInv, OnePlace, UnderWay
  <2>4. \A i \in Ids : Once(reqPipe', {i})
    <3>1. TAKE i \in Ids
    <3>2. Once(reqPipe, {i}) /\ ~(Has(reqPipe, {i}) /\ n \in {i})
      BY <1>3 DEF SessionInv, OnceInPipes, UnderWay, Asked
    <3> QED
      BY <1>1, <1>5, <3>2, HasAppend
  <2>5. OnceInPipes'
    BY <1>1, <2>4 DEF SessionInv, OnceInPipes
  <2>6. UnsentIds' /\ WaitersServed' /\ OpenChannels'
    BY <1>1, <1>2, <1>5, <2>3 DEF SessionInv, UnsentIds, WaitersServed, OpenChannels, n
  <2> QED
    BY <2>3, <2>5, <2>6 DEF SessionInv
<1> QED
  BY <1>4, <1>5 DEF CallWrite, n

LEMMA SelectResponseMoves ==
  ASSUME SessionInv, ClientInv', SrvTypeOK', NEW p \in Callers, SelectResponse(p),
         UNCHANGED srvVars
  PROVE  SessionInv'
<1> DEFINE n == callId[p]
<1>1. /\ UNCHANGED <<reqPipe, respPipe, rl, rlLine, srv, srvId>>
      /\ UNCHANGED <<nextID, closed, closedCh, callId, peerAlive>>
      /\ pc[p] = "select" /\ pc' = [pc EXCEPT ![p] = "return"] /\ n \in Ids
      /\ pc \in [Callers -> {"idle", "notify"} \cup InCall]
      /\ slot \in [Ids -> Lines \cup {NoLine}]
  BY BoundsAssumption DEF SelectResponse, readVars, pipeVars, srvVars, SessionInv, ClientInv,
     TypeOK, CallsOwnTheirIds, InCall, Ids
<1>2. \A q \in Callers \ {p} : pc[q] \in {"register", "write", "select"} => callId[q] # n
  BY <1>1 DEF SessionInv, ClientInv, CallsOwnTheirIds, InCall
<1>3. slot' = slot \/ slot' = [slot EXCEPT ![n] = NoLine]
  BY DEF SelectResponse
<1> HIDE DEF n
<1>4. /\ Buffered \ {n} \subseteq Buffered' /\ Buffered' \subseteq Buffered
      /\ UNCHANGED <<Asked, Served, Responded, Held>>
  BY <1>1, <1>3 DEF Asked, Served, Responded, Held, Buffered
<1>5. UnderWay \ {n} \subseteq UnderWay' /\ UnderWay' \subseteq UnderWay /\ OnePlace'
  BY <1>4 DEF SessionInv, OnePlace, UnderWay
<1>6. OnceInPipes'
  BY <1>1 DEF SessionInv, OnceInPipes
<1>7. UnsentIds' /\ WaitersServed' /\ OpenChannels'
  BY <1>1, <1>2, <1>5 DEF SessionInv, UnsentIds, WaitersServed, OpenChannels, n
<1> QED
  BY <1>5, <1>6, <1>7 DEF SessionInv

LEMMA ReadLoopLineMoves ==
  ASSUME SessionInv, ClientInv', SrvTypeOK', ReadLoopLine, UNCHANGED srvVars
  PROVE  SessionInv'
<1> DEFINE line == Head(respPipe)
<1>1. respPipe \in Seq(Lines) /\ respPipe # <<>> /\ respPipe' = Tail(respPipe)
  BY DEF ReadLoopLine, SessionInv, ClientInv, TypeOK
<1>2. line \in Lines
  BY <1>1, HeadTailProperties
<1>3. \A i \in Ids : line \in LinesOf(i) <=> i = line.id
  BY <1>2 DEF LinesOf
<1>4. /\ \A i \in Ids : Has(respPipe, LinesOf(i)) <=>
                          line \in LinesOf(i) \/ Has(respPipe', LinesOf(i))
      /\ \A i \in Ids : Once(respPipe', LinesOf(i))
      /\ \A i \in Ids : line \in LinesOf(i) => ~Has(respPipe', LinesOf(i))
  BY <1>1, HasTail DEF SessionInv, OnceInPipes
<1>5. /\ UNCHANGED <<reqPipe, slot, srv, srvId>> /\ rl = "read"
      /\ UNCHANGED <<nextID, closed, closedCh, pc, callId, peerAlive>>
  BY DEF ReadLoopLine, callVars, srvVars
<1>6. IF line.id \in pending THEN rl' = "send" /\ rlLine' = line
                              ELSE rl' = rl /\ rlLine' = rlLine
  BY DEF ReadLoopLine, readVars
<1> HIDE DEF line
<1>7. OnceInPipes'
  BY <1>4, <1>5 DEF SessionInv, OnceInPipes
<1>8. /\ Held = {} /\ Responded = Responded' \cup ({line.id} \cap Ids)
      /\ Responded' \cap {line.id} = {}
      /\ UNCHANGED <<Asked, Served, Buffered>>
  BY <1>3, <1>4, <1>5 DEF Asked, Served, Responded, Held, Buffered
<1>9. CASE line.id \in pending
  <2>1. Held' = {line.id} \cap Ids
    BY <1>6, <1>9 DEF Held
  <2>2. UnderWay' = UnderWay /\ OnePlace'
    BY <1>8, <2>1 DEF SessionInv, OnePlace, UnderWay
  <2> QED
    BY <1>5, <1>7, <2>2, QuietStep
<1>10. CASE line.id \notin pending
  <2>1. Held' = {}
    BY <1>5, <1>6, <1>10 DEF Held
  <2>2. UnderWay' = UnderWay \ {line.id} /\ OnePlace'
    BY <1>8, <2>1 DEF SessionInv, OnePlace, UnderWay, Asked, Served, Responded, Held, Buffered
  <2>3. ASSUME NEW q \in Callers, pc[q] = "select", ~closed PROVE callId[q] # line.id
    <3>1. callId[q] \in Ids
      BY <2>3, BoundsAssumption DEF SessionInv, ClientInv, CallsOwnTheirIds, InCall, TypeOK, Ids
    <3>2. callId[q] \in pending \/ slot[callId[q]] # NoLine
      BY <1>5, <2>3 DEF SessionInv, OpenChannels, ClientInv, WaitersKnown
    <3>3. callId[q] \in pending \/ callId[q] \in Buffered
      BY <3>1, <3>2 DEF Buffered
    <3>4. callId[q] \in Buffered => callId[q] \notin Responded
      BY DEF SessionInv, OnePlace
    <3> QED
      BY <1>8, <1>10, <3>1, <3>3, <3>4
  <2>4. UnsentIds' /\ WaitersServed' /\ OpenChannels'
    BY <1>5, <2>2, <2>3 DEF SessionInv, UnsentIds, WaitersServed, OpenChannels
  <2> QED
    BY <1>7, <2>2, <2>4 DEF SessionInv
<1> QED
  BY <1>9, <1>10

LEMMA ReadLoopSendMoves ==
  ASSUME SessionInv, ClientInv', SrvTypeOK', ReadLoopSend, UNCHANGED srvVars
  PROVE  SessionInv'
<1>1. /\ UNCHANGED <<reqPipe, respPipe, srv, srvId>> /\ rl = "send" /\ rl' = "read"
      /\ slot' = [slot EXCEPT ![rlLine.id] = rlLine]
      /\ UNCHANGED <<nextID, closed, closedCh, pc, callId, peerAlive>>
      /\ rlLine \in Lines /\ rlLine.id \in Ids /\ rlLine # NoLine
      /\ slot \in [Ids -> Lines \cup {NoLine}]
  BY NoLineAssumption, BoundsAssumption DEF ReadLoopSend, callVars, pipeVars, srvVars, SessionInv, ClientInv, TypeOK,
     SendOwned, Ids
<1>2. /\ Held = {rlLine.id} /\ Held' = {} /\ Buffered' = Buffered \cup {rlLine.id}
      /\ UNCHANGED <<Asked, Served, Responded>>
  BY <1>1 DEF Asked, Served, Responded, Held, Buffered
<1>3. UnderWay' = UnderWay /\ OnePlace'
  BY <1>2 DEF SessionInv, OnePlace, UnderWay
<1>4. OnceInPipes'
  BY <1>1 DEF SessionInv, OnceInPipes
<1> QED
  BY <1>1, <1>3, <1>4, QuietStep

LEMMA NotifyWriteQuiet ==
  ASSUME SessionInv, ClientInv', SrvTypeOK', NEW p \in Callers, NotifyWrite(p),
         UNCHANGED srvVars
  PROVE  SessionInv'
<1>1. /\ UNCHANGED <<respPipe, slot, rl, rlLine, srv, srvId>>
      /\ UNCHANGED <<nextID, closed, closedCh, callId, peerAlive>>
      /\ pc' = [pc EXCEPT ![p] = "idle"]
      /\ pc \in [Callers -> {"idle", "notify"} \cup InCall]
      /\ reqPipe \in Seq(0..MaxId) /\ 0 \in 0..MaxId /\ 0 \notin Ids
      /\ reqPipe' = reqPipe \/ reqPipe' = Append(reqPipe, 0)
  BY BoundsAssumption DEF NotifyWrite, clientVars, readVars, srvVars, SessionInv, ClientInv,
     TypeOK, Ids
<1>2. \A i \in Ids : /\ Has(reqPipe', {i}) <=> Has(reqPipe, {i})
                     /\ Once(reqPipe, {i}) => Once(reqPipe', {i})
  <2>1. TAKE i \in Ids
  <2>2. 0 \notin {i}
    BY <1>1
  <2>3. CASE reqPipe' = reqPipe
    BY <2>3
  <2>4. CASE reqPipe' = Append(reqPipe, 0)
    BY <1>1, <2>2, <2>4, HasAppend
  <2> QED
    BY <1>1, <2>3, <2>4
<1>3. UNCHANGED <<Asked, Served, Responded, Held, Buffered>>
  BY <1>1, <1>2 DEF Asked, Served, Responded, Held, Buffered
<1>4. UnderWay' = UnderWay /\ OnePlace'
  BY <1>3 DEF SessionInv, OnePlace, UnderWay
<1>5. OnceInPipes'
  BY <1>1, <1>2 DEF SessionInv, OnceInPipes
<1> QED
  BY <1>1, <1>4, <1>5, QuietStep

\* The other steps of a caller.
LEMMA CallerQuiet ==
  ASSUME SessionInv, ClientInv', SrvTypeOK', NEW p \in Callers, UNCHANGED srvVars,
         \/ CallRefused(p) \/ CallRegister(p) \/ SelectCtx(p) \/ SelectClosed(p)
         \/ CallReturn(p) \/ NotifyBegin(p) \/ Expire(p)
  PROVE  SessionInv'
<1>1. pc \in [Callers -> {"idle", "notify"} \cup InCall] /\ callId \in [Callers -> 0..MaxId]
  BY DEF SessionInv, ClientInv, TypeOK
<1>2. /\ UNCHANGED <<reqPipe, respPipe, slot, rl, rlLine, srv, srvId>>
      /\ UNCHANGED <<nextID, closed, closedCh, peerAlive>>
  BY DEF CallRefused, CallRegister, SelectCtx, SelectClosed, CallReturn, NotifyBegin,
     Expire, clientVars, readVars, pipeVars, srvVars
<1>3. /\ pc' = pc /\ callId' = callId
      \/ /\ pc[p] = "register" /\ pc' = [pc EXCEPT ![p] = "write"] /\ callId' = callId
      \/ \E at \in {"idle", "return", "notify"} :
           /\ pc' = [pc EXCEPT ![p] = at]
           /\ callId' = callId \/ callId' = [callId EXCEPT ![p] = 0]
  BY DEF CallRefused, CallRegister, SelectCtx, SelectClosed, CallReturn, NotifyBegin,
     Expire, Forget
<1>4. \A q \in Callers :
        /\ pc'[q] \in {"register", "write"} =>
             pc[q] \in {"register", "write"} /\ callId'[q] = callId[q]
        /\ pc'[q] = "select" => pc[q] = "select" /\ callId'[q] = callId[q]
  BY <1>1, <1>3
<1>5. UnderWay' = UnderWay /\ OnceInPipes' /\ OnePlace'
  BY <1>2, PlacesFrame DEF SessionInv
<1> QED
  BY <1>2, <1>4, <1>5, QuietStep

\* The steps that only close something, or look.
LEMMA ClosingQuiet ==
  ASSUME SessionInv, ClientInv', SrvTypeOK',
         UNCHANGED <<reqPipe, respPipe, slot, srv, srvId, rlLine>>,
         rl = "send" <=> rl' = "send",
         UNCHANGED <<nextID, pc, callId>>,
         closed => closed', peerAlive' => peerAlive, closedCh' = closedCh \/ closed'
  PROVE  SessionInv'
<1>1. UnderWay' = UnderWay /\ OnceInPipes' /\ OnePlace'
  BY PlacesFrame DEF SessionInv
<1> QED
  BY <1>1, QuietStep

LEMMA SessionInvInit == SessionInit => SessionInv
<1> SUFFICES ASSUME SessionInit PROVE SessionInv
  OBVIOUS
<1>1. ClientInv /\ SrvTypeOK
  BY ClientInvInit, SessionInitTypes DEF SessionInit
<1>2. /\ reqPipe = <<>> /\ respPipe = <<>> /\ srv = "scan" /\ rl = "read"
      /\ slot = [i \in Ids |-> NoLine] /\ closedCh = {} /\ pc = [p \in Callers |-> "idle"]
  BY DEF SessionInit, Init
<1>3. \A X : ~Has(<<>>, X) /\ Once(<<>>, X)
  BY DEF Has, Once
<1>4. UnderWay = {} /\ OnePlace /\ OnceInPipes
  BY <1>2, <1>3 DEF UnderWay, OnePlace, OnceInPipes, Asked, Served, Responded, Held, Buffered
<1>5. UnsentIds /\ WaitersServed /\ OpenChannels
  BY <1>2, <1>4 DEF UnsentIds, WaitersServed, OpenChannels
<1> QED
  BY <1>1, <1>4, <1>5 DEF SessionInv

LEMMA SessionInvStep == SessionInv /\ [SessionNext]_sessionVars => SessionInv'
<1> SUFFICES ASSUME SessionInv, [SessionNext]_sessionVars PROVE SessionInv'
  OBVIOUS
<1>1. ClientInv' /\ SrvTypeOK'
  BY SessionStep, ClientInvStep DEF SessionInv, ClientInv
<1>2. ASSUME NEW p \in Callers, Caller(p), UNCHANGED srvVars PROVE SessionInv'
  BY <1>1, <1>2, CallBeginQuiet, CallWriteMoves, SelectResponseMoves, NotifyWriteQuiet,
     CallerQuiet DEF Caller, CallerStep, Select
<1>3. ASSUME ReadLoop, UNCHANGED srvVars PROVE SessionInv'
  <2>1. CASE ReadLoopEOF
    BY <1>1, <1>3, <2>1, ClosingQuiet
    DEF ReadLoopEOF, clientVars, callVars, pipeVars, srvVars
  <2>2. CASE ReadLoopClose
    BY <1>1, <1>3, <2>2, ClosingQuiet
    DEF ReadLoopClose, CloseSection, callVars, pipeVars, srvVars
  <2> QED
    BY <1>1, <1>3, <2>1, <2>2, ReadLoopLineMoves, ReadLoopSendMoves DEF ReadLoop
<1>4. ASSUME NEW c \in Closers, Close(c), UNCHANGED srvVars PROVE SessionInv'
  BY <1>1, <1>4, ClosingQuiet DEF Close, CloseSection, callVars, readVars, pipeVars, srvVars
<1>5. ASSUME NEW c \in Closers \cup {"readLoop"}, ClosePipes(c), UNCHANGED srvVars
      PROVE  SessionInv'
  BY <1>1, <1>5, ClosingQuiet
  DEF ClosePipes, clientVars, callVars, readVars, pipeVars, srvVars
<1>6. CASE PeerExit /\ UNCHANGED srvVars
  BY <1>1, <1>6, ClosingQuiet DEF PeerExit, clientVars, callVars, readVars, srvVars
<1>7. CASE Server
  <2>1. CASE ServerStop
    BY <1>1, <2>1, ClosingQuiet DEF ServerStop, clientVars, callVars, readVars, srvVars
  <2>2. CASE ServerHandle
    <3>1. UNCHANGED vars /\ UNCHANGED srvId /\ srv = "handle" /\ srv' = "write"
      BY <2>2 DEF ServerHandle
    <3>2. UNCHANGED <<Asked, Served, Responded, Held, Buffered>>
      BY <3>1 DEF vars, clientVars, readVars, pipeVars, Asked, Served, Responded, Held, Buffered
    <3>3. UnderWay' = UnderWay /\ OnePlace' /\ OnceInPipes'
      BY <3>1, <3>2 DEF vars, pipeVars, SessionInv, UnderWay, OnePlace, OnceInPipes
    <3> QED
      BY <1>1, <3>1, <3>3, QuietStep DEF vars, clientVars, callVars, pipeVars
  <2>3. CASE ServerWrite /\ ~readerOpen
    BY <1>1, <2>3, ClosingQuiet DEF ServerWrite, clientVars, callVars, readVars, srvVars
  <2> QED
    BY <1>1, <1>7, <2>1, <2>2, <2>3, ServerScanStep, ServerWriteStep DEF Server
<1>8. CASE UNCHANGED sessionVars
  BY <1>1, <1>8, ClosingQuiet
  DEF sessionVars, vars, clientVars, callVars, readVars, pipeVars, srvVars
<1> QED
  BY <1>2, <1>3, <1>4, <1>5, <1>6, <1>7, <1>8 DEF SessionNext, ClientNext

\* In every reachable state of a session a request is where SessionInv says.
THEOREM SessionInvariance == SessionSpec => []SessionInv
BY SessionInvInit, SessionInvStep, PTL DEF SessionSpec

-----------------------------------------------------------------------------
\* Sets with at most one element, in numbers.
LEMMA AtMostOne ==
  ASSUME NEW n \in Nat, NEW S, S \subseteq 1..n, \A j, k \in S : j = k
  PROVE  Cardinality(S) = IF S = {} THEN 0 ELSE 1
<1>1. CASE S = {}
  BY <1>1, FS_EmptySet
<1>2. ASSUME NEW k \in S PROVE Cardinality(S) = 1 /\ S # {}
  <2>1. S = {k}
    BY <1>2
  <2> QED
    BY <1>2, <2>1, FS_Singleton
<1> QED
  BY <1>1, <1>2

\* A request is served once: it is in at most one place on its way to the server
\* and back (Server.Run answers once, readLoop hands over once).
THEOREM RequestsServedOnce == SessionSpec => []RequestServedOnce
<1>1. ASSUME SessionInv, NEW i \in Ids
      PROVE  Cardinality(InPipe(reqPipe, i)) + One(srv # "scan" /\ srvId = i)
               + Cardinality(ResponsesFor(i)) + One(rl = "send" /\ rlLine.id = i)
               + One(slot[i] # NoLine) <= 1
  <2>1. reqPipe \in Seq(0..MaxId) /\ respPipe \in Seq(Lines)
    BY <1>1 DEF SessionInv, ClientInv, TypeOK
  <2>2. Len(reqPipe) \in Nat /\ Len(respPipe) \in Nat
    BY <2>1, LenProperties
  <2>3. Cardinality(InPipe(reqPipe, i)) = One(i \in Asked)
    <3>1. \A j, k \in InPipe(reqPipe, i) : j = k
      BY <1>1 DEF SessionInv, OnceInPipes, Once, InPipe
    <3>2. InPipe(reqPipe, i) = {} <=> i \notin Asked
      BY DEF InPipe, Asked, Has
    <3>3. InPipe(reqPipe, i) \subseteq 1..Len(reqPipe)
      BY DEF InPipe
    <3> QED
      BY <2>2, <3>1, <3>2, <3>3, AtMostOne DEF One
  <2>4. Cardinality(ResponsesFor(i)) = One(i \in Responded)
    <3>1. \A k \in 1..Len(respPipe) : respPipe[k] \in LinesOf(i) <=> respPipe[k].id = i
      <4>1. \A k \in 1..Len(respPipe) : respPipe[k] \in Lines
        BY <2>1
      <4> QED
        BY <4>1 DEF LinesOf
    <3>2. \A j, k \in ResponsesFor(i) : j = k
      BY <1>1, <3>1 DEF SessionInv, OnceInPipes, Once, ResponsesFor
    <3>3. ResponsesFor(i) = {} <=> i \notin Responded
      BY <3>1 DEF ResponsesFor, Responded, Has
    <3>4. ResponsesFor(i) \subseteq 1..Len(respPipe)
      BY DEF ResponsesFor
    <3> QED
      BY <2>2, <3>2, <3>3, <3>4, AtMostOne DEF One
  <2>5. /\ One(srv # "scan" /\ srvId = i) = One(i \in Served)
        /\ One(rl = "send" /\ rlLine.id = i) = One(i \in Held)
        /\ One(slot[i] # NoLine) = One(i \in Buffered)
    BY DEF Served, Held, Buffered, One
  <2>6. One(i \in Asked) + One(i \in Served) + One(i \in Responded) + One(i \in Held)
          + One(i \in Buffered) <= 1
    BY <1>1 DEF SessionInv, OnePlace, One
  <2> QED
    BY <2>3, <2>4, <2>5, <2>6
<1>2. SessionInv => RequestServedOnce
  BY <1>1 DEF RequestServedOnce
<1> QED
  BY <1>2, SessionInvariance, PTL

\* No call on an open client waits for an answer that is not coming (the select of
\* Call in client.go, with a plugin that runs Server.Run).
THEOREM WaitersAreServed == SessionSpec => []WaiterIsServed
<1>1. ASSUME SessionInv, NEW p \in Callers, pc[p] = "select", ~closed, peerAlive
      PROVE  LET i == callId[p] IN
             \/ InPipe(reqPipe, i) # {} \/ ResponsesFor(i) # {}
             \/ srv # "scan" /\ srvId = i
             \/ rl = "send" /\ rlLine.id = i
             \/ slot[i] # NoLine
  <2> DEFINE i == callId[p]
  <2>1. i \in UnderWay
    BY <1>1 DEF SessionInv, WaitersServed
  <2>2. i \in Asked => InPipe(reqPipe, i) # {}
    BY DEF InPipe, Asked, Has
  <2>3. i \in Responded => ResponsesFor(i) # {}
    BY DEF ResponsesFor, Responded, Has, LinesOf
  <2> QED
    BY <2>1, <2>2, <2>3 DEF UnderWay, Served, Held, Buffered
<1>2. SessionInv => WaiterIsServed
  BY <1>1 DEF WaiterIsServed
<1> QED
  BY <1>2, SessionInvariance, PTL
=============================================================================
