--------------------------- MODULE ProvidersProofs ---------------------------
(***************************************************************************)
(* Which session and which SSH connection the requests of a provider use,  *)
(* for any number of goroutines, connections and calls.  The inductive     *)
(* invariant relates what an operation holds in its hands (client,         *)
(* session) to what the provider holds by then, through the lock.          *)
(*                                                                         *)
(* A second one follows an operation through its plan: what it has still   *)
(* to ask for, what it knows by then of the answers, and whether it was    *)
(* ever without a client.  From it come what the overviews report and what *)
(* their score says of the alarms a device gave.                           *)
(***************************************************************************)
EXTENDS Providers, FiniteSetTheorems, TLAPS

Fields == {"op", "at", "left", "requests", "client", "session", "info", "gateways",
           "result", "cut", "crossed", "lost", "said"}

\* The shape of the state; connections are numbered from 1.
Shape ==
  /\ DOMAIN call = Threads
  /\ \A t \in Threads : DOMAIN call[t] = Fields
Numbers ==
  /\ link \in Nat /\ made \in Nat /\ link <= made
  /\ clean \subseteq 1..made /\ ssh \subseteq 1..made

\* Who is in the middle of a Connect holds the lock, and there is a connection
\* to log in on.
Connects ==
  \A t \in Threads :
    /\ call[t].at = "login" => writer = t /\ link # 0 /\ kind # "frr"
    /\ call[t].at = "dial" => kind = "frr"

\* The session is that of the connection, if this was made when there was none.
SessionFits ==
  /\ link = 0 => session = 0
  /\ link \in clean => session \in {0, link}

\* An operation that asks with a client has the current one, or knows better;
\* it does so while a Connect logs in.
ClientFits ==
  \A t \in Threads :
    call[t].at \in {"ask", "asked"} /\ ~call[t].crossed => call[t].client = link
LoginIsNoticed ==
  kind # "frr" /\ writer # NoOne =>
    \A t \in Threads : call[t].at \in {"ask", "asked"} => call[t].crossed

\* FRR: a command runs under the lock, on an open connection and with no session.
CommandsLock ==
  kind = "frr" => /\ \A t \in Threads : /\ call[t].at = "asked" => t \in readers
                                        /\ call[t].session = 0
                  /\ link # 0 => link \in ssh

ProvidersInv ==
  /\ Shape /\ Numbers /\ Connects /\ SessionFits /\ ClientFits /\ LoginIsNoticed
  /\ CommandsLock /\ SessionOfItsConnection /\ SSHConnectionsKept

-----------------------------------------------------------------------------
(* What happens to one operation *)

\* d is c later on, with the same client and session.
Same(c, d) ==
  /\ DOMAIN d = Fields
  /\ d.client = c.client /\ d.session = c.session /\ d.crossed = c.crossed

\* A query that ends keeps what the operation holds, and asks for nothing.
LEMMA FailsSame ==
  ASSUME NEW c, DOMAIN c = Fields, NEW failure
  PROVE  Same(c, Fails(c, failure)) /\ Fails(c, failure).at \in {"next", "done"}
BY DEF Same, Fields, Fails, Succeeds

\* What an operation hears does not change where it is.
LEMMA HeardSame ==
  ASSUME NEW c, DOMAIN c = Fields, NEW d \in Heard(c)
  PROVE  Same(c, d) /\ d.at = c.at
BY DEF Same, Fields, Heard

\* An answer ends a query or lets it ask again, with the same client.
LEMMA AnsweredSame ==
  ASSUME NEW c, DOMAIN c = Fields
  PROVE  Same(c, Answered(c)) /\ Answered(c).at \in {"ask", "next"}
BY DEF Same, Fields, Answered, Succeeds

LEMMA MissedSame ==
  ASSUME NEW c, DOMAIN c = Fields
  PROVE  Same(c, Missed(c)) /\ Missed(c).at \in {"ask", "next", "done"}
<1> DEFINE lost == [c EXCEPT !.lost = TRUE]
<1>1. DOMAIN lost = Fields /\ Same(c, lost)
  BY DEF Same, Fields
<1>2. Same(lost, Succeeds(lost)) /\ Succeeds(lost).at = "next"
  BY <1>1 DEF Same, Fields, Succeeds
<1>3. \A f : Same(lost, Fails(lost, f)) /\ Fails(lost, f).at \in {"next", "done"}
  BY <1>1, FailsSame
<1>4. Same(lost, [lost EXCEPT !.at = "ask", !.requests = Tail(c.requests)])
  BY <1>1 DEF Same, Fields
<1>5. [lost EXCEPT !.at = "ask", !.requests = Tail(c.requests)].at = "ask"
  BY <1>1 DEF Fields
<1>6. Missed(c) = Succeeds(lost) \/ Missed(c) = [lost EXCEPT !.at = "ask", !.requests = Tail(c.requests)]
        \/ \E f : Missed(c) = Fails(lost, f)
  BY DEF Missed
<1> QED
  BY <1>1, <1>2, <1>3, <1>4, <1>5, <1>6 DEF Same

-----------------------------------------------------------------------------
(* Every step preserves the invariant *)

\* A step of one operation, which leaves the provider alone but for the lock it
\* holds for reading.
LEMMA OperationStep ==
  ASSUME ProvidersInv, NEW t \in Threads, NEW d, Goes(t, d), DOMAIN d = Fields,
         UNCHANGED <<kind, link, session, writer, ssh, made, clean, replaced>>,
         readers \ {t} \subseteq readers',
         d.at \notin {"login", "dial"},
         d.at \in {"ask", "asked"} /\ ~d.crossed => d.client = link,
         kind # "frr" /\ writer # NoOne /\ d.at \in {"ask", "asked"} => d.crossed,
         kind = "frr" /\ d.at = "asked" => t \in readers' /\ d.client \in ssh,
         kind = "frr" => d.session = 0,
         d.at = "asked" /\ ~d.crossed /\ d.client \in clean => d.session \in {0, d.client}
  PROVE  ProvidersInv'
<1>1. DOMAIN call' = Threads /\ call'[t] = d /\ \A u \in Threads : u # t => call'[u] = call[u]
  BY DEF Goes, ProvidersInv, Shape
<1>2. Shape' /\ Numbers' /\ SessionFits'
  BY <1>1 DEF ProvidersInv, Shape, Numbers, SessionFits
<1>3. Connects' /\ ClientFits' /\ LoginIsNoticed'
  BY <1>1 DEF ProvidersInv, Connects, ClientFits, LoginIsNoticed
<1>4. CommandsLock'
  BY <1>1 DEF ProvidersInv, CommandsLock
<1>5. SessionOfItsConnection'
  BY <1>1 DEF ProvidersInv, SessionOfItsConnection
<1>6. SSHConnectionsKept'
  BY <1>1 DEF ProvidersInv, SSHConnectionsKept
<1> QED
  BY <1>2, <1>3, <1>4, <1>5, <1>6 DEF ProvidersInv

LEMMA NoCallFields ==
  DOMAIN NoCall = Fields /\ NoCall.at = "done" /\ NoCall.session = 0
BY DEF NoCall, Fields

\* The case of OperationStep where the operation keeps what it holds, and does
\* not come to send a request.
LEMMA QuietStep ==
  ASSUME ProvidersInv, NEW t \in Threads, NEW d, Goes(t, d), DOMAIN d = Fields,
         UNCHANGED provider, UNCHANGED kind,
         d.at \in {"next", "client", "done"},
         d.session \in {0, call[t].session}
  PROVE  ProvidersInv'
<1>1. kind = "frr" => d.session = 0
  BY DEF ProvidersInv, CommandsLock
<1>2. UNCHANGED <<kind, link, session, writer, ssh, made, clean, replaced>> /\ readers' = readers
  BY DEF provider
<1> QED
  BY <1>1, <1>2, OperationStep

LEMMA StartOperationStep ==
  ASSUME ProvidersInv, NEW t \in Threads, NEW op, StartOperation(t, op)
  PROVE  ProvidersInv'
<1> DEFINE new == [NoCall EXCEPT !.op = op, !.cut = link = 0]
           planned == [new EXCEPT !.at = "next", !.left = NetworkHandler[op].plan]
           ended(r) == [new EXCEPT !.result = r]
<1>1. DOMAIN new = Fields /\ new.at = "done" /\ new.session = 0
  BY NoCallFields DEF Fields
<1>2. DOMAIN planned = Fields /\ planned.at = "next" /\ planned.session = 0
  BY <1>1 DEF Fields
<1>3. \A r : DOMAIN ended(r) = Fields /\ ended(r).at = "done" /\ ended(r).session = 0
  BY <1>1 DEF Fields
<1>4. Goes(t, planned) \/ \E r : Goes(t, ended(r))
  BY Zenon DEF StartOperation
<1>5. UNCHANGED provider /\ UNCHANGED kind
  BY DEF StartOperation
<1> HIDE DEF planned, ended
<1> QED
  BY <1>2, <1>3, <1>4, <1>5, QuietStep

LEMMA NextQueryStep ==
  ASSUME ProvidersInv, NEW t \in Threads, NextQuery(t)
  PROVE  ProvidersInv'
<1>1. PICK c : c = call[t] /\ DOMAIN c = Fields
  BY DEF ProvidersInv, Shape
<1> DEFINE shorter(x) == [c EXCEPT !.left = x]
           asking(x)  == [c EXCEPT !.at = "client", !.requests = x]
<1>2. c.at = "next" /\ ((\E x : Goes(t, shorter(x))) \/ \E x : Goes(t, asking(x)))
  BY <1>1 DEF NextQuery
<1>3. \A x : Same(c, shorter(x)) /\ shorter(x).at = c.at
  BY <1>1 DEF Same, Fields
<1>4. \A x : Same(c, asking(x)) /\ asking(x).at = "client"
  BY <1>1 DEF Same, Fields
<1>5. UNCHANGED provider /\ UNCHANGED kind
  BY DEF NextQuery
<1> HIDE DEF shorter, asking
<1>6. PICK d : Goes(t, d) /\ Same(c, d) /\ d.at \in {"next", "client"}
  BY <1>2, <1>3, <1>4
<1> QED
  BY <1>1, <1>5, <1>6, QuietStep DEF Same

LEMMA EndOperationStep ==
  ASSUME ProvidersInv, NEW t \in Threads, EndOperation(t)
  PROVE  ProvidersInv'
<1>1. PICK c : c = call[t] /\ DOMAIN c = Fields
  BY DEF ProvidersInv, Shape
<1> DEFINE d == [c EXCEPT !.at = "done", !.result = "ok"]
<1>2. Goes(t, d)
  BY <1>1 DEF EndOperation
<1>3. Same(c, d) /\ d.at = "done"
  BY <1>1 DEF Same, Fields
<1>4. UNCHANGED provider /\ UNCHANGED kind
  BY DEF EndOperation
<1> HIDE DEF d
<1> QED
  BY <1>1, <1>2, <1>3, <1>4, QuietStep DEF Same

LEMMA GetClientStep ==
  ASSUME ProvidersInv, NEW t \in Threads, GetClient(t)
  PROVE  ProvidersInv'
<1>1. PICK c : c = call[t] /\ DOMAIN c = Fields
  BY DEF ProvidersInv, Shape
<1> DEFINE d == [c EXCEPT !.at = "ask", !.client = link, !.crossed = FALSE]
<1>2. UNCHANGED provider /\ UNCHANGED kind /\ kind # "frr"
  BY <1>1 DEF GetClient
<1>3. CASE link = 0
  <2>1. PICK f : Goes(t, Fails(c, f))
    BY <1>1, <1>3 DEF GetClient
  <2>2. Same(c, Fails(c, f)) /\ Fails(c, f).at \in {"next", "done"}
    BY <1>1, FailsSame
  <2> QED
    BY <1>1, <1>2, <2>1, <2>2, QuietStep DEF Same
<1>4. CASE link # 0
  <2>1. Goes(t, d) /\ writer = NoOne
    BY <1>1, <1>4 DEF GetClient
  <2>2. DOMAIN d = Fields /\ d.at = "ask" /\ d.client = link /\ d.session = c.session
    BY <1>1 DEF Fields
  <2>3. UNCHANGED <<kind, link, session, writer, ssh, made, clean, replaced>> /\ readers' = readers
    BY <1>1, <1>2 DEF provider
  <2> HIDE DEF d
  <2> QED
    BY <1>1, <1>2, <2>1, <2>2, <2>3, OperationStep
<1> QED
  BY <1>1, <1>3, <1>4

\* The session that is sent is the one of the client, unless the client was
\* replaced since it was asked for.
LEMMA SendStep ==
  ASSUME ProvidersInv, NEW t \in Threads, Send(t)
  PROVE  ProvidersInv'
<1>1. PICK c : c = call[t] /\ DOMAIN c = Fields
  BY DEF ProvidersInv, Shape
<1>2. PICK s : /\ Goes(t, [c EXCEPT !.at = "asked", !.session = s])
               /\ s \in IF kind # "openwrt" THEN {0}
                        ELSE IF writer = NoOne THEN {session} ELSE {session, Mixed}
  BY <1>1 DEF Send
<1> DEFINE d == [c EXCEPT !.at = "asked", !.session = s]
<1>3. /\ DOMAIN d = Fields /\ d.at = "asked" /\ d.session = s
      /\ d.client = c.client /\ d.crossed = c.crossed
  BY <1>1 DEF Fields
<1>4. c.at = "ask" /\ kind # "frr"
  BY <1>1 DEF Send
<1>5. /\ ~c.crossed => c.client = link
      /\ writer # NoOne => c.crossed
  BY <1>1, <1>4 DEF ProvidersInv, ClientFits, LoginIsNoticed
<1>6. ~c.crossed /\ link \in clean => s \in {0, link}
  BY <1>1, <1>2, <1>5 DEF ProvidersInv, SessionFits
<1>7. UNCHANGED <<kind, link, session, writer, ssh, made, clean, replaced>> /\ readers' = readers
  BY <1>1 DEF Send, provider
<1>8. Goes(t, d)
  BY <1>1, <1>2
<1> HIDE DEF d
<1>9. d.at = "asked" /\ ~d.crossed /\ d.client \in clean => d.session \in {0, d.client}
  BY <1>1, <1>3, <1>5, <1>6
<1> QED
  BY <1>1, <1>3, <1>4, <1>5, <1>7, <1>8, <1>9, OperationStep

LEMMA AnswerHTTPStep ==
  ASSUME ProvidersInv, NEW t \in Threads, AnswerHTTP(t)
  PROVE  ProvidersInv'
<1> DEFINE c == call[t]
<1>1. DOMAIN c = Fields
  BY DEF ProvidersInv, Shape
<1>2. c.at = "asked" /\ kind # "frr"
  BY DEF AnswerHTTP
<1>3. \/ Goes(t, Missed(c))
      \/ \E heard : Goes(t, Answered(heard)) /\ (heard = c \/ heard \in Heard(c))
  BY DEF AnswerHTTP
<1>4. PICK d : Goes(t, d) /\ Same(c, d) /\ d.at \in {"ask", "next", "done"}
  BY <1>1, <1>3, MissedSame, HeardSame, AnsweredSame DEF Same
<1>5. ~c.crossed => c.client = link
  BY <1>2 DEF ProvidersInv, ClientFits
<1>6. writer # NoOne => c.crossed
  BY <1>2 DEF ProvidersInv, LoginIsNoticed
<1>7. UNCHANGED <<kind, link, session, writer, ssh, made, clean, replaced>> /\ readers' = readers
  BY DEF AnswerHTTP, provider
<1> QED
  BY <1>2, <1>4, <1>5, <1>6, <1>7, OperationStep DEF Same

LEMMA RunVtyshStep ==
  ASSUME ProvidersInv, NEW t \in Threads, RunVtysh(t)
  PROVE  ProvidersInv'
<1>1. PICK c : c = call[t] /\ DOMAIN c = Fields
  BY DEF ProvidersInv, Shape
<1> DEFINE d == [c EXCEPT !.at = "asked", !.client = link]
<1>2. UNCHANGED <<kind, link, session, writer, ssh, made, clean, replaced>> /\ kind = "frr"
  BY <1>1 DEF RunVtysh
<1>3. CASE link = 0
  <2>1. (\E f : Goes(t, Fails(c, f))) /\ UNCHANGED readers
    BY <1>1, <1>3 DEF RunVtysh
  <2>2. PICK f : Goes(t, Fails(c, f))
    BY <1>1, <2>1
  <2>3. Same(c, Fails(c, f)) /\ Fails(c, f).at \in {"next", "done"}
    BY <1>1, FailsSame
  <2> QED
    BY <1>1, <1>2, <2>1, <2>2, <2>3, QuietStep DEF Same, provider
<1>4. CASE link # 0
  <2>1. Goes(t, d) /\ readers' = readers \cup {t}
    BY <1>1, <1>4 DEF RunVtysh
  <2>2. DOMAIN d = Fields /\ d.at = "asked" /\ d.client = link
        /\ d.session = c.session /\ d.crossed = c.crossed
    BY <1>1 DEF Fields
  <2>3. link \in ssh /\ c.session = 0
    BY <1>1, <1>2, <1>4 DEF ProvidersInv, CommandsLock
  <2> HIDE DEF d
  <2> QED
    BY <1>1, <1>2, <2>1, <2>2, <2>3, OperationStep
<1> QED
  BY <1>1, <1>3, <1>4

LEMMA AnswerSSHStep ==
  ASSUME ProvidersInv, NEW t \in Threads, AnswerSSH(t)
  PROVE  ProvidersInv'
<1> DEFINE c == call[t]
<1>1. DOMAIN c = Fields
  BY DEF ProvidersInv, Shape
<1>2. c.at = "asked" /\ kind = "frr"
  BY DEF AnswerSSH
<1>3. Goes(t, Missed(c)) \/ \E heard \in Heard(c) : Goes(t, Answered(heard))
  BY DEF AnswerSSH
<1>4. PICK d : Goes(t, d) /\ Same(c, d) /\ d.at \in {"ask", "next", "done"}
  BY <1>1, <1>3, MissedSame, HeardSame, AnsweredSame DEF Same
<1>5. (~c.crossed => c.client = link) /\ c.session = 0
  BY <1>2 DEF ProvidersInv, ClientFits, CommandsLock
<1>6. UNCHANGED <<kind, link, session, writer, ssh, made, clean, replaced>>
      /\ readers' = readers \ {t}
  BY DEF AnswerSSH
<1> QED
  BY <1>2, <1>4, <1>5, <1>6, OperationStep DEF Same

-----------------------------------------------------------------------------
(* Connect and Disconnect *)

\* What the other operations notice leaves them where they are.
LEMMA NoticeSame ==
  ASSUME Shape, NEW t \in Threads, NEW c, DOMAIN c = Fields, NEW lostClient,
         Notice(t, c, lostClient)
  PROVE  /\ Shape' /\ call'[t] = c
         /\ \A u \in Threads \ {t} :
              /\ call'[u].at = call[u].at
              /\ call'[u].client = call[u].client /\ call'[u].session = call[u].session
              /\ call[u].at \in {"ask", "asked"} => call'[u].crossed
<1> DEFINE new(u) == [call[u] EXCEPT !.crossed = @ \/ call[u].at \in {"ask", "asked"},
                                     !.cut = @ \/ lostClient]
<1>1. DOMAIN call' = Threads /\ call'[t] = c /\ \A u \in Threads \ {t} : call'[u] = new(u)
  BY DEF Notice
<1>2. ASSUME NEW u \in Threads
      PROVE  /\ DOMAIN new(u) = Fields
             /\ new(u).at = call[u].at /\ new(u).client = call[u].client
             /\ new(u).session = call[u].session
             /\ new(u).crossed = (call[u].crossed \/ call[u].at \in {"ask", "asked"})
  BY DEF Shape, Fields
<1> HIDE DEF new
<1> QED
  BY <1>1, <1>2 DEF Shape

LEMMA ConnectingFields ==
  /\ DOMAIN Connecting = Fields /\ Connecting.at = "done" /\ Connecting.session = 0
  /\ LET c == [Connecting EXCEPT !.at = "login"]
     IN  DOMAIN c = Fields /\ c.at = "login" /\ c.session = 0
  /\ LET c == [Connecting EXCEPT !.at = "dial"]
     IN  DOMAIN c = Fields /\ c.at = "dial" /\ c.session = 0
  /\ LET c == [Connecting EXCEPT !.result = "failed"]
     IN  DOMAIN c = Fields /\ c.at = "done" /\ c.session = 0
  /\ LET c == [NoCall EXCEPT !.op = "disconnect"]
     IN  DOMAIN c = Fields /\ c.at = "done" /\ c.session = 0
<1>1. DOMAIN NoCall = Fields /\ NoCall.at = "done" /\ NoCall.session = 0
  BY DEF NoCall, Fields
<1>2. PICK n : n = NoCall /\ DOMAIN n = Fields /\ n.at = "done" /\ n.session = 0
  BY <1>1
<1>3. /\ DOMAIN [n EXCEPT !.op = "connect"] = Fields
      /\ [n EXCEPT !.op = "connect"].at = "done"
      /\ [n EXCEPT !.op = "connect"].session = 0
  BY <1>2 DEF Fields
<1>4. Connecting = [n EXCEPT !.op = "connect"]
  BY <1>2 DEF Connecting
<1>5. PICK c : /\ c = Connecting
               /\ DOMAIN c = Fields /\ c.at = "done" /\ c.session = 0
  BY <1>3, <1>4
<1>6. c = Connecting
  BY <1>5
<1>7. /\ DOMAIN [c EXCEPT !.at = "login"] = Fields
      /\ [c EXCEPT !.at = "login"].at = "login" /\ [c EXCEPT !.at = "login"].session = 0
  BY <1>5 DEF Fields
<1>8. /\ DOMAIN [c EXCEPT !.at = "dial"] = Fields
      /\ [c EXCEPT !.at = "dial"].at = "dial" /\ [c EXCEPT !.at = "dial"].session = 0
  BY <1>5 DEF Fields
<1>9. /\ DOMAIN [c EXCEPT !.result = "failed"] = Fields
      /\ [c EXCEPT !.result = "failed"].at = "done"
      /\ [c EXCEPT !.result = "failed"].session = 0
  BY <1>5 DEF Fields
<1>10. /\ DOMAIN [n EXCEPT !.op = "disconnect"] = Fields
      /\ [n EXCEPT !.op = "disconnect"].at = "done"
      /\ [n EXCEPT !.op = "disconnect"].session = 0
  BY <1>2 DEF Fields
<1> QED
  BY <1>2, <1>5, <1>6, <1>7, <1>8, <1>9, <1>10

\* A new connection is older than none: its number is not in clean yet, and what
\* was open before is replaced.
LEMMA LinksNumbers ==
  ASSUME Numbers, Links(made + 1),
         ssh' = ssh \/ ssh' = ssh \cup {made + 1}
  PROVE  /\ Numbers' /\ link' = made + 1 /\ link' # 0 /\ link' # link
         /\ link # 0 => clean' = clean /\ link' \notin clean
         /\ link = 0 => clean' = clean \cup {link'}
<1>1. link' = made + 1 /\ made' = made + 1 /\ made \in Nat /\ link \in 0..made
  BY DEF Numbers, Links
<1>2. /\ link # 0 => clean' = clean
      /\ link = 0 => clean' = clean \cup {link'}
  BY <1>1 DEF Links
<1>3. made + 1 \in 1..(made + 1) /\ \A i \in 1..made : i \in 1..(made + 1) /\ i # made + 1
  BY <1>1
<1>4. made + 1 \notin clean
  BY <1>3 DEF Numbers
<1>5. /\ clean' \subseteq clean \cup {made + 1} /\ ssh' \subseteq ssh \cup {made + 1}
      /\ clean \subseteq 1..made /\ ssh \subseteq 1..made
  BY <1>1, <1>2 DEF Numbers
<1>6. clean' \subseteq 1..(made + 1) /\ ssh' \subseteq 1..(made + 1)
  <2> HIDE <1>1, <1>2
  <2> QED
    BY <1>3, <1>5
<1> QED
  BY <1>1, <1>2, <1>4, <1>6 DEF Numbers

LEMMA ConnectHTTPStep ==
  ASSUME ProvidersInv, NEW t \in Threads, ConnectHTTP(t)
  PROVE  ProvidersInv'
<1>1. PICK c : /\ Notice(t, c, FALSE) /\ DOMAIN c = Fields
               /\ \/ c.at = "done" /\ writer' = writer
                  \/ c.at = "login" /\ writer' = t
  BY ConnectingFields DEF ConnectHTTP
<1>2. /\ Links(made + 1) /\ kind # "frr" /\ writer = NoOne
      /\ UNCHANGED <<kind, session, readers, ssh>>
  BY DEF ConnectHTTP, Unlocked
<1>3. Shape /\ Numbers /\ SessionFits
  BY DEF ProvidersInv
<1>4. /\ Numbers' /\ link' # 0
      /\ link # 0 => clean' = clean /\ link' \notin clean
      /\ link = 0 => clean' = clean \cup {link'}
  BY <1>2, <1>3, LinksNumbers
<1>5. /\ Shape' /\ call'[t] = c
      /\ \A u \in Threads \ {t} :
           /\ call'[u].at = call[u].at
           /\ call'[u].client = call[u].client /\ call'[u].session = call[u].session
           /\ call[u].at \in {"ask", "asked"} => call'[u].crossed
  BY <1>1, <1>3, NoticeSame
<1>6. \A u \in Threads : call[u].at # "login"
  BY <1>2, NamesAssumption DEF ProvidersInv, Connects
<1>7. Connects'
  BY <1>1, <1>2, <1>4, <1>5, <1>6 DEF ProvidersInv, Connects
<1>8. SessionFits'
  BY <1>2, <1>3, <1>4 DEF SessionFits
<1>9. ClientFits' /\ LoginIsNoticed' /\ SessionOfItsConnection'
  BY <1>1, <1>5 DEF ClientFits, LoginIsNoticed, SessionOfItsConnection
<1>10. CommandsLock'
  BY <1>2 DEF CommandsLock
<1>11. SSHConnectionsKept'
  BY <1>2, <1>3 DEF ProvidersInv, SSHConnectionsKept, Links, Numbers
<1> QED
  BY <1>4, <1>5, <1>7, <1>8, <1>9, <1>10, <1>11 DEF ProvidersInv

LEMMA LoginStep ==
  ASSUME ProvidersInv, NEW t \in Threads, Login(t)
  PROVE  ProvidersInv'
<1>1. /\ Goes(t, Connecting) /\ writer' = NoOne /\ session' \in {session, link}
      /\ UNCHANGED <<kind, link, readers, ssh, made, clean, replaced>>
  BY DEF Login
<1>2. writer = t /\ link # 0 /\ kind # "frr"
  BY DEF Login, ProvidersInv, Connects
<1>3. /\ DOMAIN call' = Threads /\ call'[t] = Connecting
      /\ \A u \in Threads : u # t => call'[u] = call[u] /\ call[u].at # "login"
  BY <1>1, <1>2 DEF Goes, ProvidersInv, Shape, Connects
<1>4. Shape' /\ Numbers'
  BY <1>1, <1>3, ConnectingFields DEF ProvidersInv, Shape, Numbers
<1>5. Connects' /\ ClientFits' /\ LoginIsNoticed' /\ CommandsLock'
  BY <1>1, <1>2, <1>3, ConnectingFields
  DEF ProvidersInv, Connects, ClientFits, LoginIsNoticed, CommandsLock
<1>6. SessionFits'
  BY <1>1, <1>2 DEF ProvidersInv, SessionFits
<1>7. SessionOfItsConnection' /\ SSHConnectionsKept'
  BY <1>1, <1>2, <1>3, ConnectingFields
  DEF ProvidersInv, SessionOfItsConnection, SSHConnectionsKept
<1> QED
  BY <1>4, <1>5, <1>6, <1>7 DEF ProvidersInv

LEMMA DialSSHStep ==
  ASSUME ProvidersInv, NEW t \in Threads, DialSSH(t)
  PROVE  ProvidersInv'
<1>1. PICK d : /\ Goes(t, d) /\ DOMAIN d = Fields /\ d.session = 0
               /\ d.at \in {"done", "dial"}
  BY ConnectingFields DEF DialSSH
<1>2. /\ UNCHANGED <<kind, link, session, readers, ssh, made, clean, replaced>>
      /\ kind = "frr" /\ writer = NoOne
  BY DEF DialSSH, Unlocked
<1>3. /\ DOMAIN call' = Threads /\ call'[t] = d
      /\ \A u \in Threads : u # t => call'[u] = call[u]
  BY <1>1 DEF Goes, ProvidersInv, Shape
<1>4. Shape' /\ Numbers' /\ SessionFits'
  BY <1>1, <1>2, <1>3 DEF ProvidersInv, Shape, Numbers, SessionFits
<1>5. Connects' /\ ClientFits' /\ LoginIsNoticed' /\ CommandsLock'
  BY <1>1, <1>2, <1>3, NamesAssumption
  DEF ProvidersInv, Connects, ClientFits, LoginIsNoticed, CommandsLock
<1>6. SessionOfItsConnection' /\ SSHConnectionsKept'
  BY <1>1, <1>2, <1>3 DEF ProvidersInv, SessionOfItsConnection, SSHConnectionsKept
<1> QED
  BY <1>4, <1>5, <1>6 DEF ProvidersInv

LEMMA ConnectSSHStep ==
  ASSUME ProvidersInv, NEW t \in Threads, ConnectSSH(t)
  PROVE  ProvidersInv'
<1>1. /\ writer' = NoOne /\ UNCHANGED <<kind, session, readers>>
      /\ kind = "frr" /\ Shape /\ Numbers
  BY DEF ConnectSSH, ProvidersInv, Connects
<1>2. CASE Links(made + 1) /\ ssh' = ssh \cup {made + 1} /\ Notice(t, Connecting, FALSE)
  <2>1. /\ Numbers' /\ link' # 0 /\ link' = made + 1
        /\ link # 0 => clean' = clean /\ link' \notin clean
        /\ link = 0 => clean' = clean \cup {link'}
    BY <1>1, <1>2, LinksNumbers
  <2>2. /\ Shape' /\ call'[t] = Connecting
        /\ \A u \in Threads \ {t} :
             /\ call'[u].at = call[u].at
             /\ call'[u].client = call[u].client /\ call'[u].session = call[u].session
             /\ call[u].at \in {"ask", "asked"} => call'[u].crossed
    BY <1>1, <1>2, ConnectingFields, NoticeSame
  <2>3. Connects' /\ CommandsLock'
    BY <1>1, <1>2, <2>1, <2>2, ConnectingFields DEF ProvidersInv, Connects, CommandsLock
  <2>4. SessionFits'
    BY <1>1, <2>1 DEF ProvidersInv, SessionFits
  <2>5. ClientFits' /\ LoginIsNoticed' /\ SessionOfItsConnection'
    BY <2>2, ConnectingFields DEF ClientFits, LoginIsNoticed, SessionOfItsConnection
  <2>6. SSHConnectionsKept'
    BY <1>1, <1>2, <2>1, <2>2, ConnectingFields
    DEF ProvidersInv, SSHConnectionsKept, Links, Numbers
  <2> QED
    BY <2>1, <2>2, <2>3, <2>4, <2>5, <2>6 DEF ProvidersInv
<1>3. CASE /\ Goes(t, [Connecting EXCEPT !.result = "failed"])
           /\ UNCHANGED <<link, ssh, made, clean, replaced>>
  <2>1. PICK d : Goes(t, d) /\ DOMAIN d = Fields /\ d.session = 0 /\ d.at = "done"
    BY <1>3, ConnectingFields
  <2>2. /\ DOMAIN call' = Threads /\ call'[t] = d
        /\ \A u \in Threads : u # t => call'[u] = call[u]
    BY <1>1, <2>1 DEF Goes, Shape
  <2>3. Shape' /\ Numbers' /\ SessionFits'
    BY <1>1, <1>3, <2>1, <2>2 DEF ProvidersInv, Shape, Numbers, SessionFits
  <2>4. Connects' /\ ClientFits' /\ LoginIsNoticed' /\ CommandsLock'
    BY <1>1, <1>3, <2>1, <2>2 DEF ProvidersInv, Connects, ClientFits, LoginIsNoticed, CommandsLock
  <2>5. SessionOfItsConnection' /\ SSHConnectionsKept'
    BY <1>1, <1>3, <2>1, <2>2 DEF ProvidersInv, SessionOfItsConnection, SSHConnectionsKept
  <2> QED
    BY <2>3, <2>4, <2>5 DEF ProvidersInv
<1> QED
  BY <1>2, <1>3 DEF ConnectSSH

\* Nobody runs a command or logs in while the lock is free.
LEMMA DisconnectStep ==
  ASSUME ProvidersInv, NEW t \in Threads, Disconnect(t)
  PROVE  ProvidersInv'
<1>1. PICK c : Notice(t, c, TRUE) /\ DOMAIN c = Fields /\ c.at = "done" /\ c.session = 0
  BY ConnectingFields DEF Disconnect
<1>2. /\ link' = 0 /\ session' = 0 /\ ssh' = ssh \ {link}
      /\ writer = NoOne /\ readers = {}
      /\ UNCHANGED <<kind, writer, readers, made, clean, replaced>>
  BY DEF Disconnect, Unlocked
<1>3. Shape /\ Numbers
  BY DEF ProvidersInv
<1>4. /\ Shape' /\ call'[t] = c
      /\ \A u \in Threads \ {t} :
           /\ call'[u].at = call[u].at
           /\ call'[u].client = call[u].client /\ call'[u].session = call[u].session
           /\ call[u].at \in {"ask", "asked"} => call'[u].crossed
  BY <1>1, <1>3, NoticeSame
<1>5. /\ \A u \in Threads : call[u].at # "login"
      /\ kind = "frr" => \A u \in Threads : call[u].at # "asked"
  BY <1>2, NamesAssumption DEF ProvidersInv, Connects, CommandsLock
<1>6. Numbers' /\ SessionFits'
  BY <1>2, <1>3 DEF Numbers, SessionFits
<1>7. Connects' /\ CommandsLock'
  BY <1>1, <1>2, <1>4, <1>5 DEF ProvidersInv, Connects, CommandsLock
<1>8. ClientFits' /\ LoginIsNoticed' /\ SessionOfItsConnection'
  BY <1>1, <1>4 DEF ClientFits, LoginIsNoticed, SessionOfItsConnection
<1>9. SSHConnectionsKept'
  BY <1>1, <1>2, <1>4, <1>5 DEF ProvidersInv, SSHConnectionsKept
<1> QED
  BY <1>4, <1>6, <1>7, <1>8, <1>9 DEF ProvidersInv

-----------------------------------------------------------------------------
LEMMA ProvidersInit == Init => ProvidersInv
<1> SUFFICES ASSUME Init PROVE ProvidersInv
  OBVIOUS
<1>1. Shape /\ Numbers /\ \A t \in Threads : call[t] = NoCall
  BY NoCallFields DEF Init, Shape, Numbers
<1>2. Connects /\ SessionFits /\ ClientFits /\ LoginIsNoticed /\ CommandsLock
  BY <1>1, NoCallFields
  DEF Init, Connects, SessionFits, ClientFits, LoginIsNoticed, CommandsLock
<1>3. SessionOfItsConnection /\ SSHConnectionsKept
  BY <1>1, NoCallFields DEF Init, SessionOfItsConnection, SSHConnectionsKept
<1> QED
  BY <1>1, <1>2, <1>3 DEF ProvidersInv

LEMMA ProvidersStutter ==
  ASSUME ProvidersInv, UNCHANGED vars
  PROVE  ProvidersInv'
BY DEF vars, ProvidersInv, Shape, Numbers, Connects, SessionFits, ClientFits, LoginIsNoticed,
       CommandsLock, SessionOfItsConnection, SSHConnectionsKept

LEMMA ProvidersNext == ProvidersInv /\ [Next]_vars => ProvidersInv'
<1> SUFFICES ASSUME ProvidersInv, [Next]_vars PROVE ProvidersInv'
  OBVIOUS
<1>1. CASE UNCHANGED vars
  BY <1>1, ProvidersStutter
<1>2. CASE Next
  <2>1. PICK t \in Threads :
          \/ \E op \in DOMAIN NetworkHandler : StartOperation(t, op)
          \/ NextQuery(t) \/ EndOperation(t)
          \/ GetClient(t) \/ Send(t) \/ AnswerHTTP(t)
          \/ RunVtysh(t) \/ AnswerSSH(t)
          \/ ConnectHTTP(t) \/ Login(t) \/ DialSSH(t) \/ ConnectSSH(t) \/ Disconnect(t)
    BY <1>2 DEF Next
  <2> QED
    BY <2>1, StartOperationStep, NextQueryStep, EndOperationStep, GetClientStep, SendStep,
       AnswerHTTPStep, RunVtyshStep, AnswerSSHStep, ConnectHTTPStep, LoginStep, DialSSHStep,
       ConnectSSHStep, DisconnectStep
<1> QED
  BY <1>1, <1>2

\* The inductive invariant holds in every state of a provider, for any number of
\* goroutines that use, connect and disconnect it.
THEOREM ProvidersInvariance == Spec => []ProvidersInv
BY ProvidersInit, ProvidersNext, PTL DEF Spec

\* A request to OpenWrt carries the session of the connection it goes to, or none,
\* if nobody connected or disconnected in between and the connection was made
\* after a Disconnect: getClient and callUbus read the two at different times.
THEOREM SessionsAreNotMixed == Spec => []SessionOfItsConnection
<1>1. ProvidersInv => SessionOfItsConnection
  BY DEF ProvidersInv
<1> QED
  BY <1>1, ProvidersInvariance, PTL

\* FRR never closes an SSH connection under a running command, and leaves open
\* only the current connection and those a second Connect replaced.
THEOREM CommandsKeepTheirConnection == Spec => []SSHConnectionsKept
<1>1. ProvidersInv => SSHConnectionsKept
  BY DEF ProvidersInv
<1> QED
  BY <1>1, ProvidersInvariance, PTL

-----------------------------------------------------------------------------
(* What the operations of NetworkHandler know, and how they fail *)

Active == {"next", "client", "ask", "asked"}
Busy   == {"client", "ask", "asked"}

\* What is left of the overview of a device, and of that of its services, after
\* each of their queries.
DeviceLeft ==
  << <<Must("system"), May("interfaces", "interfaces"), May("gateways", "routing")>>,
     <<May("interfaces", "interfaces"), May("gateways", "routing")>>,
     <<May("gateways", "routing")>> >>
ServicesLeft ==
  { <<May("dhcp", "dhcp"), May("wireguard", "wireguard"), May("arp", "none")>>,
    <<May("wireguard", "wireguard"), May("arp", "none")>>, <<May("arp", "none")>>, <<>> }

\* The figures and the gateways that are known, and the alarms that came with
\* them; or nothing, because the query was not made or failed.
FiguresFit(k, info, alarms) ==
  \/ info = NoFigures /\ alarms = {}
  \/ \E said \in SystemAnswers : info = Figures(k, said) /\ alarms = FigureAlarms(k, said)
GatewaysFit(k, gateways, alarms) ==
  \/ gateways = <<>> /\ alarms = {}
  \/ \E rows \in GatewayAnswers :
       gateways = Gateways(k, rows) /\ alarms = GatewayAlarms(k, rows)

NothingKnown(c) == c.info = NoFigures /\ c.gateways = <<>> /\ c.said = {}
SystemKnown(k, c)  == FiguresFit(k, c.info, c.said) /\ c.gateways = <<>>
AllKnown(k, c) ==
  \E f \in SUBSET c.said : \E g \in SUBSET c.said :
    FiguresFit(k, c.info, f) /\ GatewaysFit(k, c.gateways, g) /\ c.said = f \cup g

\* The overview of a device asks for the system and for the gateways once each,
\* and takes what it hears from the answer only.
DeviceFits(k, c) ==
  c.op = "device" =>
    /\ c.at \in Active => c.left \in {DeviceLeft[1], DeviceLeft[2], DeviceLeft[3], <<>>}
    /\ c.at \in Busy => c.left # <<>>
    /\ c.at = "next" /\ c.left = DeviceLeft[1] => NothingKnown(c)
    /\ c.at \in Busy /\ c.left = DeviceLeft[1] =>
         \/ c.requests \in {<<"needed">>, <<"needed", "optional">>} /\ NothingKnown(c)
         \/ c.requests = <<"optional">> /\ SystemKnown(k, c)
    /\ c.at \in Active /\ c.left \in {DeviceLeft[2], DeviceLeft[3]} => SystemKnown(k, c)
    /\ c.at \in Busy /\ c.left = DeviceLeft[3] => c.requests = <<"needed">>
    /\ c.at = "next" /\ c.left = <<>> => AllKnown(k, c)
    /\ c.at = "done" /\ c.result = "ok" => AllKnown(k, c)
ServicesFit(c) ==
  c.op = "services" =>
    /\ c.at \in Active => c.left \in ServicesLeft
    /\ c.at \in Busy => c.left # <<>>

\* An operation that finds no client knows that it was cut off; what it reports
\* fits what happened.
CutFits(l, c) == c.at \in Active /\ l = 0 => c.cut
FailureFits(c) ==
  c.at = "done" /\ c.op \in DOMAIN NetworkHandler /\ c.result = "failed" /\ ~c.cut
  => c.lost /\ c.op \notin {"device", "services"}

Sound(k, l, c) ==
  /\ DOMAIN c = Fields /\ c.cut \in BOOLEAN
  /\ DeviceFits(k, c) /\ ServicesFit(c) /\ CutFits(l, c) /\ FailureFits(c)

OperationsInv ==
  /\ kind \in Kinds /\ DOMAIN call = Threads
  /\ \A t \in Threads : Sound(kind, link, call[t])

\* The plans, query by query.
LEMMA ThreeQueries ==
  ASSUME NEW a, NEW b, NEW c
  PROVE  /\ Tail(<<a, b, c>>) = <<b, c>> /\ Tail(<<b, c>>) = <<c>> /\ Tail(<<c>>) = <<>>
         /\ Head(<<a, b, c>>) = a /\ Head(<<b, c>>) = b /\ Head(<<c>>) = c
         /\ <<a, b, c>> # <<b, c>> /\ <<a, b, c>> # <<c>> /\ <<b, c>> # <<c>>
         /\ <<a, b, c>> # <<>> /\ <<b, c>> # <<>> /\ <<c>> # <<>>
<1>1. Tail(<<a, b, c>>) = <<b, c>>
  OBVIOUS
<1>2. Tail(<<b, c>>) = <<c>> /\ Tail(<<c>>) = <<>>
  OBVIOUS
<1>3. Head(<<a, b, c>>) = a /\ Head(<<b, c>>) = b /\ Head(<<c>>) = c
  OBVIOUS
<1>4. Len(<<a, b, c>>) = 3 /\ Len(<<b, c>>) = 2 /\ Len(<<c>>) = 1 /\ Len(<<>>) = 0
  OBVIOUS
<1> QED
  BY <1>1, <1>2, <1>3, <1>4

LEMMA DevicePlan ==
  /\ NetworkHandler["device"].plan = DeviceLeft[1] /\ DeviceLeft[1] # <<>>
  /\ Tail(DeviceLeft[1]) = DeviceLeft[2] /\ Tail(DeviceLeft[2]) = DeviceLeft[3]
  /\ Tail(DeviceLeft[3]) = <<>>
  /\ DeviceLeft[2] # <<>> /\ DeviceLeft[3] # <<>> /\ DeviceLeft[1] # DeviceLeft[2]
  /\ DeviceLeft[1] # DeviceLeft[3] /\ DeviceLeft[2] # DeviceLeft[3]
  /\ Head(DeviceLeft[1]).query = "system" /\ Head(DeviceLeft[2]).query = "interfaces"
  /\ Head(DeviceLeft[3]).query = "gateways"
  /\ ~Head(DeviceLeft[2]).must /\ ~Head(DeviceLeft[3]).must
<1>1. PICK a, b, c : /\ a = Must("system") /\ b = May("interfaces", "interfaces")
                     /\ c = May("gateways", "routing")
  OBVIOUS
<1>2. /\ a.query = "system" /\ b.query = "interfaces" /\ ~b.must
      /\ c.query = "gateways" /\ ~c.must
  BY <1>1 DEF Must, May
<1>3. NetworkHandler["device"].plan = <<a, b, c>>
  BY <1>1 DEF NetworkHandler, GetDeviceOverview, Operation
<1>4. DeviceLeft[1] = <<a, b, c>> /\ DeviceLeft[2] = <<b, c>> /\ DeviceLeft[3] = <<c>>
  BY <1>1 DEF DeviceLeft
<1> QED
  BY <1>2, <1>3, <1>4, ThreeQueries

LEMMA ServicesPlan ==
  /\ NetworkHandler["services"].plan \in ServicesLeft
  /\ \A left \in ServicesLeft : left # <<>> => Tail(left) \in ServicesLeft /\ ~Head(left).must
<1>1. PICK a, b, c : /\ a = May("dhcp", "dhcp") /\ b = May("wireguard", "wireguard")
                     /\ c = May("arp", "none")
  OBVIOUS
<1>2. ~a.must /\ ~b.must /\ ~c.must
  BY <1>1 DEF May
<1>3. NetworkHandler["services"].plan = <<a, b, c>>
  BY <1>1 DEF NetworkHandler, GetServicesOverview, Operation
<1>4. ServicesLeft = {<<a, b, c>>, <<b, c>>, <<c>>, <<>>}
  BY <1>1 DEF ServicesLeft
<1> QED
  BY <1>2, <1>3, <1>4, ThreeQueries

\* The system query never reports a failure, and its second request, of RouterOS,
\* is optional; the gateways are asked for with one request.
LEMMA SystemQuery ==
  ASSUME kind \in Kinds
  PROVE  /\ Query(kind, "system").failure # "error"
         /\ Query(kind, "system").requests \in {<<>>, <<"needed">>, <<"needed", "optional">>}
         /\ Query(kind, "gateways").requests \in {<<>>, <<"needed">>}
<1>1. CASE kind = "opnsense"
  BY <1>1 DEF Query, OPNsense, OPNsenseGetSystemInfo, OPNsenseListGateways, Asks
<1>2. CASE kind = "routeros"
  BY <1>2 DEF Query, RouterOS, RouterOSGetSystemInfo, RouterOSListGateways, RouterOSListRoutes,
              Asks
<1>3. CASE kind = "openwrt"
  BY <1>3 DEF Query, OpenWrt, OpenWrtGetSystemInfo, Nothing, OPNsense, Constant, Asks
<1>4. CASE kind = "frr"
  BY <1>4 DEF Query, FRR, FRRListGateways, FRRListRoutes, Nothing, OPNsense, Constant, Asks
<1>5. CASE kind = "pfsense"
  BY <1>5 DEF Query, PfSense, PfSenseGetSystemInfo, Nothing, OPNsense, Constant, Asks
<1>6. CASE kind = "vyos"
  BY <1>6 DEF Query, VyOS, Nothing, OPNsense, Constant, Asks
<1> QED
  BY <1>1, <1>2, <1>3, <1>4, <1>5, <1>6 DEF Kinds

LEMMA KnownMore ==
  ASSUME NEW c
  PROVE  (NothingKnown(c) => SystemKnown(kind, c)) /\ (SystemKnown(kind, c) => AllKnown(kind, c))
<1>1. {} \in SUBSET c.said /\ c.said \in SUBSET c.said /\ c.said = c.said \cup {}
  OBVIOUS
<1> QED
  BY <1>1 DEF NothingKnown, SystemKnown, AllKnown, FiguresFit, GatewaysFit

\* What an operation knows and has to do depends on these fields only.
Alike(c, d) ==
  /\ DOMAIN d = Fields
  /\ d.op = c.op /\ d.left = c.left /\ d.requests = c.requests
  /\ d.info = c.info /\ d.gateways = c.gateways /\ d.said = c.said
  /\ d.cut = c.cut /\ d.result = c.result /\ d.lost = c.lost

LEMMA MovesSound ==
  ASSUME NEW c, Sound(kind, link, c), NEW d, Alike(c, d), c.at \in Busy, d.at \in Busy
  PROVE  Sound(kind, link, d)
<1>1. d.at \in Active /\ c.at \in Active /\ d.at # "next" /\ d.at # "done"
  BY DEF Active, Busy
<1>2. DeviceFits(kind, d)
  BY <1>1 DEF Sound, Alike, DeviceFits, NothingKnown, SystemKnown
<1> QED
  BY <1>1, <1>2 DEF Sound, Alike, ServicesFit, CutFits, FailureFits

\* A query ended, with what it was for or without.
LEMMA EndQuerySound ==
  ASSUME NEW c, c.op \in {"device", "services"} => c.left # <<>>,
         c.op = "device" => c.left \in {DeviceLeft[1], DeviceLeft[2], DeviceLeft[3], <<>>},
         c.op = "services" => c.left \in ServicesLeft,
         NEW d, DOMAIN d = Fields, d.cut \in BOOLEAN, link = 0 => d.cut,
         d.at = "next", d.op = c.op, d.left = Tail(c.left),
         c.op = "device" /\ c.left \in {DeviceLeft[1], DeviceLeft[2]} => SystemKnown(kind, d),
         c.op = "device" /\ c.left = DeviceLeft[3] => AllKnown(kind, d)
  PROVE  Sound(kind, link, d)
<1>1. d.at \in Active /\ d.at \notin Busy /\ d.at # "done"
  BY DEF Active, Busy
<1>2. DeviceFits(kind, d)
  BY <1>1, DevicePlan DEF DeviceFits
<1>3. ServicesFit(d)
  BY <1>1, ServicesPlan DEF ServicesFit
<1> QED
  BY <1>1, <1>2, <1>3 DEF Sound, CutFits, FailureFits

\* An operation failed.
LEMMA FailedSound ==
  ASSUME NEW d, DOMAIN d = Fields, d.cut \in BOOLEAN, d.at = "done", d.result = "failed",
         d.cut \/ (d.lost /\ d.op \notin {"device", "services"})
  PROVE  Sound(kind, link, d)
BY DEF Sound, DeviceFits, ServicesFit, CutFits, FailureFits, Active, Busy

\* The query of a busy operation ends without an answer; c is as it was, but for
\* the note that a request was lost.
LEMMA FailsSound ==
  ASSUME kind \in Kinds, NEW c, Sound(kind, link, c), c.at \in Busy, NEW failure,
         c.cut \/ (c.lost /\ failure = Query(kind, Head(c.left).query).failure)
  PROVE  Sound(kind, link, Fails(c, failure))
<1>1. c.at \in Active /\ c.at # "next"
  BY DEF Active, Busy
<1>2. /\ DOMAIN c = Fields /\ c.cut \in BOOLEAN /\ (link = 0 => c.cut)
      /\ c.op = "device" => c.left \in {DeviceLeft[1], DeviceLeft[2], DeviceLeft[3], <<>>}
                            /\ c.left # <<>>
      /\ c.op = "services" => c.left \in ServicesLeft /\ c.left # <<>>
  BY <1>1 DEF Sound, DeviceFits, ServicesFit, CutFits
<1>3. CASE failure = "error" /\ Head(c.left).must
  <2> DEFINE d == [c EXCEPT !.at = "done", !.result = "failed"]
  <2>1. /\ Fails(c, failure) = d
        /\ DOMAIN d = Fields /\ d.at = "done" /\ d.result = "failed"
        /\ d.cut = c.cut /\ d.lost = c.lost /\ d.op = c.op
    BY <1>2, <1>3 DEF Fails, Fields
  <2>2. c.op # "services"
    BY <1>2, <1>3, ServicesPlan
  <2>3. c.op = "device" => c.left = DeviceLeft[1] /\ Head(c.left).query = "system"
    BY <1>2, <1>3, DevicePlan
  <2>4. c.cut \/ (c.lost /\ c.op \notin {"device", "services"})
    BY <1>3, <2>2, <2>3, SystemQuery
  <2> HIDE DEF d
  <2> QED
    BY <1>2, <2>1, <2>4, FailedSound
<1>4. CASE ~(failure = "error" /\ Head(c.left).must)
  <2> DEFINE d == [c EXCEPT !.at = "next", !.left = Tail(c.left)]
  <2>1. /\ Fails(c, failure) = d
        /\ DOMAIN d = Fields /\ d.at = "next" /\ d.left = Tail(c.left)
        /\ d.cut = c.cut /\ d.op = c.op
        /\ d.info = c.info /\ d.gateways = c.gateways /\ d.said = c.said
    BY <1>2, <1>4 DEF Fails, Succeeds, Fields
  <2> HIDE DEF d
  <2>2. (SystemKnown(kind, c) => SystemKnown(kind, d)) /\ (AllKnown(kind, c) => AllKnown(kind, d))
    BY <2>1 DEF SystemKnown, AllKnown
  <2>3. c.op = "device" => SystemKnown(kind, c)
    BY <1>1, <1>2, KnownMore DEF Sound, DeviceFits
  <2> QED
    BY <1>2, <2>1, <2>2, <2>3, KnownMore, EndQuerySound
<1> QED
  BY <1>3, <1>4

\* What an operation hears.
LEMMA HeardKnown ==
  ASSUME NEW c, DOMAIN c = Fields, NEW h \in Heard(c)
  PROVE  /\ DOMAIN h = Fields /\ h.op = c.op /\ h.left = c.left /\ h.requests = c.requests
         /\ h.cut = c.cut /\ h.at = c.at /\ h.result = c.result /\ h.lost = c.lost
         /\ Head(c.left).query = "system" /\ NothingKnown(c) => SystemKnown(kind, h)
         /\ Head(c.left).query = "gateways" /\ SystemKnown(kind, c) => AllKnown(kind, h)
         /\ Head(c.left).query \notin {"system", "gateways"} => h = c
<1>1. CASE Head(c.left).query = "system"
  <2> DEFINE heard(x) == [c EXCEPT !.info = Figures(kind, x), !.said = @ \cup FigureAlarms(kind, x)]
  <2>1. PICK said \in SystemAnswers : h = heard(said)
    <3>1. Heard(c) = {heard(x) : x \in SystemAnswers}
      BY <1>1, Zenon DEF Heard
    <3> HIDE DEF heard
    <3> QED
      BY <3>1
  <2>2. /\ DOMAIN h = Fields /\ h.op = c.op /\ h.left = c.left /\ h.requests = c.requests
        /\ h.cut = c.cut /\ h.at = c.at /\ h.result = c.result /\ h.lost = c.lost
        /\ h.info = Figures(kind, said) /\ h.said = c.said \cup FigureAlarms(kind, said)
        /\ h.gateways = c.gateways
    BY <2>1 DEF Fields
  <2> QED
    BY <1>1, <2>2 DEF NothingKnown, SystemKnown, FiguresFit
<1>2. CASE Head(c.left).query = "gateways"
  <2> DEFINE heard(x) == [c EXCEPT !.gateways = Gateways(kind, x),
                                   !.said = @ \cup GatewayAlarms(kind, x)]
  <2>1. PICK rows \in GatewayAnswers : h = heard(rows)
    <3>1. Heard(c) = {heard(x) : x \in GatewayAnswers}
      BY <1>2, Zenon DEF Heard
    <3> HIDE DEF heard
    <3> QED
      BY <3>1
  <2>2. /\ DOMAIN h = Fields /\ h.op = c.op /\ h.left = c.left /\ h.requests = c.requests
        /\ h.cut = c.cut /\ h.at = c.at /\ h.result = c.result /\ h.lost = c.lost
        /\ h.gateways = Gateways(kind, rows) /\ h.said = c.said \cup GatewayAlarms(kind, rows)
        /\ h.info = c.info
    BY <2>1 DEF Fields
  <2>3. SystemKnown(kind, c) => AllKnown(kind, h)
    <3>1. SUFFICES ASSUME SystemKnown(kind, c) PROVE AllKnown(kind, h)
      OBVIOUS
    <3>2. FiguresFit(kind, h.info, c.said) /\ GatewaysFit(kind, h.gateways, GatewayAlarms(kind, rows))
      BY <2>2, <3>1 DEF SystemKnown, GatewaysFit
    <3>3. c.said \in SUBSET h.said /\ GatewayAlarms(kind, rows) \in SUBSET h.said
      BY <2>2
    <3> QED
      BY <2>2, <3>2, <3>3 DEF AllKnown
  <2> QED
    BY <1>2, <2>2, <2>3
<1>3. CASE Head(c.left).query \notin {"system", "gateways"}
  <2>1. Heard(c) = {c}
    BY <1>3, Zenon DEF Heard
  <2> QED
    BY <1>3, <2>1
<1> QED
  BY <1>1, <1>2, <1>3

\* An answer that is taken in, by an operation of which it is known what it does.
LEMMA AnsweredSound ==
  ASSUME NEW c, Sound(kind, link, c), c.at \in Busy, NEW h,
         h = c \/ (h \in Heard(c) /\ (Head(c.requests) # "optional" \/ kind = "frr"))
  PROVE  Sound(kind, link, Answered(h))
<1>1. c.at \in Active /\ c.at # "next"
  BY DEF Active, Busy
<1>2. /\ DOMAIN c = Fields /\ c.cut \in BOOLEAN /\ (link = 0 => c.cut)
      /\ c.op = "device" => c.left \in {DeviceLeft[1], DeviceLeft[2], DeviceLeft[3]}
      /\ c.op = "services" => c.left \in ServicesLeft /\ c.left # <<>>
  BY <1>1 DEF Sound, DeviceFits, ServicesFit, CutFits
<1>3. /\ DOMAIN h = Fields /\ h.op = c.op /\ h.left = c.left /\ h.requests = c.requests
      /\ h.cut = c.cut /\ h.at = c.at /\ h.result = c.result /\ h.lost = c.lost
  BY <1>2, HeardKnown
<1>4. c.op = "device" /\ c.left \in {DeviceLeft[1], DeviceLeft[2]} => SystemKnown(kind, h)
  <2>1. CASE c.op = "device" /\ c.left = DeviceLeft[2]
    BY <1>1, <1>2, <2>1, HeardKnown, DevicePlan DEF Sound, DeviceFits
  <2>2. CASE c.op = "device" /\ c.left = DeviceLeft[1] /\ (h = c \/ NothingKnown(c))
    BY <1>1, <1>2, <2>2, HeardKnown, KnownMore, DevicePlan DEF Sound, DeviceFits
  <2>3. CASE c.op = "device" /\ c.left = DeviceLeft[1] /\ h # c /\ ~NothingKnown(c)
    <3>1. c.requests = <<"optional">> /\ SystemKnown(kind, c)
      BY <1>1, <2>3 DEF Sound, DeviceFits
    <3>2. kind = "frr" /\ h \in Heard(c)
      <4>1. Head(<<"optional">>) = "optional"
        OBVIOUS
      <4> QED
        BY <2>3, <3>1, <4>1
    <3>3. NothingKnown(c)
      BY <3>1, <3>2 DEF SystemKnown, FiguresFit, NothingKnown, Figures, FigureAlarms
    <3> QED
      BY <2>3, <3>3
  <2> QED
    BY <2>1, <2>2, <2>3
<1>5. c.op = "device" /\ c.left = DeviceLeft[3] => AllKnown(kind, h)
  <2>1. c.op = "device" /\ c.left = DeviceLeft[3] => SystemKnown(kind, c)
    BY <1>1 DEF Sound, DeviceFits
  <2> QED
    BY <1>2, <2>1, HeardKnown, KnownMore, DevicePlan
<1>6. CASE Len(h.requests) > 1 /\ h.requests[2] = "optional"
  <2> DEFINE d == [h EXCEPT !.at = "ask", !.requests = Tail(h.requests)]
  <2>1. /\ Answered(h) = d
        /\ DOMAIN d = Fields /\ d.at = "ask" /\ d.requests = Tail(h.requests)
        /\ d.op = h.op /\ d.left = h.left /\ d.cut = h.cut /\ d.info = h.info
        /\ d.gateways = h.gateways /\ d.said = h.said
    BY <1>3, <1>6 DEF Answered, Fields
  <2> HIDE DEF d
  <2>2. d.at \in Active /\ d.at \in Busy /\ d.at # "next" /\ d.at # "done"
    BY <2>1 DEF Active, Busy
  <2>3. c.op = "device" => c.left # DeviceLeft[3]
    <3>1. c.op = "device" /\ c.left = DeviceLeft[3] => c.requests = <<"needed">>
      BY <1>1 DEF Sound, DeviceFits
    <3> QED
      BY <1>3, <1>6, <3>1
  <2>4. c.op = "device" /\ c.left = DeviceLeft[1] => d.requests = <<"optional">>
    <3>1. c.op = "device" /\ c.left = DeviceLeft[1] =>
            c.requests \in {<<"needed">>, <<"needed", "optional">>, <<"optional">>}
      BY <1>1 DEF Sound, DeviceFits
    <3>2. /\ Tail(<<"needed", "optional">>) = <<"optional">>
          /\ Len(<<"needed">>) = 1 /\ Len(<<"optional">>) = 1
      OBVIOUS
    <3>3. c.requests \notin {<<"needed">>, <<"optional">>}
      BY <1>3, <1>6, <3>2
    <3> QED
      BY <1>3, <2>1, <3>1, <3>2, <3>3
  <2>5. SystemKnown(kind, h) => SystemKnown(kind, d)
    BY <2>1 DEF SystemKnown
  <2>6. DeviceFits(kind, d)
    BY <1>2, <1>3, <1>4, <2>1, <2>2, <2>3, <2>4, <2>5, DevicePlan DEF DeviceFits
  <2> QED
    BY <1>2, <1>3, <2>1, <2>2, <2>6 DEF Sound, ServicesFit, CutFits, FailureFits
<1>7. CASE ~(Len(h.requests) > 1 /\ h.requests[2] = "optional")
  <2> DEFINE d == [h EXCEPT !.at = "next", !.left = Tail(h.left)]
  <2>1. /\ Answered(h) = d
        /\ DOMAIN d = Fields /\ d.at = "next" /\ d.left = Tail(h.left)
        /\ d.cut = h.cut /\ d.op = h.op
        /\ d.info = h.info /\ d.gateways = h.gateways /\ d.said = h.said
    BY <1>3, <1>7 DEF Answered, Succeeds, Fields
  <2> HIDE DEF d
  <2>2. (SystemKnown(kind, h) => SystemKnown(kind, d)) /\ (AllKnown(kind, h) => AllKnown(kind, d))
    BY <2>1 DEF SystemKnown, AllKnown
  <2> QED
    BY <1>2, <1>3, <1>4, <1>5, <2>1, <2>2, DevicePlan, EndQuerySound
<1> QED
  BY <1>6, <1>7

\* A request that failed.
LEMMA MissedSound ==
  ASSUME kind \in Kinds, NEW c, Sound(kind, link, c), c.at \in Busy
  PROVE  Sound(kind, link, Missed(c))
<1> DEFINE lost == [c EXCEPT !.lost = TRUE]
<1>1. c.at \in Active /\ c.at # "next"
  BY DEF Active, Busy
<1>2. /\ DOMAIN c = Fields /\ c.cut \in BOOLEAN /\ (link = 0 => c.cut)
      /\ c.op = "device" => c.left \in {DeviceLeft[1], DeviceLeft[2], DeviceLeft[3]}
      /\ c.op = "services" => c.left \in ServicesLeft /\ c.left # <<>>
  BY <1>1 DEF Sound, DeviceFits, ServicesFit, CutFits
<1>3. /\ DOMAIN lost = Fields /\ lost.at = c.at /\ lost.lost
      /\ lost.op = c.op /\ lost.left = c.left /\ lost.requests = c.requests
      /\ lost.info = c.info /\ lost.gateways = c.gateways /\ lost.said = c.said
      /\ lost.cut = c.cut /\ lost.result = c.result
  BY <1>2 DEF Fields
<1> HIDE DEF lost
<1>4. (NothingKnown(c) => NothingKnown(lost)) /\ (SystemKnown(kind, c) => SystemKnown(kind, lost))
      /\ (SystemKnown(kind, lost) => AllKnown(kind, lost))
  BY <1>3, KnownMore DEF NothingKnown, SystemKnown
<1>5. Sound(kind, link, lost)
  <2>1. DeviceFits(kind, lost)
    BY <1>1, <1>3, <1>4 DEF Sound, DeviceFits, Busy
  <2> QED
    BY <1>1, <1>2, <1>3, <2>1 DEF Sound, ServicesFit, CutFits, FailureFits, Busy
<1>6. c.op = "device" => SystemKnown(kind, lost)
  BY <1>1, <1>2, <1>4, KnownMore DEF Sound, DeviceFits
<1>7. CASE Missed(c) = Succeeds(lost)
  <2> DEFINE d == [lost EXCEPT !.at = "next", !.left = Tail(lost.left)]
  <2>2. /\ Missed(c) = d
        /\ DOMAIN d = Fields /\ d.at = "next" /\ d.left = Tail(c.left)
        /\ d.cut = lost.cut /\ d.op = lost.op
        /\ d.info = lost.info /\ d.gateways = lost.gateways /\ d.said = lost.said
    BY <1>3, <1>7 DEF Succeeds, Fields
  <2> HIDE DEF d
  <2>3. c.op = "device" => SystemKnown(kind, d) /\ AllKnown(kind, d)
    BY <1>6, <2>2, KnownMore DEF SystemKnown
  <2> QED
    BY <1>2, <1>3, <2>2, <2>3, DevicePlan, EndQuerySound
<1>8. CASE /\ Missed(c) = [lost EXCEPT !.at = "ask", !.requests = Tail(c.requests)]
           /\ Len(c.requests) > 1 /\ c.requests[2] = "fallback"
  <2> DEFINE d == [lost EXCEPT !.at = "ask", !.requests = Tail(c.requests)]
  <2>1. /\ Missed(c) = d
        /\ DOMAIN d = Fields /\ d.at = "ask"
        /\ d.op = lost.op /\ d.left = lost.left /\ d.cut = lost.cut /\ d.info = lost.info
        /\ d.gateways = lost.gateways /\ d.said = lost.said
    BY <1>3, <1>8 DEF Fields
  <2> HIDE DEF d
  <2>2. d.at \in Active /\ d.at \in Busy /\ d.at # "next" /\ d.at # "done"
    BY <2>1 DEF Active, Busy
  <2>3. c.op = "device" => c.left = DeviceLeft[2]
    <3>1. c.op = "device" /\ c.left # DeviceLeft[2] =>
            c.requests \in {<<"needed">>, <<"needed", "optional">>, <<"optional">>}
      BY <1>1, <1>2 DEF Sound, DeviceFits
    <3> QED
      BY <1>8, <3>1
  <2>4. c.op = "device" => SystemKnown(kind, d)
    BY <1>6, <2>1 DEF SystemKnown
  <2>5. DeviceFits(kind, d)
    BY <1>3, <2>1, <2>2, <2>3, <2>4, DevicePlan DEF DeviceFits
  <2> QED
    BY <1>2, <1>3, <2>1, <2>2, <2>5 DEF Sound, ServicesFit, CutFits, FailureFits
<1>9. CASE Missed(c) = Fails(lost, Query(kind, Head(c.left).query).failure)
  BY <1>3, <1>5, <1>9, FailsSound
<1>10. \/ Missed(c) = Succeeds(lost)
       \/ /\ Missed(c) = [lost EXCEPT !.at = "ask", !.requests = Tail(c.requests)]
          /\ Len(c.requests) > 1 /\ c.requests[2] = "fallback"
       \/ Missed(c) = Fails(lost, Query(kind, Head(c.left).query).failure)
  BY DEF Missed, lost
<1> QED
  BY <1>7, <1>8, <1>9, <1>10

-----------------------------------------------------------------------------
(* Every step leaves every operation sound *)

LEMMA SoundStep ==
  ASSUME OperationsInv, NEW t \in Threads, NEW d, Goes(t, d), Sound(kind, link, d), UNCHANGED <<kind, link>>
  PROVE  OperationsInv'
<1>1. DOMAIN call' = Threads /\ call'[t] = d /\ \A u \in Threads : u # t => call'[u] = call[u]
  BY DEF Goes, OperationsInv
<1>2. kind' = kind /\ link' = link
  OBVIOUS
<1> QED
  BY <1>1, <1>2 DEF OperationsInv

LEMMA StartOperationSound ==
  ASSUME OperationsInv, NEW t \in Threads, NEW op \in DOMAIN NetworkHandler, StartOperation(t, op)
  PROVE  OperationsInv'
<1>1. PICK cut : cut = (link = 0) /\ cut \in BOOLEAN
  OBVIOUS
<1> DEFINE planned == [NoCall EXCEPT !.op = op, !.cut = link = 0,
                                     !.at = "next", !.left = NetworkHandler[op].plan]
           ended(r) == [NoCall EXCEPT !.op = op, !.cut = link = 0, !.result = r]
<1>2. /\ DOMAIN NoCall = Fields /\ NothingKnown(NoCall) /\ NoCall.at = "done"
      /\ NoCall.result = "none"
  BY DEF NoCall, Fields, NothingKnown
<1>3. /\ DOMAIN planned = Fields /\ planned.at = "next" /\ planned.op = op
      /\ planned.left = NetworkHandler[op].plan /\ planned.cut = (link = 0)
      /\ planned.info = NoCall.info /\ planned.gateways = NoCall.gateways
      /\ planned.said = NoCall.said
  BY <1>2 DEF Fields
<1>4. \A r : /\ DOMAIN ended(r) = Fields /\ ended(r).at = "done" /\ ended(r).result = r
             /\ ended(r).cut = (link = 0)
  BY <1>2 DEF Fields
<1>5. UNCHANGED <<kind, link>>
  BY DEF StartOperation, provider
<1>6. Goes(t, planned) \/ Goes(t, ended("unsupported")) \/ Goes(t, ended("refused"))
  BY DEF StartOperation
<1> HIDE DEF planned, ended
<1>7. Sound(kind, link, planned)
  <2>1. NothingKnown(planned) /\ planned.at \in Active /\ planned.at \notin Busy
    BY <1>2, <1>3 DEF NothingKnown, Active, Busy
  <2>2. DeviceFits(kind, planned)
    BY <1>3, <2>1, DevicePlan DEF DeviceFits
  <2>3. ServicesFit(planned)
    BY <1>3, <2>1, ServicesPlan DEF ServicesFit
  <2> QED
    BY <1>1, <1>3, <2>2, <2>3 DEF Sound, CutFits, FailureFits
<1>8. \A r : r \notin {"ok", "failed"} => Sound(kind, link, ended(r))
  BY <1>1, <1>4 DEF Sound, DeviceFits, ServicesFit, CutFits, FailureFits, Active, Busy
<1> QED
  BY <1>5, <1>6, <1>7, <1>8, SoundStep

LEMMA NextQuerySound ==
  ASSUME OperationsInv, NEW t \in Threads, NextQuery(t)
  PROVE  OperationsInv'
<1>1. PICK c : c = call[t] /\ Sound(kind, link, c)
  BY DEF OperationsInv
<1>2. c.at = "next" /\ c.left # <<>> /\ UNCHANGED <<kind, link>>
  BY <1>1 DEF NextQuery, provider
<1>3. c.at \in Active /\ c.at \notin Busy
  BY <1>2 DEF Active, Busy
<1>4. /\ DOMAIN c = Fields /\ c.cut \in BOOLEAN /\ (link = 0 => c.cut)
      /\ c.op = "device" => c.left \in {DeviceLeft[1], DeviceLeft[2], DeviceLeft[3]}
      /\ c.op = "services" => c.left \in ServicesLeft
      /\ c.op = "device" => SystemKnown(kind, c)
      /\ c.op = "device" /\ c.left = DeviceLeft[1] => NothingKnown(c)
  <2>1. /\ DOMAIN c = Fields /\ c.cut \in BOOLEAN /\ (link = 0 => c.cut)
        /\ c.op = "services" => c.left \in ServicesLeft
    BY <1>1, <1>3 DEF Sound, ServicesFit, CutFits
  <2>2. c.op = "device" => /\ c.left \in {DeviceLeft[1], DeviceLeft[2], DeviceLeft[3]}
                           /\ c.left = DeviceLeft[1] => NothingKnown(c)
                           /\ c.left # DeviceLeft[1] => SystemKnown(kind, c)
    BY <1>1, <1>2, <1>3 DEF Sound, DeviceFits
  <2> QED
    BY <2>1, <2>2, KnownMore
<1> DEFINE asking(x) == [c EXCEPT !.at = "client", !.requests = x]
<1>5. CASE Goes(t, [c EXCEPT !.left = Tail(c.left)])
  <2> DEFINE d == [c EXCEPT !.left = Tail(c.left)]
  <2>1. /\ DOMAIN d = Fields /\ d.at = "next" /\ d.left = Tail(c.left)
        /\ d.cut = c.cut /\ d.op = c.op
        /\ d.info = c.info /\ d.gateways = c.gateways /\ d.said = c.said
    BY <1>2, <1>4 DEF Fields
  <2> HIDE DEF d
  <2>2. c.op = "device" => SystemKnown(kind, d) /\ AllKnown(kind, d)
    BY <1>4, <2>1, KnownMore DEF SystemKnown
  <2>3. Sound(kind, link, d)
    BY <1>2, <1>4, <2>1, <2>2, DevicePlan, EndQuerySound
  <2> QED
    BY <1>2, <1>5, <2>3, SoundStep DEF d
<1>6. CASE \E requests : /\ Goes(t, asking(requests)) /\ requests # <<>>
                         /\ requests = Query(kind, Head(c.left).query).requests
  <2> HIDE DEF asking
  <2>1. PICK requests : /\ Goes(t, asking(requests)) /\ requests # <<>>
                        /\ requests = Query(kind, Head(c.left).query).requests
    BY <1>6
  <2> DEFINE d == asking(requests)
  <2>2. /\ DOMAIN d = Fields /\ d.at = "client" /\ d.left = c.left /\ d.requests = requests
        /\ d.cut = c.cut /\ d.op = c.op
        /\ d.info = c.info /\ d.gateways = c.gateways /\ d.said = c.said
    BY <1>4 DEF Fields, asking
  <2> HIDE DEF d
  <2>3. (SystemKnown(kind, c) => SystemKnown(kind, d)) /\ (NothingKnown(c) => NothingKnown(d))
    BY <2>2 DEF SystemKnown, NothingKnown
  <2>4. d.at \in Active /\ d.at # "next" /\ d.at # "done"
    BY <2>2 DEF Active
  <2>5. kind \in Kinds
    BY DEF OperationsInv
  <2>6. c.op = "device" /\ c.left = DeviceLeft[1] =>
          requests \in {<<"needed">>, <<"needed", "optional">>}
    BY <2>1, <2>5, DevicePlan, SystemQuery
  <2>7. c.op = "device" /\ c.left = DeviceLeft[3] => requests = <<"needed">>
    BY <2>1, <2>5, DevicePlan, SystemQuery
  <2>8. DeviceFits(kind, d)
    BY <1>2, <1>4, <2>2, <2>3, <2>4, <2>6, <2>7, DevicePlan DEF DeviceFits
  <2>9. Sound(kind, link, d)
    BY <1>2, <1>4, <2>2, <2>4, <2>8 DEF Sound, ServicesFit, CutFits, FailureFits
  <2> QED
    BY <1>2, <2>1, <2>9, SoundStep DEF d
<1>7. \/ Goes(t, [c EXCEPT !.left = Tail(c.left)])
      \/ \E requests : /\ Goes(t, asking(requests)) /\ requests # <<>>
                       /\ requests = Query(kind, Head(c.left).query).requests
  <2>1. PICK requests : /\ Goes(t, IF requests = <<>> THEN [c EXCEPT !.left = Tail(c.left)]
                                   ELSE asking(requests))
                        /\ requests = <<>> \/ requests = Query(kind, Head(c.left).query).requests
    BY <1>1, Zenon DEF NextQuery
  <2> HIDE DEF asking
  <2> QED
    BY <2>1
<1> HIDE DEF asking
<1> QED
  BY <1>5, <1>6, <1>7

LEMMA EndOperationSound ==
  ASSUME OperationsInv, NEW t \in Threads, EndOperation(t)
  PROVE  OperationsInv'
<1>1. PICK c : c = call[t] /\ Sound(kind, link, c)
  BY DEF OperationsInv
<1> DEFINE d == [c EXCEPT !.at = "done", !.result = "ok"]
<1>2. Goes(t, d) /\ c.at = "next" /\ c.left = <<>> /\ UNCHANGED <<kind, link>>
  BY <1>1 DEF EndOperation, provider
<1>3. /\ DOMAIN d = Fields /\ d.at = "done" /\ d.result = "ok" /\ d.op = c.op /\ d.cut = c.cut
      /\ d.info = c.info /\ d.gateways = c.gateways /\ d.said = c.said
      /\ DOMAIN c = Fields /\ c.cut \in BOOLEAN
  BY <1>1 DEF Sound, Fields
<1> HIDE DEF d
<1>4. c.op = "device" => AllKnown(kind, c)
  BY <1>1, <1>2 DEF Sound, DeviceFits
<1>5. c.op = "device" => AllKnown(kind, d)
  BY <1>3, <1>4 DEF AllKnown
<1>6. d.at \notin Active /\ d.at \notin Busy /\ d.at # "next"
  BY <1>3 DEF Active, Busy
<1>7. Sound(kind, link, d)
  BY <1>3, <1>5, <1>6 DEF Sound, DeviceFits, ServicesFit, CutFits, FailureFits
<1> QED
  BY <1>2, <1>7, SoundStep

\* A query that starts to ask or finds no client.
LEMMA ClientSound ==
  ASSUME OperationsInv, NEW t \in Threads, call[t].at = "client", UNCHANGED <<kind, link>>,
         NEW d,
         \/ link = 0 /\ \E failure : d = Fails(call[t], failure)
         \/ Alike(call[t], d) /\ d.at \in Busy,
         Goes(t, d)
  PROVE  OperationsInv'
<1>1. PICK c : c = call[t] /\ Sound(kind, link, c) /\ kind \in Kinds
  BY DEF OperationsInv
<1>2. c.at \in Busy /\ c.at \in Active
  BY <1>1 DEF Busy, Active
<1>3. CASE link = 0 /\ \E failure : d = Fails(c, failure)
  <2>1. c.cut
    BY <1>1, <1>2, <1>3 DEF Sound, CutFits
  <2>2. Sound(kind, link, d)
    BY <1>1, <1>2, <1>3, <2>1, FailsSound
  <2> QED
    BY <2>2, SoundStep
<1>4. CASE Alike(c, d) /\ d.at \in Busy
  <2>1. Sound(kind, link, d)
    BY <1>1, <1>2, <1>4, MovesSound
  <2> QED
    BY <2>1, SoundStep
<1> QED
  BY <1>1, <1>3, <1>4

LEMMA GetClientSound ==
  ASSUME OperationsInv, NEW t \in Threads, GetClient(t)
  PROVE  OperationsInv'
<1>1. PICK c : c = call[t] /\ DOMAIN c = Fields
  BY DEF OperationsInv, Sound
<1> DEFINE asking == [c EXCEPT !.at = "ask", !.client = link, !.crossed = FALSE]
<1>2. Alike(c, asking) /\ asking.at \in Busy
  BY <1>1 DEF Alike, Fields, Busy
<1>3. \/ link = 0 /\ \E failure : Goes(t, Fails(c, failure))
      \/ Goes(t, asking)
  BY <1>1 DEF GetClient
<1>4. c.at = "client" /\ UNCHANGED <<kind, link>>
  BY <1>1 DEF GetClient, provider
<1> HIDE DEF asking
<1> QED
  BY <1>1, <1>2, <1>3, <1>4, ClientSound

LEMMA SendSound ==
  ASSUME OperationsInv, NEW t \in Threads, Send(t)
  PROVE  OperationsInv'
<1>1. PICK c : c = call[t] /\ Sound(kind, link, c) /\ DOMAIN c = Fields
  BY DEF OperationsInv, Sound
<1>2. PICK s : Goes(t, [c EXCEPT !.at = "asked", !.session = s])
  BY <1>1, Zenon DEF Send
<1> DEFINE d == [c EXCEPT !.at = "asked", !.session = s]
<1>3. c.at \in Busy /\ UNCHANGED <<kind, link>>
  BY <1>1 DEF Send, Busy, provider
<1>4. Alike(c, d) /\ d.at \in Busy
  BY <1>1 DEF Alike, Fields, Busy
<1>5. Goes(t, d)
  BY <1>2
<1> HIDE DEF d
<1>6. Sound(kind, link, d)
  BY <1>1, <1>3, <1>4, MovesSound
<1> QED
  BY <1>3, <1>5, <1>6, SoundStep

LEMMA RunVtyshSound ==
  ASSUME OperationsInv, NEW t \in Threads, RunVtysh(t)
  PROVE  OperationsInv'
<1>1. PICK c : c = call[t] /\ DOMAIN c = Fields
  BY DEF OperationsInv, Sound
<1> DEFINE asking == [c EXCEPT !.at = "asked", !.client = link]
<1>2. Alike(c, asking) /\ asking.at \in Busy
  BY <1>1 DEF Alike, Fields, Busy
<1>3. \/ link = 0 /\ \E failure : Goes(t, Fails(c, failure))
      \/ Goes(t, asking)
  BY <1>1 DEF RunVtysh
<1>4. c.at = "client" /\ UNCHANGED <<kind, link>>
  BY <1>1 DEF RunVtysh
<1> HIDE DEF asking
<1> QED
  BY <1>1, <1>2, <1>3, <1>4, ClientSound

LEMMA AnswerHTTPSound ==
  ASSUME OperationsInv, NEW t \in Threads, AnswerHTTP(t)
  PROVE  OperationsInv'
<1>1. PICK c : c = call[t] /\ Sound(kind, link, c) /\ kind \in Kinds
  BY DEF OperationsInv
<1>2. c.at \in Busy /\ UNCHANGED <<kind, link>>
  BY <1>1 DEF AnswerHTTP, Busy, provider
<1>3. \/ Goes(t, Missed(c))
      \/ \E h : /\ Goes(t, Answered(h))
                /\ h = c \/ (h \in Heard(c) /\ Head(c.requests) # "optional")
  BY <1>1 DEF AnswerHTTP
<1>4. PICK d : Goes(t, d) /\ Sound(kind, link, d)
  BY <1>1, <1>2, <1>3, MissedSound, AnsweredSound
<1> QED
  BY <1>2, <1>4, SoundStep

LEMMA AnswerSSHSound ==
  ASSUME OperationsInv, NEW t \in Threads, AnswerSSH(t)
  PROVE  OperationsInv'
<1>1. PICK c : c = call[t] /\ Sound(kind, link, c) /\ kind \in Kinds
  BY DEF OperationsInv
<1>2. c.at \in Busy /\ UNCHANGED <<kind, link>> /\ kind = "frr"
  BY <1>1 DEF AnswerSSH, Busy
<1>3. Goes(t, Missed(c)) \/ \E h \in Heard(c) : Goes(t, Answered(h))
  BY <1>1 DEF AnswerSSH
<1>4. PICK d : Goes(t, d) /\ Sound(kind, link, d)
  BY <1>1, <1>2, <1>3, MissedSound, AnsweredSound
<1> QED
  BY <1>2, <1>4, SoundStep

\* A goroutine that connects or disconnects runs none of these operations.
Outside(c) ==
  /\ DOMAIN c = Fields /\ c.cut \in BOOLEAN /\ c.at \notin Active
  /\ c.op \notin DOMAIN NetworkHandler \cup {"device", "services"}

LEMMA OutsideSound ==
  ASSUME NEW c, Outside(c), NEW k, NEW l
  PROVE  Sound(k, l, c)
BY DEF Outside, Sound, DeviceFits, ServicesFit, CutFits, FailureFits, Active, Busy

LEMMA ConnectingOutside ==
  /\ Outside(Connecting)
  /\ Outside([Connecting EXCEPT !.at = "login"])
  /\ Outside([Connecting EXCEPT !.at = "dial"])
  /\ Outside([Connecting EXCEPT !.result = "failed"])
  /\ Outside([NoCall EXCEPT !.op = "disconnect"])
<1>1. PICK n : n = NoCall /\ DOMAIN n = Fields /\ n.at = "done" /\ n.cut = FALSE
  <2>1. DOMAIN NoCall = Fields /\ NoCall.at = "done" /\ NoCall.cut = FALSE
    BY DEF NoCall, Fields
  <2> QED
    BY <2>1
<1>2. {"connect", "disconnect"} \cap (DOMAIN NetworkHandler \cup {"device", "services"}) = {}
  BY DEF NetworkHandler
<1>3. "done" \notin Active /\ "login" \notin Active /\ "dial" \notin Active
  BY DEF Active
<1>4. PICK c : /\ c = Connecting /\ DOMAIN c = Fields /\ c.at = "done" /\ c.cut = FALSE
               /\ c.op = "connect"
  <2>1. Connecting = [n EXCEPT !.op = "connect"]
    BY <1>1 DEF Connecting
  <2> QED
    BY <1>1, <2>1 DEF Fields
<1>5. Outside(c) /\ Outside([c EXCEPT !.at = "login"]) /\ Outside([c EXCEPT !.at = "dial"])
  BY <1>2, <1>3, <1>4 DEF Outside, Fields
<1>6. Outside([c EXCEPT !.result = "failed"])
  BY <1>2, <1>3, <1>4 DEF Outside, Fields
<1>7. Outside([n EXCEPT !.op = "disconnect"])
  BY <1>1, <1>2, <1>3 DEF Outside, Fields
<1> QED
  BY <1>1, <1>4, <1>5, <1>6, <1>7

\* A Connect or a Disconnect of one goroutine, of which the others hear: those
\* that are under way know that there was no client.
LEMMA NoticeSound ==
  ASSUME OperationsInv, NEW t \in Threads, NEW c, NEW lostClient \in BOOLEAN,
         Notice(t, c, lostClient), kind' = kind, lostClient \/ link' # 0,
         Outside(c)
  PROVE  OperationsInv'
<1> DEFINE new(u) == [call[u] EXCEPT !.crossed = @ \/ call[u].at \in {"ask", "asked"},
                                     !.cut = @ \/ lostClient]
<1>1. DOMAIN call' = Threads /\ call'[t] = c /\ \A u \in Threads \ {t} : call'[u] = new(u)
  BY Zenon DEF Notice
<1>2. Sound(kind', link', c)
  BY OutsideSound
<1>3. ASSUME NEW u \in Threads
      PROVE  Sound(kind', link', new(u))
  <2>1. PICK d : d = call[u] /\ Sound(kind, link, d)
    BY DEF OperationsInv
  <2>2. PICK n : n = new(u)
    OBVIOUS
  <2>3. /\ DOMAIN n = Fields
        /\ n.op = d.op /\ n.at = d.at /\ n.left = d.left /\ n.requests = d.requests
        /\ n.info = d.info /\ n.gateways = d.gateways /\ n.said = d.said
        /\ n.result = d.result /\ n.lost = d.lost
        /\ n.cut = (d.cut \/ lostClient)
    BY <2>1, <2>2 DEF Sound, Fields
  <2>4. /\ NothingKnown(d) => NothingKnown(n)
        /\ SystemKnown(kind, d) => SystemKnown(kind, n)
        /\ AllKnown(kind, d) => AllKnown(kind, n)
    BY <2>3 DEF NothingKnown, SystemKnown, AllKnown
  <2>5. DeviceFits(kind, n)
    BY <2>1, <2>3, <2>4 DEF Sound, DeviceFits
  <2>6. ServicesFit(n) /\ CutFits(link', n) /\ FailureFits(n) /\ n.cut \in BOOLEAN
    BY <2>1, <2>3 DEF Sound, ServicesFit, CutFits, FailureFits
  <2>7. Sound(kind', link', n)
    BY <2>3, <2>5, <2>6 DEF Sound
  <2> QED
    BY <2>2, <2>7
<1> HIDE DEF new
<1> QED
  BY <1>1, <1>2, <1>3 DEF OperationsInv


LEMMA ConnectsSound ==
  ASSUME OperationsInv, Numbers, NEW t \in Threads,
         \/ ConnectHTTP(t) \/ Login(t) \/ DialSSH(t) \/ ConnectSSH(t) \/ Disconnect(t)
  PROVE  OperationsInv'
<1>1. CASE ConnectHTTP(t)
  <2>1. PICK c : Notice(t, c, FALSE) /\ Outside(c)
    BY <1>1, ConnectingOutside DEF ConnectHTTP
  <2>2. kind' = kind /\ link' # 0
    BY <1>1 DEF ConnectHTTP, Links, Numbers
  <2> QED
    BY <2>1, <2>2, NoticeSound
<1>2. CASE Login(t)
  BY <1>2, ConnectingOutside, OutsideSound, SoundStep DEF Login
<1>3. CASE DialSSH(t)
  <2>1. PICK c : Goes(t, c) /\ Outside(c)
    BY <1>3, ConnectingOutside DEF DialSSH
  <2>2. UNCHANGED <<kind, link>>
    BY <1>3 DEF DialSSH
  <2> QED
    BY <2>1, <2>2, OutsideSound, SoundStep
<1>4. CASE ConnectSSH(t)
  <2>1. CASE Links(made + 1) /\ Notice(t, Connecting, FALSE)
    <3>1. kind' = kind /\ link' # 0
      BY <1>4, <2>1 DEF ConnectSSH, Links, Numbers
    <3> QED
      BY <2>1, <3>1, ConnectingOutside, NoticeSound
  <2>2. CASE Goes(t, [Connecting EXCEPT !.result = "failed"]) /\ UNCHANGED link
    <3>1. kind' = kind
      BY <1>4 DEF ConnectSSH
    <3> QED
      BY <2>2, <3>1, ConnectingOutside, OutsideSound, SoundStep
  <2> QED
    BY <1>4, <2>1, <2>2 DEF ConnectSSH
<1>5. CASE Disconnect(t)
  BY <1>5, ConnectingOutside, NoticeSound DEF Disconnect
<1> QED
  BY <1>1, <1>2, <1>3, <1>4, <1>5

LEMMA OperationsInit == Init => OperationsInv
<1> SUFFICES ASSUME Init PROVE OperationsInv
  OBVIOUS
<1>1. /\ DOMAIN NoCall = Fields /\ NoCall.cut = FALSE /\ NoCall.at = "done" /\ NoCall.op = "none"
      /\ NoCall.result = "none"
  BY DEF NoCall, Fields
<1>2. Sound(kind, link, NoCall)
  BY <1>1 DEF Sound, DeviceFits, ServicesFit, CutFits, FailureFits, Active, Busy
<1> QED
  BY <1>2 DEF Init, OperationsInv

LEMMA OperationsNext == OperationsInv /\ ProvidersInv /\ [Next]_vars => OperationsInv'
<1> SUFFICES ASSUME OperationsInv, ProvidersInv, [Next]_vars PROVE OperationsInv'
  OBVIOUS
<1>1. CASE UNCHANGED vars
  BY <1>1 DEF vars, OperationsInv
<1>2. CASE Next
  <2>1. PICK t \in Threads :
          \/ \E op \in DOMAIN NetworkHandler : StartOperation(t, op)
          \/ NextQuery(t) \/ EndOperation(t)
          \/ GetClient(t) \/ Send(t) \/ AnswerHTTP(t)
          \/ RunVtysh(t) \/ AnswerSSH(t)
          \/ ConnectHTTP(t) \/ Login(t) \/ DialSSH(t) \/ ConnectSSH(t) \/ Disconnect(t)
    BY <1>2 DEF Next
  <2>2. Numbers
    BY DEF ProvidersInv
  <2> QED
    BY <2>1, <2>2, StartOperationSound, NextQuerySound, EndOperationSound, GetClientSound,
       SendSound, AnswerHTTPSound, RunVtyshSound, AnswerSSHSound, ConnectsSound
<1> QED
  BY <1>1, <1>2

\* What an operation knows, has still to do and reports fits what the device
\* answered and whether there was a client, in every state.
THEOREM OperationsInvariance == Spec => []OperationsInv
BY OperationsInit, OperationsNext, ProvidersInvariance, PTL DEF Spec

\* An operation of a provider that stays connected fails only after a request
\* failed, and the overviews of the device and of its services do not even then.
THEOREM OverviewsSucceed == Spec => []ConnectedOverviewsSucceed
<1>1. OperationsInv => ConnectedOverviewsSucceed
  BY DEF OperationsInv, Sound, FailureFits, ConnectedOverviewsSucceed
<1> QED
  BY <1>1, OperationsInvariance, PTL

-----------------------------------------------------------------------------
(* The score of a device, against the alarms it gave *)

\* A set has two elements or more just if two can be told apart in it.
LEMMA TwoElements ==
  ASSUME NEW S, IsFiniteSet(S)
  PROVE  /\ Cardinality(S) \in Nat
         /\ Cardinality(S) > 0 => \E x \in S : TRUE
         /\ Cardinality(S) > 1 => \E x, y \in S : x # y
         /\ \A x, y \in S : x # y => Cardinality(S) > 1
<1>1. Cardinality(S) \in Nat /\ (Cardinality(S) = 0 <=> S = {})
  BY FS_CardinalityType, FS_EmptySet
<1>2. \A x \in S : /\ IsFiniteSet(S \ {x}) /\ Cardinality(S \ {x}) = Cardinality(S) - 1
                   /\ Cardinality(S \ {x}) \in Nat
                   /\ (Cardinality(S \ {x}) = 0 <=> S \ {x} = {})
  BY FS_RemoveElement, FS_CardinalityType, FS_EmptySet
<1>3. ASSUME Cardinality(S) > 1 PROVE \E x, y \in S : x # y
  <2>1. PICK x \in S : TRUE
    BY <1>1, <1>3
  <2>2. Cardinality(S \ {x}) # 0
    BY <1>1, <1>2, <1>3
  <2>3. PICK y \in S \ {x} : TRUE
    BY <1>2, <2>2
  <2> QED
    BY <2>3
<1>4. ASSUME NEW x \in S, NEW y \in S, x # y PROVE Cardinality(S) > 1
  <2>1. y \in S \ {x}
    BY <1>4
  <2>2. Cardinality(S \ {x}) # 0 /\ Cardinality(S \ {x}) \in Nat
    BY <1>2, <2>1
  <2>3. Cardinality(S \ {x}) = Cardinality(S) - 1
    BY <1>2
  <2> QED
    BY <1>1, <2>2, <2>3
<1> QED
  BY <1>1, <1>3, <1>4

\* What the figures cost, and what they say.
CpuLoss(info) == IF info.cpu > 90 THEN 30 ELSE IF info.cpu > 75 THEN 15 ELSE 0
MemoryLoss(info) ==
  IF info.used * 100 > 90 * info.total THEN 30
  ELSE IF info.used * 100 > 75 * info.total THEN 15 ELSE 0
CpuAlarm(k, said)    == k = "routeros" /\ said.cpu > 90
MemoryAlarm(k, said) == k \in {"routeros", "openwrt"} /\ said.free * 10 < said.total

LEMMA FigureLoss ==
  ASSUME NEW k, NEW said \in SystemAnswers
  PROVE  /\ CpuLoss(Figures(k, said)) \in {0, 15, 30}
         /\ MemoryLoss(Figures(k, said)) \in {0, 15, 30}
         /\ CpuAlarm(k, said) <=> CpuLoss(Figures(k, said)) = 30
         /\ MemoryAlarm(k, said) <=> MemoryLoss(Figures(k, said)) = 30
         /\ k \notin {"routeros", "openwrt"} =>
              CpuLoss(Figures(k, said)) = 0 /\ MemoryLoss(Figures(k, said)) = 0
<1> DEFINE cpu == said.cpu  total == said.total  free == said.free
           used == IF total > free THEN total - free ELSE 0
<1>1. cpu \in Nat /\ total \in Nat /\ free \in Nat
  BY AnswersAssumption
<1>2. used \in Nat /\ (used * 100 > 90 * total <=> free * 10 < total)
  <2>1. CASE total > free
    BY <1>1, <2>1
  <2>2. CASE ~(total > free)
    BY <1>1, <2>2
  <2> QED
    BY <2>1, <2>2
<1> DEFINE info == Figures(k, said)
<1>3. CASE k = "routeros"
  <2>1. info.cpu = cpu /\ info.total = total /\ info.used = used
    BY <1>3 DEF Figures
  <2> HIDE DEF info, used, cpu, total, free
  <2> QED
    BY <1>1, <1>2, <1>3, <2>1 DEF CpuLoss, MemoryLoss, CpuAlarm, MemoryAlarm, info, cpu, total, free
<1>4. CASE k = "openwrt"
  <2>1. info.cpu = 0 /\ info.total = total /\ info.used = used
    BY <1>4 DEF Figures
  <2> HIDE DEF info, used, total, free
  <2> QED
    BY <1>1, <1>2, <1>4, <2>1 DEF CpuLoss, MemoryLoss, CpuAlarm, MemoryAlarm, info, total, free
<1>5. CASE k \notin {"routeros", "openwrt"}
  BY <1>5 DEF Figures, NoFigures, CpuLoss, MemoryLoss, CpuAlarm, MemoryAlarm
<1> QED
  BY <1>3, <1>4, <1>5

\* The alarms of the figures and of the gateways are finite sets of pairs, told
\* apart by their first part, and the gateways of OPNsense that are offline are
\* as many as the alarms they gave.
LEMMA AlarmsOfFigures ==
  ASSUME NEW k, NEW said
  PROVE  /\ CpuAlarm(k, said) <=> <<"cpu", 0>> \in FigureAlarms(k, said)
         /\ MemoryAlarm(k, said) <=> <<"memory", 0>> \in FigureAlarms(k, said)
         /\ FigureAlarms(k, said) \subseteq {<<"cpu", 0>>, <<"memory", 0>>}
BY DEF CpuAlarm, MemoryAlarm, FigureAlarms

LEMMA AlarmsOfGateways ==
  ASSUME NEW k, NEW rows \in GatewayAnswers
  PROVE  /\ IsFiniteSet(Offline(Gateways(k, rows))) /\ IsFiniteSet(GatewayAlarms(k, rows))
         /\ GatewayAlarms(k, rows) = {<<"gateway", g>> : g \in Offline(Gateways(k, rows))}
         /\ k # "opnsense" => Offline(Gateways(k, rows)) = {}
<1> DEFINE down == {i \in DOMAIN rows : k = "opnsense" /\ rows[i].down}
<1>1. Offline(Gateways(k, rows)) = down
  BY DEF Offline, Gateways
<1>2. IsFiniteSet(DOMAIN rows)
  BY AnswersAssumption
<1>3. IsFiniteSet(down)
  BY <1>2, FS_Subset
<1>4. GatewayAlarms(k, rows) = {<<"gateway", g>> : g \in down}
  BY DEF GatewayAlarms
<1> HIDE DEF down
<1>5. IsFiniteSet(GatewayAlarms(k, rows))
  <2> DEFINE f == [g \in down |-> <<"gateway", g>>]
  <2>1. f \in Surjection(down, GatewayAlarms(k, rows))
    BY <1>4 DEF Surjection
  <2> QED
    BY <1>3, <2>1, FS_Surjection
<1> QED
  BY <1>1, <1>3, <1>4, <1>5 DEF down

\* 20 points are lost before a device is no longer healthy, and more than 50
\* before it is critical: one alarm is above the first and below the second.
LEMMA ScoreFits ==
  ASSUME NEW c, AllKnown(kind, c)
  PROVE  LET status == StatusSummary(CalculateHealthScore(c.info, c.gateways))
         IN  /\ status = "HEALTHY" => c.said = {}
             /\ status = "CRITICAL" => Cardinality(c.said) > 1
<1> DEFINE cpu == CpuLoss(c.info)  memory == MemoryLoss(c.info)
           offline == Offline(c.gateways)  n == Cardinality(offline)
           lost == cpu + memory + 25 * n
           score == CalculateHealthScore(c.info, c.gateways)
<1>1. PICK f, g : FiguresFit(kind, c.info, f) /\ GatewaysFit(kind, c.gateways, g)
                  /\ c.said = f \cup g
  BY DEF AllKnown
<1>2. /\ cpu \in {0, 15, 30} /\ memory \in {0, 15, 30}
      /\ cpu = 30 <=> <<"cpu", 0>> \in f
      /\ memory = 30 <=> <<"memory", 0>> \in f
      /\ f \subseteq {<<"cpu", 0>>, <<"memory", 0>>}
      /\ kind \notin {"routeros", "openwrt"} => cpu = 0 /\ memory = 0
  <2>1. CASE c.info = NoFigures /\ f = {}
    BY <2>1 DEF NoFigures, CpuLoss, MemoryLoss
  <2>2. CASE \E said \in SystemAnswers :
               c.info = Figures(kind, said) /\ f = FigureAlarms(kind, said)
    BY <2>2, FigureLoss, AlarmsOfFigures
  <2> QED
    BY <1>1, <2>1, <2>2 DEF FiguresFit
<1>3. /\ IsFiniteSet(offline) /\ IsFiniteSet(g)
      /\ g = {<<"gateway", x>> : x \in offline}
      /\ kind # "opnsense" => offline = {}
  <2>1. CASE c.gateways = <<>> /\ g = {}
    <3>1. offline = {}
      BY <2>1 DEF Offline
    <3> QED
      BY <2>1, <3>1, FS_EmptySet
  <2>2. CASE \E rows \in GatewayAnswers :
               c.gateways = Gateways(kind, rows) /\ g = GatewayAlarms(kind, rows)
    BY <2>2, AlarmsOfGateways
  <2> QED
    BY <1>1, <2>1, <2>2 DEF GatewaysFit
<1>4. IsFiniteSet(c.said)
  <2>1. IsFiniteSet({<<"cpu", 0>>, <<"memory", 0>>})
    <3>1. IsFiniteSet({<<"cpu", 0>>} \cup {<<"memory", 0>>})
      BY FS_Singleton, FS_Union
    <3> QED
      BY <3>1
  <2>2. IsFiniteSet(f)
    BY <1>2, <2>1, FS_Subset
  <2>3. IsFiniteSet(f \cup g)
    <3> HIDE <1>1, <1>2
    <3> QED
      BY <1>3, <2>2, FS_Union
  <2> QED
    BY <1>1, <2>3
<1>5. score = IF lost > 100 THEN 0 ELSE 100 - lost
  BY DEF CalculateHealthScore, CpuLoss, MemoryLoss
<1>6. n \in Nat /\ (n = 0 <=> offline = {})
  BY <1>3, FS_CardinalityType, FS_EmptySet
<1>7. n > 1 => \E x, y \in offline : x # y
  BY <1>3, TwoElements
<1> HIDE DEF cpu, memory, offline, n, score
<1>8. ASSUME score >= 80 PROVE c.said = {}
  <2>1. cpu # 30 /\ memory # 30 /\ n = 0
    BY <1>2, <1>5, <1>6, <1>8
  <2> QED
    BY <1>1, <1>2, <1>3, <1>6, <2>1
<1>9. ASSUME score < 50 PROVE Cardinality(c.said) > 1
  <2>1. lost > 50
    BY <1>2, <1>5, <1>6, <1>9
  <2>2. CASE n > 1
    <3>1. PICK x \in offline, y \in offline : x # y
      BY <1>7, <2>2
    <3>2. <<"gateway", x>> \in c.said /\ <<"gateway", y>> \in c.said
          /\ <<"gateway", x>> # <<"gateway", y>>
      BY <1>1, <1>3, <3>1
    <3> QED
      BY <1>4, <3>2, TwoElements
  <2>3. CASE n <= 1
    <3>1. cpu = 30 /\ memory = 30
      BY <1>2, <1>3, <1>6, <2>1, <2>3
    <3>2. <<"cpu", 0>> \in c.said /\ <<"memory", 0>> \in c.said /\ <<"cpu", 0>> # <<"memory", 0>>
      BY <1>1, <1>2, <3>1
    <3> QED
      BY <1>4, <3>2, TwoElements
  <2> QED
    BY <1>6, <2>2, <2>3
<1>10. score \in Int
  BY <1>2, <1>5, <1>6
<1>11. /\ StatusSummary(score) = "HEALTHY" => score >= 80
       /\ StatusSummary(score) = "CRITICAL" => score < 50
  BY <1>10 DEF StatusSummary
<1> QED
  BY <1>8, <1>9, <1>11 DEF score

\* What the dashboard calls healthy gave no alarm, and it takes two to call a
\* device critical, whatever the device answered and whichever queries failed.
THEOREM HealthyDevicesGaveNoAlarm == Spec => []HealthyMeansNoAlarm
<1>1. OperationsInv => HealthyMeansNoAlarm
  <2> SUFFICES ASSUME OperationsInv, NEW t \in Threads,
                      call[t].at = "done", call[t].op = "device", call[t].result = "ok"
               PROVE  LET status == StatusSummary(CalculateHealthScore(call[t].info,
                                                                       call[t].gateways))
                      IN  /\ status = "HEALTHY" => call[t].said = {}
                          /\ status = "CRITICAL" => Cardinality(call[t].said) > 1
    BY DEF HealthyMeansNoAlarm
  <2>1. AllKnown(kind, call[t])
    BY DEF OperationsInv, Sound, DeviceFits
  <2> QED
    BY <2>1, ScoreFits
<1> QED
  BY <1>1, OperationsInvariance, PTL
=============================================================================
