------------------------------ MODULE Providers ------------------------------
(***************************************************************************)
(* A built-in provider in use: its lock, its client and its session, and   *)
(* the operations of internal/handler/network that several goroutines run  *)
(* on it.  The terminal UI starts its refreshes side by side, and its      *)
(* Disconnect runs when the program quits, whatever is still on the way.   *)
(*                                                                         *)
(* Every Connect makes a connection with a number of its own.  The HTTP    *)
(* providers take the lock only to look at the client; FRR holds it for    *)
(* reading while a command runs on its SSH connection, and for writing     *)
(* while it dials; OpenWrt logs in under the lock but reads the session    *)
(* without it.                                                             *)
(***************************************************************************)
EXTENDS ProviderQueries

CONSTANTS
  Threads,
  MaxCalls,       \* bound: operations that are started
  MaxConnections, \* bound: connections that are made
  SystemAnswers,  \* the figures a device may give: cpu, total, free
  GatewayAnswers, \* its lists of gateways or of routes
  NoOne, Mixed

ASSUME NamesAssumption ==
  /\ MaxConnections \in Nat
  /\ NoOne \notin Threads
  /\ Mixed \notin Nat

\* The answers carry numbers, and lists that end.
ASSUME AnswersAssumption ==
  /\ \A said \in SystemAnswers : said.cpu \in Nat /\ said.total \in Nat /\ said.free \in Nat
  /\ \A rows \in GatewayAnswers : IsFiniteSet(DOMAIN rows)

VARIABLES
  kind,     \* which provider it is
  link,     \* p.client or p.sshClient: the number of its connection, 0 for none
  session,  \* p.sessionID: the connection it was got on, 0 for none
  writer,   \* who holds p.mu for writing, for longer than a step
  readers,  \* who holds it for reading
  ssh,      \* the SSH connections that are open
  call,     \* call[t]: the operation t runs, or ran last
  calls,    \* operations started so far
  made,     \* connections made so far
  clean,    \* history: connections made when there was none
  replaced  \* history: connections that a Connect put another one in place of

vars == <<kind, link, session, writer, readers, ssh, call, calls, made, clean, replaced>>
provider == <<link, session, writer, readers, ssh, made, clean, replaced>>

\* An operation: the queries and the requests that are left, what it knows, and
\* for the properties whether the provider was without a client meanwhile (cut),
\* whether it got another one since it was asked for its client (crossed),
\* whether a request failed (lost) and what alarms the device gave (said).
NoCall == [op |-> "none", at |-> "done", left |-> <<>>, requests |-> <<>>,
           client |-> 0, session |-> 0, info |-> NoFigures, gateways |-> <<>>,
           result |-> "none", cut |-> FALSE, crossed |-> FALSE, lost |-> FALSE,
           said |-> {}]

Goes(t, c) == call' = [call EXCEPT ![t] = c]

Unlocked == writer = NoOne /\ readers = {}

Init ==
  /\ kind \in Kinds
  /\ link = 0 /\ session = 0 /\ ssh = {}
  /\ writer = NoOne /\ readers = {}
  /\ call = [t \in Threads |-> NoCall]
  /\ calls = 0 /\ made = 0 /\ clean = {} /\ replaced = {}

-----------------------------------------------------------------------------
\* The operations of NetworkHandler.  OPNsense refuses to roll back to an ID that
\* does not look like one.
StartOperation(t, op) ==
  LET new == [NoCall EXCEPT !.op = op, !.cut = link = 0]
  IN  /\ call[t].at = "done" /\ calls < MaxCalls
      /\ calls' = calls + 1
      /\ \/ Goes(t, IF Has(kind, NetworkHandler[op].cap)
                    THEN [new EXCEPT !.at = "next", !.left = NetworkHandler[op].plan]
                    ELSE [new EXCEPT !.result = "unsupported"])
         \/ op = "rollback" /\ kind = "opnsense" /\ Goes(t, [new EXCEPT !.result = "refused"])
      /\ UNCHANGED <<kind, provider>>

\* The next query, if the device can answer it; many return a constant and do not
\* look at the client.
NextQuery(t) ==
  LET c == call[t]
      requests == IF Has(kind, Head(c.left).cap)
                  THEN Query(kind, Head(c.left).query).requests ELSE <<>>
  IN  /\ c.at = "next" /\ c.left # <<>>
      /\ Goes(t, IF requests = <<>> THEN [c EXCEPT !.left = Tail(c.left)]
                 ELSE [c EXCEPT !.at = "client", !.requests = requests])
      /\ UNCHANGED <<kind, provider, calls>>

EndOperation(t) ==
  /\ call[t].at = "next" /\ call[t].left = <<>>
  /\ Goes(t, [call[t] EXCEPT !.at = "done", !.result = "ok"])
  /\ UNCHANGED <<kind, provider, calls>>

\* The query has a result, or it fails in one of the ways of ProviderQueries.
Succeeds(c) == [c EXCEPT !.at = "next", !.left = Tail(c.left)]
Fails(c, failure) ==
  IF failure = "error" /\ Head(c.left).must
  THEN [c EXCEPT !.at = "done", !.result = "failed"]
  ELSE Succeeds(c)

\* getClient: the client as it is now, to be used later.
GetClient(t) ==
  LET c == call[t]
  IN  /\ c.at = "client" /\ kind # "frr" /\ writer = NoOne
      /\ Goes(t, IF link = 0 THEN Fails(c, Refusal(kind, Head(c.left).query))
                 ELSE [c EXCEPT !.at = "ask", !.client = link, !.crossed = FALSE])
      /\ UNCHANGED <<kind, provider, calls>>

\* The request is sent.  callUbus reads p.sessionID without the lock: while a
\* Connect logs in it may read a mixture of the two.
Send(t) ==
  /\ call[t].at = "ask" /\ kind # "frr"
  /\ \E s \in IF kind # "openwrt" THEN {0}
              ELSE IF writer = NoOne THEN {session} ELSE {session, Mixed} :
       Goes(t, [call[t] EXCEPT !.at = "asked", !.session = s])
  /\ UNCHANGED <<kind, provider, calls>>

\* What c knows after its query was answered.
Heard(c) ==
  CASE Head(c.left).query = "system" ->
         {[c EXCEPT !.info = Figures(kind, said), !.said = @ \cup FigureAlarms(kind, said)] :
            said \in SystemAnswers}
    [] Head(c.left).query = "gateways" ->
         {[c EXCEPT !.gateways = Gateways(kind, rows), !.said = @ \cup GatewayAlarms(kind, rows)] :
            rows \in GatewayAnswers}
    [] OTHER -> {c}

\* The request got its answer: the query ends, unless another one is to follow
\* anyway.
Answered(c) ==
  IF Len(c.requests) > 1 /\ c.requests[2] = "optional"
  THEN [c EXCEPT !.at = "ask", !.requests = Tail(c.requests)]
  ELSE Succeeds(c)

\* The request failed: another way is tried, or the query fails.
Missed(c) ==
  LET lost == [c EXCEPT !.lost = TRUE]
  IN  CASE Head(c.requests) = "optional" -> Succeeds(lost)
        [] Len(c.requests) > 1 /\ c.requests[2] = "fallback" ->
             [lost EXCEPT !.at = "ask", !.requests = Tail(c.requests)]
        [] OTHER -> Fails(lost, Query(kind, Head(c.left).query).failure)

\* Do returns.
AnswerHTTP(t) ==
  LET c == call[t]
      text == kind = "opnsense" /\ Head(c.left).query = "config"
  IN  /\ c.at = "asked" /\ kind # "frr"
      /\ \E response \in Responses, ubus \in Ubus :
           IF ~(IF kind = "openwrt" THEN CallUbus(response, ubus) ELSE Do(response, text))
           THEN Goes(t, Missed(c))
           ELSE \E heard \in IF \/ Head(c.requests) = "optional"
                                \/ kind = "openwrt" /\ ubus = "statusOnly" THEN {c} ELSE Heard(c) :
                  Goes(t, Answered(heard))
      /\ UNCHANGED <<kind, provider, calls>>

\* Mutant: runVtysh lets go of the lock before it runs the command.
RunVtyshUnlocked(t) ==
  LET c == call[t]
  IN  /\ c.at = "client" /\ kind = "frr" /\ writer = NoOne
      /\ Goes(t, IF link = 0 THEN Fails(c, Refusal(kind, Head(c.left).query))
                 ELSE [c EXCEPT !.at = "asked", !.client = link])
      /\ UNCHANGED <<kind, provider, calls>>

\* runVtysh: the lock is held until RunCommand returns.
RunVtysh(t) ==
  LET c == call[t]
  IN  /\ c.at = "client" /\ kind = "frr" /\ writer = NoOne
      /\ IF link = 0
         THEN Goes(t, Fails(c, Refusal(kind, Head(c.left).query))) /\ UNCHANGED readers
         ELSE /\ Goes(t, [c EXCEPT !.at = "asked", !.client = link])
              /\ readers' = readers \cup {t}
      /\ UNCHANGED <<kind, link, session, writer, ssh, made, clean, replaced, calls>>

\* RunCommand returns: an output, or an error because the connection broke, the
\* command failed or its context ended; an output that does not parse is as bad.
AnswerSSH(t) ==
  /\ call[t].at = "asked" /\ kind = "frr"
  /\ \/ \E heard \in Heard(call[t]) : Goes(t, Answered(heard))
     \/ Goes(t, Missed(call[t]))
  /\ readers' = readers \ {t}
  /\ UNCHANGED <<kind, link, session, writer, ssh, made, clean, replaced, calls>>

-----------------------------------------------------------------------------
\* Connect and Disconnect.  The other calls notice what happens to the client.
Notice(t, c, lostClient) ==
  call' = [u \in Threads |->
             IF u = t THEN c
             ELSE [call[u] EXCEPT !.crossed = @ \/ call[u].at \in {"ask", "asked"},
                                  !.cut = @ \/ lostClient]]

Begins(t, op) == call[t].at = "done" /\ calls < MaxCalls /\ calls' = calls + 1
Connecting == [NoCall EXCEPT !.op = "connect"]

\* Another connection takes the place of the one there is.
Links(n) ==
  /\ link' = n /\ made' = n
  /\ clean' = IF link = 0 THEN clean \cup {n} ELSE clean
  /\ replaced' = IF link = 0 THEN replaced ELSE replaced \cup {link}

\* Connect of the HTTP providers builds a client and does not fail.  OpenWrt
\* also logs in, if it has a user name.
ConnectHTTP(t) ==
  /\ Begins(t, "connect") /\ kind # "frr" /\ Unlocked /\ made < MaxConnections
  /\ Links(made + 1)
  /\ \/ Notice(t, Connecting, FALSE) /\ UNCHANGED writer
     \/ /\ kind = "openwrt"
        /\ Notice(t, [Connecting EXCEPT !.at = "login"], FALSE)
        /\ writer' = t
  /\ UNCHANGED <<kind, session, readers, ssh>>

\* The login succeeds, or its failure is ignored and the session stays.
Login(t) ==
  /\ call[t].at = "login"
  /\ session' \in {session, link}
  /\ writer' = NoOne
  /\ Goes(t, Connecting)
  /\ UNCHANGED <<kind, link, readers, ssh, calls, made, clean, replaced>>

\* FRR dials, if it can tell whom it talks to: a callback, a file of known hosts
\* or the wish not to check.
DialSSH(t) ==
  /\ Begins(t, "connect") /\ kind = "frr" /\ Unlocked
  /\ \E hostKeys \in {"callback", "knownHosts", "insecure", "none", "unreadable"} :
       IF hostKeys \in {"none", "unreadable"}
       THEN Goes(t, [Connecting EXCEPT !.result = "failed"]) /\ UNCHANGED writer
       ELSE Goes(t, [Connecting EXCEPT !.at = "dial"]) /\ writer' = t
  /\ UNCHANGED <<kind, link, session, readers, ssh, made, clean, replaced>>

\* Dialling and the handshake fail, and nothing changes, or there is a new SSH
\* connection; the one before it is not closed.
ConnectSSH(t) ==
  /\ call[t].at = "dial"
  /\ writer' = NoOne
  /\ \/ /\ made < MaxConnections
        /\ Links(made + 1)
        /\ ssh' = ssh \cup {made + 1}
        /\ Notice(t, Connecting, FALSE)
     \/ /\ Goes(t, [Connecting EXCEPT !.result = "failed"])
        /\ UNCHANGED <<link, ssh, made, clean, replaced>>
  /\ UNCHANGED <<kind, session, readers, calls>>

\* Mutant: the session survives its connection.
DisconnectKeepingSession(t) ==
  /\ Begins(t, "disconnect") /\ Unlocked
  /\ link' = 0
  /\ ssh' = ssh \ {link}
  /\ Notice(t, [NoCall EXCEPT !.op = "disconnect"], TRUE)
  /\ UNCHANGED <<kind, session, writer, readers, made, clean, replaced>>

Disconnect(t) ==
  /\ Begins(t, "disconnect") /\ Unlocked
  /\ link' = 0
  /\ session' = 0
  /\ ssh' = ssh \ {link}
  /\ Notice(t, [NoCall EXCEPT !.op = "disconnect"], TRUE)
  /\ UNCHANGED <<kind, writer, readers, made, clean, replaced>>

Next ==
  \E t \in Threads :
    \/ \E op \in DOMAIN NetworkHandler : StartOperation(t, op)
    \/ NextQuery(t) \/ EndOperation(t)
    \/ GetClient(t) \/ Send(t) \/ AnswerHTTP(t)
    \/ RunVtysh(t) \/ AnswerSSH(t)
    \/ ConnectHTTP(t) \/ Login(t) \/ DialSSH(t) \/ ConnectSSH(t) \/ Disconnect(t)

Spec == Init /\ [][Next]_vars

-----------------------------------------------------------------------------
\* An operation of a provider that stays connected fails only because the device
\* did not answer, and the overviews of the device and of its services not even
\* then.
ConnectedOverviewsSucceed ==
  \A t \in Threads :
    call[t].at = "done" /\ call[t].op \in DOMAIN NetworkHandler
      /\ call[t].result = "failed" /\ ~call[t].cut
    => call[t].lost /\ call[t].op \notin {"device", "services"}

\* A device that gave an alarm, a processor or a memory that is more than 90 %
\* in use or a gateway that is down, is not shown as healthy; and it takes two of
\* them to show it as critical.
HealthyMeansNoAlarm ==
  \A t \in Threads :
    call[t].at = "done" /\ call[t].op = "device" /\ call[t].result = "ok" =>
      LET status == StatusSummary(CalculateHealthScore(call[t].info, call[t].gateways))
      IN  /\ status = "HEALTHY" => call[t].said = {}
          /\ status = "CRITICAL" => Cardinality(call[t].said) > 1

\* OpenWrt: a request that goes to a device carries a session that this device
\* gave, or none, unless a Connect or Disconnect came in between or the provider
\* was connected again without a Disconnect.
SessionOfItsConnection ==
  \A t \in Threads :
    call[t].at = "asked" /\ ~call[t].crossed /\ call[t].client \in clean
    => call[t].session \in {0, call[t].client}

\* FRR: no SSH connection is closed while a command runs on it, and the only
\* ones that stay open are the current one and those that a second Connect
\* replaced.
SSHConnectionsKept ==
  /\ \A t \in Threads : call[t].at = "asked" /\ kind = "frr" => call[t].client \in ssh
  /\ ssh \subseteq {link} \cup replaced
=============================================================================
