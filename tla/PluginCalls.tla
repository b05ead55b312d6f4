----------------------------- MODULE PluginCalls -----------------------------
(***************************************************************************)
(* What the plugin client promises the code that calls it, without pipes,  *)
(* ids, channels or goroutines: a call ends exactly once, and every way it *)
(* can end has its reason.  It is answered only after the plugin answered  *)
(* that very call; it fails as closed only on a closed client, as expired  *)
(* only with its context done, as unwritten only on a broken connection;   *)
(* and a closed client stays closed.  PluginClient implements this module  *)
(* (see MCPluginClient).                                                   *)
(***************************************************************************)
CONSTANT Callers

VARIABLES
  active,    \* callers with a call in progress
  answered,  \* those of them whose call the plugin has answered
  late,      \* those of them whose context is done
  result,    \* result[p]: how p's last call ended
  open,      \* the client is open
  broken     \* the connection to the plugin is broken

vars == <<active, answered, late, result, open, broken>>

Init ==
  /\ active = {} /\ answered = {} /\ late = {}
  /\ result = [p \in Callers |-> "none"]
  /\ open = TRUE /\ broken = FALSE

Begin(p) ==
  /\ p \notin active
  /\ open
  /\ active' = active \cup {p}
  /\ late' \in {late, late \cup {p}}
  /\ result' = [result EXCEPT ![p] = "none"]
  /\ UNCHANGED <<answered, open, broken>>

Answer(p) ==
  /\ p \in active \ answered
  /\ answered' = answered \cup {p}
  /\ UNCHANGED <<active, late, result, open, broken>>

Expire(p) ==
  /\ p \in active
  /\ late' = late \cup {p}
  /\ UNCHANGED <<active, answered, result, open, broken>>

\* The reason a call must have to end the way it does.
Justified(p, how) ==
  \/ how \in {"ok", "rpcError"} /\ p \in answered
  \/ how = "closed" /\ ~open
  \/ how = "ctx" /\ p \in late
  \/ how = "writeError" /\ broken

End(p, how) ==
  /\ p \in active
  /\ Justified(p, how)
  /\ active' = active \ {p}
  /\ answered' = answered \ {p}
  /\ late' = late \ {p}
  /\ result' = [result EXCEPT ![p] = how]
  /\ UNCHANGED <<open, broken>>

Refuse(p) ==
  /\ p \notin active
  /\ ~open
  /\ result' = [result EXCEPT ![p] = "closed"]
  /\ UNCHANGED <<active, answered, late, open, broken>>

\* A notification expects no answer: it is sent, or it fails on a broken
\* connection; "none" while it is being written.
Notify(p, how) ==
  /\ p \notin active
  /\ how \in {"none", "sent"} \/ (how = "writeError" /\ broken)
  /\ result' = [result EXCEPT ![p] = how]
  /\ UNCHANGED <<active, answered, late, open, broken>>

Break ==
  /\ broken' = TRUE
  /\ UNCHANGED <<active, answered, late, result, open>>

Close ==
  /\ open
  /\ open' = FALSE
  /\ UNCHANGED <<active, answered, late, result, broken>>

Next ==
  \/ \E p \in Callers :
       \/ Begin(p) \/ Answer(p) \/ Expire(p) \/ Refuse(p)
       \/ \E how \in {"ok", "rpcError", "closed", "ctx", "writeError"} : End(p, how)
       \/ \E how \in {"none", "sent", "writeError"} : Notify(p, how)
  \/ Break
  \/ Close

Spec == Init /\ [][Next]_vars
=============================================================================
