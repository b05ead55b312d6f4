---------------------------- MODULE MCPluginClient ----------------------------
(* Small instances of PluginClient, and its refinement of PluginCalls. *)
EXTENDS PluginClient, TLC

Symmetry == Permutations(Callers)

\* A caller is in a call, as the abstract module sees it, from the moment it
\* has an id until its deferred delete has run; the call is answered once
\* readLoop has taken the registration for it.
InProgress == {p \in Callers : pc[p] \in InCall}
Answered ==
  {p \in InProgress :
     \/ got[p] # NoLine
     \/ slot[callId[p]] # NoLine
     \/ rl = "send" /\ rlLine.id = callId[p]}

\* How the last call of each caller ended; nothing while one is in progress.
Ended == [p \in Callers |-> IF p \in InProgress THEN "none" ELSE outcome[p]]

Calls == INSTANCE PluginCalls WITH
  active   <- InProgress,
  answered <- Answered,
  late     <- expired,
  result   <- Ended,
  open     <- ~closed,
  broken   <- ~writerOpen \/ ~peerAlive

\* The client implements the calls that PluginCalls specifies.
ImplementsPluginCalls == Calls!Spec
=============================================================================
