----------------------------- MODULE MCProviders -----------------------------
(* The bounds of each figure, and two gateways.                                *)
EXTENDS Providers, TLC

MCSystemAnswers ==
  { [cpu |-> 10, total |-> 20, free |-> 2], [cpu |-> 90, total |-> 20, free |-> 1],
    [cpu |-> 91, total |-> 0, free |-> 0],  [cpu |-> 91, total |-> 20, free |-> 1],
    [cpu |-> 80, total |-> 20, free |-> 30] }

MCGatewayAnswers ==
  { <<>> } \cup
  { <<[down |-> a, default |-> TRUE], [down |-> b, default |-> FALSE]>> : a, b \in BOOLEAN }

AnyThread == Permutations(Threads)
=============================================================================
