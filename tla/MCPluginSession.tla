--------------------------- MODULE MCPluginSession ---------------------------
(* Small instances of PluginSession. *)
EXTENDS PluginSession, TLC

Symmetry == Permutations(Callers)
=============================================================================
