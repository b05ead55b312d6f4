----------------------------- MODULE MCCommands -----------------------------
(* Two processes, one of each store and three plugin files in two directories, *)
(* the first of which is given twice.                                          *)
EXTENDS Commands

CONSTANTS vault, config, secret, token, ours, custom, home, d1, d2

MCDirectories == << <<custom>>, <<custom>>, <<home, ours>> >>
MCNameInPath  == (custom :> "acme") @@ (home :> "acme") @@ (ours :> "frr")
MCBinaries    == {[name |-> "acme", caps |-> {"all"}]}

MCTokenFiles ==
  { [form |-> "json", fields |-> {"token"}, colon |-> FALSE],
    [form |-> "lines", fields |-> {"password"}, colon |-> TRUE] }

\* The files before the first command; a session has its secret and its token.
MCBefore ==
  { (vault :> v) @@ (config :> c) @@ (secret :> t[1]) @@ (token :> t[2]) @@
    (custom :> Absent) @@ (home :> h) @@ (ours :> Whole([name |-> Mute, caps |-> {}])) :
      v \in {Absent, Whole([pass |-> "s1", keys |-> {"k1"}])},
      c \in {Absent, Whole([default |-> d1, devices |-> {d1}])},
      t \in {<<Absent, Absent>>, <<Whole(MadeBy(0)), Absent>>,
             <<Whole(MadeBy(0)), Whole([key |-> MadeBy(0), dev |-> d1, creds |-> {"token"}])>>},
      h \in {Absent, Whole([name |-> "acme", caps |-> {"system"}])} }

Processes == Permutations(Procs)
=============================================================================
