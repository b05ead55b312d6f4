----------------------------- MODULE CommitFlow -----------------------------
(***************************************************************************)
(* The commands `config commit` and `config rollback`, from the file the   *)
(* operator names to the provider's ApplyConfig or RollbackConfig and the  *)
(* device (internal/cli/safety.go and the providers).  Each command is a   *)
(* process that connects, asks the provider once, prints and disconnects.  *)
(*                                                                         *)
(* Of the providers in the repository only OPNsense sends the candidate to *)
(* the device; the others report success and do nothing.  What the device  *)
(* does with a request is external.                                        *)
(***************************************************************************)
EXTENDS Naturals

CONSTANTS
  Configs,    \* configurations of the device
  Providers,  \* the device's provider: "opnsense", or "other"
  Initial,    \* the configuration the device starts with
  Timeout     \* the seconds given to --confirm; 0 when the flag is absent

VARIABLES
  provider,   \* the provider of the operator's device
  running,    \* external: the configuration the device runs
  previous,   \* external: the configuration its last change replaced
  pc,         \* the command that runs and how far it is, or "shell"
  candidate,  \* the candidate of the commit that runs or ran last
  confirm,    \* its --confirm, ConfirmSeconds of the request
  connected,  \* the command holds a connection to the device
  said        \* what the last command printed

vars == <<provider, running, previous, pc, candidate, confirm, connected, said>>

Messages ==
  {"nothing", "error", "applied, rollback timer started", "reverted"}

TypeOK ==
  /\ provider \in Providers
  /\ running \in Configs /\ previous \in Configs /\ candidate \in Configs
  /\ pc \in {"shell", "apply", "applied", "failed", "rollback", "reverted"}
  /\ confirm \in {0, Timeout}
  /\ connected \in BOOLEAN
  /\ said \in Messages

Init ==
  /\ provider \in Providers
  /\ running = Initial /\ previous = Initial /\ candidate = Initial
  /\ pc = "shell" /\ confirm = 0 /\ connected = FALSE /\ said = "nothing"

\* A command that fails before it has a connection: no candidate file, no
\* profile, no provider, or a device that cannot be reached.
CommandFails ==
  /\ pc = "shell"
  /\ said' = "error"
  /\ UNCHANGED <<provider, running, previous, pc, candidate, confirm, connected>>

\* commit reads the file and connects.  InspectCandidate only prints its
\* warnings: no warning keeps the command from going on.
CommitBegin(c, seconds) ==
  /\ pc = "shell"
  /\ candidate' = c /\ confirm' = seconds
  /\ connected' = TRUE /\ said' = "nothing"
  /\ pc' = "apply"
  /\ UNCHANGED <<provider, running, previous>>

\* External: the device takes over configuration c.
DeviceRuns(c) == running' = c /\ previous' = running
DeviceUntouched == UNCHANGED <<running, previous>>

\* ApplyConfig.  OPNsense posts the candidate: the request is refused, is
\* accepted, or its response is lost.  The others make up a success.
ApplyConfig ==
  /\ pc = "apply"
  /\ \/ provider = "opnsense" /\ DeviceRuns(candidate) /\ pc' \in {"applied", "failed"}
     \/ provider = "opnsense" /\ DeviceUntouched /\ pc' = "failed"
     \/ provider = "other" /\ DeviceUntouched /\ pc' = "applied"
  /\ UNCHANGED <<provider, candidate, confirm, connected, said>>

\* rollback connects.
RollbackBegin ==
  /\ pc = "shell"
  /\ connected' = TRUE /\ said' = "nothing"
  /\ pc' = "rollback"
  /\ UNCHANGED <<provider, running, previous, candidate, confirm>>

\* RollbackConfig.  OPNsense refuses an empty id and posts any other; the
\* device then restores its previous configuration or does not know the id,
\* which ApplyConfig took from the clock.  The others report success.
RollbackConfig ==
  /\ pc = "rollback"
  /\ \/ provider = "opnsense" /\ DeviceRuns(previous) /\ pc' \in {"reverted", "failed"}
     \/ provider = "opnsense" /\ DeviceUntouched /\ pc' = "failed"
     \/ provider = "other" /\ DeviceUntouched /\ pc' = "reverted"
  /\ UNCHANGED <<provider, candidate, confirm, connected, said>>

\* The command prints its result, runs the deferred Disconnect and exits.
\* Every ApplyConfig that succeeds returns a RollbackID, so a commit always
\* announces a rollback timer, with or without --confirm.  Nothing of the
\* process is left: no engine, no timer.
CommandEnds ==
  /\ pc \in {"applied", "failed", "reverted"}
  /\ said' = CASE pc = "applied"  -> "applied, rollback timer started"
               [] pc = "failed"   -> "error"
               [] pc = "reverted" -> "reverted"
  /\ connected' = FALSE
  /\ pc' = "shell"
  /\ UNCHANGED <<provider, running, previous, candidate, confirm>>

Command == ApplyConfig \/ RollbackConfig \/ CommandEnds

Next ==
  \/ CommandFails
  \/ \E c \in Configs, seconds \in {0, Timeout} : CommitBegin(c, seconds)
  \/ RollbackBegin
  \/ Command

\* A command that has begun ends.  What the operator starts is up to him.
FairSpec == Init /\ [][Next]_vars /\ WF_vars(Command)

-----------------------------------------------------------------------------
(* Properties *)

\* README.md promises of `commit --confirm` an "automated countdown rollback"
\* that "prevents remote lockouts": when the device runs a candidate that was
\* committed with --confirm, it is rolled back, unless the operator starts
\* another command.  An operator who is locked out cannot.
LockedOutOperatorIsRescued ==
  (pc = "applied" /\ confirm > 0 /\ running = candidate /\ previous # candidate)
    ~> (running # candidate \/ pc \in {"apply", "rollback"})
=============================================================================
