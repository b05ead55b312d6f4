------------------------------ MODULE Commands ------------------------------
(***************************************************************************)
(* The command line as a whole: any command of Stores and PluginStore, and *)
(* the device commands, which use all of them.  ResolveAndConnectWith-     *)
(* Provider (internal/handler/session/handler.go) loads the configuration, *)
(* looks for plugins, picks the profile and the provider, finds the        *)
(* credentials (creds.go, Resolver.Resolve) and connects.                  *)
(***************************************************************************)
EXTENDS Stores, PluginStore

CONSTANT Providers   \* names of providers a profile or --provider may give

\* A device command.
Connect(p) == Run(p, [op |-> "connect", dev |-> Nothing, provider |-> "none"], "profiles")

\* loadAppConfig, for a device command or a list of plugins: an error ends it.
LoadProfiles(p) ==
  /\ proc[p].at = "profiles"
  /\ \/ CannotLoad /\ End(p)
     \/ \E cfg \in Loaded(content[ConfigFile]) :
          /\ proc' = [proc EXCEPT ![p].at = "discover", ![p].out = cfg]
          /\ UNCHANGED <<content, started, disturbed, torn, promised>>

\* Without a name and a URL the default device is meant.  The profile must exist
\* unless a URL is given, which is then the address of a device "ephemeral", and
\* its provider must be known.  The session token is looked for under the name in
\* the profile.
PickProfile(p) ==
  /\ proc[p].at = "found" /\ proc[p].cmd.op = "connect"
  /\ \E d \in Devices \cup {Nothing}, url \in BOOLEAN, provider \in Providers :
       LET name == IF d = Nothing /\ ~url THEN proc[p].out.default ELSE d
           file == Create(proc[p].mem.found, provider)
       IN  IF (name \notin proc[p].out.devices /\ ~url) \/ file = "none"
           THEN End(p)
           ELSE /\ proc' = [proc EXCEPT ![p] =
                     [@ EXCEPT !.at = "credentials", !.mem = Nothing,
                               !.cmd = [op |-> "connect", provider |-> file,
                                        dev |-> IF name \in proc[p].out.devices
                                                THEN name ELSE "ephemeral"]]]
                /\ UNCHANGED <<content, started, disturbed, torn, promised>>

\* ResolveCredentials: a token file that was given is the only source, and its
\* error is dropped by the caller: the provider gets empty credentials.
ChooseCredentials(p) ==
  /\ proc[p].at = "credentials"
  /\ \/ proc' = Moved(p, "load")
     \/ \E file \in TokenFiles :
          proc' = Remembers(p, "connect", [Mem EXCEPT !.creds = ParseTokenFile(file)])
  /\ UNCHANGED <<content, started, disturbed, torn, promised>>

\* Resolver.Resolve: variables of the environment, one named by the profile, a
\* key of the vault, or nothing.  Every error ends in empty credentials.
Resolve(ref, pass, k) ==
  CASE ref = "env" -> {"username", "password"}
    [] ref = "vault" /\ pass # Nothing /\ Readable(pass) /\ k \in Entries(content[VaultFile])
         -> {"apiKey", "apiSecret"}
    [] OTHER -> {}

\* The session token goes before the references.
ResolveCredentials(p) ==
  /\ proc[p].at = "loaded" /\ proc[p].cmd.op = "connect"
  /\ \E ref \in {"env", "vault"}, pass \in Passphrases \cup {Nothing}, k \in Keys :
       proc' = Remembers(p, "connect",
                 IF proc[p].mem.creds # {} THEN proc[p].mem
                 ELSE [proc[p].mem EXCEPT !.creds = Resolve(ref, pass, k)])
  /\ UNCHANGED <<content, started, disturbed, torn, promised>>

\* The provider connects, the command runs and disconnects.
UseDevice(p) == proc[p].at = "connect" /\ End(p)

ConnectStep(p) ==
  \/ LoadProfiles(p) \/ PickProfile(p) \/ ChooseCredentials(p)
  \/ ResolveCredentials(p) \/ UseDevice(p)

-----------------------------------------------------------------------------
CONSTANT Before   \* what the files of the user may hold before the first command

\* Plugins are not installed over the stores.
ASSUME TargetsAssumption ==
  TargetFiles \subseteq Files \ {VaultFile, ConfigFile, SecretFile, TokenFile}

\* No file is cut before the first command, the default device of the configuration
\* has a profile, and a session token opens under the secret there is.
ASSUME BeforeAssumption ==
  \A b \in Before :
    /\ b = [f \in Files |-> b[f]]
    /\ \A f \in Files : b[f] \in {Absent, EmptyFile, Whole(b[f].val)}
    /\ b[ConfigFile].is = "whole" => DefaultKept(b[ConfigFile].val)
    /\ b[TokenFile].is = "whole" => b[SecretFile] = Whole(b[TokenFile].val.key)

Init ==
  /\ content \in Before
  /\ proc = [p \in Procs |-> Idle]
  /\ started = 0
  /\ disturbed = {} /\ torn = {}
  /\ promised = content

Finish(p) ==
  WriteFile(p, CASE proc[p].file = SecretFile -> promised
                 [] proc[p].file \in TargetFiles -> PromisePlugin(p)
                 [] OTHER -> Promise(p))

Step(p) ==
  \/ StoreStep(p) \/ PluginStep(p) \/ ConnectStep(p)
  \/ OpenFile(p, Failed(p)) \/ Finish(p) \/ BreakOff(p, Failed(p)) \/ Kill(p)

Next == \E p \in Procs :
          StartStoreCommand(p) \/ StartPluginCommand(p) \/ Connect(p) \/ Step(p)

Spec == Init /\ [][Next]_fileVars

-----------------------------------------------------------------------------
\* Nobody is in the middle of writing f.
Settled(f) == \A p \in Procs : ~(proc[p].at = "write" /\ proc[p].file = f)

\* A store that no two commands were about to write at once, and whose writing
\* was never cut short, holds what the commands that reported success add up to:
\* no key, profile, token or binary is lost or comes back, also when commands on
\* other files run, fail or are killed meanwhile.
FilesHoldWhatCommandsReported ==
  \A f \in Files \ {SecretFile} :
    f \notin disturbed /\ Settled(f) => content[f] = promised[f]

\* An imported session token opens under the secret there is: no command, whether
\* it imports, reads or clears, makes it unreadable unless it raced for one of the
\* two files or was killed while it wrote one.
TokenStaysReadable ==
  /\ content[TokenFile].is = "whole"
  /\ {TokenFile, SecretFile} \cap disturbed = {}
  => content[SecretFile] = Whole(content[TokenFile].val.key)

\* The default device of a saved configuration has a profile, whatever commands
\* ran at once or were killed, unless a configuration that was cut was loaded.
DefaultNamesAProfile ==
  content[ConfigFile].is = "whole" /\ ConfigFile \notin torn =>
    DefaultKept(content[ConfigFile].val)

\* A plugin that is there whole is replaced or removed only by an install with
\* --force, or when two installs both found the place empty.
NoOverwriteWithoutForce ==
  [][\A f \in TargetFiles :
       content[f].is = "whole" /\ content'[f] # content[f] /\ f \notin disturbed' =>
         \E p \in Procs : proc[p].file = f /\ proc[p].cmd.force]_fileVars
=============================================================================
