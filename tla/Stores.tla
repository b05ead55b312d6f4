------------------------------- MODULE Stores -------------------------------
(***************************************************************************)
(* The stores the commands share, on the files of CliFiles:                *)
(*   the vault      pkg/credential/credential.go (VaultStore)              *)
(*   the profiles   pkg/config/config.go, internal/cli/device.go           *)
(*   the session    internal/handler/auth, internal/cli/auth.go            *)
(*                                                                         *)
(* Contents: a vault is the passphrase it is encrypted with and its keys;  *)
(* a configuration the default device and the profiles; a session secret   *)
(* is the number of the command that made it; a session token the secret   *)
(* it is encrypted under, the device it is for and its credentials.        *)
(***************************************************************************)
EXTENDS CliFiles

CONSTANTS
  VaultFile, ConfigFile, SecretFile, TokenFile, \* the paths of the stores
  Keys,         \* keys of the vault
  Passphrases,  \* values of MICHIBIKI_VAULT_PASSPHRASE
  Devices,      \* names of device profiles
  TokenFiles    \* the files a user may import

ASSUME StoresAssumption ==
  /\ {VaultFile, ConfigFile, SecretFile, TokenFile} \subseteq Files
  /\ VaultFile \notin {ConfigFile, SecretFile, TokenFile}
  /\ ConfigFile \notin {SecretFile, TokenFile}
  /\ SecretFile # TokenFile

-----------------------------------------------------------------------------
\* The vault.  A file that is missing is an empty vault; one that is cut short
\* or encrypted with another passphrase is an error.
Readable(pass) ==
  \/ content[VaultFile] = Absent
  \/ content[VaultFile].is = "whole" /\ content[VaultFile].val.pass = pass

Entries(c) == IF c.is = "whole" THEN c.val.keys ELSE {}

Changed(cmd, keys) == IF cmd.op = "set" THEN keys \cup {cmd.key} ELSE keys \ {cmd.key}

SetVault(p, k, pass)    == Run(p, [op |-> "set", key |-> k, pass |-> pass], "vault")
DeleteVault(p, k, pass) == Run(p, [op |-> "delete", key |-> k, pass |-> pass], "vault")

\* Mutant: a vault that cannot be read counts as empty.
UpdateVaultAnyway(p) ==
  LET cmd == proc[p].cmd
  IN  /\ proc[p].at = "vault" /\ cmd.op \in {"set", "delete"}
      /\ WillWrite(p, VaultFile,
           [pass |-> cmd.pass,
            keys |-> Changed(cmd, IF Readable(cmd.pass) THEN Entries(content[VaultFile]) ELSE {})],
           "idle", Nothing)

\* Set and Delete: read everything, change one entry, write everything.
UpdateVault(p) ==
  LET cmd == proc[p].cmd
  IN  /\ proc[p].at = "vault" /\ cmd.op \in {"set", "delete"}
      /\ IF Readable(cmd.pass)
         THEN WillWrite(p, VaultFile,
                [pass |-> cmd.pass, keys |-> Changed(cmd, Entries(content[VaultFile]))],
                "idle", Nothing)
         ELSE End(p)

-----------------------------------------------------------------------------
\* The configuration.
NoProfiles == [default |-> Nothing, devices |-> {}]

\* What LoadConfig may return: nothing for a missing or an empty file, and for
\* the beginning of one whatever lines it still has, if they parse at all.
Loaded(c) ==
  CASE c.is \in {"absent", "empty"} -> {NoProfiles}
    [] c.is = "whole" -> {c.val}
    [] c.is = "cut" -> [default : {Nothing, c.val.default}, devices : SUBSET c.val.devices]

\* The default device, if there is one, has a profile, and there is one if there
\* is a profile.
DefaultKept(cfg) ==
  IF cfg.devices = {} THEN cfg.default = Nothing ELSE cfg.default \in cfg.devices

CannotLoad == content[ConfigFile].is = "cut"

Added(cfg, d) ==
  [default |-> IF cfg.default = Nothing THEN d ELSE cfg.default,
   devices |-> cfg.devices \cup {d}]

\* Mutant: the default device stays when its profile is removed.
RemovedKeepingDefault(cfg, d) ==
  {[default |-> cfg.default, devices |-> cfg.devices \ {d}]}

\* When the default device goes, any other one takes its place.
Removed(cfg, d) ==
  LET rest == cfg.devices \ {d}
  IN  [default : IF cfg.default # d THEN {cfg.default}
                 ELSE IF rest = {} THEN {Nothing} ELSE rest,
       devices : {rest}]

AddDevice(p, d)    == Run(p, [op |-> "add", dev |-> d], "config")
RemoveDevice(p, d) == Run(p, [op |-> "remove", dev |-> d], "config")

\* device add: load, put the profile in, save everything.
UpdateAdd(p) ==
  /\ proc[p].at = "config" /\ proc[p].cmd.op = "add"
  /\ \/ CannotLoad /\ End(p)
     \/ \E cfg \in Loaded(content[ConfigFile]) :
          WillWrite(p, ConfigFile, Added(cfg, proc[p].cmd.dev), "idle", Nothing)

\* device remove: the profile must be there.
UpdateRemove(p) ==
  /\ proc[p].at = "config" /\ proc[p].cmd.op = "remove"
  /\ \/ CannotLoad /\ End(p)
     \/ \E cfg \in Loaded(content[ConfigFile]) :
          IF proc[p].cmd.dev \notin cfg.devices THEN End(p)
          ELSE \E new \in Removed(cfg, proc[p].cmd.dev) :
                 WillWrite(p, ConfigFile, new, "idle", Nothing)

-----------------------------------------------------------------------------
\* The session token.  ParseTokenFile tries JSON, then lines of name = value,
\* then one line with a colon; anything else is a token as it stands.
Fields == {"token", "apiKey", "apiSecret", "username", "password"}

ParseTokenFile(file) ==
  CASE file.form = "json" /\ file.fields \cap {"token", "apiKey", "password", "username"} # {}
         -> file.fields
    [] file.form = "lines" /\ file.fields \cap {"token", "apiKey", "username"} # {}
         -> file.fields
    [] file.form = "empty" -> {}
    [] OTHER -> IF file.colon THEN {"apiKey", "apiSecret"} ELSE {"token"}

MadeBy(n) == [command |-> n]
Mem == [creds |-> {}, token |-> Absent, key |-> MadeBy(0)]

\* auth token import, for one device or for all of them.
ImportToken(p, file, d) ==
  /\ ParseTokenFile(file) # {}
  /\ Run(p, [op |-> "import", dev |-> d, creds |-> ParseTokenFile(file)], "secret")

\* Mutant: every import makes a new secret and forgets to keep it.
TakeSecretAlwaysNew(p) ==
  LET mem  == IF proc[p].mem = Nothing THEN Mem ELSE proc[p].mem
      next == IF proc[p].cmd.op = "import" THEN "seal" ELSE "unseal"
  IN  /\ proc[p].at = "secret"
      /\ WillWrite(p, SecretFile, MadeBy(proc[p].n), next,
                        [mem EXCEPT !.key = MadeBy(proc[p].n)])

\* getOrCreateSessionKeySecret: a secret that is missing, or shorter than 32
\* bytes, is replaced by a new one.
TakeSecret(p) ==
  LET mem  == IF proc[p].mem = Nothing THEN Mem ELSE proc[p].mem
      next == IF proc[p].cmd.op = "import" THEN "seal" ELSE "unseal"
      file == content[SecretFile]
  IN  /\ proc[p].at = "secret"
      /\ IF file.is = "whole"
         THEN /\ proc' = Remembers(p, next, [mem EXCEPT !.key = file.val])
              /\ UNCHANGED <<content, started, disturbed, torn, promised>>
         ELSE WillWrite(p, SecretFile, MadeBy(proc[p].n), next,
                        [mem EXCEPT !.key = MadeBy(proc[p].n)])

\* A write that fails ends the command, but whoever wanted to read the token goes
\* on without it when there is no secret to be had.
Failed(p) ==
  IF proc[p].then = "unseal"
  THEN [proc EXCEPT ![p] = [@ EXCEPT !.at = "loaded", !.file = Nothing, !.mem = Mem]]
  ELSE Ended(p)

\* StoreTempEncryptedToken, once it has the key.
SealToken(p) ==
  /\ proc[p].at = "seal"
  /\ WillWrite(p, TokenFile,
       [key |-> proc[p].mem.key, dev |-> proc[p].cmd.dev, creds |-> proc[p].cmd.creds],
       "idle", Nothing)

\* auth token status.
TokenStatus(p) == Run(p, [op |-> "status", dev |-> Nothing], "load")

\* LoadTempEncryptedToken reads the token before it takes the secret; without a
\* token file it does not touch the secret.
ReadToken(p) ==
  /\ proc[p].at = "load"
  /\ IF content[TokenFile] = Absent
     THEN proc' = Remembers(p, "loaded", Mem)
     ELSE proc' = Remembers(p, "secret", [Mem EXCEPT !.token = content[TokenFile]])
  /\ UNCHANGED <<content, started, disturbed, torn, promised>>

\* The token opens under the key it was sealed with, for its device.
Opens(token, key, d) ==
  /\ token.is = "whole" /\ token.val.key = key
  /\ d = Nothing \/ token.val.dev = Nothing \/ token.val.dev = d

UnsealToken(p) ==
  LET mem == proc[p].mem
  IN  /\ proc[p].at = "unseal"
      /\ proc' = Remembers(p, "loaded",
                   IF Opens(mem.token, mem.key, proc[p].cmd.dev)
                   THEN [mem EXCEPT !.creds = mem.token.val.creds] ELSE mem)
      /\ UNCHANGED <<content, started, disturbed, torn, promised>>

ShowStatus(p) == proc[p].at = "loaded" /\ proc[p].cmd.op = "status" /\ End(p)

\* auth token clear.
ClearToken(p) == Run(p, [op |-> "clear"], "clear")
RemoveToken(p) ==
  /\ proc[p].at = "clear"
  /\ IF content[TokenFile] = Absent THEN End(p) ELSE RemoveFile(p, TokenFile)

-----------------------------------------------------------------------------
\* What the stores should hold once p has written its file: the change its
\* command makes, applied to what the commands before it promised.
Promise(p) ==
  LET cmd == proc[p].cmd
      f   == proc[p].file
      was == promised[f]
      cfg == CHOOSE c \in Loaded(was) : TRUE
  IN  [promised EXCEPT ![f] =
         CASE f = VaultFile ->
                Whole([pass |-> cmd.pass, keys |-> Changed(cmd, Entries(was))])
           [] f = ConfigFile ->
                Whole([default |-> proc[p].out.default,
                       devices |-> IF cmd.op = "add" THEN cfg.devices \cup {cmd.dev}
                                   ELSE cfg.devices \ {cmd.dev}])
           [] OTHER -> Whole(proc[p].out)]

StartStoreCommand(p) ==
  \/ \E k \in Keys, pass \in Passphrases : SetVault(p, k, pass) \/ DeleteVault(p, k, pass)
  \/ \E d \in Devices : AddDevice(p, d) \/ RemoveDevice(p, d)
  \/ \E file \in TokenFiles, d \in Devices \cup {Nothing} : ImportToken(p, file, d)
  \/ TokenStatus(p) \/ ClearToken(p)

StoreStep(p) ==
  \/ UpdateVault(p) \/ UpdateAdd(p) \/ UpdateRemove(p)
  \/ TakeSecret(p) \/ SealToken(p) \/ ReadToken(p) \/ UnsealToken(p)
  \/ ShowStatus(p) \/ RemoveToken(p)
=============================================================================
