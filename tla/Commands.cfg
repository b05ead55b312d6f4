CONSTANTS
  Procs = {p1, p2}
  MaxCommands = 2
  Nothing = Nothing
  Files = {vault, config, secret, token, custom, home, ours}
  FixedSize = {secret}
  VaultFile = vault
  ConfigFile = config
  SecretFile = secret
  TokenFile = token
  Keys = {"k1", "k2"}
  Passphrases = {"s1", "s2"}
  Devices = {d1, d2}
  TokenFiles <- MCTokenFiles
  Directories <- MCDirectories
  Refused = {2}
  NameInPath <- MCNameInPath
  TargetFiles = {custom, home}
  Binaries <- MCBinaries
  Mute = Mute
  BuiltIn = {"frr"}
  Providers = {"acme", "frr"}
  Before <- MCBefore
  vault = vault
  config = config
  secret = secret
  token = token
  custom = custom
  home = home
  ours = ours
  d1 = d1
  d2 = d2
SPECIFICATION Spec
SYMMETRY Processes
INVARIANTS
  FilesHoldWhatCommandsReported
  TokenStaysReadable
  DefaultNamesAProfile
PROPERTIES
  NoOverwriteWithoutForce
CHECK_DEADLOCK FALSE
