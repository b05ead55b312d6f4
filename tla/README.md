# Michibiki in TLA+

Michibiki is a command line and a terminal UI for network devices. A command
resolves a device profile and its credentials, creates a *provider* (built in,
or a plugin process), connects, asks the provider something, and disconnects.
This directory holds TLA+ specifications of the parts of it that keep state
and meet concurrency, failure or time; TLC configurations that check them on
small instances; and TLAPS proofs of the properties that matter most, for
every value of the constants.

Paths below are relative to `src/`.

## 1. Inventory

### Components

| Component | Code | State | Operations | Modelled in |
|---|---|---|---|---|
| plugin client | `pkg/plugin/client.go` | `nextID`, `closed`, `pending` (id -> one-slot channel), `writeMu`, the two pipes | `Call`, `Notify`, `Close`, the goroutine `readLoop` | `PluginClient` |
| plugin SDK server | `pkg/plugin/sdk/server.go` | the request being served | `Run`: scan, handle, respond | `PluginSession` |
| plugin object | `pkg/plugin/plugin.go` | `client`, `cmd`, `name`/`version`/`capabilities`, `mu` | `Connect`, `Disconnect`, `getClient` and the operations through it | `PluginLifecycle` |
| commit-confirm engine | `pkg/safety/safety.go` | `sessions` by id, one timer per session, `mu` | `StartCommitConfirm`, `Confirm`, `ListPending`, the timers | `SafetyEngine` |
| config commands | `internal/cli/safety.go` | none that outlives the process | `commit`, `rollback` | `CommitFlow`; `show`, `diff`, `validate` only read |
| built-in providers | `providers/*` | client, session token, SSH connection, `mu` | `Connect`, `Disconnect`, every query | `ProviderQueries`, `Providers`, `CommitFlow`, `Ipam`; without the translation of answers |
| HTTP and SSH clients | `pkg/client` | an SSH connection | `Do`, `Connect`, `RunCommand`, `Close` | `ProviderQueries`, `Providers`, in part |
| network handler, health | `internal/handler/network`, `internal/domain` | none | the overviews, the health score | `ProviderQueries`, `Providers`, without counts that are only shown |
| address management | `pkg/ipam`, `internal/cli/ipam.go` | none that outlives the command | subnets, free ranges, next free, check | `Ipam`, for IPv4 |
| terminal UI | `internal/tui/app.go` | `LastFetched`, selections, flash message, panes | `Update` on ticks, fetch results and keys | `Tui`, without scrolling and filter text |
| credential vault, resolver | `pkg/credential` | the encrypted vault file | `Set`, `Delete`, `Get`, `Resolve` | `Stores`, `Commands` |
| session token store | `internal/handler/auth` | secret file, session file | import, status, clear, load | `Stores` |
| configuration store | `pkg/config`, `internal/cli/device.go` | the profiles file | `device add`, `remove`, `LoadConfig`, `SaveConfig` | `Stores` |
| session handler | `internal/handler/session` | none | profile, provider, credentials of a command | `Commands` |
| plugin discovery, installation, registry, protocol | `pkg/plugin/discovery.go`, `install.go`, `protocol.go`, `pkg/provider` | plugin directories, the factory map | `DiscoverPlugins`, the installs, `Register`, `Create`, `ParseCapabilities` | `PluginStore` |
| read-only commands | the rest of `internal/cli` | none | connect, ask, print, disconnect | `Commands` (connecting), `Providers` (asking) |
| views, theme, styles | `internal/tui/views`, `theme` | none | rendering | not modelled: layout |

### How they interact

```
 command / TUI goroutines
      |  operations (snapshot of the client under the read lock)
      v
 plugin object --starts, kills, waits--> plugin process
      |  Call, Notify, Close                  ^   |
      v                                requests   responses
 plugin client ---- stdin pipe ---------------+   |
      ^ channels                                  |
      readLoop <---------- stdout pipe -----------+

 config commit --ApplyConfig--> provider --HTTP--> device
 commit-confirm engine --onRollback--> (no caller in the program)
```

- Many goroutines share one plugin client: the TUI's fetches overlap, and each
  call waits in a `select` over its context, the client's `closeCh` and a
  channel of its own that `readLoop` fills.
- `Close` is called by the plugin object and by `readLoop` itself.
- The plugin object serialises `Connect` and `Disconnect` under a write lock
  which it keeps across RPCs; the other operations leave the lock before they
  call.
- The engine's timers run in goroutines of their own and take the engine's
  lock; `onRollback` runs after it is released.
- The overviews of the network handler make several queries of one provider;
  the TUI runs them side by side, and the program's `Disconnect` runs when it
  quits, whatever is still on the way.
- Commands are processes. They meet in the user's files only: vault, profiles,
  session secret and token, plugin binaries. No command locks a file.

### What is hard, and what makes each part correct

- **Plugin client**: two sides and three kinds of goroutine meet in
  `pending`. Correct means: the reader never panics on a closed channel and
  never blocks on a caller; an answer reaches the call that asked; nothing
  stays registered after its call; and nobody waits for ever. The hazards are
  the unlocked sends at `client.go:169`, the second check of `closed` at
  `client.go:77`, answers that are late, repeated or for nobody, deadlines, and
  the death of the plugin.
- **SDK server**: exactly one response per request, no deadlock on two bounded
  pipes, and an end when the client is gone.
- **Plugin object**: processes and clients of several generations. No process
  is forgotten, fields of different generations never mix, and the lock does
  not keep an operation out for ever.
- **Commit-confirm engine**: a confirmation against a timer that has already
  fired; ids that are used again; a session that must not be left without a
  timer.
- **Config commands**: what is promised about `--confirm` against what runs.
- **TUI**: overlapping fetches that arrive out of order, selections into lists
  that shrink, flash messages cleared by an older message's timer.
- **Stores and plugin binaries**: files that several processes read, change and
  write back with no lock, and that a crash truncates. Correct means: nothing
  is lost but in such a race or crash, a damaged file is never taken for an
  empty one and written over where that can be told, and what one file says of
  another (token and secret, default device and profiles) stays true.
- **Providers**: a session read outside the lock that guards it, clients that
  are replaced while requests use them, SSH connections that must live as long
  as a command and no longer; queries whose failure looks like an answer.
- **Address management**: the ends of prefixes, tiny prefixes, overlapping
  subnets and lists that contradict each other or are missing.

`PROJECT.json` lists each hazard at its line with the properties that cover it; its
notes say which part of a hazard happens in the code and is excepted.

## 2. Modules

| Module | Models | Rests on |
|---|---|---|
| `PluginCalls` | abstract: what a call on the plugin client promises | |
| `PluginClient` | the client with an arbitrary plugin | |
| `MCPluginClient` | symmetry; the refinement mapping to `PluginCalls` | `PluginClient`, `PluginCalls` |
| `PluginClientProofs` | theorems, the refinement among them | `MCPluginClient` |
| `PluginSession` | the client composed with the SDK server | `PluginClient` |
| `MCPluginSession` | symmetry | `PluginSession` |
| `PluginSessionProofs` | theorems | `PluginSession`, `PluginClientProofs` |
| `PluginLifecycle` | the plugin object, its processes and clients | |
| `PluginLifecycleProofs` | theorems | `PluginLifecycle` |
| `SafetyEngine` | the commit-confirm engine | |
| `SafetyEngineProofs` | theorems | `SafetyEngine` |
| `CommitFlow` | `config commit` and `rollback`, to the device | |
| `Tui` | the event loop of the terminal UI, its fetches and timers | |
| `MCTui` | what fetches find in the small instance | `Tui` |
| `TuiProofs` | theorems | `Tui` |
| `ProviderQueries` | which requests every query and every overview makes, and what a failure becomes; the health score | |
| `Providers` | a built-in provider used by several goroutines | `ProviderQueries` |
| `MCProviders` | the answers of the small instance | `Providers` |
| `ProvidersProofs` | theorems | `Providers` |
| `Ipam` | address management and the `ip` commands | |
| `MCIpam` | the lists of the small instance | `Ipam` |
| `IpamProofs` | theorems | `Ipam` |
| `CliFiles` | processes that read, truncate and write files | |
| `Stores` | vault, profiles, session secret and token | `CliFiles` |
| `PluginStore` | plugin binaries: install, discovery, registry | `CliFiles` |
| `Commands` | every command, with the device commands that use all of them | `Stores`, `PluginStore` |
| `MCCommands` | the files of the small instance | `Commands` |
| `CommandsProofs` | theorems | `Commands` |

In each module the operators marked "Mutant" are wrong variants of the definition
that follows them. They are in no specification; putting one in the place of
its definition must break a property, which shows that the property says
something about the code (`PROJECT.json`, "mutants").

### PluginClient

A section between `mu.Lock` and `mu.Unlock` is one action, and so is each
operation outside it.

| Code (`client.go`) | Action |
|---|---|
| `Call`: first check of `closed` | `CallRefused`, `CallBegin` (with `nextID.Add`) |
| `Call`: second check and registration, locked | `CallRegister` |
| `writeLine` under `writeMu` | `CallWrite`, `NotifyWrite` |
| the three branches of the `select` | `SelectCtx`, `SelectClosed`, `SelectResponse` |
| the deferred `delete(c.pending, id)` | `CallReturn` |
| the context's deadline or cancellation | `Expire`, and `CallBegin` with a context that is done |
| `Close`: locked section; the pipes | `Close`; `ClosePipes` |
| `readLoop`: a line, its lookup, locked | `ReadLoopLine` |
| `readLoop`: `ch <- &resp`, not locked | `ReadLoopSend` |
| `readLoop`: end of file, deferred `Close` | `ReadLoopEOF`, `ReadLoopClose` |

A response line is its id and whether it is an error: a line that does not
parse and one without an id are both `id = 0`, because `readLoop` skips both.
A pipe is a bounded queue of lines. The plugin (`PeerRead`, `PeerWrite`,
`PeerExit`) is any program: it may send any line at any time, repeat one,
invent ids, say nothing, or die. `writeMu` has no variable: while its holder
waits for room in the pipe, those who wait for the lock wait for the same room,
so the write with its lock is one action.

Left out: the encoding of parameters and the decoding of results, whose errors
end a call without touching shared state.

### PluginSession

Replaces the arbitrary plugin by `Server.Run`: `ServerScan`, `ServerHandle`
(any method; a result or an error), `ServerWrite`, and `ServerStop` at the end
of its input or at a line that is too long. Which provider method a request
calls is not distinguished: every path of `handleRequest` ends in exactly one of
`sendResponse` and `sendError`. The plugin of `PluginClient` being arbitrary,
this one is a special case of it, and what is proved of the client holds here
(the lemma `SessionIsClient` of `PluginSessionProofs`).

### PluginLifecycle

Process *k* and client *k* are made together by the *k*-th `Start`. `client`,
`cmd` and `info` are the fields of the plugin object, each holding a number.
`Connect` is `ConnectBegin` (the earlier generation is closed and killed),
`ConnectStart` or `ConnectStartFails`, `ConnectHandshake`, `ConnectDone`, with
`ConnectFails` from either call; `Disconnect` is `DisconnectBegin`,
`DisconnectCall`, `DisconnectWait` (`cmd.Wait`). `GetClient` and `UseEnds` stand
for all operations that take a snapshot of the client and call through it. What
a call on a client does is the subject of the modules above; here it ends, well
or not.

### SafetyEngine

The timer is a closure over an *id*, not over a session, which is what makes
the engine interesting. `StartArm` and `StartInsert` are the two halves of
`StartCommitConfirm` under its lock: the timer is armed before the session is
registered and may fire in between. `Confirm` is one locked section. A timer
goes through `TimerFire` (the goroutine exists), `TimerSection` (its locked
section) and `Rollback` (`onRollback`, after the lock). Time is abstract: a
timer fires at any moment and timers fire in any order.

The ids in `ReusableIds` may be given to several commits, the others to one.

### CommitFlow

`commit` and `rollback` as processes: read, connect, one request, print, exit.
`ApplyConfig` of OPNsense posts the candidate and may lose the response; the
other providers' bodies return success without a request. `CommandFails` stands
for every failure before there is a connection.

### Tui

`Update` as a set of actions: `Tick`, `ClearFlash` and `DataFetched` for its
messages, one action per key or group of keys that differ in a parameter. A
fetch is known by its number, in the order of the starts (`FetchTime`), and ends
in any order (`inflight`); `shown` is the fetch that `LastFetched` is of. A list
is its length, drawn from the constant `Results` when a fetch ends: a provider
call that fails leaves its list empty. `sel` holds the three indices of the dock
and `IPAMSelected`. Keys that only scroll, edit the text of the filter or
change the window leave the modelled state alone and have no action.

### ProviderQueries and Providers

`ProviderQueries` is a table read off the six providers: a query is the list of
its requests (`needed`, `optional`, or a `fallback` for the one before) and
what the caller gets when they fail (an `error`, an `empty` list, or a
`placeholder`). `NetworkHandler` lists the queries of each operation, the
capability it needs, and whether an error is returned (`Must`) or dropped
(`May`). `Do`, `CallUbus`, `Figures`, `Gateways`, `CalculateHealthScore` and
`StatusSummary` are the functions of those names, on the data that decides
success and health. `Has` is the check of a capability that goes before a query;
`FigureAlarms` and `GatewayAlarms` name what in an answer should alarm the operator.

| Code | Action of `Providers` |
|---|---|
| an operation of `NetworkHandler`: capability, then query after query | `StartOperation`, `NextQuery`, `EndOperation` |
| `getClient` under the read lock | `GetClient` |
| a request; `callUbus` reads `p.sessionID` with no lock | `Send`, `AnswerHTTP` |
| FRR: `runVtysh`, under the read lock to its end | `RunVtysh`, `AnswerSSH` |
| `Connect` of the HTTP providers; OpenWrt's login, under the lock | `ConnectHTTP`, `Login` |
| `Connect` of FRR: host keys, dialling, under the lock | `DialSSH`, `ConnectSSH` |
| `Disconnect` | `Disconnect` |

A connection is a number. The string `sessionID` is the number of the
connection it was got on, or `Mixed` while `Login` writes it: the read races
with the write. Left out: how answers become model types, and the redirects,
TLS and headers of the HTTP client. `Answered` and `Missed` are the step from one
request of a query to the next, for every query of every provider: what is
particular to a query is in its entry of the table, so they have no lines of
their own in `PROJECT.json`, "map".

### Ipam

One command: `Begin`, the four reads (of which only the first may fail it),
`Discover`, then for every subnet `StartSubnet`, the walk over its usable
addresses one by one (`WalkFree`, `WalkAllocated`: the two branches of the loop
of `calculateFreeRanges`), `CloseSubnet`; `Select` sorts and filters; `AnswerFree`
and `AnswerCheck` are `ip free`/`ip usage` and `ip check`. An address is a number of
`Width` bits. Texts that do not parse are not in the lists. What a peer is allowed
is a list of prefixes or bare addresses (`AllowedIP`), of which `PeerAddrs` keeps
the address alone, as the code does. The text that selects subnets is the record
of what it is equal to or contained in; `MatchSubnet` looks at the former, and
`Filter` at the latter when `MatchSubnet` finds nothing. `DiscoverSubnets`,
`MatchSubnet`, `FindNextFree` and `ValidateIPAvailable` are operators of those
names. Sorting by text is any order of the numbers. IPv6 is left out: no subnet
is discovered from an IPv6 address of an interface.

The list of interfaces has an entry per address, in the order of the two loops
that read it. A list of subnets is a function on positions, with gaps where an
entry gave no subnet or one seen before (`Distinct`): `todo` holds the positions still
to be walked, `subnet` is the one that is walked. `Mask` rounds down to a multiple
of the block's size.

### CliFiles, Stores, PluginStore, Commands

`CliFiles` is the ground the other three stand on: `Run` starts a command in a
process, `WillWrite` records that it has looked at a file and is about to
write, `OpenFile` truncates, `WriteFile` and `BreakOff` end the write well or not,
`Kill` ends a process between two steps. `disturbed`, `torn` and `promised` are
history variables for the properties. A cut file is a value of its own (`Cut`),
distinct from an empty and from a missing one, because the code treats the
three differently: an empty configuration loads as no profiles, a cut one may
load as some of them or not at all; an empty or cut vault does not decrypt; a
secret that is not whole is replaced.

A write that fails ends its command, with one exception (`Failed`): whoever wants to
read the session token goes on without it when a new secret cannot be written.
`auth token status` then shows no session, and a device command looks for
credentials elsewhere. A session that is opened by URL and has no profile is that of
a device "ephemeral", which a token imported for a device does not open.

| Code | Action |
|---|---|
| `VaultStore.Set`, `Delete` | `SetVault`, `DeleteVault`, `UpdateVault` |
| `device add`, `remove` | `AddDevice`, `UpdateAdd`; `RemoveDevice`, `UpdateRemove` |
| `auth token import`: `ParseTokenFile`, `getOrCreateSessionKeySecret`, `StoreTempEncryptedToken` | `ImportToken`, `TakeSecret`, `SealToken` |
| `auth token status`: `LoadTempEncryptedToken` | `TokenStatus`, `ReadToken`, `TakeSecret`, `UnsealToken`, `ShowStatus` |
| `auth token clear` | `ClearToken`, `RemoveToken` |
| `plugin install` from a file, module, URL, archive | `InstallPlugin`, `Fetch`, `FetchFails`, `StatTarget`, `TooLarge` |
| `DiscoverPlugins`, `InspectPlugin` | `BeginSearch`, `NextDirectory`, `InspectNext`, `EndSearch` |
| `plugin list`, `plugin info` | `ListPlugins`, `LoadProfiles`, discovery, `ShowPlugins` |
| a device command: `ResolveAndConnectWithProvider`, `ResolveCredentials`, `Resolver.Resolve` | `Connect`, `LoadProfiles`, discovery, `PickProfile`, `ChooseCredentials`, `ReadToken`, `TakeSecret`, `UnsealToken`, `ResolveCredentials`, `UseDevice` |

Cryptography is what it promises: a vault opens under its passphrase, a token
under the secret it was sealed with, and nothing cut opens at all.

What the files hold before the first command is the constant `Before`, any set of
contents in which no file is cut, the default device has a profile, and a token
opens under the secret there is (`BeforeAssumption`). The four stores are four paths
(`StoresAssumption`), and no plugin is installed over one of them (`TargetsAssumption`).

## 3. Runs

| Run | Instance | Shows |
|---|---|---|
| `client_safety` | 2 callers, 1 closer, 3 ids, pipes of 1 | no send on a closed channel, `readLoop` never blocks, answers reach their own call, no forgotten waiter, nothing registered but calls in progress, and nothing once the client is closed; `PluginClient` implements `PluginCalls` |
| `client_liveness` | 1 caller, 1 closer, 3 ids | deadlines end calls, `Close` ends calls and the reader, the exit of the plugin closes the client |
| `session_safety` | 2 callers, 1 closer, 3 ids | a request is in one place only and served once; nobody waits for an answer that is not coming |
| `session_liveness` | 1 caller, 1 closer, 3 ids | every call ends without a deadline; after `Close` an SDK plugin ends |
| `lifecycle` | 3 goroutines, 2 processes | no forgotten process, no mixed generations, every operation ends |
| `engine` | ids used once and an id used again, 3 commits | a pending session has a timer that will remove it; every commit is settled once; a confirmed one is never rolled back if its id is its own; an unconfirmed one is |
| `engine_reuse` | 1 id, 2 commits | **violated**: with a reused id, a confirmed commit is rolled back |
| `commit_confirm` | 2 configurations, 2 providers | **violated**: `--confirm` starts no timer |
| `tui` | 3 fetches, 2 flash timers, lists of 0 to 2 items | selections stay within lists that shrink under them, SYNCING and messages go out |
| `commands` | 2 processes, 2 commands of any kind, 24 states of the files before them | a file nobody raced for holds what the commands reported; a token stays readable, the default device keeps a profile, a plugin is not replaced without `--force` |
| `providers` | 6 kinds of provider, 2 goroutines, 4 operations, 2 connections | connected overviews succeed; a device with an alarm is not shown as healthy; a request carries the session of its connection; no SSH connection goes under a running command |
| `ipam` | 16 addresses, 9 queries, lists with overlaps, contradictions and peers' prefixes | free ranges are exact, the three commands agree, no address that a list names is offered |

### Bounds, and why they are enough

- *Two callers* make every pair of a call and another actor meet; the
  interaction of callers is only through `pending`, the pipe and `nextID`.
  *Three ids* let one caller time out and call again while the answer to its
  first call is under way, with the other caller in between. The two liveness
  runs have one caller, who meets the closer, `readLoop` and the plugin and can
  fill both pipes with calls it gave up. `session_liveness` with two callers and
  two ids (`Callers = {p1, p2}`, `MaxId = 2`) holds too, in half a million states;
  it takes five minutes and is not among the runs.
- *One kind of response body* (`Bodies`) in the client's and the session's runs:
  whether an answer is a result or an error decides only what the caller
  returns. The refinement is proved for any bodies.
- *Pipes of one line* block both sides as early as can be; longer pipes only
  block later.
- *One closer besides `readLoop`* gives the two concurrent `Close` calls the
  program can have.
- *Two processes* for the plugin object are an earlier and a later generation;
  three goroutines are two in `Connect`/`Disconnect` and an operation.
- *Three starts* are a commit, one that overwrites it, and one to be confused
  with; ids `b` and `c` are used once, `a` up to three times.
- *Three fetches* are one that is overtaken by a second, and a third that
  replaces what they left; the lists shrink from two items to one and to none.
- *Two commands* are a pair that races; what an earlier command may have left
  behind is in `MCBefore`, the files before the first one. Three plugin files
  in two directories, one of them listed twice, give a name that hides another
  and a path seen before.
- *Two connections, four operations* are a Connect, an operation, a Disconnect
  or second Connect that comes in between, and one more operation.
- *Four bits of address* with walks from one bit on give a subnet that is too
  large to walk, ordinary ones, a pair, a single address, and subnets at both
  ends of the address space. The theorems hold for any width.
- `MaxId`, `PipeCap`, `MaxProcs`, `MaxStarts`, `MaxFetches`, `MaxTimers`,
  `MaxCommands`, `MaxCalls` and `MaxConnections` are the bounds of counters. But
  for `PipeCap` they are bounds of the model: the program does not bound them.

Deadlock is checked in the runs of the plugin modules, the engine and
`CommitFlow`. In `Tui` quitting ends everything, an `ip` command ends with its
answer, and in `Commands` and `Providers` the bounds on commands and operations
are reached with everybody idle. In the violated runs the behaviour
that TLC prints is the evidence; see "Findings".

### Fairness

- Goroutines: the Go scheduler runs every runnable goroutine, hence weak
  fairness of what a goroutine does by itself once it is inside an operation
  (`CallerStep`, `ReadLoop`, `ClosePipes`, `Work`, `StartInsert`). Never of
  *starting* an operation, of a context expiring, of a plugin acting or
  exiting, of a `Confirm`.
- Locks: a goroutine waiting for a lock gets it although others take it again
  and again: a Go `Mutex` in starvation mode hands over in the order of
  arrival, and an `RWMutex` lets no later reader pass a waiting writer. This
  is strong fairness of `TimerSection` and `Lock`. In `PluginSession` the same
  holds of the writes, whose waiters wait for `writeMu`.
- Timers: an armed timer fires (weak fairness of `TimerFire`, `ClearFlash`).
- Processes: an SDK server goes on and its provider's methods return
  (`WF(Server)`, in `PluginSession` only); a killed process exits
  (`PluginLifecycle`).
- `CommitFlow`: a command that has begun ends. What the operator starts is his.
- `Commands`, `Providers` and `Ipam` have no fairness and no liveness property: a
  command may be killed anywhere, and a device may never answer a request whose
  context has no deadline.

In `PluginLifecycle` that calls end is an assumption (weak fairness of `Work`):
`EveryCallEnds` shows it of SDK plugins. It is not true of a plugin that never
reads its stdin, for as long as the pipe is full: see the limits below.

## 4. Proofs

TLC finds out on the instances above; the theorems hold for any set of
goroutines, any ids and any bounds. No theorem has a hypothesis of its own; they
rest on the named assumptions of the modules, which TLC evaluates:

- `MaxId`, `PipeCap`, `MaxProcs`, `MaxStarts` positive; the model values for "nobody" and
  "nothing" not among the values they stand beside; the lengths in `Results` natural
  numbers;
- `AnswersAssumption`: the figures of a device are natural numbers, its lists of
  gateways are finite;
- `ListsAssumption`: the four lists of an `ip` command are sequences of what their
  names say;
  `BlockAssumption`: facts about powers of two and about `a % Block(b)` that the
  provers cannot compute;
- `StoresAssumption`, `TargetsAssumption`, `BeforeAssumption`: see "CliFiles, Stores,
  PluginStore, Commands".

All safety properties of the passing runs, state invariants and action
properties, are stated by a theorem; the liveness properties are not.

**`PluginClientProofs`**. `Spec => []ClientInv` and from it `TypeCorrect`,
`NoPanic`, `NoBlocking`, `Correlation`, `NoLeak`, `NoLateRegistration`,
`NoLostWaiter`. None of these
is inductive by itself. That `readLoop` does not send on a closed channel needs
that the id in its hands is no longer pending (`SendOwned`), since `Close`
closes what is pending; that the slot it fills is empty needs that what is
pending is empty (`PendingUntouched`), that an id is registered once, hence that
ids are fresh (`FreshIds`) and belong to one call each (`CallsOwnTheirIds`,
`UnregisteredIds`). `NoForgottenWaiter` holds of a call from its registration
on, so `WaitersKnown` starts there. There is one lemma per action, under it one
step per conjunct the action disturbs. The plugin being arbitrary, these hold
with every plugin.

The same module proves the refinement, `Spec => ImplementsPluginCalls` (theorem
`ClientImplementsCalls`). The mapping reads the state of a call off several
variables (`InProgress`, `Answered`, `Ended`), so the proof needs, besides `ClientInv`,
that a call about to return has the reason its outcome tells (`ReasonsKnown`,
`GotAtReturn`) and that channels are closed only with the client
(`OpenUntilClosed`). There is one lemma per action: it is a step of the abstract
module, or leaves its variables alone.

**`PluginLifecycleProofs`**. `Spec => []LifecycleInv`, giving `NoOrphanProcess`,
`OneGeneration`, `OnlyConnectedPluginsAreAsked` and `ReplacedClientsAreClosed`.
The strengthening is that whoever is inside `Connect` or `Disconnect` holds the
lock, so there is one of them (`LockHeld`), and what it has done to the fields
at each point (`Fields`).

**`PluginSessionProofs`**. First the lemma `SessionIsClient`: the SDK server is a
plugin, so what is proved of the client with any plugin holds here
(`SessionNoPanic` is the example). Then the client's invariant is strengthened to `SessionInv`: the sets of ids
asked, served, answered, held by `readLoop` and buffered are disjoint
(`OnePlace`), no id is twice in a pipe (`OnceInPipes`), what is not yet written is
nowhere (`UnsentIds`). From it `RequestServedOnce`, whose cardinalities are
reduced to membership by `AtMostOne`, and `WaiterIsServed`.

**`SafetyEngineProofs`**. `Spec => []EngineInv`, giving `PendingHasTimer` for all
ids and `ConfirmIsFinal`, an action property, for ids used once. The argument
for the latter: after a `Confirm` of an id of its own there is no session under
it and no start in progress (`ConfirmedIds`), so the timer's section finds
nothing; and a callback that is under way belongs to an id never confirmed
(`CallbackUnconfirmed`), because the section that decided on it had removed the
session that a `Confirm` needs.

`RollbacksUseUpSessions` counts: there are never more callbacks, run or under way, than
sessions that expired. A step that adds a callback (`TimerSection`) adds an expired
session in the same step; that this one is new is `FatesOpen` (`CountInv`): a session
in the map, or about to be put there, has no fate yet. Sets of starts are finite,
so the lemmas on cardinality of the library apply.

**`TuiProofs`**. `Spec => []TuiInv`, giving `SelectionsInRange` and
`LoadingHasAFetch`. Two lemmas about `Clamp` and `Moved` carry the arithmetic
for lists of any length and steps of any size; `FetchesKnown` keeps a new fetch
apart from those in flight.

**`ProvidersProofs`**. `Spec => []ProvidersInv`, giving `SessionOfItsConnection` and
`SSHConnectionsKept` for any goroutines, answers and number of connections. The
argument: the session is that of the connection if this was made when there
was none (`SessionFits`); an operation whose client is not the current one any
more has noticed (`ClientFits`); while a Connect logs in, everybody who is asking
has (`LoginIsNoticed`); and a running FRR command holds the lock that closing its
connection needs (`CommandsLock`). What an operation goes through between two
requests (`Fails`, `Answered`, `Missed`, `Heard`) keeps its client and session:
lemmas about these operators carry that, whatever the tables of
`ProviderQueries` say.

A second invariant, `OperationsInv`, follows an operation through the tables:
which queries are left at each point (`DeviceLeft`, `ServicesLeft`), that an
operation which met no client knows it (`CutFits`), that a failure of one that
was never cut off comes from a request that failed, and never in the two
overviews (`FailureFits`: every provider makes a placeholder of a system query
that fails, by `SystemQuery`, and the overviews drop the errors of all other
queries). From it `ConnectedOverviewsSucceed`. For `HealthyMeansNoAlarm` it also
says what the operation has heard: the figures and the alarms in them come from
one answer of the device, the gateways and theirs from another (`FiguresFit`,
`GatewaysFit`); a figure that alarms costs the score enough, and so does a
gateway that is down, however many there are.

**`IpamProofs`**. `Spec => []IpamInv`, and from it `RangesAreExact`, for any
width of addresses and any lists. The invariant of the walk is `WalkedTo`: what
lies before the open run is settled, and the run does not touch the range before
it. `RunNext` and `TakenNext` are the lemmas about appending a range and about
stepping over a taken address; `SubnetsAreNetworks` says that what
`DiscoverSubnets` finds are prefixes, which gives the walk its bounds.

`CommandInv` carries that to the answers: a finished subnet is a report (`Reports`)
about the lists still held, because lists are read only before the first subnet is
finished (`ReadingOK`), and the selected ones are among the finished
(`SelectedOK`). `FreeAndCheckAgree` then is a count: the free addresses are the
interval of usable ones without those known (`FreeAddrsOfRanges`,
`UsableAddrs`), the library's lemmas give the cardinality of an interval and of a
difference. `NoNamedAddressIsOffered` follows from the same lemma and `KnownInSubnet`.

**`CommandsProofs`**. `Spec => []CommandsInv`, giving
`FilesHoldWhatCommandsReported`, `TokenStaysReadable`, `DefaultNamesAProfile`
and the action property `NoOverwriteWithoutForce`, for any processes, commands,
plugin files and any number of commands. That a file holds what was promised is
not inductive: between the decision to write and the end of the writing the file
is empty, and what will be written was computed from what the process read
earlier. `Intends` says of a process with a file in its hands that nobody
disturbed: it is alone with it; what it will write is its command's change
applied to what was *promised*; the file is empty while it writes; a secret
about to be made replaces none that is whole; a plugin about to be written
replaces a whole one with `--force` only. `TokenOK` follows the key from the
secret through the memory of the process to the sealed token (`SealsWith`); that
the secret cannot change under it is again `Intends`. `ConfigOK` needs no
condition on races: whatever was loaded, `Added` and `Removed` keep the default
device (`AddedKeepsDefault`, `RemovedKeepsDefault`), unless a cut configuration
was loaded. There is one lemma per kind of step on files (`WillWriteStep`,
`OpenStep`, `FinishStep`, `OpenFailsStep`, `BreakOffStep`, `RemoveStep`,
`QuietStep`), and the
steps of the commands are reduced to those.

Only model-checked is what holds under fairness, out of the prover's reach:
`ContextEndsCall`, `CloseEndsCalls`, `PluginExitClosesClient`, `ReadLoopEnds`,
`EveryCallEnds`, `CloseEndsPlugin`, `EveryOperationEnds`, `UnconfirmedIsRolledBack`,
`FlashEnds`; and the absence of deadlock, which speaks of ENABLED. `CommitFlow` has a
run that is violated and no theorem.

## 5. Findings

- **`commit --confirm` starts no timer.** `README.md` promises a "Commit-confirm
  with automated countdown rollback (`--confirm 60`)". `internal/cli/safety.go`
  puts the seconds into the request and prints that a rollback timer is started;
  no provider acts on the seconds, the command makes a `SafetyEngine` only to
  inspect the candidate, and the process exits (`commit_confirm`).
- **A reused id lets a fired timer roll back a confirmed commit.** `TestCommitConfirmSuccess`
  says that "rollback should not have been triggered after confirmation". The timer
  that fired before the confirmation removes whatever session its id names when
  it gets the lock, so a second commit under that id disappears and the rollback
  of the first runs (`engine_reuse`).

Seen while modelling, in no run:

- The rollback command that `commit` prints "to confirm" is the one that reverts
  (`internal/cli/safety.go:173`); the timer is announced also without `--confirm`;
  `CommitSession.Done` is never closed.
- `ApplyConfig` and `RollbackConfig` of frr, vyos, openwrt, pfsense and routeros
  report success without doing anything; on OPNsense `rollback` without an id
  always fails. `showCommand` of vyos is never called: no query of that provider
  sends a request.
- `p` opens the plugin tab with any provider, though the help says "if plugin
  provider" (`internal/tui/app.go:1413`) and the handler of `5` asks.
- A fetch that was started before a reload and ends after it takes SYNCING
  away, and the result of an older fetch replaces that of a newer one; while a
  filter is set, the interfaces view highlights the selected row of the
  filtered list and `y` yanks that of the whole list; `ctrl+c` does not quit while
  the filter is typed or the help is shown.
- `ip free` prints "Subnet is fully exhausted!" of a subnet too large to be
  walked, next to its count of free addresses (`internal/cli/ipam.go:205`). An
  address whose list could not be read counts as free: the errors of three of
  the four lists are dropped (`providers/opnsense/opnsense.go:570`).
- Of a WireGuard peer's `AllowedIPs` only the address a prefix is written with counts
  as taken (`pkg/ipam/ipam.go:206`): with 10.0.0.8/29 in the list, `ip free` offers
  10.0.0.9 to 10.0.0.15 and `ip check` calls them available, though their traffic
  is routed to the peer. `NoNamedAddressIsOffered` is stated accordingly.
- A second `Connect` of frr leaves the first SSH connection open (`frr.go:97`);
  a failed login of OpenWrt leaves the session of the connection before it
  (`openwrt.go:87`); an answer of ubus that holds only a status, such as a refusal,
  counts as success (`openwrt.go:164`). The properties of `Providers` are stated
  with these exceptions named (`replaced`, `clean`, `said`).
- A page of HTML, such as a login page, is taken for the running configuration of
  OPNsense, because only answers expected to be JSON are looked at (`http.go:141`).
- A secret that was cut short is replaced by whoever reads it next, also by
  `auth token status`: the token there is can no longer be opened.

## 6. Limits

- A call that waits for `writeMu` or for room in the pipe does not look at its
  context: `ContextEndsCall` starts at the `select`. With a plugin that does not
  read, a call can only be ended by `Close`.
- `Connect` holds the write lock while the plugin connects to its device, for as
  long as that takes.
- A killed process is not waited for in `Connect`: it may stay a zombie
  (`NoOrphanProcess` says "killed", not "reaped").
- An error of `onRollback` is discarded; the engine does not retry, and neither
  does the model.
- Two calls of `Connect` and operations in between are something the provider
  interface allows; of the program's own goroutines only the `Disconnect` at the
  end of the TUI runs beside operations.
- The SSH handshake has no timeout of its own and runs under the provider's lock
  (`ssh.go:118`): a device that accepts the connection and says nothing holds
  everybody who wants the client.
- The number of overlapping fetches of the TUI is not limited by the program.
- Lost updates and files that a crash cut do happen (`disturbed`): the properties
  of `Commands` say what holds in their absence, and which of them do no further
  harm (`DefaultNamesAProfile` holds in races also).
- The properties of `Ipam` take the lists as the program does: the addresses that a
  peer's prefix covers, beyond the one it is written with, are free to them.
- Not modelled: contents of messages, configurations and credentials, encoding,
  formatting, cryptography, the translation of devices' answers, redirects and
  TLS of the HTTP client, IPv6 prefixes, the difference of two configurations
  (`computeSimpleDiff`), the filter text and scrolling of the TUI, its views.

## 7. Plan

What is left, in this order:

1. Compositions: `SafetyEngine` with a device, to state what an engine that
   somebody called would give the operator; `PluginLifecycle` over `PluginCalls`;
   `Tui` over `Providers`, quitting included.
2. An abstract specification of the stores (atomic maps) that `Commands` implements
   while nothing is `disturbed`; `CommandsInv` holds most of what its proof needs.
3. IPv6 in `Ipam`.
4. `computeSimpleDiff` against a reference definition.
