----------------------------- MODULE PluginStore -----------------------------
(***************************************************************************)
(* The plugin binaries: how `plugin install` brings them to a directory    *)
(* (pkg/plugin/install.go), how every device command finds them there      *)
(* (pkg/plugin/discovery.go) and what the registry makes of them           *)
(* (pkg/provider/provider.go).                                             *)
(*                                                                         *)
(* The content of a binary is the name its handshake gives, Mute when it   *)
(* does not answer, and its capabilities.  The operating system refuses to *)
(* run a file that is open for writing, and to open a running one: opening *)
(* may fail anyway, see OpenFile.                                          *)
(***************************************************************************)
EXTENDS CliFiles, SequencesExt

CONSTANTS
  Directories,  \* the search path: the plugin files of each directory, listed
  Refused,      \* the positions of directories that are not looked into
  NameInPath,   \* NameInPath[f]: the name of file f without the prefix
  TargetFiles,  \* the files `plugin install` may write
  Binaries,     \* what may be installed
  Mute,         \* the handshake name of a program that is not a plugin
  BuiltIn       \* the providers compiled in

\* ParseCapabilities: "all" or "*" stands for everything, an unknown word for
\* nothing.
Capabilities == {"system", "interfaces", "routing", "firewall", "nat", "dhcp", "dns",
                 "wireguard", "bgp", "ospf", "monitoring", "config", "ipam"}
ParseCapabilities(words) ==
  IF words \cap {"all", "*"} # {} THEN Capabilities ELSE words \cap Capabilities

-----------------------------------------------------------------------------
\* plugin install, from a local file, a Go module, a URL or an archive there.
InstallPlugin(p, f, bin, how, force) ==
  Run(p, [op |-> "install", file |-> f, bin |-> bin, how |-> how, force |-> force], "fetch")

\* The source is opened, built or downloaded, or it is not there, or an archive
\* holds no provider; an entry that is a link does not count.
Fetch(p) ==
  /\ proc[p].at = "fetch"
  /\ proc' = Moved(p, "stat")
  /\ UNCHANGED <<content, started, disturbed, torn, promised>>

FetchFails(p) == proc[p].at = "fetch" /\ End(p)

\* Mutant: --force is not asked for.
StatTargetForced(p) ==
  /\ proc[p].at = "stat"
  /\ WillWrite(p, proc[p].cmd.file, proc[p].cmd.bin, "idle", Nothing)

\* A plugin that exists is only replaced with --force.
StatTarget(p) ==
  /\ proc[p].at = "stat"
  /\ IF content[proc[p].cmd.file] # Absent /\ ~proc[p].cmd.force THEN End(p)
     ELSE WillWrite(p, proc[p].cmd.file, proc[p].cmd.bin, "idle", Nothing)

\* InstallFromURL and the archives give up a binary of more than maxPluginSize
\* once it is written, and remove it; a file or a module has no limit.
TooLarge(p) ==
  /\ proc[p].at = "write" /\ proc[p].cmd.op = "install"
  /\ proc[p].cmd.how = "url"
  /\ RemoveFile(p, proc[p].file)

\* The whole binary has been copied.
PromisePlugin(p) == [promised EXCEPT ![proc[p].file] = Whole(proc[p].out)]

-----------------------------------------------------------------------------
\* DiscoverPlugins.  mem: the directory looked into, the files of it that are
\* left, the paths seen and the plugins found so far.
Search == [dir |-> 0, left |-> <<>>, seen |-> {}, found |-> <<>>]

\* plugin list and plugin info load the configuration for its plugin directory.
ListPlugins(p) == Run(p, [op |-> "list"], "profiles")

BeginSearch(p) ==
  /\ proc[p].at = "discover"
  /\ proc' = Remembers(p, "search", Search)
  /\ UNCHANGED <<content, started, disturbed, torn, promised>>

\* The next directory is listed.
NextDirectory(p) ==
  LET mem == proc[p].mem
      dir == mem.dir + 1
  IN  /\ proc[p].at = "search" /\ mem.left = <<>>
      /\ mem.dir < Len(Directories)
      /\ proc' = Remembers(p, "search",
           [mem EXCEPT !.dir = dir,
                       !.left = IF dir \in Refused THEN <<>>
                                ELSE SelectSeq(Directories[dir], LAMBDA f : content[f] # Absent)])
      /\ UNCHANGED <<content, started, disturbed, torn, promised>>

\* InspectPlugin starts the program and asks for its name, within 3 seconds.  A
\* plugin that is slow, cut or still being written does not answer: it gets the
\* name in its path and no capabilities.
Answers(p, f) ==
  /\ content[f].is = "whole" /\ content[f].val.name # Mute
  /\ \A q \in Procs \ {p} : ~(proc[q].at = "write" /\ proc[q].file = f)

Inspected(p, f) ==
  {[file |-> f, name |-> NameInPath[f], caps |-> {}]} \cup
  (IF Answers(p, f)
   THEN {[file |-> f, name |-> content[f].val.name,
          caps |-> ParseCapabilities(content[f].val.caps)]}
   ELSE {})

\* seenNames: the first plugin of a name counts.
Found(found, i) ==
  IF \E k \in DOMAIN found : found[k].name = i.name THEN found ELSE Append(found, i)

\* One entry: a path seen before is skipped, one that is gone by now too.
InspectNext(p) ==
  LET mem == proc[p].mem
      f   == Head(mem.left)
      rest == [mem EXCEPT !.left = Tail(mem.left), !.seen = @ \cup {f}]
  IN  /\ proc[p].at = "search" /\ mem.left # <<>>
      /\ \/ /\ f \in mem.seen \/ content[f] = Absent
            /\ proc' = Remembers(p, "search", [mem EXCEPT !.left = Tail(mem.left)])
         \/ /\ f \notin mem.seen
            /\ \E i \in Inspected(p, f) :
                 proc' = Remembers(p, "search", [rest EXCEPT !.found = Found(mem.found, i)])
      /\ UNCHANGED <<content, started, disturbed, torn, promised>>

EndSearch(p) ==
  /\ proc[p].at = "search" /\ proc[p].mem.left = <<>>
  /\ proc[p].mem.dir = Len(Directories)
  /\ proc' = Moved(p, "found")
  /\ UNCHANGED <<content, started, disturbed, torn, promised>>

\* plugin list and plugin info print what was found.
ShowPlugins(p) == proc[p].at = "found" /\ proc[p].cmd.op = "list" /\ End(p)

\* RegisterDiscoveredPlugins, then Create: a plugin takes the place of the
\* built-in provider of its name.
Create(found, name) ==
  LET k == SelectInSeq(found, LAMBDA i : i.name = name)
  IN  IF k # 0 THEN found[k].file ELSE IF name \in BuiltIn THEN "builtIn" ELSE "none"

StartPluginCommand(p) ==
  \/ \E f \in TargetFiles, bin \in Binaries, how \in {"url", "local"}, force \in BOOLEAN :
       InstallPlugin(p, f, bin, how, force)
  \/ ListPlugins(p)

PluginStep(p) ==
  \/ Fetch(p) \/ FetchFails(p) \/ StatTarget(p) \/ TooLarge(p)
  \/ BeginSearch(p) \/ NextDirectory(p) \/ InspectNext(p) \/ EndSearch(p) \/ ShowPlugins(p)
=============================================================================
