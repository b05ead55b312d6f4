---------------------------- MODULE CommandsProofs ----------------------------
(***************************************************************************)
(* The files of the command line, for any processes, commands, stores,     *)
(* plugin files and any number of commands.                                *)
(*                                                                         *)
(* A command that is about to write a file decided from what it read; the  *)
(* invariant says of it that this still holds (Intends) as long as the     *)
(* file is not disturbed, because then nobody else is about to write it.   *)
(***************************************************************************)
EXTENDS Commands, TLAPS

\* A process at each of its steps.  It has a file from the decision to write it
\* to the end of the writing, and only installs write plugins.
ProcOK(r) ==
  /\ DOMAIN r = {"at", "cmd", "n", "file", "out", "then", "mem"}
  /\ r.file \in Files \cup {Nothing}
  /\ r.at \in {"open", "write"} <=> r.file # Nothing
  /\ r.cmd.op = "install" => r.at \in {"fetch", "stat", "open", "write"}
  /\ r.at \in {"fetch", "stat"} => r.cmd.op = "install" /\ r.cmd.file \in TargetFiles
  /\ r.at = "secret" => r.mem = Nothing \/ "key" \in DOMAIN r.mem
  /\ r.file # Nothing =>
       /\ r.cmd.op = "install" <=> r.file \in TargetFiles
       /\ IF r.file = SecretFile THEN r.then \in {"seal", "unseal"} /\ r.mem.key = r.out
          ELSE r.then = "idle"

Shape ==
  /\ DOMAIN proc = Procs /\ DOMAIN content = Files /\ DOMAIN promised = Files
  /\ \A p \in Procs : ProcOK(proc[p])
  /\ \A f \in Files : /\ content[f] = [is |-> content[f].is, val |-> content[f].val]
                      /\ content[f].is \in {"absent", "empty", "cut", "whole"}

\* What a process that is about to write f has seen holds c now, and the commands
\* before it have promised was.
Intends(r, f, c, was) ==
  /\ r.at = "write" => c = EmptyFile
  /\ f = VaultFile =>
       r.out = [pass |-> r.cmd.pass, keys |-> Changed(r.cmd, Entries(was))]
  /\ f = ConfigFile =>
       LET cfg == CHOOSE x \in Loaded(was) : TRUE
       IN  r.out = [default |-> r.out.default,
                    devices |-> IF r.cmd.op = "add" THEN cfg.devices \cup {r.cmd.dev}
                                ELSE cfg.devices \ {r.cmd.dev}]
  /\ f = SecretFile => c.is # "whole"
  /\ f \in TargetFiles => r.cmd.force \/ c.is # "whole"

WritersOK ==
  \A f \in Files \ disturbed, p \in Procs : proc[p].file = f =>
    /\ \A q \in Procs : proc[q].file = f => q = p
    /\ Intends(proc[p], f, content[f], promised[f])

ConfigOK ==
  /\ promised[ConfigFile].is # "cut"
  /\ ConfigFile \notin torn =>
       /\ content[ConfigFile].is # "cut"
       /\ content[ConfigFile].is = "whole" => DefaultKept(content[ConfigFile].val)
       /\ \A p \in Procs : proc[p].file = ConfigFile => DefaultKept(proc[p].out)

\* The key with which a process seals, or has sealed, the token it will write is
\* the secret c.
SealsWith(r, c) ==
  /\ r.at = "seal" => c = Whole(r.mem.key)
  /\ r.file = TokenFile => c = Whole(r.out.key)

TokenOK ==
  {TokenFile, SecretFile} \cap disturbed = {} =>
    /\ content[TokenFile].is = "whole" => content[SecretFile] = Whole(content[TokenFile].val.key)
    /\ \A p \in Procs : SealsWith(proc[p], content[SecretFile])

CommandsInv ==
  Shape /\ WritersOK /\ FilesHoldWhatCommandsReported /\ ConfigOK /\ TokenOK

-----------------------------------------------------------------------------
LEMMA IdleOK == ProcOK(Idle) /\ Idle.file = Nothing /\ Idle.at = "idle"
<1>1. /\ Idle.file = Nothing /\ Idle.at = "idle" /\ Idle.cmd.op = "none"
      /\ DOMAIN Idle = {"at", "cmd", "n", "file", "out", "then", "mem"}
  BY DEF Idle
<1> QED
  BY <1>1 DEF ProcOK

\* Steps that leave the files alone.
LEMMA QuietStep ==
  ASSUME CommandsInv, NEW p \in Procs, NEW r, ProcOK(r), r.file = Nothing,
         proc[p].at # "write", proc' = [proc EXCEPT ![p] = r],
         UNCHANGED <<content, disturbed, torn, promised>>,
         {TokenFile, SecretFile} \cap disturbed = {} => SealsWith(r, content[SecretFile])
  PROVE  CommandsInv'
<1>1. DOMAIN proc = Procs /\ Nothing \notin Files
  BY NothingAssumption DEF CommandsInv, Shape
<1>2. DOMAIN proc' = Procs /\ proc'[p] = r /\ \A q \in Procs \ {p} : proc'[q] = proc[q]
  BY <1>1
<1>3. Shape'
  BY <1>2 DEF CommandsInv, Shape
<1>4. \A q \in Procs : proc'[q].file \in Files => q # p /\ proc'[q] = proc[q]
  BY <1>1, <1>2
<1>5. WritersOK'
  BY <1>4 DEF CommandsInv, WritersOK
<1>6. FilesHoldWhatCommandsReported'
  <2>1. \A f \in Files : Settled(f)' => Settled(f)
    BY <1>2 DEF Settled
  <2> QED
    BY <2>1 DEF CommandsInv, FilesHoldWhatCommandsReported
<1>7. ConfigOK'
  BY <1>4, StoresAssumption DEF CommandsInv, ConfigOK
<1>8. TokenOK'
  BY <1>2 DEF CommandsInv, TokenOK
<1> QED
  BY <1>3, <1>5, <1>6, <1>7, <1>8 DEF CommandsInv

\* A process decides to write f, from what f holds.
LEMMA WillWriteStep ==
  ASSUME CommandsInv, NEW p \in Procs, NEW f \in Files, NEW v, NEW then, NEW m,
         WillWrite(p, f, v, then, m), proc[p].file = Nothing, ProcOK(proc'[p]),
         (f = ConfigFile => content[f].is # "cut") => Intends(proc'[p], f, content[f], content[f]),
         f = ConfigFile /\ ConfigFile \notin torn => DefaultKept(v),
         f = TokenFile /\ {TokenFile, SecretFile} \cap disturbed = {}
           => content[SecretFile] = Whole(v.key)
  PROVE  CommandsInv'
<1>1. DOMAIN proc = Procs /\ Nothing \notin Files /\ ProcOK(proc[p])
  BY NothingAssumption DEF CommandsInv, Shape
<1>2. /\ DOMAIN proc' = Procs /\ \A q \in Procs \ {p} : proc'[q] = proc[q]
      /\ proc'[p].file = f /\ proc'[p].at = "open" /\ proc'[p].out = v
      /\ UNCHANGED <<content, torn, promised>>
      /\ disturbed' = Disturb(p, f)
  BY <1>1 DEF WillWrite, ProcOK
<1>3. /\ disturbed \subseteq disturbed'
      /\ f \notin disturbed' => \A q \in Procs \ {p} : proc[q].file # f
  BY <1>2 DEF Disturb, Rivals
<1>4. Shape'
  BY <1>2 DEF CommandsInv, Shape
<1>5. \A g \in Files : Settled(g)' => Settled(g)
  BY <1>1, <1>2 DEF Settled
<1>6. FilesHoldWhatCommandsReported'
  BY <1>2, <1>3, <1>5 DEF CommandsInv, FilesHoldWhatCommandsReported
<1>7. WritersOK'
  <2>1. ASSUME NEW g \in Files \ disturbed', NEW q \in Procs, proc'[q].file = g
        PROVE  /\ \A s \in Procs : proc'[s].file = g => s = q
               /\ Intends(proc'[q], g, content[g], promised[g])
    <3>1. CASE q = p
      <4>1. g = f /\ \A s \in Procs : proc'[s].file = g => s = q
        BY <1>2, <1>3, <2>1, <3>1
      <4>2. f # SecretFile => content[f] = promised[f]
        <5>1. Settled(f)
          BY <1>1, <1>3, <2>1, <4>1 DEF Settled
        <5> QED
          BY <1>3, <2>1, <4>1, <5>1 DEF CommandsInv, FilesHoldWhatCommandsReported
      <4>3. Intends(proc'[p], f, content[f], content[f])
        BY <4>2, StoresAssumption DEF CommandsInv, ConfigOK
      <4>4. Intends(proc'[p], f, content[f], promised[f])
        BY <4>2, <4>3, StoresAssumption DEF Intends
      <4> QED
        BY <3>1, <4>1, <4>4
    <3>2. CASE q # p
      <4>1. g # f /\ proc[q].file = g /\ proc'[q] = proc[q]
        BY <1>2, <1>3, <2>1, <3>2
      <4> QED
        BY <1>2, <1>3, <2>1, <4>1 DEF CommandsInv, WritersOK
    <3> QED
      BY <3>1, <3>2
  <2> QED
    BY <1>2, <2>1 DEF WritersOK
<1>8. ConfigOK'
  <2>1. \A q \in Procs : proc'[q].file = ConfigFile =>
          \/ q # p /\ proc[q].file = ConfigFile /\ proc'[q] = proc[q]
          \/ q = p /\ f = ConfigFile
    BY <1>2
  <2> QED
    BY <1>2, <2>1 DEF CommandsInv, ConfigOK
<1>9. TokenOK'
  <2>1. {TokenFile, SecretFile} \cap disturbed' = {} => {TokenFile, SecretFile} \cap disturbed = {}
    BY <1>3
  <2>2. {TokenFile, SecretFile} \cap disturbed = {} => SealsWith(proc'[p], content[SecretFile])
    BY <1>2 DEF SealsWith
  <2> QED
    BY <1>2, <2>1, <2>2 DEF CommandsInv, TokenOK
<1> QED
  BY <1>4, <1>6, <1>7, <1>8, <1>9 DEF CommandsInv

LEMMA OpenStep ==
  ASSUME CommandsInv, NEW p \in Procs, proc[p].at = "open", proc' = Moved(p, "write"),
         content' = [content EXCEPT ![proc[p].file] = EmptyFile],
         UNCHANGED <<disturbed, torn, promised>>
  PROVE  CommandsInv'
<1> DEFINE f == proc[p].file
<1>1. DOMAIN proc = Procs /\ DOMAIN content = Files /\ Nothing \notin Files /\ ProcOK(proc[p])
  BY NothingAssumption DEF CommandsInv, Shape
<1>2. f \in Files
  BY <1>1 DEF ProcOK
<1>3. /\ DOMAIN proc' = Procs /\ \A q \in Procs \ {p} : proc'[q] = proc[q]
      /\ proc'[p] = [proc[p] EXCEPT !.at = "write"]
  BY <1>1 DEF Moved
<1>4. /\ ProcOK(proc'[p]) /\ proc'[p].at = "write"
      /\ \A x \in {"file", "out", "cmd", "mem", "then"} : proc'[p][x] = proc[p][x]
  BY <1>1, <1>3 DEF ProcOK
<1>5. /\ DOMAIN content' = Files /\ content'[f] = EmptyFile
      /\ \A g \in Files \ {f} : content'[g] = content[g]
  BY <1>1, <1>2
<1>6. Shape'
  BY <1>3, <1>4, <1>5 DEF CommandsInv, Shape, EmptyFile
<1>7. \A q \in Procs : proc'[q].file = proc[q].file /\ proc'[q].out = proc[q].out
  BY <1>3, <1>4
<1> HIDE DEF f
<1>8. WritersOK'
  <2>1. ASSUME NEW g \in Files \ disturbed, NEW q \in Procs, proc'[q].file = g
        PROVE  /\ \A s \in Procs : proc'[s].file = g => s = q
               /\ Intends(proc'[q], g, content'[g], promised[g])
    <3>1. /\ \A s \in Procs : proc'[s].file = g => s = q
          /\ Intends(proc[q], g, content[g], promised[g])
      BY <1>7, <2>1 DEF CommandsInv, WritersOK
    <3>2. CASE q = p
      <4>1. g = f
        BY <1>7, <2>1, <3>2 DEF f
      <4> QED
        BY <1>4, <1>5, <1>7, <3>1, <3>2, <4>1 DEF Intends, EmptyFile
    <3>3. CASE q # p
      <4>1. g # f
        BY <1>7, <2>1, <3>1, <3>3 DEF f
      <4> QED
        BY <1>3, <1>5, <2>1, <3>1, <3>3, <4>1
    <3> QED
      BY <3>2, <3>3
  <2> QED
    BY <2>1 DEF WritersOK
<1>9. FilesHoldWhatCommandsReported'
  <2>1. \A g \in Files : Settled(g)' => g # f /\ Settled(g)
    BY <1>1, <1>3, <1>4 DEF Settled, f
  <2> QED
    BY <1>5, <2>1 DEF CommandsInv, FilesHoldWhatCommandsReported
<1>10. ConfigOK'
  BY <1>5, <1>7, StoresAssumption DEF CommandsInv, ConfigOK, EmptyFile
<1>11. TokenOK'
  <2> SUFFICES ASSUME {TokenFile, SecretFile} \cap disturbed = {}
               PROVE  /\ content'[TokenFile].is = "whole" =>
                           content'[SecretFile] = Whole(content'[TokenFile].val.key)
                      /\ \A q \in Procs : SealsWith(proc'[q], content'[SecretFile])
    BY DEF TokenOK
  <2>1. /\ content[TokenFile].is = "whole" => content[SecretFile] = Whole(content[TokenFile].val.key)
        /\ \A q \in Procs : SealsWith(proc[q], content[SecretFile])
    BY DEF CommandsInv, TokenOK
  <2>2. \A q \in Procs : SealsWith(proc'[q], content[SecretFile])
    BY <1>3, <1>4, <2>1 DEF SealsWith
  <2>3. CASE f # SecretFile
    BY <1>5, <2>1, <2>2, <2>3, StoresAssumption DEF EmptyFile
  <2>4. CASE f = SecretFile
    <3>1. content[SecretFile].is # "whole"
      BY <1>2, <2>4 DEF CommandsInv, WritersOK, Intends, f
    <3>2. \A k : content[SecretFile] # Whole(k)
      BY <3>1 DEF Whole
    <3> QED
      BY <1>5, <2>1, <2>2, <2>4, <3>2, StoresAssumption DEF SealsWith
  <2> QED
    BY <2>3, <2>4
<1> QED
  BY <1>6, <1>8, <1>9, <1>10, <1>11 DEF CommandsInv

\* Whoever writes an undisturbed file does it alone, into an empty file.
LEMMA AloneAtWriting ==
  ASSUME CommandsInv, NEW p \in Procs, proc[p].at = "write", proc[p].file \notin disturbed
  PROVE  /\ proc[p].file \in Files /\ content[proc[p].file] = EmptyFile
         /\ Intends(proc[p], proc[p].file, content[proc[p].file], promised[proc[p].file])
         /\ \A q \in Procs : proc[q].file = proc[p].file => q = p
<1>1. proc[p].file \in Files
  BY DEF CommandsInv, Shape, ProcOK
<1> QED
  BY <1>1 DEF CommandsInv, WritersOK, Intends

\* The end of the writing: what is promised of the file is what was written.
LEMMA FinishStep ==
  ASSUME CommandsInv, NEW p \in Procs, Finish(p)
  PROVE  CommandsInv'
<1> DEFINE f    == proc[p].file
           out  == proc[p].out
           then == proc[p].then
<1>1. DOMAIN proc = Procs /\ Nothing \notin Files /\ ProcOK(proc[p])
  BY NothingAssumption DEF CommandsInv, Shape
<1>2. DOMAIN content = Files /\ DOMAIN promised = Files
  BY DEF CommandsInv, Shape
<1>3. proc[p].at = "write"
  BY DEF Finish, WriteFile
<1>4. f \in Files
  BY <1>1, <1>3 DEF ProcOK
<1>5. PICK c \in Written(f, out) : content' = [content EXCEPT ![f] = c]
  BY DEF Finish, WriteFile
<1>6. /\ proc' = [proc EXCEPT ![p] = IF @.then = "idle" THEN Idle
                                    ELSE [@ EXCEPT !.at = proc[p].then, !.file = Nothing]]
      /\ torn' = Torn(p) /\ disturbed' = disturbed
  BY DEF Finish, WriteFile
<1>7. promised' = CASE f = SecretFile -> promised
                    [] f \in TargetFiles -> PromisePlugin(p)
                    [] OTHER -> Promise(p)
  BY DEF Finish, WriteFile
<1>8. /\ content'[f] = c /\ c \in {Absent, Whole(out), Cut(content[f].val)}
      /\ DOMAIN content' = Files /\ \A g \in Files \ {f} : content'[g] = content[g]
      /\ torn \subseteq torn' /\ (content'[f].is = "cut" => f \in torn')
  BY <1>2, <1>4, <1>5, <1>6 DEF Written, Torn
<1>9. /\ DOMAIN proc' = Procs /\ \A q \in Procs \ {p} : proc'[q] = proc[q]
      /\ ProcOK(proc'[p]) /\ proc'[p].file = Nothing
      /\ IF f = SecretFile
         THEN proc'[p].at = then /\ proc'[p].mem.key = out
         ELSE proc'[p].at = "idle"
  <2>1. /\ DOMAIN proc' = Procs /\ \A q \in Procs \ {p} : proc'[q] = proc[q]
        /\ proc'[p] = IF then = "idle" THEN Idle
                      ELSE [proc[p] EXCEPT !.at = then, !.file = Nothing]
    BY <1>1, <1>6
  <2>2. CASE f = SecretFile
    <3>1. then \in {"seal", "unseal"} /\ proc[p].mem.key = out /\ f \notin TargetFiles
      BY <1>1, <1>4, <2>2, TargetsAssumption DEF ProcOK
    <3> QED
      BY <1>1, <1>4, <2>1, <2>2, <3>1 DEF ProcOK
  <2>3. CASE f # SecretFile
    <3>1. proc'[p] = Idle
      BY <1>1, <1>4, <2>1, <2>3 DEF ProcOK
    <3> QED
      BY <2>1, <2>3, <3>1, IdleOK
  <2> QED
    BY <2>2, <2>3, <2>1
<1>10. /\ DOMAIN promised' = Files /\ \A g \in Files \ {f} : promised'[g] = promised[g]
       /\ f # SecretFile => promised'[f].is = "whole"
       /\ f = SecretFile => promised' = promised
  BY <1>2, <1>4, <1>7, TargetsAssumption, StoresAssumption DEF PromisePlugin, Promise, Whole
<1>11. f \notin disturbed /\ f # SecretFile => promised'[f] = Whole(out)
  <2> SUFFICES ASSUME f \notin disturbed, f # SecretFile PROVE promised'[f] = Whole(out)
    OBVIOUS
  <2>1. Intends(proc[p], f, content[f], promised[f])
    BY <1>3, AloneAtWriting
  <2>2. CASE f \in TargetFiles
    BY <1>2, <1>4, <1>7, <2>2 DEF PromisePlugin
  <2>3. CASE f \notin TargetFiles
    <3>1. promised' = Promise(p)
      BY <1>7, <2>3
    <3>2. CASE f = VaultFile
      <4>1. out = [pass |-> proc[p].cmd.pass, keys |-> Changed(proc[p].cmd, Entries(promised[f]))]
        BY <2>1, <3>2 DEF Intends
      <4> QED
        BY <1>2, <1>4, <3>1, <3>2, <4>1, StoresAssumption DEF Promise
    <3>3. CASE f = ConfigFile
      <4> DEFINE cfg == CHOOSE x \in Loaded(promised[f]) : TRUE
      <4>1. out = [default |-> out.default,
                   devices |-> IF proc[p].cmd.op = "add" THEN cfg.devices \cup {proc[p].cmd.dev}
                               ELSE cfg.devices \ {proc[p].cmd.dev}]
        BY <2>1, <3>3 DEF Intends
      <4>2. promised'[f] =
              Whole([default |-> out.default,
                     devices |-> IF proc[p].cmd.op = "add" THEN cfg.devices \cup {proc[p].cmd.dev}
                                 ELSE cfg.devices \ {proc[p].cmd.dev}])
        BY <1>2, <1>4, <3>1, <3>3, StoresAssumption DEF Promise
      <4> HIDE DEF cfg
      <4> QED
        BY <4>1, <4>2
    <3>4. CASE f \notin {VaultFile, ConfigFile}
      BY <1>2, <1>4, <3>1, <3>4 DEF Promise
    <3> QED
      BY <3>2, <3>3, <3>4
  <2> QED
    BY <2>2, <2>3
<1>12. f \notin disturbed => content'[f] = Whole(out)
  <2>1. f \notin disturbed => content[f] = EmptyFile
    BY <1>3, AloneAtWriting
  <2> QED
    BY <1>5, <1>8, <2>1 DEF Written, Absent, EmptyFile
<1>13. \A q \in Procs : proc'[q].file \in Files =>
          q # p /\ proc'[q] = proc[q] /\ (f \notin disturbed => proc[q].file # f)
  BY <1>1, <1>3, <1>9, AloneAtWriting
<1> HIDE DEF f, out, then
<1>14. Shape'
  <2>1. /\ content'[f] = [is |-> content'[f].is, val |-> content'[f].val]
        /\ content'[f].is \in {"absent", "empty", "cut", "whole"}
    BY <1>8 DEF Absent, Whole, Cut
  <2> QED
    BY <1>8, <1>9, <1>10, <2>1 DEF CommandsInv, Shape
<1>15. WritersOK'
  <2>1. ASSUME NEW g \in Files \ disturbed, NEW q \in Procs, proc'[q].file = g
        PROVE  /\ \A s \in Procs : proc'[s].file = g => s = q
               /\ Intends(proc'[q], g, content'[g], promised'[g])
    <3>1. q # p /\ proc'[q] = proc[q] /\ proc[q].file = g
      BY <1>13, <2>1
    <3>2. /\ \A s \in Procs : proc[s].file = g => s = q
          /\ Intends(proc[q], g, content[g], promised[g])
      BY <2>1, <3>1 DEF CommandsInv, WritersOK
    <3>3. g # f
      BY <1>13, <2>1, <3>1
    <3> QED
      BY <1>8, <1>10, <1>13, <2>1, <3>1, <3>2, <3>3
  <2> QED
    BY <1>6, <2>1 DEF WritersOK
<1>16. FilesHoldWhatCommandsReported'
  <2>1. \A g \in Files \ {f} : Settled(g)' => Settled(g)
    BY <1>9 DEF Settled, f
  <2> QED
    BY <1>6, <1>8, <1>10, <1>11, <1>12, <2>1 DEF CommandsInv, FilesHoldWhatCommandsReported
<1>17. ConfigOK'
  <2>1. promised'[ConfigFile].is # "cut"
    BY <1>10, StoresAssumption DEF CommandsInv, ConfigOK
  <2>2. ASSUME ConfigFile \notin torn'
        PROVE  /\ content'[ConfigFile].is # "cut"
               /\ content'[ConfigFile].is = "whole" => DefaultKept(content'[ConfigFile].val)
    <3>1. CASE f = ConfigFile
      <4>1. DefaultKept(out)
        BY <1>8, <2>2, <3>1 DEF CommandsInv, ConfigOK, f, out
      <4>2. content'[ConfigFile] \in {Absent, Whole(out)}
        BY <1>8, <2>2, <3>1 DEF Cut
      <4> QED
        BY <4>1, <4>2 DEF Absent, Whole
    <3>2. CASE f # ConfigFile
      BY <1>8, <2>2, <3>2, StoresAssumption DEF CommandsInv, ConfigOK
    <3> QED
      BY <3>1, <3>2
  <2>3. ConfigFile \notin torn' => \A q \in Procs : proc'[q].file = ConfigFile => DefaultKept(proc'[q].out)
    BY <1>8, <1>13, StoresAssumption DEF CommandsInv, ConfigOK
  <2> QED
    BY <2>1, <2>2, <2>3 DEF ConfigOK
<1>18. TokenOK'
  <2> SUFFICES ASSUME {TokenFile, SecretFile} \cap disturbed = {}
               PROVE  /\ content'[TokenFile].is = "whole" =>
                           content'[SecretFile] = Whole(content'[TokenFile].val.key)
                      /\ \A q \in Procs : SealsWith(proc'[q], content'[SecretFile])
    BY <1>6 DEF TokenOK
  <2>1. /\ content[TokenFile].is = "whole" => content[SecretFile] = Whole(content[TokenFile].val.key)
        /\ \A q \in Procs : SealsWith(proc[q], content[SecretFile])
    BY DEF CommandsInv, TokenOK
  <2>2. f # SecretFile => SealsWith(proc'[p], content[SecretFile])
    BY <1>1, <1>9, StoresAssumption DEF SealsWith
  <2>3. CASE f = SecretFile
    <3>1. content[SecretFile] = EmptyFile /\ content'[SecretFile] = Whole(out)
      BY <1>3, <1>12, <2>3, AloneAtWriting DEF f
    <3>2. \A k : content[SecretFile] # Whole(k)
      BY <3>1 DEF EmptyFile, Whole
    <3>3. content'[TokenFile].is # "whole"
      BY <1>8, <2>1, <2>3, <3>2, StoresAssumption
    <3>4. \A q \in Procs \ {p} : SealsWith(proc'[q], content'[SecretFile])
      BY <1>9, <2>1, <3>2 DEF SealsWith
    <3>5. SealsWith(proc'[p], content'[SecretFile])
      BY <1>1, <1>9, <2>3, <3>1, StoresAssumption DEF SealsWith
    <3> QED
      BY <3>3, <3>4, <3>5
  <2>4. CASE f = TokenFile
    <3>1. content'[TokenFile] = Whole(out) /\ content[SecretFile] = Whole(out.key)
      BY <1>12, <2>1, <2>4 DEF SealsWith, f, out
    <3> QED
      BY <1>8, <1>9, <2>1, <2>2, <2>4, <3>1, StoresAssumption DEF Whole
  <2>5. CASE f \notin {SecretFile, TokenFile}
    BY <1>8, <1>9, <2>1, <2>2, <2>5, StoresAssumption
  <2> QED
    BY <2>3, <2>4, <2>5
<1> QED
  BY <1>14, <1>15, <1>16, <1>17, <1>18 DEF CommandsInv

\* After a write that failed the process is idle, or goes on without the token.
LEMMA AfterFailure ==
  ASSUME CommandsInv, NEW p \in Procs, proc[p].at \in {"open", "write"}
  PROVE  \E r : /\ Failed(p) = [proc EXCEPT ![p] = r]
               /\ ProcOK(r) /\ r.file = Nothing /\ r.at # "seal"
<1>1. ProcOK(proc[p]) /\ DOMAIN proc = Procs /\ proc[p].file \in Files
  BY DEF CommandsInv, Shape, ProcOK
<1>2. CASE proc[p].then = "unseal"
  <2> DEFINE r == [proc[p] EXCEPT !.at = "loaded", !.file = Nothing, !.mem = Mem]
  <2>1. Failed(p) = [proc EXCEPT ![p] = r]
    BY <1>1, <1>2 DEF Failed
  <2>2. proc[p].cmd.op # "install"
    BY <1>1, <1>2, NothingAssumption, StoresAssumption, TargetsAssumption DEF ProcOK
  <2>3. ProcOK(r) /\ r.file = Nothing /\ r.at = "loaded"
    BY <1>1, <2>2 DEF ProcOK
  <2> HIDE DEF r
  <2> QED
    BY <2>1, <2>3
<1>3. CASE proc[p].then # "unseal"
  BY <1>3, IdleOK DEF Failed, Ended
<1> QED
  BY <1>2, <1>3

LEMMA BreakOffStep ==
  ASSUME CommandsInv, NEW p \in Procs, BreakOff(p, Failed(p))
  PROVE  CommandsInv'
<1> DEFINE f == proc[p].file
<1>1. DOMAIN proc = Procs /\ DOMAIN content = Files /\ Nothing \notin Files /\ ProcOK(proc[p])
  BY NothingAssumption DEF CommandsInv, Shape
<1>2. proc[p].at = "write" /\ f \in Files
  BY <1>1 DEF BreakOff, ProcOK
<1>3. PICK c \in Broken(f, proc[p].out) : content' = [content EXCEPT ![f] = c]
  BY DEF BreakOff
<1>4. /\ content'[f] = c /\ DOMAIN content' = Files
      /\ \A g \in Files \ {f} : content'[g] = content[g]
      /\ c \in {Absent, EmptyFile, Cut(proc[p].out)}
      /\ disturbed' = disturbed \cup {f} /\ promised' = promised
      /\ torn' = Torn(p) /\ proc' \in {Ended(p), Failed(p)}
  BY <1>1, <1>2, <1>3 DEF BreakOff, Broken
<1>5. /\ torn \subseteq torn' /\ (content'[f].is = "cut" => f \in torn')
      /\ content'[f].is \in {"absent", "empty", "cut"}
      /\ content'[f] = [is |-> content'[f].is, val |-> content'[f].val]
  BY <1>4 DEF Torn, Absent, EmptyFile, Cut
<1>6. /\ DOMAIN proc' = Procs /\ \A q \in Procs \ {p} : proc'[q] = proc[q]
      /\ ProcOK(proc'[p]) /\ proc'[p].file = Nothing /\ proc'[p].at # "seal"
  <2>1. PICK r : /\ proc' = [proc EXCEPT ![p] = r]
                 /\ ProcOK(r) /\ r.file = Nothing /\ r.at # "seal"
    BY <1>2, <1>4, AfterFailure, IdleOK DEF Ended
  <2> QED
    BY <1>1, <2>1
<1>7. \A q \in Procs : proc'[q].file \in Files => q # p /\ proc'[q] = proc[q]
  BY <1>1, <1>6
<1> HIDE DEF f
<1>8. Shape'
  BY <1>4, <1>5, <1>6 DEF CommandsInv, Shape
<1>9. WritersOK'
  BY <1>4, <1>7 DEF CommandsInv, WritersOK
<1>10. FilesHoldWhatCommandsReported'
  <2>1. \A g \in Files \ {f} : Settled(g)' => Settled(g)
    BY <1>6 DEF Settled, f
  <2> QED
    BY <1>4, <2>1 DEF CommandsInv, FilesHoldWhatCommandsReported
<1>11. ConfigOK'
  BY <1>4, <1>5, <1>7, StoresAssumption DEF CommandsInv, ConfigOK
<1>12. TokenOK'
  <2>1. SealsWith(proc'[p], content[SecretFile])
    BY <1>1, <1>6, StoresAssumption DEF SealsWith
  <2> QED
    BY <1>4, <1>6, <2>1, StoresAssumption DEF CommandsInv, TokenOK
<1> QED
  BY <1>8, <1>9, <1>10, <1>11, <1>12 DEF CommandsInv

\* A file that is removed is neither the configuration nor the secret.
LEMMA RemoveStep ==
  ASSUME CommandsInv, NEW p \in Procs, NEW f \in Files \ {ConfigFile, SecretFile},
         RemoveFile(p, f), proc[p].at = "write" => proc[p].file = f
  PROVE  CommandsInv'
<1>1. DOMAIN proc = Procs /\ DOMAIN content = Files /\ DOMAIN promised = Files /\ Nothing \notin Files
  BY NothingAssumption DEF CommandsInv, Shape
<1>2. /\ content'[f] = Absent /\ DOMAIN content' = Files
      /\ \A g \in Files \ {f} : content'[g] = content[g]
      /\ promised'[f] = Absent /\ DOMAIN promised' = Files
      /\ \A g \in Files \ {f} : promised'[g] = promised[g]
      /\ disturbed' = Disturb(p, f) /\ torn' = torn /\ proc' = Ended(p)
  BY <1>1 DEF RemoveFile
<1>3. /\ DOMAIN proc' = Procs /\ \A q \in Procs \ {p} : proc'[q] = proc[q]
      /\ proc'[p] = Idle
  BY <1>1, <1>2 DEF Ended
<1>4. \A q \in Procs : proc'[q].file \in Files => q # p /\ proc'[q] = proc[q]
  BY <1>1, <1>3, IdleOK
<1>5. /\ disturbed \subseteq disturbed'
      /\ f \notin disturbed' => \A q \in Procs \ {p} : proc[q].file # f
  BY <1>2 DEF Disturb, Rivals
<1>6. Shape'
  BY <1>2, <1>3, IdleOK DEF CommandsInv, Shape, Absent
<1>7. WritersOK'
  <2>1. ASSUME NEW g \in Files \ disturbed', NEW q \in Procs, proc'[q].file = g
        PROVE  /\ \A s \in Procs : proc'[s].file = g => s = q
               /\ Intends(proc'[q], g, content'[g], promised'[g])
    <3>1. q # p /\ proc'[q] = proc[q] /\ proc[q].file = g /\ g # f /\ g \notin disturbed
      BY <1>4, <1>5, <2>1
    <3>2. /\ \A s \in Procs : proc[s].file = g => s = q
          /\ Intends(proc[q], g, content[g], promised[g])
      BY <2>1, <3>1 DEF CommandsInv, WritersOK
    <3> QED
      BY <1>2, <1>4, <2>1, <3>1, <3>2
  <2> QED
    BY <2>1 DEF WritersOK
<1>8. FilesHoldWhatCommandsReported'
  <2>1. \A g \in Files \ {f} : Settled(g)' => Settled(g)
    BY <1>3 DEF Settled
  <2> QED
    BY <1>2, <1>5, <2>1 DEF CommandsInv, FilesHoldWhatCommandsReported
<1>9. ConfigOK'
  BY <1>2, <1>4, StoresAssumption DEF CommandsInv, ConfigOK
<1>10. TokenOK'
  <2>1. SealsWith(Idle, content[SecretFile])
    BY IdleOK, <1>1, StoresAssumption DEF SealsWith
  <2>2. content'[SecretFile] = content[SecretFile] /\ content'[TokenFile] \in {Absent, content[TokenFile]}
    BY <1>2, StoresAssumption
  <2>3. {TokenFile, SecretFile} \cap disturbed' = {} => {TokenFile, SecretFile} \cap disturbed = {}
    BY <1>5
  <2> QED
    BY <1>3, <2>1, <2>2, <2>3 DEF CommandsInv, TokenOK, Absent
<1> QED
  BY <1>6, <1>7, <1>8, <1>9, <1>10 DEF CommandsInv

-----------------------------------------------------------------------------
\* The steps of the commands, one group after the other.
LEMMA EndStep ==
  ASSUME CommandsInv, NEW p \in Procs, proc[p].at # "write", End(p)
  PROVE  CommandsInv'
<1>1. SealsWith(Idle, content[SecretFile])
  BY IdleOK, NothingAssumption, StoresAssumption DEF SealsWith
<1>2. proc' = [proc EXCEPT ![p] = Idle] /\ UNCHANGED <<content, disturbed, torn, promised>>
  BY DEF End, Ended
<1> QED
  BY <1>1, <1>2, QuietStep, IdleOK

LEMMA OpenFailsStep ==
  ASSUME CommandsInv, NEW p \in Procs, proc[p].at = "open", proc' = Failed(p),
         UNCHANGED <<content, disturbed, torn, promised>>
  PROVE  CommandsInv'
<1>1. PICK r : /\ proc' = [proc EXCEPT ![p] = r]
               /\ ProcOK(r) /\ r.file = Nothing /\ r.at # "seal"
  BY AfterFailure
<1>2. SealsWith(r, content[SecretFile])
  BY <1>1, NothingAssumption, StoresAssumption DEF SealsWith
<1> QED
  BY <1>1, <1>2, QuietStep

LEMMA RunStep ==
  ASSUME CommandsInv, NEW p \in Procs, NEW cmd, NEW at, Run(p, cmd, at),
         at \notin {"open", "write", "seal", "stat"},
         cmd.op = "install" => at = "fetch" /\ cmd.file \in TargetFiles,
         at = "fetch" => cmd.op = "install"
  PROVE  CommandsInv'
<1> DEFINE r == [Idle EXCEPT !.cmd = cmd, !.n = started + 1, !.at = at]
<1>1. /\ DOMAIN r = {"at", "cmd", "n", "file", "out", "then", "mem"}
      /\ r.at = at /\ r.cmd = cmd /\ r.file = Nothing /\ r.mem = Nothing
  BY DEF Idle
<1>2. /\ proc[p].at = "idle" /\ proc' = [proc EXCEPT ![p] = r]
      /\ UNCHANGED <<content, disturbed, torn, promised>>
  BY DEF Run
<1> HIDE DEF r
<1>3. ProcOK(r) /\ r.file = Nothing /\ SealsWith(r, content[SecretFile])
  BY <1>1, NothingAssumption, StoresAssumption DEF ProcOK, SealsWith
<1> QED
  BY <1>2, <1>3, QuietStep

LEMMA StartStep ==
  ASSUME CommandsInv, NEW p \in Procs,
         StartStoreCommand(p) \/ StartPluginCommand(p) \/ Connect(p)
  PROVE  CommandsInv'
<1>1. CASE StartStoreCommand(p)
  <2>1. ASSUME NEW k \in Keys, NEW pass \in Passphrases, SetVault(p, k, pass) PROVE CommandsInv'
    BY <2>1, RunStep DEF SetVault
  <2>2. ASSUME NEW k \in Keys, NEW pass \in Passphrases, DeleteVault(p, k, pass) PROVE CommandsInv'
    BY <2>2, RunStep DEF DeleteVault
  <2>3. ASSUME NEW d \in Devices, AddDevice(p, d) PROVE CommandsInv'
    BY <2>3, RunStep DEF AddDevice
  <2>4. ASSUME NEW d \in Devices, RemoveDevice(p, d) PROVE CommandsInv'
    BY <2>4, RunStep DEF RemoveDevice
  <2>5. ASSUME NEW file \in TokenFiles, NEW d \in Devices \cup {Nothing}, ImportToken(p, file, d)
        PROVE  CommandsInv'
    BY <2>5, RunStep DEF ImportToken
  <2>6. CASE TokenStatus(p)
    BY <2>6, RunStep DEF TokenStatus
  <2>7. CASE ClearToken(p)
    BY <2>7, RunStep DEF ClearToken
  <2> QED
    BY <1>1, <2>1, <2>2, <2>3, <2>4, <2>5, <2>6, <2>7 DEF StartStoreCommand
<1>2. CASE StartPluginCommand(p)
  <2>1. ASSUME NEW f \in TargetFiles, NEW bin \in Binaries, NEW how \in {"url", "local"},
               NEW force \in BOOLEAN, InstallPlugin(p, f, bin, how, force)
        PROVE  CommandsInv'
    BY <2>1, RunStep DEF InstallPlugin
  <2>2. CASE ListPlugins(p)
    BY <2>2, RunStep DEF ListPlugins
  <2> QED
    BY <1>2, <2>1, <2>2 DEF StartPluginCommand
<1>3. CASE Connect(p)
  BY <1>3, RunStep DEF Connect
<1> QED
  BY <1>1, <1>2, <1>3

\* A step that only moves a process on, between steps at which it holds no file.
LEMMA RememberStep ==
  ASSUME CommandsInv, NEW p \in Procs, NEW at, NEW m, proc[p].file = Nothing,
         proc' = Remembers(p, at, m) \/ (proc' = Moved(p, at) /\ m = proc[p].mem),
         UNCHANGED <<content, disturbed, torn, promised>>,
         at \notin {"open", "write", "fetch"},
         at = "stat" <=> proc[p].cmd.op = "install",
         at = "secret" => "key" \in DOMAIN m,
         at = "seal" /\ {TokenFile, SecretFile} \cap disturbed = {}
           => content[SecretFile] = Whole(m.key)
  PROVE  CommandsInv'
<1> DEFINE r == [proc[p] EXCEPT !.at = at, !.mem = m]
           s == [proc[p] EXCEPT !.at = at]
<1>1. ProcOK(proc[p]) /\ DOMAIN proc = Procs
  BY DEF CommandsInv, Shape
<1>2. proc[p].at # "write"
  BY <1>1 DEF ProcOK
<1>3. CASE proc' = Remembers(p, at, m)
  <2>1. proc' = [proc EXCEPT ![p] = r]
    BY <1>1, <1>3 DEF Remembers
  <2>2. ProcOK(r) /\ r.file = Nothing /\ r.at = at /\ r.mem = m
    BY <1>1 DEF ProcOK
  <2> HIDE DEF r
  <2>3. {TokenFile, SecretFile} \cap disturbed = {} => SealsWith(r, content[SecretFile])
    BY <2>2, NothingAssumption, StoresAssumption DEF SealsWith
  <2> QED
    BY <1>2, <2>1, <2>2, <2>3, QuietStep
<1>4. CASE proc' = Moved(p, at) /\ m = proc[p].mem
  <2>1. proc' = [proc EXCEPT ![p] = s]
    BY <1>1, <1>4 DEF Moved
  <2>2. ProcOK(s) /\ s.file = Nothing /\ s.at = at /\ s.mem = m
    BY <1>1, <1>4 DEF ProcOK
  <2> HIDE DEF s
  <2>3. {TokenFile, SecretFile} \cap disturbed = {} => SealsWith(s, content[SecretFile])
    BY <2>2, NothingAssumption, StoresAssumption DEF SealsWith
  <2> QED
    BY <1>2, <2>1, <2>2, <2>3, QuietStep
<1> QED
  BY <1>3, <1>4

\* What a process that is about to write is like.
LEMMA WriterShape ==
  ASSUME CommandsInv, NEW p \in Procs, NEW f \in Files, NEW v, NEW then, NEW m,
         WillWrite(p, f, v, then, m), proc[p].file = Nothing,
         proc[p].cmd.op = "install" <=> f \in TargetFiles,
         IF f = SecretFile THEN then \in {"seal", "unseal"} /\ m.key = v ELSE then = "idle"
  PROVE  /\ ProcOK(proc'[p]) /\ proc'[p].at = "open" /\ proc'[p].file = f
         /\ proc'[p].out = v /\ proc'[p].cmd = proc[p].cmd
<1>1. ProcOK(proc[p]) /\ DOMAIN proc = Procs
  BY DEF CommandsInv, Shape
<1>2. /\ DOMAIN proc'[p] = {"at", "cmd", "n", "file", "out", "then", "mem"}
      /\ proc'[p].at = "open" /\ proc'[p].file = f /\ proc'[p].out = v
      /\ proc'[p].cmd = proc[p].cmd /\ proc'[p].then = then /\ proc'[p].mem = m
  BY <1>1 DEF WillWrite, ProcOK
<1> QED
  BY <1>2, NothingAssumption DEF ProcOK

\* The file a process holds, by the step it is at.
LEMMA HoldsNothing ==
  ASSUME CommandsInv, NEW p \in Procs, proc[p].at \notin {"open", "write"}
  PROVE  /\ ProcOK(proc[p]) /\ proc[p].file = Nothing /\ proc[p].at # "write"
         /\ proc[p].at \notin {"fetch", "stat"} => proc[p].cmd.op # "install"
BY DEF CommandsInv, Shape, ProcOK

LEMMA VaultStep ==
  ASSUME CommandsInv, NEW p \in Procs, UpdateVault(p)
  PROVE  CommandsInv'
<1> DEFINE v == [pass |-> proc[p].cmd.pass,
                 keys |-> Changed(proc[p].cmd, Entries(content[VaultFile]))]
<1>1. /\ proc[p].at = "vault" /\ proc[p].cmd.op # "install"
      /\ End(p) \/ WillWrite(p, VaultFile, v, "idle", Nothing)
  BY DEF UpdateVault
<1>2. CASE End(p)
  BY <1>1, <1>2, EndStep
<1>3. CASE WillWrite(p, VaultFile, v, "idle", Nothing)
  <2>1. VaultFile \in Files /\ VaultFile \notin TargetFiles \cup {ConfigFile, SecretFile, TokenFile}
    BY StoresAssumption, TargetsAssumption
  <2> HIDE DEF v
  <2>2. /\ ProcOK(proc'[p]) /\ proc'[p].at = "open" /\ proc'[p].out = v
        /\ proc'[p].cmd = proc[p].cmd /\ proc[p].file = Nothing
    BY <1>1, <1>3, <2>1, WriterShape, HoldsNothing
  <2>3. Intends(proc'[p], VaultFile, content[VaultFile], content[VaultFile])
    BY <2>1, <2>2 DEF Intends, v
  <2> QED
    BY <1>3, <2>1, <2>2, <2>3, WillWriteStep
<1> QED
  BY <1>1, <1>2, <1>3

-----------------------------------------------------------------------------
\* A whole, missing or empty configuration loads as what it is; only a cut one
\* is ambiguous.
LEMMA LoadedOnce ==
  ASSUME NEW c, c.is \in {"absent", "empty", "whole"}
  PROVE  /\ \A x, y \in Loaded(c) : x = y
         /\ \A x \in Loaded(c) : x = CHOOSE y \in Loaded(c) : TRUE
         /\ (c.is = "whole" => DefaultKept(c.val)) => \A x \in Loaded(c) : DefaultKept(x)
<1>1. \A x, y \in Loaded(c) : x = y
  BY DEF Loaded
<1>2. (c.is = "whole" => DefaultKept(c.val)) => \A x \in Loaded(c) : DefaultKept(x)
  BY DEF Loaded, NoProfiles, DefaultKept
<1>3. ASSUME NEW x \in Loaded(c) PROVE x = CHOOSE y \in Loaded(c) : TRUE
  <2>1. (CHOOSE y \in Loaded(c) : TRUE) \in Loaded(c)
    OBVIOUS
  <2> QED
    BY <1>1, <2>1
<1> QED
  BY <1>1, <1>2, <1>3

LEMMA AddedKeepsDefault ==
  ASSUME NEW cfg, NEW d, DefaultKept(cfg)
  PROVE  DefaultKept(Added(cfg, d))
BY DEF DefaultKept, Added

LEMMA RemovedKeepsDefault ==
  ASSUME NEW cfg, NEW d \in cfg.devices, NEW new \in Removed(cfg, d), DefaultKept(cfg)
  PROVE  DefaultKept(new)
BY DEF DefaultKept, Removed

\* device add and device remove, with a profile that was loaded.
LEMMA ConfigStep ==
  ASSUME CommandsInv, NEW p \in Procs, UpdateAdd(p) \/ UpdateRemove(p)
  PROVE  CommandsInv'
<1> DEFINE file == content[ConfigFile]
           dev  == proc[p].cmd.dev
<1>1. /\ proc[p].at = "config" /\ proc[p].cmd.op \in {"add", "remove"}
      /\ ProcOK(proc[p]) /\ proc[p].file = Nothing
  BY HoldsNothing DEF UpdateAdd, UpdateRemove
<1>2. /\ ConfigFile \in Files
      /\ ConfigFile \notin TargetFiles \cup {VaultFile, SecretFile, TokenFile}
  BY StoresAssumption, TargetsAssumption
<1>3. /\ file.is # "cut" => file.is \in {"absent", "empty", "whole"}
      /\ ConfigFile \notin torn =>
           file.is \in {"absent", "empty", "whole"} /\ (file.is = "whole" => DefaultKept(file.val))
  BY <1>2 DEF CommandsInv, Shape, ConfigOK
<1>4. ASSUME NEW cfg \in Loaded(file), NEW new, WillWrite(p, ConfigFile, new, "idle", Nothing),
             new = [default |-> new.default,
                    devices |-> IF proc[p].cmd.op = "add" THEN cfg.devices \cup {dev}
                                ELSE cfg.devices \ {dev}],
             DefaultKept(cfg) => DefaultKept(new)
      PROVE  CommandsInv'
  <2>1. /\ ProcOK(proc'[p]) /\ proc'[p].at = "open" /\ proc'[p].out = new
        /\ proc'[p].cmd = proc[p].cmd
    BY <1>1, <1>2, <1>4, WriterShape
  <2>2. file.is # "cut" => Intends(proc'[p], ConfigFile, file, file)
    <3>1. file.is # "cut" => cfg = CHOOSE x \in Loaded(file) : TRUE
      BY <1>3, <1>4, LoadedOnce
    <3> QED
      BY <1>2, <1>4, <2>1, <3>1 DEF Intends
  <2>3. ConfigFile \notin torn => DefaultKept(new)
    BY <1>3, <1>4, LoadedOnce
  <2> QED
    BY <1>1, <1>2, <1>4, <2>1, <2>2, <2>3, WillWriteStep
<1>5. CASE End(p)
  BY <1>1, <1>5, EndStep
<1>6. CASE UpdateAdd(p) /\ ~End(p)
  <2>1. PICK cfg \in Loaded(file) : WillWrite(p, ConfigFile, Added(cfg, dev), "idle", Nothing)
    BY <1>6 DEF UpdateAdd
  <2> DEFINE new == Added(cfg, dev)
  <2>2. new = [default |-> new.default, devices |-> cfg.devices \cup {dev}]
    BY DEF Added
  <2>3. DefaultKept(cfg) => DefaultKept(new)
    BY AddedKeepsDefault
  <2>4. proc[p].cmd.op = "add"
    BY <1>6 DEF UpdateAdd
  <2> HIDE DEF new
  <2> QED
    BY <1>4, <2>1, <2>2, <2>3, <2>4 DEF new
<1>7. CASE UpdateRemove(p) /\ ~End(p)
  <2>1. PICK cfg \in Loaded(file) : /\ dev \in cfg.devices
                                    /\ \E new \in Removed(cfg, dev) :
                                         WillWrite(p, ConfigFile, new, "idle", Nothing)
    BY <1>7 DEF UpdateRemove
  <2>2. PICK new \in Removed(cfg, dev) : WillWrite(p, ConfigFile, new, "idle", Nothing)
    BY <2>1
  <2>3. new = [default |-> new.default, devices |-> cfg.devices \ {dev}]
    BY <2>2 DEF Removed
  <2>4. DefaultKept(cfg) => DefaultKept(new)
    BY <2>1, <2>2, RemovedKeepsDefault
  <2>5. proc[p].cmd.op # "add"
    BY <1>7 DEF UpdateRemove
  <2> QED
    BY <1>4, <2>2, <2>3, <2>4, <2>5
<1> QED
  BY <1>5, <1>6, <1>7

-----------------------------------------------------------------------------
\* The secret is taken as it is, or will be replaced when it is not whole.
LEMMA SecretStep ==
  ASSUME CommandsInv, NEW p \in Procs, TakeSecret(p)
  PROVE  CommandsInv'
<1> DEFINE mem  == IF proc[p].mem = Nothing THEN Mem ELSE proc[p].mem
           next == IF proc[p].cmd.op = "import" THEN "seal" ELSE "unseal"
           file == content[SecretFile]
           made == MadeBy(proc[p].n)
           taken == [mem EXCEPT !.key = file.val]
           new   == [mem EXCEPT !.key = made]
<1>1. /\ proc[p].at = "secret" /\ ProcOK(proc[p]) /\ proc[p].file = Nothing
      /\ proc[p].cmd.op # "install"
  BY HoldsNothing DEF TakeSecret
<1>2. next \in {"seal", "unseal"} /\ "key" \in DOMAIN mem
  BY <1>1 DEF ProcOK, Mem
<1>3. IF file.is = "whole"
      THEN proc' = Remembers(p, next, taken) /\ UNCHANGED <<content, disturbed, torn, promised>>
      ELSE WillWrite(p, SecretFile, made, next, new)
  BY DEF TakeSecret
<1> HIDE DEF mem, next
<1>4. CASE file.is = "whole"
  <2>1. file = [is |-> file.is, val |-> file.val]
    BY StoresAssumption DEF CommandsInv, Shape
  <2>2. "key" \in DOMAIN taken /\ taken.key = file.val
    BY <1>2
  <2> HIDE DEF taken
  <2>3. file = Whole(taken.key)
    BY <1>4, <2>1, <2>2 DEF Whole
  <2> QED
    BY <1>1, <1>2, <1>3, <1>4, <2>2, <2>3, RememberStep
<1>5. CASE file.is # "whole"
  <2>1. SecretFile \in Files /\ SecretFile \notin TargetFiles \cup {VaultFile, ConfigFile, TokenFile}
    BY StoresAssumption, TargetsAssumption
  <2>2. WillWrite(p, SecretFile, made, next, new) /\ new.key = made
    BY <1>2, <1>3, <1>5
  <2> HIDE DEF new, made
  <2>3. ProcOK(proc'[p]) /\ proc'[p].at = "open"
    BY <1>1, <1>2, <2>1, <2>2, WriterShape
  <2>4. Intends(proc'[p], SecretFile, file, file)
    BY <1>5, <2>1, <2>3 DEF Intends
  <2> QED
    BY <1>1, <2>1, <2>2, <2>3, <2>4, WillWriteStep
<1> QED
  BY <1>4, <1>5

LEMMA SealStep ==
  ASSUME CommandsInv, NEW p \in Procs, SealToken(p)
  PROVE  CommandsInv'
<1> DEFINE v == [key |-> proc[p].mem.key, dev |-> proc[p].cmd.dev, creds |-> proc[p].cmd.creds]
<1>1. /\ proc[p].at = "seal" /\ ProcOK(proc[p]) /\ proc[p].file = Nothing
      /\ proc[p].cmd.op # "install" /\ WillWrite(p, TokenFile, v, "idle", Nothing)
  BY HoldsNothing DEF SealToken
<1>2. TokenFile \in Files /\ TokenFile \notin TargetFiles \cup {VaultFile, ConfigFile, SecretFile}
  BY StoresAssumption, TargetsAssumption
<1>3. {TokenFile, SecretFile} \cap disturbed = {} => content[SecretFile] = Whole(v.key)
  BY <1>1 DEF CommandsInv, TokenOK, SealsWith
<1> HIDE DEF v
<1>4. ProcOK(proc'[p]) /\ proc'[p].at = "open"
  BY <1>1, <1>2, WriterShape
<1>5. Intends(proc'[p], TokenFile, content[TokenFile], content[TokenFile])
  BY <1>2, <1>4 DEF Intends
<1> QED
  BY <1>1, <1>2, <1>3, <1>4, <1>5, WillWriteStep

LEMMA SessionStep ==
  ASSUME CommandsInv, NEW p \in Procs,
         ReadToken(p) \/ UnsealToken(p) \/ ShowStatus(p) \/ RemoveToken(p)
  PROVE  CommandsInv'
<1>1. /\ proc[p].at \in {"load", "unseal", "loaded", "clear"} /\ proc[p].file = Nothing
      /\ proc[p].cmd.op # "install"
  BY HoldsNothing DEF ReadToken, UnsealToken, ShowStatus, RemoveToken
<1>2. CASE ReadToken(p)
  <2> DEFINE token == [Mem EXCEPT !.token = content[TokenFile]]
  <2>1. /\ proc' = Remembers(p, "loaded", Mem) \/ proc' = Remembers(p, "secret", token)
        /\ UNCHANGED <<content, disturbed, torn, promised>>
    BY <1>2 DEF ReadToken
  <2>2. "key" \in DOMAIN token
    BY DEF Mem
  <2> HIDE DEF token
  <2> QED
    BY <1>1, <2>1, <2>2, RememberStep
<1>3. CASE UnsealToken(p)
  BY <1>1, <1>3, RememberStep DEF UnsealToken
<1>4. CASE ShowStatus(p)
  BY <1>1, <1>4, EndStep DEF ShowStatus
<1>5. CASE RemoveToken(p)
  <2>1. TokenFile \in Files \ {ConfigFile, SecretFile}
    BY StoresAssumption
  <2> QED
    BY <1>1, <1>5, <2>1, EndStep, RemoveStep DEF RemoveToken
<1> QED
  BY <1>2, <1>3, <1>4, <1>5

-----------------------------------------------------------------------------
\* plugin install: a place that is not empty is written with --force only.
LEMMA InstallStep ==
  ASSUME CommandsInv, NEW p \in Procs,
         Fetch(p) \/ FetchFails(p) \/ StatTarget(p) \/ TooLarge(p)
  PROVE  CommandsInv'
<1>1. CASE Fetch(p)
  <2>1. proc[p].cmd.op = "install" /\ proc[p].file = Nothing
    BY <1>1, HoldsNothing DEF Fetch, ProcOK
  <2> QED
    BY <1>1, <2>1, RememberStep DEF Fetch
<1>2. CASE FetchFails(p)
  BY <1>2, EndStep DEF FetchFails
<1>3. CASE StatTarget(p)
  <2> DEFINE f == proc[p].cmd.file
             v == proc[p].cmd.bin
  <2>1. /\ proc[p].at = "stat" /\ ProcOK(proc[p]) /\ proc[p].file = Nothing
        /\ proc[p].cmd.op = "install" /\ f \in TargetFiles
    BY <1>3, HoldsNothing DEF StatTarget, ProcOK
  <2>2. CASE End(p)
    BY <2>1, <2>2, EndStep
  <2>3. CASE ~End(p)
    <3>1. WillWrite(p, f, v, "idle", Nothing) /\ (content[f] = Absent \/ proc[p].cmd.force)
      BY <1>3, <2>3 DEF StatTarget
    <3>2. f \in Files /\ f \notin {VaultFile, ConfigFile, SecretFile, TokenFile}
      BY <2>1, TargetsAssumption
    <3>3. ProcOK(proc'[p]) /\ proc'[p].at = "open" /\ proc'[p].cmd = proc[p].cmd
      BY <2>1, <3>1, <3>2, WriterShape
    <3>4. Intends(proc'[p], f, content[f], content[f])
      BY <3>1, <3>2, <3>3 DEF Intends, Absent
    <3> HIDE DEF f, v
    <3> QED
      BY <2>1, <3>1, <3>2, <3>3, <3>4, WillWriteStep
  <2> QED
    BY <2>2, <2>3
<1>4. CASE TooLarge(p)
  <2>1. proc[p].file \in TargetFiles
    BY <1>4 DEF TooLarge, CommandsInv, Shape, ProcOK
  <2>2. proc[p].file \in Files \ {ConfigFile, SecretFile}
    BY <2>1, TargetsAssumption
  <2> QED
    BY <1>4, <2>2, RemoveStep DEF TooLarge
<1> QED
  BY <1>1, <1>2, <1>3, <1>4

LEMMA DiscoveryStep ==
  ASSUME CommandsInv, NEW p \in Procs,
         BeginSearch(p) \/ NextDirectory(p) \/ InspectNext(p) \/ EndSearch(p) \/ ShowPlugins(p)
  PROVE  CommandsInv'
<1>1. /\ proc[p].at \in {"discover", "search", "found"} /\ proc[p].file = Nothing
      /\ proc[p].cmd.op # "install"
  BY HoldsNothing DEF BeginSearch, NextDirectory, InspectNext, EndSearch, ShowPlugins
<1>2. CASE BeginSearch(p) \/ NextDirectory(p) \/ InspectNext(p)
  <2>1. /\ \E m : proc' = Remembers(p, "search", m)
        /\ UNCHANGED <<content, disturbed, torn, promised>>
    BY <1>2 DEF BeginSearch, NextDirectory, InspectNext
  <2> QED
    BY <1>1, <2>1, RememberStep
<1>3. CASE EndSearch(p)
  <2>1. proc' = Moved(p, "found") /\ UNCHANGED <<content, disturbed, torn, promised>>
    BY <1>3 DEF EndSearch
  <2> QED
    BY <1>1, <2>1, RememberStep
<1>4. CASE ShowPlugins(p)
  BY <1>1, <1>4, EndStep DEF ShowPlugins
<1> QED
  BY <1>2, <1>3, <1>4

-----------------------------------------------------------------------------
\* The device commands only read.
LEMMA ConnectStepKeeps ==
  ASSUME CommandsInv, NEW p \in Procs, ConnectStep(p)
  PROVE  CommandsInv'
<1>1. /\ proc[p].at \in {"profiles", "found", "credentials", "loaded", "connect"}
      /\ ProcOK(proc[p]) /\ proc[p].file = Nothing /\ proc[p].cmd.op # "install"
      /\ proc[p].at # "write" /\ DOMAIN proc = Procs
  BY HoldsNothing DEF ConnectStep, LoadProfiles, PickProfile, ChooseCredentials,
     ResolveCredentials, UseDevice, CommandsInv, Shape
<1>2. CASE End(p)
  BY <1>1, <1>2, EndStep
<1>3. CASE LoadProfiles(p) /\ ~End(p)
  <2>1. PICK cfg : /\ proc' = [proc EXCEPT ![p].at = "discover", ![p].out = cfg]
                   /\ UNCHANGED <<content, disturbed, torn, promised>>
    BY <1>3 DEF LoadProfiles
  <2> DEFINE r == [proc[p] EXCEPT !.at = "discover", !.out = cfg]
  <2>2. proc' = [proc EXCEPT ![p] = r]
    BY <1>1, <2>1
  <2>3. ProcOK(r) /\ r.file = Nothing /\ r.at = "discover"
    BY <1>1 DEF ProcOK
  <2> HIDE DEF r
  <2>4. SealsWith(r, content[SecretFile])
    BY <2>3, NothingAssumption, StoresAssumption DEF SealsWith
  <2> QED
    BY <1>1, <2>1, <2>2, <2>3, <2>4, QuietStep
<1>4. CASE PickProfile(p) /\ ~End(p)
  <2>1. PICK name, file :
          /\ proc' = [proc EXCEPT ![p] =
                [@ EXCEPT !.at = "credentials", !.mem = Nothing,
                          !.cmd = [op |-> "connect", provider |-> file,
                                   dev |-> IF name \in proc[p].out.devices
                                           THEN name ELSE "ephemeral"]]]
          /\ UNCHANGED <<content, disturbed, torn, promised>>
    BY <1>4 DEF PickProfile
  <2> DEFINE cmd == [op |-> "connect", provider |-> file,
                     dev |-> IF name \in proc[p].out.devices THEN name ELSE "ephemeral"]
             r   == [proc[p] EXCEPT !.at = "credentials", !.mem = Nothing, !.cmd = cmd]
  <2>2. proc' = [proc EXCEPT ![p] = r]
    BY <1>1, <2>1
  <2>3. cmd.op = "connect"
    OBVIOUS
  <2> HIDE DEF cmd
  <2>4. ProcOK(r) /\ r.file = Nothing /\ r.at = "credentials"
    BY <1>1, <2>3 DEF ProcOK
  <2> HIDE DEF r
  <2>5. SealsWith(r, content[SecretFile])
    BY <2>4, NothingAssumption, StoresAssumption DEF SealsWith
  <2> QED
    BY <1>1, <2>1, <2>2, <2>4, <2>5, QuietStep
<1>5. CASE ChooseCredentials(p)
  <2>1. /\ proc' = Moved(p, "load") \/ \E m : proc' = Remembers(p, "connect", m)
        /\ UNCHANGED <<content, disturbed, torn, promised>>
    BY <1>5 DEF ChooseCredentials
  <2>2. CASE proc' = Moved(p, "load")
    BY <1>1, <2>1, <2>2, RememberStep
  <2>3. CASE \E m : proc' = Remembers(p, "connect", m)
    BY <1>1, <2>1, <2>3, RememberStep
  <2> QED
    BY <2>1, <2>2, <2>3
<1>6. CASE ResolveCredentials(p)
  <2>1. /\ \E m : proc' = Remembers(p, "connect", m)
        /\ UNCHANGED <<content, disturbed, torn, promised>>
    BY <1>6 DEF ResolveCredentials
  <2> QED
    BY <1>1, <2>1, RememberStep
<1>7. CASE UseDevice(p)
  BY <1>1, <1>7, EndStep DEF UseDevice
<1> QED
  BY <1>2, <1>3, <1>4, <1>5, <1>6, <1>7 DEF ConnectStep

-----------------------------------------------------------------------------
LEMMA CommandsInvInit == Init => CommandsInv
<1> SUFFICES ASSUME Init PROVE CommandsInv
  OBVIOUS
<1>1. /\ content \in Before /\ promised = content /\ disturbed = {} /\ torn = {}
      /\ proc = [p \in Procs |-> Idle]
  BY DEF Init
<1>2. \A p \in Procs : proc[p] = Idle /\ proc[p].file = Nothing /\ proc[p].at = "idle"
  BY <1>1, IdleOK
<1>3. /\ DOMAIN content = Files
      /\ \A f \in Files : content[f] \in {Absent, EmptyFile, Whole(content[f].val)}
  BY <1>1, BeforeAssumption
<1>4. Shape
  <2>1. \A f \in Files : /\ content[f] = [is |-> content[f].is, val |-> content[f].val]
                          /\ content[f].is \in {"absent", "empty", "whole"}
    BY <1>3 DEF Absent, EmptyFile, Whole
  <2> QED
    BY <1>1, <1>2, <1>3, <2>1, IdleOK DEF Shape
<1>5. WritersOK
  BY <1>2, NothingAssumption DEF WritersOK
<1>6. FilesHoldWhatCommandsReported
  BY <1>1 DEF FilesHoldWhatCommandsReported
<1>7. ConfigOK
  <2>1. content[ConfigFile].is # "cut"
    BY <1>3, StoresAssumption DEF Absent, EmptyFile, Whole
  <2> QED
    BY <1>1, <1>2, <2>1, BeforeAssumption, NothingAssumption, StoresAssumption DEF ConfigOK
<1>8. TokenOK
  BY <1>1, <1>2, BeforeAssumption, NothingAssumption, StoresAssumption DEF TokenOK, SealsWith
<1> QED
  BY <1>4, <1>5, <1>6, <1>7, <1>8 DEF CommandsInv

LEMMA CommandsInvStep == CommandsInv /\ [Next]_fileVars => CommandsInv'
<1> SUFFICES ASSUME CommandsInv, [Next]_fileVars PROVE CommandsInv'
  OBVIOUS
<1>1. CASE UNCHANGED fileVars
  BY <1>1 DEF fileVars, CommandsInv, Shape, WritersOK, FilesHoldWhatCommandsReported, Settled,
     ConfigOK, TokenOK
<1>2. ASSUME NEW p \in Procs,
             StartStoreCommand(p) \/ StartPluginCommand(p) \/ Connect(p) \/ Step(p)
      PROVE  CommandsInv'
  <2>1. CASE StartStoreCommand(p) \/ StartPluginCommand(p) \/ Connect(p)
    BY <2>1, StartStep
  <2>2. CASE StoreStep(p)
    BY <2>2, VaultStep, ConfigStep, SecretStep, SealStep, SessionStep DEF StoreStep
  <2>3. CASE PluginStep(p)
    BY <2>3, InstallStep, DiscoveryStep DEF PluginStep
  <2>4. CASE ConnectStep(p)
    BY <2>4, ConnectStepKeeps
  <2>5. CASE OpenFile(p, Failed(p))
    BY <2>5, OpenStep, OpenFailsStep DEF OpenFile
  <2>6. CASE Kill(p)
    BY <2>6, EndStep DEF Kill
  <2> QED
    BY <1>2, <2>1, <2>2, <2>3, <2>4, <2>5, <2>6, FinishStep, BreakOffStep DEF Step
<1> QED
  BY <1>1, <1>2 DEF Next

\* Whoever is about to write a file nobody disturbed saw what it holds and what
\* was promised of it, for any processes and any commands.
THEOREM CommandsInvariance == Spec => []CommandsInv
BY CommandsInvInit, CommandsInvStep, PTL DEF Spec

\* A file that was not disturbed holds what the commands that reported success
\* add up to.
THEOREM ReportedIsThere == Spec => []FilesHoldWhatCommandsReported
<1>1. CommandsInv => FilesHoldWhatCommandsReported
  BY DEF CommandsInv
<1> QED
  BY <1>1, CommandsInvariance, PTL

\* An imported session token opens under the secret there is, unless somebody
\* raced for one of the two files or was killed while writing one.
THEOREM TokenReadable == Spec => []TokenStaysReadable
<1>1. CommandsInv => TokenStaysReadable
  BY DEF CommandsInv, TokenOK, TokenStaysReadable
<1> QED
  BY <1>1, CommandsInvariance, PTL

\* The default device of a saved configuration has a profile, in races and after
\* crashes too, unless the configuration was cut.
THEOREM DefaultHasAProfile == Spec => []DefaultNamesAProfile
<1>1. CommandsInv => DefaultNamesAProfile
  BY DEF CommandsInv, ConfigOK, DefaultNamesAProfile
<1> QED
  BY <1>1, CommandsInvariance, PTL

-----------------------------------------------------------------------------
\* Nobody but the writer of a plugin, at its opening or writing, touches it.
LEMMA OnlyWritersTouchPlugins ==
  ASSUME CommandsInv, NEW p \in Procs, NEW f \in TargetFiles,
         StartStoreCommand(p) \/ StartPluginCommand(p) \/ Connect(p) \/ Step(p),
         content'[f] # content[f]
  PROVE  /\ proc[p].at \in {"open", "write"} /\ proc[p].file = f
         /\ disturbed \subseteq disturbed'
<1>1. DOMAIN content = Files /\ f \in Files \ {TokenFile}
  BY TargetsAssumption DEF CommandsInv, Shape
<1>2. CASE StartStoreCommand(p) \/ StartPluginCommand(p) \/ Connect(p)
  BY <1>2 DEF StartStoreCommand, SetVault, DeleteVault, AddDevice, RemoveDevice, ImportToken,
     TokenStatus, ClearToken, StartPluginCommand, InstallPlugin, ListPlugins, Connect, Run
<1>3. CASE StoreStep(p)
  <2>1. content' = content \/ content' = [content EXCEPT ![TokenFile] = Absent]
    BY <1>3 DEF StoreStep, UpdateVault, UpdateAdd, UpdateRemove, TakeSecret, SealToken, ReadToken,
       UnsealToken, ShowStatus, RemoveToken, RemoveFile, WillWrite, End
  <2> QED
    BY <1>1, <2>1
<1>4. CASE PluginStep(p)
  <2>1. CASE TooLarge(p)
    BY <1>1, <2>1 DEF TooLarge, RemoveFile, Disturb
  <2>2. CASE ~TooLarge(p)
    BY <1>4, <2>2 DEF PluginStep, Fetch, FetchFails, StatTarget, BeginSearch, NextDirectory,
       InspectNext, EndSearch, ShowPlugins, WillWrite, End
  <2> QED
    BY <2>1, <2>2
<1>5. CASE ConnectStep(p)
  <2>1. content' = content
    BY <1>5 DEF ConnectStep, LoadProfiles, PickProfile, ChooseCredentials, ResolveCredentials,
       UseDevice, End
  <2> QED
    BY <2>1
<1>6. CASE OpenFile(p, Failed(p))
  BY <1>1, <1>6 DEF OpenFile
<1>7. CASE Finish(p)
  BY <1>1, <1>7 DEF Finish, WriteFile
<1>8. CASE BreakOff(p, Failed(p))
  BY <1>1, <1>8 DEF BreakOff
<1>9. CASE Kill(p)
  BY <1>9 DEF Kill, End
<1> QED
  BY <1>2, <1>3, <1>4, <1>5, <1>6, <1>7, <1>8, <1>9 DEF Step

\* A plugin that is there whole goes only by the hand of an install with --force,
\* or of one of two installs that looked before the other had written.
THEOREM NoOverwrite == Spec => NoOverwriteWithoutForce
<1> DEFINE Kept == \A f \in TargetFiles :
             content[f].is = "whole" /\ content'[f] # content[f] /\ f \notin disturbed' =>
               \E p \in Procs : proc[p].file = f /\ proc[p].cmd.force
<1>1. CommandsInv /\ [Next]_fileVars => [Kept]_fileVars
  <2> SUFFICES ASSUME CommandsInv, Next, NEW f \in TargetFiles, content[f].is = "whole",
                      content'[f] # content[f], f \notin disturbed'
               PROVE  \E p \in Procs : proc[p].file = f /\ proc[p].cmd.force
    OBVIOUS
  <2>1. PICK p \in Procs :
          StartStoreCommand(p) \/ StartPluginCommand(p) \/ Connect(p) \/ Step(p)
    BY DEF Next
  <2>2. proc[p].file = f /\ f \notin disturbed
    BY <2>1, OnlyWritersTouchPlugins
  <2>3. Intends(proc[p], f, content[f], promised[f])
    BY <2>2, TargetsAssumption DEF CommandsInv, WritersOK
  <2> QED
    BY <2>2, <2>3 DEF Intends
<1>2. [][Kept]_fileVars => NoOverwriteWithoutForce
  BY DEF NoOverwriteWithoutForce
<1> QED
  BY <1>1, <1>2, CommandsInvariance, PTL DEF Spec
=============================================================================
