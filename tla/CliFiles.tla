------------------------------ MODULE CliFiles ------------------------------
(***************************************************************************)
(* The processes and the files of the command line.  Every michibiki       *)
(* command is a process of its own; two may run at once, and any may be    *)
(* killed between two steps.  They share the files of the user: the vault, *)
(* the configuration, the session secret and token, the plugin binaries.   *)
(* No command takes a lock.                                                *)
(*                                                                         *)
(* A file is written the way os.WriteFile and os.OpenFile with O_TRUNC do: *)
(* opening it empties it, then the bytes follow.  Whoever reads in between *)
(* sees an empty or a cut file, a process that is killed leaves one, and a *)
(* write may fail half way.  Two writers overwrite each other from the     *)
(* first byte on: the result is the second content, or a mixture that does *)
(* not parse when the first one was longer.                                *)
(***************************************************************************)
EXTENDS Naturals, FiniteSets, Sequences

CONSTANTS
  Procs,       \* processes that may run at the same time
  MaxCommands, \* bound: commands that are started
  Files,       \* the paths
  FixedSize,   \* those whose content always has the same length
  Nothing

ASSUME NothingAssumption == Nothing \notin Files

VARIABLES
  content,   \* content[f]: what the path f holds
  proc,      \* proc[p]: the command p runs and how far it is
  started,   \* commands started so far
  disturbed, \* history: files that two commands were about to write at once, or
             \* whose writing was cut short
  torn,      \* history: files that have held a cut content
  promised   \* history: what the commands that reported success add up to

fileVars == <<content, proc, started, disturbed, torn, promised>>

Absent   == [is |-> "absent", val |-> Nothing]
EmptyFile == [is |-> "empty", val |-> Nothing]
Cut(v)   == [is |-> "cut", val |-> v]    \* the beginning of v, or a mixture
Whole(v) == [is |-> "whole", val |-> v]

\* A process between commands: at is the step it is about to take, n the number
\* of its command, file and out what it is about to write and where, then the
\* step that follows, mem what it remembers.
Idle == [at |-> "idle", cmd |-> [op |-> "none"], n |-> 0, file |-> Nothing,
         out |-> Nothing, then |-> "idle", mem |-> Nothing]

Run(p, cmd, at) ==
  /\ proc[p].at = "idle"
  /\ started < MaxCommands
  /\ started' = started + 1
  /\ proc' = [proc EXCEPT ![p] = [Idle EXCEPT !.cmd = cmd, !.n = started + 1, !.at = at]]
  /\ UNCHANGED <<content, disturbed, torn, promised>>

Moved(p, at)         == [proc EXCEPT ![p].at = at]
Remembers(p, at, m)  == [proc EXCEPT ![p].at = at, ![p].mem = m]
Ended(p)             == [proc EXCEPT ![p] = Idle]
End(p) == proc' = Ended(p) /\ UNCHANGED <<content, started, disturbed, torn, promised>>

\* Another command has read f, or found it missing, and is about to write it.
Rivals(p, f) == {q \in Procs \ {p} : proc[q].file = f}
Disturb(p, f) == IF Rivals(p, f) = {} THEN disturbed ELSE disturbed \cup {f}

\* p has looked at f and will replace it by v, then go on with the step then.
WillWrite(p, f, v, then, m) ==
  /\ proc' = [proc EXCEPT ![p] = [@ EXCEPT !.at = "open", !.file = f, !.out = v,
                                            !.then = then, !.mem = m]]
  /\ disturbed' = Disturb(p, f)
  /\ UNCHANGED <<content, started, torn, promised>>

\* The file is opened and emptied, or it cannot be opened: failed is how the command
\* takes the error.
OpenFile(p, failed) ==
  /\ proc[p].at = "open"
  /\ \/ /\ content' = [content EXCEPT ![proc[p].file] = EmptyFile]
        /\ proc' = Moved(p, "write")
     \/ proc' = failed /\ UNCHANGED content
  /\ UNCHANGED <<started, disturbed, torn, promised>>

\* What the path may hold after p wrote v: nothing if it was removed meanwhile.
Written(f, v) ==
  CASE content[f] = Absent -> {Absent}
    [] content[f] = EmptyFile \/ f \in FixedSize -> {Whole(v)}
    [] OTHER -> {Whole(v), Cut(content[f].val)}

\* The files that hold a cut content after the step.
Torn(p) == IF content'[proc[p].file].is = "cut" THEN torn \cup {proc[p].file} ELSE torn

\* The bytes are written and the command goes on; next is what it promises.
WriteFile(p, next) ==
  /\ proc[p].at = "write"
  /\ \E c \in Written(proc[p].file, proc[p].out) :
       content' = [content EXCEPT ![proc[p].file] = c]
  /\ proc' = [proc EXCEPT ![p] = IF @.then = "idle" THEN Idle
                                 ELSE [@ EXCEPT !.at = proc[p].then, !.file = Nothing]]
  /\ promised' = next
  /\ torn' = Torn(p)
  /\ UNCHANGED <<started, disturbed>>

\* What the path may hold when the writing of v breaks off.
Broken(f, v) == IF content[f] = Absent THEN {Absent} ELSE {EmptyFile, Cut(v)}

\* The process is killed, or the disk is full or the source of the bytes breaks
\* off, which is an error like those of OpenFile: what was written stays.
BreakOff(p, failed) ==
  /\ proc[p].at = "write"
  /\ \E c \in Broken(proc[p].file, proc[p].out) :
       content' = [content EXCEPT ![proc[p].file] = c]
  /\ disturbed' = disturbed \cup {proc[p].file}
  /\ torn' = Torn(p)
  /\ proc' \in {Ended(p), failed}
  /\ UNCHANGED <<started, promised>>

\* A process that is not writing is killed.
Kill(p) == proc[p].at \notin {"idle", "write"} /\ End(p)

\* The file is removed and the command ends.
RemoveFile(p, f) ==
  /\ content' = [content EXCEPT ![f] = Absent]
  /\ promised' = [promised EXCEPT ![f] = Absent]
  /\ disturbed' = Disturb(p, f)
  /\ proc' = Ended(p)
  /\ UNCHANGED <<started, torn>>
=============================================================================
