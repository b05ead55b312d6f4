---------------------------- MODULE SafetyEngine ----------------------------
(***************************************************************************)
(* The commit-confirm engine of pkg/safety/safety.go: a commit that is not *)
(* confirmed in time is rolled back by a timer of its own.                 *)
(*                                                                         *)
(* A session is known by the id its caller chose.  The timer is a closure  *)
(* over that id, not over the session: when it fires, a new goroutine      *)
(* takes the lock, removes whatever session the id names at that moment,   *)
(* and calls onRollback after it has released the lock.  Confirm stops the *)
(* timer, but Stop has no effect on a goroutine that already runs.         *)
(*                                                                         *)
(* A caller may use an id in ReusableIds for several commits; it uses any  *)
(* other id once.  Time is abstract: an armed timer may fire at any moment,*)
(* and timers fire in any order because commits have different timeouts.   *)
(***************************************************************************)
EXTENDS Naturals, FiniteSets

CONSTANTS
  Ids,          \* session ids that callers choose
  ReusableIds,  \* those of them that a caller may choose again
  MaxStarts,    \* bound: calls of StartCommitConfirm
  NoId          \* the id of a session that does not exist yet

Starts == 1..MaxStarts   \* start k makes session k and timer k
None   == 0

ASSUME StartsAssumption == MaxStarts \in Nat \ {0}
ASSUME NoIdAssumption   == NoId \notin Ids

VARIABLES
  started,     \* how many sessions have been made
  sid,         \* sid[k]: the id of session k, and of the closure of timer k
  silent,      \* the sessions started with a nil onRollback
  mu,          \* the start that holds the lock between its steps, or None
  sessions,    \* the map: sessions[i] is the session under id i, or None
  timer,       \* timer[k]: where timer k and its goroutine are
  fate,        \* history: how session k left the map
  lastConfirm, \* history: how many sessions had been made when id i was
               \* last confirmed
  rolledBack   \* history: the starts whose onRollback was called

vars == <<started, sid, silent, mu, sessions, timer, fate, lastConfirm, rolledBack>>

TimerStates == {"unset", "armed", "fired", "callback", "done", "stopped"}

TypeOK ==
  /\ started \in 0..MaxStarts
  /\ sid \in [Starts -> Ids \cup {NoId}]
  /\ silent \in SUBSET Starts
  /\ mu \in 0..MaxStarts
  /\ sessions \in [Ids -> 0..MaxStarts]
  /\ timer \in [Starts -> TimerStates]
  /\ fate \in [Starts -> {"none", "confirmed", "expired", "replaced"}]
  /\ lastConfirm \in [Ids -> 0..MaxStarts]
  /\ rolledBack \in SUBSET Starts

Init ==
  /\ started = 0
  /\ sid = [k \in Starts |-> NoId]
  /\ silent = {}
  /\ mu = None
  /\ sessions = [i \in Ids |-> None]
  /\ timer = [k \in Starts |-> "unset"]
  /\ fate = [k \in Starts |-> "none"]
  /\ lastConfirm = [i \in Ids |-> 0]
  /\ rolledBack = {}

\* Session k leaves the map, if it is one.
Leave(k, how) == IF k = None THEN fate ELSE [fate EXCEPT ![k] = how]

-----------------------------------------------------------------------------
\* StartCommitConfirm takes the lock, makes the session and arms its timer.
\* From here on the timer may fire, but its goroutine waits for the lock.
StartArm(id) ==
  /\ mu = None
  /\ started < MaxStarts
  /\ id \in ReusableIds \/ \A k \in 1..started : sid[k] # id
  /\ started' = started + 1
  /\ mu' = started + 1
  /\ sid' = [sid EXCEPT ![started + 1] = id]
  /\ timer' = [timer EXCEPT ![started + 1] = "armed"]
  /\ silent' \in {silent, silent \cup {started + 1}}
  /\ UNCHANGED <<sessions, fate, lastConfirm, rolledBack>>

\* Mutant: the lock is not released.
StartInsertLocked ==
  /\ mu # None
  /\ fate' = Leave(sessions[sid[mu]], "replaced")
  /\ sessions' = [sessions EXCEPT ![sid[mu]] = mu]
  /\ UNCHANGED <<started, sid, silent, mu, timer, lastConfirm, rolledBack>>

\* It registers the session and unlocks.  A session already under that id is
\* overwritten, and its timer keeps running.
StartInsert ==
  /\ mu # None
  /\ fate' = Leave(sessions[sid[mu]], "replaced")
  /\ sessions' = [sessions EXCEPT ![sid[mu]] = mu]
  /\ mu' = None
  /\ UNCHANGED <<started, sid, silent, timer, lastConfirm, rolledBack>>

\* Confirm, one locked section: an error if the id names no session, else
\* stop its timer (in vain if it has fired) and remove it.
Confirm(id) ==
  /\ mu = None
  /\ \/ /\ sessions[id] = None
        /\ UNCHANGED <<timer, sessions, fate, lastConfirm>>
     \/ /\ sessions[id] # None
        /\ timer' = [timer EXCEPT ![sessions[id]] = IF @ = "armed" THEN "stopped" ELSE @]
        /\ fate' = Leave(sessions[id], "confirmed")
        /\ sessions' = [sessions EXCEPT ![id] = None]
        /\ lastConfirm' = [lastConfirm EXCEPT ![id] = started]
  /\ UNCHANGED <<started, sid, silent, mu, rolledBack>>

\* The runtime fires timer k: its function runs in a goroutine of its own.
TimerFire(k) ==
  /\ timer[k] = "armed"
  /\ timer' = [timer EXCEPT ![k] = "fired"]
  /\ UNCHANGED <<started, sid, silent, mu, sessions, fate, lastConfirm, rolledBack>>

\* Mutant: the timer rolls the session back and leaves it in the map.
TimerSectionKeeps(k) ==
  /\ timer[k] = "fired"
  /\ mu = None
  /\ timer' = [timer EXCEPT ![k] =
                 IF sessions[sid[k]] # None /\ k \notin silent THEN "callback" ELSE "done"]
  /\ UNCHANGED <<started, sid, silent, mu, sessions, fate, lastConfirm, rolledBack>>

\* Mutant: the timer rolls back whether or not it found a session.
TimerSectionUnchecked(k) ==
  /\ timer[k] = "fired"
  /\ mu = None
  /\ fate' = Leave(sessions[sid[k]], "expired")
  /\ timer' = [timer EXCEPT ![k] = "callback"]
  /\ sessions' = [sessions EXCEPT ![sid[k]] = None]
  /\ UNCHANGED <<started, sid, silent, mu, lastConfirm, rolledBack>>

\* The locked section of that function: remove the session under the id.
TimerSection(k) ==
  /\ timer[k] = "fired"
  /\ mu = None
  /\ fate' = Leave(sessions[sid[k]], "expired")
  /\ timer' = [timer EXCEPT ![k] =
                 IF sessions[sid[k]] # None /\ k \notin silent THEN "callback" ELSE "done"]
  /\ sessions' = [sessions EXCEPT ![sid[k]] = None]
  /\ UNCHANGED <<started, sid, silent, mu, lastConfirm, rolledBack>>

\* onRollback(id, origConfig), outside the lock; its error is discarded.
Rollback(k) ==
  /\ timer[k] = "callback"
  /\ timer' = [timer EXCEPT ![k] = "done"]
  /\ rolledBack' = rolledBack \cup {k}
  /\ UNCHANGED <<started, sid, silent, mu, sessions, fate, lastConfirm>>

\* ListPending returns the sessions in the map.
ListPending == {sessions[i] : i \in Ids} \ {None}

Timer(k) == TimerFire(k) \/ TimerSection(k) \/ Rollback(k)

Next ==
  \/ \E id \in Ids : StartArm(id) \/ Confirm(id)
  \/ StartInsert
  \/ \E k \in Starts : Timer(k)

Spec == Init /\ [][Next]_vars

\* Armed timers fire, their goroutines run and get the lock, and a start that
\* holds the lock goes on.  Nobody has to start or confirm anything.
FairSpec ==
  /\ Spec
  /\ WF_vars(StartInsert)
  /\ \A k \in Starts : WF_vars(TimerFire(k)) /\ SF_vars(TimerSection(k)) /\ WF_vars(Rollback(k))

-----------------------------------------------------------------------------
(* Properties *)

\* A step calls onRollback of a start after a Confirm of its id succeeded.
RollsBackConfirmed(S) ==
  \E k \in rolledBack' \ rolledBack : sid[k] \in S /\ lastConfirm[sid[k]] >= k

\* A commit under an id that is used once is never rolled back after it was
\* confirmed: not even if its timer had fired before and the timer's goroutine
\* was waiting for the lock that Confirm held.
ConfirmIsFinal == [][~RollsBackConfirmed(Ids \ ReusableIds)]_vars

\* The package's test of Confirm expects that of every id.
ConfirmIsFinalForEveryId == [][~RollsBackConfirmed(Ids)]_vars

\* A pending session has a timer that is still to remove it, even while ids
\* are reused and a timer removes the session of another start: no commit is
\* left unconfirmed for ever without a timer.
PendingHasTimer == \A k \in ListPending : timer[k] \in {"armed", "fired"}

\* Every rollback uses up a session: however timers of the same id overlap,
\* there are never more rollbacks than commits that expired.
ExpiredSessions == {k \in Starts : fate[k] = "expired"}
RollbacksUseUpSessions ==
  Cardinality({k \in Starts : timer[k] = "callback"} \cup rolledBack)
    <= Cardinality(ExpiredSessions)

\* A commit under an id of its own that is not confirmed is rolled back, by
\* its own timer and to its own configuration.
UnconfirmedIsRolledBack ==
  \A k \in Starts :
    (k <= started /\ k \notin silent /\ sid[k] \notin ReusableIds)
      ~> (fate[k] = "confirmed" \/ k \in rolledBack)

\* The inductive invariant of the proofs.  A pending session is found under its own id and
\* its timer has not run; so is a session that is being started; a used id
\* names one session unless it may be reused, and such an id, once confirmed,
\* names no session and no rollback.
PendingSessions ==
  \A i \in Ids : sessions[i] # None =>
    /\ sessions[i] \in 1..started
    /\ sid[sessions[i]] = i
    /\ timer[sessions[i]] \in {"armed", "fired"}
StartInProgress ==
  mu # None => mu = started /\ timer[mu] \in {"armed", "fired"}
MadeSessions ==
  \A k \in Starts : IF k <= started THEN sid[k] \in Ids ELSE timer[k] = "unset"
UsedOnce ==
  \A j, k \in 1..started : (sid[j] = sid[k] /\ sid[j] \notin ReusableIds) => j = k
ConfirmedIds ==
  \A i \in Ids \ ReusableIds : lastConfirm[i] # 0 =>
    /\ sessions[i] = None
    /\ mu # None => sid[mu] # i
    /\ \E k \in 1..started : sid[k] = i
CallbackUnconfirmed ==
  \A k \in Starts :
    (timer[k] = "callback" /\ sid[k] \notin ReusableIds) => lastConfirm[sid[k]] = 0

EngineInv ==
  /\ TypeOK /\ PendingSessions /\ StartInProgress /\ MadeSessions
  /\ UsedOnce /\ ConfirmedIds /\ CallbackUnconfirmed
=============================================================================
