------------------------- MODULE SafetyEngineProofs -------------------------
(***************************************************************************)
(* Proofs about SafetyEngine, for any ids, any reuse of ids and any number *)
(* of commits.  EngineInv is inductive: one lemma per action.              *)
(***************************************************************************)
EXTENDS SafetyEngine, FiniteSetTheorems, TLAPS

\* The initial state satisfies the invariant.
LEMMA EngineInit == Init => EngineInv
BY StartsAssumption, NoIdAssumption
DEF Init, EngineInv, TypeOK, PendingSessions, StartInProgress, MadeSessions, UsedOnce,
    ConfirmedIds, CallbackUnconfirmed, Starts, None, TimerStates

\* A new session has a number and an armed timer of its own, and an id that
\* no session has unless it may be reused.
LEMMA StartArmStep ==
  ASSUME EngineInv, NEW id \in Ids, StartArm(id)
  PROVE  EngineInv'
<1> USE DEF None, Starts
<1>0. started \in Nat /\ MaxStarts \in Nat /\ started + 1 \in Starts
  BY StartsAssumption DEF EngineInv, TypeOK, StartArm
<1>1. TypeOK'
  BY <1>0 DEF EngineInv, TypeOK, StartArm, TimerStates
<1>2. PendingSessions'
  BY <1>0 DEF EngineInv, TypeOK, PendingSessions, StartArm
<1>3. StartInProgress'
  BY <1>0 DEF EngineInv, TypeOK, StartArm, StartInProgress
<1>4. MadeSessions'
  BY <1>0 DEF EngineInv, TypeOK, StartArm, MadeSessions
<1>5. UsedOnce'
  BY <1>0 DEF EngineInv, TypeOK, StartArm, UsedOnce
<1>6. ConfirmedIds'
  BY <1>0 DEF EngineInv, TypeOK, StartArm, ConfirmedIds
<1>7. CallbackUnconfirmed'
  BY <1>0 DEF EngineInv, TypeOK, StartArm, CallbackUnconfirmed, MadeSessions
<1>8. QED
  BY <1>1, <1>2, <1>3, <1>4, <1>5, <1>6, <1>7 DEF EngineInv

\* The session is registered under its own id, which has not been confirmed
\* if it is used once.
LEMMA StartInsertStep ==
  ASSUME EngineInv, StartInsert
  PROVE  EngineInv'
<1> USE DEF None, Starts
<1>0. mu \in Starts /\ mu = started /\ sid[mu] \in Ids
  BY DEF EngineInv, TypeOK, StartInsert, StartInProgress, MadeSessions
<1>1. TypeOK'
  BY <1>0, StartsAssumption DEF EngineInv, TypeOK, StartInsert, Leave
<1>2. PendingSessions'
  BY <1>0 DEF EngineInv, TypeOK, PendingSessions, StartInProgress, StartInsert
<1>3. StartInProgress' /\ MadeSessions' /\ UsedOnce' /\ CallbackUnconfirmed'
  BY <1>0 DEF EngineInv, StartInsert, StartInProgress, MadeSessions, UsedOnce, CallbackUnconfirmed
<1>4. ConfirmedIds'
  BY <1>0 DEF EngineInv, TypeOK, StartInsert, ConfirmedIds
<1>5. QED
  BY <1>1, <1>2, <1>3, <1>4 DEF EngineInv

\* The confirmed session leaves the map.  Its timer has not called back, and
\* no other timer carries its id if the id is used once.
LEMMA ConfirmStep ==
  ASSUME EngineInv, NEW id \in Ids, Confirm(id)
  PROVE  EngineInv'
<1> USE DEF None, Starts
<1>1. CASE sessions[id] = None
  <2>1. UNCHANGED vars
    BY <1>1 DEF Confirm, vars
  <2>2. QED
    BY <2>1 DEF EngineInv, TypeOK, PendingSessions, StartInProgress, MadeSessions, UsedOnce,
                ConfirmedIds, CallbackUnconfirmed, vars
<1>2. CASE sessions[id] # None
  <2> DEFINE k == sessions[id]
  <2>0. /\ k \in Starts /\ k \in 1..started /\ sid[k] = id
        /\ timer[k] \in {"armed", "fired"} /\ mu = None
    BY <1>2 DEF EngineInv, TypeOK, PendingSessions, Confirm
  <2>a. \A j \in Starts : j # k => timer'[j] = timer[j]
    BY <1>2, <2>0 DEF EngineInv, TypeOK, Confirm
  <2>b. timer'[k] \in {"stopped", "fired"}
    BY <1>2, <2>0 DEF EngineInv, TypeOK, Confirm
  <2>c. \A i \in Ids : sessions'[i] = IF i = id THEN None ELSE sessions[i]
    BY <1>2 DEF EngineInv, TypeOK, Confirm
  <2>d. \A i \in Ids : lastConfirm'[i] = IF i = id THEN started ELSE lastConfirm[i]
    BY <1>2 DEF EngineInv, TypeOK, Confirm
  <2>e. UNCHANGED <<started, sid, mu>>
    BY DEF Confirm
  <2>1. TypeOK'
    <3>1. timer' \in [Starts -> TimerStates]
      BY <1>2, <2>0 DEF EngineInv, TypeOK, Confirm, TimerStates
    <3>2. fate' \in [Starts -> {"none", "confirmed", "expired", "replaced"}]
      BY <1>2, <2>0 DEF EngineInv, TypeOK, Confirm, Leave
    <3>3. sessions' \in [Ids -> 0..MaxStarts] /\ lastConfirm' \in [Ids -> 0..MaxStarts]
      <4>1. 0 \in 0..MaxStarts /\ started \in 0..MaxStarts
        BY StartsAssumption DEF EngineInv, TypeOK
      <4>2. /\ sessions' = [sessions EXCEPT ![id] = 0]
            /\ lastConfirm' = [lastConfirm EXCEPT ![id] = started]
        BY <1>2 DEF Confirm
      <4>3. QED
        BY <4>1, <4>2 DEF EngineInv, TypeOK
    <3>4. QED
      BY <3>1, <3>2, <3>3 DEF EngineInv, TypeOK, Confirm
  <2>2. PendingSessions'
    <3> SUFFICES ASSUME NEW i \in Ids, sessions'[i] # None
                 PROVE  /\ sessions'[i] \in 1..started'
                        /\ sid'[sessions'[i]] = i
                        /\ timer'[sessions'[i]] \in {"armed", "fired"}
      BY DEF PendingSessions
    <3>1. i # id /\ sessions'[i] = sessions[i]
      BY <2>c
    <3>2. sessions[i] \in 1..started /\ sid[sessions[i]] = i
          /\ timer[sessions[i]] \in {"armed", "fired"}
      BY <3>1 DEF EngineInv, PendingSessions
    <3>3. sessions[i] # k /\ sessions[i] \in Starts
      BY <2>0, <3>1, <3>2 DEF EngineInv, TypeOK
    <3>4. QED
      BY <2>a, <2>e, <3>1, <3>2, <3>3
  <2>3. StartInProgress' /\ UsedOnce'
    BY <2>0, <2>e DEF EngineInv, StartInProgress, UsedOnce
  <2>4. MadeSessions'
    BY <2>0, <2>a, <2>b, <2>e DEF EngineInv, TypeOK, MadeSessions
  <2>5. ConfirmedIds'
    BY <2>0, <2>c, <2>d, <2>e DEF EngineInv, ConfirmedIds
  <2>6. CallbackUnconfirmed'
    <3> SUFFICES ASSUME NEW j \in Starts, timer'[j] = "callback", sid'[j] \notin ReusableIds
                 PROVE  lastConfirm'[sid'[j]] = 0
      BY DEF CallbackUnconfirmed
    <3>1. j # k /\ timer[j] = "callback"
      BY <2>a, <2>b
    <3>2. sid[j] \in Ids /\ j \in 1..started
      BY <3>1 DEF EngineInv, TypeOK, MadeSessions
    <3>3. sid[j] # id
      BY <2>0, <2>e, <3>1, <3>2 DEF EngineInv, UsedOnce
    <3>4. lastConfirm[sid[j]] = 0
      BY <2>e, <3>1 DEF EngineInv, CallbackUnconfirmed
    <3>5. QED
      BY <2>d, <2>e, <3>2, <3>3, <3>4
  <2>7. QED
    BY <2>1, <2>2, <2>3, <2>4, <2>5, <2>6 DEF EngineInv
<1>3. QED
  BY <1>1, <1>2

\* A timer that fires still has its session to remove.
LEMMA TimerFireStep ==
  ASSUME EngineInv, NEW k \in Starts, TimerFire(k)
  PROVE  EngineInv'
<1>1. TypeOK'
  BY DEF EngineInv, TypeOK, TimerFire, TimerStates
<1>2. \A j \in Starts : timer'[j] = IF j = k THEN "fired" ELSE timer[j]
  BY DEF EngineInv, TypeOK, TimerFire
<1>3. timer[k] = "armed" /\ UNCHANGED <<started, sid, mu, sessions, lastConfirm>>
  BY DEF TimerFire
<1>4. \A i \in Ids : sessions[i] # None => sessions[i] \in Starts
  BY DEF EngineInv, TypeOK, None, Starts
<1>5. mu # None => mu \in Starts
  BY DEF EngineInv, TypeOK, None, Starts
<1>6. PendingSessions' /\ StartInProgress'
  BY <1>2, <1>3, <1>4, <1>5 DEF EngineInv, PendingSessions, StartInProgress
<1>7. MadeSessions'
  BY <1>2, <1>3 DEF EngineInv, MadeSessions
<1>8. UsedOnce' /\ ConfirmedIds'
  BY <1>3 DEF EngineInv, UsedOnce, ConfirmedIds
<1>9. CallbackUnconfirmed'
  BY <1>2, <1>3 DEF EngineInv, CallbackUnconfirmed
<1>10. QED
  BY <1>1, <1>6, <1>7, <1>8, <1>9 DEF EngineInv

\* A timer removes the session its id names.  It goes on to a rollback only
\* if there was one, and then a used-once id has not been confirmed.
LEMMA TimerSectionStep ==
  ASSUME EngineInv, NEW k \in Starts, TimerSection(k)
  PROVE  EngineInv'
<1> DEFINE i == sid[k]
<1>0. i \in Ids /\ k <= started /\ timer[k] = "fired" /\ mu = None
  BY DEF EngineInv, TypeOK, MadeSessions, TimerSection
<1>1. TypeOK'
  BY <1>0, StartsAssumption DEF EngineInv, TypeOK, TimerSection, Leave, None, TimerStates
<1>2. \A j \in Starts : j # k => timer'[j] = timer[j]
  BY DEF EngineInv, TypeOK, TimerSection
<1>3. /\ timer'[k] \in {"callback", "done"}
      /\ timer'[k] = "callback" => sessions[i] # None
  BY DEF EngineInv, TypeOK, TimerSection
<1>4. \A h \in Ids : sessions'[h] = IF h = i THEN None ELSE sessions[h]
  BY <1>0 DEF EngineInv, TypeOK, TimerSection
<1>5. UNCHANGED <<started, sid, mu, lastConfirm>>
  BY DEF TimerSection
<1>6. PendingSessions'
  <2> SUFFICES ASSUME NEW h \in Ids, sessions'[h] # None
               PROVE  /\ sessions'[h] \in 1..started'
                      /\ sid'[sessions'[h]] = h
                      /\ timer'[sessions'[h]] \in {"armed", "fired"}
    BY DEF PendingSessions
  <2>1. h # i /\ sessions'[h] = sessions[h]
    BY <1>4
  <2>2. /\ sessions[h] \in 1..started /\ sid[sessions[h]] = h
        /\ timer[sessions[h]] \in {"armed", "fired"}
    BY <2>1 DEF EngineInv, PendingSessions
  <2>3. sessions[h] # k /\ sessions[h] \in Starts
    BY <2>1, <2>2 DEF EngineInv, TypeOK, None, Starts
  <2>4. QED
    BY <1>2, <1>5, <2>1, <2>2, <2>3
<1>7. StartInProgress' /\ UsedOnce'
  BY <1>0, <1>5 DEF EngineInv, StartInProgress, UsedOnce
<1>8. MadeSessions'
  BY <1>0, <1>2, <1>5 DEF EngineInv, MadeSessions
<1>9. ConfirmedIds'
  BY <1>4, <1>5 DEF EngineInv, ConfirmedIds
<1>10. CallbackUnconfirmed'
  <2> SUFFICES ASSUME NEW j \in Starts, timer'[j] = "callback", sid'[j] \notin ReusableIds
               PROVE  lastConfirm'[sid'[j]] = 0
    BY DEF CallbackUnconfirmed
  <2>1. CASE j = k
    BY <1>0, <1>3, <1>5, <2>1 DEF EngineInv, ConfirmedIds
  <2>2. CASE j # k
    BY <1>2, <1>5, <2>2 DEF EngineInv, CallbackUnconfirmed
  <2>3. QED
    BY <2>1, <2>2
<1>11. QED
  BY <1>1, <1>6, <1>7, <1>8, <1>9, <1>10 DEF EngineInv

\* A timer that has called back has left the map long before.
LEMMA RollbackStep ==
  ASSUME EngineInv, NEW k \in Starts, Rollback(k)
  PROVE  EngineInv'
<1>1. TypeOK'
  BY DEF EngineInv, TypeOK, Rollback, TimerStates
<1>2. \A j \in Starts : timer'[j] = IF j = k THEN "done" ELSE timer[j]
  BY DEF EngineInv, TypeOK, Rollback
<1>3. timer[k] = "callback" /\ UNCHANGED <<started, sid, mu, sessions, lastConfirm>>
  BY DEF Rollback
<1>4. \A i \in Ids : sessions[i] # None => sessions[i] \in Starts
  BY DEF EngineInv, TypeOK, None, Starts
<1>5. mu # None => mu \in Starts
  BY DEF EngineInv, TypeOK, None, Starts
<1>6. PendingSessions' /\ StartInProgress'
  BY <1>2, <1>3, <1>4, <1>5 DEF EngineInv, PendingSessions, StartInProgress
<1>7. MadeSessions'
  BY <1>2, <1>3 DEF EngineInv, MadeSessions
<1>8. UsedOnce' /\ ConfirmedIds'
  BY <1>3 DEF EngineInv, UsedOnce, ConfirmedIds
<1>9. CallbackUnconfirmed'
  BY <1>2, <1>3 DEF EngineInv, CallbackUnconfirmed
<1>10. QED
  BY <1>1, <1>6, <1>7, <1>8, <1>9 DEF EngineInv

\* The invariant is inductive.
LEMMA EngineInvStep == EngineInv /\ [Next]_vars => EngineInv'
<1> SUFFICES ASSUME EngineInv, [Next]_vars PROVE EngineInv'
  OBVIOUS
<1>1. CASE UNCHANGED vars
  BY <1>1 DEF EngineInv, TypeOK, PendingSessions, StartInProgress, MadeSessions, UsedOnce,
              ConfirmedIds, CallbackUnconfirmed, vars
<1>2. ASSUME NEW id \in Ids, StartArm(id) PROVE EngineInv'
  BY <1>2, StartArmStep
<1>3. ASSUME NEW id \in Ids, Confirm(id) PROVE EngineInv'
  BY <1>3, ConfirmStep
<1>4. CASE StartInsert
  BY <1>4, StartInsertStep
<1>5. ASSUME NEW k \in Starts, Timer(k) PROVE EngineInv'
  BY <1>5, TimerFireStep, TimerSectionStep, RollbackStep DEF Timer
<1>6. QED
  BY <1>1, <1>2, <1>3, <1>4, <1>5 DEF Next

\* EngineInv holds in every reachable state, however ids are chosen.
THEOREM EngineInvariance == Spec => []EngineInv
BY EngineInit, EngineInvStep, PTL DEF Spec

\* The engine's state has its type.
THEOREM EngineTypes == Spec => []TypeOK
<1>1. EngineInv => TypeOK
  BY DEF EngineInv
<1>2. QED
  BY <1>1, EngineInvariance, PTL

\* Every pending session has a timer that is still to remove it, whatever
\* ids are reused.
THEOREM NoSessionWithoutTimer == Spec => []PendingHasTimer
<1>1. EngineInv => PendingHasTimer
  BY DEF EngineInv, PendingSessions, PendingHasTimer, ListPending
<1>2. QED
  BY <1>1, EngineInvariance, PTL

\* No commit under an id that is used once is rolled back after Confirm has
\* succeeded: onRollback is called only by a timer in "callback", and
\* CallbackUnconfirmed says that no such id has been confirmed.
THEOREM ConfirmedStaysCommitted == Spec => ConfirmIsFinal
<1>1. ASSUME EngineInv, [Next]_vars
      PROVE  [~RollsBackConfirmed(Ids \ ReusableIds)]_vars
  <2>1. SUFFICES ASSUME NEW k \in rolledBack' \ rolledBack, sid[k] \in Ids \ ReusableIds,
                        lastConfirm[sid[k]] >= k
                 PROVE  FALSE
    BY DEF RollsBackConfirmed
  <2>2. k \in Starts /\ Rollback(k)
    BY <1>1, <2>1 DEF Next, vars, StartArm, Confirm, StartInsert, Timer, TimerFire,
                      TimerSection, Rollback
  <2>3. lastConfirm[sid[k]] = 0
    BY <1>1, <2>1, <2>2 DEF EngineInv, CallbackUnconfirmed, Rollback
  <2>4. QED
    BY <2>1, <2>2, <2>3, StartsAssumption DEF Starts
<1>2. QED
  BY <1>1, EngineInvariance, PTL DEF Spec, ConfirmIsFinal
-----------------------------------------------------------------------------
(* Rollbacks and the sessions they use up *)

Rolling == {k \in Starts : timer[k] = "callback"} \cup rolledBack

\* What has not left the map yet, or is not in it yet, has no fate; and no start
\* is registered before it is inserted.
FatesOpen ==
  /\ \A i \in Ids : sessions[i] # None => fate[sessions[i]] = "none"
  /\ \A k \in Starts : k > started => fate[k] = "none"
  /\ mu # None => fate[mu] = "none" /\ \A i \in Ids : sessions[i] # mu

CountInv == EngineInv /\ FatesOpen /\ RollbacksUseUpSessions

\* Neither the rollbacks nor the expired sessions change in number.
LEMMA CountFrame ==
  ASSUME RollbacksUseUpSessions, Rolling' = Rolling, ExpiredSessions' = ExpiredSessions
  PROVE  RollbacksUseUpSessions'
BY DEF RollbacksUseUpSessions, Rolling

\* Sets of starts are finite.
LEMMA StartsFinite == IsFiniteSet(Starts) /\ \A S \in SUBSET Starts : IsFiniteSet(S)
<1>1. IsFiniteSet(1..MaxStarts)
  BY FS_Interval, StartsAssumption
<1> QED
  BY <1>1, FS_Subset DEF Starts

LEMMA CountInit == Init => FatesOpen /\ RollbacksUseUpSessions
<1> SUFFICES ASSUME Init PROVE FatesOpen /\ RollbacksUseUpSessions
  OBVIOUS
<1>1. FatesOpen
  BY DEF Init, FatesOpen
<1>2. Rolling = {} /\ ExpiredSessions = {}
  BY DEF Init, Rolling, ExpiredSessions
<1> QED
  BY <1>1, <1>2, FS_EmptySet DEF RollbacksUseUpSessions, Rolling

LEMMA StartCount ==
  ASSUME CountInv, (\E id \in Ids : StartArm(id)) \/ StartInsert
  PROVE  FatesOpen' /\ RollbacksUseUpSessions'
<1> USE DEF None, Starts
<1>0. TypeOK /\ FatesOpen /\ RollbacksUseUpSessions /\ MaxStarts \in Nat
  BY StartsAssumption DEF CountInv, EngineInv
<1>1. CASE \E id \in Ids : StartArm(id)
  <2>1. FatesOpen'
    BY <1>0, <1>1 DEF CountInv, EngineInv, PendingSessions, TypeOK, FatesOpen, StartArm
  <2>2. Rolling' = Rolling /\ ExpiredSessions' = ExpiredSessions
    BY <1>0, <1>1 DEF CountInv, EngineInv, MadeSessions, TypeOK, StartArm, Rolling, ExpiredSessions
  <2> QED
    BY <1>0, <2>1, <2>2, CountFrame
<1>2. CASE StartInsert
  <2>0. mu \in 1..MaxStarts /\ mu = started /\ sid[mu] \in Ids
    BY <1>0, <1>2 DEF CountInv, EngineInv, TypeOK, StartInsert, StartInProgress, MadeSessions
  <2> DEFINE old == sessions[sid[mu]]
  <2>1. /\ old \in 0..MaxStarts /\ fate \in [Starts -> {"none", "confirmed", "expired", "replaced"}]
        /\ fate' = IF old = 0 THEN fate ELSE [fate EXCEPT ![old] = "replaced"]
        /\ sessions' = [sessions EXCEPT ![sid[mu]] = mu] /\ mu' = 0 /\ started' = started
        /\ sessions \in [Ids -> 0..MaxStarts] /\ timer' = timer /\ rolledBack' = rolledBack
    BY <1>0, <1>2, <2>0 DEF TypeOK, StartInsert, Leave
  <2>2. old # mu /\ (old # 0 => fate[old] = "none" /\ old <= started)
    BY <1>0, <2>0, <2>1 DEF FatesOpen, CountInv, EngineInv, PendingSessions
  <2>3. ASSUME NEW i \in Ids, sessions'[i] # 0 PROVE fate'[sessions'[i]] = "none"
    <3>1. CASE i = sid[mu]
      BY <1>0, <2>0, <2>1, <2>2, <3>1 DEF FatesOpen
    <3>2. CASE i # sid[mu]
      <4>1. sessions'[i] = sessions[i] /\ sessions[i] \in Starts /\ sid[sessions[i]] = i
        BY <2>0, <2>1, <2>3, <3>2 DEF CountInv, EngineInv, PendingSessions
      <4>2. old # 0 => sid[old] = sid[mu]
        BY <2>0, <2>1 DEF CountInv, EngineInv, PendingSessions
      <4> QED
        BY <1>0, <2>1, <2>3, <3>2, <4>1, <4>2 DEF FatesOpen
    <3> QED
      BY <3>1, <3>2
  <2>4. FatesOpen'
    BY <1>0, <2>0, <2>1, <2>2, <2>3 DEF FatesOpen
  <2>5. Rolling' = Rolling /\ ExpiredSessions' = ExpiredSessions
    BY <2>1, <2>2 DEF Rolling, ExpiredSessions
  <2> QED
    BY <1>0, <2>4, <2>5, CountFrame
<1> QED
  BY <1>1, <1>2

\* A session that leaves the map: the others keep having no fate.
LEMMA LeaveFates ==
  ASSUME CountInv, NEW id \in Ids, NEW how, fate' = Leave(sessions[id], how), mu = None,
         sessions' = [sessions EXCEPT ![id] = None], UNCHANGED <<started, mu>>
  PROVE  FatesOpen'
<1> USE DEF None, Starts
<1>1. /\ sessions \in [Ids -> 0..MaxStarts] /\ sessions[id] \in 0..MaxStarts
      /\ fate \in [Starts -> {"none", "confirmed", "expired", "replaced"}]
      /\ started \in Nat /\ MaxStarts \in Nat
  BY StartsAssumption DEF CountInv, EngineInv, TypeOK
<1>2. sessions[id] # 0 => sessions[id] <= started /\ sid[sessions[id]] = id
  BY <1>1 DEF CountInv, EngineInv, PendingSessions
<1>3. ASSUME NEW i \in Ids, sessions'[i] # 0 PROVE fate'[sessions'[i]] = "none"
  <2>1. i # id /\ sessions'[i] = sessions[i] /\ sid[sessions[i]] = i
    BY <1>1, <1>3 DEF CountInv, EngineInv, PendingSessions
  <2> QED
    BY <1>1, <1>2, <1>3, <2>1 DEF Leave, CountInv, FatesOpen
<1>4. \A k \in Starts : k > started' => fate'[k] = "none"
  BY <1>1, <1>2 DEF Leave, CountInv, FatesOpen
<1> QED
  BY <1>1, <1>3, <1>4 DEF FatesOpen

LEMMA ConfirmCount ==
  ASSUME CountInv, NEW id \in Ids, Confirm(id)
  PROVE  FatesOpen' /\ RollbacksUseUpSessions'
<1> USE DEF None, Starts
<1>1. CASE sessions[id] = None
  <2>1. UNCHANGED <<started, mu, sessions, timer, fate, rolledBack>>
    BY <1>1 DEF Confirm
  <2> QED
    BY <2>1 DEF CountInv, FatesOpen, RollbacksUseUpSessions, ExpiredSessions
<1>2. CASE sessions[id] # None
  <2>1. FatesOpen'
    BY <1>2, LeaveFates DEF Confirm
  <2>2. /\ sessions[id] \in Starts /\ fate[sessions[id]] = "none"
        /\ timer[sessions[id]] \in {"armed", "fired"}
        /\ timer \in [Starts -> TimerStates]
        /\ fate \in [Starts -> {"none", "confirmed", "expired", "replaced"}]
    BY <1>2 DEF CountInv, EngineInv, TypeOK, FatesOpen, PendingSessions
  <2>3. Rolling' = Rolling /\ ExpiredSessions' = ExpiredSessions
    BY <1>2, <2>2 DEF Confirm, Leave, Rolling, ExpiredSessions
  <2> QED
    BY <2>1, <2>3, CountFrame DEF CountInv
<1> QED
  BY <1>1, <1>2

\* The locked section of a timer: if there will be a callback, a session expires.
LEMMA SectionCount ==
  ASSUME CountInv, NEW k \in Starts, TimerSection(k)
  PROVE  FatesOpen' /\ RollbacksUseUpSessions'
<1> USE DEF None
<1>0. sid[k] \in Ids
  BY DEF CountInv, EngineInv, TypeOK, MadeSessions, TimerSection
<1>1. FatesOpen'
  BY <1>0, LeaveFates DEF TimerSection
<1> DEFINE s == sessions[sid[k]]
<1>2. /\ timer \in [Starts -> TimerStates] /\ timer[k] = "fired" /\ rolledBack \subseteq Starts
      /\ fate \in [Starts -> {"none", "confirmed", "expired", "replaced"}]
      /\ s # 0 => s \in Starts /\ fate[s] = "none"
      /\ rolledBack' = rolledBack
  BY <1>0 DEF CountInv, EngineInv, TypeOK, FatesOpen, PendingSessions, TimerSection, Starts
<1>3. CASE s = 0
  <2>1. Rolling' = Rolling /\ ExpiredSessions' = ExpiredSessions
    BY <1>2, <1>3 DEF TimerSection, Leave, Rolling, ExpiredSessions
  <2> QED
    BY <1>1, <2>1, CountFrame DEF CountInv
<1>4. CASE s # 0
  <2>1. ExpiredSessions' = ExpiredSessions \cup {s} /\ s \notin ExpiredSessions
    BY <1>2, <1>4 DEF TimerSection, Leave, ExpiredSessions
  <2>2. Rolling' = Rolling \/ Rolling' = Rolling \cup {k}
    BY <1>2, <1>4 DEF TimerSection, Rolling
  <2>3. /\ IsFiniteSet(Rolling) /\ IsFiniteSet(ExpiredSessions)
        /\ Cardinality(Rolling) \in Nat /\ Cardinality(ExpiredSessions) \in Nat
    BY <1>2, StartsFinite, FS_CardinalityType DEF Rolling, ExpiredSessions
  <2>4. Cardinality(ExpiredSessions') = Cardinality(ExpiredSessions) + 1
    BY <2>1, <2>3, FS_AddElement
  <2>5. Cardinality(Rolling') <= Cardinality(Rolling) + 1
    BY <2>2, <2>3, FS_AddElement
  <2>6. Cardinality(Rolling) <= Cardinality(ExpiredSessions)
    BY DEF CountInv, RollbacksUseUpSessions, Rolling
  <2>7. Cardinality(Rolling') <= Cardinality(ExpiredSessions')
    <3>1. IsFiniteSet(Rolling')
      BY <2>2, <2>3, FS_AddElement
    <3>2. Cardinality(Rolling') \in Nat
      BY <3>1, FS_CardinalityType
    <3> QED
      BY <2>3, <2>4, <2>5, <2>6, <3>2
  <2> QED
    BY <1>1, <2>7 DEF RollbacksUseUpSessions, Rolling
<1> QED
  BY <1>3, <1>4

LEMMA CountStep == CountInv /\ [Next]_vars => CountInv'
<1> SUFFICES ASSUME CountInv, [Next]_vars PROVE FatesOpen' /\ RollbacksUseUpSessions'
  BY EngineInvStep DEF CountInv
<1>1. CASE UNCHANGED vars
  BY <1>1 DEF vars, CountInv, FatesOpen, RollbacksUseUpSessions, ExpiredSessions
<1>2. ASSUME NEW k \in Starts, TimerFire(k) \/ Rollback(k)
      PROVE  FatesOpen' /\ RollbacksUseUpSessions'
  <2>1. UNCHANGED <<started, mu, sessions, fate>>
    BY <1>2 DEF TimerFire, Rollback
  <2>2. timer \in [Starts -> TimerStates]
    BY DEF CountInv, EngineInv, TypeOK
  <2>3. Rolling' = Rolling /\ ExpiredSessions' = ExpiredSessions
    BY <1>2, <2>1, <2>2 DEF TimerFire, Rollback, Rolling, ExpiredSessions
  <2> QED
    BY <2>1, <2>3, CountFrame DEF CountInv, FatesOpen
<1> QED
  BY <1>1, <1>2, StartCount, ConfirmCount, SectionCount DEF Next, Timer

\* There are never more rollbacks, done or about to be done, than commits that
\* expired, however the timers of one id overlap (the timer's function in
\* StartCommitConfirm).
THEOREM RollbacksAreCovered == Spec => []RollbacksUseUpSessions
<1>1. Init => CountInv
  BY EngineInit, CountInit DEF CountInv
<1>2. CountInv => RollbacksUseUpSessions
  BY DEF CountInv
<1> QED
  BY <1>1, <1>2, CountStep, PTL DEF Spec
=============================================================================
