------------------------------ MODULE TuiProofs ------------------------------
(* TuiInv is an invariant of the terminal UI, for any results that fetches *)
(* may have and any number of fetches and timers.                          *)
EXTENDS Tui, TLAPS

\* A clamped index is within its list.
LEMMA ClampInRange ==
  ASSUME NEW i \in Nat, NEW n \in Nat
  PROVE  Clamp(i, n) \in Nat /\ (Clamp(i, n) < n \/ Clamp(i, n) = 0)
BY DEF Clamp

\* Moving an index that is within its list leaves it there.
LEMMA MovedInRange ==
  ASSUME NEW i \in Nat, NEW n \in Nat, NEW d \in Int, i < n \/ i = 0
  PROVE  Moved(i, n, d) \in Nat /\ (Moved(i, n, d) < n \/ Moved(i, n, d) = 0)
<1>1. CASE n = 0
  BY <1>1 DEF Moved
<1>2. CASE n # 0 /\ i + d < 0
  BY <1>2 DEF Moved
<1>3. CASE n # 0 /\ ~(i + d < 0)
  <2>1. i + d \in Nat
    BY <1>3
  <2>2. Moved(i, n, d) = Clamp(i + d, n)
    BY <1>3 DEF Moved
  <2>. QED
    BY <2>1, <2>2, ClampInRange
<1>. QED
  BY <1>1, <1>2, <1>3

\* The parts of TypeOK that different actions change.
PanesOK == focus \in {Dock, Detail} /\ panel \in 0..3 /\ subTab \in Overview..Plugin
ModesOK ==
  /\ running \in BOOLEAN /\ provider \in Providers
  /\ typing \in BOOLEAN /\ help \in BOOLEAN
DataOK ==
  /\ len \in [Lists -> Nat] /\ sel \in [Lists -> Nat]
  /\ shown \in 0..MaxFetches
FetchOK == started \in 0..MaxFetches /\ inflight \in SUBSET Fetches
FlashOK == timers \in 0..MaxTimers /\ (flash => timers > 0)
BoolsOK == loading \in BOOLEAN /\ flash \in BOOLEAN

LEMMA InvParts ==
  TuiInv <=> /\ ModesOK /\ PanesOK /\ DataOK /\ FetchOK /\ FlashOK /\ BoolsOK
             /\ SelectionsInRange /\ LoadingHasAFetch /\ FetchesKnown
BY DEF TuiInv, TypeOK, ModesOK, PanesOK, DataOK, FetchOK, FlashOK, BoolsOK, FlashHasTimer

LEMMA NextParts ==
  ASSUME ModesOK', PanesOK', DataOK', FetchOK', FlashOK', BoolsOK',
         SelectionsInRange', LoadingHasAFetch', FetchesKnown'
  PROVE  TuiInv'
BY DEF TuiInv, TypeOK, ModesOK, PanesOK, DataOK, FetchOK, FlashOK, BoolsOK, FlashHasTimer

\* A fetch is started: it is the newest, and one is under way.
LEMMA FetchKeeps ==
  ASSUME TuiInv, Fetch, UNCHANGED shown
  PROVE  FetchOK' /\ FetchesKnown' /\ inflight' # {}
<1>1. /\ started \in Nat /\ started < MaxFetches /\ started' = started + 1
      /\ inflight' = inflight \cup {started + 1} /\ inflight \in SUBSET Fetches
      /\ \A f \in inflight \cup {shown} : f <= started
      /\ shown \in 0..MaxFetches
  BY LimitsAssumption DEF TuiInv, TypeOK, Fetch, FetchesKnown
<1>2. started + 1 \in Fetches /\ started' \in 0..MaxFetches
  BY <1>1, LimitsAssumption DEF Fetches
<1>3. FetchOK'
  BY <1>1, <1>2 DEF FetchOK
<1>4. ASSUME NEW f \in inflight' \cup {shown'} PROVE f <= started'
  <2>1. CASE f = started + 1
    BY <2>1, <1>1
  <2>2. CASE f # started + 1
    <3>1. f \in inflight \cup {shown}
      BY <2>2, <1>1, <1>4
    <3>2. f \in Int
      BY <3>1, <1>1, LimitsAssumption DEF Fetches
    <3>. QED
      BY <3>1, <3>2, <1>1
  <2>. QED
    BY <2>1, <2>2
<1>. QED
  BY <1>1, <1>3, <1>4 DEF FetchesKnown

\* A message is shown with a timer to clear it.
LEMMA FlashKeeps ==
  ASSUME TuiInv, Flash
  PROVE  FlashOK' /\ flash' \in BOOLEAN
BY LimitsAssumption DEF TuiInv, TypeOK, Flash, FlashOK

\* Opening a sub-tab keeps everything but the pane in focus and its panel.
LEMMA OpenTabKeeps ==
  ASSUME TuiInv, NEW tab \in Overview..Plugin, OpenTab(tab),
         UNCHANGED <<modeVars, dataVars>>,
         focus' \in {Dock, Detail}, panel' = panel
  PROVE  TuiInv'
<1>1. ModesOK' /\ DataOK' /\ SelectionsInRange'
  BY InvParts DEF ModesOK, DataOK, SelectionsInRange, modeVars, dataVars
<1>2. PanesOK'
  BY InvParts DEF PanesOK, OpenTab
<1>3. FlashOK' /\ BoolsOK'
  BY InvParts, FlashKeeps DEF BoolsOK, OpenTab, dataVars
<1>4. FetchOK' /\ FetchesKnown' /\ LoadingHasAFetch'
  <2>1. CASE tab = Traffic
    BY <2>1, FetchKeeps DEF OpenTab, LoadingHasAFetch, dataVars
  <2>2. CASE tab # Traffic
    BY <2>2, InvParts
    DEF OpenTab, FetchOK, FetchesKnown, LoadingHasAFetch, dataVars, fetchVars, modeVars
  <2>. QED
    BY <2>1, <2>2
<1>. QED
  BY <1>1, <1>2, <1>3, <1>4, NextParts

\* Keys that only move selections.
LEMMA MoveKeeps ==
  ASSUME TuiInv,
         UNCHANGED <<modeVars, paneVars, len, shown, loading, fetchVars, flashVars>>,
         sel' \in [Lists -> Nat],
         \A l \in Lists : sel'[l] < len[l] \/ sel'[l] = 0
  PROVE  TuiInv'
<1>1. ModesOK' /\ PanesOK' /\ FetchOK' /\ FlashOK' /\ BoolsOK'
  BY InvParts DEF ModesOK, PanesOK, FetchOK, FlashOK, BoolsOK, modeVars, paneVars,
                  fetchVars, flashVars
<1>2. DataOK' /\ SelectionsInRange'
  BY InvParts DEF DataOK, SelectionsInRange
<1>3. FetchesKnown' /\ LoadingHasAFetch'
  BY InvParts DEF FetchesKnown, LoadingHasAFetch, fetchVars, modeVars
<1>. QED
  BY <1>1, <1>2, <1>3, NextParts

\* Keys that only change panes and modes; the event loop may end.
LEMMA PanesKeep ==
  ASSUME TuiInv, UNCHANGED <<dataVars, fetchVars, flashVars>>, ModesOK', PanesOK',
         running' => running
  PROVE  TuiInv'
<1>1. DataOK' /\ FetchOK' /\ FlashOK' /\ BoolsOK' /\ SelectionsInRange'
  BY InvParts DEF DataOK, FetchOK, FlashOK, BoolsOK, SelectionsInRange, dataVars,
                  fetchVars, flashVars
<1>2. FetchesKnown' /\ LoadingHasAFetch'
  BY InvParts DEF FetchesKnown, LoadingHasAFetch, dataVars, fetchVars
<1>. QED
  BY <1>1, <1>2, NextParts

LEMMA InitInv == Init => TuiInv
<1>. SUFFICES ASSUME Init PROVE TuiInv
  OBVIOUS
<1>1. ModesOK /\ BoolsOK
  BY DEF Init, ModesOK, BoolsOK
<1>2. PanesOK
  BY DEF Init, PanesOK, Overview, Plugin
<1>3. DataOK /\ FetchOK /\ FlashOK
  BY LimitsAssumption DEF Init, DataOK, FetchOK, FlashOK, Fetches
<1>4. SelectionsInRange /\ LoadingHasAFetch /\ FetchesKnown
  BY DEF Init, SelectionsInRange, LoadingHasAFetch, FetchesKnown
<1>. QED
  BY <1>1, <1>2, <1>3, <1>4, InvParts

LEMMA TickInv == TuiInv /\ Tick => TuiInv'
<1>. SUFFICES ASSUME TuiInv, Tick PROVE TuiInv'
  OBVIOUS
<1>1. ModesOK' /\ PanesOK' /\ DataOK' /\ FlashOK' /\ BoolsOK' /\ SelectionsInRange'
  BY InvParts DEF Tick, ModesOK, PanesOK, DataOK, FlashOK, BoolsOK, SelectionsInRange,
                  modeVars, paneVars, dataVars, flashVars
<1>2. FetchOK' /\ FetchesKnown' /\ LoadingHasAFetch'
  BY FetchKeeps DEF Tick, dataVars, LoadingHasAFetch
<1>. QED
  BY <1>1, <1>2, NextParts

LEMMA ClearFlashInv == TuiInv /\ ClearFlash => TuiInv'
<1>. SUFFICES ASSUME TuiInv, ClearFlash PROVE TuiInv'
  OBVIOUS
<1>1. ModesOK' /\ PanesOK' /\ DataOK' /\ FetchOK' /\ SelectionsInRange'
  BY InvParts DEF ClearFlash, ModesOK, PanesOK, DataOK, FetchOK, SelectionsInRange,
                  modeVars, paneVars, dataVars, fetchVars
<1>2. FetchesKnown' /\ LoadingHasAFetch' /\ BoolsOK'
  BY InvParts DEF ClearFlash, FetchesKnown, LoadingHasAFetch, BoolsOK, modeVars, dataVars,
                  fetchVars
<1>3. timers' \in 0..MaxTimers
  BY LimitsAssumption DEF TuiInv, TypeOK, ClearFlash
<1>4. FlashOK'
  BY <1>3 DEF ClearFlash, FlashOK
<1>. QED
  BY <1>1, <1>2, <1>4, NextParts

LEMMA DataFetchedInv == TuiInv /\ (\E f \in Fetches : DataFetched(f)) => TuiInv'
<1>. SUFFICES ASSUME TuiInv, NEW f \in Fetches, DataFetched(f) PROVE TuiInv'
  OBVIOUS
<1>1. ModesOK' /\ PanesOK' /\ FlashOK' /\ BoolsOK'
  BY InvParts DEF DataFetched, ModesOK, PanesOK, FlashOK, BoolsOK, modeVars, paneVars,
                  flashVars
<1>2. len' \in [Lists -> Nat]
  BY ResultsAssumption DEF DataFetched
<1>3. sel' = [l \in Lists |-> Clamp(sel[l], len'[l])] /\ sel \in [Lists -> Nat]
  BY DEF DataFetched, TuiInv, TypeOK
<1>4. ASSUME NEW l \in Lists
      PROVE  sel'[l] \in Nat /\ (sel'[l] < len'[l] \/ sel'[l] = 0)
  <2>1. sel[l] \in Nat /\ len'[l] \in Nat /\ sel'[l] = Clamp(sel[l], len'[l])
    BY <1>2, <1>3
  <2>. QED
    BY <2>1, ClampInRange
<1>5. shown' \in 0..MaxFetches
  BY LimitsAssumption DEF DataFetched, Fetches
<1>6. DataOK' /\ SelectionsInRange'
  <2>1. sel' \in [Lists -> Nat]
    BY <1>3, <1>4
  <2>. QED
    BY <1>2, <1>4, <1>5, <2>1 DEF DataOK, SelectionsInRange
<1>7. FetchOK' /\ FetchesKnown' /\ LoadingHasAFetch'
  BY InvParts DEF DataFetched, FetchOK, FetchesKnown, LoadingHasAFetch
<1>. QED
  BY <1>1, <1>6, <1>7, NextParts

LEMMA ReloadInv == TuiInv /\ KeyReload => TuiInv'
<1>. SUFFICES ASSUME TuiInv, KeyReload PROVE TuiInv'
  OBVIOUS
<1>1. ModesOK' /\ PanesOK' /\ DataOK' /\ SelectionsInRange'
  BY InvParts DEF KeyReload, ModesOK, PanesOK, DataOK, SelectionsInRange, modeVars,
                  paneVars
<1>2. FlashOK' /\ BoolsOK'
  BY FlashKeeps DEF KeyReload, BoolsOK
<1>3. FetchOK' /\ FetchesKnown' /\ LoadingHasAFetch'
  BY FetchKeeps DEF KeyReload, LoadingHasAFetch
<1>. QED
  BY <1>1, <1>2, <1>3, NextParts

LEMMA YankInv == TuiInv /\ KeyYank => TuiInv'
<1>. SUFFICES ASSUME TuiInv, KeyYank PROVE TuiInv'
  OBVIOUS
<1>1. ModesOK' /\ PanesOK' /\ DataOK' /\ FetchOK' /\ SelectionsInRange'
  BY InvParts DEF KeyYank, ModesOK, PanesOK, DataOK, FetchOK, SelectionsInRange, modeVars,
                  paneVars, dataVars, fetchVars
<1>2. FetchesKnown' /\ LoadingHasAFetch'
  BY InvParts DEF KeyYank, FetchesKnown, LoadingHasAFetch, modeVars, dataVars, fetchVars
<1>3. FlashOK' /\ BoolsOK'
  BY InvParts, FlashKeeps DEF KeyYank, BoolsOK, dataVars
<1>. QED
  BY <1>1, <1>2, <1>3, NextParts

LEMMA DigitInv == TuiInv /\ (\E d \in 1..4 : KeyDigit(d)) => TuiInv'
<1>. SUFFICES ASSUME TuiInv, NEW d \in 1..4, KeyDigit(d) PROVE TuiInv'
  OBVIOUS
<1>1. CASE focus = Detail /\ OpenTab(d - 1) /\ UNCHANGED <<focus, panel>>
  <2>1. d - 1 \in Overview..Plugin
    BY DEF Overview, Plugin
  <2>2. UNCHANGED <<modeVars, dataVars>> /\ focus' \in {Dock, Detail}
    BY <1>1, InvParts DEF KeyDigit, PanesOK
  <2>. QED
    BY <1>1, <2>1, <2>2, OpenTabKeeps
<1>2. CASE /\ focus = Dock /\ panel' = d - 1
           /\ UNCHANGED <<focus, subTab, fetchVars, flashVars>>
  <2>1. PanesOK'
    BY <1>2, InvParts DEF PanesOK
  <2>2. ModesOK' /\ running' = running
    BY InvParts DEF KeyDigit, ModesOK, modeVars
  <2>. QED
    BY <1>2, <2>1, <2>2, PanesKeep DEF KeyDigit
<1>. QED
  BY <1>1, <1>2 DEF KeyDigit

LEMMA OpenInv == TuiInv /\ (Key5 \/ \E tab \in Overview..Plugin : KeyOpen(tab)) => TuiInv'
<1>1. ASSUME TuiInv, Key5 PROVE TuiInv'
  <2>1. Plugin \in Overview..Plugin
    BY DEF Overview, Plugin
  <2>2. UNCHANGED <<modeVars, dataVars>> /\ focus' \in {Dock, Detail} /\ panel' = panel
    BY <1>1, InvParts DEF Key5, PanesOK
  <2>. QED
    BY <1>1, <2>1, <2>2, OpenTabKeeps DEF Key5
<1>2. ASSUME TuiInv, NEW tab \in Overview..Plugin, KeyOpen(tab) PROVE TuiInv'
  BY <1>2, OpenTabKeeps DEF KeyOpen
<1>. QED
  BY <1>1, <1>2

LEMMA TabInv ==
  TuiInv /\ (\E step \in {-1, 1} : KeyTab(step) \/ KeyBracket(step)) => TuiInv'
<1>. SUFFICES ASSUME TuiInv, NEW step \in {-1, 1}, KeyTab(step) \/ KeyBracket(step)
              PROVE  TuiInv'
  OBVIOUS
<1>1. panel \in 0..3 /\ subTab \in 0..4 /\ focus \in {Dock, Detail}
  BY DEF TuiInv, TypeOK, Overview, Plugin
<1>2. CASE KeyTab(step)
  <2>1. panel' \in 0..3
    BY <1>1, <1>2 DEF KeyTab
  <2>2. PanesOK' /\ ModesOK' /\ running' = running
    BY <1>2, <2>1, InvParts DEF KeyTab, PanesOK, ModesOK, modeVars
  <2>. QED
    BY <1>2, <2>2, PanesKeep DEF KeyTab
<1>3. CASE KeyBracket(step)
  <2>1. TabsCount \in {4, 5}
    BY DEF TabsCount
  <2>2. subTab' \in 0..4
    BY <1>1, <1>3, <2>1 DEF KeyBracket
  <2>3. PanesOK' /\ ModesOK' /\ running' = running
    BY <1>3, <2>2, InvParts DEF KeyBracket, PanesOK, ModesOK, modeVars, Overview, Plugin
  <2>. QED
    BY <1>3, <2>3, PanesKeep DEF KeyBracket
<1>. QED
  BY <1>2, <1>3

LEMMA ModeInv ==
  TuiInv /\ (FilterEnd \/ HelpEnd \/ KeyQuit \/ KeyHelp \/ KeyFilter
             \/ \E pane \in {Dock, Detail} : KeyFocus(pane)) => TuiInv'
<1>1. ASSUME TuiInv, FilterEnd \/ HelpEnd \/ KeyQuit \/ KeyHelp \/ KeyFilter PROVE TuiInv'
  <2>1. PanesOK' /\ ModesOK' /\ (running' => running)
    BY <1>1, InvParts DEF FilterEnd, HelpEnd, KeyQuit, KeyHelp, KeyFilter, KeysFree,
                          PanesOK, ModesOK, paneVars
  <2>2. UNCHANGED <<dataVars, fetchVars, flashVars>>
    BY <1>1 DEF FilterEnd, HelpEnd, KeyQuit, KeyHelp, KeyFilter
  <2>. QED
    BY <1>1, <2>1, <2>2, PanesKeep
<1>2. ASSUME TuiInv, NEW pane \in {Dock, Detail}, KeyFocus(pane) PROVE TuiInv'
  <2>1. PanesOK' /\ ModesOK' /\ running' = running
    BY <1>2, InvParts DEF KeyFocus, PanesOK, ModesOK, modeVars
  <2>. QED
    BY <1>2, <2>1, PanesKeep DEF KeyFocus
<1>. QED
  BY <1>1, <1>2

\* Every key that moves a selection leaves each index within its list.
LEMMA MoveInv ==
  ASSUME TuiInv, NEW S, NEW d \in Int,
         UNCHANGED <<modeVars, paneVars, len, shown, loading, fetchVars, flashVars>>,
         sel' = [l \in Lists |-> IF l \in S THEN Moved(sel[l], len[l], d) ELSE sel[l]]
  PROVE  TuiInv'
<1>1. ASSUME NEW l \in Lists
      PROVE  sel'[l] \in Nat /\ (sel'[l] < len[l] \/ sel'[l] = 0)
  <2>1. sel[l] \in Nat /\ len[l] \in Nat /\ (sel[l] < len[l] \/ sel[l] = 0)
    BY DEF TuiInv, TypeOK, SelectionsInRange
  <2>2. sel'[l] = IF l \in S THEN Moved(sel[l], len[l], d) ELSE sel[l]
    OBVIOUS
  <2>. QED
    BY <2>1, <2>2, MovedInRange
<1>2. sel' \in [Lists -> Nat]
  BY <1>1
<1>. QED
  BY <1>1, <1>2, MoveKeeps

LEMMA CursorInv ==
  TuiInv /\ ((\E step \in {-1, 1} : KeyMove(step)) \/ \E d \in {-5, 5} : KeyHalfPage(d))
    => TuiInv'
<1>1. ASSUME TuiInv, NEW step \in {-1, 1}, KeyMove(step) PROVE TuiInv'
  BY <1>1, MoveInv DEF KeyMove
<1>2. ASSUME TuiInv, NEW d \in {-5, 5}, KeyHalfPage(d) PROVE TuiInv'
  BY <1>2, MoveInv DEF KeyHalfPage
<1>. QED
  BY <1>1, <1>2

LEMMA JumpInv == TuiInv /\ (KeyTop \/ KeyBottom) => TuiInv'
<1>. SUFFICES ASSUME TuiInv, KeyTop \/ KeyBottom PROVE TuiInv'
  OBVIOUS
<1>1. ASSUME NEW l \in Lists
      PROVE  sel[l] \in Nat /\ len[l] \in Nat /\ (sel[l] < len[l] \/ sel[l] = 0)
  BY DEF TuiInv, TypeOK, SelectionsInRange
<1>2. ASSUME NEW l \in Lists
      PROVE  sel'[l] \in {0, sel[l]} \/ (len[l] > 0 /\ sel'[l] = len[l] - 1)
  BY DEF KeyTop, KeyBottom
<1>3. ASSUME NEW l \in Lists
      PROVE  sel'[l] \in Nat /\ (sel'[l] < len[l] \/ sel'[l] = 0)
  BY <1>1, <1>2
<1>4. sel' \in [Lists -> Nat]
  <2>1. sel' = [l \in Lists |-> sel'[l]]
    BY DEF KeyTop, KeyBottom
  <2>. QED
    BY <1>3, <2>1
<1>. QED
  BY <1>3, <1>4, MoveKeeps DEF KeyTop, KeyBottom

LEMMA NextInv == TuiInv /\ [Next]_vars => TuiInv'
<1>1. ASSUME TuiInv, Next PROVE TuiInv'
  BY <1>1, TickInv, ClearFlashInv, DataFetchedInv, ReloadInv, YankInv, DigitInv, OpenInv,
     TabInv, ModeInv, CursorInv, JumpInv
  DEF Next, Key
<1>2. ASSUME TuiInv, UNCHANGED vars PROVE TuiInv'
  BY <1>2, PanesKeep, InvParts DEF vars, ModesOK, PanesOK, modeVars, paneVars
<1>. QED
  BY <1>1, <1>2

\* TuiInv holds in every state of the terminal UI, whatever fetches find and
\* in whatever order their results arrive.
THEOREM TuiInvariance == Spec => []TuiInv
BY InitInv, NextInv, PTL DEF Spec

\* No key, however the lists were replaced before, leaves a selection outside
\* its list.
THEOREM SelectionsStayInRange == Spec => []SelectionsInRange
<1>1. TuiInv => SelectionsInRange
  BY DEF TuiInv
<1>. QED
  BY <1>1, TuiInvariance, PTL

\* The footer says SYNCING only while a fetch is under way.
THEOREM SyncingEndsWithAFetch == Spec => []LoadingHasAFetch
<1>1. TuiInv => LoadingHasAFetch
  BY DEF TuiInv
<1>. QED
  BY <1>1, TuiInvariance, PTL
=============================================================================
