--------------------------------- MODULE Tui ---------------------------------
(***************************************************************************)
(* The state of the terminal UI (internal/tui/app.go): one event loop runs *)
(* Update on the keys of the operator, the ticks of the clock and the      *)
(* results of fetches.  A fetch asks the provider for everything in a      *)
(* goroutine of its own and takes up to five seconds; fetches overlap and  *)
(* their results arrive in any order.  A flash message is cleared by a     *)
(* timer that does not know which message it was started for.              *)
(*                                                                         *)
(* A list is its length.  What the views draw, the text of the filter, the *)
(* scrolling of the viewport and the size of the window are left out.      *)
(***************************************************************************)
EXTENDS Integers

CONSTANTS
  Providers,   \* "builtin", "plugin": what isPluginProvider tells apart
  Results,     \* what a fetch may find: the length of each list
  MaxFetches,  \* bound: fetches started
  MaxTimers    \* bound: flash timers running at a time

\* The lists a selection moves in: routes are gateways and routes, services
\* are leases, peers and firewall rules.
Lists == {"ifaces", "routes", "services", "subnets"}
Fetches == 1..MaxFetches

ASSUME ResultsAssumption == Results \subseteq [Lists -> Nat]
ASSUME LimitsAssumption  == MaxFetches \in Nat \ {0} /\ MaxTimers \in Nat \ {0}

Dock   == "dock"     \* the focused pane
Detail == "detail"

\* The sub-tabs of the detail pane.
Overview == 0
Traffic  == 1
IPAM     == 2
Config   == 3
Plugin   == 4

VARIABLES
  running,   \* the event loop runs
  provider,  \* the kind of provider
  focus,     \* FocusedPane
  panel,     \* ActivePanel
  subTab,    \* DetailSubTab
  typing,    \* FilterActive: keys go to the filter
  help,      \* ShowHelpModal
  len,       \* the lengths of the lists in LastFetched
  shown,     \* the fetch LastFetched is of, 0 before the first
  sel,       \* the selections: three indices of the dock, and IPAMSelected
  loading,   \* Loading: the footer says SYNCING
  flash,     \* StatusFlash is not empty
  timers,    \* flash timers running
  started,   \* fetches started
  inflight   \* fetches whose result has not been handled

modeVars  == <<running, provider, typing, help>>
paneVars  == <<focus, panel, subTab>>
dataVars  == <<len, shown, sel, loading>>
fetchVars == <<started, inflight>>
flashVars == <<flash, timers>>
vars == <<modeVars, paneVars, dataVars, fetchVars, flashVars>>

TypeOK ==
  /\ running \in BOOLEAN /\ provider \in Providers
  /\ typing \in BOOLEAN /\ help \in BOOLEAN
  /\ focus \in {Dock, Detail} /\ panel \in 0..3 /\ subTab \in Overview..Plugin
  /\ len \in [Lists -> Nat] /\ sel \in [Lists -> Nat]
  /\ shown \in 0..MaxFetches /\ loading \in BOOLEAN
  /\ flash \in BOOLEAN /\ timers \in 0..MaxTimers
  /\ started \in 0..MaxFetches /\ inflight \in SUBSET Fetches

\* NewModel, and Init's first fetch.
Init ==
  /\ running = TRUE /\ provider \in Providers
  /\ typing = FALSE /\ help = FALSE
  /\ focus = Dock /\ panel = 0 /\ subTab = Overview
  /\ len = [l \in Lists |-> 0] /\ sel = [l \in Lists |-> 0]
  /\ shown = 0 /\ loading = TRUE
  /\ flash = FALSE /\ timers = 0
  /\ started = 1 /\ inflight = {1}

-----------------------------------------------------------------------------
(* Commands: what Update returns to run in the background *)

Fetch ==
  /\ started < MaxFetches
  /\ started' = started + 1
  /\ inflight' = inflight \cup {started + 1}

\* Mutant: the message is shown and no timer started.
FlashNoTimer ==
  /\ flash' = TRUE
  /\ UNCHANGED timers

\* Show a message and start the timer that clears it.
Flash ==
  /\ timers < MaxTimers
  /\ flash' = TRUE
  /\ timers' = timers + 1

\* What Update does to open a sub-tab: only Live Traffic is fetched at once.
OpenTab(tab) ==
  /\ subTab' = tab
  /\ Flash
  /\ IF tab = Traffic THEN Fetch ELSE UNCHANGED fetchVars

-----------------------------------------------------------------------------
(* Messages *)

\* A tick fetches while the traffic tab is open; it starts the next tick.
Tick ==
  /\ running
  /\ subTab = Traffic
  /\ Fetch
  /\ UNCHANGED <<modeVars, paneVars, dataVars, flashVars>>

ClearFlash ==
  /\ running
  /\ timers > 0
  /\ timers' = timers - 1
  /\ flash' = FALSE
  /\ UNCHANGED <<modeVars, paneVars, dataVars, fetchVars>>

\* clampSelections, for one list of length n.
Clamp(i, n) == IF n = 0 THEN 0 ELSE IF i >= n THEN n - 1 ELSE i

\* Mutant: the selections are not clamped.
DataFetchedUnclamped(f) ==
  /\ running
  /\ f \in inflight
  /\ inflight' = inflight \ {f}
  /\ len' \in Results
  /\ shown' = f
  /\ loading' = FALSE
  /\ UNCHANGED <<modeVars, paneVars, sel, started, flashVars>>

\* A fetch ends.  Its data replace what is shown, be it older or newer, and
\* SYNCING goes out even when the fetch the operator asked for still runs.  A
\* provider call that fails leaves its list empty.
DataFetched(f) ==
  /\ running
  /\ f \in inflight
  /\ inflight' = inflight \ {f}
  /\ len' \in Results
  /\ shown' = f
  /\ sel' = [l \in Lists |-> Clamp(sel[l], len'[l])]
  /\ loading' = FALSE
  /\ UNCHANGED <<modeVars, paneVars, started, flashVars>>

-----------------------------------------------------------------------------
(* Keys while the filter is typed or the help is shown *)

FilterEnd ==   \* esc or enter; every other key is text
  /\ running /\ typing
  /\ typing' = FALSE
  /\ UNCHANGED <<running, provider, help, paneVars, dataVars, fetchVars, flashVars>>

HelpEnd ==     \* ?, esc, q or enter; every other key is ignored
  /\ running /\ ~typing /\ help
  /\ help' = FALSE
  /\ UNCHANGED <<running, provider, typing, paneVars, dataVars, fetchVars, flashVars>>

-----------------------------------------------------------------------------
(* Keys otherwise *)

KeysFree == running /\ ~typing /\ ~help

KeyQuit ==
  /\ KeysFree
  /\ running' = FALSE
  /\ UNCHANGED <<provider, typing, help, paneVars, dataVars, fetchVars, flashVars>>

KeyHelp ==
  /\ KeysFree
  /\ help' = TRUE
  /\ UNCHANGED <<running, provider, typing, paneVars, dataVars, fetchVars, flashVars>>

KeyFilter ==
  /\ KeysFree
  /\ typing' = TRUE
  /\ UNCHANGED <<running, provider, help, paneVars, dataVars, fetchVars, flashVars>>

\* Mutant: the fetch is lost when the timer of the message is started.
KeyReloadNoFetch ==
  /\ KeysFree
  /\ loading' = TRUE
  /\ Flash
  /\ UNCHANGED <<modeVars, paneVars, len, shown, sel, fetchVars>>

KeyReload ==
  /\ KeysFree
  /\ loading' = TRUE
  /\ Fetch /\ Flash
  /\ UNCHANGED <<modeVars, paneVars, len, shown, sel>>

\* 1 to 4 open a sub-tab when the detail pane is focused, else a panel.
KeyDigit(d) ==
  /\ KeysFree
  /\ \/ focus = Detail /\ OpenTab(d - 1) /\ UNCHANGED <<focus, panel>>
     \/ focus = Dock /\ panel' = d - 1 /\ UNCHANGED <<focus, subTab, fetchVars, flashVars>>
  /\ UNCHANGED <<modeVars, dataVars>>

Key5 ==
  /\ KeysFree
  /\ focus = Detail /\ provider = "plugin"
  /\ OpenTab(Plugin)
  /\ UNCHANGED <<modeVars, focus, panel, dataVars>>

\* o, t, i, c and p open a sub-tab from anywhere; p does so with any provider.
KeyOpen(tab) ==
  /\ KeysFree
  /\ focus' = Detail
  /\ OpenTab(tab)
  /\ UNCHANGED <<modeVars, panel, dataVars>>

\* tab and shift+tab.
KeyTab(step) ==
  /\ KeysFree
  /\ panel' = (panel + step + 4) % 4
  /\ UNCHANGED <<modeVars, focus, subTab, dataVars, fetchVars, flashVars>>

\* h and l.
KeyFocus(pane) ==
  /\ KeysFree
  /\ focus' = pane
  /\ UNCHANGED <<modeVars, panel, subTab, dataVars, fetchVars, flashVars>>

\* [ and ], over the tabs that the provider has.
TabsCount == IF provider = "plugin" THEN 5 ELSE 4
KeyBracket(step) ==
  /\ KeysFree
  /\ subTab' = (subTab + step + TabsCount) % TabsCount
  /\ UNCHANGED <<modeVars, focus, panel, dataVars, fetchVars, flashVars>>

\* y always has something to say.
KeyYank ==
  /\ KeysFree
  /\ Flash
  /\ UNCHANGED <<modeVars, paneVars, dataVars, fetchVars>>

\* The list that the active panel's selection is in; panel 0 has none.
PanelLists ==
  CASE panel = 1 -> {"ifaces"} [] panel = 2 -> {"routes"} [] panel = 3 -> {"services"}
    [] OTHER -> {}

\* moveCursor, for one list of length n: the index stays as it is in an
\* empty list.  The IPAM matrix moves by one with tests of its own to the
\* same effect.
Moved(i, n, delta) ==
  IF n = 0 THEN i ELSE IF i + delta < 0 THEN 0 ELSE Clamp(i + delta, n)

\* j and k move the selection of the dock's panel, of the IPAM matrix or of
\* the interfaces in the overview; anywhere else they scroll.
CursorLists ==
  IF focus = Dock \/ (subTab = Overview /\ panel = 1) THEN PanelLists
  ELSE IF subTab = IPAM THEN {"subnets"}
  ELSE {}

KeyMove(delta) ==
  /\ KeysFree
  /\ sel' = [l \in Lists |->
               IF l \in CursorLists THEN Moved(sel[l], len[l], delta) ELSE sel[l]]
  /\ UNCHANGED <<modeVars, paneVars, len, shown, loading, fetchVars, flashVars>>

\* ctrl+u and ctrl+d move only in the dock.
KeyHalfPage(delta) ==
  /\ KeysFree /\ focus = Dock
  /\ sel' = [l \in Lists |->
               IF l \in PanelLists THEN Moved(sel[l], len[l], delta) ELSE sel[l]]
  /\ UNCHANGED <<modeVars, paneVars, len, shown, loading, fetchVars, flashVars>>

\* g and G, in the dock and in the IPAM matrix.
JumpLists ==
  IF focus = Dock THEN PanelLists ELSE IF subTab = IPAM THEN {"subnets"} ELSE {}

KeyTop ==
  /\ KeysFree
  /\ sel' = [l \in Lists |-> IF l \in JumpLists THEN 0 ELSE sel[l]]
  /\ UNCHANGED <<modeVars, paneVars, len, shown, loading, fetchVars, flashVars>>

\* Mutant: the last index of an empty list.
KeyBottomUnchecked ==
  /\ KeysFree
  /\ sel' = [l \in Lists |-> IF l \in JumpLists THEN len[l] - 1 ELSE sel[l]]
  /\ UNCHANGED <<modeVars, paneVars, len, shown, loading, fetchVars, flashVars>>

KeyBottom ==
  /\ KeysFree
  /\ sel' = [l \in Lists |->
               IF l \in JumpLists /\ len[l] > 0 THEN len[l] - 1 ELSE sel[l]]
  /\ UNCHANGED <<modeVars, paneVars, len, shown, loading, fetchVars, flashVars>>

Key ==
  \/ FilterEnd \/ HelpEnd
  \/ KeyQuit \/ KeyHelp \/ KeyFilter \/ KeyReload \/ KeyYank \/ Key5
  \/ \E d \in 1..4 : KeyDigit(d)
  \/ \E tab \in Overview..Plugin : KeyOpen(tab)
  \/ \E step \in {-1, 1} : KeyTab(step) \/ KeyBracket(step) \/ KeyMove(step)
  \/ \E pane \in {Dock, Detail} : KeyFocus(pane)
  \/ \E delta \in {-5, 5} : KeyHalfPage(delta)
  \/ KeyTop \/ KeyBottom

Next == Key \/ Tick \/ ClearFlash \/ \E f \in Fetches : DataFetched(f)

Spec == Init /\ [][Next]_vars

\* Timers fire and the event loop handles their message.  Nothing is assumed
\* of fetches: a provider may keep one waiting for ever.
FairSpec == Spec /\ WF_vars(ClearFlash)

-----------------------------------------------------------------------------
(* Properties *)

\* Every selection is within the list on the screen, whatever fetches replace
\* the lists by while the operator moves in them: getYankTarget and the views
\* index the lists with it.
SelectionsInRange == \A l \in Lists : sel[l] < len[l] \/ sel[l] = 0

\* While the footer says SYNCING a fetch is under way that will turn it off:
\* no order of keys and results leaves it on for ever.
LoadingHasAFetch == running /\ loading => inflight # {}

\* A message is cleared: whatever other messages replace it and whichever of
\* their timers fire, there is a timer left for the last one.
FlashHasTimer == flash => timers > 0
FlashEnds == flash ~> (~flash \/ ~running)

\* The inductive invariant.
FetchesKnown == \A f \in inflight \cup {shown} : f <= started
TuiInv == TypeOK /\ SelectionsInRange /\ LoadingHasAFetch /\ FlashHasTimer /\ FetchesKnown
=============================================================================
