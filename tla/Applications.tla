----------------------------- MODULE Applications -----------------------------
(***************************************************************************)
(* Which application a window belongs to and what state applications are   *)
(* in: ShellWindowTracker, ShellApp and the table of ShellAppSystem.       *)
(*                                                                         *)
(* ShellApp objects are numbers.  An object nobody refers to may be used   *)
(* again for a new application; the state of one that is released is not   *)
(* modelled further.                                                       *)
(***************************************************************************)
EXTENDS Integers, SequencesExt

CONSTANTS
  Ids,            \* desktop ids
  Prefixed,       \* those with a vendor prefix
  Windows,
  Launches,       \* child processes, each with its startup sequence
  Kinds,          \* what windows may be: [class, normal, launch], see KindType
  Nobody,
  MaxApps,        \* bound on the ShellApp objects alive at a time
  MaxUpsets,      \* bound on the changes of the menu, of classes and of hints
  AppWindows,     \* the windows one application may have
  MaxUserTime     \* bound on the clock of user times

Apps == 1 .. MaxApps
NoApp == 0

\* The class of a window names a desktop id or nothing, or the window comes
\* from another host; its process and startup id may be those of a launch.
KindType == [class : Ids \cup {Nobody, "remote"}, normal : BOOLEAN, launch : Launches \cup {Nobody}]

ASSUME ApplicationsAssumption ==
  /\ Prefixed \subseteq Ids
  /\ Kinds \subseteq KindType
  /\ Nobody \notin Ids \cup Launches \cup Kinds
  /\ {MaxApps, MaxUpsets, MaxUserTime} \subseteq Nat
  /\ IsFiniteSet(Ids) /\ Cardinality(Ids) <= MaxApps

VARIABLES
  idToApp,        \* id_to_app of the app system
  prefixesKnown,  \* known_vendor_prefixes is filled
  apps,           \* state, running_state, windows of the objects; running_apps;
                  \* window_to_app; the windows with on_wm_class_changed()
  pidToApp,       \* launched_pid_to_app
  launch,         \* [of, sequence]: the desktop id and its startup sequence
  windowKind,     \* Nobody before the window is there and after it is gone
  interesting,    \* shell_window_tracker_is_window_interesting()
  upsets          \* how often the menu, a class or a taskbar hint has changed

appsVars == <<idToApp, prefixesKnown, apps, pidToApp, launch,
              windowKind, interesting, upsets>>

-----------------------------------------------------------------------------
\* shell_app_state_transition() and _shell_app_system_notify_app_state_changed().
\* A running application does not go back to starting.
Transition(s, a, new) ==
  IF s.state[a] = new \/ (s.state[a] = "RUNNING" /\ new = "STARTING") THEN s
  ELSE [s EXCEPT !.state[a] = new,
                 !.runningState[a] = @ /\ new # "STOPPED",
                 !.runningApps = CASE new = "RUNNING"  -> @ \cup {a}
                                   [] new = "STARTING" -> @
                                   [] new = "STOPPED"  -> @ \ {a}]

\* _shell_app_add_window(): an application that starts is not running before
\* its startup sequence is over.
AddWindow(s, a, w) ==
  IF w \in s.windows[a] THEN s
  ELSE LET added == [s EXCEPT !.runningState[a] = TRUE, !.windows[a] = @ \cup {w}]
       IN IF s.state[a] = "STARTING" THEN added ELSE Transition(added, a, "RUNNING")

\* Mutant: the application stops when the second but last window goes.
RemoveWindowEarly(s, a, w) ==
  IF w \notin s.windows[a] THEN s
  ELSE LET removed == [s EXCEPT !.windows[a] = @ \ {w}]
       IN IF Cardinality(removed.windows[a]) <= 1 THEN Transition(removed, a, "STOPPED") ELSE removed

\* _shell_app_remove_window()
RemoveWindow(s, a, w) ==
  IF w \notin s.windows[a] THEN s
  ELSE LET removed == [s EXCEPT !.windows[a] = @ \ {w}]
       IN IF removed.windows[a] = {} THEN Transition(removed, a, "STOPPED") ELSE removed

\* _shell_app_handle_startup_sequence()
HandleStartup(s, a, completed) ==
  IF ~completed
  THEN IF s.state[a] = "STOPPED" THEN Transition(s, a, "STARTING") ELSE s
  ELSE Transition(s, a, IF s.runningState[a] /\ s.windows[a] # {} THEN "RUNNING" ELSE "STOPPED")

\* shell_app_on_unmanaged() of every application that lists the window
RemoveFromAll(s, w) ==
  LET last == {a \in Apps : s.windows[a] = {w}}
  IN [s EXCEPT !.windows = [a \in Apps |-> @[a] \ {w}],
               !.state = [a \in Apps |-> IF a \in last THEN "STOPPED" ELSE @[a]],
               !.runningState = [a \in Apps |-> @[a] /\ a \notin last],
               !.runningApps = @ \ last,
               !.watched = @ \ {w}]

-----------------------------------------------------------------------------
Upset == upsets < MaxUpsets /\ upsets' = upsets + 1

\* Objects that no table holds.  The panel keeps those that are starting.
Unused == {a \in Apps : /\ apps.state[a] = "STOPPED"
                        /\ a \notin Range(idToApp) \cup Range(pidToApp) \cup Range(apps.appOf)}

FreshApp == CHOOSE a \in Unused : TRUE

\* shell_app_system_lookup_heuristic_basename() of the class of a window: an id
\* with a vendor prefix is found only while the prefixes are known.
AppOfClass(class) ==
  IF class \in Ids /\ (class \in Prefixed => prefixesKnown) THEN idToApp[class] ELSE NoApp

\* get_app_from_window_pid()
AppOfPid(k) == IF k.launch # Nobody THEN pidToApp[k.launch] ELSE NoApp

\* get_app_for_window(): the startup sequences of the screen, completed or not.
AppOfSequence(k) == IF k.launch # Nobody THEN idToApp[launch[k.launch].of] ELSE NoApp

\* get_app_from_window_group(), the windows of a launch being a group.  (Which
\* of several windows comes first is left open.)
GroupMates(s, w, k) ==
  {x \in Windows : /\ windowKind[x] # Nobody /\ windowKind[x].normal
                   /\ k.launch # Nobody /\ windowKind[x].launch = k.launch
                   /\ s.appOf[x] # NoApp}

AppOfGroup(s, w, k) ==
  IF GroupMates(s, w, k) = {} THEN NoApp ELSE s.appOf[CHOOSE x \in GroupMates(s, w, k) : TRUE]

\* get_app_for_window(), which answers NoApp where the code makes an application
\* of the window
KnownApp(s, w, k) ==
  LET first == << IF k.normal \/ k.class = "remote" THEN s.appOf[w] ELSE NoApp,
                  IF k.class = "remote" THEN NoApp ELSE AppOfClass(k.class),
                  IF k.class = "remote" THEN NoApp ELSE AppOfPid(k),
                  IF k.class = "remote" THEN NoApp ELSE AppOfSequence(k),
                  IF k.class = "remote" THEN NoApp ELSE AppOfGroup(s, w, k) >>
      found == {i \in DOMAIN first : first[i] # NoApp}
  IN IF found = {} THEN NoApp ELSE first[CHOOSE i \in found : \A j \in found : i <= j]

\* track_window(), the window being interesting
Track(s, w, k) ==
  LET a == IF KnownApp(s, w, k) = NoApp THEN FreshApp ELSE KnownApp(s, w, k)
  IN AddWindow([s EXCEPT !.appOf[w] = a, !.watched = @ \cup {w}], a, w)

\* disassociate_window(): a window that is no longer interesting stays in the
\* list of its application, and on_wm_class_changed() stays connected.
Disassociate(s, w, interests) ==
  IF s.appOf[w] = NoApp THEN s
  ELSE LET gone == [s EXCEPT !.appOf[w] = NoApp]
       IN IF interests
          THEN RemoveWindow([gone EXCEPT !.watched = @ \ {w}], s.appOf[w], w)
          ELSE gone

\* Removed and added again, with kind k
TrackAgain(w, k) ==
  LET gone == Disassociate(apps, w, interesting[w])
  IN IF interesting[w] THEN Track(gone, w, k) ELSE gone

-----------------------------------------------------------------------------
\* shell_app_system_init() has loaded the menu, with every application.
AppsInit ==
  /\ idToApp = CHOOSE f \in [Ids -> Apps] : IsInjective(f)
  /\ prefixesKnown = TRUE
  /\ apps = [state |-> [a \in Apps |-> "STOPPED"], runningState |-> [a \in Apps |-> FALSE],
             windows |-> [a \in Apps |-> {}], runningApps |-> {},
             appOf |-> [w \in Windows |-> NoApp], watched |-> {}]
  /\ pidToApp = [l \in Launches |-> NoApp]
  /\ launch = [l \in Launches |-> [of |-> Nobody, sequence |-> "none"]]
  /\ windowKind = [w \in Windows |-> Nobody]
  /\ interesting = [w \in Windows |-> TRUE]
  /\ upsets = 0

\* on_apps_tree_changed_cb(): objects are kept by id, dropped when the id is
\* gone from the menu and made anew when it is back.
AppsTreeChanged(menu) ==
  LET added == {i \in menu : idToApp[i] = NoApp}
      fresh == CHOOSE f \in [added -> Unused] : IsInjective(f)
  IN /\ Upset
     /\ Cardinality(added) <= Cardinality(Unused)
     /\ idToApp' = [i \in Ids |-> IF i \in added THEN fresh[i]
                                  ELSE IF i \in menu THEN idToApp[i] ELSE NoApp]
     /\ prefixesKnown' = TRUE
     /\ UNCHANGED <<apps, pidToApp, launch, windowKind, interesting>>

\* on_apps_tree_changed_cb() when the menu cannot be loaded: the prefixes were
\* dropped before it tried.
AppsTreeFails ==
  /\ Upset
  /\ prefixesKnown' = FALSE
  /\ UNCHANGED <<idToApp, apps, pidToApp, launch, windowKind, interesting>>

\* shell_app_launch() of an installed application, with _gather_pid_callback()
Launch(l, i) ==
  /\ launch[l].sequence = "none" /\ idToApp[i] # NoApp
  /\ launch' = [launch EXCEPT ![l] = [of |-> i, sequence |-> "running"]]
  /\ pidToApp' = [pidToApp EXCEPT ![l] = idToApp[i]]
  /\ UNCHANGED <<idToApp, prefixesKnown, apps, windowKind, interesting, upsets>>

\* on_child_exited()
ChildExited(l) ==
  /\ pidToApp[l] # NoApp
  /\ pidToApp' = [pidToApp EXCEPT ![l] = NoApp]
  /\ UNCHANGED <<idToApp, prefixesKnown, apps, launch, windowKind, interesting, upsets>>

\* on_startup_sequence_changed(): the application is looked up by its file when
\* the event arrives, and an event about none is lost.
SequenceChanged(l, completed) ==
  /\ launch[l].sequence = "running"
  /\ launch' = [launch EXCEPT ![l].sequence = IF completed THEN "completed" ELSE @]
  /\ LET a == idToApp[launch[l].of]
     IN apps' = IF a = NoApp THEN apps ELSE HandleStartup(apps, a, completed)
  /\ UNCHANGED <<idToApp, prefixesKnown, pidToApp, windowKind, interesting, upsets>>

-----------------------------------------------------------------------------
\* window-added of a new window
WindowAdded(w, k) ==
  /\ windowKind[w] = Nobody /\ Unused # {}
  /\ k.launch # Nobody => launch[k.launch].sequence # "none"
  /\ windowKind' = [windowKind EXCEPT ![w] = k]
  /\ \E interests \in BOOLEAN :
       /\ interesting' = [interesting EXCEPT ![w] = interests]
       /\ apps' = IF interests THEN Track(apps, w, k) ELSE apps
  /\ UNCHANGED <<idToApp, prefixesKnown, pidToApp, launch, upsets>>

\* window-removed from one workspace and window-added to another
WindowMoved(w) ==
  /\ windowKind[w] # Nobody /\ Unused # {}
  /\ apps' = TrackAgain(w, windowKind[w])
  /\ UNCHANGED <<idToApp, prefixesKnown, pidToApp, launch, windowKind, interesting, upsets>>

\* window-removed, then unmanaged: shell_app_on_unmanaged() of the applications
\* that still list the window
WindowUnmanaged(w) ==
  /\ windowKind[w] # Nobody
  /\ apps' = RemoveFromAll(Disassociate(apps, w, interesting[w]), w)
  /\ windowKind' = [windowKind EXCEPT ![w] = Nobody]
  /\ interesting' = [interesting EXCEPT ![w] = TRUE]
  /\ UNCHANGED <<idToApp, prefixesKnown, pidToApp, launch, upsets>>

\* The window changes its type or its taskbar hint, which nothing listens to.
InterestChanged(w) ==
  /\ Upset
  /\ windowKind[w] # Nobody
  /\ interesting' = [interesting EXCEPT ![w] = ~@]
  /\ UNCHANGED <<idToApp, prefixesKnown, apps, pidToApp, launch, windowKind>>

\* on_wm_class_changed().  (What update_focus_app() keeps is not modelled.)
ClassChanged(w, k) ==
  /\ Upset
  /\ windowKind[w] # Nobody /\ Unused # {}
  /\ k.normal = windowKind[w].normal /\ k.launch = windowKind[w].launch
  /\ windowKind' = [windowKind EXCEPT ![w] = k]
  /\ apps' = IF w \in apps.watched THEN TrackAgain(w, k) ELSE apps
  /\ UNCHANGED <<idToApp, prefixesKnown, pidToApp, launch, interesting>>

AppsNext ==
  \/ \E menu \in SUBSET Ids : AppsTreeChanged(menu)
  \/ AppsTreeFails
  \/ \E l \in Launches :
       \/ \E i \in Ids : Launch(l, i)
       \/ ChildExited(l)
       \/ \E completed \in BOOLEAN : SequenceChanged(l, completed)
  \/ \E w \in Windows :
       \/ \E k \in Kinds : WindowAdded(w, k) \/ ClassChanged(w, k)
       \/ WindowMoved(w) \/ WindowUnmanaged(w) \/ InterestChanged(w)

-----------------------------------------------------------------------------
AppsTypeOK ==
  /\ idToApp \in [Ids -> Apps \cup {NoApp}]
  /\ prefixesKnown \in BOOLEAN
  /\ apps \in [state : [Apps -> {"STOPPED", "STARTING", "RUNNING"}],
               runningState : [Apps -> BOOLEAN], windows : [Apps -> SUBSET Windows],
               runningApps : SUBSET Apps, appOf : [Windows -> Apps \cup {NoApp}],
               watched : SUBSET Windows]
  /\ pidToApp \in [Launches -> Apps \cup {NoApp}]
  /\ launch \in [Launches -> [of : Ids \cup {Nobody}, sequence : {"none", "running", "completed"}]]
  /\ windowKind \in [Windows -> Kinds \cup {Nobody}]
  /\ interesting \in [Windows -> BOOLEAN]
  /\ upsets \in 0 .. MaxUpsets

\* The application of a tracked window lists it and has a running state, which
\* _shell_app_remove_window() asserts and shell_app_update_window_actions()
\* reads without asking: whatever moves, changes its class or its taskbar hint,
\* and whenever the menu drops and remakes the application.
TrackedWindowIsListed ==
  \A w \in Windows : LET a == apps.appOf[w] IN
    a # NoApp => w \in apps.windows[a] /\ apps.runningState[a]

\* shell_app_system_get_running() "returns the set of applications which
\* currently have at least one open window": those and no other, but for the
\* applications whose windows are there before their startup is over.
RunningAppsHaveWindows ==
  \A a \in Apps :
    /\ (a \in apps.runningApps) = (apps.state[a] = "RUNNING")
    /\ a \in apps.runningApps => apps.windows[a] # {}
    /\ apps.windows[a] # {} => a \in apps.runningApps \/ apps.state[a] = "STARTING"

\* An application that is shown as starting has a startup sequence whose end
\* will be told to it, unless the menu dropped it in between: then it is
\* starting for good.
StartingHasSequence ==
  \A i \in Ids : LET a == idToApp[i] IN
    a # NoApp /\ apps.state[a] = "STARTING" =>
      \E l \in Launches : launch[l] = [of |-> i, sequence |-> "running"]

\* The applications own the windows: a window is listed with its application, one without
\* windows does not run, and none is shown as starting for nothing (shell_app_add_window(),
\* shell_app_state_transition()).
AppsOwnWindows ==
  AppsTypeOK /\ TrackedWindowIsListed /\ RunningAppsHaveWindows /\ StartingHasSequence

AppsSpec == AppsInit /\ [][AppsNext]_appsVars

-----------------------------------------------------------------------------
(***************************************************************************)
(* The order in which a running ShellApp keeps its windows, sorted on      *)
(* demand, and what shell_app_activate_window() does to their stacking.    *)
(* There are two workspaces; transient windows are left out.               *)
(***************************************************************************)
VARIABLES
  winList,        \* running_state->windows
  sortStale,      \* running_state->window_sort_stale
  elsewhere,      \* the windows that are not on the active workspace
  minimized,      \* those that are not showing on their workspace
  userTime,       \* user times, 0 before the window is there
  winStack,       \* the stacking of the windows, bottom first
  reshown         \* history: a window was minimized or restored since the sort

orderVars == <<winList, sortStale, elsewhere, minimized, userTime, winStack, reshown>>

OrderInit ==
  /\ winList = <<>> /\ winStack = <<>>
  /\ sortStale = FALSE /\ reshown = FALSE
  /\ elsewhere = {} /\ minimized = {}
  /\ userTime = [w \in AppWindows |-> 0]

-----------------------------------------------------------------------------
\* shell_app_compare_windows(): a is listed before b
Before(a, b) ==
  IF (a \in elsewhere) # (b \in elsewhere) THEN b \in elsewhere
  ELSE IF (a \in minimized) # (b \in minimized) THEN b \in minimized
  ELSE userTime[a] > userTime[b]

\* shell_app_get_windows()
GetWindows == IF sortStale THEN SortSeq(winList, Before) ELSE winList

Remove1(list, w) == SelectSeq(list, LAMBDA x : x # w)

\* meta_window_raise() of the windows of list, one after the other
RaisedIn(stack, list) == SelectSeq(stack, LAMBDA x : ~Contains(list, x)) \o list

\* The window is used now.
Now == 1 + CHOOSE t \in 0 .. MaxUserTime :
             /\ \E w \in AppWindows : userTime[w] = t
             /\ \A w \in AppWindows : userTime[w] <= t

Used(w) == Now <= MaxUserTime /\ userTime' = [userTime EXCEPT ![w] = Now]

-----------------------------------------------------------------------------
\* _shell_app_add_window() of a new window, which the user gets to use
WinAdded(w) ==
  /\ ~Contains(winList, w) /\ Used(w)
  /\ winList' = <<w>> \o winList /\ sortStale' = TRUE
  /\ winStack' = Append(winStack, w)
  /\ UNCHANGED <<elsewhere, minimized, reshown>>

\* _shell_app_remove_window(); the running state goes with the last window.
WinRemoved(w) ==
  /\ Contains(winList, w)
  /\ winList' = Remove1(winList, w) /\ winStack' = Remove1(winStack, w)
  /\ sortStale' = (sortStale /\ winList' # <<>>)
  /\ reshown' = (reshown /\ winList' # <<>>)
  /\ elsewhere' = elsewhere \ {w} /\ minimized' = minimized \ {w}
  /\ userTime' = [userTime EXCEPT ![w] = 0]

\* A window sent to the other workspace is removed and added.
WinMoved(w) ==
  /\ Contains(winList, w)
  /\ winList' = <<w>> \o Remove1(winList, w) /\ sortStale' = TRUE
  /\ reshown' = (reshown /\ Len(winList) > 1)
  /\ elsewhere' = IF w \in elsewhere THEN elsewhere \ {w} ELSE elsewhere \cup {w}
  /\ UNCHANGED <<minimized, userTime, winStack>>

\* A window is minimized or restored, which the application does not hear.
WinReshown(w) ==
  /\ Contains(winList, w)
  /\ minimized' = IF w \in minimized THEN minimized \ {w} ELSE minimized \cup {w}
  /\ reshown' = TRUE
  /\ UNCHANGED <<winList, sortStale, elsewhere, userTime, winStack>>

\* shell_app_on_user_time_changed(): the user clicks on the window.
UserTimeChanged(w) ==
  /\ Contains(winList, w) /\ w \notin elsewhere \cup minimized /\ Used(w)
  /\ sortStale' = (sortStale \/ w # Head(winList))
  /\ winStack' = RaisedIn(winStack, <<w>>)
  /\ UNCHANGED <<winList, elsewhere, minimized, reshown>>

\* shell_app_on_ws_switch()
WsSwitched ==
  /\ winList # <<>>
  /\ elsewhere' = ToSet(winList) \ elsewhere /\ sortStale' = TRUE
  /\ UNCHANGED <<winList, minimized, userTime, winStack, reshown>>

\* shell_app_get_windows() by whoever shows the windows
WindowsAsked ==
  /\ sortStale
  /\ winList' = GetWindows /\ sortStale' = FALSE /\ reshown' = FALSE
  /\ UNCHANGED <<elsewhere, minimized, userTime, winStack>>

\* shell_app_activate_window(): every other window is raised in the order of the
\* list, then the window is activated, with its workspace if need be.
ActivateWindow(w) ==
  LET list == GetWindows
      switches == w \in elsewhere IN
  /\ Contains(winList, w) /\ Used(w)
  /\ winList' = list
  /\ winStack' = RaisedIn(RaisedIn(winStack, Remove1(list, w)), <<w>>)
  /\ elsewhere' = IF switches THEN ToSet(winList) \ elsewhere ELSE elsewhere
  /\ minimized' = minimized \ {w}
  /\ sortStale' = (switches \/ w # Head(list))
  /\ reshown' = ((~sortStale /\ reshown) \/ w \in minimized)

\* shell_app_activate_window() with a timestamp that is too old
ActivationRefused(w) == Contains(winList, w) /\ WindowsAsked

OrderNext ==
  \/ \E w \in AppWindows :
       \/ WinAdded(w) \/ WinRemoved(w) \/ WinMoved(w) \/ WinReshown(w)
       \/ UserTimeChanged(w) \/ ActivateWindow(w) \/ ActivationRefused(w)
  \/ WsSwitched \/ WindowsAsked

OrderSpec == OrderInit /\ [][OrderNext]_orderVars

-----------------------------------------------------------------------------
OrderTypeOK ==
  /\ IsInjective(winList) /\ ToSet(winList) \subseteq AppWindows
  /\ ToSet(winStack) = ToSet(winList) /\ Len(winStack) = Len(winList)
  /\ {sortStale, reshown} \subseteq BOOLEAN
  /\ elsewhere \cup minimized \subseteq ToSet(winList)
  /\ userTime \in [AppWindows -> 0 .. MaxUserTime]

\* A list that is not marked stale is sorted, although use of the first window
\* does not mark it: by workspace, visibility and last use, as
\* shell_app_get_windows() documents, as long as no window was minimized.
OrderIsKept == ~sortStale /\ ~reshown => IsSorted(winList, Before)
=============================================================================
