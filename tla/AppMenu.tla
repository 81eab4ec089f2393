-------------------------------- MODULE AppMenu --------------------------------
(***************************************************************************)
(* The menu of a running application: the actions that it and its windows  *)
(* export, brought under one name by GActionMuxer (gactionmuxer.c, filled  *)
(* by shell-app.c), which tells its observers, and the RemoteMenu of the   *)
(* panel (popupMenu.js).  The groups are those of GIO, which follow the    *)
(* application over D-Bus; the menu model does not change.                 *)
(***************************************************************************)
EXTENDS Integers, SequencesExt

CONSTANTS
  AppActions,     \* the action group of the application
  WinActions,     \* the action groups of its windows
  ActionsOf,      \* prefix -> the actions that such a group may have
  Observers,
  WatchedGroups,  \* bound: the prefixes of the actions that are observed
  MaxWatchers,    \* bound on the registrations of an observer for an action
  MaxWaiters      \* bound on the handlers of RemoteMenu that wait for an action

ASSUME AppMenuAssumption ==
  /\ AppActions \notin WinActions
  /\ DOMAIN ActionsOf = {"app", "win"} /\ WatchedGroups \subseteq {"app", "win"}
  /\ {MaxWatchers, MaxWaiters} \subseteq Nat

VARIABLES
  remote,         \* group -> action -> {} or {what it is}
  muxer           \* the muxer and those who listen to it, see MuxerType

menuVars == <<remote, muxer>>

RemoteGroups == {AppActions} \cup WinActions
PrefixOf(g) == IF g = AppActions THEN "app" ELSE "win"
FullNames == UNION {{<<prefix, a>> : a \in ActionsOf[prefix]} : prefix \in DOMAIN ActionsOf}
ActionType == [enabled : BOOLEAN, on : BOOLEAN]

MuxerType ==
  [groups : [{"app", "win"} -> SUBSET RemoteGroups],     \* at most one each
   watchers : [FullNames -> Seq(Observers)],             \* actions, with their watchers
   told : [Observers \X FullNames -> SUBSET ActionType], \* what each observer knows
   made : BOOLEAN,                                       \* there is a RemoteMenu
   shown : SUBSET FullNames,                             \* its items, and its _actions
   cache : [FullNames -> SUBSET ActionType],
   waiters : Nat,
   lost : SUBSET FullNames]    \* history: actions removed since the menu was made

-----------------------------------------------------------------------------
\* The muxer

\* g_action_muxer_find_group(), g_action_muxer_query_action()
QueryAction(s, r, f) == UNION {r[g][f[2]] : g \in s.groups[f[1]]}

\* Every observer of the action is told: g_action_muxer_lookup_action().
TellObservers(s, f, what) ==
  [s EXCEPT !.told = [p \in DOMAIN @ |-> IF p[2] = f /\ Contains(s.watchers[f], p[1]) THEN what ELSE @[p]]]

\* RemoteMenu._modelChanged(): all items are made again, those of actions that
\* are not there are waited for, one handler each.
ModelChanged(s, r) ==
  LET there == {f \in FullNames : QueryAction(s, r, f) # {}}
  IN [s EXCEPT !.shown = there, !.waiters = @ + Cardinality(FullNames \ there),
               !.cache = [f \in FullNames |-> IF f \in there /\ @[f] = {} THEN QueryAction(s, r, f) ELSE @[f]]]

\* Each of the handlers that wait does it, whatever action was added.
Waited(s, r) ==
  FoldLeft(LAMBDA t, i : ModelChanged([t EXCEPT !.waiters = @ - 1], r), s, [i \in 1 .. s.waiters |-> i])

\* g_action_muxer_action_added()
ActionAdded(s, r, f) ==
  IF QueryAction(s, r, f) = {} THEN s ELSE Waited(TellObservers(s, f, QueryAction(s, r, f)), r)

\* g_action_muxer_action_removed(): the menu does not listen.
ActionRemoved(s, f) == [TellObservers(s, f, {}) EXCEPT !.lost = IF s.made THEN @ \cup {f} ELSE {}]

\* g_action_muxer_action_enabled_changed(), RemoteMenu._actionEnabledChanged()
EnabledChanged(s, r, f) ==
  [TellObservers(s, f, QueryAction(s, r, f)) EXCEPT
     !.cache[f] = {[enabled |-> now.enabled, on |-> old.on] : old \in @, now \in QueryAction(s, r, f)}]

\* g_action_muxer_action_state_changed(), RemoteMenu._actionStateChanged()
StateChanged(s, r, f) ==
  [TellObservers(s, f, QueryAction(s, r, f)) EXCEPT
     !.cache[f] = {[enabled |-> old.enabled, on |-> now.on] : old \in @, now \in QueryAction(s, r, f)}]

NamesOf(g) == {<<PrefixOf(g), a>> : a \in ActionsOf[PrefixOf(g)]}

\* g_action_muxer_remove()
MuxerRemove(s, r, prefix) ==
  FoldLeft(LAMBDA t, f : ActionRemoved(t, f), [s EXCEPT !.groups[prefix] = {}],
           SetToSeq({f \in FullNames : f[1] = prefix /\ QueryAction(s, r, f) # {}}))

\* g_action_muxer_insert()
MuxerInsert(s, r, g) ==
  FoldLeft(LAMBDA t, f : ActionAdded(t, r, f),
           [MuxerRemove(s, r, PrefixOf(g)) EXCEPT !.groups[PrefixOf(g)] = {g}],
           SetToSeq(NamesOf(g)))

Heeds(s) == s.waiters <= MaxWaiters /\ muxer' = s

-----------------------------------------------------------------------------
\* The application changes its actions; the group says so, to the muxer if that has it.

GroupSays(g, a, now, Emits(_, _, _)) ==
  /\ remote' = [remote EXCEPT ![g][a] = now]
  /\ Heeds(IF g \in muxer.groups[PrefixOf(g)] THEN Emits(muxer, remote', <<PrefixOf(g), a>>) ELSE muxer)

GroupGets(g, a) ==
  /\ remote[g][a] = {}
  /\ \E what \in ActionType : GroupSays(g, a, {what}, ActionAdded)
GroupDrops(g, a) == remote[g][a] # {} /\ GroupSays(g, a, {}, LAMBDA s, r, f : ActionRemoved(s, f))
GroupEnables(g, a) == \E was \in remote[g][a] : GroupSays(g, a, {[was EXCEPT !.enabled = ~@]}, EnabledChanged)
GroupSets(g, a) == \E was \in remote[g][a] : GroupSays(g, a, {[was EXCEPT !.on = ~@]}, StateChanged)

-----------------------------------------------------------------------------
\* The shell

\* setup_running_state(): the first window that names the menu of the application
RunningStateSetUp ==
  /\ muxer.groups["app"] = {}
  /\ Heeds(MuxerInsert(muxer, remote, AppActions)) /\ UNCHANGED remote

\* shell_app_update_window_actions(): a window of the application gets the focus.
UpdateWindowActions(g) == Heeds(MuxerInsert(muxer, remote, g)) /\ UNCHANGED remote

\* AppMenuButton._maybeSetMenu(), once there is a menu, with RemoteMenu._init()
MaybeSetMenu ==
  /\ ~muxer.made /\ muxer.groups["app"] # {}
  /\ Heeds(ModelChanged([muxer EXCEPT !.made = TRUE], remote))
  /\ UNCHANGED remote

\* RemoteMenu.destroy(): what still waits does so for nothing.
MenuDestroyed ==
  /\ muxer.made
  /\ muxer' = [muxer EXCEPT !.made = FALSE, !.shown = {}, !.cache = [f \in FullNames |-> {}], !.waiters = 0,
                             !.lost = {}]
  /\ UNCHANGED remote

\* g_action_muxer_register_observer(): the observer asks what there is.
RegisterObserver(o, f) ==
  /\ f[1] \in WatchedGroups
  /\ Len(SelectSeq(muxer.watchers[f], LAMBDA w : w = o)) < MaxWatchers
  /\ muxer' = [muxer EXCEPT !.watchers[f] = <<o>> \o @, !.told[<<o, f>>] = QueryAction(muxer, remote, f)]
  /\ UNCHANGED remote

\* g_action_muxer_unregister_internal(): the first of its registrations goes, and
\* with the last one what it knew.
Forgotten(s, o, f) == IF Contains(s.watchers[f], o) THEN s ELSE [s EXCEPT !.told[<<o, f>>] = {}]
UnregisterInternal(s, o, f) ==
  LET i == CHOOSE j \in DOMAIN s.watchers[f] :
             s.watchers[f][j] = o /\ \A k \in 1 .. j - 1 : s.watchers[f][k] # o
  IN Forgotten([s EXCEPT !.watchers[f] = RemoveAt(@, i)], o, f)

UnregisterObserver(o, f) ==
  /\ Contains(muxer.watchers[f], o)
  /\ muxer' = UnregisterInternal(muxer, o, f) /\ UNCHANGED remote

\* g_action_muxer_weak_notify(): an observer dies, with all of its registrations.
ObserverDies(o) ==
  /\ \E f \in FullNames : Contains(muxer.watchers[f], o)
  /\ muxer' = [muxer EXCEPT !.watchers = [f \in FullNames |-> SelectSeq(@[f], LAMBDA w : w # o)],
                             !.told = [p \in DOMAIN @ |-> IF p[1] = o THEN {} ELSE @[p]]]
  /\ UNCHANGED remote

MenuInit ==
  /\ remote = [g \in RemoteGroups |-> [a \in ActionsOf[PrefixOf(g)] |-> {}]]
  /\ muxer = [groups |-> [p \in {"app", "win"} |-> {}], watchers |-> [f \in FullNames |-> <<>>],
              told |-> [p \in Observers \X FullNames |-> {}], made |-> FALSE, shown |-> {},
              cache |-> [f \in FullNames |-> {}], waiters |-> 0, lost |-> {}]

MenuNext ==
  \/ \E g \in RemoteGroups : \E a \in ActionsOf[PrefixOf(g)] :
       GroupGets(g, a) \/ GroupDrops(g, a) \/ GroupEnables(g, a) \/ GroupSets(g, a)
  \/ \E g \in WinActions : UpdateWindowActions(g)
  \/ \E o \in Observers, f \in FullNames : RegisterObserver(o, f) \/ UnregisterObserver(o, f)
  \/ \E o \in Observers : ObserverDies(o)
  \/ RunningStateSetUp \/ MaybeSetMenu \/ MenuDestroyed

-----------------------------------------------------------------------------
\* Types
MenuTypeOK == muxer \in MuxerType

\* "If any GActionObservers are registered for actions in the group, notifications
\* will be emitted, as appropriate" (g_action_muxer_insert()): every observer knows
\* the action behind the name, through changes of windows and of their actions.
ObserversKnow ==
  \A o \in Observers, f \in FullNames :
    Contains(muxer.watchers[f], o) => muxer.told[<<o, f>>] = QueryAction(muxer, remote, f)

\* The menu shows the actions as they are, but those that were taken away since it
\* was made: there is an item for each, sensitive and switched as the action is,
\* or the menu waits for it.
MenuShowsActions ==
  muxer.made =>
    /\ \A f \in FullNames \ muxer.lost :
         (IF f \in muxer.shown THEN muxer.cache[f] ELSE {}) = QueryAction(muxer, remote, f)
    /\ FullNames \ muxer.shown # {} => muxer.waiters > 0
================================================================================
