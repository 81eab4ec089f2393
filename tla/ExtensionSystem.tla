---------------------------- MODULE ExtensionSystem ----------------------------
(***************************************************************************)
(* The extensions of the shell (extensionSystem.js), which the user turns  *)
(* on and off through a setting, and the plugin with which a page of       *)
(* extensions.gnome.org does it from a browser (browser-plugin.c), over    *)
(* the D-Bus interface of the shell.                                       *)
(***************************************************************************)
EXTENDS Integers, Sequences, SequencesExt, FiniteSets

CONSTANTS
  Uuids,
  PerUser,        \* those the user installed; the others are part of the system
  OutOfDate, BrokenInit,   \* those that cannot be loaded, or whose init() fails
  Faulty,         \* those whose enable() or disable() may throw, in one step (a bound)
  Pages,          \* [hostname, protocol] of the pages that want the plugin
  InvalidUuids,   \* what uuid_is_valid() refuses
  MaxRestarts     \* bound on restarts of the shell

ASSUME ExtensionsAssumption ==
  /\ PerUser \cup OutOfDate \cup BrokenInit \cup Faulty \subseteq Uuids
  /\ InvalidUuids \cap Uuids = {}

States == {"ENABLED", "DISABLED", "ERROR", "OUT_OF_DATE", "INITIALIZED"}
Callbacks == {"onchange", "onrestart"}
Gone == "UNINSTALLED"   \* ExtensionState.UNINSTALLED, or not in the table

VARIABLES
  shellUp, restarts,
  storedEnabled,  \* the setting enabled-extensions
  knownEnabled,   \* enabledExtensions, what the shell made of the setting
  disk,           \* directories of extensions
  sys,            \* [state, running, order]: the table of the extensions, those
                  \* whose enable() ran last, extensionOrder; and [told, thrown],
                  \* what was signalled last of each, and a history of exceptions
  installs,       \* how far InstallRemoteExtension is with each
  plugin,         \* "none", "instance" or "object"
  listening,      \* the callbacks the page has set: onchange, onrestart
  pageState,      \* what the page knows of each: "none" if nothing
  misled          \* history: extensions of which a signal told what is not so

extVars == <<shellUp, restarts, storedEnabled, knownEnabled, disk, sys, installs,
             plugin, listening, pageState, misled>>

Unknown == [u \in Uuids |-> "none"]
NoExtensions == [state |-> [u \in Uuids |-> Gone], running |-> {}, order |-> <<>>,
                 told |-> <<>>, thrown |-> FALSE]

-----------------------------------------------------------------------------
\* The extension system.  Every operator returns the new sys; "bad" are those that
\* throw in this step.

Signal(s, u, state) == [s EXCEPT !.told = Append(@, [uuid |-> u, state |-> state])]
LogError(s, u, state) == IF s.state[u] = Gone THEN s ELSE Signal(s, u, state)

\* initExtension(): an error leaves the state as it was.
InitExtension(s, u) ==
  IF u \in BrokenInit THEN LogError(s, u, "ERROR") ELSE [s EXCEPT !.state[u] = "DISABLED"]

\* enableExtension(): it is in the order before enable() is called.
EnableExtension(s, u, bad) ==
  LET i == IF s.state[u] = "INITIALIZED" THEN InitExtension(s, u) ELSE s
      pushed == [i EXCEPT !.order = Append(@, u)] IN
  IF i.state[u] # "DISABLED" THEN i
  ELSE IF u \in bad THEN [LogError(pushed, u, "ERROR") EXCEPT !.thrown = TRUE]
  ELSE Signal([pushed EXCEPT !.state[u] = "ENABLED", !.running = @ \cup {u}], u, "ENABLED")

\* disableExtension(): those that were enabled later are disabled first and enabled
\* again, except if the disable() of this one throws.
DisableExtension(s, u, bad) ==
  LET at == IndexFirstSubSeq(<<u>>, s.order)
      later == ToSet(SubSeq(s.order, at + 1, Len(s.order)))
      throws == bad \cap (later \cup {u})
      logged == [FoldLeft(LAMBDA t, v : LogError(t, v, "ERROR"), s, SetToSeq(throws))
                   EXCEPT !.thrown = @ \/ throws # {}] IN
  IF s.state[u] # "ENABLED" THEN s
  ELSE IF u \in bad THEN [logged EXCEPT !.running = @ \ (later \ bad)]
  ELSE Signal([logged EXCEPT
                 !.state[u] = "DISABLED",
                 !.running = (@ \ {u}) \cup {v \in later \ bad : s.state[v] # Gone},
                 !.order = RemoveAt(@, at)], u, "DISABLED")

\* loadExtension()
LoadExtension(s, u, enabled, bad) ==
  LET made == [s EXCEPT !.state[u] = "ERROR"]
      done == IF ~enabled THEN [made EXCEPT !.state[u] = "INITIALIZED"]
              ELSE EnableExtension(InitExtension(made, u), u, bad) IN
  IF s.state[u] # Gone THEN s
  ELSE IF u \in OutOfDate
  THEN [LogError(made, u, "OUT_OF_DATE") EXCEPT !.state[u] = "OUT_OF_DATE"]
  ELSE Signal(done, u, done.state[u])

\* onEnabledExtensionsChanged()
SettingChanged(s, known, stored, bad) ==
  LET on == FoldLeft(LAMBDA t, u : EnableExtension(t, u, bad), s, SetToSeq(stored \ known)) IN
  FoldLeft(LAMBDA t, u : DisableExtension(t, u, bad), on, SetToSeq(known \ stored))

\* on_shell_signal(): the page hears each of the signals, in order.
Heard(s) ==
  /\ sys' = [s EXCEPT !.told = <<>>]
  /\ pageState' = IF "onchange" \notin listening \/ pageState = Unknown THEN pageState
                  ELSE FoldLeft(LAMBDA p, t : [p EXCEPT ![t.uuid] = t.state], pageState, s.told)
  /\ misled' = (misled \ {s.told[i].uuid : i \in DOMAIN s.told})
                 \cup {s.told[i].uuid : i \in {j \in DOMAIN s.told : s.told[j].state # s.state[s.told[j].uuid]}}

LoadAll(bad) ==   \* loadExtensions()
  FoldLeft(LAMBDA t, u : LoadExtension(t, u, u \in storedEnabled, bad), NoExtensions, SetToSeq(disk))

ExtensionsInit ==
  /\ shellUp = TRUE /\ restarts = 0
  /\ storedEnabled \in SUBSET Uuids /\ knownEnabled = storedEnabled
  /\ disk = Uuids \ PerUser
  /\ sys = [LoadAll({}) EXCEPT !.told = <<>>]
  /\ installs = [u \in Uuids |-> "none"]
  /\ plugin = "none" /\ listening = {}
  /\ pageState = Unknown /\ misled = {}

-----------------------------------------------------------------------------
\* The setting changes: by another program, or by EnableExtension and DisableExtension
\* of the shell (shellDBus.js), for which the plugin does not wait.
SettingWritten(u) ==
  /\ storedEnabled' = IF u \in storedEnabled THEN storedEnabled \ {u} ELSE storedEnabled \cup {u}
  /\ UNCHANGED <<shellUp, restarts, knownEnabled, disk, sys, installs, plugin, listening, pageState, misled>>

OnEnabledExtensionsChanged(bad) ==
  /\ shellUp /\ storedEnabled # knownEnabled
  /\ knownEnabled' = storedEnabled
  /\ Heard(SettingChanged(sys, knownEnabled, storedEnabled, bad))
  /\ UNCHANGED <<shellUp, restarts, storedEnabled, disk, installs, plugin, listening>>

\* uninstallExtensionFromUUID(): what is part of the system is only disabled; the
\* setting keeps the name.
UninstallExtension(u, bad) ==
  LET off == DisableExtension(sys, u, bad) IN
  /\ shellUp /\ sys.state[u] # Gone
  /\ IF u \notin PerUser THEN Heard(off) /\ UNCHANGED disk
     ELSE /\ Heard(Signal([off EXCEPT !.state[u] = Gone], u, Gone))
          /\ disk' = disk \ {u}
  /\ UNCHANGED <<shellUp, restarts, storedEnabled, knownEnabled, installs, plugin, listening>>

-----------------------------------------------------------------------------
\* The installation: the name is asked of the site, the user confirms it in a dialog,
\* the archive is fetched and extracted by a program.

Installing(u, from, to) == shellUp /\ installs[u] = from /\ installs' = [installs EXCEPT ![u] = to]

InstallRemoteExtension(u) ==
  /\ Installing(u, "none", "dialog") /\ u \in PerUser
  /\ UNCHANGED <<shellUp, restarts, storedEnabled, knownEnabled, disk, sys, plugin, listening, pageState, misled>>

DialogAnswered(u, install) ==
  /\ Installing(u, "dialog", IF install THEN "downloading" ELSE "none")
  /\ Heard(Signal(sys, u, IF install THEN "DOWNLOADING" ELSE Gone))
  /\ UNCHANGED <<shellUp, restarts, storedEnabled, knownEnabled, disk, plugin, listening>>

\* gotExtensionZipFile(): an error is logged, for an extension that exists,
Downloaded(u, ok) ==
  /\ Installing(u, "downloading", IF ok THEN "extracting" ELSE "none")
  /\ Heard(IF ok THEN sys ELSE LogError(sys, u, "ERROR"))
  /\ UNCHANGED <<shellUp, restarts, storedEnabled, knownEnabled, disk, plugin, listening>>

\* and what was extracted is put into the setting, which tells the shell at once, and
\* loaded.
Extracted(u, bad) ==
  LET stored == storedEnabled \cup {u}
      told == IF u \in storedEnabled THEN sys ELSE SettingChanged(sys, knownEnabled, stored, bad) IN
  /\ Installing(u, "extracting", "none")
  /\ disk' = disk \cup {u} /\ storedEnabled' = stored
  /\ knownEnabled' = IF u \in storedEnabled THEN knownEnabled ELSE stored
  /\ Heard(LoadExtension(told, u, TRUE, bad))
  /\ UNCHANGED <<shellUp, restarts, plugin, listening>>

\* The shell goes away and comes back: it scans the directories, and
\* on_shell_appeared() calls the page, which asks for everything again.
ShellGone ==
  /\ shellUp /\ restarts < MaxRestarts
  /\ shellUp' = FALSE /\ restarts' = restarts + 1
  /\ sys' = NoExtensions /\ installs' = [u \in Uuids |-> "none"] /\ misled' = {}
  /\ UNCHANGED <<storedEnabled, knownEnabled, disk, plugin, listening, pageState>>

ShellAppears(bad) ==
  /\ ~shellUp /\ shellUp' = TRUE
  /\ knownEnabled' = storedEnabled
  /\ sys' = [LoadAll(bad) EXCEPT !.told = <<>>]
  /\ pageState' = IF "onrestart" \in listening /\ pageState # Unknown THEN sys'.state ELSE pageState
  /\ UNCHANGED <<restarts, storedEnabled, disk, installs, plugin, listening, misled>>

-----------------------------------------------------------------------------
\* The plugin: check_origin_and_protocol() lets one page have it, and the object is
\* allocated when the page asks for it.
AllowedPage(page) == page.hostname = "extensions.gnome.org" /\ page.protocol = "https:"

extShellVars == <<shellUp, restarts, storedEnabled, knownEnabled, disk, sys, installs>>

PluginCreated(page) ==
  /\ shellUp /\ AllowedPage(page) /\ plugin = "none" /\ plugin' = "instance"
  /\ UNCHANGED <<extShellVars, listening, pageState, misled>>

ObjectAllocated ==
  /\ plugin = "instance" /\ plugin' = "object"
  /\ UNCHANGED <<extShellVars, listening, pageState, misled>>

\* plugin_object_set_property(): a page that does without a callback knows nothing for
\* sure any more.
SetCallback(name, set) ==
  /\ plugin = "object"
  /\ listening' = IF set THEN listening \cup {name} ELSE listening \ {name}
  /\ pageState' = IF set THEN pageState ELSE Unknown
  /\ UNCHANGED <<extShellVars, plugin, misled>>

ListExtensions ==   \* asked when both callbacks are there
  /\ listening = Callbacks /\ shellUp /\ pageState = Unknown
  /\ pageState' = sys.state /\ misled' = {}
  /\ UNCHANGED <<extShellVars, plugin, listening>>

\* plugin_object_deallocate()
PageLeaves ==
  /\ plugin # "none" /\ plugin' = "none" /\ listening' = {} /\ pageState' = Unknown
  /\ UNCHANGED <<extShellVars, misled>>

Throws == IF sys.thrown THEN {{}} ELSE SUBSET Faulty

UuidIsValid(u) == u \notin InvalidUuids

\* plugin_object_invoke(): a page has what it calls an extension checked first; the
\* plugin waits for the shell when it removes one or is asked about one.
Invokes(u) == plugin = "object" /\ shellUp /\ UuidIsValid(u)

SetExtensionEnabled(u, enabled) ==
  /\ Invokes(u) /\ (u \in storedEnabled) # enabled
  /\ SettingWritten(u)

InstallExtension(u) == Invokes(u) /\ InstallRemoteExtension(u)

UninstallFromPage(u, bad) == Invokes(u) /\ UninstallExtension(u, bad)

GetExtensionInfo(u) ==
  /\ Invokes(u) /\ pageState # Unknown
  /\ pageState' = [pageState EXCEPT ![u] = sys.state[u]] /\ misled' = misled \ {u}
  /\ UNCHANGED <<extShellVars, plugin, listening>>

ExtensionsNext ==
  \/ \E u \in Uuids :
       \/ ~Invokes(u) /\ SettingWritten(u)    \* else as SetExtensionEnabled(u, _)
       \/ \E b \in BOOLEAN : DialogAnswered(u, b) \/ Downloaded(u, b)
       \/ \E bad \in Throws : Extracted(u, bad)
  \/ \E u \in Uuids \cup InvalidUuids :
       \/ \E enabled \in BOOLEAN : SetExtensionEnabled(u, enabled)
       \/ InstallExtension(u) \/ GetExtensionInfo(u)
       \/ \E bad \in Throws : UninstallFromPage(u, bad)
  \/ \E bad \in Throws : OnEnabledExtensionsChanged(bad) \/ ShellAppears(bad)
  \/ ShellGone \/ ObjectAllocated \/ ListExtensions \/ PageLeaves
  \/ \E page \in Pages : PluginCreated(page)
  \/ \E name \in Callbacks, set \in BOOLEAN : SetCallback(name, set)

-----------------------------------------------------------------------------
ExtensionsTypeOK ==
  /\ shellUp \in BOOLEAN /\ storedEnabled \cup knownEnabled \subseteq Uuids
  /\ sys.state \in [Uuids -> States \cup {Gone}] /\ sys.running \subseteq Uuids
  /\ Range(sys.order) \subseteq Uuids /\ sys.told = <<>>
  /\ plugin \in {"none", "instance", "object"} /\ listening \subseteq Callbacks

\* As long as no extension throws, those that run are those whose state is ENABLED, each
\* once in extensionOrder (disableExtension() and its "rebase"), through installation,
\* removal and restarts; they are in the setting as the shell knows it
\* (onEnabledExtensionsChanged()), except that one installed between a change of the
\* setting and the news of it may not be.
EnabledRuns ==
  shellUp /\ ~sys.thrown =>
    /\ sys.running = {u \in Uuids : sys.state[u] = "ENABLED"}
    /\ ToSet(sys.order) = sys.running /\ Len(sys.order) = Cardinality(sys.running)
    /\ sys.running \subseteq knownEnabled \cup PerUser

\* A page that listens and has asked knows the state of every extension (on_shell_signal()), except
\* where the shell told it a state the extension is not in: that of an installation,
\* or an error that leaves it as it is.
PageKnows ==
  pageState # Unknown /\ shellUp => \A u \in Uuids \ misled : pageState[u] = sys.state[u]
=============================================================================
