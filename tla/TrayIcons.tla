------------------------------- MODULE TrayIcons -------------------------------
(***************************************************************************)
(* The notification area of the X clients: NaTrayManager owns the          *)
(* selection of the system tray and embeds the windows that ask for it,    *)
(* ShellTrayManager gives each a window and an actor, and tells the shell. *)
(* X sends its events in order, and what they name may be gone by then.    *)
(***************************************************************************)
EXTENDS Integers, Sequences, FiniteSets

CONSTANTS
  XIcons,          \* the windows that clients want embedded
  AlphaIcons,     \* those with a visual that has an alpha channel
  Palettes,       \* role -> colour: what the theme may say of the icon colours
  MaxSockets,     \* bound: the sockets made
  MaxTrayEvents   \* bound: the events that are under way

ASSUME TrayIconsAssumption ==
  /\ AlphaIcons \subseteq XIcons
  /\ Palettes \subseteq [{"foreground", "warning", "error", "success"} -> STRING]
  /\ MaxSockets \in Nat /\ MaxTrayEvents \in Nat

VARIABLES
  tray,           \* "new", "managed", "lost" (unmanaged, its screen still set), "refused"
  palette,        \* the icon colours of the style of the theme widget
  colors,         \* manager->fg, error, warning, success
  colorsProp,     \* {} or {what _NET_SYSTEM_TRAY_COLORS says}
  xstate,         \* client window -> "free", "embedded", "gone"
  trayEvents,     \* what X has for the shell
  socketTable,    \* manager->socket_table: the sockets, by their icon window
  trayChildren,   \* priv->icons: the ShellTrayManagerChild of each socket
  made,           \* how many sockets were made
  shownSockets           \* the sockets whose actor the shell was given and not told to drop

trayVars == <<tray, palette, colors, colorsProp, xstate, trayEvents, socketTable, trayChildren, made, shownSockets>>

TrayRoles == {"foreground", "warning", "error", "success"}
DefaultColors == [r \in TrayRoles |-> "default"]     \* na_tray_manager_init()
ChildType == [socket : Nat, window : XIcons, hasActor : BOOLEAN, alpha : BOOLEAN, composited : BOOLEAN,
              parentRelative : BOOLEAN]

\* na_tray_child_new(): the visual is that of the icon window.
\* na_tray_icon_added() sets the child not composited, and the window around it
\* to the same visual before both are realized.
NaTrayChild(socket, w) ==
  [socket |-> socket, window |-> w, hasActor |-> FALSE, alpha |-> w \in AlphaIcons, composited |-> w \in AlphaIcons,
   parentRelative |-> FALSE]

\* na_tray_child_realize()
Realized(c, parentAlpha) == [c EXCEPT !.parentRelative = ~c.alpha /\ c.alpha = parentAlpha]

\* na_tray_icon_added()
IconAdded(c) == Realized([c EXCEPT !.composited = FALSE], c.alpha)

\* shell_tray_manager_style_changed() hands the colours over by position: the
\* manager takes them as the normal, the error, the warning and the success colour.
Handed(p) == [r \in TrayRoles |-> p[CASE r = "error" -> "warning" [] r = "warning" -> "error" [] OTHER -> r]]

TrayIconsInit ==
  /\ tray = "new" /\ palette \in Palettes
  /\ colors = DefaultColors /\ colorsProp = {}
  /\ xstate = [w \in XIcons |-> "free"] /\ trayEvents = <<>>
  /\ socketTable = {} /\ trayChildren = {} /\ made = 0 /\ shownSockets = {}

\* na_tray_manager_set_colors()
SetColors(p) ==
  /\ colors' = p
  /\ colorsProp' = IF tray' = "managed" THEN {p} ELSE colorsProp

-----------------------------------------------------------------------------
\* The clients

\* Something happens to a client's window that the shell hears of through X.
XSends(what, w) == trayEvents' = Append(trayEvents, [what |-> what, window |-> w])

\* A client asks to be docked (if it likes more than once).
ClientDocks(w) ==
  /\ Len(trayEvents) < MaxTrayEvents /\ xstate[w] # "gone"
  /\ XSends("dock", w)
  /\ UNCHANGED <<tray, palette, colors, colorsProp, xstate, socketTable, trayChildren, made, shownSockets>>

\* A client withdraws or destroys its window.
ClientLeaves(w) ==
  /\ Len(trayEvents) < MaxTrayEvents
  /\ \E to \in {"free", "gone"} :
       /\ \/ xstate[w] = "embedded"
          \/ xstate[w] = "free" /\ to = "gone"
       /\ xstate' = [xstate EXCEPT ![w] = to]
  /\ IF xstate[w] = "embedded" THEN XSends("unplugged", w) ELSE UNCHANGED trayEvents
  /\ UNCHANGED <<tray, palette, colors, colorsProp, socketTable, trayChildren, made, shownSockets>>

\* Another program takes the selection.
SelectionTaken ==
  /\ tray = "managed" /\ Len(trayEvents) < MaxTrayEvents
  /\ \A i \in DOMAIN trayEvents : trayEvents[i].what # "clear"
  /\ trayEvents' = Append(trayEvents, [what |-> "clear"])
  /\ UNCHANGED <<tray, palette, colors, colorsProp, xstate, socketTable, trayChildren, made, shownSockets>>

-----------------------------------------------------------------------------
\* The shell

\* shell_tray_manager_manage_stage(), na_tray_manager_manage_screen_x11(): the
\* selection may be refused, and is not asked for again.
ManageStage ==
  /\ tray = "new"
  /\ tray' \in {"managed", "refused"}
  /\ SetColors(Handed(palette))
  /\ UNCHANGED <<palette, xstate, trayEvents, socketTable, trayChildren, made, shownSockets>>

\* shell_tray_manager_style_changed(), when it is connected
StyleChanged ==
  /\ palette' \in Palettes \ {palette}
  /\ tray' = tray
  /\ IF tray = "new" THEN UNCHANGED <<colors, colorsProp>> ELSE SetColors(Handed(palette'))
  /\ UNCHANGED <<xstate, trayEvents, socketTable, trayChildren, made, shownSockets>>

Next1 == trayEvents # <<>> /\ trayEvents' = Tail(trayEvents)

\* Mutant: a window whose end is still to be heard of may be docked again.
DockedEmbedded(w) == xstate[w] = "embedded"

\* na_tray_manager_handle_dock_request() ignores what it has.
DockedAlready(w) == \E c \in socketTable : c.window = w

\* na_tray_manager_handle_dock_request(): the window may be gone before the socket
\* is made, and before it is embedded (then there is no actor, no plug-removed, and
\* the icon goes at once); else on_plug_added() makes the actor and tells the shell.
HandleDockRequest ==
  /\ Next1 /\ Head(trayEvents).what = "dock"
  /\ LET w == Head(trayEvents).window
         c == [IconAdded(NaTrayChild(made + 1, w)) EXCEPT !.hasActor = TRUE]
     IN IF tray # "managed" \/ DockedAlready(w) \/ xstate[w] = "gone" THEN UNCHANGED <<made, socketTable, trayChildren, shownSockets, xstate>>
        ELSE /\ made < MaxSockets
             /\ made' = made + 1
             /\ \/ /\ socketTable' = socketTable \cup {[window |-> w, socket |-> c.socket]}
                   /\ trayChildren' = trayChildren \cup {c}
                   /\ shownSockets' = shownSockets \cup {c.socket}
                   /\ xstate' = [xstate EXCEPT ![w] = "embedded"]
                \/ /\ xstate' = [xstate EXCEPT ![w] = "gone"]
                   /\ UNCHANGED <<socketTable, trayChildren, shownSockets>>
  /\ UNCHANGED <<tray, palette, colors, colorsProp>>

\* na_tray_manager_plug_removed(), na_tray_icon_removed(): only an icon that has
\* an actor was shown.
PlugRemoved ==
  /\ Next1 /\ Head(trayEvents).what = "unplugged"
  /\ LET gone == {c \in trayChildren : c.window = Head(trayEvents).window} IN
       /\ socketTable' = {s \in socketTable : s.window # Head(trayEvents).window}
       /\ trayChildren' = trayChildren \ gone
       /\ shownSockets' = shownSockets \ {c.socket : c \in {d \in gone : d.hasActor}}
  /\ UNCHANGED <<tray, palette, colors, colorsProp, xstate, made>>

\* na_tray_manager_window_filter() SelectionClear, na_tray_manager_unmanage(): the
\* window of the property goes; the icons stay where they are.
SelectionLost ==
  /\ Next1 /\ Head(trayEvents).what = "clear"
  /\ tray' = "lost" /\ colorsProp' = {}
  /\ UNCHANGED <<palette, colors, xstate, socketTable, trayChildren, made, shownSockets>>

TrayIconsNext ==
  \/ \E w \in XIcons : ClientDocks(w) \/ ClientLeaves(w)
  \/ SelectionTaken \/ ManageStage \/ StyleChanged \/ HandleDockRequest \/ PlugRemoved \/ SelectionLost

-----------------------------------------------------------------------------
\* Types
TrayIconsTypeOK ==
  /\ tray \in {"new", "managed", "lost", "refused"} /\ palette \in Palettes
  /\ Cardinality(colorsProp) <= 1
  /\ socketTable \subseteq [window : XIcons, socket : Nat] /\ trayChildren \subseteq ChildType
  /\ made \in 0 .. MaxSockets /\ shownSockets \subseteq 1 .. MaxSockets
  /\ xstate \in [XIcons -> {"free", "embedded", "gone"}]

\* What the shell shows is what is embedded: an icon for every window that is in
\* a socket or whose end is still to be heard of, one for each, and none besides,
\* through repeated requests, windows that die half way and the loss of the tray.
ShownIsEmbedded ==
  /\ shownSockets = {c.socket : c \in trayChildren} /\ shownSockets = {s.socket : s \in socketTable}
  /\ \A w \in XIcons :
       LET left == {i \in DOMAIN trayEvents : trayEvents[i].what = "unplugged" /\ trayEvents[i].window = w}
       IN Cardinality({s \in socketTable : s.window = w}) = (IF xstate[w] = "embedded" \/ left # {} THEN 1 ELSE 0)
================================================================================
