--------------------------- MODULE DynamicWorkspaces --------------------------
(***************************************************************************)
(* The dynamic workspaces of the user session (js/ui/main.js): a check,    *)
(* queued by whatever may change which workspaces are empty and run before *)
(* the next redraw, removes the empty ones and leaves one at the end.      *)
(*                                                                         *)
(* Workspaces are numbered from 1 (from 0 in the code); windows on all     *)
(* workspaces are not counted by the code and left out.  What mutter does  *)
(* with windows and workspaces is modelled from how the code uses it.      *)
(***************************************************************************)
EXTENDS Integers, FiniteSets, SequencesExt

CONSTANTS
  Windows,
  Transient,      \* those of the types splash screen and (modal) dialog
  Launches,       \* startup sequences
  MaxWorkspaces   \* bound: what is opened, launched or moved goes to those before it

ASSUME WorkspacesAssumption ==
  /\ Transient \subseteq Windows
  /\ MaxWorkspaces \in Nat

VARIABLES
  workspaces,     \* _workspaces: the windows on each, whether the window named
                  \* by its _lastRemovedWindow is a transient one, and whether it
                  \* has a _keepAliveId
  active,         \* the active workspace
  launching,      \* the workspace each startup sequence names, 0 for none
  dynamic,        \* the setting dynamic-workspaces
  checkQueued     \* _checkWorkspacesId # 0

workspaceVars == <<workspaces, active, launching, dynamic, checkQueued>>

Fresh == [wins |-> {}, grace |-> FALSE, kept |-> FALSE]

WorkspacesInit ==
  /\ workspaces = <<Fresh>>
  /\ active = 1
  /\ launching = [l \in Launches |-> 0]
  /\ dynamic = TRUE
  /\ checkQueued = TRUE

-----------------------------------------------------------------------------
\* emptyWorkspaces[i - 1]
EmptyWorkspace(i) ==
  LET ws == workspaces[i]
  IN /\ ws.wins = {} /\ ~ws.grace /\ ~ws.kept
     /\ \A l \in Launches : launching[l] # i

\* The sequences are tested with index <= n_workspaces: one that names the
\* workspace behind the last makes the array one longer.
BehindLast == \E l \in Launches : launching[l] = Len(workspaces) + 1

MustAppend == BehindLast \/ ~EmptyWorkspace(Len(workspaces))

\* What the loop over emptyWorkspaces removes: never the last of the array.
Removed ==
  {i \in 1..Len(workspaces) :
     EmptyWorkspace(i) /\ (MustAppend \/ i < Len(workspaces))}

\* The part of a sequence at the places I, in their order: at k is the place that
\* k - 1 others come before.
Before(I, i) == {j \in I : j < i}
Nth(I, k) == CHOOSE i \in I : Cardinality(Before(I, i)) = k - 1
PartAt(s, I) == [k \in 1..Cardinality(I) |-> s[Nth(I, k)]]

\* Mutant: the workspaces are removed from the front, by indices that the
\* removals before have changed.
RemovedFromFront(ws) ==
  PartAt(ws, {i \in 1..Len(ws) : \A r \in Removed : i # r + Cardinality(Before(Removed, r))})

\* The workspaces that are left of ws, in their order.
Without(ws) == PartAt(ws, (1..Len(ws)) \ Removed)

\* _checkWorkspaces(): one more is appended if the last is not empty, the empty
\* ones are removed, and if that was the active one the last is activated (and
\* the overview asked for, see Overview).  Events that would queue a check
\* while it runs are lost.
CheckWorkspaces ==
  /\ checkQueued /\ checkQueued' = FALSE
  /\ IF ~dynamic
     THEN UNCHANGED <<workspaces, active>>
     ELSE LET all == IF MustAppend THEN Append(workspaces, Fresh) ELSE workspaces
              left == Without(all)
          IN /\ workspaces' = left
             /\ active' = IF active \in Removed
                          THEN Len(left)
                          ELSE active - Cardinality(Before(Removed, active))
  /\ UNCHANGED <<launching, dynamic>>

-----------------------------------------------------------------------------
Open == UNION {workspaces[i].wins : i \in 1..Len(workspaces)}

\* Mutant: no check for a window that is added.
WindowAddedUnseen(w, i) ==
  /\ w \notin Open /\ i < MaxWorkspaces
  /\ workspaces' = [workspaces EXCEPT ![i].wins = @ \cup {w}]
  /\ UNCHANGED <<active, launching, dynamic, checkQueued>>

WindowAdded(w, i) ==
  /\ w \notin Open /\ i < MaxWorkspaces
  /\ workspaces' = [workspaces EXCEPT ![i].wins = @ \cup {w}]
  /\ checkQueued' = TRUE
  /\ UNCHANGED <<active, launching, dynamic>>

\* _windowRemoved(), when the window is closed
WindowClosed(w, i) ==
  /\ w \in workspaces[i].wins
  /\ workspaces' = [workspaces EXCEPT ![i].wins = @ \ {w}, ![i].grace = w \in Transient]
  /\ checkQueued' = TRUE
  /\ UNCHANGED <<active, launching, dynamic>>

\* The same and window-added, when it moves to another workspace.
WindowMoved(w, i, j) ==
  /\ w \in workspaces[i].wins /\ i # j /\ j < MaxWorkspaces
  /\ workspaces' = [workspaces EXCEPT ![i].wins = @ \ {w}, ![i].grace = w \in Transient,
                                      ![j].wins = @ \cup {w}]
  /\ checkQueued' = TRUE
  /\ UNCHANGED <<active, launching, dynamic>>

\* A window enters or leaves the primary monitor, or the timeout of
\* _windowRemoved() ends for a window that is not a transient one.
CheckForNothing ==
  /\ checkQueued' = TRUE
  /\ UNCHANGED <<workspaces, active, launching, dynamic>>

\* The timeout of _windowRemoved()
GraceOver(i) ==
  /\ workspaces[i].grace
  /\ workspaces' = [workspaces EXCEPT ![i].grace = FALSE]
  /\ checkQueued' = TRUE
  /\ UNCHANGED <<active, launching, dynamic>>

Stackings == SetToSeqs(Windows)

\* The flag of workspace k for the window that leaves it last, when the windows on i and below it
\* are moved down one, in the order of get_window_actors().
GraceMoved(i, k, order) ==
  LET ws == workspaces[k]
      moved == {p \in DOMAIN order : order[p] \in ws.wins}
  IN IF k < i \/ ws.wins = {}
     THEN ws.grace
     ELSE \E p \in moved : order[p] \in Transient /\ \A q \in moved : q <= p

\* acceptDrop() of an application between two thumbnails: the windows on i and
\* below it are moved down one, which appends a workspace if the last has
\* windows, and i is kept alive while the application is launched.
DropApp(i, order) ==
  /\ dynamic /\ Len(workspaces) <= MaxWorkspaces
  /\ LET n == Len(workspaces)
         last == IF workspaces[n].wins # {} THEN n + 1 ELSE n
         below == \E k \in i..n : workspaces[k].wins # {}
     IN /\ workspaces' =
             [k \in 1..last |->
                [wins |-> IF k < i THEN workspaces[k].wins
                          ELSE IF k = i THEN {} ELSE workspaces[k - 1].wins,
                 grace |-> k <= n /\ GraceMoved(i, k, order),
                 kept |-> k = i \/ (k <= n /\ workspaces[k].kept)]]
        /\ checkQueued' = (checkQueued \/ below)
  /\ UNCHANGED <<active, launching, dynamic>>

\* The timeout of keepWorkspaceAlive()
KeepAliveOver(i) ==
  /\ workspaces[i].kept
  /\ workspaces' = [workspaces EXCEPT ![i].kept = FALSE]
  /\ checkQueued' = TRUE
  /\ UNCHANGED <<active, launching, dynamic>>

\* A startup sequence appears, for a workspace, or is complete.
SequenceChanged(l, i) ==
  /\ (launching[l] = 0) # (i = 0) /\ i < MaxWorkspaces
  /\ launching' = [launching EXCEPT ![l] = i]
  /\ checkQueued' = TRUE
  /\ UNCHANGED <<workspaces, active, dynamic>>

\* The user goes to another workspace.
ActivateWorkspace(i) ==
  /\ i # active
  /\ active' = i
  /\ UNCHANGED <<workspaces, launching, dynamic, checkQueued>>

SettingChanged ==
  /\ dynamic' = ~dynamic
  /\ checkQueued' = TRUE
  /\ UNCHANGED <<workspaces, active, launching>>

WorkspacesNext ==
  \/ CheckWorkspaces
  \/ SettingChanged
  \/ CheckForNothing
  \/ \E i \in 1..Len(workspaces) :
       \/ \E w \in Windows : WindowAdded(w, i) \/ WindowClosed(w, i)
       \/ \E w \in Windows, j \in 1..Len(workspaces) : WindowMoved(w, i, j)
       \/ GraceOver(i)
       \/ KeepAliveOver(i)
       \/ ActivateWorkspace(i)
  \/ \E i \in 1..Len(workspaces), order \in Stackings : DropApp(i, order)
  \/ \E l \in Launches, i \in 0..Len(workspaces) : SequenceChanged(l, i)

WorkspacesSpec == WorkspacesInit /\ [][WorkspacesNext]_workspaceVars

-----------------------------------------------------------------------------
WorkspacesTypeOK ==
  /\ workspaces \in Seq([wins : SUBSET Windows, grace : BOOLEAN, kept : BOOLEAN])
  /\ active \in 1..Len(workspaces)
  /\ launching \in [Launches -> Nat]
  /\ {dynamic, checkQueued} \subseteq BOOLEAN

\* When no check is due, and no application is being started, the last workspace
\* is free of windows and every other one has a reason to be there: no way in
\* which a workspace gets its first window or loses what held it goes without a
\* check.
RoomAtTheEnd ==
  /\ WorkspacesTypeOK
  /\ dynamic /\ ~checkQueued /\ (\A l \in Launches : launching[l] = 0)
       => /\ workspaces[Len(workspaces)].wins = {}
          /\ \A i \in 1..(Len(workspaces) - 1) : ~EmptyWorkspace(i)

Used(ws) == {i \in DOMAIN ws : ws[i].wins # {} \/ ws[i].kept \/ ws[i].grace}

\* A check moves no window: the workspaces that hold windows, are kept alive or
\* had a dialog for their last window stay, in their order, and the user goes on
\* seeing the same windows.
CheckKeepsUsed ==
  [][CheckWorkspaces =>
       /\ PartAt(workspaces', Used(workspaces')) = PartAt(workspaces, Used(workspaces))
       /\ workspaces'[active'].wins = workspaces[active].wins]_workspaceVars
=============================================================================
