------------------------------- MODULE Overview -------------------------------
(***************************************************************************)
(* The overview (js/ui/overview.js) over the modal stack: show() and       *)
(* hide(), which grab and release all input, showTemporarily() and         *)
(* hideTemporarily(), which a drag from another client uses and which only *)
(* set the input mode, the animation that makes the calls wait for one     *)
(* another, and the two timers that run while a drag hovers (the overview  *)
(* switches to a window, the Activities button opens the overview).        *)
(*                                                                         *)
(* The actor that is pushed is the constant overview, _modal is            *)
(* overview \in held, and animationInProgress with _hideInProgress is      *)
(* animation.  The workspaces a drag or a window switch activates, the     *)
(* layout and swipe-scrolling are left out.                                *)
(***************************************************************************)
EXTENDS ModalStack

CONSTANTS
  overview,     \* the _group of the overview
  DragWindows,  \* windows a drag may hover in the overview
  MaxRecords    \* bound on the length of modalActorFocusStack in show()

ASSUME OverviewAssumption ==
  /\ overview \in Modals
  /\ Destroyable = {} /\ Unchecked = {}
  /\ None \notin DragWindows
  /\ MaxRecords \in Nat

VARIABLES
  shown,        \* _shown: show() and not hide()
  temporarily,  \* _shownTemporarily
  visible,      \* animating to the overview, in it, or animating out
  animation,    \* the tween on the group: "none", "show" or "hide"
  dragging,     \* a drag of another client is over the stage
  buttonTimer,  \* _xdndTimeOut of the Activities button
  switchTimer,  \* _windowSwitchTimeoutId: none, of a running or of a fired timeout
  hovered,      \* _lastHoveredWindow
  fakePointer   \* _needsFakePointerEvent

overviewVars == <<shown, temporarily, visible, animation, dragging, buttonTimer,
                  switchTimer, hovered, fakePointer>>
dragVars == <<dragging, buttonTimer, switchTimer, hovered, fakePointer>>
stackVars == <<modalCount, modalActors, modalFocus, lostHandlers, held, grabbed,
               keyFocus, alive, sessionFocus>>
vars == <<modalVars, overviewVars>>

OverviewInit ==
  /\ ModalInit
  /\ shown = FALSE /\ temporarily = FALSE
  /\ visible = FALSE /\ animation = "none"
  /\ dragging = FALSE /\ buttonTimer = FALSE
  /\ switchTimer = "none" /\ hovered = None /\ fakePointer = FALSE

-----------------------------------------------------------------------------
\* Mutant of _syncInputMode(): the mode of the temporary overview stays.
SyncKeepsFullscreen(sh, te, an) ==
  IF an # "none" \/ sh
  THEN UNCHANGED modalVars
  ELSE IF te
  THEN /\ IF overview \in held THEN PopRecord(overview) ELSE UNCHANGED stackVars
       /\ inputMode' = "FULLSCREEN"
  ELSE IF overview \in held THEN PopModal(overview) ELSE UNCHANGED modalVars

\* _syncInputMode() with the _shown, _shownTemporarily and animation it finds:
\* nothing is done before the end of an animation.  (That _shown implies _modal
\* is part of GrabFollowsShown: the branch that pushes is never taken.)
SyncInputMode(sh, te, an) ==
  IF an # "none" \/ sh
  THEN UNCHANGED modalVars
  ELSE IF te
  THEN /\ IF overview \in held THEN PopRecord(overview) ELSE UNCHANGED stackVars
       /\ inputMode' = "FULLSCREEN"
  ELSE IF overview \in held
  THEN PopModal(overview)
  ELSE /\ inputMode' = IF inputMode = "FULLSCREEN" THEN "NORMAL" ELSE inputMode
       /\ UNCHANGED stackVars

\* _animateVisible() and _animateNotVisible()
AnimateVisible ==
  IF visible \/ animation # "none"
  THEN UNCHANGED <<visible, animation>>
  ELSE visible' = TRUE /\ animation' = "show"

AnimateNotVisible ==
  /\ animation' = IF visible /\ animation = "none" THEN "hide" ELSE animation
  /\ UNCHANGED visible

\* show(), when begin_modal does not fail.  (When it fails nothing changes.)
Show ==
  /\ ~shown
  /\ Len(modalActors) < MaxRecords
  /\ PushModalTo(overview, overview)
  /\ AnimateVisible
  /\ shown' = TRUE
  /\ UNCHANGED <<temporarily, dragVars>>

\* hide(): also the keys of _globalKeyPressHandler() and activateWindow().
Hide ==
  /\ shown
  /\ IF temporarily THEN UNCHANGED <<visible, animation>> ELSE AnimateNotVisible
  /\ shown' = FALSE
  /\ SyncInputMode(FALSE, temporarily, animation')
  /\ UNCHANGED <<temporarily, dragVars>>

\* showTemporarily(), which no caller calls but where nothing is shown.  The
\* input mode is set from what was wanted before.
ShowTemporarily ==
  IF visible \/ animation # "none" \/ temporarily
  THEN UNCHANGED <<modalVars, temporarily, visible, animation>>
  ELSE /\ SyncInputMode(shown, FALSE, "none")
       /\ AnimateVisible
       /\ temporarily' = TRUE

\* Mutant: the calls made while the overview was showing are not looked at.
ShowDoneForgets ==
  /\ animation = "show"
  /\ animation' = "none"
  /\ SyncInputMode(shown, temporarily, animation')
  /\ UNCHANGED <<shown, temporarily, visible, dragVars>>

\* _showDone()
ShowDone ==
  /\ animation = "show"
  /\ animation' = IF shown \/ temporarily THEN "none" ELSE "hide"
  /\ SyncInputMode(shown, temporarily, animation')
  /\ UNCHANGED <<shown, temporarily, visible, dragVars>>

\* Mutant: the input mode is not set at the end of the animation.
HideDoneKeepsMode ==
  /\ animation = "hide"
  /\ visible' = (shown \/ temporarily)
  /\ animation' = IF shown \/ temporarily THEN "show" ELSE "none"
  /\ fakePointer' = FALSE
  /\ UNCHANGED <<modalVars, shown, temporarily, dragging, buttonTimer, switchTimer, hovered>>

\* Mutant: the calls made while the overview was hiding are not looked at.
HideDoneForgets ==
  /\ animation = "hide"
  /\ visible' = FALSE
  /\ animation' = "none"
  /\ SyncInputMode(shown, temporarily, animation')
  /\ fakePointer' = FALSE
  /\ UNCHANGED <<shown, temporarily, dragging, buttonTimer, switchTimer, hovered>>

\* _hideDone(), with the pointer event that is faked for a window switch.
HideDone ==
  /\ animation = "hide"
  /\ visible' = (shown \/ temporarily)
  /\ animation' = IF shown \/ temporarily THEN "show" ELSE "none"
  /\ SyncInputMode(shown, temporarily, animation')
  /\ fakePointer' = FALSE
  /\ UNCHANGED <<shown, temporarily, dragging, buttonTimer, switchTimer, hovered>>

-----------------------------------------------------------------------------
(***************************************************************************)
(* A drag of another client: xdndHandler.js tells the overview where it    *)
(* begins, moves and ends, and the actor under the pointer.                *)
(***************************************************************************)
DragBegin ==
  /\ ~dragging
  /\ dragging' = TRUE
  /\ UNCHANGED <<modalVars, shown, temporarily, visible, animation,
                 buttonTimer, switchTimer, hovered, fakePointer>>

\* _resetWindowSwitchTimeout(), before the timer is set to t
ResetTimer(t) ==
  /\ switchTimer' = t
  /\ fakePointer' = (fakePointer /\ switchTimer = "none")

\* Over a window in the overview; during an animation the cover pane is over it.
DragOverWindow(w) ==
  /\ dragging /\ visible /\ animation = "none"
  /\ hovered # w
  /\ hovered' = w
  /\ ResetTimer("running")
  /\ UNCHANGED <<modalVars, shown, temporarily, visible, animation, dragging, buttonTimer>>

\* Over the hot corner, which is inside the Activities button.
DragOverCorner ==
  /\ dragging
  /\ hovered' = None
  /\ ResetTimer("none")
  /\ ShowTemporarily
  /\ buttonTimer' = TRUE
  /\ UNCHANGED <<shown, dragging>>

\* Over the Activities button, or (start = FALSE) over anything else.
DragOverButton(start) ==
  /\ dragging
  /\ hovered' = None
  /\ ResetTimer("none")
  /\ buttonTimer' = (buttonTimer \/ start)
  /\ UNCHANGED <<modalVars, shown, temporarily, visible, animation, dragging>>

\* _xdndShowOverview(): the overview is shown if the pointer is over the button.
ButtonTimeout(over) ==
  /\ buttonTimer
  /\ buttonTimer' = FALSE
  /\ IF over THEN ShowTemporarily ELSE UNCHANGED <<modalVars, temporarily, visible, animation>>
  /\ UNCHANGED <<shown, dragging, switchTimer, hovered, fakePointer>>

\* The timeout of a hovered window: activateWindow() hides the overview and
\* hideTemporarily() follows; when both have something to undo the first one sets
\* the mode of the temporary overview.  The id of the timeout stays.
SwitchTimeout ==
  /\ switchTimer = "running"
  /\ switchTimer' = "fired"
  /\ fakePointer' = TRUE
  /\ hovered' = None
  /\ shown' = FALSE /\ temporarily' = FALSE
  /\ IF shown \/ temporarily THEN AnimateNotVisible ELSE UNCHANGED <<visible, animation>>
  /\ LET both == shown /\ temporarily
     IN IF shown \/ temporarily
        THEN SyncInputMode(FALSE, both, IF both THEN animation ELSE animation')
        ELSE UNCHANGED modalVars
  /\ UNCHANGED <<dragging, buttonTimer>>

\* _onDragEnd(): the drag left the stage, was dropped or cancelled.
DragEnd ==
  /\ dragging
  /\ dragging' = FALSE
  /\ temporarily' = FALSE
  /\ IF temporarily /\ ~shown THEN AnimateNotVisible ELSE UNCHANGED <<visible, animation>>
  /\ IF temporarily
     THEN SyncInputMode(shown, FALSE, animation')
     ELSE UNCHANGED modalVars
  /\ ResetTimer("none")
  /\ hovered' = None
  /\ UNCHANGED <<shown, buttonTimer>>

\* Everything else that takes or drops a grab, or changes the input mode.
OthersNext ==
  /\ \/ \E a \in Modals \ {overview} : PushModal(a) \/ PopModal(a)
     \/ FocusStage
     \/ FocusWindowChanged
  /\ UNCHANGED overviewVars

OverviewNext ==
  \/ Show \/ Hide \/ ShowDone \/ HideDone
  \/ DragBegin
  \/ \E w \in DragWindows : DragOverWindow(w)
  \/ DragOverCorner
  \/ \E start \in BOOLEAN : DragOverButton(start)
  \/ \E over \in BOOLEAN : ButtonTimeout(over)
  \/ SwitchTimeout
  \/ DragEnd
  \/ OthersNext

\* A tween always ends.
OverviewFairness ==
  WF_vars(ShowDone) /\ WF_vars(HideDone)

OverviewSafety == OverviewInit /\ [][OverviewNext]_vars
OverviewSpec == OverviewSafety /\ OverviewFairness

-----------------------------------------------------------------------------
OverviewTypeOK ==
  /\ ModalTypeOK
  /\ {shown, temporarily, visible, dragging, buttonTimer, fakePointer} \subseteq BOOLEAN
  /\ animation \in {"none", "show", "hide"}
  /\ switchTimer \in {"none", "running", "fired"}
  /\ hovered \in DragWindows \cup {None}

\* When no animation runs the overview is on screen exactly when someone wants
\* it, whatever was called during the animations before: the calls that wait
\* are neither lost nor done twice.
VisibleWhenWanted ==
  animation = "none" => visible = (shown \/ temporarily)

\* The overview believes that it is modal while it is shown, and when no
\* animation runs only then; what it would pop is on the stack.
GrabFollowsShown ==
  /\ shown => overview \in held
  /\ animation = "none" /\ overview \in held => shown
  /\ overview \in held => overview \in ToSet(modalActors)

\* When nothing is modal and the overview is neither shown nor on its way the
\* windows get the input: the stage does not absorb it.
DesktopGetsInput ==
  /\ OverviewTypeOK
  /\ modalCount = 0 /\ animation = "none" /\ ~temporarily => inputMode # "FULLSCREEN"

\* A wish that stands is fulfilled: the overview that is shown for good ends up
\* visible and with the grab, and the one nobody wants ends up hidden.
WishComesTrue ==
  /\ <>[]shown => <>[](visible /\ animation = "none" /\ grabbed)
  /\ <>[](~shown /\ ~temporarily) => <>[](~visible /\ animation = "none")

(***************************************************************************)
(* What overview.js says and the code does not do.                         *)
(***************************************************************************)

\* hide() "Reverses the effect of show()", which "grabs mouse and keyboard
\* input": once the overview is hidden it has no record on the modal stack.
HideReversesShow ==
  animation = "none" /\ ~shown => overview \notin ToSet(modalActors)

\* "In case the drag was canceled while in the overview we have to go back to
\* where we started and hide the overview": it is not shown for a drag that is
\* over.
DragEndHides ==
  temporarily => dragging
=============================================================================
