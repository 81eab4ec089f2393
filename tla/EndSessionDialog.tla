--------------------------- MODULE EndSessionDialog ---------------------------
(***************************************************************************)
(* The dialog that ends the session (js/ui/endSessionDialog.js): the Open  *)
(* calls of the session manager, the inhibitors loaded for each of them,   *)
(* the timer that confirms by itself, and the slow fade with which a modal *)
(* dialog acknowledges an answer (js/ui/modalDialog.js).                   *)
(*                                                                         *)
(* The buttons and the list items are not told apart from the group of the *)
(* dialog.  The proxy of an inhibitor of an earlier call is ignored when   *)
(* it is loaded, and so is not kept.                                       *)
(***************************************************************************)
EXTENDS ModalDialog

CONSTANTS
  endDialog,   \* the only end session dialog
  Inhibitors,  \* what may inhibit the end of the session
  MaxCalls     \* bound on the Open calls waiting for a reply

ASSUME EndSessionAssumption ==
  /\ endDialog \in Dialogs
  /\ MaxCalls \in Nat \ {0}

VARIABLES
  inhibitors,  \* _inhibitors
  loading,     \* those whose proxy is being loaded
  items,       \* the applications listed in _applicationList
  timer,       \* whether the tween of _secondsLeft runs
  layout,      \* the tween on _dialogLayout: "none", "fade", or "behind" while
               \* the tween on _group that was there first has not ended
  opaque,      \* the opacity of _dialogLayout is not 0
  waiting      \* Open calls that have no reply yet

endVars == <<inhibitors, loading, items, timer, layout, opaque, waiting>>
allVars == <<modalVars, dialogVars, endVars>>

EndInit ==
  /\ DialogInit
  /\ inhibitors = {} /\ loading = {} /\ items = {}
  /\ timer = FALSE
  /\ layout = "none"
  /\ opaque = TRUE
  /\ waiting = 0

IsOpen == state[endDialog] \in {"OPENED", "OPENING"}

-----------------------------------------------------------------------------

\* OpenAsync(): a dialog that is open already only shows the new inhibitors; a
\* grab that fails is reported; otherwise the dialog opens. _updateContent()
\* stops the timer of an open dialog when something inhibits.
OpenCall(I) ==
  /\ waiting < MaxCalls
  /\ inhibitors' = I /\ loading' = I /\ items' = {}
  /\ \/ /\ IsOpen
        /\ timer' = (timer /\ I = {})
        /\ waiting' = waiting + 1
        /\ UNCHANGED <<opaque, modalVars, dialogVars>>
     \/ /\ ~IsOpen
        /\ modalCount = 0 /\ endDialog \notin held
        /\ UNCHANGED <<timer, opaque, waiting, modalVars, dialogVars>>
     \/ /\ ~IsOpen
        /\ TakeModal(endDialog)
        /\ FadeOpen(endDialog)
        /\ opaque' = TRUE
        /\ timer' = (timer /\ I = {})
        /\ waiting' = waiting + 1
        /\ UNCHANGED running
  /\ UNCHANGED layout

\* _onInhibitorLoaded(): an application is listed and stops the timer, and a
\* service does not count; _updateContent() follows.
InhibitorLoaded(i) ==
  /\ i \in loading
  /\ loading' = loading \ {i}
  /\ \/ /\ items' = items \cup {i}
        /\ timer' = FALSE
        /\ UNCHANGED inhibitors
     \/ /\ inhibitors' = inhibitors \ {i}
        /\ timer' = (timer /\ (IsOpen => inhibitors' = {}))
        /\ UNCHANGED items
  /\ UNCHANGED <<layout, opaque, waiting, modalVars, dialogVars>>

\* Mutant: the timer is started whatever inhibits.
OpenedStartsTimer ==
  /\ OpenTweenDone(endDialog)
  /\ timer' = TRUE
  /\ layout' = IF layout = "behind" THEN "fade" ELSE layout
  /\ waiting' = 0
  /\ UNCHANGED <<inhibitors, loading, items, opaque>>

\* The dialog is 'opened': _onOpened() starts the timer unless something
\* inhibits, and every call waiting for the signal is answered.
Opened ==
  /\ OpenTweenDone(endDialog)
  /\ timer' = (timer \/ inhibitors = {})
  /\ layout' = IF layout = "behind" THEN "fade" ELSE layout
  /\ waiting' = 0
  /\ UNCHANGED <<inhibitors, loading, items, opaque>>

Closed ==
  /\ CloseTweenDone(endDialog)
  /\ layout' = IF layout = "behind" THEN "fade" ELSE layout
  /\ UNCHANGED <<inhibitors, loading, items, timer, opaque, waiting>>

-----------------------------------------------------------------------------

\* _fadeOutDialog(): the grab is dropped and the layout fades, while the state
\* stays as it is until the fade ends.
FadeOut ==
  IF state[endDialog] \in {"CLOSED", "CLOSING", "FADED_OUT"}
  THEN UNCHANGED <<modalVars, dialogVars, layout>>
  ELSE /\ DropModal(endDialog)
       /\ savedFocus' = IF endDialog \in held
                        THEN [savedFocus EXCEPT ![endDialog] = FocusToSave(endDialog)]
                        ELSE savedFocus
       /\ layout' = IF groupTween[endDialog] = "none" THEN "fade" ELSE "behind"
       /\ UNCHANGED <<state, groupTween, groupVisible, running>>

\* _confirm(): the fade, the end of the timer, and the signal.
Confirm ==
  /\ FadeOut
  /\ timer' = FALSE
  /\ UNCHANGED <<inhibitors, loading, items, opaque, waiting>>

\* Only a dialog with the grab is sensitive.
UserCanAnswer ==
  /\ endDialog \in held
  /\ IsOpen

\* A button that confirms is clicked.
ClickConfirm == UserCanAnswer /\ Confirm

\* The time to stay open is over.
TimerDone == timer /\ Confirm

\* cancel(): the timer is stopped, Canceled is emitted and the dialog closed.
Cancel ==
  /\ UserCanAnswer
  /\ timer' = FALSE
  /\ CloseDialog(endDialog)
  /\ UNCHANGED <<inhibitors, loading, items, layout, opaque, waiting>>

\* The user goes to an application that inhibits; the dialog is closed.
ActivateItem ==
  /\ UserCanAnswer
  /\ items # {}
  /\ CloseDialog(endDialog)
  /\ UNCHANGED endVars

\* The onComplete of the fade of the layout. The tween on the group is ten
\* times shorter: one that was there first ends first.
LayoutTweenDone ==
  /\ layout = "fade"
  /\ layout' = "none"
  /\ opaque' = FALSE
  /\ state' = [state EXCEPT ![endDialog] = "FADED_OUT"]
  /\ UNCHANGED <<inhibitors, loading, items, timer, waiting, modalVars,
                 groupTween, groupVisible, savedFocus, running>>

EndDialogNext ==
  \/ \E I \in SUBSET Inhibitors : OpenCall(I)
  \/ \E i \in Inhibitors : InhibitorLoaded(i)
  \/ Opened
  \/ Closed
  \/ ClickConfirm
  \/ TimerDone
  \/ Cancel
  \/ ActivateItem
  \/ LayoutTweenDone

\* No actor is destroyed here, so that no popModal() of this dialog throws: what a
\* dialog does then is shown in ModalDialog.
EndNext ==
  \/ EndDialogNext
  \/ OtherModals /\ alive' = alive /\ UNCHANGED <<dialogVars, endVars>>

\* The tweens end; the user and the session manager may do nothing.
EndFairness ==
  WF_allVars(Opened) /\ WF_allVars(Closed) /\ WF_allVars(LayoutTweenDone)

EndSpec == EndInit /\ [][EndNext]_allVars /\ EndFairness

-----------------------------------------------------------------------------
EndTypeOK ==
  /\ ModalTypeOK
  /\ DialogTypeOK
  /\ inhibitors \subseteq Inhibitors /\ loading \subseteq Inhibitors
  /\ items \subseteq Inhibitors
  /\ timer \in BOOLEAN /\ opaque \in BOOLEAN
  /\ layout \in {"none", "fade", "behind"}
  /\ waiting \in 0..MaxCalls

\* The session does not end by itself while the dialog shows what inhibits it:
\* the timer never runs on with the inhibitors of a later call, nor with those
\* found to be applications after the dialog was opened.
TimerRespectsInhibitors ==
  timer /\ IsOpen => inhibitors = {}

\* An application in the list always is one of the inhibitors of the last call.
ListedAppsInhibit ==
  items \subseteq inhibitors \ loading

\* A dialog that takes all the input can be seen: opening again a dialog that
\* was faded out brings its layout back, and no fade is left to hide it.
GrabIsSeen ==
  endDialog \in held => opaque /\ layout = "none"

\* A dialog that was answered stays out of the way: it has no grab while it
\* fades and once it is faded out, and its lightbox stays.
FadedDialogIsPassive ==
  layout # "none" \/ state[endDialog] = "FADED_OUT" =>
    /\ endDialog \notin held
    /\ groupVisible[endDialog]

\* The dialog and what it shows are those of the last call and of its answer.
EndDialogIsCurrent ==
  /\ EndTypeOK
  /\ TimerRespectsInhibitors /\ ListedAppsInhibit
  /\ GrabIsSeen /\ FadedDialogIsPassive

\* An Open call that opens the dialog, or comes before it is completely open,
\* gets its reply unless the user closes the dialog first.
OpenCallsAnswered ==
  waiting > 0 /\ state[endDialog] = "OPENING" ~> waiting = 0 \/ state[endDialog] = "CLOSING"

\* What the dialogs began comes to its end: the opening, the closing and the calls.
DialogsSettle == HalfwayEnds /\ OpenCallsAnswered
=============================================================================
