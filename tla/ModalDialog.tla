------------------------------ MODULE ModalDialog -----------------------------
(***************************************************************************)
(* The modal dialogs of the shell (js/ui/modalDialog.js) over the modal    *)
(* stack: the state of a dialog, the tween that opens or closes it, the    *)
(* tween that fades its layout out, and the modal grab it takes and drops. *)
(*                                                                         *)
(* A dialog is named by its _group, the actor it pushes; _hasModal is      *)
(* d \in held.  A tween runs on its own and ends at any later time; a new  *)
(* tween of the same actor replaces the one that runs.                     *)
(***************************************************************************)
EXTENDS ModalStack

CONSTANTS
  Dialogs,    \* the _group actors of the dialogs
  Inside,     \* the actors inside the group of each dialog
  Initial,    \* the _initialKeyFocus of each dialog
  Runners     \* the dialogs that drop and retake the grab to run a command

ASSUME DialogAssumption ==
  /\ Dialogs \subseteq Modals
  /\ Dialogs \cap (Destroyable \cup Unchecked) = {}
  /\ Inside \in [Dialogs -> SUBSET Actors]
  /\ \A d \in Dialogs : d \in Inside[d] /\ Initial[d] \in Inside[d]
  /\ Runners \subseteq Dialogs

VARIABLES
  state,        \* of each dialog
  groupTween,   \* what the tween on _group does: "open", "close" or "none"
  groupVisible, \* _group.visible
  savedFocus,   \* _savedKeyFocus
  running       \* the dialog whose command is being run, or None

dialogVars == <<state, groupTween, groupVisible, savedFocus, running>>

DialogState == {"OPENED", "CLOSED", "OPENING", "CLOSING", "FADED_OUT"}
Tween == {"none", "open", "close"}

DialogInit ==
  /\ ModalInit
  /\ state = [d \in Dialogs |-> "CLOSED"]
  /\ groupTween = [d \in Dialogs |-> "none"]
  /\ groupVisible = [d \in Dialogs |-> FALSE]
  /\ savedFocus = [d \in Dialogs |-> None]
  /\ running = None

-----------------------------------------------------------------------------
\* pushModal(): a key focus saved by popModal() comes back, or the initial
\* focus is taken; grab_key_focus() on a destroyed actor changes nothing.
FocusOnPush(d) ==
  CASE savedFocus[d] = None    -> Initial[d]
    [] savedFocus[d] \in alive -> savedFocus[d]
    [] OTHER                   -> d

TakeModal(d) ==
  IF d \in held
  THEN UNCHANGED <<modalVars, savedFocus>>
  ELSE /\ PushModalTo(d, FocusOnPush(d))
       /\ savedFocus' = [savedFocus EXCEPT ![d] = None]

\* The part of popModal() that drops the grab.
DropModal(d) ==
  IF d \in held THEN PopModal(d) ELSE UNCHANGED modalVars

\* What popModal() keeps for the next pushModal().
FocusToSave(d) ==
  IF keyFocus \in Inside[d] THEN keyFocus ELSE None

\* Mutant: no new tween is started while one runs.
FadeOpenKeepsTween(d) ==
  /\ state' = [state EXCEPT ![d] = "OPENING"]
  /\ groupTween' = [groupTween EXCEPT ![d] = IF @ = "none" THEN "open" ELSE @]
  /\ groupVisible' = [groupVisible EXCEPT ![d] = TRUE]

\* _fadeOpen()
FadeOpen(d) ==
  /\ state' = [state EXCEPT ![d] = "OPENING"]
  /\ groupTween' = [groupTween EXCEPT ![d] = "open"]
  /\ groupVisible' = [groupVisible EXCEPT ![d] = TRUE]

\* open(), when the dialog is not open already and pushModal() succeeds. (When
\* it fails nothing changes.)
OpenDialog(d) ==
  /\ state[d] \notin {"OPENED", "OPENING"}
  /\ TakeModal(d)
  /\ FadeOpen(d)
  /\ UNCHANGED running

\* close(), when popModal() does not throw.
CloseDialog(d) ==
  /\ state[d] \notin {"CLOSED", "CLOSING"}
  /\ DropModal(d)
  /\ state' = [state EXCEPT ![d] = "CLOSING"]
  /\ savedFocus' = [savedFocus EXCEPT ![d] = None]
  /\ groupTween' = [groupTween EXCEPT ![d] = "close"]
  /\ UNCHANGED <<groupVisible, running>>

\* close(), when the record of the dialog lost its actor: popModal() throws
\* between the assignment of the state and the start of the tween.
CloseThrows(d) ==
  /\ state[d] \notin {"CLOSED", "CLOSING"}
  /\ IncorrectPop(d)
  /\ state' = [state EXCEPT ![d] = "CLOSING"]
  /\ savedFocus' = [savedFocus EXCEPT ![d] = FocusToSave(d)]
  /\ UNCHANGED <<groupTween, groupVisible, running>>

\* Mutant: the state is left alone.
OpenTweenKeepsState(d) ==
  /\ groupTween[d] = "open"
  /\ groupTween' = [groupTween EXCEPT ![d] = "none"]
  /\ UNCHANGED <<modalVars, state, groupVisible, savedFocus, running>>

\* The onComplete of the tween of open().
OpenTweenDone(d) ==
  /\ groupTween[d] = "open"
  /\ groupTween' = [groupTween EXCEPT ![d] = "none"]
  /\ state' = [state EXCEPT ![d] = "OPENED"]
  /\ UNCHANGED <<modalVars, groupVisible, savedFocus, running>>

\* The onComplete of the tween of close().
CloseTweenDone(d) ==
  /\ groupTween[d] = "close"
  /\ groupTween' = [groupTween EXCEPT ![d] = "none"]
  /\ state' = [state EXCEPT ![d] = "CLOSED"]
  /\ groupVisible' = [groupVisible EXCEPT ![d] = FALSE]
  /\ UNCHANGED <<modalVars, savedFocus, running>>

-----------------------------------------------------------------------------
(***************************************************************************)
(* The run dialog drops the grab, runs the command that was entered and,   *)
(* when that failed, takes the grab again to show the error; the handler   *)
(* of the key press runs to its end before anything else happens.          *)
(***************************************************************************)
StartCommand(d) ==
  /\ d \in held
  /\ state[d] \in {"OPENED", "OPENING"}
  /\ keyFocus \in Inside[d]
  /\ PopModal(d)
  /\ savedFocus' = [savedFocus EXCEPT ![d] = FocusToSave(d)]
  /\ running' = d
  /\ UNCHANGED <<state, groupTween, groupVisible>>

\* The same handler when popModal() throws: it ends there.
StartCommandThrows(d) ==
  /\ d \in held
  /\ state[d] \in {"OPENED", "OPENING"}
  /\ keyFocus \in Inside[d]
  /\ IncorrectPop(d)
  /\ savedFocus' = [savedFocus EXCEPT ![d] = FocusToSave(d)]
  /\ UNCHANGED <<state, groupTween, groupVisible, running>>

\* The command failed to start and the grab is taken again.
RetakeModal(d) ==
  /\ TakeModal(d)
  /\ running' = None
  /\ UNCHANGED <<state, groupTween, groupVisible>>

\* The command was started, or it opened the looking glass, or it failed and
\* the grab cannot be taken again (only the first actor of the stack asks for
\* it): the dialog is closed.
EndCommand(d) ==
  /\ \/ UNCHANGED modalVars
     \/ \E a \in Modals \ Dialogs : PushModal(a)
  /\ state' = [state EXCEPT ![d] = "CLOSING"]
  /\ savedFocus' = [savedFocus EXCEPT ![d] = None]
  /\ groupTween' = [groupTween EXCEPT ![d] = "close"]
  /\ running' = None
  /\ UNCHANGED groupVisible

-----------------------------------------------------------------------------
\* The other users of the stack, and the user.
OtherModals ==
  \/ \E a \in Modals \ Dialogs :
       PushModal(a) \/ PushModalFails(a) \/ PopModal(a) \/ IncorrectPop(a)
  \/ \E a \in Actors : DestroyActor(a) \/ MoveFocus(a)
  \/ FocusStage
  \/ FocusWindowChanged

DialogNext ==
  \/ /\ running = None
     /\ \/ \E d \in Dialogs :
             \/ OpenDialog(d) \/ CloseDialog(d) \/ CloseThrows(d)
             \/ OpenTweenDone(d) \/ CloseTweenDone(d)
        \/ \E d \in Runners : StartCommand(d) \/ StartCommandThrows(d)
        \/ OtherModals /\ UNCHANGED dialogVars
  \/ \E d \in Runners : running = d /\ (RetakeModal(d) \/ EndCommand(d))

\* The handler of a key press runs to its end; a tween that is not replaced
\* ends, whatever the number of key presses handled between two frames.
DialogFairness ==
  \A d \in Dialogs :
    /\ SF_<<modalVars, dialogVars>>(running = None /\ OpenTweenDone(d))
    /\ SF_<<modalVars, dialogVars>>(running = None /\ CloseTweenDone(d))
    /\ WF_<<modalVars, dialogVars>>(running = d /\ EndCommand(d))

DialogSpec ==
  DialogInit /\ [][DialogNext]_<<modalVars, dialogVars>> /\ DialogFairness

-----------------------------------------------------------------------------
DialogTypeOK ==
  /\ state \in [Dialogs -> DialogState]
  /\ groupTween \in [Dialogs -> Tween]
  /\ groupVisible \in [Dialogs -> BOOLEAN]
  /\ savedFocus \in [Dialogs -> Actors \cup {None}]
  /\ running \in Dialogs \cup {None}

\* As long as no actor that had the key focus is destroyed popModal() does not
\* throw in the middle of a handler.
Undisturbed == alive = Actors

\* A dialog that looks open takes the input: between two handlers an open
\* run dialog is never left insensitive or without its record on the stack, not
\* even when its command failed and the grab could not be taken again.  (A
\* dialog that fades drops its grab and is OPENED until the fade ends.)
OpenDialogHoldsModal ==
  Undisturbed /\ running = None =>
    \A d \in Runners :
      state[d] \in {"OPENED", "OPENING"} => d \in held \cap ToSet(modalActors)

\* A dialog that was closed holds nothing: it has no record on the stack, and
\* so nothing it has to release.
ClosedDialogDropsModal ==
  \A d \in Dialogs : state[d] \in {"CLOSED", "CLOSING"} => d \notin ToSet(modalActors)

\* A hidden dialog never holds the grab: closing and opening again before the
\* end of the tween does not let the first tween hide the dialog, and no
\* popModal() that throws leaves a dialog that is hidden and modal.
GrabIsVisible ==
  \A d \in Dialogs : d \in held => groupVisible[d]

\* What looks open is modal, what is closed is not, and nothing hidden is.
ModalIsWhatIsOpen == OpenDialogHoldsModal /\ ClosedDialogDropsModal /\ GrabIsVisible

\* A dialog does not stay half open or half closed, however often it is opened
\* again, closed again or made to run commands before its tween ends.
HalfwayEnds ==
  \A d \in Dialogs : \A s \in {"OPENING", "CLOSING"} :
    Undisturbed /\ state[d] = s ~> ~Undisturbed \/ state[d] # s
=============================================================================
