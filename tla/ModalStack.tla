------------------------------ MODULE ModalStack ------------------------------
(***************************************************************************)
(* The modal stack of the shell: pushModal(), popModal() and the 'destroy' *)
(* handlers they connect (js/ui/main.js), over the grab and the stage      *)
(* input mode kept by ShellGlobal (src/shell-global.c).                    *)
(*                                                                         *)
(* modalActorFocusStack is kept as two sequences of the same length, the   *)
(* actors and the focus records: removing a record from the middle shifts  *)
(* the focus records up, so that it always is the last one that goes.      *)
(***************************************************************************)
EXTENDS Integers, FiniteSets, SequencesExt

CONSTANTS
  Actors,       \* actors that can be pushed, or hold the key focus
  Modals,       \* the actors some component pushes
  Unchecked,    \* those pushed by a caller that ignores pushModal()'s result
  Destroyable,  \* the actors that may be destroyed
  None          \* null

ASSUME ModalAssumption ==
  /\ Modals \subseteq Actors
  /\ Unchecked \subseteq Modals
  /\ Destroyable \subseteq Actors
  /\ None \notin Actors

InputModes == {"NONREACTIVE", "NORMAL", "FOCUSED", "FULLSCREEN"}

VARIABLES
  modalCount,    \* as in main.js
  modalActors,   \* the .actor fields of modalActorFocusStack
  modalFocus,    \* its .focus fields, with the actor named in the closure of
                 \* the 'destroy' handler connected to that focus
  lostHandlers,  \* handlers of that kind whose record was spliced away
  held,          \* actors whose owner believes it has the modal grab
  grabbed,       \* mutter's compositor grab (begin_modal .. end_modal)
  inputMode,     \* ShellGlobal.input_mode
  keyFocus,      \* the key focus of the stage
  alive,         \* actors not destroyed yet
  sessionFocus   \* history: the key focus before the first push

modalVars == <<modalCount, modalActors, modalFocus, lostHandlers, held, grabbed,
               inputMode, keyFocus, alive, sessionFocus>>

Focus == Actors \cup {None}
FocusRecord == [focus : Focus, by : Actors]

ModalInit ==
  /\ modalCount = 0
  /\ modalActors = << >>
  /\ modalFocus = << >>
  /\ lostHandlers = {}
  /\ held = {}
  /\ grabbed = FALSE
  /\ inputMode = "NORMAL"
  /\ keyFocus = None
  /\ alive = Actors
  /\ sessionFocus = None

-----------------------------------------------------------------------------
\* _findModal(a) = k - 1: the first record, when an actor was pushed twice.
FoundAt(a, k) ==
  /\ k \in 1..Len(modalActors) /\ modalActors[k] = a
  /\ \A j \in 1..k - 1 : modalActors[j] # a

\* Mutant of pushModal(): the key focus is read after set_key_focus().
PushModalReadsFocusLate(a, f) ==
  /\ a \in alive \cap Modals
  /\ grabbed' = (grabbed \/ modalCount = 0)
  /\ inputMode' = "FULLSCREEN"
  /\ modalCount' = modalCount + 1
  /\ modalActors' = Append(modalActors, a)
  /\ modalFocus' = Append(modalFocus, [focus |-> f, by |-> a])
  /\ keyFocus' = f
  /\ held' = held \cup {a}
  /\ sessionFocus' = IF modalCount = 0 THEN keyFocus ELSE sessionFocus
  /\ UNCHANGED <<lostHandlers, alive>>

\* pushModal(a), and then the caller grabs the key focus for f: begin_modal is
\* called for the first actor only, and it may fail; the owner of a then knows
\* that it holds the grab.  Nothing keeps an actor from being pushed twice.
PushModalTo(a, f) ==
  /\ a \in alive \cap Modals
  /\ grabbed' = (grabbed \/ modalCount = 0)
  /\ inputMode' = "FULLSCREEN"
  /\ modalCount' = modalCount + 1
  /\ modalActors' = Append(modalActors, a)
  /\ modalFocus' = Append(modalFocus, [focus |-> keyFocus, by |-> a])
  /\ keyFocus' = f
  /\ held' = held \cup {a}
  /\ sessionFocus' = IF modalCount = 0 THEN keyFocus ELSE sessionFocus
  /\ UNCHANGED <<lostHandlers, alive>>

\* A component that looks at its own flag first.
PushModal(a) == a \notin held /\ PushModalTo(a, a)

\* pushModal(a) when begin_modal fails (another grab is active): nothing
\* changes, but a caller that drops the result goes on as if it had the grab.
PushModalFails(a) ==
  /\ a \in (alive \cap Unchecked) \ held
  /\ modalCount = 0
  /\ held' = held \cup {a}
  /\ UNCHANGED <<modalCount, modalActors, modalFocus, lostHandlers, grabbed,
                 inputMode, keyFocus, alive, sessionFocus>>

\* Mutant of popModal(): the count is not decremented on the way out of a
\* middle record.
PopModalForgetsCount(a) ==
  /\ a \in held
  /\ \E k \in 1..Len(modalActors) :
       /\ FoundAt(a, k)
       /\ modalActors' = RemoveAt(modalActors, k)
       /\ keyFocus' = IF k = Len(modalActors) THEN modalFocus[k].focus ELSE keyFocus
       /\ modalCount' = IF k = Len(modalActors) THEN modalCount - 1 ELSE modalCount
  /\ modalFocus' = Front(modalFocus)
  /\ held' = held \ {a}
  /\ IF modalCount > 1
     THEN UNCHANGED <<grabbed, inputMode, sessionFocus>>
     ELSE grabbed' = FALSE /\ inputMode' = "NORMAL" /\ sessionFocus' = None
  /\ UNCHANGED <<lostHandlers, alive>>

\* What popModal(a) does before it sets the input mode: the key focus moves only
\* when a is the topmost actor.
PopRecord(a) ==
  /\ a \in held
  /\ \E k \in 1..Len(modalActors) :
       /\ FoundAt(a, k)
       /\ modalActors' = RemoveAt(modalActors, k)
       /\ keyFocus' = IF k = Len(modalActors) THEN modalFocus[k].focus ELSE keyFocus
  /\ modalFocus' = Front(modalFocus)
  /\ modalCount' = modalCount - 1
  /\ held' = held \ {a}
  /\ IF modalCount > 1
     THEN UNCHANGED <<grabbed, sessionFocus>>
     ELSE grabbed' = FALSE /\ sessionFocus' = None
  /\ UNCHANGED <<lostHandlers, alive>>

\* popModal(a)
PopModal(a) ==
  /\ PopRecord(a)
  /\ inputMode' = IF modalCount > 1 THEN inputMode ELSE "NORMAL"

\* popModal(a) with no record for a: the grab is dropped, then it throws, so
\* that the caller never clears its own flag.
IncorrectPop(a) ==
  /\ a \in held
  /\ \A k \in 1..Len(modalActors) : ~FoundAt(a, k)
  /\ keyFocus' = None
  /\ grabbed' = FALSE
  /\ inputMode' = "NORMAL"
  /\ UNCHANGED <<modalCount, modalActors, modalFocus, lostHandlers, held, alive,
                 sessionFocus>>

\* The actors whose record loses its .actor when the actor d is destroyed: the
\* handler on a destroyed focus clears .actor, not .focus.
ClearedBy(d) == {r.by : r \in {h \in ToSet(modalFocus) \cup lostHandlers : h.focus = d}}

\* An actor is destroyed: the stage forgets a destroyed key focus, the record
\* of a pushed actor is spliced away, and then the focus handlers run.
DestroyActor(d) ==
  /\ d \in alive \cap Destroyable
  /\ alive' = alive \ {d}
  /\ keyFocus' = IF keyFocus = d THEN None ELSE keyFocus
  /\ LET clear(s) == [i \in 1..Len(s) |-> IF s[i] \in ClearedBy(d) THEN None ELSE s[i]]
     IN \/ /\ \A k \in 1..Len(modalActors) : ~FoundAt(d, k)
           /\ modalActors' = clear(modalActors)
           /\ UNCHANGED <<modalFocus, lostHandlers>>
        \/ \E k \in 1..Len(modalActors) :
             /\ FoundAt(d, k)
             /\ modalActors' = clear(RemoveAt(modalActors, k))
             /\ modalFocus' = RemoveAt(modalFocus, k)
             /\ lostHandlers' = lostHandlers \cup {modalFocus[k]}
  /\ UNCHANGED <<modalCount, held, grabbed, inputMode, sessionFocus>>

\* The user, or the code of a dialog, moves the key focus within the stage.
MoveFocus(f) ==
  /\ f \in alive \ {keyFocus}
  /\ keyFocus' = f
  /\ UNCHANGED <<modalCount, modalActors, modalFocus, lostHandlers, held, grabbed,
                 inputMode, alive, sessionFocus>>

\* The message tray and the ctrl-alt-tab popup focus the stage, in the two
\* modes in which it is not focused already.
FocusStage ==
  /\ inputMode \in {"NONREACTIVE", "NORMAL"}
  /\ inputMode' = "FOCUSED"
  /\ UNCHANGED <<modalCount, modalActors, modalFocus, lostHandlers, held, grabbed,
                 keyFocus, alive, sessionFocus>>

\* focus_window_changed(): the stage lost the X focus to a window.
FocusWindowChanged ==
  /\ inputMode = "FOCUSED"
  /\ inputMode' = "NORMAL"
  /\ UNCHANGED <<modalCount, modalActors, modalFocus, lostHandlers, held, grabbed,
                 keyFocus, alive, sessionFocus>>

ModalNext ==
  \/ \E a \in Modals :
       PushModal(a) \/ PushModalFails(a) \/ PopModal(a) \/ IncorrectPop(a)
  \/ \E a \in Actors : DestroyActor(a) \/ MoveFocus(a)
  \/ FocusStage
  \/ FocusWindowChanged

ModalSpec == ModalInit /\ [][ModalNext]_modalVars

-----------------------------------------------------------------------------
ModalTypeOK ==
  /\ modalCount \in Nat
  /\ modalActors \in Seq(Modals \cup {None})
  /\ modalFocus \in Seq(FocusRecord)
  /\ lostHandlers \subseteq FocusRecord
  /\ held \subseteq Modals
  /\ grabbed \in BOOLEAN
  /\ inputMode \in InputModes
  /\ keyFocus \in Focus
  /\ alive \subseteq Actors
  /\ sessionFocus \in Focus

(***************************************************************************)
(* What holds whatever the callers do.                                     *)
(***************************************************************************)

\* The counter bounds the records: destroying an actor or a focus loses a
\* record, or its actor, and never the count, so that the last popModal()
\* cannot release the grab of an actor still on the stack.
CountCoversStack ==
  /\ Len(modalActors) <= modalCount
  /\ Len(modalFocus) = Len(modalActors)

\* All input is grabbed only while some component believes that it is modal,
\* however many actors were destroyed and however many pops threw: the
\* keyboard is never left grabbed with nobody to release it.
GrabHasOwner ==
  grabbed => modalCount > 0 /\ held # {}

\* While there is a grab all input goes to the stage: neither the components
\* that focus the stage nor a window taking the focus can change the mode.
GrabIsFullscreen ==
  grabbed => inputMode = "FULLSCREEN"

(***************************************************************************)
(* What the callers get as long as no pushed or focused actor is destroyed *)
(* and each of them looks at what pushModal() returns.                     *)
(***************************************************************************)

\* Nothing was destroyed, and nobody believes to have a grab it was not given.
\* Neither is ever made good.
Orderly == alive = Actors /\ held \subseteq ToSet(modalActors)

Matched ==
  /\ modalCount = Len(modalActors)
  /\ held = ToSet(modalActors)
  /\ \A i, j \in 1..Len(modalActors) : modalActors[i] = modalActors[j] => i = j
  /\ grabbed <=> held # {}

\* The stack, the count, the compositor grab and what the owners believe agree,
\* whatever the order in which the actors are popped.
StackMatchesOwners == Orderly => Matched

\* The chain of focus records always starts with the focus of the session.
ChainStartsWithSession ==
  Len(modalFocus) > 0 => modalFocus[1].focus = sessionFocus

\* The pop that releases the grab gives the key focus back to the actor that
\* had it before the first push, even when actors were popped from the middle.
SessionFocusRestored ==
  [][Orderly /\ grabbed /\ ~grabbed' => keyFocus' = sessionFocus]_modalVars

\* pushModal() and popModal() keep their books: the count covers the records, a grab has
\* an owner and the fullscreen mode, and the records are those of the owners as long as
\* the callers are orderly.
StackIsSound ==
  /\ ModalTypeOK /\ CountCoversStack
  /\ GrabHasOwner /\ GrabIsFullscreen
  /\ StackMatchesOwners

(***************************************************************************)
(* What the comments of main.js say and the code does not do.              *)
(***************************************************************************)

\* pushModal() "Returns: true iff we successfully acquired a grab or already
\* had one".
PushAcquiresGrab ==
  [][\A a \in Modals : PushModal(a) => grabbed']_modalVars
=============================================================================
