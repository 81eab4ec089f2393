------------------------------ MODULE PolkitAgent -----------------------------
(***************************************************************************)
(* The authentication agent: the native part keeps the requests of polkitd *)
(* in a queue and initiates one at a time                                  *)
(* (src/shell-polkit-authentication-agent.c); the JavaScript part shows a  *)
(* dialog for it and runs a session with the helper that checks the        *)
(* password (js/ui/polkitAuthenticationAgent.js).                          *)
(*                                                                         *)
(* A dialog has the name of the request it was made for.  Whatever a       *)
(* dialog does ends in _completeRequest(), which is about the current      *)
(* dialog and not about the one that calls it.                             *)
(***************************************************************************)
EXTENDS Naturals, SequencesExt

CONSTANTS
  Requests,     \* calls of BeginAuthentication
  NoRequest

ASSUME RequestsAssumption == NoRequest \notin Requests

VARIABLES
  scheduled,    \* agent->scheduled_requests
  current,      \* agent->current_request
  cancelIdles,  \* requests with a source for handle_cancelled_in_idle()
  cancelled,    \* requests whose GCancellable was cancelled
  answers,      \* what was answered to each request
  dialog,       \* _currentDialog
  made,         \* dialogs that have been made, the current one and older ones
  doneEmitted,  \* dialogs that have emitted done
  isCompleting,
  lingering,    \* the 2 s for which a failure stays on screen are running
  crashed

polkitVars == <<scheduled, current, cancelIdles, cancelled, answers, dialog, made,
                doneEmitted, isCompleting, lingering, crashed>>

PolkitInit ==
  /\ scheduled = <<>> /\ current = NoRequest
  /\ cancelIdles = {} /\ cancelled = {}
  /\ answers = [r \in Requests |-> "none"]
  /\ dialog = NoRequest
  /\ made = {} /\ doneEmitted = {}
  /\ isCompleting = FALSE /\ lingering = FALSE
  /\ crashed = FALSE

\* The requests polkitd waits for
Known == ToSet(scheduled) \cup ({current} \ {NoRequest})

-----------------------------------------------------------------------------
\* Mutant: the request that came last is taken first.
ProcessLast(q) ==
  IF q = <<>>
  THEN /\ current' = NoRequest /\ dialog' = NoRequest /\ scheduled' = q
       /\ UNCHANGED made
  ELSE /\ current' = Last(q) /\ dialog' = Last(q) /\ scheduled' = Front(q)
       /\ made' = made \cup {Last(q)}

\* maybe_process_next_request() when the queue is q and no request is current:
\* the first is initiated, and _onInitiate() makes its dialog.
ProcessNext(q) ==
  IF q = <<>>
  THEN /\ current' = NoRequest /\ dialog' = NoRequest /\ scheduled' = q
       /\ UNCHANGED made
  ELSE /\ current' = Head(q) /\ dialog' = Head(q) /\ scheduled' = Tail(q)
       /\ made' = made \cup {Head(q)}

\* Mutant: the dialog is forgotten after the request was completed, when it may
\* be the dialog of the next one.
ReallyCompleteForgetsNext(emitted, dismissed) ==
  /\ doneEmitted' = emitted \cup {dialog}
  /\ isCompleting' = FALSE /\ lingering' = FALSE
  /\ answers' = [answers EXCEPT ![current] = IF dismissed THEN "dismissed" ELSE "complete"]
  /\ current' = IF scheduled = <<>> THEN NoRequest ELSE Head(scheduled)
  /\ scheduled' = IF scheduled = <<>> THEN <<>> ELSE Tail(scheduled)
  /\ dialog' = NoRequest
  /\ made' = made \cup ({current'} \ {NoRequest})

\* Mutant: the session is not destroyed with its dialog.
ReallyCompleteKeepsSession(emitted, dismissed) ==
  /\ doneEmitted' = emitted
  /\ isCompleting' = FALSE /\ lingering' = FALSE
  /\ answers' = [answers EXCEPT ![current] = IF dismissed THEN "dismissed" ELSE "complete"]
  /\ ProcessNext(scheduled)

\* _reallyCompleteRequest(), when the dialogs emitted have emitted done: the
\* current one is closed and its session destroyed, which makes the session
\* emit completed, and the dialog done, if they have not; _isCompleting still
\* keeps that from completing the request twice.  Then the native part answers
\* the current request and goes on with the next.
ReallyCompleteRequest(emitted, dismissed) ==
  /\ doneEmitted' = emitted \cup {dialog}
  /\ isCompleting' = FALSE /\ lingering' = FALSE
  /\ answers' = [answers EXCEPT ![current] = IF dismissed THEN "dismissed" ELSE "complete"]
  /\ ProcessNext(scheduled)

\* _completeRequest()
CompleteRequest(emitted, keepVisible, dismissed) ==
  IF isCompleting \/ keepVisible
  THEN /\ isCompleting' = TRUE
       /\ lingering' = (lingering \/ ~isCompleting)
       /\ doneEmitted' = emitted
       /\ UNCHANGED <<scheduled, current, answers, dialog, made>>
  ELSE ReallyCompleteRequest(emitted, dismissed)

\* _emitDone() of dialog d: the first time only.
EmitDone(d, keepVisible, dismissed) ==
  IF d \in doneEmitted
  THEN UNCHANGED <<scheduled, current, answers, dialog, made, doneEmitted, isCompleting, lingering>>
  ELSE CompleteRequest(doneEmitted \cup {d}, keepVisible, dismissed)

-----------------------------------------------------------------------------
\* initiate_authentication(): polkitd calls BeginAuthentication.
InitiateAuthentication(r) ==
  /\ r \notin Known /\ answers[r] = "none"
  /\ IF current = NoRequest
     THEN ProcessNext(Append(scheduled, r))
     ELSE scheduled' = Append(scheduled, r) /\ UNCHANGED <<current, dialog, made>>
  /\ UNCHANGED <<cancelIdles, cancelled, answers, doneEmitted, isCompleting, lingering, crashed>>

\* on_request_cancelled(): polkitd calls CancelAuthentication.
RequestCancelled(r) ==
  /\ r \in Known \ cancelled
  /\ cancelled' = cancelled \cup {r}
  /\ cancelIdles' = cancelIdles \cup {r}
  /\ UNCHANGED <<scheduled, current, answers, dialog, made, doneEmitted, isCompleting,
                 lingering, crashed>>

\* Mutant: a request that is not the current one is dropped without an answer.
HandleCancelledSilently(r) ==
  /\ r \in cancelIdles /\ r \in Known
  /\ cancelIdles' = cancelIdles \ {r}
  /\ IF r = current
     THEN CompleteRequest(doneEmitted, FALSE, FALSE)
     ELSE /\ \E k \in 1..Len(scheduled) :
               scheduled[k] = r /\ scheduled' = RemoveAt(scheduled, k)
          /\ UNCHANGED <<current, dialog, made, doneEmitted, isCompleting, lingering, answers>>
  /\ UNCHANGED <<cancelled, crashed>>

\* handle_cancelled_in_idle() of a request that is still there: the current one
\* is left to the JavaScript part, which ignores it while it is completing; a
\* scheduled one is answered.
HandleCancelled(r) ==
  /\ r \in cancelIdles /\ r \in Known
  /\ cancelIdles' = cancelIdles \ {r}
  /\ IF r = current
     THEN CompleteRequest(doneEmitted, FALSE, FALSE)
     ELSE /\ \E k \in 1..Len(scheduled) :
               scheduled[k] = r /\ scheduled' = RemoveAt(scheduled, k)
          /\ answers' = [answers EXCEPT ![r] = "complete"]
          /\ UNCHANGED <<current, dialog, made, doneEmitted, isCompleting, lingering>>
  /\ UNCHANGED <<cancelled, crashed>>

\* handle_cancelled_in_idle() of a request that was freed before the source
\* ran, which auth_request_free() does not remove.  What it reads is undefined:
\* the shell crashes, goes on, or takes it for the current request, whose
\* memory may be the same.
HandleCancelledStale(r) ==
  /\ r \in cancelIdles \ Known
  /\ cancelIdles' = cancelIdles \ {r}
  /\ \/ crashed' = TRUE
        /\ UNCHANGED <<scheduled, current, answers, dialog, made, doneEmitted, isCompleting, lingering>>
     \/ /\ UNCHANGED <<scheduled, current, answers, dialog, made, doneEmitted, isCompleting, lingering>>
        /\ UNCHANGED crashed
     \/ /\ current # NoRequest
        /\ CompleteRequest(doneEmitted, FALSE, FALSE)
        /\ UNCHANGED crashed
  /\ UNCHANGED cancelled

-----------------------------------------------------------------------------
\* cancel() of a dialog, with Escape or its button; one that is being closed is
\* still on screen while it fades.
DialogCancel(d) ==
  /\ d \in made
  /\ EmitDone(d, FALSE, TRUE)
  /\ UNCHANGED <<cancelIdles, cancelled, crashed>>

\* _ensureOpen(), when the session asks for a password and the dialog cannot
\* be made modal
EnsureOpenFails(d) ==
  /\ d \in made \ doneEmitted
  /\ EmitDone(d, FALSE, TRUE)
  /\ UNCHANGED <<cancelIdles, cancelled, crashed>>

\* _onSessionCompleted(), when the session has not been destroyed: a failure
\* stays on screen for a while.
SessionCompleted(d, gainedAuthorization) ==
  /\ d \in made \ doneEmitted
  /\ EmitDone(d, ~gainedAuthorization, FALSE)
  /\ UNCHANGED <<cancelIdles, cancelled, crashed>>

\* The timeout of _completeRequest()
LingerOver ==
  /\ lingering
  /\ ReallyCompleteRequest(doneEmitted, FALSE)
  /\ UNCHANGED <<cancelIdles, cancelled, crashed>>

PolkitNext ==
  /\ ~crashed
  /\ \/ LingerOver
     \/ \E r \in Requests :
          \/ InitiateAuthentication(r) \/ RequestCancelled(r)
          \/ HandleCancelled(r) \/ HandleCancelledStale(r)
          \/ DialogCancel(r) \/ EnsureOpenFails(r)
          \/ \E gained \in BOOLEAN : SessionCompleted(r, gained)

PolkitSpec == PolkitInit /\ [][PolkitNext]_polkitVars

-----------------------------------------------------------------------------
PolkitTypeOK ==
  /\ scheduled \in Seq(Requests)
  /\ current \in Requests \cup {NoRequest} /\ dialog \in Requests \cup {NoRequest}
  /\ cancelIdles \subseteq cancelled /\ cancelled \subseteq Requests
  /\ answers \in [Requests -> {"none", "complete", "dismissed"}]
  /\ made \subseteq Requests /\ doneEmitted \subseteq made
  /\ {isCompleting, lingering, crashed} \subseteq BOOLEAN

\* The dialog on screen is that of the request polkitd waits for, there is one
\* whenever a request waits, every older dialog is done with, and a request is
\* answered when it leaves the agent and not before.
OneDialogPerRequest ==
  /\ dialog = current
  /\ current = NoRequest => scheduled = <<>>
  /\ made \ {dialog} \subseteq doneEmitted
  /\ isCompleting = lingering
  /\ \A r \in made \cup cancelled : r \in Known <=> answers[r] = "none"

\* What is done in a dialog, or by the session behind it, answers the request
\* it was made for and no other, although _completeRequest() is about the
\* current dialog, whichever emits done.
OnlyItsOwnRequest ==
  [][\A d \in Requests :
       DialogCancel(d) \/ EnsureOpenFails(d) \/ (\E g \in BOOLEAN : SessionCompleted(d, g))
         => \A r \in Requests \ {d} : answers'[r] = answers[r]]_polkitVars

\* The agent keeps the promise of RequestQueue: the native queue and the dialog
\* on screen are one queue, whose first request is the current one, and nothing
\* that comes from a dialog, a session, a cancellation or a timeout answers out
\* of turn or twice.
Pending == IF current = NoRequest THEN <<>> ELSE <<current>> \o scheduled

Promise == INSTANCE RequestQueue WITH queue <- Pending, answers <- answers

ServesInOrder == Promise!QueueSpec

\* A cancelled request is answered, also when it is cancelled while its dialog
\* shows a failure, unless the shell crashes.
CancelledIsAnswered ==
  \A r \in Requests : r \in cancelled ~> answers[r] # "none" \/ crashed
=============================================================================
