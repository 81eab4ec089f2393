------------------------------ MODULE ServicesMC ------------------------------
(***************************************************************************)
(* The run dialog with its entry and the end session dialog over one modal *)
(* stack, with a menu whose manager does not look at what pushModal()      *)
(* returns and an actor of the panel that may be destroyed; and, side by   *)
(* side with them, the agent of PolicyKit and the deferred work: in every  *)
(* behaviour one of these, chosen in the initial state, runs and the       *)
(* others rest.                                                            *)
(***************************************************************************)
EXTENDS EndSessionDialog, PolkitAgent, DeferredWork, TLC

CONSTANTS run, entry, menu, panel

VARIABLE part

MCInside == run :> {run, entry} @@ endDialog :> {endDialog}
MCInitial == run :> entry @@ endDialog :> endDialog

servicesVars == <<part, allVars, polkitVars, workVars>>

\* Each dialog among the other users of the stack, and both without them; actors are
\* destroyed, and the focus goes to the entry and the panel, under the run dialog only;
\* both run with one inhibitor and one Open call at a time.
ServicesInit ==
  /\ part \in {"run", "end", "both", "polkit", "work"}
  /\ EndInit /\ PolkitInit /\ WorkInit

RunDialogNext ==
  \E d \in Runners :
    \/ running = None /\ (\/ OpenDialog(d) \/ CloseDialog(d) \/ CloseThrows(d)
                          \/ OpenTweenDone(d) \/ CloseTweenDone(d)
                          \/ StartCommand(d) \/ StartCommandThrows(d))
    \/ running = d /\ (RetakeModal(d) \/ EndCommand(d))

DialogPart(parts, A) == part \in parts /\ A /\ UNCHANGED <<part, polkitVars, workVars>>

RunPart(A) == DialogPart({"run", "both"}, A /\ UNCHANGED endVars)

EndPart(A) ==
  /\ DialogPart({"end", "both"}, running = None /\ A)
  /\ part = "both" => waiting' <= 1 /\ \E i \in Inhibitors : inhibitors' \subseteq {i}

OthersPart ==
  /\ DialogPart({"run", "end"}, running = None /\ OtherModals /\ UNCHANGED <<dialogVars, endVars>>)
  /\ part = "end" => alive' = alive /\ keyFocus' \notin {panel, run, entry}

PolkitPart(A) == part = "polkit" /\ A /\ UNCHANGED <<part, allVars, workVars>>

WorkPart(A) == part = "work" /\ A /\ UNCHANGED <<part, allVars, polkitVars>>

ServicesNext ==
  \/ RunPart(RunDialogNext) \/ EndPart(EndDialogNext) \/ OthersPart
  \/ PolkitPart(PolkitNext) \/ WorkPart(WorkNext)

\* The handler of a key press runs to its end; a tween that is not replaced ends,
\* whatever the number of key presses handled between two frames.  The main loop
\* serves its sources: the timeouts, the idle functions and the functions that run
\* before a redraw.
ServicesFairness ==
  /\ SF_servicesVars(EndPart(Opened)) /\ SF_servicesVars(EndPart(Closed)) /\ SF_servicesVars(EndPart(LayoutTweenDone))
  /\ \A d \in Runners :
       /\ SF_servicesVars(RunPart(running = None /\ OpenTweenDone(d)))
       /\ SF_servicesVars(RunPart(running = None /\ CloseTweenDone(d)))
       /\ WF_servicesVars(RunPart(running = d /\ EndCommand(d)))
  /\ WF_servicesVars(PolkitPart(~crashed /\ LingerOver))
  /\ \A r \in Requests : WF_servicesVars(PolkitPart(~crashed /\ HandleCancelled(r)))
  /\ WF_servicesVars(WorkPart(\E t \in Callbacks : RunBeforeRedrawQueue(t)))
  /\ WF_servicesVars(WorkPart(\E t \in Callbacks : RunAllDeferredWork(t)))

ServicesSpec == ServicesInit /\ [][ServicesNext]_servicesVars /\ ServicesFairness
=============================================================================
