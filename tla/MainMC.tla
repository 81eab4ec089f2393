-------------------------------- MODULE MainMC --------------------------------
(***************************************************************************)
(* The two components of js/ui/main.js that keep state of their own, which *)
(* do not interact, checked side by side: in every behaviour one of them,  *)
(* chosen in the initial state, runs and the other rests.                  *)
(***************************************************************************)
EXTENDS ModalStack, DynamicWorkspaces

VARIABLE part

mainVars == <<part, modalVars, workspaceVars>>

MainInit ==
  /\ part \in {"modal", "workspaces"}
  /\ ModalInit /\ WorkspacesInit

ModalPart == part = "modal" /\ ModalNext /\ UNCHANGED <<part, workspaceVars>>

WorkspacesPart == part = "workspaces" /\ WorkspacesNext /\ UNCHANGED <<part, modalVars>>

MainNext == ModalPart \/ WorkspacesPart

MainSpec == MainInit /\ [][MainNext]_mainVars
=============================================================================
