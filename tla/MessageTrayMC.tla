--------------------------- MODULE MessageTrayMC ----------------------------
(***************************************************************************)
(* The message tray as it is checked: the levels of _updateState(), which  *)
(* calls itself through what it hides and who is told of it, one source    *)
(* with one or two notifications, and the kinds of events that are looked  *)
(* at together.                                                            *)
(***************************************************************************)
EXTENDS MessageTray, TLC

\* Each level is the _updateState() of TrayHandlers with the level below for the
\* calls that it leads to. Nothing goes deeper than four: see MessageTrayProofs.
Deeper(t) == [t EXCEPT !.deep = TRUE]
Innermost == INSTANCE TrayProofs WITH Nested <- Deeper
Update1(t) == Innermost!UpdateState(t)
Inner == INSTANCE TrayProofs WITH Nested <- Update1
Update2(t) == Inner!UpdateState(t)
Outer == INSTANCE TrayProofs WITH Nested <- Update2
Update3(t) == Outer!UpdateState(t)
Outermost == INSTANCE TrayProofs WITH Nested <- Update3
Update4(t) == LET updated == Outermost!UpdateState(t) IN updated

-----------------------------------------------------------------------------
CONSTANTS n1, n2, s1

MCOneNote == n1 :> s1
MCSameSource == n1 :> s1 @@ n2 :> s1

\* A pointer that wanders while what is shown is updated; applications that
\* close and change what they said while the user is busy or summons the tray;
\* a user that goes away and comes back.
MCNotices ==
  {{n1, n2, "again", "tray", "summary", "corner", "keyboard", "content"},
   {n1, n2, "again", "busy", "overview", "close", "summon", "urgency"},
   {n1, n2, "again", "busy", "close", "idle"}}

\* The stack of a source, opened and closed; the stack and the menu of a source,
\* one in the place of the other; a source that goes on notifying meanwhile.
MCBoxes ==
  {{n1, n2, "summary", "click", "left", "focus", "overview"},
   {n1, "summary", "click", "left", "right", "busy"},
   {n1, "again", "summary", "click", "left", "close"},
   {n1, "again", "summary", "click", "right", "busy", "close"}}

MCCalm == {{n1, "busy", "close"}, {n1, "tray", "summary"}}
MCClicks == {{n1, n2, "summary", "click", "left"}}
=============================================================================
