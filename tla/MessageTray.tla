----------------------------- MODULE MessageTray -----------------------------
(***************************************************************************)
(* The message tray as the events it reacts to: applications that notify,  *)
(* tweens and timers that end, and a user that moves the pointer, clicks,  *)
(* opens the overview, is busy or goes away. Each of them is one call of   *)
(* handlers of TrayHandlers.                                               *)
(***************************************************************************)
EXTENDS TrayHandlers

CONSTANTS
  InputSets,  \* the notifications and kinds of events that are looked at together
  MaxCalls,   \* bound on the calls of Source.notify()
  MaxLeft     \* bound on the timers that run since the pointer left

ASSUME TrayAssumption == TrayConstants
ASSUME TrayInputAssumption == MaxCalls \in Nat /\ MaxLeft \in Nat \ {0}

VARIABLES
  tray,      \* the record of TrayHandlers
  pointer,   \* "out", or in the "corner", the "tray", its "summary", or the "keyboard"
  desktop,   \* the overview: "normal", "overview", or "hiding"
  pressed,   \* the summary item the mouse button is held on, or None
  calls,     \* the calls of notify() so far
  inputs     \* the notifications and the kinds of events of this behaviour, a bound
             \* on what the user, the applications and the session do in it

vars == <<tray, pointer, desktop, pressed, calls, inputs>>

TrayInit ==
  /\ tray = NewTray
  /\ pointer = "out"
  /\ desktop = "normal"
  /\ pressed = None
  /\ calls = 0
  /\ inputs \in InputSets

\* A handler ends, and with it the exception it may have thrown.
Handle(t) == tray' = [Handled(t) EXCEPT !.shrunk = FALSE]

InTray(zone) == zone \in {"tray", "summary"}

-----------------------------------------------------------------------------
(* Applications.                                                           *)

\* MessageTray.add()
AddSource(s) ==
  /\ s \notin tray.items \cup tray.gone
  /\ Handle([tray EXCEPT !.items = @ \cup {s}, !.later = TRUE,
               !.newItems = IF s \in TransientSources \cup ChatSources
                            THEN @ ELSE @ \cup {s}])
  /\ UNCHANGED <<pointer, desktop, pressed, calls>>

\* The call of _updateState() that add() leaves for the next redraw.
UpdateLater ==
  /\ tray.later
  /\ Handle(Due([tray EXCEPT !.later = FALSE]))
  /\ UNCHANGED <<pointer, desktop, pressed, calls>>

\* pushNotification(), and _notificationAddedToSource(): a new one goes to the
\* stack that is on screen.
Pushed(t, n, critical) ==
  LET s == SourceOf[n]
      stacked == IF t.life[n] = "new" /\ t.bChild = <<s, 1>> /\ t.bState # "HIDDEN"
                   THEN {n} ELSE {}
  IN  [t EXCEPT !.life[n] = "live",
                !.critical = IF critical THEN @ \cup {n} ELSE @ \ {n},
                !.stack = @ \cup stacked, !.expanded = @ \cup stacked]

\* Source.notify(): the tray is told unless the source is muted.
NotifyWith(n, critical) ==
  LET t == Pushed(tray, n, critical)
  IN  /\ n \in inputs
      /\ tray.life[n] = "live" => "again" \in inputs
      /\ calls < MaxCalls
      /\ calls' = calls + 1
      /\ SourceOf[n] \in tray.items /\ tray.life[n] # "dead"
      /\ Handle(IF SourceOf[n] \in tray.muted THEN t ELSE OnNotify(t, n))
      /\ UNCHANGED <<pointer, desktop, pressed>>

Notify(n) == NotifyWith(n, n \in tray.critical)

\* The notification daemon sets the urgency again before it notifies.
NotifyUrgency(n) ==
  /\ "urgency" \in inputs
  /\ NotifyWith(n, n \notin tray.critical)

\* Notification.updated() of one that is expanded: the tray moves what it
\* shows, which may have shrunk.
ContentUpdated(n, shrunk) ==
  /\ "content" \in inputs
  /\ tray.life[n] = "live" /\ n \in tray.expanded
  /\ LET t == [tray EXCEPT !.shrunk = shrunk]
         moved(u) == IF tray.exConn /\ tray.shown = n THEN OnExpanded(u) ELSE u
         told(u) == IF n \in tray.stack THEN OnContentUpdated(u, SourceOf[n]) ELSE u
     IN  Handle(told(moved(t)))
  /\ UNCHANGED <<pointer, desktop, pressed, calls>>

CloseNotification(n) ==
  /\ "close" \in inputs
  /\ tray.life[n] = "live"
  /\ Handle(DestroyNotification(tray, n))
  /\ UNCHANGED <<pointer, desktop, pressed, calls>>

CloseSource(s) ==
  /\ "close" \in inputs
  /\ s \in tray.items
  /\ Handle(DestroySource(tray, s))
  /\ UNCHANGED <<pointer, desktop, pressed, calls>>

-----------------------------------------------------------------------------
(* Tweens and timers.                                                      *)

\* _tweenComplete() for the notification bin.
NotificationTweenDone(w) ==
  /\ w \in tray.nTweens
  /\ LET t == [tray EXCEPT !.nTweens = @ \ {w},
                           !.nState = IF w = "hide" THEN "HIDDEN" ELSE "SHOWN"]
     IN  Handle(Due(
           CASE w = "show" -> [t EXCEPT !.nTimer = @ \/ t.shown \notin t.critical]
             [] w = "hide" -> HideNotificationCompleted(t)
             [] OTHER      -> t))
  /\ UNCHANGED <<pointer, desktop, pressed, calls>>

\* _notificationTimeout(): a pointer that comes nearer only starts it again.
NotificationTimeout ==
  /\ tray.nTimer
  /\ Handle(Due([tray EXCEPT !.nTimer = FALSE]))
  /\ UNCHANGED <<pointer, desktop, pressed, calls>>

\* Mutant: _showSummaryCompleted() of a summary that nobody asked for starts no
\* timer, and nothing else hides it.
SummaryWithoutTimer ==
  /\ \/ /\ tray.sState = "SHOWING"
        /\ Handle([tray EXCEPT !.sState = "SHOWN"])
     \/ /\ tray.sState = "HIDING"
        /\ tray.bTween # "show"
        /\ Handle(Due([tray EXCEPT !.sState = "HIDDEN"]))
  /\ UNCHANGED <<pointer, desktop, pressed, calls>>

\* _tweenComplete() for the summary, with _showSummaryCompleted(). It hides in
\* 0.2 s and the box pointer is shown in 0.15 s: a tween that shows the box
\* pointer, which was there first, is over when the summary is hidden.
SummaryTweenDone ==
  /\ \/ /\ tray.sState = "SHOWING"
        /\ Handle(Due(
             [tray EXCEPT !.sState = "SHOWN", !.sTimerId = @ \/ tray.sTimeout,
                          !.sTimers = IF tray.sTimeout THEN @ + 1 ELSE @]))
     \/ /\ tray.sState = "HIDING"
        /\ tray.bTween # "show"
        /\ Handle(Due([tray EXCEPT !.sState = "HIDDEN"]))
  /\ UNCHANGED <<pointer, desktop, pressed, calls>>

\* _summaryTimeout(), of the last timer or of one that it took the place of.
SummaryTimeout ==
  /\ tray.sTimers > 0
  /\ Handle(Due([tray EXCEPT !.sTimers = @ - 1, !.sTimerId = FALSE]))
  /\ UNCHANGED <<pointer, desktop, pressed, calls>>

TrayTweenDone ==
  /\ tray.trayState \in {"SHOWING", "HIDING"}
  /\ Handle(Due([tray EXCEPT !.trayState =
              IF tray.trayState = "SHOWING" THEN "SHOWN" ELSE "HIDDEN"]))
  /\ UNCHANGED <<pointer, desktop, pressed, calls>>

\* The tween of the box pointer. Nothing is updated when it is SHOWN.
BoxTweenDone ==
  /\ tray.bTween # "none"
  /\ LET t == [tray EXCEPT !.bTween = "none"]
     IN  Handle(IF tray.bTween = "show" THEN [t EXCEPT !.bState = "SHOWN"]
                ELSE HideBoxCompleted(Hide(t, "box")))
  /\ UNCHANGED <<pointer, desktop, pressed, calls>>

TrayLeftTimeout(close) ==
  /\ tray.leftTimers > 0
  /\ Handle(TrayLeft(tray, close))
  /\ UNCHANGED <<pointer, desktop, pressed, calls>>

-----------------------------------------------------------------------------
(* The pointer.                                                            *)

HoverSummary(t, hover) == Due([t EXCEPT !.inSummary = hover])

\* _onTrayHoverChanged(): a notification that popped up under the pointer is
\* not expanded until the pointer comes back.
EnterTray(t, under) ==
  LET u == [t EXCEPT !.hover = TRUE]
      v == [u EXCEPT !.longer = FALSE]
  IN  IF t.trayState = "HIDDEN" \/ (t.longer /\ t.leftWait = "none") THEN u
      ELSE IF t.leftWait # "none"
        THEN [v EXCEPT !.leftWait = "none", !.leftTimers = @ - 1, !.leftX = FALSE]
      ELSE IF t.showMouse /\ under
        THEN [v EXCEPT !.showMouse = FALSE, !.longer = TRUE]
      ELSE Due([v EXCEPT !.showMouse = FALSE, !.inTray = TRUE])

\* _useLongerHideTimeout is never set: the wait is always the short one.
LeaveTray(t) ==
  [t EXCEPT !.hover = FALSE, !.leftX = TRUE, !.leftWait = "hide",
            !.leftTimers = @ + 1]

\* _onKeyboardHoverChanged(): nothing is updated on the way to the tray.
LeaveKeyboard(t, intoTray) ==
  LET u == [t EXCEPT !.inKeyboard = FALSE]
  IN  IF intoTray THEN u ELSE Due(u)

\* The handlers of what the pointer leaves on its way to zone.
PointerLeaves(tr, zone) ==
  LET keyboard(t) == IF pointer = "keyboard"
                       THEN Handled(LeaveKeyboard(t, InTray(zone))) ELSE t
      summary(t) == IF pointer = "summary" THEN Handled(HoverSummary(t, FALSE)) ELSE t
      bin(t) == IF InTray(pointer) /\ ~InTray(zone) THEN LeaveTray(t) ELSE t
  IN  bin(summary(keyboard(tr)))

\* One motion: what the pointer leaves comes before what it enters.
PointerMoves(zone, under) ==
  LET enters(t) == IF zone = "summary" THEN Handled(HoverSummary(t, TRUE)) ELSE t
      comes(t) == IF ~InTray(pointer) /\ InTray(zone) THEN Handled(EnterTray(t, under)) ELSE t
  IN  /\ zone \in inputs \cup {"out"}
      /\ zone # pointer
      /\ zone = "summary" => tray.trayState # "HIDDEN"
      /\ InTray(pointer) /\ ~InTray(zone) => tray.leftTimers < MaxLeft
      /\ pointer' = zone
      /\ Handle(comes(enters(PointerLeaves(tray, zone))))
      /\ pressed' = IF zone = "summary" THEN pressed ELSE None
      /\ UNCHANGED <<desktop, calls>>

\* The hot corner of the tray, _onCornerEnter(), and the on-screen keyboard.
PointerMovesBeside(zone) ==
  LET comes(t) == IF zone = "corner" THEN [t EXCEPT !.inSummary = TRUE]
                  ELSE [t EXCEPT !.inKeyboard = TRUE]
  IN  /\ zone \in inputs \cap {"keyboard", "corner"}
      /\ zone # pointer
      /\ InTray(pointer) => tray.leftTimers < MaxLeft
      /\ pointer' = zone
      /\ Handle(Due(comes(PointerLeaves(tray, zone))))
      /\ pressed' = None
      /\ UNCHANGED <<desktop, calls>>

-----------------------------------------------------------------------------
(* Clicks and keys.                                                        *)

\* A button press while something is focused: button-pressed, then
\* ungrabFocus(). item is the summary item it is on, or None.
ButtonPressed(t, item) ==
  IF t.focus # "none"
    THEN Ungrab(IF t.clicked # item THEN UnsetClicked(t) ELSE t)
    ELSE t

PressOutside ==
  /\ "click" \in inputs
  /\ tray.focus # "none"
  /\ Handle(ButtonPressed(tray, None))
  /\ UNCHANGED <<pointer, desktop, pressed, calls>>

PressItem(s) ==
  /\ "click" \in inputs
  /\ pointer = "summary" /\ s \in tray.items /\ pressed = None
  /\ pressed' = s
  /\ Handle(ButtonPressed(tray, s))
  /\ UNCHANGED <<pointer, desktop, calls>>

\* _onSummaryItemClicked(), when the button is released. stolen is what the
\* handleSummaryClick() of the source returns.
ReleaseItem(b, stolen) ==
  LET s == pressed
      t == CASE stolen -> UnsetClicked(tray)
             [] ~stolen /\ (tray.clicked # s \/ tray.button # b) ->
                  [tray EXCEPT !.clicked = s, !.button = b]
             [] OTHER -> UnsetClicked(tray)
  IN  /\ pressed # None
      /\ <<"left", "middle", "right">>[b] \in inputs
      /\ pressed' = None
      /\ Handle(IF s \in tray.items THEN Due(t) ELSE tray)
      /\ UNCHANGED <<pointer, desktop, calls>>

\* What the item of the box pointer, or an item that was left connected, says
\* when it is done.
DoneDisplaying(t, s) ==
  IF s = t.bItem \/ s \in t.leaked THEN Handled(EscapeTray(t)) ELSE t

\* Mutant: muting does not look at the queue.
MuteKeepsQueue(what) ==
  LET s == tray.bItem IN
  /\ tray.bState = "SHOWN" /\ s # None /\ tray.bChild = <<s, 3>>
  /\ what = "mute" => s \in ChatSources
  /\ Handle(DoneDisplaying(
       IF what = "mute" THEN [tray EXCEPT !.muted = @ \cup {s}] ELSE tray, s))
  /\ UNCHANGED <<pointer, desktop, pressed, calls>>

\* The items of the menu a right click opens: "open" does nothing to the tray.
ActivateMenu(what) ==
  LET s == tray.bItem IN
  /\ tray.bState = "SHOWN" /\ s # None /\ tray.bChild = <<s, 3>>
  /\ what = "mute" => s \in ChatSources
  /\ Handle(DoneDisplaying(
       CASE what = "remove" -> DestroySource(tray, s)
         [] what = "mute" /\ s \in tray.muted -> [tray EXCEPT !.muted = @ \ {s}]
         [] what = "mute" /\ s \notin tray.muted ->
              [tray EXCEPT !.muted = @ \cup {s}, !.queue = NotOf(@, s)]
         [] OTHER -> tray, s))
  /\ UNCHANGED <<pointer, desktop, pressed, calls>>

\* Notification._onClicked(): done-displaying reaches the tray that shows it
\* or the stack it is in; one that is not resident is destroyed.
ClickNotification(n) ==
  LET inBin == tray.shown = n /\ tray.nState # "HIDDEN"
      inStack == n \in tray.stack /\ tray.bState = "SHOWN"
      escaped(t) == IF inBin THEN Handled(EscapeTray(t)) ELSE t
      done(t) == IF n \in t.stack THEN DoneDisplaying(t, SourceOf[n]) ELSE t
      destroyed(t) == IF n \in ResidentNotes THEN t ELSE DestroyNotification(t, n)
  IN  /\ "click" \in inputs
      /\ tray.life[n] = "live" /\ (inBin \/ inStack)
      /\ Handle(destroyed(done(escaped(tray))))
      /\ UNCHANGED <<pointer, desktop, pressed, calls>>

PressEscape ==
  /\ "click" \in inputs
  /\ tray.focus # "none"
  /\ Handle(EscapeTray(tray))
  /\ UNCHANGED <<pointer, desktop, pressed, calls>>

\* The key focus or the input mode of the stage changes: ungrabFocus().
LoseFocus ==
  /\ "focus" \in inputs
  /\ tray.focus # "none"
  /\ Handle(Ungrab(tray))
  /\ UNCHANGED <<pointer, desktop, pressed, calls>>

\* toggle(), the key of the on-screen keyboard.
ToggleTray ==
  /\ "summon" \in inputs
  /\ Handle(Due([tray EXCEPT !.summoned = ~@]))
  /\ UNCHANGED <<pointer, desktop, pressed, calls>>

\* hide(), when the on-screen keyboard comes and goes.
HideTray ==
  LET t1 == [tray EXCEPT !.summoned = FALSE]
      left(t) == IF t.hover THEN LeaveTray(t) ELSE t
      unset(t) == IF pointer = "summary" THEN Handled(HoverSummary(t, FALSE)) ELSE t
  IN  /\ "summon" \in inputs
      /\ tray.hover => tray.leftTimers < MaxLeft
      /\ pointer' = IF InTray(pointer) THEN "out" ELSE pointer
      /\ Handle(Due(unset(left(t1))))
      /\ pressed' = None
      /\ UNCHANGED <<desktop, calls>>

-----------------------------------------------------------------------------
(* The overview, and the session.                                          *)

\* FocusGrabber._toggleFocusGrabMode(), a handler of its own.
ToggleFocus(t) == IF t.focus # "none" THEN Handled(Grab(Ungrab(t), t.focus)) ELSE t

OverviewIs(t, visible) ==
  LET u == [t EXCEPT !.overview = visible]
  IN  IF u.locked THEN Unlock(UnsetClicked(u)) ELSE Due(u)

OverviewShowing ==
  /\ "overview" \in inputs
  /\ desktop # "overview"
  /\ desktop' = "overview"
  /\ Handle(OverviewIs(ToggleFocus(tray), TRUE))
  /\ UNCHANGED <<pointer, pressed, calls>>

OverviewHiding ==
  /\ desktop = "overview"
  /\ desktop' = "hiding"
  /\ Handle(OverviewIs(tray, FALSE))
  /\ UNCHANGED <<pointer, pressed, calls>>

OverviewHidden ==
  /\ desktop = "hiding"
  /\ desktop' = "normal"
  /\ Handle(ToggleFocus(tray))
  /\ UNCHANGED <<pointer, pressed, calls>>

\* _onStatusChanged(); IDLE keeps what was known.
StatusChanged(status) ==
  /\ "busy" \in inputs
  /\ Handle(Due(
       CASE status = "BUSY" -> UnsetSummaryTimeout([tray EXCEPT !.nTimer = FALSE, !.busy = TRUE])
         [] status = "AVAILABLE" -> [tray EXCEPT !.busy = FALSE]
         [] OTHER -> tray))
  /\ UNCHANGED <<pointer, desktop, pressed, calls>>

\* _onIdleMonitorWatch(). That the user became idle should forget the unseen
\* notifications, but another property is set.
UserBecomes(idle) ==
  LET t == [tray EXCEPT !.userIdle = idle, !.watch = FALSE] IN
  /\ "idle" \in inputs
  /\ tray.userIdle # idle
  /\ Handle(CASE ~tray.watch -> t
              [] tray.watch /\ idle -> t
              [] tray.watch /\ ~idle /\ t.unseen = <<t.shown>> -> [t EXCEPT !.unseen = <<>>]
              [] OTHER -> Due([t EXCEPT !.back = TRUE]))
  /\ UNCHANGED <<pointer, desktop, pressed, calls>>

-----------------------------------------------------------------------------
Applications ==
  \/ \E s \in Sources : AddSource(s) \/ CloseSource(s)
  \/ \E n \in Notifications :
       \/ Notify(n)
       \/ NotifyUrgency(n)
       \/ \E shrunk \in BOOLEAN : ContentUpdated(n, shrunk)
       \/ CloseNotification(n)

Timers ==
  \/ UpdateLater
  \/ \E w \in {"show", "y", "hide"} : NotificationTweenDone(w)
  \/ NotificationTimeout
  \/ SummaryTweenDone
  \/ SummaryTimeout
  \/ TrayTweenDone
  \/ BoxTweenDone
  \/ \E close \in BOOLEAN : TrayLeftTimeout(close)

User ==
  \/ \E zone \in {"out", "tray", "summary"}, under \in BOOLEAN : PointerMoves(zone, under)
  \/ \E zone \in {"keyboard", "corner"} : PointerMovesBeside(zone)
  \/ PressOutside
  \/ \E s \in Sources : PressItem(s)
  \/ \E b \in {1, 2, 3}, stolen \in BOOLEAN : ReleaseItem(b, stolen)
  \/ \E what \in {"open", "remove", "mute"} : ActivateMenu(what)
  \/ \E n \in Notifications : ClickNotification(n)
  \/ PressEscape
  \/ LoseFocus
  \/ ToggleTray
  \/ HideTray

Session ==
  \/ OverviewShowing
  \/ OverviewHiding
  \/ OverviewHidden
  \/ \E status \in {"BUSY", "AVAILABLE", "IDLE"} : StatusChanged(status)
  \/ \E idle \in BOOLEAN : UserBecomes(idle)

Next == (Applications \/ Timers \/ User \/ Session) /\ UNCHANGED inputs

Spec == TrayInit /\ [][Next]_vars

\* What the main loop owes: as long as a tween or a timer runs, one of them
\* ends sooner or later, and so does the animation of the overview.
Fairness ==
  /\ WF_vars(Timers /\ UNCHANGED inputs)
  /\ WF_vars(OverviewHidden /\ UNCHANGED inputs)

FairSpec == Spec /\ Fairness

-----------------------------------------------------------------------------
\* The type invariant; hover is where the pointer is, and an exception does not
\* outlive the handler that threw it.
TrayTypeOK ==
  /\ {tray.nState, tray.sState, tray.bState, tray.trayState} \subseteq States
  /\ tray.queue \in Seq(Notifications)
  /\ tray.clicked \in Sources \cup {None}
  /\ tray.bItem \in Sources \cup {None}
  /\ tray.shown \in Notifications \cup {None}
  /\ tray.leftTimers \in 0..MaxLeft
  /\ tray.hover = InTray(pointer)
  /\ ~tray.threw

\* A notification is never left on screen with the summary: the one that comes
\* second waits, or sends the other away. Nothing is shown while it is queued, or
\* queued twice.
NoticesTakeTurns ==
  /\ TrayTypeOK
  /\ ~(tray.nState = "SHOWN" /\ tray.sState = "SHOWN")
  /\ \A i, j \in DOMAIN tray.queue : tray.queue[i] = tray.queue[j] => i = j
  /\ tray.shown \notin ToSet(tray.queue)

\* When no tween and no timer runs that would call _updateState() again.
AtRest(t) ==
  /\ ~t.later /\ t.nTweens = {} /\ ~t.nTimer /\ t.sTimers = 0
  /\ t.bTween = "none" /\ t.leftTimers = 0
  /\ t.hover => t.inTray
  /\ {t.sState, t.trayState} \subseteq {"HIDDEN", "SHOWN"}

Decided(t) == <<t.nState, t.sState, t.bState, t.trayState>>

\* The handlers only update variables and leave it to _updateState() to decide:
\* whatever the order of the events, when the tray comes to rest nothing is
\* left that _updateState() would decide; and its calls of itself come to an end.
Settled == ~tray.deep /\ (AtRest(tray) => Decided(Nested(tray)) = Decided(tray))

Closed(t) == {n \in Notifications : t.life[n] = "dead"}
Muted(t) == {n \in Notifications : SourceOf[n] \in t.muted}
StaysOut(withdrawn(_)) ==
  \A n \in ToSet(tray'.queue) \cap withdrawn(tray') :
    n = tray.reNotify \/ n \in ToSet(tray.queue) \cap withdrawn(tray)

\* What is closed leaves the queue and does not come back, and so does what a
\* source said before it was muted, or says then, but for what was put aside while
\* a box pointer was hiding: nothing looks whether that one is closed, or muted,
\* before the hide is complete, and it is queued, and shown, after its end.
WithdrawnNotQueued == [][StaysOut(Closed) /\ StaysOut(Muted)]_vars

\* While the user is busy only what is critical pops up.
OnlyUrgentPopsUp ==
  tray'.shown \notin {tray.shown, None} /\ tray'.busy => tray'.shown \in tray'.critical

\* What is critical does not wait for the summary: it sends it away as it comes to
\* the head of the queue (what becomes critical in the queue keeps its place, and
\* may wait).
UrgentHidesSummary ==
  Urgent(tray') /\ Head(tray'.queue) \notin ToSet(tray.queue) => tray'.sState # "SHOWN"

BusyShowsUrgent == [][OnlyUrgentPopsUp /\ UrgentHidesSummary]_vars

\* A box pointer has the summary under it; the lock is the one of a focus that was
\* grabbed, or later notifications would stay on screen; and a notification that
\* was put into the stack of a box pointer is taken out again with the box pointer,
\* so that it can be shown elsewhere, unless the box pointer was given another
\* content while it was on screen.
BoxHoldsTray ==
  /\ tray.locked => tray.focus # "none"
  /\ tray.bState = "SHOWN" => tray.sState # "HIDDEN"
  /\ tray.bState = "HIDDEN" => \A n \in tray.stack : SourceOf[n] \in tray.leaked

\* Nothing keeps the tray on screen.
Calm ==
  /\ pointer = "out" /\ ~tray.inSummary /\ ~tray.overview /\ ~tray.summoned
  /\ ~tray.busy /\ tray.clicked = None /\ tray.focus = "none"
  /\ tray.shown \notin tray.critical

\* When it stays calm what is queued was shown, or withdrawn, and the tray does
\* not stay on screen.
TrayRests ==
  <>[]Calm => <>[](/\ tray.queue = <<>>
                       /\ Decided(tray) = <<"HIDDEN", "HIDDEN", "HIDDEN", "HIDDEN">>)
=============================================================================
