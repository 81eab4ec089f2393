---------------------------- MODULE TrayHandlers ----------------------------
(***************************************************************************)
(* The handlers of the message tray (js/ui/messageTray.js) as functions of *)
(* its state, a record t.  One handler calls another before it is done,    *)
(* and most end in _updateState(), which decides what happens to the       *)
(* notification, the summary, its box pointer and the tray: t.due says     *)
(* that a handler calls it last, and Finish is that call.  An exception    *)
(* sets t.threw: it leaves out what follows, up to the signal or the timer *)
(* that called (signals.js logs it there and goes on).                     *)
(***************************************************************************)
EXTENDS Integers, SequencesExt

CONSTANTS
  Nested(_),         \* _updateState(), when a handler that it called calls it
  Notifications, Sources,
  SourceOf,          \* the source of each notification
  CriticalNotes,     \* of CRITICAL urgency from the start
  TransientNotes,    \* isTransient, destroyed once shown
  ResidentNotes,     \* resident, kept when clicked
  TransientSources,  \* sources that are isTransient
  ChatSources,       \* sources that are isChat
  None

TrayConstants ==
  /\ SourceOf \in [Notifications -> Sources]
  /\ CriticalNotes \cup TransientNotes \cup ResidentNotes \subseteq Notifications
  /\ TransientSources \cup ChatSources \subseteq Sources
  /\ None \notin Notifications \cup Sources \cup (Sources \X {1, 3})

\* MessageTray._init(): life and items are the notifications and the sources
\* that exist; bChild is the content of the box pointer, an item with the
\* button that asked for it; leaked are the items whose signals are still
\* connected though they are not the item of the box pointer any more.
NewTray ==
  [ queue |-> <<>>, shown |-> None, nState |-> "HIDDEN", nTweens |-> {},
    nTimer |-> FALSE, removed |-> FALSE, raised |-> FALSE, exConn |-> FALSE,
    shrunk |-> FALSE, critical |-> CriticalNotes, expanded |-> {},
    life |-> [n \in Notifications |-> "new"], items |-> {}, gone |-> {},
    muted |-> {}, unseen |-> <<>>, back |-> FALSE, watch |-> FALSE,
    sState |-> "HIDDEN", sTimeout |-> FALSE, sTimerId |-> FALSE, sTimers |-> 0,
    newItems |-> {}, later |-> FALSE, clicked |-> None, button |-> 0,
    bState |-> "HIDDEN", bTween |-> "none", bItem |-> None, bChild |-> None,
    leaked |-> {}, stack |-> {}, reNotify |-> None, trayState |-> "HIDDEN",
    inTray |-> FALSE, inSummary |-> FALSE, inKeyboard |-> FALSE,
    hover |-> FALSE, showMouse |-> FALSE, longer |-> FALSE, leftX |-> FALSE,
    leftWait |-> "none", leftTimers |-> 0, summoned |-> FALSE,
    overview |-> FALSE, locked |-> FALSE, focus |-> "none", busy |-> FALSE,
    userIdle |-> FALSE, missed |-> {},
    due |-> FALSE, threw |-> FALSE, deep |-> FALSE ]

States == {"HIDDEN", "SHOWING", "SHOWN", "HIDING"}
Visible(s) == s \in {"SHOWING", "SHOWN"}

\* splice() at the indexOf(), and filter().
Without(q, n) ==
  LET isFirst(i) == q[i] = n /\ \A j \in 1..i - 1 : q[j] # n
  IN  IF Contains(q, n) THEN RemoveAt(q, CHOOSE i \in DOMAIN q : isFirst(i)) ELSE q
Filter(q, S) ==
  LET at == {i \in DOMAIN q : q[i] \in S}
      isNext(i, k) == Cardinality({j \in at : j < i}) = k - 1
  IN  [k \in 1..Cardinality(at) |-> q[CHOOSE i \in at : isNext(i, k)]]
NotOf(q, s) == Filter(q, {n \in Notifications : SourceOf[n] # s})

\* source.notifications, and the actors in the stack of a summary item.
NotificationsOf(t, s) == {n \in Notifications : t.life[n] = "live" /\ SourceOf[n] = s}
StackOf(t, s) == {n \in t.stack : SourceOf[n] = s}

\* Urgency orders the queue when something is pushed, and only then; the sort
\* is stable. CRITICAL is all that is told apart.
Sorted(t, q) ==
  Filter(q, t.critical) \o Filter(q, Notifications \ t.critical)

\* _updateState() is what the handler calls last.
Due(t) == [t EXCEPT !.due = TRUE]
Finish(t) == IF t.due THEN Nested([t EXCEPT !.due = FALSE]) ELSE t

\* The end of a signal handler, where its exceptions stop.
Handled(t) == [Finish(t) EXCEPT !.threw = FALSE]

-----------------------------------------------------------------------------
(* Focus: what has it locks the tray when the box pointer has a content.   *)

Unlock(t) ==
  IF t.locked
    THEN Due([t EXCEPT !.locked = FALSE, !.inTray = t.hover])
    ELSE t

\* FocusGrabber.ungrabFocus() emits focus-ungrabbed, which unlocks.
Ungrab(t) ==
  IF t.focus # "none" THEN Handled(Unlock([t EXCEPT !.focus = "none"])) ELSE t

\* FocusGrabber.grabFocus(), for the notification or for the content of the
\* box pointer; it fails half way when there is no content.
Grab(t, what) ==
  IF t.focus # "none" THEN t
  ELSE [t EXCEPT !.focus = what,
                 !.locked = @ \/ (what # "nothing" /\ t.bChild # None),
                 !.threw = (what = "nothing")]

\* The stage takes the focus from an actor that is hidden, and
\* _focusActorChanged() follows.
Hide(t, what) == IF t.focus = what THEN Ungrab(t) ELSE t

UnsetClicked(t) == [t EXCEPT !.clicked = None, !.button = 0]

UnsetSummaryTimeout(t) ==
  IF t.sTimerId THEN [t EXCEPT !.sTimerId = FALSE, !.sTimers = @ - 1] ELSE t

\* _escapeTray()
EscapeTray(t) ==
  LET left(u) == Due(UnsetSummaryTimeout(
                   [u EXCEPT !.inTray = FALSE, !.inSummary = FALSE, !.nTimer = FALSE]))
      rest(u) == IF u.threw THEN u ELSE left(u)
  IN  rest(Finish(Unlock(t)))

-----------------------------------------------------------------------------
(* The notification.                                                       *)

\* _onNotificationExpanded(): a notification that shrank is moved, any other
\* slides to its place.
OnExpanded(t) ==
  IF t.raised /\ t.shrunk THEN t
  ELSE [t EXCEPT !.raised = TRUE, !.nTweens = @ \cup {"y"}, !.nState = "SHOWING"]

\* _expandNotification(autoExpanding)
Expand(t, auto) ==
  LET u == IF auto THEN t ELSE Grab(t, "notice")
  IN  OnExpanded([u EXCEPT !.exConn = TRUE, !.expanded = @ \cup {t.shown}])

\* _updateShowingNotification()
UpdateShowing(t) ==
  LET u == [t EXCEPT !.nTweens = {}]
      v == IF t.shown \in t.critical \cup t.expanded THEN Expand(u, TRUE) ELSE u
  IN  [v EXCEPT !.nTweens = @ \cup {"show"}, !.nState = "SHOWING"]

\* _showNotification(); missed is history, what is shown to an idle user.
ShowNotification(t) ==
  LET n == Head(t.queue) IN
  UpdateShowing([t EXCEPT !.queue = Tail(@), !.shown = n, !.raised = FALSE,
                          !.unseen = Append(@, n), !.watch = TRUE,
                          !.showMouse = TRUE,
                          !.missed = IF t.userIdle THEN @ \cup {n} ELSE @ \ {n}])

\* _hideNotification(): the tween takes the place of those that run.
HideNotification(t) ==
  LET u == Ungrab(t)
  IN  [u EXCEPT !.exConn = FALSE, !.raised = FALSE,
                !.nTweens = {"hide"}, !.nState = "HIDING"]

-----------------------------------------------------------------------------
(* Notifications and sources come and go.                                  *)

\* _onSourceDestroy()
OnSourceDestroy(t, s) ==
  LET hit == t.shown # None /\ SourceOf[t.shown] = s
      u == [t EXCEPT !.items = @ \ {s}, !.newItems = @ \ {s},
                     !.nTimer = @ /\ ~hit, !.removed = @ \/ hit]
      v == IF t.clicked = s THEN UnsetClicked(u) ELSE u
  IN  IF s \notin t.items THEN t
      ELSE [v EXCEPT !.due = hit \/ t.clicked = s]

\* Source.destroy()
SourceDestroyed(t, s) == OnSourceDestroy([t EXCEPT !.gone = @ \cup {s}], s)
DestroySource(t, s) == Handled(SourceDestroyed(t, s))

\* _onNotificationDestroy()
OnNotificationDestroy(t, n) ==
  LET u == [t EXCEPT !.unseen = Without(@, n)] IN
  IF n = t.shown /\ Visible(t.nState)
    THEN Due([u EXCEPT !.nTimer = FALSE, !.removed = TRUE])
    ELSE [u EXCEPT !.queue = Without(@, n)]

\* _updateShowingNotification() or a place in the queue: _onNotify(). What
\* belongs to the source of the box pointer waits for it to be hidden.
OnNotify(t, n) ==
  IF t.bItem = SourceOf[n]
    THEN IF t.bState = "HIDING" THEN [t EXCEPT !.reNotify = n] ELSE t
    ELSE Due(
           IF t.shown = n THEN UpdateShowing(t)
           ELSE IF Contains(t.queue, n) THEN t
           ELSE [t EXCEPT !.queue = Sorted(t, Append(@, n))])

-----------------------------------------------------------------------------
(* The box pointer of the summary.                                         *)

\* Mutant: the actors are left in the stack.
DoneKeepsStack(t, s) ==
  [t EXCEPT !.expanded = @ \ {n \in StackOf(t, s) : t.life[n] = "live"}]

\* SummaryItem.doneShowingNotificationStack()
DoneShowingStack(t, s) ==
  [t EXCEPT !.stack = @ \ StackOf(t, s),
            !.expanded = @ \ {n \in StackOf(t, s) : t.life[n] = "live"}]

\* _hideSummaryBoxPointerCompleted()
HideBoxCompleted(t) ==
  LET s == t.bItem
      told(u) == CASE u.reNotify # None -> OnNotify(u, u.reNotify)
                   [] u.reNotify = None /\ s \in TransientSources -> SourceDestroyed(u, s)
                   [] OTHER -> u
      forgotten(u) == IF u.threw /\ u.reNotify # None THEN u
                      ELSE [u EXCEPT !.reNotify = None, !.threw = FALSE]
      stackDone(u) == IF t.bChild = <<s, 1>>
                        THEN forgotten(Finish(told(DoneShowingStack(u, s)))) ELSE u
      updated(u) == [u EXCEPT !.due = ~u.threw /\ u.clicked # None]
  IN  IF s = None THEN [t EXCEPT !.threw = TRUE]
      ELSE updated(stackDone(
             [t EXCEPT !.bState = "HIDDEN", !.bChild = None, !.bItem = None]))

\* _hideSummaryBoxPointer(): it gave up the focus before it is hidden.
HideBox(t) ==
  LET u == [t EXCEPT !.bState = "HIDING"]
      hiding == t.bState = "HIDING"
      slide(v) == IF v.bItem = None THEN [v EXCEPT !.threw = TRUE]
                  ELSE IF NotificationsOf(v, v.bItem) = {}
                    THEN Finish(HideBoxCompleted(v))
                  ELSE [v EXCEPT !.bTween = "hide"]
  IN  IF hiding /\ t.bItem = None THEN [t EXCEPT !.threw = TRUE]
      ELSE IF hiding /\ StackOf(t, t.bItem) = {} THEN t
      ELSE slide(Ungrab(IF t.sState # "SHOWN" THEN UnsetClicked(u) ELSE u))

\* prepareNotificationStackForShowing(): what the stack holds already stays.
PrepareStack(t, s) ==
  LET added == IF StackOf(t, s) = {} THEN NotificationsOf(t, s) ELSE {}
      u == [t EXCEPT !.stack = @ \cup added, !.expanded = @ \cup added]
  IN  IF t.exConn /\ t.shown \in added THEN OnExpanded(u) ELSE u

\* _showSummaryBoxPointer()
ShowBox(t) ==
  LET s == t.clicked
      u == [t EXCEPT !.bItem = s,
                     !.leaked = IF t.bItem = None THEN @ ELSE @ \cup {t.bItem}]
      v == CASE t.button = 1 -> [PrepareStack([u EXCEPT !.queue = NotOf(@, s)], s)
                                   EXCEPT !.bChild = <<s, 1>>]
             [] t.button = 3 -> [u EXCEPT !.bChild = <<s, 3>>]
             [] OTHER        -> u
      focused(w) == Grab(w, IF w.bChild # None THEN "box" ELSE "nothing")
      shown(w) == IF w.threw THEN w ELSE [w EXCEPT !.bState = "SHOWING", !.bTween = "show"]
  IN  IF s = None THEN [u EXCEPT !.threw = TRUE] ELSE shown(focused(v))

\* _onSummaryBoxPointerContentUpdated(), for an item that is connected.
OnContentUpdated(t, s) ==
  IF s # t.bItem /\ s \notin t.leaked THEN t
  ELSE IF t.bItem = None THEN t
  ELSE IF StackOf(t, t.bItem) = {} THEN Handled(HideBox(t)) ELSE t

-----------------------------------------------------------------------------
(* _updateState()                                                          *)

\* Mutant: busy does not matter.
PendingThoughBusy(t) == t.queue # <<>>

Urgent(t) == t.queue # <<>> /\ Head(t.queue) \in t.critical
NotificationsPending(t) == t.queue # <<>> /\ (~t.busy \/ Urgent(t))

UpdateNotification(t) ==
  LET pinned == t.inTray /\ ~t.inSummary /\ ~t.removed
      expired == \/ t.removed
                 \/ /\ ~t.nTimer /\ t.shown \notin t.critical
                    /\ ~t.inTray /\ ~t.locked
                    /\ ~(t.inKeyboard /\ t.raised)
  IN  CASE t.nState = "HIDDEN" /\ NotificationsPending(t) /\ t.sState = "HIDDEN" ->
             ShowNotification(t)
        [] t.nState = "SHOWN" /\ expired -> HideNotification(t)
        [] t.nState = "SHOWN" /\ ~expired /\ pinned ->
             IF t.raised THEN Grab(t, "notice") ELSE Expand(t, FALSE)
        [] OTHER -> t

\* _updateSeenSummaryItems()
SeenSummary(t) ==
  [t EXCEPT !.back = FALSE, !.newItems = {},
            !.unseen = IF t.back THEN <<>> ELSE @]

ShowSummary(t, timeout) ==
  [SeenSummary(t) EXCEPT !.sState = "SHOWING", !.sTimeout = timeout]

HideSummary(t) == [SeenSummary(t) EXCEPT !.sState = "HIDING"]

Summoned(t) == t.inSummary \/ t.overview \/ t.summoned

\* Mutant: only what is pending hides the summary.
MustHideForPending(t, pending, urgent) == pending /\ urgent

\* Whatever comes first may have changed the state; pending and urgent are as
\* they were when _updateState() was called.
MustHideSummary(t, pending, urgent) ==
  \/ Visible(t.nState)
  \/ /\ pending
     /\ urgent \/ (t.overview /\ ~t.locked /\ ~t.inTray /\ ~t.inSummary)

UpdateSummary(t, pending, mustHide) ==
  LET done == ~Visible(t.nState) /\ ~pending
      pinned == t.sTimerId \/ t.inTray \/ t.locked \/ Summoned(t)
  IN  CASE t.sState = "HIDDEN" /\ ~mustHide /\ Summoned(t) -> ShowSummary(t, FALSE)
        [] /\ t.sState = "HIDDEN" /\ ~mustHide /\ ~Summoned(t)
           /\ done /\ ~t.busy
           /\ (t.back /\ t.unseen # <<>>) \/ t.newItems # {} -> ShowSummary(t, TRUE)
        [] t.sState = "SHOWN" /\ (~pinned \/ mustHide) -> HideSummary(t)
        [] OTHER -> t

UpdateBox(t, mustHide) ==
  LET canShow == t.sState = "SHOWN"
      ofShown == t.clicked # None /\ t.shown # None /\ SourceOf[t.shown] = t.clicked
      empty == t.button = 1 /\ NotificationsOf(t, t.clicked) = {}
      wrong == t.button \in {1, 3} /\ t.bChild # <<t.clicked, t.button>>
      show == /\ t.bState = "HIDDEN" /\ t.clicked # None
              /\ ~ofShown /\ canShow /\ ~empty
      hide == /\ t.bState = "SHOWN"
              /\ t.clicked = None \/ ~canShow \/ wrong \/ mustHide
      shown(u) == IF show \/ (hide /\ wrong /\ ~u.threw) THEN ShowBox(u) ELSE u
  IN  shown(IF hide THEN HideBox(t) ELSE t)

UpdateTray(t, done) ==
  LET shouldBeVisible == ~done \/ Visible(t.sState) IN
  CASE ~Visible(t.trayState) /\ shouldBeVisible -> [t EXCEPT !.trayState = "SHOWING"]
    [] Visible(t.trayState) /\ ~shouldBeVisible -> [t EXCEPT !.trayState = "HIDING"]
    [] OTHER -> t

UpdateState(t) ==
  LET pending == NotificationsPending(t)
      last(b, done) == IF b.threw THEN b ELSE UpdateTray(b, done)
      rest(n, mustHide) == last(UpdateBox(UpdateSummary(n, pending, mustHide), mustHide),
                                ~Visible(n.nState) /\ ~pending)
      decide(n) == rest(n, MustHideSummary(n, pending, Urgent(t)))
  IN  decide(UpdateNotification(t))

-----------------------------------------------------------------------------
(* What calls the handlers above.                                          *)

\* The destroy signal of a notification: the source forgets it, and may be
\* destroyed with its last one; the tray and the stack drop it. The actor is
\* taken out of the stack after the signal.
DestroyNotification(t, n) ==
  LET s == SourceOf[n]
      counted(u) == IF NotificationsOf(u, s) = {} THEN DestroySource(u, s) ELSE u
      told(u) == Handled(OnNotificationDestroy(u, n))
      updated(u) == IF n \in t.stack THEN OnContentUpdated(u, s) ELSE u
  IN  IF t.life[n] # "live" THEN t
      ELSE [updated(told(counted([t EXCEPT !.life[n] = "dead"]))) EXCEPT !.stack = @ \ {n}]

\* _hideNotificationCompleted()
HideNotificationCompleted(t) ==
  LET n == t.shown
      forgotten(u) == [u EXCEPT !.shown = None,
                                !.expanded = IF t.life[n] = "live" THEN @ \ {n} ELSE @]
      over(u) == IF n \in TransientNotes THEN DestroyNotification(u, n) ELSE u
  IN  over(forgotten(Hide([t EXCEPT !.removed = FALSE], "notice")))

\* _onTrayLeftTimeout(); the pointer that is still close extends it once.
TrayLeft(t, close) ==
  IF t.leftX /\ close
    THEN [t EXCEPT !.leftX = FALSE, !.leftWait = "longer"]
    ELSE Due(UnsetSummaryTimeout(
           [t EXCEPT !.leftTimers = @ - 1, !.leftWait = "none", !.longer = FALSE,
                     !.inTray = FALSE, !.inSummary = FALSE, !.nTimer = FALSE]))
=============================================================================
