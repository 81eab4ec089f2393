----------------------------- MODULE DeferredWork -----------------------------
(***************************************************************************)
(* Work that is put off until its actor is shown or some time has passed   *)
(* (initializeDeferredWork() and queueDeferredWork() in js/ui/main.js),    *)
(* with which the overview redraws what it lists.  A callback may throw,   *)
(* which ends the loop it is called from where it is.                      *)
(***************************************************************************)
EXTENDS Integers, SequencesExt

CONSTANTS
  Works,
  NoCallback,
  MaxRedraws      \* bound on _beforeRedrawQueue

ASSUME WorksAssumption ==
  /\ NoCallback \notin Works
  /\ MaxRedraws \in Nat

VARIABLES
  workQueue,      \* _deferredWorkQueue
  redrawQueue,    \* _beforeRedrawQueue
  redrawLater,    \* a later_add() for _runBeforeRedrawQueue() is pending
  workTimer,      \* _deferredTimeoutId: "none", "running", or "gone" when the
                  \* id is kept of a source that has been removed
  mapped,         \* the works whose actor is mapped
  destroyed,      \* the works whose actor was destroyed
  threw           \* history: a callback has thrown

workVars == <<workQueue, redrawQueue, redrawLater, workTimer, mapped, destroyed, threw>>

WorkInit ==
  /\ workQueue = <<>> /\ redrawQueue = <<>>
  /\ redrawLater = FALSE /\ workTimer = "none"
  /\ mapped = {} /\ destroyed = {}
  /\ threw = FALSE

-----------------------------------------------------------------------------
\* _queueBeforeRedraw()
QueueBeforeRedraw(w) ==
  /\ redrawQueue' = Append(redrawQueue, w)
  /\ redrawLater' = (redrawLater \/ redrawQueue = <<>>)

\* Mutant: no timeout for work that is queued behind other work.
QueueDeferredWorkBehind(w) ==
  /\ w \notin destroyed /\ Len(redrawQueue) < MaxRedraws
  /\ workQueue' = IF Contains(workQueue, w) THEN workQueue ELSE Append(workQueue, w)
  /\ IF w \in mapped
     THEN QueueBeforeRedraw(w) /\ UNCHANGED workTimer
     ELSE /\ workTimer' = IF workTimer = "none" /\ workQueue = <<>> THEN "running" ELSE workTimer
          /\ UNCHANGED <<redrawQueue, redrawLater>>
  /\ UNCHANGED <<mapped, destroyed, threw>>

\* queueDeferredWork()
QueueDeferredWork(w) ==
  /\ w \notin destroyed /\ Len(redrawQueue) < MaxRedraws
  /\ workQueue' = IF Contains(workQueue, w) THEN workQueue ELSE Append(workQueue, w)
  /\ IF w \in mapped
     THEN QueueBeforeRedraw(w) /\ UNCHANGED workTimer
     ELSE /\ workTimer' = IF workTimer = "none" THEN "running" ELSE workTimer
          /\ UNCHANGED <<redrawQueue, redrawLater>>
  /\ UNCHANGED <<mapped, destroyed, threw>>

\* notify::mapped
Mapped(w) ==
  /\ w \notin mapped \cup destroyed /\ Len(redrawQueue) < MaxRedraws
  /\ mapped' = mapped \cup {w}
  /\ IF Contains(workQueue, w)
     THEN QueueBeforeRedraw(w)
     ELSE UNCHANGED <<redrawQueue, redrawLater>>
  /\ UNCHANGED <<workQueue, workTimer, destroyed, threw>>

Unmapped(w) ==
  /\ w \in mapped
  /\ mapped' = mapped \ {w}
  /\ UNCHANGED <<workQueue, redrawQueue, redrawLater, workTimer, destroyed, threw>>

\* destroy
Destroyed(w) ==
  /\ w \notin destroyed
  /\ destroyed' = destroyed \cup {w} /\ mapped' = mapped \ {w}
  /\ workQueue' = SelectSeq(workQueue, LAMBDA x : x # w)
  /\ UNCHANGED <<redrawQueue, redrawLater, workTimer, threw>>

-----------------------------------------------------------------------------
\* The callback that throws, if one does
Callbacks == Works \cup {NoCallback}

Throws(queue, thrower) == Contains(queue, thrower) /\ Contains(workQueue, thrower)

\* _runDeferredWork() for the works of queue, in order: those behind the one
\* whose callback throws are not reached.
RunWorks(queue, thrower) ==
  LET reached == IF Throws(queue, thrower)
                 THEN SubSeq(queue, 1, SelectInSeq(queue, LAMBDA x : x = thrower))
                 ELSE queue
  IN /\ workQueue' = SelectSeq(workQueue, LAMBDA w : ~Contains(reached, w))
     /\ threw' = (threw \/ Throws(queue, thrower))

\* _runBeforeRedrawQueue(): the queue is not emptied when a callback throws, and
\* from then on _queueBeforeRedraw() never finds it empty.
RunBeforeRedrawQueue(thrower) ==
  /\ redrawLater /\ redrawLater' = FALSE
  /\ RunWorks(redrawQueue, thrower)
  /\ redrawQueue' = IF Throws(redrawQueue, thrower) THEN redrawQueue ELSE <<>>
  /\ workTimer' = IF workQueue # <<>> /\ workQueue' = <<>> /\ ~Throws(redrawQueue, thrower)
                  THEN "none" ELSE workTimer
  /\ UNCHANGED <<mapped, destroyed>>

\* The timeout: _runAllDeferredWork(), whose last callback removes the timeout;
\* one that throws leaves the id of a source that is removed.
RunAllDeferredWork(thrower) ==
  /\ workTimer = "running"
  /\ RunWorks(workQueue, thrower)
  /\ workTimer' = IF Throws(workQueue, thrower) THEN "gone" ELSE "none"
  /\ UNCHANGED <<redrawQueue, redrawLater, mapped, destroyed>>

WorkNext ==
  \/ \E w \in Works : QueueDeferredWork(w) \/ Mapped(w) \/ Unmapped(w) \/ Destroyed(w)
  \/ \E t \in Callbacks : RunBeforeRedrawQueue(t) \/ RunAllDeferredWork(t)

-----------------------------------------------------------------------------
WorkTypeOK ==
  /\ workQueue \in Seq(Works) /\ redrawQueue \in Seq(Works)
  /\ workTimer \in {"none", "running", "gone"}
  /\ mapped \subseteq Works /\ destroyed \subseteq Works
  /\ {redrawLater, threw} \subseteq BOOLEAN

\* Work that is queued is run on map or timeout, as queueDeferredWork() promises,
\* or its actor is destroyed.  This is no longer so once a callback has thrown.
QueuedWorkRuns ==
  /\ []WorkTypeOK
  /\ \A w \in Works : Contains(workQueue, w) ~> ~Contains(workQueue, w) \/ threw
=============================================================================
