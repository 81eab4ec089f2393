---------------------------- MODULE LibraryProofs ----------------------------
(***************************************************************************)
(* What is proved of parts of the C library, each for itself: the scores   *)
(* of the applications, the recorder, the texture cache, the applications  *)
(* and their windows, and the network agent, for all applications,         *)
(* windows, pipelines, textures, requests, connections and secrets.        *)
(***************************************************************************)
EXTENDS AppUsage, Recorder, TextureCache, Applications, NetworkAgent, SeqLemmas, FiniteSetTheorems, TLAPS

-----------------------------------------------------------------------------
(***************************************************************************)
(* The scores of the applications                                          *)
(***************************************************************************)

\* When the id of the timeout is that of a source that exists, a score that
\* changes leaves it pending.
UsageInv == saveTimer \in {"none", "pending"} /\ UnsavedIsQueued

\* increment_usage_for_app_at_time() changes no score without ensure_queued_save().
LEMMA IncrementQueues ==
  ASSUME UsageInv, NEW a, NEW time, IncrementUsage(a, time),
         savedScore' = savedScore, dropped' = dropped
  PROVE  UsageInv'
  <1>1. CASE UNCHANGED <<score, saveTimer>>
    BY <1>1 DEF UsageInv, UnsavedIsQueued
  <1>2. CASE ~UNCHANGED <<score, saveTimer>>
    <2>1. saveTimer' = "pending"
      BY <1>2 DEF UsageInv, IncrementUsage
    <2> QED BY <2>1 DEF UsageInv, UnsavedIsQueued
  <1> QED BY <1>1, <1>2

\* Every step of the usage keeps the invariant.
LEMMA UsageStep == UsageInv /\ [UsageNext]_usageVars => UsageInv'
  <1> SUFFICES ASSUME UsageInv, [UsageNext]_usageVars PROVE UsageInv'
    OBVIOUS
  <1>1. ASSUME NEW a, FocusAppChanged(a) PROVE UsageInv'
    BY <1>1, IncrementQueues DEF FocusAppChanged
  <1>2. CASE SessionIdle
    BY <1>2, IncrementQueues DEF SessionIdle
  <1>3. CASE SessionBack
    BY <1>3 DEF SessionBack, UsageInv, UnsavedIsQueued
  <1>4. CASE MonitoringEnabled
    BY <1>4, IncrementQueues DEF MonitoringEnabled
  <1>5. CASE MonitoringDisabled
    <2>1. saveTimer' \in {"none", "pending"}
      BY <1>5 DEF MonitoringDisabled
    <2>2. UnsavedIsQueued'
      BY <1>5, Zenon DEF MonitoringDisabled, UsageInv, UnsavedIsQueued
    <2> QED BY <2>1, <2>2 DEF UsageInv
  <1>6. CASE SaveUsage
    <2>1. \A a \in UsedApps \ WindowBacked : savedScore'[a] = score'[a] \/ dropped'
      BY <1>6, Zenon DEF SaveUsage
    <2>2. saveTimer' = "none"
      BY <1>6 DEF SaveUsage
    <2> QED BY <2>1, <2>2, Zenon DEF UsageInv, UnsavedIsQueued
  <1>7. ASSUME NEW forgotten, Restarted(forgotten) PROVE UsageInv'
    <2>1. saveTimer' = "none"
      BY <1>7 DEF Restarted
    <2>2. \A a \in UsedApps : score'[a] # savedScore'[a] => dropped'
      BY <1>7, Zenon DEF Restarted
    <2> QED BY <2>1, <2>2, Zenon DEF UsageInv, UnsavedIsQueued
  <1>8. CASE ClockMoves
    BY <1>8 DEF ClockMoves, UsageInv, UnsavedIsQueued
  <1>9. CASE UNCHANGED usageVars
    BY <1>9 DEF usageVars, UsageInv, UnsavedIsQueued
  <1> QED BY <1>1, <1>2, <1>3, <1>4, <1>5, <1>6, <1>7, <1>8, <1>9 DEF UsageNext

\* What is added to a score is a number, of a clock that was set back too.
LEMMA IncrementTypes ==
  ASSUME UsageTypeOK, NEW a \in UsedApps \cup {NoFocus}, NEW time \in Int, IncrementUsage(a, time)
  PROVE  score' \in [UsedApps -> Nat] /\ saveTimer' \in {"none", "pending", "gone"}
  <1>1. score \in [UsedApps -> Nat] /\ saveTimer \in {"none", "pending", "gone"} /\ watchStart \in Int
    BY AppUsageAssumption DEF UsageTypeOK
  <1> DEFINE elapsed == (time - watchStart) % ElapsedWidth
             raised == [score EXCEPT ![a] = @ + elapsed]
  <1>2. elapsed \in Nat
    <2>1. ElapsedWidth \in Nat /\ ElapsedWidth > 0
      BY AppUsageAssumption
    <2>2. time - watchStart \in Int
      BY <1>1
    <2> QED BY <2>1, <2>2
  <1> HIDE DEF elapsed
  <1>3. saveTimer' \in {"none", "pending", "gone"}
    BY <1>1 DEF IncrementUsage
  <1>4. CASE a = NoFocus \/ elapsed = 0
    BY <1>1, <1>3, <1>4 DEF IncrementUsage, elapsed
  <1>5. CASE ~(a = NoFocus \/ elapsed = 0)
    <2>1. score' = IF raised[a] > ScoreMax THEN [b \in UsedApps |-> raised[b] \div 2] ELSE raised
      BY <1>5 DEF IncrementUsage, elapsed
    <2>2. raised \in [UsedApps -> Nat]
      BY <1>1, <1>2, <1>5
    <2> HIDE DEF raised
    <2>3. \A n \in Nat : n \div 2 \in Nat
      OBVIOUS
    <2>4. [b \in UsedApps |-> raised[b] \div 2] \in [UsedApps -> Nat]
      BY <2>2, <2>3
    <2> QED BY <1>3, <2>1, <2>2, <2>4
  <1> QED BY <1>4, <1>5

\* The scores are numbers, and the times are within the clock.
LEMMA UsageTypes == UsageTypeOK /\ [UsageNext]_usageVars => UsageTypeOK'
  <1> SUFFICES ASSUME UsageTypeOK, [UsageNext]_usageVars PROVE UsageTypeOK'
    OBVIOUS
  <1>1. /\ clock \in 0 .. MaxClock /\ watchStart \in 0 .. MaxClock
        /\ watchedApp \in UsedApps \cup {NoFocus} /\ focusedApp \in UsedApps \cup {NoFocus}
        /\ {currentlyIdle, monitoring, dropped} \subseteq BOOLEAN
        /\ score \in [UsedApps -> Nat] /\ savedScore \in [UsedApps -> Nat]
        /\ saveTimer \in {"none", "pending", "gone"}
    BY DEF UsageTypeOK
  <1>2. /\ MaxClock \in Nat /\ IdleCount \in Nat /\ 0 \in 0 .. MaxClock
        /\ clock \in Int /\ watchStart \in Int /\ watchStart + IdleCount \in Int
    BY <1>1, AppUsageAssumption
  <1>3. ASSUME NEW a \in UsedApps \cup {NoFocus}, FocusAppChanged(a) PROVE UsageTypeOK'
    <2>1. score' \in [UsedApps -> Nat] /\ saveTimer' \in {"none", "pending", "gone"}
      BY <1>1, <1>2, <1>3, IncrementTypes DEF FocusAppChanged
    <2> QED BY <1>1, <1>3, <2>1 DEF FocusAppChanged, UsageTypeOK
  <1>4. CASE SessionIdle
    <2>1. score' \in [UsedApps -> Nat] /\ saveTimer' \in {"none", "pending", "gone"}
      BY <1>1, <1>2, <1>4, IncrementTypes DEF SessionIdle
    <2> QED BY <1>1, <1>4, <2>1 DEF SessionIdle, UsageTypeOK
  <1>5. CASE MonitoringEnabled
    <2>1. score' \in [UsedApps -> Nat] /\ saveTimer' \in {"none", "pending", "gone"}
      BY <1>1, <1>2, <1>5, IncrementTypes DEF MonitoringEnabled
    <2> QED BY <1>1, <1>5, <2>1 DEF MonitoringEnabled, UsageTypeOK
  <1>6. CASE SessionBack
    BY <1>1, <1>6 DEF SessionBack, UsageTypeOK
  <1>7. CASE MonitoringDisabled
    BY <1>1, <1>7 DEF MonitoringDisabled, UsageTypeOK
  <1>8. CASE SaveUsage
    <2>1. savedScore' \in [UsedApps -> Nat] /\ dropped' \in BOOLEAN
      <3>1. [a \in UsedApps |-> IF a \in WindowBacked THEN 0 ELSE score[a]] \in [UsedApps -> Nat]
        BY <1>1
      <3> QED BY <1>1, <1>8, <3>1 DEF SaveUsage
    <2> QED BY <1>1, <1>8, <2>1 DEF SaveUsage, UsageTypeOK
  <1>9. ASSUME NEW forgotten \in SUBSET UsedApps, Restarted(forgotten) PROVE UsageTypeOK'
    <2>1. score' \in [UsedApps -> Nat]
      BY <1>1, <1>9 DEF Restarted
    <2>2. dropped' \in BOOLEAN
      BY <1>9 DEF Restarted
    <2> QED BY <1>1, <1>2, <1>9, <2>1, <2>2 DEF Restarted, UsageTypeOK
  <1>10. CASE ClockMoves
    BY <1>1, <1>10 DEF ClockMoves, UsageTypeOK
  <1>11. CASE UNCHANGED usageVars
    BY <1>1, <1>11 DEF usageVars, UsageTypeOK
  <1> QED BY <1>3, <1>4, <1>5, <1>6, <1>7, <1>8, <1>9, <1>10, <1>11 DEF UsageNext

\* A score that is not in the file will be written, or a save has failed or was
\* called off, for any applications and any clock (ensure_queued_save()).
THEOREM UsageScoresAreKept == UsageSpec => []ScoresAreKept
  <1>1. UsageInit => UsageInv
    BY DEF UsageInit, UsageInv, UnsavedIsQueued
  <1>2. UsageInit => UsageTypeOK
    <2>1. MaxClock \in Nat /\ 0 \in 0 .. MaxClock
      BY AppUsageAssumption
    <2>2. [a \in UsedApps |-> 0] \in [UsedApps -> Nat]
      OBVIOUS
    <2>3. UsageInit => /\ clock = 0 /\ watchStart = 0 /\ watchedApp = NoFocus /\ focusedApp = NoFocus
                      /\ currentlyIdle = FALSE /\ monitoring = TRUE /\ dropped = FALSE /\ saveTimer = "none"
                      /\ score = [a \in UsedApps |-> 0] /\ savedScore = [a \in UsedApps |-> 0]
      BY DEF UsageInit
    <2> QED BY <2>1, <2>2, <2>3 DEF UsageTypeOK
  <1>3. UsageInv /\ UsageTypeOK => ScoresAreKept
    BY DEF UsageInv, ScoresAreKept
  <1> QED BY <1>1, <1>2, <1>3, UsageStep, UsageTypes, PTL DEF UsageSpec

-----------------------------------------------------------------------------
(***************************************************************************)
(* The recorder                                                            *)
(***************************************************************************)

\* What is so of the fields of the recorder at every moment, sp being the pipelines
\* that are freed.  It does not ask for a pipeline while it records: one that fails
\* is forgotten before the recording is closed.
Consistent(r, sp) ==
  /\ r \in RecorderType /\ ~r.late
  /\ r.current # NoPipeline => r.current \notin r.closed \cup sp
  /\ r.state \in {"PAUSED", "RECORDING"} => r.refs >= 1
  /\ r.state \in {"PAUSED", "CLOSED"} => ~r.pointerTimer /\ ~r.repaintHook
  /\ r.state = "CLOSED" => ~r.redrawTimer /\ r.current = NoPipeline

RecorderInv ==
  /\ Consistent(recorder, spent)
  /\ recorder.state = "RECORDING" => recorder.current # NoPipeline
  /\ finishing \subseteq recorder.closed
  /\ finishing \subseteq Pipelines /\ spent \subseteq Pipelines
  /\ {countInName, stageThere} \subseteq BOOLEAN

\* A frame that is painted (recorder_on_stage_paint()) goes to a pipeline that is open,
\* or there is none.
LEMMA PaintConsistent ==
  ASSUME NEW sp, NEW r, Consistent(r, sp), NEW skipped \in BOOLEAN
  PROVE  /\ Consistent(Paint(r, skipped), sp)
         /\ Paint(r, skipped).closed = r.closed /\ Paint(r, skipped).current = r.current
         /\ Paint(r, skipped).pointerTimer = r.pointerTimer
         /\ Paint(r, skipped).state = r.state
              \/ (Paint(r, skipped).state = "CRASHED" /\ r.current = NoPipeline)
  <1>1. CASE r.state # "RECORDING" \/ skipped
    <2>1. Paint(r, skipped) = r
      BY <1>1 DEF Paint
    <2> QED BY <2>1
  <1>2. CASE ~(r.state # "RECORDING" \/ skipped) /\ r.current = NoPipeline
    BY <1>2 DEF Paint, Consistent, RecorderType
  <1>3. CASE ~(r.state # "RECORDING" \/ skipped) /\ r.current # NoPipeline
    <2>1. Paint(r, skipped) = [r EXCEPT !.redrawTimer = TRUE, !.late = @ \/ r.current \in r.closed]
      BY <1>3 DEF Paint
    <2>2. [r EXCEPT !.redrawTimer = TRUE, !.late = @ \/ r.current \in r.closed]
            = [r EXCEPT !.redrawTimer = TRUE, !.late = FALSE]
      BY <1>3 DEF Consistent, RecorderType
    <2> DEFINE s == [r EXCEPT !.redrawTimer = TRUE, !.late = FALSE]
    <2>3. /\ s \in RecorderType /\ ~s.late /\ s.state = r.state /\ s.refs = r.refs
          /\ s.current = r.current /\ s.closed = r.closed /\ s.pointerTimer = r.pointerTimer
      BY DEF Consistent, RecorderType
    <2>4. Consistent(s, sp)
      BY <1>3, <2>3 DEF Consistent
    <2> QED BY <2>1, <2>2, <2>3, <2>4
  <1> QED BY <1>1, <1>2, <1>3

\* A pipeline that is closed is closed for good, and the recorder stays consistent.
LEMMA ClosePipelineConsistent ==
  ASSUME NEW sp, NEW r, Consistent(r, sp)
  PROVE  /\ Consistent(ClosePipeline(r), sp) /\ ClosePipeline(r).state = r.state
         /\ ClosePipeline(r).pointerTimer = r.pointerTimer
         /\ r.closed \subseteq ClosePipeline(r).closed /\ ClosePipeline(r).current = NoPipeline
  BY RecorderAssumption DEF ClosePipeline, Consistent, RecorderType

\* shell_recorder_pause() ends the recording, and closes its pipeline when the file
\* name counts.
LEMMA PauseConsistent ==
  ASSUME NEW sp, NEW r, Consistent(r, sp), r.state = "RECORDING", NEW skipped \in BOOLEAN
  PROVE  /\ Consistent(Pause(r, skipped), sp) /\ r.closed \subseteq Pause(r, skipped).closed
         /\ Pause(r, skipped).state \in {"PAUSED", "CRASHED"}
  <1> DEFINE q == [r EXCEPT !.pointerTimer = FALSE]
             painted == Paint(q, skipped)
             stopped == IF painted.hasCount THEN ClosePipeline(painted) ELSE painted
  <1>1. Consistent(q, sp) /\ q.state = "RECORDING" /\ q.closed = r.closed /\ ~q.pointerTimer
    BY DEF Consistent, RecorderType
  <1> HIDE DEF q
  <1>2. /\ Consistent(painted, sp) /\ painted.closed = r.closed
        /\ painted.state \in {"RECORDING", "CRASHED"} /\ ~painted.pointerTimer
    BY <1>1, PaintConsistent
  <1> HIDE DEF painted
  <1>3. /\ Consistent(stopped, sp) /\ r.closed \subseteq stopped.closed
        /\ stopped.state = painted.state /\ ~stopped.pointerTimer
    BY <1>2, ClosePipelineConsistent
  <1>4. Pause(r, skipped) = IF painted.state = "CRASHED" THEN painted
                            ELSE [stopped EXCEPT !.state = "PAUSED", !.repaintHook = FALSE]
    BY DEF Pause, painted, q
  <1>5. CASE painted.state = "CRASHED"
    BY <1>2, <1>4, <1>5
  <1>6. CASE painted.state # "CRASHED"
    <2> HIDE DEF stopped
    <2> DEFINE s == [stopped EXCEPT !.state = "PAUSED", !.repaintHook = FALSE]
    <2>1. /\ s \in RecorderType /\ ~s.late /\ s.state = "PAUSED" /\ s.refs = stopped.refs /\ ~s.repaintHook
          /\ s.pointerTimer = stopped.pointerTimer /\ s.current = stopped.current /\ s.closed = stopped.closed
      BY <1>3 DEF Consistent, RecorderType
    <2> QED BY <1>2, <1>3, <1>4, <1>6, <2>1 DEF Consistent
  <1> QED BY <1>5, <1>6

\* shell_recorder_close() leaves nothing behind: with a pipeline to feed or without.
LEMMA CloseConsistent ==
  ASSUME NEW sp, NEW r, Consistent(r, sp), r.state \in {"PAUSED", "RECORDING"}, NEW skipped \in BOOLEAN
  PROVE  /\ Consistent(Close(r, skipped), sp) /\ r.closed \subseteq Close(r, skipped).closed
         /\ Close(r, skipped).state \in {"CLOSED", "CRASHED"}
  <1> DEFINE paused == IF r.state = "RECORDING" THEN Pause(r, skipped) ELSE r
             last == ClosePipeline(paused)
             s == [last EXCEPT !.state = "CLOSED", !.refs = @ - 1, !.pointerTimer = FALSE, !.redrawTimer = FALSE]
  <1>1. /\ Consistent(paused, sp) /\ r.closed \subseteq paused.closed
        /\ paused.state \in {"PAUSED", "CRASHED"}
    BY PauseConsistent
  <1>2. Close(r, skipped) = IF paused.state = "CRASHED" THEN paused ELSE s
    BY DEF Close
  <1> HIDE DEF paused
  <1>3. CASE paused.state = "CRASHED"
    BY <1>1, <1>2, <1>3
  <1>4. CASE paused.state # "CRASHED"
    <2>1. /\ Consistent(last, sp) /\ last.state = "PAUSED" /\ r.closed \subseteq last.closed
          /\ last.current = NoPipeline
      BY <1>1, <1>4, ClosePipelineConsistent
    <2> HIDE DEF last
    <2> DEFINE n == last.refs - 1
    <2>2. n \in 0 .. MaxRefs
      BY <2>1, RecorderAssumption DEF Consistent, RecorderType
    <2> HIDE DEF n
    <2>3. s = [last EXCEPT !.state = "CLOSED", !.refs = n, !.pointerTimer = FALSE, !.redrawTimer = FALSE]
      BY DEF n
    <2> HIDE DEF s
    <2>4. /\ s \in RecorderType /\ ~s.late /\ s.state = "CLOSED" /\ ~s.redrawTimer /\ ~s.pointerTimer
          /\ s.repaintHook = last.repaintHook /\ s.current = NoPipeline /\ s.closed = last.closed
      BY <2>1, <2>2, <2>3 DEF Consistent, RecorderType
    <2> QED BY <1>2, <1>4, <2>1, <2>4 DEF Consistent
  <1> QED BY <1>3, <1>4

\* Every step of the recorder keeps its invariant.
LEMMA RecorderStep == RecorderInv /\ [RecorderNext]_recorderVars => RecorderInv'
  <1> SUFFICES ASSUME RecorderInv, [RecorderNext]_recorderVars PROVE RecorderInv'
    OBVIOUS
  <1> USE RecorderAssumption
  <1>0. /\ Consistent(recorder, spent) /\ recorder \in RecorderType
        /\ finishing \subseteq recorder.closed /\ recorder.closed \subseteq Pipelines
        /\ {countInName, stageThere} \subseteq BOOLEAN /\ spent \subseteq Pipelines
    BY DEF RecorderInv, Consistent, RecorderType
  \* What the recorder becomes, in all the steps that free no pipeline
  <1> DEFINE Sound(r, sp) == /\ Consistent(r, sp) /\ recorder.closed \subseteq r.closed
                             /\ r.state = "RECORDING" => r.current # NoPipeline
  <1>1. ASSUME NEW r, Become(r), Sound(r, spent'), spent' \subseteq Pipelines,
               {countInName', stageThere'} \subseteq BOOLEAN
        PROVE  RecorderInv'
    <2>1. recorder' = r /\ finishing' = finishing \cup (r.closed \ recorder.closed)
      BY <1>1 DEF Become
    <2>2. r.closed \subseteq Pipelines
      BY <1>1 DEF Consistent, RecorderType
    <2> QED BY <1>0, <1>1, <2>1, <2>2 DEF RecorderInv
  <1>2. ASSUME NEW skipped \in BOOLEAN
        PROVE  Sound(IF recorder.current # NoPipeline THEN Close(recorder, skipped) ELSE recorder, spent)
               \/ recorder.state = "CRASHED"
    <2>1. CASE recorder.current # NoPipeline /\ recorder.state # "CRASHED"
      <3>1. recorder.state \in {"PAUSED", "RECORDING"}
        BY <1>0, <2>1 DEF Consistent, RecorderType
      <3> QED BY <1>0, <2>1, <3>1, CloseConsistent
    <2>2. CASE recorder.current = NoPipeline
      BY <1>0, <2>2 DEF RecorderInv
    <2> QED BY <2>1, <2>2
  <1>3. CASE Resumed
    <2>1. Sound(RecordAgain(recorder), spent)
      <3> DEFINE n == recorder.refs + 1
                 s == [recorder EXCEPT !.state = "RECORDING", !.refs = n, !.pointerTimer = TRUE, !.repaintHook = TRUE]
      <3>1. n \in 0 .. MaxRefs /\ n >= 1 /\ recorder.current # NoPipeline
        BY <1>0, <1>3 DEF Resumed, RecorderType
      <3>2. RecordAgain(recorder) = s
        BY DEF RecordAgain
      <3> HIDE DEF n
      <3>3. /\ s \in RecorderType /\ ~s.late /\ s.state = "RECORDING" /\ s.refs = n
            /\ s.current = recorder.current /\ s.closed = recorder.closed
        BY <1>0, <3>1 DEF Consistent, RecorderType
      <3> HIDE DEF s
      <3> QED BY <1>0, <3>1, <3>2, <3>3 DEF Consistent
    <2> QED BY <1>0, <1>1, <1>3, <2>1 DEF Resumed
  <1>4. ASSUME NEW p \in Pipelines, Started(p) PROVE RecorderInv'
    <2> DEFINE n == recorder.refs + 1
               h == recorder.hasCount \/ countInName
               s == [recorder EXCEPT !.current = p, !.hasCount = h, !.state = "RECORDING", !.refs = n,
                                     !.pointerTimer = TRUE, !.repaintHook = TRUE]
    <2>1. n \in 0 .. MaxRefs /\ n >= 1
      BY <1>0, <1>4 DEF Started, RecorderType
    <2>2. h \in BOOLEAN
      OBVIOUS
    <2>3. Become(s)
      BY <1>4 DEF Started, RecordAgain
    <2> HIDE DEF n, h
    <2>4. /\ s \in RecorderType /\ ~s.late /\ s.state = "RECORDING" /\ s.refs = n
          /\ s.current = p /\ s.closed = recorder.closed
      BY <1>0, <2>1, <2>2 DEF Consistent, RecorderType
    <2> HIDE DEF s
    <2>5. Sound(s, spent)
      BY <1>4, <2>1, <2>4 DEF Consistent, Started
    <2> QED BY <1>0, <1>1, <1>4, <2>3, <2>5 DEF Started
  <1>5. CASE StartFails
    <2>1. PICK seen \in BOOLEAN : Become([recorder EXCEPT !.hasCount = @ \/ (seen /\ countInName)])
      BY <1>5 DEF StartFails
    <2> DEFINE h == recorder.hasCount \/ (seen /\ countInName)
               s == [recorder EXCEPT !.hasCount = h]
    <2>2. h \in BOOLEAN
      OBVIOUS
    <2>3. Become(s)
      BY <2>1
    <2> HIDE DEF h
    <2>4. Sound(s, spent)
      BY <1>0, <2>2 DEF Consistent, RecorderType, RecorderInv
    <2> HIDE DEF s
    <2> QED BY <1>0, <1>1, <1>5, <2>3, <2>4 DEF StartFails
  <1>6. CASE RedrawTimeout
    <2> DEFINE s == [recorder EXCEPT !.redrawTimer = FALSE]
    <2>1. Become(s)
      BY <1>6 DEF RedrawTimeout
    <2>2. Sound(s, spent)
      BY <1>0 DEF Consistent, RecorderType, RecorderInv
    <2> HIDE DEF s
    <2> QED BY <1>0, <1>1, <1>6, <2>1, <2>2 DEF RedrawTimeout
  <1>7. ASSUME NEW skipped \in BOOLEAN, Paused(skipped) PROVE RecorderInv'
    <2>1. Sound(Pause(recorder, skipped), spent)
      BY <1>0, <1>7, PauseConsistent DEF Paused
    <2> QED BY <1>0, <1>1, <1>7, <2>1 DEF Paused
  <1>8. ASSUME NEW skipped \in BOOLEAN, Closed(skipped) PROVE RecorderInv'
    <2>1. Sound(Close(recorder, skipped), spent)
      BY <1>0, <1>8, CloseConsistent DEF Closed
    <2> QED BY <1>0, <1>1, <1>8, <2>1 DEF Closed
  <1>9. ASSUME NEW skipped \in BOOLEAN, PropertySet(skipped) \/ StageDestroyed(skipped) PROVE RecorderInv'
    <2> DEFINE r == IF recorder.current # NoPipeline THEN Close(recorder, skipped) ELSE recorder
    <2>1. Become(r) /\ spent' = spent /\ recorder.state # "CRASHED" /\ {countInName', stageThere'} \subseteq BOOLEAN
      BY <1>0, <1>9 DEF PropertySet, StageDestroyed, Alive
    <2>2. Sound(r, spent)
      BY <1>2, <2>1
    <2> HIDE DEF r
    <2> QED BY <1>0, <1>1, <2>1, <2>2
  <1>10. ASSUME NEW skipped \in BOOLEAN, StagePainted(skipped) PROVE RecorderInv'
    <2>1. Sound(Paint(recorder, skipped), spent)
      BY <1>0, PaintConsistent DEF RecorderInv
    <2> QED BY <1>0, <1>1, <1>10, <2>1 DEF StagePainted
  <1>11. ASSUME NEW p \in Pipelines, PipelineEnded(p) PROVE RecorderInv'
    <2>1. recorder.current # NoPipeline => recorder.current # p
      BY <1>0, <1>11 DEF Consistent, PipelineEnded
    <2> QED BY <1>0, <1>11, <2>1 DEF PipelineEnded, RecorderInv, Consistent
  <1>12. ASSUME NEW skipped \in BOOLEAN, NEW p \in Pipelines, PipelineFailed(p, skipped) PROVE RecorderInv'
    <2> DEFINE q == [recorder EXCEPT !.current = NoPipeline]
    <2>1. /\ recorder.current = p /\ Become(Close(q, skipped)) /\ spent' = spent \cup {p}
          /\ recorder.state \in {"PAUSED", "RECORDING"} /\ UNCHANGED <<countInName, stageThere>>
      BY <1>0, <1>12 DEF PipelineFailed, Alive, Consistent, RecorderType
    <2>2. Consistent(q, spent') /\ q.state = recorder.state /\ q.closed = recorder.closed
      BY <1>0, <2>1 DEF Consistent, RecorderType
    <2> HIDE DEF q
    <2>3. Sound(Close(q, skipped), spent')
      BY <2>1, <2>2, CloseConsistent
    <2> QED BY <1>0, <1>1, <2>1, <2>3
  <1>13. CASE UNCHANGED recorderVars
    BY <1>13 DEF recorderVars, RecorderInv, Consistent
  <1> QED BY <1>3, <1>4, <1>5, <1>6, <1>7, <1>8, <1>9, <1>10, <1>11, <1>12, <1>13 DEF RecorderNext

\* While it records, the recorder feeds a pipeline that is open, and one that is closed is
\* quiet, for any number of pipelines and whatever fails (shell_recorder_record(),
\* shell_recorder_pause(), shell_recorder_close(), recorder_pipeline_bus_watch()).
THEOREM RecorderRecordingIsSound == RecorderSpec => []RecordingIsSound
  <1>1. RecorderInit => RecorderInv
    BY RecorderAssumption DEF RecorderInit, RecorderInv, Consistent, RecorderType
  <1>2. RecorderInv => RecordingIsSound
    BY DEF RecorderInv, Consistent, RecorderType, RecordingIsSound, RecorderTypeOK, RecordingFeedsPipeline,
           ClosedIsQuiet, Alive
  <1> QED BY <1>1, <1>2, RecorderStep, PTL DEF RecorderSpec

-----------------------------------------------------------------------------
(***************************************************************************)
(* The texture cache                                                       *)
(***************************************************************************)

\* A set whose elements are equal has at most one.
LEMMA AtMostOne ==
  ASSUME NEW S, \A x, y \in S : x = y
  PROVE  Cardinality(S) <= 1
  <1>1. CASE S = {}
    BY <1>1, FS_EmptySet
  <1>2. CASE S # {}
    <2>1. PICK x : S = {x}
      BY <1>2
    <2> QED BY <2>1, FS_Singleton
  <1> QED BY <1>1, <1>2

Cached == Icons \ Unkeyed

\* What is so of the requests besides their types: what they load is something, and it
\* is of the key of all the textures that wait in them.
Awaited == \A r \in requests : r.data # NoData /\ \A t \in r.textures : r.key = shown[t].key
OneWait == \A r, q \in requests : \A t \in r.textures \cap q.textures : r = q
OneLoad ==
  \A r \in requests :
    /\ r.listed <=> r.key \in Cached
    /\ r.key \in Cached => keyedCache[r.key] = NoData /\ \A q \in requests : q.key = r.key => q = r
Served ==
  \A t \in Textures :
    shown[t].key = NoData \/ shown[t].data # NoData \/ t \in failed \/ \E r \in requests : t \in r.textures
BindingWhole ==
  /\ bound.handler = bound.weakRef /\ bound.allocated = bound.weakRef
  /\ bound.handler => bound.source /\ bound.texture

CacheInv == CacheTypeOK /\ Awaited /\ OneWait /\ OneLoad /\ Served /\ BindingWhole

\* A load that starts now brings something.
LEMMA DataNowIsData ==
  ASSUME CacheTypeOK, NEW k \in Keys
  PROVE  DataNow(k) \in Data /\ DataNow(k) # NoData
  BY TextureCacheAssumption DEF CacheTypeOK, DataNow, Data

\* ensure_request() keeps the invariant: the texture shows what is cached, joins the request
\* for its key, or is the first of a new one.
LEMMA EnsureRequestKeeps ==
  ASSUME CacheInv, NEW t \in Textures, NEW k \in Icons \cup Uris, NEW forever \in BOOLEAN, Unmade(t),
         forever <=> k \in Cached, EnsureRequest(t, k, forever), UNCHANGED <<keyedCache, iconTheme, failed, bound>>
  PROVE  CacheInv'
  <1> USE TextureCacheAssumption
  <1> DEFINE pending == {r \in requests : r.key = k /\ r.listed}
             built == [key |-> k, listed |-> forever, data |-> DataNow(k), textures |-> {t}]
             Joined(r) == IF r \in pending THEN [r EXCEPT !.textures = @ \cup {t}] ELSE r
  <1>0. k \in Keys /\ CacheTypeOK /\ requests \subseteq RequestType
    BY DEF CacheInv, CacheTypeOK, Keys
  <1>1. \A r \in requests : r.key \in Keys /\ r.key # NoData /\ t \notin r.textures
    BY <1>0 DEF CacheInv, Awaited, Unmade, RequestType
  <1>2. /\ shown' \in [Textures -> [key : Keys \cup {NoData}, data : Data]]
        /\ shown'[t].key = k /\ shown'[t].data = keyedCache[k] /\ \A u \in Textures \ {t} : shown'[u] = shown[u]
    BY <1>0 DEF EnsureRequest, CacheTypeOK
  <1>3. BindingWhole' /\ keyedCache' = keyedCache /\ failed' = failed
    BY DEF CacheInv, BindingWhole
  <1>4. CASE keyedCache[k] # NoData
    <2>1. requests' = requests
      BY <1>4 DEF EnsureRequest
    <2>2. CacheTypeOK'
      BY <1>0, <1>2, <2>1 DEF CacheTypeOK
    <2>3. Awaited' /\ OneWait' /\ OneLoad'
      BY <1>0, <1>1, <1>2, <1>3, <2>1 DEF CacheInv, Awaited, OneWait, OneLoad, RequestType
    <2>4. Served'
      BY <1>2, <1>3, <1>4, <2>1 DEF CacheInv, Served
    <2> QED BY <1>3, <2>2, <2>3, <2>4 DEF CacheInv
  <1>5. CASE keyedCache[k] = NoData /\ pending # {}
    <2>1. requests' = {Joined(r) : r \in requests}
      BY <1>5 DEF EnsureRequest
    <2>2. \A r \in requests :
            /\ Joined(r) \in RequestType
            /\ Joined(r).key = r.key /\ Joined(r).listed = r.listed /\ Joined(r).data = r.data
            /\ Joined(r).textures = IF r \in pending THEN r.textures \cup {t} ELSE r.textures
      BY <1>0 DEF RequestType
    <2>3. \A r, q \in pending : r = q
      BY DEF CacheInv, OneLoad
    <2>4. pending \subseteq requests /\ \E r \in pending : TRUE
      BY <1>5
    <2> HIDE DEF Joined, pending
    <2>5. /\ \A r \in requests : Joined(r) \in requests'
          /\ \A p \in requests' : \E r \in requests : p = Joined(r)
      BY <2>1
    <2>6. requests' \subseteq RequestType
      BY <2>2, <2>5
    <2>7. CacheTypeOK'
      BY <1>0, <1>2, <2>6 DEF CacheTypeOK
    <2>8. Awaited'
      <3> SUFFICES ASSUME NEW r \in requests
                   PROVE  Joined(r).data # NoData /\ \A u \in Joined(r).textures : Joined(r).key = shown'[u].key
        BY <2>5 DEF Awaited
      <3>1. r.data # NoData /\ r \in RequestType /\ \A u \in r.textures : r.key = shown[u].key
        BY <1>0 DEF CacheInv, Awaited
      <3>2. r \in pending => r.key = k
        BY DEF pending
      <3>3. \A u \in r.textures : u \in Textures \ {t}
        BY <1>1, <3>1 DEF RequestType
      <3>4. \A u \in r.textures : r.key = shown'[u].key
        BY <1>2, <3>1, <3>3
      <3>5. CASE r \in pending
        <4>1. Joined(r).key = k /\ Joined(r).textures = r.textures \cup {t} /\ Joined(r).data = r.data
          BY <2>2, <3>2, <3>5
        <4> QED BY <1>2, <3>1, <3>2, <3>4, <3>5, <4>1
      <3>6. CASE r \notin pending
        <4>1. Joined(r).key = r.key /\ Joined(r).textures = r.textures /\ Joined(r).data = r.data
          BY <2>2, <3>6
        <4> QED BY <3>1, <3>4, <4>1
      <3> QED BY <3>5, <3>6
    <2>9. OneWait'
      <3> SUFFICES ASSUME NEW r \in requests, NEW q \in requests, NEW u \in Joined(r).textures \cap Joined(q).textures
                   PROVE  r = q
        BY <2>5 DEF OneWait
      <3>1. CASE u = t
        BY <1>1, <2>2, <2>3, <3>1
      <3>2. CASE u # t
        <4>2. u \in Joined(r).textures /\ u \in Joined(q).textures
          OBVIOUS
        <4>3. Joined(r).textures = IF r \in pending THEN r.textures \cup {t} ELSE r.textures
          BY <2>2
        <4>4. Joined(q).textures = IF q \in pending THEN q.textures \cup {t} ELSE q.textures
          BY <2>2
        <4> HIDE DEF Joined
        <4>1. u \in r.textures \cap q.textures
          BY <3>2, <4>2, <4>3, <4>4
        <4> QED BY <4>1 DEF CacheInv, OneWait
      <3> QED BY <3>1, <3>2
    <2>10. OneLoad'
      <3> SUFFICES ASSUME NEW r \in requests
                   PROVE  /\ Joined(r).listed <=> Joined(r).key \in Cached
                          /\ Joined(r).key \in Cached =>
                                keyedCache[Joined(r).key] = NoData
                                /\ \A q \in requests : Joined(q).key = Joined(r).key => q = r
        BY <1>3, <2>5 DEF OneLoad
      <3>1. Joined(r).key = r.key /\ Joined(r).listed = r.listed
        BY <2>2
      <3>2. \A q \in requests : Joined(q).key = q.key
        BY <2>2
      <3>3. /\ r.listed <=> r.key \in Cached
            /\ r.key \in Cached => keyedCache[r.key] = NoData
            /\ r.key \in Cached => \A q \in requests : q.key = r.key => q = r
        BY DEF CacheInv, OneLoad
      <3> QED BY <3>1, <3>2, <3>3
    <2>11. Served'
      <3>1. \E r \in requests' : t \in r.textures
        BY <2>2, <2>4, <2>5
      <3>2. \A u \in Textures : (\E r \in requests : u \in r.textures) => \E r \in requests' : u \in r.textures
        BY <2>2, <2>5
      <3> QED BY <1>2, <1>3, <3>1, <3>2 DEF CacheInv, Served
    <2> QED BY <1>3, <2>7, <2>8, <2>9, <2>10, <2>11 DEF CacheInv
  <1>6. CASE keyedCache[k] = NoData /\ pending = {}
    <2>1. requests' = requests \cup {built}
      BY <1>6 DEF EnsureRequest
    <2>2. /\ built \in RequestType /\ built.key = k /\ built.listed = forever /\ built.data # NoData /\ built.textures = {t}
      BY <1>0, DataNowIsData DEF RequestType
    <2> HIDE DEF built
    <2>3. CacheTypeOK'
      BY <1>0, <1>2, <2>1, <2>2 DEF CacheTypeOK
    <2>4. Awaited'
      BY <1>0, <1>1, <1>2, <2>1, <2>2 DEF CacheInv, Awaited, RequestType
    <2>5. OneWait'
      BY <1>1, <2>1, <2>2 DEF CacheInv, OneWait
    <2>6. OneLoad'
      <3>1. k \in Cached => \A r \in requests : r.key # k
        BY <1>6 DEF CacheInv, OneLoad
      <3> QED BY <1>3, <1>6, <2>1, <2>2, <3>1 DEF CacheInv, OneLoad
    <2>7. Served'
      BY <1>2, <1>3, <2>1, <2>2 DEF CacheInv, Served
    <2> QED BY <1>3, <2>3, <2>4, <2>5, <2>6, <2>7 DEF CacheInv
  <1> QED BY <1>4, <1>5, <1>6

\* A texture that is not made is in no request.
LEMMA UnmadeWaitsNowhere ==
  ASSUME CacheInv, NEW t \in Textures, Unmade(t)
  PROVE  \A r \in requests : t \notin r.textures
  BY TextureCacheAssumption DEF CacheInv, CacheTypeOK, Awaited, Unmade, RequestType

\* A symbolic icon that the theme does not have keeps the invariant.
LEMMA LoadIconMissingKeeps ==
  ASSUME CacheInv, NEW t \in Textures, NEW k \in Icons, LoadIconMissing(t, k)
  PROVE  CacheInv'
  <1>1. /\ Unmade(t) /\ failed' = failed \cup {t} /\ k \in Keys
        /\ keyedCache' = keyedCache /\ requests' = requests /\ iconTheme' = iconTheme /\ bound' = bound
    BY DEF LoadIconMissing, Keys
  <1>2. \A r \in requests : t \notin r.textures
    BY <1>1, UnmadeWaitsNowhere
  <1>3. /\ shown' \in [Textures -> [key : Keys \cup {NoData}, data : Data]]
        /\ \A u \in Textures \ {t} : shown'[u] = shown[u]
    BY <1>1 DEF LoadIconMissing, CacheInv, CacheTypeOK
  <1>4. CacheTypeOK'
    BY <1>1, <1>3 DEF CacheInv, CacheTypeOK
  <1>5. Awaited'
    <2> SUFFICES ASSUME NEW r \in requests
                 PROVE  r.data # NoData /\ \A u \in r.textures : r.key = shown'[u].key
      BY <1>1 DEF Awaited
    <2>1. r.textures \subseteq Textures \ {t}
      BY <1>2 DEF CacheInv, CacheTypeOK, RequestType
    <2> QED BY <1>3, <2>1 DEF CacheInv, Awaited
  <1>6. OneWait' /\ OneLoad' /\ BindingWhole'
    BY <1>1 DEF CacheInv, OneWait, OneLoad, BindingWhole
  <1>7. Served'
    BY <1>1, <1>3 DEF CacheInv, Served
  <1> QED BY <1>4, <1>5, <1>6, <1>7 DEF CacheInv

\* st_texture_cache_load_from_raw() keeps the invariant.
LEMMA LoadFromRawKeeps ==
  ASSUME CacheInv, NEW t \in Textures, NEW k \in Raws, LoadFromRaw(t, k)
  PROVE  CacheInv'
  <1>1. /\ Unmade(t) /\ failed' = failed /\ k \in Keys /\ k \notin Cached
        /\ requests' = requests /\ iconTheme' = iconTheme /\ bound' = bound
    BY TextureCacheAssumption DEF LoadFromRaw, Keys, Cached
  <1>2. \A r \in requests : t \notin r.textures
    BY <1>1, UnmadeWaitsNowhere
  <1>3. /\ DataNow(k) \in Data /\ DataNow(k) # NoData
    BY <1>1, DataNowIsData DEF CacheInv
  <1>4. /\ keyedCache' \in [Keys -> Data] /\ keyedCache'[k] = DataNow(k)
        /\ \A c \in Cached : keyedCache'[c] = keyedCache[c]
    BY <1>1, <1>3 DEF LoadFromRaw, CacheInv, CacheTypeOK, Cached, Keys
  <1>5. /\ shown' \in [Textures -> [key : Keys \cup {NoData}, data : Data]]
        /\ shown'[t].data = DataNow(k) /\ \A u \in Textures \ {t} : shown'[u] = shown[u]
    BY <1>1, <1>3, <1>4 DEF LoadFromRaw, CacheInv, CacheTypeOK
  <1>6. CacheTypeOK'
    BY <1>1, <1>4, <1>5 DEF CacheInv, CacheTypeOK
  <1>7. Awaited'
    <2> SUFFICES ASSUME NEW r \in requests
                 PROVE  r.data # NoData /\ \A u \in r.textures : r.key = shown'[u].key
      BY <1>1 DEF Awaited
    <2>1. r.textures \subseteq Textures \ {t}
      BY <1>2 DEF CacheInv, CacheTypeOK, RequestType
    <2> QED BY <1>5, <2>1 DEF CacheInv, Awaited
  <1>8. OneWait' /\ OneLoad' /\ BindingWhole'
    BY <1>1, <1>4 DEF CacheInv, OneWait, OneLoad, BindingWhole, Cached
  <1>9. Served'
    BY <1>1, <1>3, <1>5 DEF CacheInv, Served
  <1> QED BY <1>6, <1>7, <1>8, <1>9 DEF CacheInv

\* on_pixbuf_loaded() keeps the invariant: the request that ends is the only one of its
\* texture, and the only one of its key when the key is cached.
LEMMA PixbufLoadedKeeps ==
  ASSUME CacheInv, NEW r \in requests, NEW ok \in BOOLEAN, PixbufLoaded(r, ok)
  PROVE  CacheInv'
  <1>0. /\ CacheTypeOK /\ r \in RequestType /\ r.key \in Keys /\ r.data \in Data /\ r.data # NoData
        /\ r.textures \subseteq Textures /\ iconTheme' = iconTheme /\ bound' = bound
    BY DEF CacheInv, CacheTypeOK, Awaited, RequestType, PixbufLoaded
  <1>1. requests' = requests \ {r}
    <2>1. \A q \in requests \ {r} : (IF q.key = r.key THEN [q EXCEPT !.listed = FALSE] ELSE q) = q
      <3> SUFFICES ASSUME NEW q \in requests \ {r}, q.key = r.key
                   PROVE  [q EXCEPT !.listed = FALSE] = q
        OBVIOUS
      <3>1. q.key \notin Cached /\ ~q.listed
        BY DEF CacheInv, OneLoad
      <3>2. q \in RequestType /\ q.listed = FALSE
        BY <1>0, <3>1 DEF CacheTypeOK, RequestType
      <3> QED BY <3>2 DEF RequestType
    <2>2. requests' = {IF q.key = r.key THEN [q EXCEPT !.listed = FALSE] ELSE q : q \in requests \ {r}}
      BY DEF PixbufLoaded
    <2> QED BY <2>1, <2>2
  <1>2. /\ keyedCache' \in [Keys -> Data]
        /\ \A c \in Cached : c # r.key => keyedCache'[c] = keyedCache[c]
    BY <1>0 DEF PixbufLoaded, CacheTypeOK
  <1>3. /\ shown' \in [Textures -> [key : Keys \cup {NoData}, data : Data]]
        /\ \A u \in Textures :
             /\ shown'[u].key = shown[u].key
             /\ u \notin r.textures => shown'[u].data = shown[u].data
             /\ u \in r.textures /\ ok => shown'[u].data # NoData
             /\ shown[u].data # NoData => shown'[u].data # NoData
    <2>1. CASE ok
      <3>1. shown' = [t \in Textures |-> IF t \in r.textures THEN [shown[t] EXCEPT !.data = r.data] ELSE shown[t]]
        BY <2>1 DEF PixbufLoaded, Filled
      <3>2. \A u \in Textures : shown[u] \in [key : Keys \cup {NoData}, data : Data]
        BY <1>0 DEF CacheTypeOK
      <3> QED BY <1>0, <2>1, <3>1, <3>2
    <2>2. CASE ~ok
      BY <1>0, <2>2 DEF PixbufLoaded, CacheTypeOK
    <2> QED BY <2>1, <2>2
  <1>4. failed \subseteq failed' /\ failed' \subseteq Textures /\ (~ok => r.textures \subseteq failed')
    BY <1>0 DEF PixbufLoaded, CacheTypeOK
  <1>5. CacheTypeOK'
    BY <1>0, <1>1, <1>2, <1>3, <1>4 DEF CacheTypeOK
  <1>6. Awaited'
    <2> SUFFICES ASSUME NEW q \in requests
                 PROVE  q.data # NoData /\ \A u \in q.textures : q.key = shown'[u].key
      BY <1>1 DEF Awaited
    <2>1. q.textures \subseteq Textures
      BY <1>0 DEF CacheTypeOK, RequestType
    <2> QED BY <1>3, <2>1 DEF CacheInv, Awaited
  <1>7. OneWait'
    BY <1>1 DEF CacheInv, OneWait
  <1>8. OneLoad'
    <2> SUFFICES ASSUME NEW q \in requests \ {r}
                 PROVE  /\ q.listed <=> q.key \in Cached
                        /\ q.key \in Cached => /\ keyedCache'[q.key] = NoData
                                               /\ \A p \in requests \ {r} : p.key = q.key => p = q
      BY <1>1 DEF OneLoad
    <2>1. q.key \in Cached => q.key # r.key
      BY DEF CacheInv, OneLoad
    <2> QED BY <1>2, <2>1 DEF CacheInv, OneLoad
  <1>9. Served'
    <2> SUFFICES ASSUME NEW u \in Textures, shown'[u].key # NoData, shown'[u].data = NoData, u \notin failed'
                 PROVE  \E q \in requests \ {r} : u \in q.textures
      BY <1>1 DEF Served
    <2>1. u \notin r.textures
      BY <1>3, <1>4
    <2>2. shown[u].key # NoData /\ shown[u].data = NoData /\ u \notin failed
      BY <1>3, <1>4
    <2> QED BY <2>1, <2>2 DEF CacheInv, Served
  <1>10. BindingWhole'
    BY <1>0 DEF CacheInv, BindingWhole
  <1> QED BY <1>5, <1>6, <1>7, <1>8, <1>9, <1>10 DEF CacheInv

\* What puts an image of a file into the cache and what empties it of icons keep the
\* invariant: neither fills the key of a request.
LEMMA KeptImagesKeep ==
  ASSUME CacheInv,
         (\E k \in Uris : LoadUriSync(k)) \/ IconThemeChanged
  PROVE  CacheInv'
  <1>1. /\ requests' = requests /\ shown' = shown /\ failed' = failed /\ bound' = bound
        /\ iconTheme' \in 0 .. MaxThemes
    BY TextureCacheAssumption DEF LoadUriSync, IconThemeChanged, CacheInv, CacheTypeOK
  <1>2. keyedCache' \in [Keys -> Data] /\ \A c \in Cached : keyedCache'[c] \in {NoData, keyedCache[c]}
    <2>1. CASE \E k \in Uris : LoadUriSync(k)
      <3>1. PICK k \in Uris : LoadUriSync(k)
        BY <2>1
      <3>2. k \in Keys /\ k \notin Cached
        BY TextureCacheAssumption DEF Keys, Cached
      <3>3. DataNow(k) \in Data
        BY <3>2, DataNowIsData DEF CacheInv
      <3> QED BY <3>1, <3>2, <3>3 DEF LoadUriSync, CacheInv, CacheTypeOK, Cached, Keys
    <2>2. CASE IconThemeChanged
      BY <2>2 DEF IconThemeChanged, CacheInv, CacheTypeOK, Cached, Keys, Data
    <2> QED BY <2>1, <2>2
  <1>3. CacheTypeOK'
    BY <1>1, <1>2 DEF CacheInv, CacheTypeOK
  <1>4. Awaited' /\ OneWait' /\ Served' /\ BindingWhole'
    BY <1>1 DEF CacheInv, Awaited, OneWait, Served, BindingWhole
  <1>5. OneLoad'
    BY <1>1, <1>2 DEF CacheInv, OneLoad
  <1> QED BY <1>3, <1>4, <1>5 DEF CacheInv

\* Both ends of a binding may go first, and each takes what is left of it.
LEMMA BindingsKeep ==
  ASSUME CacheInv, BindPixbufProperty \/ BindWeakNotify \/ FreeBind
  PROVE  CacheInv'
  <1>1. UNCHANGED <<keyedCache, requests, shown, iconTheme, failed>>
    BY DEF BindPixbufProperty, BindWeakNotify, FreeBind
  <1>2. /\ bound' \in [texture : BOOLEAN, source : BOOLEAN, handler : BOOLEAN, weakRef : BOOLEAN, allocated : BOOLEAN]
        /\ BindingWhole'
    <2> DEFINE Binding == [texture : BOOLEAN, source : BOOLEAN, handler : BOOLEAN, weakRef : BOOLEAN, allocated : BOOLEAN]
    <2>1. bound \in Binding
      BY DEF CacheInv, CacheTypeOK
    <2>2. CASE BindPixbufProperty
      BY <2>2 DEF BindingWhole, BindPixbufProperty
    <2>3. CASE BindWeakNotify
      BY <2>1, <2>3 DEF CacheInv, BindingWhole, BindWeakNotify
    <2>4. CASE FreeBind
      BY <2>1, <2>4 DEF CacheInv, BindingWhole, FreeBind
    <2> QED BY <2>2, <2>3, <2>4
  <1>3. CacheTypeOK'
    BY <1>1, <1>2 DEF CacheInv, CacheTypeOK
  <1>4. Awaited' /\ OneWait' /\ OneLoad' /\ Served'
    BY <1>1 DEF CacheInv, Awaited, OneWait, OneLoad, Served
  <1> QED BY <1>2, <1>3, <1>4 DEF CacheInv

\* Every step of the cache keeps its invariant.
LEMMA CacheStep == CacheInv /\ [CacheNext]_cacheVars => CacheInv'
  <1> SUFFICES ASSUME CacheInv, [CacheNext]_cacheVars
               PROVE  CacheInv'
    OBVIOUS
  <1>1. ASSUME NEW t \in Textures, NEW k \in Icons, LoadGicon(t, k)
        PROVE  CacheInv'
    <2>1. k \in Icons \cup Uris /\ (k \notin Unkeyed <=> k \in Cached) /\ (k \notin Unkeyed) \in BOOLEAN
      BY DEF Cached
    <2> QED BY <1>1, <2>1, EnsureRequestKeeps DEF LoadGicon
  <1>2. ASSUME NEW t \in Textures, NEW k \in Uris, LoadUriAsync(t, k)
        PROVE  CacheInv'
    <2>1. k \in Icons \cup Uris /\ (FALSE <=> k \in Cached) /\ FALSE \in BOOLEAN
      BY TextureCacheAssumption DEF Cached
    <2> QED BY <1>2, <2>1, EnsureRequestKeeps DEF LoadUriAsync
  <1>3. CASE UNCHANGED cacheVars
    BY <1>3 DEF cacheVars, CacheInv, CacheTypeOK, Awaited, OneWait, OneLoad, Served, BindingWhole
  <1>4. ASSUME NEW t \in Textures, NEW k \in Icons, LoadIconMissing(t, k)
        PROVE  CacheInv'
    BY <1>4, LoadIconMissingKeeps
  <1>5. ASSUME NEW t \in Textures, NEW k \in Raws, LoadFromRaw(t, k)
        PROVE  CacheInv'
    BY <1>5, LoadFromRawKeeps
  <1>6. ASSUME NEW r \in requests, NEW ok \in BOOLEAN, PixbufLoaded(r, ok)
        PROVE  CacheInv'
    BY <1>6, PixbufLoadedKeeps
  <1>7. CASE (\E k \in Uris : LoadUriSync(k)) \/ IconThemeChanged
    BY <1>7, KeptImagesKeep
  <1>8. CASE BindPixbufProperty \/ BindWeakNotify \/ FreeBind
    BY <1>8, BindingsKeep
  <1>9. CASE CacheNext
    <2>1. \/ \E t \in Textures, k \in Icons : LoadGicon(t, k)
          \/ \E t \in Textures, k \in Icons : LoadIconMissing(t, k)
          \/ \E t \in Textures, k \in Uris : LoadUriAsync(t, k)
          \/ \E t \in Textures, k \in Raws : LoadFromRaw(t, k)
          \/ \E r \in requests, ok \in BOOLEAN : PixbufLoaded(r, ok)
          \/ (\E k \in Uris : LoadUriSync(k)) \/ IconThemeChanged
          \/ BindPixbufProperty \/ BindWeakNotify \/ FreeBind
      BY <1>9, Zenon DEF CacheNext
    <2> QED BY <1>1, <1>2, <1>4, <1>5, <1>6, <1>7, <1>8, <2>1
  <1> QED BY <1>3, <1>9

\* An empty cache has the invariant.
LEMMA CacheStart == CacheInit => CacheInv
  BY TextureCacheAssumption
     DEF CacheInit, CacheInv, CacheTypeOK, Data, RequestType, Awaited, OneWait, OneLoad, Served, BindingWhole

\* The invariant implies the property: the sets of requests have at most one element.
LEMMA CacheArrives == CacheInv => TexturesArrive
  <1> SUFFICES ASSUME CacheInv
               PROVE  TexturesArrive
    OBVIOUS
  <1>1. LoadedOnce
    <2> SUFFICES ASSUME NEW k \in Cached
                 PROVE  LET loads == {r \in requests : r.key = k} IN
                        Cardinality(loads) <= 1 /\ (keyedCache[k] # NoData => loads = {})
      BY DEF LoadedOnce, Cached
    <2> DEFINE loads == {r \in requests : r.key = k}
    <2>1. \A x, y \in loads : x = y
      BY DEF CacheInv, OneLoad
    <2>2. keyedCache[k] # NoData => loads = {}
      BY DEF CacheInv, OneLoad
    <2> HIDE DEF loads
    <2>3. Cardinality(loads) <= 1
      BY <2>1, AtMostOne
    <2> QED BY <2>2, <2>3 DEF loads
  <1>2. NoTextureForgotten
    <2> SUFFICES ASSUME NEW t \in Textures
                 PROVE  LET waitsIn == {r \in requests : t \in r.textures} IN
                        /\ Cardinality(waitsIn) <= 1 /\ \A r \in waitsIn : r.key = shown[t].key
                        /\ ~Unmade(t) => \/ shown[t].data # NoData
                                         \/ waitsIn # {}
                                         \/ t \in failed
      BY DEF NoTextureForgotten
    <2> DEFINE waitsIn == {r \in requests : t \in r.textures}
    <2>1. \A x, y \in waitsIn : x = y
      BY DEF CacheInv, OneWait
    <2>2. \A r \in waitsIn : r.key = shown[t].key
      BY DEF CacheInv, Awaited
    <2>3. ~Unmade(t) => shown[t].data # NoData \/ waitsIn # {} \/ t \in failed
      BY DEF CacheInv, Served, Unmade
    <2> HIDE DEF waitsIn
    <2>4. Cardinality(waitsIn) <= 1
      BY <2>1, AtMostOne
    <2> QED BY <2>2, <2>3, <2>4 DEF waitsIn
  <1>3. BindingOutlivesUse
    BY DEF CacheInv, BindingWhole, BindingOutlivesUse
  <1> QED BY <1>1, <1>2, <1>3 DEF CacheInv, TexturesArrive

\* TexturesArrive of the cache, for any number of textures, keys and themes: what can be
\* cached is loaded by one request at a time, each texture that is made shows its image,
\* waits in one request for its key or has failed, and the binding to a property is there
\* as long as a handler or a weak reference may use it.
THEOREM CacheTexturesArrive == CacheSpec => []TexturesArrive
  BY CacheStart, CacheStep, CacheArrives, PTL DEF CacheSpec

-----------------------------------------------------------------------------
(***************************************************************************)
(* The applications and their windows                                      *)
(***************************************************************************)

AppStates == {"STOPPED", "STARTING", "RUNNING"}

SysType ==
  [state : [Apps -> AppStates], runningState : [Apps -> BOOLEAN],
   windows : [Apps -> SUBSET Windows], runningApps : SUBSET Apps,
   appOf : [Windows -> Apps \cup {NoApp}], watched : SUBSET Windows]

\* What holds of the objects at every moment, in the middle of a handler too: an application
\* that has windows is not stopped and has a running state, and one that is listed as running
\* has windows; a window is listed by the application it is mapped to.
Owned(s, a) ==
  /\ a \in s.runningApps <=> s.state[a] = "RUNNING"
  /\ s.state[a] = "RUNNING" => s.windows[a] # {}
  /\ s.windows[a] # {} => s.state[a] # "STOPPED" /\ s.runningState[a]
Listed(s, w) == s.appOf[w] # NoApp => w \in s.windows[s.appOf[w]]
Sound(s) == s \in SysType /\ (\A a \in Apps : Owned(s, a)) /\ (\A w \in Windows : Listed(s, w))

\* t has no starting application that s has not.
NoneStarts(s, t) == \A a \in Apps : t.state[a] = "STARTING" => s.state[a] = "STARTING"

\* The windows are where they were.
SameWindows(s, t) == t.windows = s.windows /\ t.appOf = s.appOf

\* shell_app_state_transition() to RUNNING of an application with windows.
LEMMA TransitionRuns ==
  ASSUME NEW s \in SysType, NEW a \in Apps, s.windows[a] # {}, s.runningState[a],
         s.state[a] = "STOPPED" => a \notin s.runningApps,
         s.state[a] # "STOPPED" => Owned(s, a),
         NEW t, t = Transition(s, a, "RUNNING")
  PROVE  /\ t \in SysType /\ SameWindows(s, t) /\ NoneStarts(s, t)
         /\ Owned(t, a) /\ t.state[a] = "RUNNING"
         /\ \A b \in Apps \ {a} : Owned(s, b) => Owned(t, b)
  <1>1. CASE s.state[a] = "RUNNING"
    <2>1. t = s
      BY <1>1 DEF Transition
    <2> QED BY <1>1, <2>1 DEF SameWindows, NoneStarts
  <1>2. CASE s.state[a] # "RUNNING"
    <2>1. t = [s EXCEPT !.state[a] = "RUNNING", !.runningState[a] = @,
                        !.runningApps = @ \cup {a}]
      BY <1>2 DEF Transition
    <2>2. /\ t.state = [s.state EXCEPT ![a] = "RUNNING"]
          /\ t.runningState = [s.runningState EXCEPT ![a] = @]
          /\ t.windows = s.windows /\ t.appOf = s.appOf /\ t.watched = s.watched
          /\ t.runningApps = s.runningApps \cup {a}
      BY <2>1 DEF SysType
    <2>3. t \in SysType
      <3>0. /\ s.state \in [Apps -> AppStates] /\ s.runningState \in [Apps -> BOOLEAN]
            /\ s.runningApps \in SUBSET Apps
        BY DEF SysType
      <3>1. /\ t.state \in [Apps -> AppStates]
            /\ t.runningState \in [Apps -> BOOLEAN]
            /\ t.runningApps \in SUBSET Apps
        <4>1. t.state \in [Apps -> AppStates]
          BY <2>2, <3>0 DEF AppStates
        <4>2. t.runningState \in [Apps -> BOOLEAN]
          BY <2>2, <3>0
        <4>3. t.runningApps \in SUBSET Apps
          BY <2>2, <3>0
        <4> QED BY <4>1, <4>2, <4>3
      <3>2. t = [state |-> t.state, runningState |-> t.runningState, windows |-> s.windows,
                 runningApps |-> t.runningApps, appOf |-> s.appOf, watched |-> s.watched]
        BY <2>1 DEF SysType
      <3> QED BY <3>1, <3>2 DEF SysType
    <2>4. /\ t.state[a] = "RUNNING" /\ t.runningState[a]
          /\ \A b \in Apps \ {a} : t.state[b] = s.state[b] /\ t.runningState[b] = s.runningState[b]
      BY <2>2 DEF SysType
    <2>5. SameWindows(s, t) /\ NoneStarts(s, t)
      BY <2>2, <2>4 DEF SameWindows, NoneStarts
    <2>6. Owned(t, a)
      BY <2>2, <2>4 DEF Owned
    <2>7. \A b \in Apps \ {a} : Owned(s, b) => Owned(t, b)
      BY <2>2, <2>4 DEF Owned
    <2> QED BY <2>3, <2>4, <2>5, <2>6, <2>7
  <1> QED BY <1>1, <1>2

\* shell_app_state_transition() to STOPPED of an application without windows.
LEMMA TransitionStops ==
  ASSUME NEW s \in SysType, NEW a \in Apps, s.windows[a] = {},
         s.state[a] = "STOPPED" => a \notin s.runningApps,
         NEW t, t = Transition(s, a, "STOPPED")
  PROVE  /\ t \in SysType /\ SameWindows(s, t) /\ NoneStarts(s, t)
         /\ Owned(t, a) /\ t.state[a] = "STOPPED"
         /\ \A b \in Apps \ {a} : Owned(s, b) => Owned(t, b)
  <1>1. CASE s.state[a] = "STOPPED"
    <2>1. t = s
      BY <1>1 DEF Transition
    <2> QED BY <1>1, <2>1 DEF SameWindows, NoneStarts, Owned
  <1>2. CASE s.state[a] # "STOPPED"
    <2>1. t = [s EXCEPT !.state[a] = "STOPPED", !.runningState[a] = FALSE,
                        !.runningApps = @ \ {a}]
      BY <1>2 DEF Transition
    <2>2. /\ t.state = [s.state EXCEPT ![a] = "STOPPED"]
          /\ t.runningState = [s.runningState EXCEPT ![a] = FALSE]
          /\ t.windows = s.windows /\ t.appOf = s.appOf /\ t.watched = s.watched
          /\ t.runningApps = s.runningApps \ {a}
      BY <2>1 DEF SysType
    <2>3. t \in SysType
      <3>0. /\ s.state \in [Apps -> AppStates] /\ s.runningState \in [Apps -> BOOLEAN]
            /\ s.runningApps \in SUBSET Apps
        BY DEF SysType
      <3>1. /\ t.state \in [Apps -> AppStates]
            /\ t.runningState \in [Apps -> BOOLEAN]
            /\ t.runningApps \in SUBSET Apps
        <4>1. t.state \in [Apps -> AppStates]
          BY <2>2, <3>0 DEF AppStates
        <4>2. t.runningState \in [Apps -> BOOLEAN]
          BY <2>2, <3>0
        <4>3. t.runningApps \in SUBSET Apps
          BY <2>2, <3>0
        <4> QED BY <4>1, <4>2, <4>3
      <3>2. t = [state |-> t.state, runningState |-> t.runningState, windows |-> s.windows,
                 runningApps |-> t.runningApps, appOf |-> s.appOf, watched |-> s.watched]
        BY <2>1 DEF SysType
      <3> QED BY <3>1, <3>2 DEF SysType
    <2>4. /\ t.state[a] = "STOPPED"
          /\ \A b \in Apps \ {a} : t.state[b] = s.state[b] /\ t.runningState[b] = s.runningState[b]
      BY <2>2 DEF SysType
    <2>5. SameWindows(s, t) /\ NoneStarts(s, t)
      BY <2>2, <2>4 DEF SameWindows, NoneStarts
    <2>6. Owned(t, a)
      BY <2>2, <2>4 DEF Owned
    <2>7. \A b \in Apps \ {a} : Owned(s, b) => Owned(t, b)
      BY <2>2, <2>4 DEF Owned
    <2> QED BY <2>3, <2>4, <2>5, <2>6, <2>7
  <1> QED BY <1>1, <1>2

\* _shell_app_add_window() of a window that is mapped to the application or to none.
LEMMA AddWindowSound ==
  ASSUME NEW s \in SysType, NEW a \in Apps, NEW w \in Windows, s.appOf[w] \in {NoApp, a},
         \A b \in Apps : Owned(s, b), \A x \in Windows \ {w} : Listed(s, x),
         NEW t, t = AddWindow(s, a, w)
  PROVE  Sound(t) /\ NoneStarts(s, t)
  <1>1. CASE w \in s.windows[a]
    <2>1. t = s
      BY <1>1 DEF AddWindow
    <2>2. Listed(s, w)
      BY <1>1 DEF Listed
    <2> QED BY <2>1, <2>2 DEF Sound, NoneStarts
  <1>2. CASE w \notin s.windows[a]
    <2> DEFINE u == [s EXCEPT !.runningState[a] = TRUE, !.windows[a] = @ \cup {w}]
    <2>1. t = IF s.state[a] = "STARTING" THEN u ELSE Transition(u, a, "RUNNING")
      BY <1>2 DEF AddWindow
    <2>2. /\ u.state = s.state /\ u.runningApps = s.runningApps /\ u.appOf = s.appOf
          /\ u.runningState = [s.runningState EXCEPT ![a] = TRUE]
          /\ u.windows = [s.windows EXCEPT ![a] = @ \cup {w}]
      BY DEF SysType
    <2>3. u \in SysType
      BY DEF SysType
    <2> HIDE DEF u
    <2>4. /\ u.runningState[a] /\ u.windows[a] # {} /\ w \in u.windows[a]
          /\ \A b \in Apps \ {a} : u.runningState[b] = s.runningState[b] /\ u.windows[b] = s.windows[b]
          /\ \A b \in Apps : s.windows[b] \subseteq u.windows[b]
      BY <2>2 DEF SysType
    <2>5. \A b \in Apps \ {a} : Owned(u, b)
      BY <2>2, <2>4 DEF Owned
    <2>6. u.state[a] # "STOPPED" => Owned(u, a)
      <3>1. a \in s.runningApps <=> s.state[a] = "RUNNING"
        BY DEF Owned
      <3> QED BY <2>2, <2>4, <3>1 DEF Owned
    <2>7. u.state[a] = "STOPPED" => a \notin u.runningApps
      BY <2>2 DEF Owned
    <2>8. \A x \in Windows : Listed(u, x)
      <3>1. Listed(u, w)
        BY <2>2, <2>4 DEF Listed
      <3>2. ASSUME NEW x \in Windows \ {w} PROVE Listed(u, x)
        <4>1. s.appOf[x] \in Apps \cup {NoApp}
          BY DEF SysType
        <4> QED BY <2>2, <2>4, <4>1 DEF Listed
      <3> QED BY <3>1, <3>2
    <2>9. NoneStarts(s, u)
      BY <2>2 DEF NoneStarts
    <2>10. CASE s.state[a] = "STARTING"
      BY <2>1, <2>2, <2>3, <2>5, <2>6, <2>8, <2>9, <2>10 DEF Sound
    <2>11. CASE s.state[a] # "STARTING"
      <3>1. t = Transition(u, a, "RUNNING")
        BY <2>1, <2>11
      <3>2. /\ t \in SysType /\ SameWindows(u, t) /\ NoneStarts(u, t)
            /\ Owned(t, a)
            /\ \A b \in Apps \ {a} : Owned(u, b) => Owned(t, b)
        BY <2>3, <2>4, <2>6, <2>7, <3>1, TransitionRuns
      <3>3. \A b \in Apps : Owned(t, b)
        BY <2>5, <3>2
      <3>4. \A x \in Windows : Listed(t, x)
        BY <2>8, <3>2 DEF SameWindows, Listed
      <3> QED BY <2>9, <3>2, <3>3, <3>4 DEF Sound, NoneStarts
    <2> QED BY <2>10, <2>11
  <1> QED BY <1>1, <1>2

\* _shell_app_remove_window() of a window that is mapped to no application.
LEMMA RemoveWindowSound ==
  ASSUME NEW s, Sound(s), NEW a \in Apps, NEW w \in Windows, s.appOf[w] = NoApp,
         NEW t, t = RemoveWindow(s, a, w)
  PROVE  Sound(t) /\ NoneStarts(s, t) /\ t.appOf = s.appOf
  <1>1. CASE w \notin s.windows[a]
    <2>1. t = s
      BY <1>1 DEF RemoveWindow
    <2> QED BY <2>1 DEF Sound, NoneStarts
  <1>2. CASE w \in s.windows[a]
    <2> DEFINE u == [s EXCEPT !.windows[a] = @ \ {w}]
    <2>0. s \in SysType
      BY DEF Sound
    <2>1. t = IF u.windows[a] = {} THEN Transition(u, a, "STOPPED") ELSE u
      BY <1>2 DEF RemoveWindow
    <2>2. /\ u.state = s.state /\ u.runningApps = s.runningApps /\ u.appOf = s.appOf
          /\ u.runningState = s.runningState
          /\ u.windows = [s.windows EXCEPT ![a] = @ \ {w}]
      BY <2>0 DEF SysType
    <2>3. u \in SysType
      BY <2>0 DEF SysType
    <2> HIDE DEF u
    <2>4. /\ u.windows[a] = s.windows[a] \ {w}
          /\ \A b \in Apps \ {a} : u.windows[b] = s.windows[b]
      BY <2>0, <2>2 DEF SysType
    <2>5. \A b \in Apps \ {a} : Owned(u, b)
      BY <2>2, <2>4 DEF Owned, Sound
    <2>6. Owned(s, a)
      BY DEF Sound
    <2>7. \A x \in Windows : Listed(u, x)
      <3>1. Listed(u, w)
        BY <2>2 DEF Listed
      <3>2. ASSUME NEW x \in Windows \ {w} PROVE Listed(u, x)
        <4>1. s.appOf[x] \in Apps \cup {NoApp} /\ Listed(s, x)
          BY DEF SysType, Sound
        <4> QED BY <2>2, <2>4, <4>1 DEF Listed
      <3> QED BY <3>1, <3>2
    <2>8. NoneStarts(s, u)
      BY <2>2 DEF NoneStarts
    <2>9. CASE u.windows[a] # {}
      <3>1. Owned(u, a)
        BY <2>2, <2>4, <2>6, <2>9 DEF Owned
      <3> QED BY <2>1, <2>2, <2>3, <2>5, <2>7, <2>8, <2>9, <3>1 DEF Sound
    <2>10. CASE u.windows[a] = {}
      <3>1. t = Transition(u, a, "STOPPED")
        BY <2>1, <2>10
      <3>2. u.state[a] = "STOPPED" => a \notin u.runningApps
        BY <2>2, <2>6 DEF Owned
      <3>3. /\ t \in SysType /\ SameWindows(u, t) /\ NoneStarts(u, t)
            /\ Owned(t, a)
            /\ \A b \in Apps \ {a} : Owned(u, b) => Owned(t, b)
        BY <2>3, <2>10, <3>1, <3>2, TransitionStops
      <3>4. \A b \in Apps : Owned(t, b)
        BY <2>5, <3>3
      <3>5. \A x \in Windows : Listed(t, x)
        BY <2>7, <3>3 DEF SameWindows, Listed
      <3> QED BY <2>2, <2>8, <3>3, <3>4, <3>5 DEF Sound, NoneStarts, SameWindows
    <2> QED BY <2>9, <2>10
  <1> QED BY <1>1, <1>2

\* _shell_app_handle_startup_sequence(): the application alone may begin to start, and it is
\* not starting when the sequence is over.
LEMMA HandleStartupSound ==
  ASSUME NEW s, Sound(s), NEW a \in Apps, NEW completed \in BOOLEAN,
         NEW t, t = HandleStartup(s, a, completed)
  PROVE  /\ Sound(t) /\ SameWindows(s, t)
         /\ \A b \in Apps \ {a} : t.state[b] = "STARTING" => s.state[b] = "STARTING"
         /\ completed => t.state[a] # "STARTING"
  <1>0. s \in SysType /\ Owned(s, a) /\ (\A b \in Apps : Owned(s, b)) /\ \A x \in Windows : Listed(s, x)
    BY DEF Sound
  <1> SUFFICES /\ t \in SysType /\ SameWindows(s, t) /\ Owned(t, a)
               /\ \A b \in Apps \ {a} : Owned(s, b) => Owned(t, b)
               /\ \A b \in Apps \ {a} : t.state[b] = "STARTING" => s.state[b] = "STARTING"
               /\ completed => t.state[a] # "STARTING"
    BY <1>0 DEF Sound, SameWindows, Listed
  <1>1. CASE ~completed /\ s.state[a] # "STOPPED"
    BY <1>0, <1>1 DEF HandleStartup, SameWindows
  <1>2. CASE ~completed /\ s.state[a] = "STOPPED"
    <2>1. t = [s EXCEPT !.state[a] = "STARTING", !.runningState[a] = @ /\ TRUE, !.runningApps = @]
      BY <1>2 DEF HandleStartup, Transition
    <2>2. /\ t.state = [s.state EXCEPT ![a] = "STARTING"]
          /\ t.runningState = [s.runningState EXCEPT ![a] = @ /\ TRUE]
          /\ t.windows = s.windows /\ t.appOf = s.appOf /\ t.watched = s.watched
          /\ t.runningApps = s.runningApps
      BY <2>1 DEF SysType
    <2>3. /\ s.state \in [Apps -> AppStates] /\ s.runningState \in [Apps -> BOOLEAN]
      BY <1>0 DEF SysType
    <2>4. t.state \in [Apps -> AppStates]
      BY <2>2, <2>3 DEF AppStates
    <2>5. t.runningState \in [Apps -> BOOLEAN]
      BY <2>2, <2>3
    <2>6. t = [state |-> t.state, runningState |-> t.runningState, windows |-> s.windows,
               runningApps |-> s.runningApps, appOf |-> s.appOf, watched |-> s.watched]
      BY <1>0, <2>1 DEF SysType
    <2>7. t \in SysType
      BY <1>0, <2>4, <2>5, <2>6 DEF SysType
    <2>8. /\ t.state[a] = "STARTING"
          /\ \A b \in Apps \ {a} : t.state[b] = s.state[b] /\ t.runningState[b] = s.runningState[b]
      BY <2>2, <2>3
    <2>9. s.windows[a] = {} /\ a \notin s.runningApps
      BY <1>0, <1>2 DEF Owned
    <2>10. Owned(t, a) /\ \A b \in Apps \ {a} : Owned(s, b) => Owned(t, b)
      BY <2>2, <2>8, <2>9 DEF Owned
    <2> QED BY <1>2, <2>2, <2>7, <2>8, <2>10 DEF SameWindows
  <1>3. CASE completed /\ s.runningState[a] /\ s.windows[a] # {}
    <2>1. t = Transition(s, a, "RUNNING")
      BY <1>3 DEF HandleStartup
    <2>2. s.state[a] # "STOPPED"
      BY <1>0, <1>3 DEF Owned
    <2> QED BY <1>0, <1>3, <2>1, <2>2, TransitionRuns DEF NoneStarts
  <1>4. CASE completed /\ ~(s.runningState[a] /\ s.windows[a] # {})
    <2>1. t = Transition(s, a, "STOPPED")
      BY <1>4 DEF HandleStartup
    <2>2. s.windows[a] = {} /\ (s.state[a] = "STOPPED" => a \notin s.runningApps)
      BY <1>0, <1>4 DEF Owned
    <2> QED BY <1>0, <1>4, <2>1, <2>2, TransitionStops DEF NoneStarts
  <1> QED BY <1>1, <1>2, <1>3, <1>4

\* shell_app_on_unmanaged() of a window that is mapped to no application.
LEMMA RemoveFromAllSound ==
  ASSUME NEW s, Sound(s), NEW w \in Windows, s.appOf[w] = NoApp,
         NEW t, t = RemoveFromAll(s, w)
  PROVE  Sound(t) /\ NoneStarts(s, t)
  <1> DEFINE last == {a \in Apps : s.windows[a] = {w}}
  <1>1. /\ s \in SysType /\ \A x \in Windows : Listed(s, x)
        /\ \A a \in Apps : Owned(s, a)
    BY DEF Sound
  <1>2. /\ t.state = [a \in Apps |-> IF a \in last THEN "STOPPED" ELSE s.state[a]]
        /\ t.runningState = [a \in Apps |-> s.runningState[a] /\ a \notin last]
        /\ t.windows = [a \in Apps |-> s.windows[a] \ {w}]
        /\ t.runningApps = s.runningApps \ last
        /\ t.watched = s.watched \ {w} /\ t.appOf = s.appOf
    BY <1>1 DEF RemoveFromAll, SysType
  <1>3. t = [state |-> t.state, runningState |-> t.runningState, windows |-> t.windows,
             runningApps |-> t.runningApps, appOf |-> s.appOf, watched |-> t.watched]
    BY <1>1, <1>2 DEF RemoveFromAll, SysType
  <1>4. /\ s.state \in [Apps -> AppStates] /\ s.runningState \in [Apps -> BOOLEAN]
        /\ s.windows \in [Apps -> SUBSET Windows] /\ s.runningApps \in SUBSET Apps
        /\ s.appOf \in [Windows -> Apps \cup {NoApp}] /\ s.watched \in SUBSET Windows
    BY <1>1 DEF SysType
  <1>5. t \in SysType
    <2>1. t.state \in [Apps -> AppStates]
      BY <1>2, <1>4 DEF AppStates
    <2>2. t.runningState \in [Apps -> BOOLEAN]
      BY <1>2, <1>4
    <2>3. t.windows \in [Apps -> SUBSET Windows]
      BY <1>2, <1>4
    <2>4. t.runningApps \in SUBSET Apps /\ t.watched \in SUBSET Windows
      BY <1>2, <1>4
    <2> QED BY <1>3, <1>4, <2>1, <2>2, <2>3, <2>4 DEF SysType
  <1>6. ASSUME NEW a \in Apps PROVE Owned(t, a)
    <2>1. Owned(s, a)
      BY <1>1
    <2>2. /\ t.state[a] = IF a \in last THEN "STOPPED" ELSE s.state[a]
          /\ t.windows[a] = s.windows[a] \ {w}
          /\ a \in t.runningApps <=> a \in s.runningApps /\ a \notin last
      BY <1>2
    <2>3. t.runningState[a] = (s.runningState[a] /\ a \notin last)
      BY <1>2
    <2>4. CASE a \in last
      BY <2>1, <2>2, <2>4 DEF Owned
    <2>5. CASE a \notin last
      <3>1. s.windows[a] # {w}
        BY <2>5
      <3>2. s.windows[a] # {} => t.windows[a] # {}
        BY <2>2, <3>1
      <3>3. t.windows[a] # {} => s.windows[a] # {}
        BY <2>2
      <3>4. t.state[a] = s.state[a] /\ (a \in t.runningApps <=> a \in s.runningApps)
        BY <2>2, <2>5
      <3>5. s.runningState[a] => t.runningState[a]
        BY <2>3, <2>5
      <3> HIDE DEF last
      <3> QED BY <2>1, <3>2, <3>3, <3>4, <3>5 DEF Owned
    <2> QED BY <2>4, <2>5
  <1>7. ASSUME NEW x \in Windows PROVE Listed(t, x)
    <2>1. CASE x = w
      BY <1>2, <2>1 DEF Listed
    <2>2. CASE x # w
      <3>1. Listed(s, x) /\ s.appOf[x] \in Apps \cup {NoApp}
        BY <1>1, <1>4
      <3> QED BY <1>2, <2>2, <3>1 DEF Listed
    <2> QED BY <2>1, <2>2
  <1>8. NoneStarts(s, t)
    <2>1. ASSUME NEW a \in Apps, t.state[a] = "STARTING" PROVE s.state[a] = "STARTING"
      BY <1>2, <2>1
    <2> QED BY <2>1 DEF NoneStarts
  <1> QED BY <1>5, <1>6, <1>7, <1>8 DEF Sound

\* disassociate_window(): the window is mapped to no application.
LEMMA DisassociateSound ==
  ASSUME NEW s, Sound(s), NEW w \in Windows, NEW interests \in BOOLEAN,
         NEW t, t = Disassociate(s, w, interests)
  PROVE  Sound(t) /\ NoneStarts(s, t) /\ t.appOf[w] = NoApp
  <1>0. s \in SysType /\ (\A b \in Apps : Owned(s, b)) /\ \A x \in Windows : Listed(s, x)
    BY DEF Sound
  <1>1. CASE s.appOf[w] = NoApp
    BY <1>1 DEF Disassociate, NoneStarts
  <1>2. CASE s.appOf[w] # NoApp
    <2>1. PICK gone : gone = [s EXCEPT !.appOf[w] = NoApp]
      OBVIOUS
    <2>2. PICK away : away = [gone EXCEPT !.watched = @ \ {w}]
      OBVIOUS
    <2>3. t = IF interests THEN RemoveWindow(away, s.appOf[w], w) ELSE gone
      BY <1>2, <2>1, <2>2 DEF Disassociate
    <2>4. /\ gone \in SysType /\ gone.appOf = [s.appOf EXCEPT ![w] = NoApp]
          /\ gone.state = s.state /\ gone.runningState = s.runningState
          /\ gone.windows = s.windows /\ gone.runningApps = s.runningApps
      BY <1>0, <2>1 DEF SysType
    <2>5. /\ away \in SysType /\ away.appOf = gone.appOf
          /\ away.state = s.state /\ away.runningState = s.runningState
          /\ away.windows = s.windows /\ away.runningApps = s.runningApps
      BY <2>2, <2>4 DEF SysType
    <2>6. gone.appOf[w] = NoApp /\ \A x \in Windows \ {w} : gone.appOf[x] = s.appOf[x]
      BY <1>0, <2>4 DEF SysType
    <2>7. Sound(gone) /\ NoneStarts(s, gone)
      BY <1>0, <2>4, <2>6 DEF Sound, Owned, Listed, NoneStarts
    <2>8. Sound(away) /\ NoneStarts(s, away)
      BY <1>0, <2>5, <2>6 DEF Sound, Owned, Listed, NoneStarts
    <2>9. s.appOf[w] \in Apps
      BY <1>0, <1>2 DEF SysType
    <2>10. CASE interests
      <3>1. t = RemoveWindow(away, s.appOf[w], w)
        BY <2>3, <2>10
      <3>2. away.appOf[w] = NoApp
        BY <2>5, <2>6
      <3>3. Sound(t) /\ NoneStarts(away, t) /\ t.appOf = away.appOf
        BY <2>8, <2>9, <3>1, <3>2, RemoveWindowSound
      <3> QED BY <2>8, <3>2, <3>3 DEF NoneStarts
    <2>11. CASE ~interests
      BY <2>3, <2>6, <2>7, <2>11
    <2> QED BY <2>10, <2>11
  <1> QED BY <1>1, <1>2

\* A startup sequence has an application.
LaunchHasId == \A l \in Launches : launch[l].sequence # "none" => launch[l].of \in Ids

\* What a window is, its launch having been made.
IsKind(k) == k \in Kinds /\ (k.launch # Nobody => launch[k.launch].sequence # "none")
KindsAreKnown == \A w \in Windows : windowKind[w] # Nobody => IsKind(windowKind[w])

\* An application has one id.
OneId == \A i, j \in Ids : i # j /\ idToApp[i] = idToApp[j] => idToApp[i] = NoApp

AppsInv ==
  AppsTypeOK /\ Sound(apps) /\ OneId /\ StartingHasSequence /\ LaunchHasId /\ KindsAreKnown

\* get_app_for_window() finds an application or none.
LEMMA KnownAppIsApp ==
  ASSUME AppsTypeOK, LaunchHasId, NEW s, s \in SysType, NEW w \in Windows, NEW k, IsKind(k),
         NEW a, a = KnownApp(s, w, k)
  PROVE  a \in Apps \cup {NoApp}
  <1> DEFINE none == k.class = "remote"
             f1 == IF k.normal \/ none THEN s.appOf[w] ELSE NoApp
             f2 == IF none THEN NoApp ELSE AppOfClass(k.class)
             f3 == IF none THEN NoApp ELSE AppOfPid(k)
             f4 == IF none THEN NoApp ELSE AppOfSequence(k)
             f5 == IF none THEN NoApp ELSE AppOfGroup(s, w, k)
             AppOrNone == Apps \cup {NoApp}
  <1>1. k.launch # Nobody => k.launch \in Launches /\ launch[k.launch].of \in Ids
    <2>1. k \in KindType
      BY ApplicationsAssumption DEF IsKind
    <2>2. k.launch \in Launches \cup {Nobody}
      BY <2>1 DEF KindType
    <2> QED BY <2>2 DEF IsKind, LaunchHasId
  <1>2. f1 \in AppOrNone
    BY DEF SysType
  <1>3. f2 \in AppOrNone
    BY DEF AppOfClass, AppsTypeOK
  <1>4. f3 \in AppOrNone
    BY <1>1 DEF AppOfPid, AppsTypeOK
  <1>5. f4 \in AppOrNone
    BY <1>1 DEF AppOfSequence, AppsTypeOK
  <1>6. f5 \in AppOrNone
    <2>1. CASE GroupMates(s, w, k) = {}
      BY <2>1 DEF AppOfGroup
    <2>2. CASE GroupMates(s, w, k) # {}
      <3>1. PICK x : x = CHOOSE y \in GroupMates(s, w, k) : TRUE
        OBVIOUS
      <3>2. x \in Windows
        BY <2>2, <3>1 DEF GroupMates
      <3>3. s.appOf[x] \in AppOrNone
        BY <3>2 DEF SysType
      <3>4. AppOfGroup(s, w, k) = s.appOf[x]
        BY <2>2, <3>1 DEF AppOfGroup
      <3> QED BY <3>3, <3>4
    <2> QED BY <2>1, <2>2
  <1> DEFINE first == <<f1, f2, f3, f4, f5>>
             found == {i \in DOMAIN first : first[i] # NoApp}
  <1>7. a = IF found = {} THEN NoApp ELSE first[CHOOSE i \in found : \A j \in found : i <= j]
    BY DEF KnownApp
  <1> HIDE DEF f1, f2, f3, f4, f5, AppOrNone
  <1>8. DOMAIN first = 1 .. 5 /\ \A i \in 1 .. 5 : first[i] \in AppOrNone
    BY <1>2, <1>3, <1>4, <1>5, <1>6
  <1>9. NoApp \in AppOrNone
    BY DEF AppOrNone
  <1> HIDE DEF first
  <1>10. found \subseteq 1 .. 5
    BY <1>8
  <1> HIDE DEF found
  <1>11. CASE found # {}
    <2>1. \E i \in found : \A j \in found : i <= j
      <3>1. CASE 1 \in found
        BY <1>10, <3>1
      <3>2. CASE 1 \notin found /\ 2 \in found
        BY <1>10, <3>2
      <3>3. CASE 1 \notin found /\ 2 \notin found /\ 3 \in found
        BY <1>10, <3>3
      <3>4. CASE 1 \notin found /\ 2 \notin found /\ 3 \notin found /\ 4 \in found
        BY <1>10, <3>4
      <3>5. CASE 1 \notin found /\ 2 \notin found /\ 3 \notin found /\ 4 \notin found
        <4>1. \A j \in found : j = 5
          BY <1>10, <3>5
        <4> QED BY <1>11, <4>1
      <3> QED BY <3>1, <3>2, <3>3, <3>4, <3>5
    <2>2. (CHOOSE i \in found : \A j \in found : i <= j) \in 1 .. 5
      BY <1>10, <2>1
    <2>3. a \in AppOrNone
      BY <1>7, <1>8, <1>11, <2>2
    <2> QED BY <2>3 DEF AppOrNone
  <1>12. CASE found = {}
    BY <1>7, <1>12
  <1> QED BY <1>11, <1>12

\* track_window() of a window that some object is there for.
LEMMA TrackSound ==
  ASSUME AppsTypeOK, LaunchHasId, Unused # {}, NEW s, Sound(s),
         NEW w \in Windows, NEW k, IsKind(k), NEW t, t = Track(s, w, k)
  PROVE  Sound(t) /\ NoneStarts(s, t)
  <1>0. s \in SysType /\ (\A b \in Apps : Owned(s, b)) /\ \A x \in Windows : Listed(s, x)
    BY DEF Sound
  <1>1. PICK a : a = IF KnownApp(s, w, k) = NoApp THEN FreshApp ELSE KnownApp(s, w, k)
    OBVIOUS
  <1>2. a \in Apps
    <2>1. FreshApp \in Apps
      BY DEF FreshApp, Unused
    <2>2. KnownApp(s, w, k) \in Apps \cup {NoApp}
      BY <1>0, KnownAppIsApp
    <2> QED BY <1>1, <2>1, <2>2
  <1>3. PICK u : u = [s EXCEPT !.appOf[w] = a, !.watched = @ \cup {w}]
    OBVIOUS
  <1>4. t = AddWindow(u, a, w)
    BY <1>1, <1>3 DEF Track
  <1>5. /\ u.appOf = [s.appOf EXCEPT ![w] = a]
        /\ u.state = s.state /\ u.runningState = s.runningState
        /\ u.windows = s.windows /\ u.runningApps = s.runningApps
    BY <1>0, <1>3 DEF SysType
  <1>6. u \in SysType
    BY <1>0, <1>2, <1>3 DEF SysType
  <1>7. u.appOf[w] = a /\ \A x \in Windows \ {w} : u.appOf[x] = s.appOf[x]
    BY <1>0, <1>5 DEF SysType
  <1>8. \A b \in Apps : Owned(u, b)
    BY <1>0, <1>5 DEF Owned
  <1>9. \A x \in Windows \ {w} : Listed(u, x)
    BY <1>0, <1>5, <1>7 DEF Listed
  <1>10. Sound(t) /\ NoneStarts(u, t)
    BY <1>2, <1>4, <1>6, <1>7, <1>8, <1>9, AddWindowSound
  <1> QED BY <1>5, <1>10 DEF NoneStarts

\* A window that is removed and added again.
LEMMA TrackAgainSound ==
  ASSUME AppsTypeOK, LaunchHasId, Unused # {}, Sound(apps),
         NEW w \in Windows, NEW k, IsKind(k), NEW t, t = TrackAgain(w, k)
  PROVE  Sound(t) /\ NoneStarts(apps, t)
  <1>1. PICK gone : gone = Disassociate(apps, w, interesting[w])
    OBVIOUS
  <1>2. interesting[w] \in BOOLEAN
    BY DEF AppsTypeOK
  <1>3. Sound(gone) /\ NoneStarts(apps, gone)
    BY <1>1, <1>2, DisassociateSound
  <1>4. t = IF interesting[w] THEN Track(gone, w, k) ELSE gone
    BY <1>1 DEF TrackAgain
  <1>5. CASE interesting[w]
    <2>1. Sound(t) /\ NoneStarts(gone, t)
      BY <1>3, <1>4, <1>5, TrackSound
    <2> QED BY <1>3, <2>1 DEF NoneStarts
  <1>6. CASE ~interesting[w]
    BY <1>3, <1>4, <1>6
  <1> QED BY <1>5, <1>6

\* Between two finite sets there is an injective function when the first is not the larger.
LEMMA InjectionExists ==
  ASSUME NEW S, NEW T, IsFiniteSet(S), IsFiniteSet(T), Cardinality(S) <= Cardinality(T)
  PROVE  \E f \in [S -> T] : IsInjective(f)
  <1>1. PICK m \in Nat : m = Cardinality(S) /\ ExistsBijection(1 .. m, S)
    BY FS_CardinalityType
  <1>2. PICK n \in Nat : n = Cardinality(T) /\ ExistsBijection(1 .. n, T)
    BY FS_CardinalityType
  <1>3. PICK g \in [1 .. n -> T] : \A i, j \in 1 .. n : g[i] = g[j] => i = j
    BY <1>2, ZenonT(60) DEF ExistsBijection, Bijection, Injection, IsInjective
  <1>4. PICK h \in [1 .. m -> S] :
          /\ \A i, j \in 1 .. m : h[i] = h[j] => i = j
          /\ \A x \in S : \E i \in 1 .. m : h[i] = x
    BY <1>1, Zenon DEF ExistsBijection, Bijection, Injection, Surjection, IsInjective
  <1> DEFINE place(x) == CHOOSE i \in 1 .. m : h[i] = x
             f == [x \in S |-> g[place(x)]]
  <1>5. ASSUME NEW x \in S PROVE place(x) \in 1 .. m /\ h[place(x)] = x
    BY <1>4
  <1>6. 1 .. m \subseteq 1 .. n
    BY <1>1, <1>2
  <1> HIDE DEF place
  <1>7. f \in [S -> T]
    BY <1>3, <1>5, <1>6
  <1>8. ASSUME NEW x \in S, NEW y \in S, f[x] = f[y] PROVE x = y
    <2>1. place(x) \in 1 .. n /\ place(y) \in 1 .. n /\ g[place(x)] = g[place(y)]
      BY <1>5, <1>6, <1>8
    <2>2. place(x) = place(y)
      BY <1>3, <2>1
    <2> QED BY <1>5, <2>2
  <1>9. IsInjective(f)
    BY <1>8 DEF IsInjective
  <1> QED BY <1>7, <1>9

\* The objects are finitely many, MaxApps.
LEMMA AppsAreFinite == IsFiniteSet(Apps) /\ Cardinality(Apps) = MaxApps
  <1>1. MaxApps \in Nat
    BY ApplicationsAssumption
  <1> QED BY <1>1, FS_Interval DEF Apps

\* shell_app_system_init() has loaded every application of the menu.
LEMMA AppsInitInv == AppsInit => AppsInv
  <1> SUFFICES ASSUME AppsInit PROVE AppsInv
    OBVIOUS
  <1>1. \E f \in [Ids -> Apps] : IsInjective(f)
    BY ApplicationsAssumption, AppsAreFinite, InjectionExists
  <1>2. idToApp \in [Ids -> Apps] /\ IsInjective(idToApp)
    BY <1>1 DEF AppsInit
  <1>3. AppsTypeOK
    BY <1>2, ApplicationsAssumption DEF AppsInit, AppsTypeOK
  <1>4. Sound(apps)
    <2>1. apps \in SysType
      BY DEF AppsInit, SysType, AppStates
    <2>2. \A a \in Apps : Owned(apps, a)
      BY DEF AppsInit, Owned
    <2>3. \A w \in Windows : Listed(apps, w)
      BY DEF AppsInit, Listed
    <2> QED BY <2>1, <2>2, <2>3 DEF Sound
  <1>5. OneId
    BY <1>2 DEF OneId, IsInjective
  <1>6. StartingHasSequence
    BY <1>2 DEF AppsInit, StartingHasSequence
  <1>7. LaunchHasId /\ KindsAreKnown
    BY DEF AppsInit, LaunchHasId, KindsAreKnown
  <1> QED BY <1>3, <1>4, <1>5, <1>6, <1>7 DEF AppsInv

\* A sequence that is awaited goes on being awaited when neither the ids nor the launches
\* change and no application begins to start.
LEMMA StillAwaited ==
  ASSUME AppsInv, UNCHANGED <<idToApp, launch>>, NoneStarts(apps, apps')
  PROVE  StartingHasSequence'
  <1> SUFFICES ASSUME NEW i \in Ids, idToApp[i] # NoApp, apps'.state[idToApp[i]] = "STARTING"
               PROVE  \E l \in Launches : launch[l] = [of |-> i, sequence |-> "running"]
    BY DEF StartingHasSequence
  <1>1. idToApp[i] \in Apps
    BY DEF AppsInv, AppsTypeOK
  <1>2. apps.state[idToApp[i]] = "STARTING"
    BY <1>1 DEF NoneStarts
  <1> QED BY <1>2 DEF AppsInv, StartingHasSequence

\* A step that moves windows.
LEMMA WindowStep ==
  ASSUME AppsInv, Sound(apps'), NoneStarts(apps, apps'),
         UNCHANGED <<idToApp, prefixesKnown, pidToApp, launch>>, upsets' \in 0 .. MaxUpsets,
         interesting' \in [Windows -> BOOLEAN],
         windowKind' \in [Windows -> Kinds \cup {Nobody}],
         \A w \in Windows : windowKind'[w] # Nobody => IsKind(windowKind'[w])
  PROVE  AppsInv'
  <1>1. apps' \in SysType
    BY DEF Sound
  <1>2. AppsTypeOK'
    BY <1>1 DEF AppsInv, AppsTypeOK, SysType, AppStates
  <1>3. StartingHasSequence'
    BY StillAwaited
  <1>4. OneId' /\ LaunchHasId'
    BY DEF AppsInv, OneId, LaunchHasId
  <1>5. KindsAreKnown'
    BY DEF KindsAreKnown, IsKind
  <1> QED BY <1>2, <1>3, <1>4, <1>5 DEF AppsInv

\* The menu is loaded again: what comes anew gets objects that nobody refers to.
LEMMA TreeChangedStep ==
  ASSUME AppsInv, NEW menu \in SUBSET Ids, AppsTreeChanged(menu)
  PROVE  AppsInv'
  <1> DEFINE added == {i \in menu : idToApp[i] = NoApp}
             fresh == CHOOSE f \in [added -> Unused] : IsInjective(f)
  <1>1. /\ upsets' \in 0 .. MaxUpsets /\ prefixesKnown' = TRUE
        /\ UNCHANGED <<apps, pidToApp, launch, windowKind, interesting>>
        /\ Cardinality(added) <= Cardinality(Unused)
        /\ idToApp' = [i \in Ids |-> IF i \in added THEN fresh[i]
                                     ELSE IF i \in menu THEN idToApp[i] ELSE NoApp]
    BY ApplicationsAssumption DEF AppsTreeChanged, Upset, AppsInv, AppsTypeOK
  <1>2. IsFiniteSet(added) /\ IsFiniteSet(Unused)
    <2>1. added \in SUBSET Ids /\ Unused \in SUBSET Apps
      BY DEF Unused
    <2> QED BY <2>1, ApplicationsAssumption, AppsAreFinite, FS_Subset
  <1>3. fresh \in [added -> Unused] /\ IsInjective(fresh)
    BY <1>1, <1>2, InjectionExists
  <1> HIDE DEF added, fresh
  <1>4. \A i \in added : fresh[i] \in Unused
    BY <1>3
  <1>5. \A i, j \in added : fresh[i] = fresh[j] => i = j
    BY <1>3 DEF IsInjective
  <1>6. \A a \in Unused : a \in Apps /\ apps.state[a] = "STOPPED" /\ \A i \in Ids : idToApp[i] # a
    BY DEF Unused, Range, AppsInv, AppsTypeOK
  <1>7. \A i \in Ids : idToApp[i] \in Apps \cup {NoApp}
    BY DEF AppsInv, AppsTypeOK
  <1>8. \A i \in Ids : \/ i \in added /\ idToApp'[i] = fresh[i]
                       \/ i \notin added /\ idToApp'[i] = idToApp[i]
                       \/ idToApp'[i] = NoApp
    BY <1>1
  <1>9. idToApp' \in [Ids -> Apps \cup {NoApp}]
    BY <1>1, <1>4, <1>6, <1>7
  <1>10. AppsTypeOK'
    BY <1>1, <1>9 DEF AppsInv, AppsTypeOK
  <1>11. OneId'
    <2> SUFFICES ASSUME NEW i \in Ids, NEW j \in Ids, i # j, idToApp'[i] = idToApp'[j],
                        idToApp'[i] # NoApp
                 PROVE  FALSE
      BY DEF OneId
    <2>1. CASE i \in added /\ j \in added
      BY <1>5, <1>8, <2>1
    <2>2. CASE i \in added /\ j \notin added
      BY <1>4, <1>6, <1>8, <2>2
    <2>3. CASE i \notin added /\ j \in added
      BY <1>4, <1>6, <1>8, <2>3
    <2>4. CASE i \notin added /\ j \notin added
      BY <1>8, <2>4 DEF AppsInv, OneId
    <2> QED BY <2>1, <2>2, <2>3, <2>4
  <1>12. StartingHasSequence'
    <2> SUFFICES ASSUME NEW i \in Ids, idToApp'[i] # NoApp, apps.state[idToApp'[i]] = "STARTING"
                 PROVE  \E l \in Launches : launch[l] = [of |-> i, sequence |-> "running"]
      BY <1>1 DEF StartingHasSequence
    <2>1. i \notin added
      BY <1>4, <1>6, <1>8
    <2>2. idToApp'[i] = idToApp[i]
      BY <1>8, <2>1
    <2> QED BY <2>2 DEF AppsInv, StartingHasSequence
  <1>13. Sound(apps)' /\ LaunchHasId' /\ KindsAreKnown'
    BY <1>1 DEF AppsInv, Sound, Owned, Listed, SysType, LaunchHasId, KindsAreKnown, IsKind
  <1> QED BY <1>10, <1>11, <1>12, <1>13 DEF AppsInv

\* A launch begins with its sequence, and no application is waiting for one that was not made.
LEMMA LaunchStep ==
  ASSUME AppsInv, NEW l \in Launches, NEW i \in Ids, Launch(l, i)
  PROVE  AppsInv'
  <1>1. /\ launch' = [launch EXCEPT ![l] = [of |-> i, sequence |-> "running"]]
        /\ pidToApp' = [pidToApp EXCEPT ![l] = idToApp[i]]
        /\ launch[l].sequence = "none"
        /\ UNCHANGED <<idToApp, prefixesKnown, apps, windowKind, interesting, upsets>>
    BY DEF Launch
  <1>2. AppsTypeOK'
    BY <1>1 DEF AppsInv, AppsTypeOK
  <1>3. launch \in [Launches -> [of : Ids \cup {Nobody}, sequence : {"none", "running", "completed"}]]
    BY DEF AppsInv, AppsTypeOK
  <1>4. /\ launch'[l] = [of |-> i, sequence |-> "running"]
        /\ \A m \in Launches \ {l} : launch'[m] = launch[m]
    BY <1>1, <1>3
  <1>5. LaunchHasId'
    BY <1>4 DEF AppsInv, LaunchHasId
  <1>6. \A m \in Launches : launch[m].sequence # "none" => launch'[m].sequence # "none"
    BY <1>4
  <1>7. KindsAreKnown'
    <2> SUFFICES ASSUME NEW w \in Windows, windowKind[w] # Nobody
                 PROVE  IsKind(windowKind[w])'
      BY <1>1 DEF KindsAreKnown
    <2>1. IsKind(windowKind[w])
      BY DEF AppsInv, KindsAreKnown
    <2>2. windowKind[w] \in KindType
      BY <2>1, ApplicationsAssumption DEF IsKind
    <2>3. windowKind[w].launch \in Launches \cup {Nobody}
      BY <2>2 DEF KindType
    <2> QED BY <1>1, <1>6, <2>1, <2>3 DEF IsKind
  <1>8. StartingHasSequence'
    <2> SUFFICES ASSUME NEW j \in Ids, idToApp[j] # NoApp, apps.state[idToApp[j]] = "STARTING"
                 PROVE  \E m \in Launches : launch'[m] = [of |-> j, sequence |-> "running"]
      BY <1>1 DEF StartingHasSequence
    <2>1. PICK m \in Launches : launch[m] = [of |-> j, sequence |-> "running"]
      BY DEF AppsInv, StartingHasSequence
    <2>2. m # l
      BY <1>1, <2>1
    <2> QED BY <1>4, <2>1, <2>2
  <1>9. OneId' /\ Sound(apps)'
    BY <1>1 DEF AppsInv, OneId, Sound, Owned, Listed, SysType
  <1> QED BY <1>2, <1>5, <1>7, <1>8, <1>9 DEF AppsInv

\* An event about a sequence concerns the one application of its id.
LEMMA SequenceStep ==
  ASSUME AppsInv, NEW l \in Launches, NEW completed \in BOOLEAN, SequenceChanged(l, completed)
  PROVE  AppsInv'
  <1>1. PICK a : a = idToApp[launch[l].of]
    OBVIOUS
  <1>2. /\ launch[l].sequence = "running"
        /\ launch' = [launch EXCEPT ![l].sequence = IF completed THEN "completed" ELSE @]
        /\ apps' = IF a = NoApp THEN apps ELSE HandleStartup(apps, a, completed)
        /\ UNCHANGED <<idToApp, prefixesKnown, pidToApp, windowKind, interesting, upsets>>
    BY <1>1 DEF SequenceChanged
  <1>3. launch \in [Launches -> [of : Ids \cup {Nobody}, sequence : {"none", "running", "completed"}]]
    BY DEF AppsInv, AppsTypeOK
  <1>4. launch[l].of \in Ids
    BY <1>2 DEF AppsInv, LaunchHasId
  <1>5. launch[l] = [of |-> launch[l].of, sequence |-> "running"]
    BY <1>2, <1>3
  <1>6. /\ launch'[l].of = launch[l].of
        /\ launch'[l].sequence = IF completed THEN "completed" ELSE "running"
        /\ \A m \in Launches \ {l} : launch'[m] = launch[m]
        /\ ~completed => launch' = launch
    BY <1>2, <1>3
  <1>7. launch' \in [Launches -> [of : Ids \cup {Nobody}, sequence : {"none", "running", "completed"}]]
    BY <1>2, <1>3
  <1>8. a \in Apps \cup {NoApp}
    BY <1>1, <1>4 DEF AppsInv, AppsTypeOK
  <1>9. /\ Sound(apps')
        /\ \A b \in Apps \ {a} : apps'.state[b] = "STARTING" => apps.state[b] = "STARTING"
        /\ a # NoApp /\ completed => apps'.state[a] # "STARTING"
    <2>1. CASE a = NoApp
      BY <1>2, <2>1 DEF AppsInv
    <2>2. CASE a # NoApp
      <3>1. apps' = HandleStartup(apps, a, completed) /\ a \in Apps /\ Sound(apps)
        BY <1>2, <1>8, <2>2 DEF AppsInv
      <3> QED BY <3>1, HandleStartupSound
    <2> QED BY <2>1, <2>2
  <1>10. AppsTypeOK'
    BY <1>2, <1>7, <1>9 DEF AppsInv, AppsTypeOK, Sound, SysType, AppStates
  <1>11. LaunchHasId'
    BY <1>4, <1>6 DEF AppsInv, LaunchHasId
  <1>12. KindsAreKnown'
    <2> SUFFICES ASSUME NEW w \in Windows, windowKind[w] # Nobody
                 PROVE  IsKind(windowKind[w])'
      BY <1>2 DEF KindsAreKnown
    <2>1. IsKind(windowKind[w])
      BY DEF AppsInv, KindsAreKnown
    <2>2. windowKind[w] \in KindType
      BY <2>1, ApplicationsAssumption DEF IsKind
    <2>3. windowKind[w].launch \in Launches \cup {Nobody}
      BY <2>2 DEF KindType
    <2>4. \A m \in Launches : launch[m].sequence # "none" => launch'[m].sequence # "none"
      BY <1>6
    <2> QED BY <1>2, <2>1, <2>3, <2>4 DEF IsKind
  <1>13. StartingHasSequence'
    <2> SUFFICES ASSUME NEW j \in Ids, idToApp[j] # NoApp, apps'.state[idToApp[j]] = "STARTING"
                 PROVE  \E m \in Launches : launch'[m] = [of |-> j, sequence |-> "running"]
      BY <1>2 DEF StartingHasSequence
    <2>1. idToApp[j] \in Apps
      BY DEF AppsInv, AppsTypeOK
    <2>2. CASE idToApp[j] = a
      <3>1. ~completed
        BY <1>9, <2>2
      <3>2. j = launch[l].of
        BY <1>1, <1>4, <2>2 DEF AppsInv, OneId
      <3> QED BY <1>5, <1>6, <3>1, <3>2
    <2>3. CASE idToApp[j] # a
      <3>1. apps.state[idToApp[j]] = "STARTING"
        BY <1>9, <2>1, <2>3
      <3>2. PICK m \in Launches : launch[m] = [of |-> j, sequence |-> "running"]
        BY <3>1 DEF AppsInv, StartingHasSequence
      <3>3. m # l
        BY <1>1, <2>3, <3>2
      <3> QED BY <1>6, <3>2, <3>3
    <2> QED BY <2>2, <2>3
  <1>14. OneId'
    BY <1>2 DEF AppsInv, OneId
  <1> QED BY <1>9, <1>10, <1>11, <1>12, <1>13, <1>14 DEF AppsInv

\* The windows: every step that moves one keeps what is said of the objects.
LEMMA WindowAddedStep ==
  ASSUME AppsInv, NEW w \in Windows, NEW k \in Kinds, WindowAdded(w, k)
  PROVE  AppsInv'
  <1>1. PICK interests \in BOOLEAN :
          /\ interesting' = [interesting EXCEPT ![w] = interests]
          /\ apps' = IF interests THEN Track(apps, w, k) ELSE apps
    BY DEF WindowAdded
  <1>2. /\ Unused # {} /\ IsKind(k)
        /\ windowKind' = [windowKind EXCEPT ![w] = k]
        /\ UNCHANGED <<idToApp, prefixesKnown, pidToApp, launch, upsets>>
    BY DEF WindowAdded, IsKind
  <1>3. AppsTypeOK /\ LaunchHasId /\ Sound(apps)
    BY DEF AppsInv
  <1>4. Sound(apps') /\ NoneStarts(apps, apps')
    <2>1. CASE interests
      BY <1>1, <1>2, <1>3, <2>1, TrackSound
    <2>2. CASE ~interests
      BY <1>1, <1>3, <2>2 DEF NoneStarts
    <2> QED BY <2>1, <2>2
  <1>5. /\ interesting' \in [Windows -> BOOLEAN] /\ upsets' \in 0 .. MaxUpsets
        /\ windowKind' \in [Windows -> Kinds \cup {Nobody}]
    BY <1>1, <1>2, <1>3 DEF AppsTypeOK
  <1>6. \A x \in Windows : windowKind'[x] # Nobody => IsKind(windowKind'[x])
    BY <1>2, <1>3 DEF AppsInv, KindsAreKnown, AppsTypeOK
  <1> QED BY <1>2, <1>4, <1>5, <1>6, WindowStep

\* A window of another class is tracked as one of it.
LEMMA ClassChangedStep ==
  ASSUME AppsInv, NEW w \in Windows, NEW k \in Kinds, ClassChanged(w, k)
  PROVE  AppsInv'
  <1>1. /\ Unused # {} /\ windowKind[w] # Nobody /\ k.launch = windowKind[w].launch
        /\ windowKind' = [windowKind EXCEPT ![w] = k]
        /\ apps' = IF w \in apps.watched THEN TrackAgain(w, k) ELSE apps
        /\ UNCHANGED <<idToApp, prefixesKnown, pidToApp, launch, interesting>>
    BY DEF ClassChanged
  <1>2. AppsTypeOK /\ LaunchHasId /\ Sound(apps)
    BY DEF AppsInv
  <1>3. IsKind(k)
    <2>1. IsKind(windowKind[w])
      BY <1>1 DEF AppsInv, KindsAreKnown
    <2> QED BY <1>1, <2>1 DEF IsKind
  <1>4. Sound(apps') /\ NoneStarts(apps, apps')
    <2>1. CASE w \in apps.watched
      BY <1>1, <1>2, <1>3, <2>1, TrackAgainSound
    <2>2. CASE w \notin apps.watched
      BY <1>1, <1>2, <2>2 DEF NoneStarts
    <2> QED BY <2>1, <2>2
  <1>5. /\ interesting' \in [Windows -> BOOLEAN] /\ upsets' \in 0 .. MaxUpsets
        /\ windowKind' \in [Windows -> Kinds \cup {Nobody}]
    BY <1>1, <1>2, ApplicationsAssumption DEF AppsTypeOK, ClassChanged, Upset
  <1>6. \A x \in Windows : windowKind'[x] # Nobody => IsKind(windowKind'[x])
    BY <1>1, <1>2, <1>3 DEF AppsInv, KindsAreKnown, AppsTypeOK
  <1> QED BY <1>1, <1>4, <1>5, <1>6, WindowStep

\* A window that changes its workspace is removed and added.
LEMMA WindowMovedStep ==
  ASSUME AppsInv, NEW w \in Windows, WindowMoved(w)
  PROVE  AppsInv'
  <1>1. /\ Unused # {} /\ windowKind[w] # Nobody /\ apps' = TrackAgain(w, windowKind[w])
        /\ UNCHANGED <<idToApp, prefixesKnown, pidToApp, launch, windowKind, interesting, upsets>>
    BY DEF WindowMoved
  <1>2. AppsTypeOK /\ LaunchHasId /\ Sound(apps) /\ IsKind(windowKind[w])
    BY <1>1 DEF AppsInv, KindsAreKnown
  <1>3. Sound(apps') /\ NoneStarts(apps, apps')
    BY <1>1, <1>2, TrackAgainSound
  <1>4. /\ interesting' \in [Windows -> BOOLEAN] /\ upsets' \in 0 .. MaxUpsets
        /\ windowKind' \in [Windows -> Kinds \cup {Nobody}]
        /\ \A x \in Windows : windowKind'[x] # Nobody => IsKind(windowKind'[x])
    BY <1>1 DEF AppsInv, AppsTypeOK, KindsAreKnown
  <1> QED BY <1>1, <1>3, <1>4, WindowStep

\* A window that is gone is with no application.
LEMMA WindowUnmanagedStep ==
  ASSUME AppsInv, NEW w \in Windows, WindowUnmanaged(w)
  PROVE  AppsInv'
  <1>1. PICK gone : gone = Disassociate(apps, w, interesting[w])
    OBVIOUS
  <1>2. /\ apps' = RemoveFromAll(gone, w)
        /\ windowKind' = [windowKind EXCEPT ![w] = Nobody]
        /\ interesting' = [interesting EXCEPT ![w] = TRUE]
        /\ UNCHANGED <<idToApp, prefixesKnown, pidToApp, launch, upsets>>
    BY <1>1 DEF WindowUnmanaged
  <1>3. AppsTypeOK /\ LaunchHasId /\ Sound(apps)
    BY DEF AppsInv
  <1>4. interesting[w] \in BOOLEAN
    BY <1>3 DEF AppsTypeOK
  <1>5. Sound(gone) /\ NoneStarts(apps, gone) /\ gone.appOf[w] = NoApp
    BY <1>1, <1>3, <1>4, DisassociateSound
  <1>6. Sound(apps') /\ NoneStarts(gone, apps')
    BY <1>2, <1>5, RemoveFromAllSound
  <1>7. NoneStarts(apps, apps')
    BY <1>5, <1>6 DEF NoneStarts
  <1>8. /\ interesting' \in [Windows -> BOOLEAN] /\ upsets' \in 0 .. MaxUpsets
        /\ windowKind' \in [Windows -> Kinds \cup {Nobody}]
    BY <1>2, <1>3 DEF AppsTypeOK
  <1>9. \A x \in Windows : windowKind'[x] # Nobody => IsKind(windowKind'[x])
    BY <1>2, <1>3 DEF AppsInv, KindsAreKnown, AppsTypeOK
  <1> QED BY <1>2, <1>6, <1>7, <1>8, <1>9, WindowStep

\* Every step of the applications keeps the invariant.
LEMMA AppsStep == AppsInv /\ [AppsNext]_appsVars => AppsInv'
  <1> SUFFICES ASSUME AppsInv, [AppsNext]_appsVars PROVE AppsInv'
    OBVIOUS
  <1>1. \/ \E menu \in SUBSET Ids : AppsTreeChanged(menu)
        \/ AppsTreeFails
        \/ \E l \in Launches, i \in Ids : Launch(l, i)
        \/ \E l \in Launches : ChildExited(l)
        \/ \E l \in Launches, completed \in BOOLEAN : SequenceChanged(l, completed)
        \/ \E w \in Windows, k \in Kinds : WindowAdded(w, k)
        \/ \E w \in Windows, k \in Kinds : ClassChanged(w, k)
        \/ \E w \in Windows : WindowMoved(w)
        \/ \E w \in Windows : WindowUnmanaged(w)
        \/ \E w \in Windows : InterestChanged(w)
        \/ UNCHANGED appsVars
    BY Zenon DEF AppsNext
  <1>2. ASSUME AppsTreeFails PROVE AppsInv'
    <2>1. /\ upsets' \in 0 .. MaxUpsets /\ prefixesKnown' = FALSE
          /\ UNCHANGED <<idToApp, apps, pidToApp, launch, windowKind, interesting>>
      BY <1>2, ApplicationsAssumption DEF AppsTreeFails, Upset, AppsInv, AppsTypeOK
    <2> QED BY <2>1 DEF AppsInv, AppsTypeOK, Sound, SysType, Owned, Listed, OneId,
                        StartingHasSequence, LaunchHasId, KindsAreKnown, IsKind
  <1>3. ASSUME NEW l \in Launches, ChildExited(l) PROVE AppsInv'
    <2>1. /\ pidToApp' = [pidToApp EXCEPT ![l] = NoApp]
          /\ UNCHANGED <<idToApp, prefixesKnown, apps, launch, windowKind, interesting, upsets>>
      BY <1>3 DEF ChildExited
    <2> QED BY <2>1 DEF AppsInv, AppsTypeOK, Sound, SysType, Owned, Listed, OneId,
                        StartingHasSequence, LaunchHasId, KindsAreKnown, IsKind
  <1>4. ASSUME NEW w \in Windows, InterestChanged(w) PROVE AppsInv'
    <2>1. /\ upsets' \in 0 .. MaxUpsets /\ interesting' = [interesting EXCEPT ![w] = ~@]
          /\ UNCHANGED <<idToApp, prefixesKnown, apps, pidToApp, launch, windowKind>>
      BY <1>4, ApplicationsAssumption DEF InterestChanged, Upset, AppsInv, AppsTypeOK
    <2> QED BY <2>1 DEF AppsInv, AppsTypeOK, Sound, SysType, Owned, Listed, OneId,
                        StartingHasSequence, LaunchHasId, KindsAreKnown, IsKind
  <1>5. CASE UNCHANGED appsVars
    BY <1>5 DEF appsVars, AppsInv, AppsTypeOK, Sound, SysType, Owned, Listed, OneId,
                StartingHasSequence, LaunchHasId, KindsAreKnown, IsKind
  <1> QED BY <1>1, <1>2, <1>3, <1>4, <1>5, TreeChangedStep, LaunchStep, SequenceStep,
             WindowAddedStep, ClassChangedStep, WindowMovedStep, WindowUnmanagedStep

\* Of the invariant, what the run checks.
LEMMA AppsInvOwns == AppsInv => AppsOwnWindows
  <1> SUFFICES ASSUME AppsInv PROVE AppsOwnWindows
    OBVIOUS
  <1>1. TrackedWindowIsListed
    <2> SUFFICES ASSUME NEW w \in Windows, apps.appOf[w] # NoApp
                 PROVE  w \in apps.windows[apps.appOf[w]] /\ apps.runningState[apps.appOf[w]]
      BY DEF TrackedWindowIsListed
    <2>1. apps.appOf[w] \in Apps
      BY DEF AppsInv, AppsTypeOK
    <2>2. w \in apps.windows[apps.appOf[w]]
      BY DEF AppsInv, Sound, Listed
    <2>3. Owned(apps, apps.appOf[w])
      BY <2>1 DEF AppsInv, Sound
    <2> QED BY <2>2, <2>3 DEF Owned
  <1>2. RunningAppsHaveWindows
    <2> SUFFICES ASSUME NEW a \in Apps
                 PROVE  /\ (a \in apps.runningApps) = (apps.state[a] = "RUNNING")
                        /\ a \in apps.runningApps => apps.windows[a] # {}
                        /\ apps.windows[a] # {} => a \in apps.runningApps \/ apps.state[a] = "STARTING"
      BY DEF RunningAppsHaveWindows
    <2>1. Owned(apps, a)
      BY DEF AppsInv, Sound
    <2>2. apps.state[a] \in {"STOPPED", "STARTING", "RUNNING"}
      BY DEF AppsInv, AppsTypeOK
    <2> QED BY <2>1, <2>2 DEF Owned
  <1> QED BY <1>1, <1>2 DEF AppsInv, AppsOwnWindows

\* shell-window-tracker.c and shell-app.c, for all windows, launches and desktop files: the
\* application a window is mapped to lists it, an application runs exactly while it has
\* windows and its startup is over, and one that is shown as starting has a startup sequence
\* whose end it will be told, as long as its desktop file is known.
THEOREM AppsOwnTheirWindows == AppsSpec => []AppsOwnWindows
  <1>1. AppsInit => AppsInv
    BY AppsInitInv
  <1>2. AppsInv /\ [AppsNext]_appsVars => AppsInv'
    BY AppsStep
  <1>3. AppsInv => AppsOwnWindows
    BY AppsInvOwns
  <1> QED BY <1>1, <1>2, <1>3, PTL DEF AppsSpec

-----------------------------------------------------------------------------
(***************************************************************************)
(* The secrets of the network agent.  Two things have to be kept: who was  *)
(* answered (AnswersInv), and what the keyring will hold once it has       *)
(* served the calls that wait (KeyringInv).  For the second one a secret   *)
(* is followed through the calls by their places in the queue: as long as  *)
(* a save or a deletion waits for its search the last of them decides;     *)
(* after that the secret is there and nothing that waits takes it away, or *)
(* a call that writes it waits and no deletion waits behind that call.     *)
(***************************************************************************)

\* A finite set as a sequence.
LEMMA SetToSeqProperties ==
  ASSUME NEW S, IsFiniteSet(S)
  PROVE  /\ SetToSeq(S) \in Seq(S) /\ Len(SetToSeq(S)) \in Nat
         /\ \A k \in 1..Len(SetToSeq(S)) : SetToSeq(S)[k] \in S
         /\ \A x \in S : \E k \in 1..Len(SetToSeq(S)) : SetToSeq(S)[k] = x
  <1> DEFINE n == Cardinality(S)
             f == SetToSeq(S)
  <1>1. n \in Nat /\ \E g : g \in Bijection(1..n, S)
    BY FS_CardinalityType DEF ExistsBijection
  <1>2. \E g \in [1..n -> S] : IsInjective(g)
    BY <1>1 DEF Bijection, Injection, IsInjective
  <1>3. f \in [1..n -> S] /\ IsInjective(f)
    BY <1>2 DEF SetToSeq
  <1> HIDE DEF f
  <1>4. f \in Seq(S) /\ Len(f) = n
    BY <1>1, <1>3, FunctionIsSeq
  <1>5. f \in Injection(1..n, S)
    BY <1>3 DEF Injection, IsInjective
  <1>6. Cardinality(1..n) = n
    BY <1>1, FS_Interval
  <1>7. f \in Surjection(1..n, S)
    BY <1>5, <1>6, FS_Injection
  <1>8. \A x \in S : \E k \in 1..n : f[k] = x
    BY <1>7 DEF Surjection
  <1> QED BY <1>1, <1>3, <1>4, <1>8 DEF f

-----------------------------------------------------------------------------
(***************************************************************************)
(* The secrets of the networks                                             *)
(***************************************************************************)
Places == 1..Len(calls)
Operations == {"lookup", "cancelled", "find", "erase", "delete", "create"}
SecretType == [setting : RequestIds, key : SecretKeys, value : AgentCalls]
CallType == [op : Operations, id : RequestIds, call : AgentCalls, what : SUBSET (ItemType \cup SecretType)]

SameSecret(s, t) == s.setting = t.setting /\ s.key = t.key
OneOfEach(S) == S \subseteq SecretType /\ IsFiniteSet(S) /\ \A s, t \in S : SameSecret(s, t) => s = t

\* What a call to the keyring carries.
CallOK(c, last) ==
  /\ c.op \in {"find", "erase"} => OneOfEach(c.what) /\ \A s \in c.what : s.setting = c.id
  /\ c.op = "delete" => \A i \in c.what : i \in ItemType /\ i.serial <= last /\ i.connection = ConnectionOf[c.id]
  /\ c.op = "create" => \A s \in c.what : s \in SecretType /\ s.setting = c.id
CallsOK == calls \in Seq(CallType) /\ \A p \in Places : CallOK(calls[p], lastSerial)

\* The keyring has a secret once and gives an id once; what is to be deleted is of
\* the connection that it was found for.
KeyringOK ==
  /\ lastSerial \in Nat
  /\ items \subseteq ItemType /\ IsFiniteSet(items)
  /\ \A i \in items : i.serial <= lastSerial /\ i.connection = ConnectionOf[i.setting]
  /\ \A i, j \in items : i.serial = j.serial \/ SameSecret(i, j) => i = j
  /\ \A p \in Places : calls[p].op = "delete" =>
       \A i \in calls[p].what, j \in items : i.serial = j.serial => i.connection = j.connection

WantedOK ==
  /\ DOMAIN wanted = Connections
  /\ \A conn \in Connections : OneOfEach(wanted[conn]) /\ \A s \in wanted[conn] : ConnectionOf[s.setting] = conn

\* The calls that change what the keyring has of a connection.
Changes(c, conn) == c.op \in {"find", "erase", "delete", "create"} /\ ConnectionOf[c.id] = conn

\* None of the calls at the places S deletes i or writes another s.
Spares(S, conn, i, s) ==
  \A q \in S : Changes(calls[q], conn) =>
    /\ calls[q].op = "delete" => \A j \in calls[q].what : j.serial # i.serial
    /\ calls[q].op = "create" => \A t \in calls[q].what : SameSecret(s, t) => s = t

IsThere(conn, s) == \E i \in items : SameSecret(s, i) /\ i.value = s.value /\ Spares(Places, conn, i, s)

\* s will be written, and what comes after it leaves it.
WillBeWritten(conn, s) ==
  \E p \in Places :
    /\ Changes(calls[p], conn) /\ calls[p].op = "create" /\ calls[p].what = {s}
    /\ \A q \in Places : q > p /\ Changes(calls[q], conn) =>
         /\ calls[q].op # "delete"
         /\ calls[q].op = "create" => \A t \in calls[q].what : SameSecret(s, t) => s = t

FindsOf(conn) == {p \in Places : Changes(calls[p], conn) /\ calls[p].op \in {"find", "erase"}}

\* As long as a save or a deletion waits for its search the last one decides;
\* after that every secret is there for good or will be written.
Kept(conn) ==
  /\ \A p \in FindsOf(conn) : (\A q \in FindsOf(conn) : q <= p) => calls[p].what = wanted[conn]
  /\ FindsOf(conn) = {} => \A s \in wanted[conn] : IsThere(conn, s) \/ WillBeWritten(conn, s)
KeptInv == \A conn \in Connections : Kept(conn)

KeyringInv == CallsOK /\ KeyringOK /\ WantedOK /\ KeptInv

\* The calls by their places.
LEMMA PlacesFacts ==
  ASSUME CallsOK
  PROVE  /\ Len(calls) \in Nat
         /\ \A p \in Places : calls[p] \in CallType /\ calls[p].op \in Operations
                              /\ calls[p].id \in RequestIds /\ calls[p].call \in AgentCalls
         /\ Range(calls) = {calls[p] : p \in Places}
         /\ \A p \in Places : ConnectionOf[calls[p].id] \in Connections
  <1>1. calls \in Seq(CallType) /\ Len(calls) \in Nat /\ DOMAIN calls = Places
    BY LenProperties DEF CallsOK, Places
  <1>2. \A p \in Places : calls[p] \in CallType
    BY <1>1, ElementOfSeq DEF Places
  <1>3. Range(calls) = {calls[p] : p \in Places}
    BY <1>1 DEF Range
  <1> QED BY <1>1, <1>2, <1>3 DEF CallType, Connections

\* The calls of a connection that change something stay where they are, or move
\* up by one when the first call is served, and so does what they mean.
LEMMA KeptMoves ==
  ASSUME NEW conn, Kept(conn), NEW d \in {0, 1}, Len(calls) \in Nat, Len(calls') \in Nat,
         \A p \in Places' : Changes(calls'[p], conn) => p + d \in Places /\ calls[p + d] = calls'[p],
         \A p \in Places : Changes(calls[p], conn) => p - d \in Places' /\ calls'[p - d] = calls[p],
         wanted'[conn] = wanted[conn],
         \A i \in items, s \in wanted[conn] : SameSecret(s, i) /\ Spares(Places, conn, i, s) => i \in items'
  PROVE  Kept(conn)'
  <1>1. \A p \in Places : p \in Int
    BY DEF Places
  <1>2. \A p \in Places' : p \in Int
    BY DEF Places
  <1>3. \A p \in FindsOf(conn)' : p + d \in FindsOf(conn) /\ calls[p + d] = calls'[p]
    BY DEF FindsOf
  <1>4. \A p \in FindsOf(conn) : p - d \in FindsOf(conn)' /\ p \in Int
    BY <1>1 DEF FindsOf
  <1>5. ASSUME NEW p \in FindsOf(conn)', \A q \in FindsOf(conn)' : q <= p
        PROVE  calls'[p] = calls[p + d] /\ calls'[p].what = wanted'[conn]
    <2>1. p \in Int
      BY <1>2 DEF FindsOf
    <2>2. ASSUME NEW q \in FindsOf(conn) PROVE q <= p + d
      <3>1. q - d <= p /\ q \in Int
        BY <1>4, <1>5
      <3> QED BY <2>1, <3>1
    <2> QED BY <1>3, <2>2 DEF Kept
  <1>6. ASSUME FindsOf(conn)' = {}, NEW s \in wanted'[conn]
        PROVE  IsThere(conn, s)' \/ WillBeWritten(conn, s)'
    <2>1. FindsOf(conn) = {}
      BY <1>4, <1>6
    <2>2. IsThere(conn, s) \/ WillBeWritten(conn, s)
      BY <2>1 DEF Kept
    <2>3. CASE IsThere(conn, s)
      <3>1. PICK i \in items : SameSecret(s, i) /\ i.value = s.value /\ Spares(Places, conn, i, s)
        BY <2>3 DEF IsThere
      <3>2. i \in items'
        BY <3>1
      <3>3. ASSUME NEW q \in Places', Changes(calls'[q], conn)
            PROVE  /\ calls'[q].op = "delete" => \A j \in calls'[q].what : j.serial # i.serial
                   /\ calls'[q].op = "create" => \A t \in calls'[q].what : SameSecret(s, t) => s = t
        <4>1. q + d \in Places /\ calls[q + d] = calls'[q]
          BY <3>3
        <4> QED BY <3>1, <3>3, <4>1 DEF Spares
      <3>4. Spares(Places, conn, i, s)'
        BY <3>3 DEF Spares
      <3> QED BY <3>1, <3>2, <3>4 DEF IsThere
    <2>4. CASE WillBeWritten(conn, s)
      <3>1. PICK p \in Places :
              /\ Changes(calls[p], conn) /\ calls[p].op = "create" /\ calls[p].what = {s}
              /\ \A q \in Places : q > p /\ Changes(calls[q], conn) =>
                   /\ calls[q].op # "delete"
                   /\ calls[q].op = "create" => \A t \in calls[q].what : SameSecret(s, t) => s = t
        BY <2>4 DEF WillBeWritten
      <3>2. p - d \in Places' /\ calls'[p - d] = calls[p]
        BY <3>1
      <3>3. ASSUME NEW q \in Places', q > p - d, Changes(calls'[q], conn)
            PROVE  /\ calls'[q].op # "delete"
                   /\ calls'[q].op = "create" => \A t \in calls'[q].what : SameSecret(s, t) => s = t
        <4>1. q + d \in Places /\ calls[q + d] = calls'[q]
          BY <3>3
        <4>2. q \in Int /\ p \in Int
          BY <1>1, <1>2
        <4>3. q + d > p
          BY <3>3, <4>2
        <4> QED BY <3>1, <3>3, <4>1, <4>3
      <3> QED BY <3>1, <3>2, <3>3 DEF WillBeWritten
    <2> QED BY <2>2, <2>3, <2>4
  <1> QED BY <1>5, <1>6 DEF Kept

\* The call that is served next.
LEMMA HeadFacts ==
  ASSUME CallsOK, calls # <<>>
  PROVE  /\ 1 \in Places /\ Head(calls) = calls[1] /\ CallOK(calls[1], lastSerial)
         /\ Tail(calls) \in Seq(CallType) /\ Len(Tail(calls)) = Len(calls) - 1
         /\ \A k \in 1..Len(calls) - 1 : k + 1 \in Places /\ Tail(calls)[k] = calls[k + 1]
  <1>1. calls \in Seq(CallType) /\ Len(calls) \in Nat /\ Len(calls) # 0
    BY LenProperties, EmptySeq DEF CallsOK
  <1>2. /\ Head(calls) = calls[1]
        /\ Tail(calls) \in Seq(CallType) /\ Len(Tail(calls)) = Len(calls) - 1
        /\ \A k \in 1..Len(Tail(calls)) : Tail(calls)[k] = calls[k + 1]
    BY <1>1, HeadTailProperties
  <1>3. 1 \in Places /\ \A k \in 1..Len(calls) - 1 : k + 1 \in Places
    BY <1>1 DEF Places
  <1> QED BY <1>2, <1>3 DEF CallsOK

\* A lookup that comes, goes or is cancelled changes nothing.
LEMMA KeyringRests ==
  ASSUME KeyringInv, calls' \in Seq(CallType), NEW d \in {0, 1},
         \A p \in Places' : \/ calls'[p].op \in {"lookup", "cancelled"}
                            \/ p + d \in Places /\ calls[p + d] = calls'[p],
         \A p \in Places : \/ calls[p].op \in {"lookup", "cancelled"}
                           \/ p - d \in Places' /\ calls'[p - d] = calls[p],
         UNCHANGED <<items, lastSerial, wanted>>
  PROVE  KeyringInv'
  <1>1. Len(calls) \in Nat /\ Len(calls') \in Nat
    BY PlacesFacts, LenProperties DEF KeyringInv
  <1>2. ASSUME NEW p \in Places' PROVE CallOK(calls'[p], lastSerial')
    <2>1. CASE calls'[p].op \in {"lookup", "cancelled"}
      BY <2>1 DEF CallOK
    <2>2. CASE p + d \in Places /\ calls[p + d] = calls'[p]
      <3>1. CallOK(calls[p + d], lastSerial)
        BY <2>2 DEF KeyringInv, CallsOK
      <3> QED BY <2>2, <3>1 DEF CallOK
    <2> QED BY <2>1, <2>2
  <1>3. CallsOK'
    BY <1>2 DEF CallsOK
  <1>4. ASSUME NEW p \in Places', calls'[p].op = "delete",
               NEW i \in calls'[p].what, NEW j \in items', i.serial = j.serial
        PROVE  i.connection = j.connection
    <2>1. p + d \in Places /\ calls[p + d] = calls'[p]
      BY <1>4
    <2> QED BY <1>4, <2>1 DEF KeyringInv, KeyringOK
  <1>5. KeyringOK'
    BY <1>4 DEF KeyringInv, KeyringOK
  <1>6. WantedOK'
    BY DEF KeyringInv, WantedOK
  <1>7. ASSUME NEW conn \in Connections PROVE Kept(conn)'
    <2>1. Kept(conn)
      BY DEF KeyringInv, KeptInv
    <2>2. \A p \in Places' : Changes(calls'[p], conn) => p + d \in Places /\ calls[p + d] = calls'[p]
      BY DEF Changes
    <2>3. \A p \in Places : Changes(calls[p], conn) => p - d \in Places' /\ calls'[p - d] = calls[p]
      BY DEF Changes
    <2> QED BY <1>1, <2>1, <2>2, <2>3, KeptMoves
  <1> QED BY <1>3, <1>5, <1>6, <1>7 DEF KeyringInv, KeptInv, Connections

\* A save or a deletion that comes last decides.
LEMMA SaveStep ==
  ASSUME KeyringInv, NEW id \in RequestIds, NEW call \in AgentCalls, NEW op \in {"find", "erase"},
         NEW secrets, OneOfEach(secrets), \A s \in secrets : s.setting = id,
         calls' = Append(calls, KeyringCall(op, id, call, secrets)),
         wanted' = [wanted EXCEPT ![ConnectionOf[id]] = secrets],
         UNCHANGED <<items, lastSerial>>
  PROVE  KeyringInv'
  <1> DEFINE n == Len(calls)
             new == KeyringCall(op, id, call, secrets)
  <1>1. calls \in Seq(CallType) /\ n \in Nat
    BY PlacesFacts DEF KeyringInv, CallsOK
  <1>2. new \in CallType /\ new.op = op /\ new.id = id /\ new.what = secrets
    BY DEF KeyringCall, CallType, Operations, OneOfEach
  <1> HIDE DEF new
  <1>3. /\ calls' \in Seq(CallType) /\ Len(calls') = n + 1
        /\ \A p \in 1..n : calls'[p] = calls[p]
        /\ calls'[n + 1] = new
    BY <1>1, <1>2, AppendProperties DEF new
  <1>4. Places' = Places \cup {n + 1} /\ n + 1 \notin Places
    BY <1>1, <1>3 DEF Places
  <1>5. \A p \in Places : calls'[p] = calls[p]
    BY <1>3 DEF Places
  <1>6. CallsOK'
    <2>1. ASSUME NEW p \in Places PROVE CallOK(calls'[p], lastSerial')
      BY <1>5 DEF KeyringInv, CallsOK, CallOK
    <2>2. CallOK(calls'[n + 1], lastSerial')
      BY <1>2, <1>3 DEF CallOK
    <2> QED BY <1>3, <1>4, <2>1, <2>2 DEF CallsOK
  <1>7. KeyringOK'
    <2>1. ASSUME NEW p \in Places', calls'[p].op = "delete",
                 NEW i \in calls'[p].what, NEW j \in items', i.serial = j.serial
          PROVE  i.connection = j.connection
      <3>1. p \in Places /\ calls'[p] = calls[p]
        BY <1>2, <1>3, <1>4, <1>5, <2>1
      <3> QED BY <2>1, <3>1 DEF KeyringInv, KeyringOK
    <2> QED BY <2>1 DEF KeyringInv, KeyringOK
  <1>8. WantedOK'
    BY DEF KeyringInv, WantedOK
  <1>9. ASSUME NEW conn \in Connections PROVE Kept(conn)'
    <2>1. CASE conn # ConnectionOf[id]
      <3>1. Kept(conn) /\ wanted'[conn] = wanted[conn]
        BY <2>1 DEF KeyringInv, KeptInv, WantedOK
      <3>2. ASSUME NEW p \in Places', Changes(calls'[p], conn)
            PROVE  p + 0 \in Places /\ calls[p + 0] = calls'[p]
        <4>1. p \in Places
          BY <1>2, <1>3, <1>4, <2>1, <3>2 DEF Changes
        <4> QED BY <1>5, <4>1 DEF Places
      <3>3. ASSUME NEW p \in Places PROVE p - 0 \in Places' /\ calls'[p - 0] = calls[p]
        BY <1>4, <1>5 DEF Places
      <3>4. Len(calls') \in Nat
        BY <1>1, <1>3
      <3> QED BY <1>1, <3>1, <3>2, <3>3, <3>4, KeptMoves
    <2>2. CASE conn = ConnectionOf[id]
      <3>1. wanted'[conn] = secrets
        BY <2>2 DEF KeyringInv, WantedOK
      <3>2. n + 1 \in FindsOf(conn)'
        BY <1>2, <1>3, <1>4, <2>2 DEF FindsOf, Changes
      <3>3. ASSUME NEW p \in FindsOf(conn)', \A q \in FindsOf(conn)' : q <= p
            PROVE  calls'[p].what = secrets
        <4>1. n + 1 <= p /\ p \in 1..n + 1
          BY <1>1, <1>3, <3>2, <3>3 DEF FindsOf, Places
        <4> QED BY <1>1, <1>2, <1>3, <4>1
      <3> QED BY <3>1, <3>2, <3>3 DEF Kept
    <2> QED BY <2>1, <2>2
  <1> QED BY <1>6, <1>7, <1>8, <1>9 DEF KeyringInv, KeptInv, Connections

-----------------------------------------------------------------------------
\* A deletion that is served leaves what is kept.
LEMMA DeleteStep ==
  ASSUME KeyringInv, DeleteServed
  PROVE  KeyringInv'
  <1> DEFINE h == calls[1]
  <1>1. /\ Len(calls) \in Nat /\ Len(calls') = Len(calls) - 1 /\ Len(calls') \in Nat
        /\ 1 \in Places /\ CallOK(h, lastSerial) /\ h.op = "delete" /\ h.id \in RequestIds
        /\ calls' \in Seq(CallType)
        /\ \A k \in 1..Len(calls) - 1 : k + 1 \in Places /\ calls'[k] = calls[k + 1]
    BY HeadFacts, PlacesFacts, LenProperties DEF KeyringInv, DeleteServed
  <1>2. PICK of \in h.what : items' = {i \in items : i.serial # of.serial}
    BY HeadFacts DEF KeyringInv, DeleteServed
  <1>3. wanted' = wanted /\ lastSerial' = lastSerial
    BY DEF DeleteServed
  <1>4. of \in ItemType /\ of.serial <= lastSerial /\ of.connection = ConnectionOf[h.id]
    BY <1>1, <1>2 DEF CallOK
  <1>5. \A p \in Places' : p + 1 \in Places /\ calls[p + 1] = calls'[p]
    BY <1>1 DEF Places
  <1>6. \A p \in Places : p # 1 => p - 1 \in Places' /\ calls'[p - 1] = calls[p]
    <2>1. ASSUME NEW p \in Places, p # 1 PROVE p - 1 \in 1..Len(calls) - 1 /\ (p - 1) + 1 = p
      BY <1>1, <2>1 DEF Places
    <2> QED BY <1>1, <2>1 DEF Places
  <1>7. CallsOK'
    <2>1. ASSUME NEW p \in Places' PROVE CallOK(calls'[p], lastSerial')
      <3>1. CallOK(calls[p + 1], lastSerial)
        BY <1>5 DEF KeyringInv, CallsOK
      <3> QED BY <1>3, <1>5, <3>1 DEF CallOK
    <2> QED BY <1>1, <2>1 DEF CallsOK
  <1>8. KeyringOK'
    <2>1. items' \subseteq items
      BY <1>2
    <2>2. IsFiniteSet(items')
      BY <2>1, FS_Subset DEF KeyringInv, KeyringOK
    <2>3. ASSUME NEW p \in Places', calls'[p].op = "delete",
                 NEW i \in calls'[p].what, NEW j \in items', i.serial = j.serial
          PROVE  i.connection = j.connection
      BY <1>5, <2>1, <2>3 DEF KeyringInv, KeyringOK
    <2> QED BY <1>3, <2>1, <2>2, <2>3 DEF KeyringInv, KeyringOK
  <1>9. WantedOK'
    BY <1>3 DEF KeyringInv, WantedOK
  <1>10. ASSUME NEW conn \in Connections PROVE Kept(conn)'
    <2>1. Kept(conn)
      BY DEF KeyringInv, KeptInv
    <2>2. CASE conn # ConnectionOf[h.id]
      <3>1. \A p \in Places : Changes(calls[p], conn) => p - 1 \in Places' /\ calls'[p - 1] = calls[p]
        BY <1>6, <2>2 DEF Changes
      <3>2. ASSUME NEW i \in items, NEW s \in wanted[conn], SameSecret(s, i) PROVE i \in items'
        <4>1. i.connection = conn
          BY <3>2 DEF KeyringInv, KeyringOK, WantedOK, SameSecret
        <4>2. i.serial = of.serial => of.connection = i.connection
          BY <1>1, <1>2 DEF KeyringInv, KeyringOK
        <4> QED BY <1>2, <1>4, <2>2, <4>1, <4>2
      <3> QED BY <1>1, <1>3, <1>5, <2>1, <3>1, <3>2, KeptMoves
    <2>3. CASE conn = ConnectionOf[h.id]
      <3>1. Changes(h, conn)
        BY <1>1, <2>3 DEF Changes
      <3>2. ASSUME NEW p \in FindsOf(conn)', \A q \in FindsOf(conn)' : q <= p
            PROVE  calls'[p].what = wanted'[conn]
        <4>1. p + 1 \in FindsOf(conn) /\ calls'[p] = calls[p + 1] /\ p \in Int
          BY <1>5, <3>2 DEF FindsOf, Places
        <4>2. ASSUME NEW q \in FindsOf(conn) PROVE q <= p + 1
          <5>1. q # 1 /\ q \in Int
            BY <1>1 DEF FindsOf, Places
          <5>2. q - 1 \in FindsOf(conn)'
            BY <1>6, <5>1 DEF FindsOf
          <5> QED BY <3>2, <4>1, <5>1, <5>2
        <4> QED BY <1>3, <2>1, <4>1, <4>2 DEF Kept
      <3>3. ASSUME FindsOf(conn)' = {}, NEW s \in wanted'[conn]
            PROVE  IsThere(conn, s)' \/ WillBeWritten(conn, s)'
        <4>1. FindsOf(conn) = {}
          <5>1. ASSUME NEW q \in FindsOf(conn) PROVE FALSE
            <6>1. q # 1
              BY <1>1 DEF FindsOf
            <6> QED BY <1>6, <3>3, <6>1 DEF FindsOf
          <5> QED BY <5>1
        <4>2. IsThere(conn, s) \/ WillBeWritten(conn, s)
          BY <1>3, <2>1, <4>1 DEF Kept
        <4>3. CASE IsThere(conn, s)
          <5>1. PICK i \in items : SameSecret(s, i) /\ i.value = s.value /\ Spares(Places, conn, i, s)
            BY <4>3 DEF IsThere
          <5>2. i.serial # of.serial
            BY <1>1, <1>2, <3>1, <5>1 DEF Spares
          <5>3. i \in items'
            BY <1>2, <5>2
          <5>4. Spares(Places, conn, i, s)'
            BY <1>5, <5>1 DEF Spares
          <5> QED BY <5>1, <5>3, <5>4 DEF IsThere
        <4>4. CASE WillBeWritten(conn, s)
          <5>1. PICK p \in Places :
                  /\ Changes(calls[p], conn) /\ calls[p].op = "create" /\ calls[p].what = {s}
                  /\ \A q \in Places : q > p /\ Changes(calls[q], conn) =>
                       /\ calls[q].op # "delete"
                       /\ calls[q].op = "create" => \A t \in calls[q].what : SameSecret(s, t) => s = t
            BY <4>4 DEF WillBeWritten
          <5>2. p # 1 /\ p \in Int
            BY <1>1, <5>1 DEF Places
          <5>3. p - 1 \in Places' /\ calls'[p - 1] = calls[p]
            BY <1>6, <5>2
          <5>4. ASSUME NEW q \in Places', q > p - 1, Changes(calls'[q], conn)
                PROVE  /\ calls'[q].op # "delete"
                       /\ calls'[q].op = "create" => \A t \in calls'[q].what : SameSecret(s, t) => s = t
            <6>1. q + 1 \in Places /\ calls[q + 1] = calls'[q] /\ q \in Int
              BY <1>5 DEF Places
            <6>2. q + 1 > p
              BY <5>2, <5>4, <6>1
            <6> QED BY <5>1, <5>4, <6>1, <6>2
          <5> QED BY <5>1, <5>3, <5>4 DEF WillBeWritten
        <4> QED BY <4>2, <4>3, <4>4
      <3> QED BY <3>2, <3>3 DEF Kept
    <2> QED BY <2>2, <2>3
  <1> QED BY <1>7, <1>8, <1>9, <1>10 DEF KeyringInv, KeptInv, Connections

\* A secret that is written is there, and what else is kept stays.
LEMMA CreateStep ==
  ASSUME KeyringInv, CreateServed
  PROVE  KeyringInv'
  <1> DEFINE h == calls[1]
  <1>1. /\ Len(calls) \in Nat /\ Len(calls') = Len(calls) - 1 /\ Len(calls') \in Nat
        /\ 1 \in Places /\ CallOK(h, lastSerial) /\ h.op = "create" /\ h.id \in RequestIds
        /\ calls' \in Seq(CallType)
        /\ \A k \in 1..Len(calls) - 1 : k + 1 \in Places /\ calls'[k] = calls[k + 1]
    BY HeadFacts, PlacesFacts, LenProperties DEF KeyringInv, CreateServed
  <1> DEFINE same(of) == {i \in items : i.setting = of.setting /\ i.key = of.key}
             built(of) == [serial |-> lastSerial + 1, connection |-> ConnectionOf[of.setting], setting |-> of.setting,
                          key |-> of.key, value |-> of.value]
  <1>2. PICK of \in h.what :
          IF same(of) = {}
          THEN items' = items \cup {built(of)} /\ lastSerial' = lastSerial + 1
          ELSE /\ items' = (items \ same(of)) \cup {[i EXCEPT !.value = of.value] : i \in same(of)}
               /\ UNCHANGED lastSerial
    <2>1. \E of \in Head(calls).what :
            IF same(of) = {}
            THEN items' = items \cup {built(of)} /\ lastSerial' = lastSerial + 1
            ELSE /\ items' = (items \ same(of)) \cup {[i EXCEPT !.value = of.value] : i \in same(of)}
                 /\ UNCHANGED lastSerial
      BY DEF CreateServed
    <2>2. Head(calls) = h
      BY HeadFacts DEF KeyringInv, CreateServed
    <2> HIDE DEF same, built, h
    <2> QED BY <2>1, <2>2
  <1>3. wanted' = wanted /\ lastSerial \in Nat
    BY DEF CreateServed, KeyringInv, KeyringOK
  <1>4. of \in SecretType /\ of.setting = h.id /\ of.setting \in RequestIds /\ ConnectionOf[of.setting] \in Connections
    BY <1>1, <1>2 DEF CallOK, Connections
  <1>5. \A p \in Places' : p + 1 \in Places /\ calls[p + 1] = calls'[p]
    BY <1>1 DEF Places
  <1>6. \A p \in Places : p # 1 => p - 1 \in Places' /\ calls'[p - 1] = calls[p]
    <2>1. ASSUME NEW p \in Places, p # 1 PROVE p - 1 \in 1..Len(calls) - 1 /\ (p - 1) + 1 = p
      BY <1>1, <2>1 DEF Places
    <2> QED BY <1>1, <2>1 DEF Places
  \* The item that holds the secret now, and what it was before.
  <1>7. PICK new \in ItemType :
          /\ SameSecret(of, new) /\ new.value = of.value /\ new.connection = ConnectionOf[of.setting]
          /\ items' = (items \ same(of)) \cup {new}
          /\ \/ same(of) = {} /\ new.serial = lastSerial + 1 /\ lastSerial' = lastSerial + 1
             \/ \E i \in same(of) : same(of) = {i} /\ i.serial = new.serial /\ lastSerial' = lastSerial
    <2>1. CASE same(of) = {}
      <3>1. built(of) \in ItemType
        BY <1>3, <1>4 DEF ItemType, SecretType
      <3>2. SameSecret(of, built(of)) /\ built(of).value = of.value /\ built(of).connection = ConnectionOf[of.setting]
            /\ built(of).serial = lastSerial + 1
        BY DEF SameSecret
      <3>3. items' = (items \ same(of)) \cup {built(of)} /\ lastSerial' = lastSerial + 1
        BY <1>2, <2>1
      <3> HIDE DEF built, same
      <3> QED BY <2>1, <3>1, <3>2, <3>3
    <2>2. CASE same(of) # {}
      <3>1. PICK i \in same(of) : TRUE
        BY <2>2
      <3>2. same(of) = {i}
        BY <3>1 DEF KeyringInv, KeyringOK, SameSecret
      <3> DEFINE new == [i EXCEPT !.value = of.value]
      <3>3. /\ i \in ItemType /\ i.setting = of.setting /\ i.key = of.key
            /\ i.connection = ConnectionOf[of.setting]
        BY <3>1 DEF KeyringInv, KeyringOK
      <3>4. /\ new \in ItemType /\ new.setting = i.setting /\ new.key = i.key /\ new.value = of.value
            /\ new.connection = i.connection /\ new.serial = i.serial
        BY <1>4, <3>3 DEF ItemType, SecretType
      <3>5. items' = (items \ same(of)) \cup {new} /\ lastSerial' = lastSerial
        <4>1. items' = (items \ same(of)) \cup {[k EXCEPT !.value = of.value] : k \in same(of)} /\ lastSerial' = lastSerial
          BY <1>2, <2>2
        <4>2. {[k EXCEPT !.value = of.value] : k \in same(of)} = {new}
          BY <3>2
        <4> HIDE DEF same, new
        <4> QED BY <4>1, <4>2
      <3> HIDE DEF new
      <3> QED BY <3>2, <3>3, <3>4, <3>5 DEF SameSecret
    <2> QED BY <2>1, <2>2
  <1>8. lastSerial' \in Nat /\ lastSerial <= lastSerial'
    BY <1>3, <1>7
  <1>9. \A i \in items : i \in items' \/ SameSecret(of, i)
    BY <1>7 DEF SameSecret
  <1>10. CallsOK'
    <2>1. ASSUME NEW p \in Places' PROVE CallOK(calls'[p], lastSerial')
      <3>1. CallOK(calls[p + 1], lastSerial)
        BY <1>5 DEF KeyringInv, CallsOK
      <3>2. \A i \in ItemType : i.serial <= lastSerial => i.serial <= lastSerial'
        BY <1>3, <1>8 DEF ItemType
      <3> QED BY <1>5, <3>1, <3>2 DEF CallOK
    <2> QED BY <1>1, <2>1 DEF CallsOK
  <1>11. KeyringOK'
    <2>1. items' \subseteq ItemType
      BY <1>7 DEF KeyringInv, KeyringOK
    <2>2. IsFiniteSet(items')
      <3>1. IsFiniteSet(items) /\ items \ same(of) \in SUBSET items
        BY DEF KeyringInv, KeyringOK
      <3>2. IsFiniteSet(items \ same(of))
        BY <3>1, FS_Subset
      <3> HIDE DEF same
      <3> QED BY <1>7, <3>2, FS_AddElement
    <2>3. new.serial <= lastSerial' /\ new.serial \in Nat
      BY <1>3, <1>7 DEF KeyringInv, KeyringOK, ItemType
    <2>4. ASSUME NEW i \in items' PROVE i.serial <= lastSerial' /\ i.connection = ConnectionOf[i.setting]
      <3>1. CASE i = new
        BY <1>7, <2>3, <3>1 DEF SameSecret
      <3>2. CASE i \in items
        BY <1>3, <1>8, <3>2 DEF KeyringInv, KeyringOK, ItemType
      <3> QED BY <1>7, <3>1, <3>2
    <2>5. ASSUME NEW i \in items \ same(of) PROVE i.serial # new.serial /\ ~SameSecret(i, new)
      <3>1. ~SameSecret(i, new)
        BY <1>7 DEF SameSecret
      <3>2. CASE new.serial = lastSerial + 1
        BY <1>3, <3>1, <3>2 DEF KeyringInv, KeyringOK, ItemType
      <3>3. CASE \E k \in same(of) : same(of) = {k} /\ k.serial = new.serial
        BY <3>1, <3>3 DEF KeyringInv, KeyringOK
      <3> QED BY <1>7, <3>1, <3>2, <3>3
    <2>6. ASSUME NEW i \in items', NEW j \in items', i.serial = j.serial \/ SameSecret(i, j)
          PROVE  i = j
      <3>1. CASE i \in items /\ j \in items
        BY <2>6, <3>1 DEF KeyringInv, KeyringOK
      <3>2. (i = new \/ i \in items \ same(of)) /\ (j = new \/ j \in items \ same(of))
        BY <1>7
      <3>3. SameSecret(i, j) => SameSecret(j, i)
        BY DEF SameSecret
      <3> HIDE DEF same
      <3> QED BY <2>5, <2>6, <3>1, <3>2, <3>3
    <2>7. ASSUME NEW p \in Places', calls'[p].op = "delete",
                 NEW i \in calls'[p].what, NEW j \in items', i.serial = j.serial
          PROVE  i.connection = j.connection
      <3>1. p + 1 \in Places /\ calls[p + 1] = calls'[p]
        BY <1>5
      <3>2. i.serial <= lastSerial /\ i \in ItemType
        BY <2>7, <3>1 DEF KeyringInv, CallsOK, CallOK
      <3>3. CASE j \in items
        BY <2>7, <3>1, <3>3 DEF KeyringInv, KeyringOK
      <3>4. CASE j = new
        <4>1. new.serial # lastSerial + 1
          BY <1>3, <2>7, <3>2, <3>4 DEF ItemType
        <4>2. PICK k \in same(of) : k.serial = new.serial
          BY <1>7, <4>1
        <4>3. i.connection = k.connection
          BY <2>7, <3>1, <3>4, <4>2 DEF KeyringInv, KeyringOK
        <4>4. k.connection = ConnectionOf[of.setting]
          BY <4>2 DEF KeyringInv, KeyringOK
        <4> QED BY <1>7, <3>4, <4>3, <4>4
      <3> QED BY <1>7, <3>3, <3>4
    <2> QED BY <1>8, <2>1, <2>2, <2>4, <2>6, <2>7 DEF KeyringOK
  <1>12. WantedOK'
    BY <1>3 DEF KeyringInv, WantedOK
  <1>13. ASSUME NEW conn \in Connections PROVE Kept(conn)'
    <2>1. Kept(conn)
      BY DEF KeyringInv, KeptInv
    <2>2. CASE conn # ConnectionOf[h.id]
      <3>1. \A p \in Places : Changes(calls[p], conn) => p - 1 \in Places' /\ calls'[p - 1] = calls[p]
        BY <1>6, <2>2 DEF Changes
      <3>2. ASSUME NEW i \in items, NEW s \in wanted[conn], SameSecret(s, i) PROVE i \in items'
        <4>1. ConnectionOf[s.setting] = conn /\ s.setting = i.setting
          BY <3>2 DEF KeyringInv, WantedOK, SameSecret
        <4> QED BY <1>4, <1>9, <2>2, <4>1 DEF SameSecret
      <3> QED BY <1>1, <1>3, <1>5, <2>1, <3>1, <3>2, KeptMoves
    <2>3. CASE conn = ConnectionOf[h.id]
      <3>1. Changes(h, conn) /\ 1 \in Places
        BY <1>1, <2>3 DEF Changes
      <3>2. ASSUME NEW p \in FindsOf(conn)', \A q \in FindsOf(conn)' : q <= p
            PROVE  calls'[p].what = wanted'[conn]
        <4>1. p + 1 \in FindsOf(conn) /\ calls'[p] = calls[p + 1] /\ p \in Int
          BY <1>5, <3>2 DEF FindsOf, Places
        <4>2. ASSUME NEW q \in FindsOf(conn) PROVE q <= p + 1
          <5>1. q # 1 /\ q \in Int
            BY <1>1 DEF FindsOf, Places
          <5>2. q - 1 \in FindsOf(conn)'
            BY <1>6, <5>1 DEF FindsOf
          <5> QED BY <3>2, <4>1, <5>1, <5>2
        <4> QED BY <1>3, <2>1, <4>1, <4>2 DEF Kept
      <3>3. ASSUME FindsOf(conn)' = {}, NEW s \in wanted'[conn]
            PROVE  IsThere(conn, s)' \/ WillBeWritten(conn, s)'
        <4>1. FindsOf(conn) = {}
          <5>1. ASSUME NEW q \in FindsOf(conn) PROVE FALSE
            <6>1. q # 1
              BY <1>1 DEF FindsOf
            <6> QED BY <1>6, <3>3, <6>1 DEF FindsOf
          <5> QED BY <5>1
        <4>2. IsThere(conn, s) \/ WillBeWritten(conn, s)
          BY <1>3, <2>1, <4>1 DEF Kept
        <4>3. CASE IsThere(conn, s)
          <5>1. PICK i \in items : SameSecret(s, i) /\ i.value = s.value /\ Spares(Places, conn, i, s)
            BY <4>3 DEF IsThere
          <5>2. Spares(Places, conn, i, s)'
            BY <1>5, <5>1 DEF Spares
          <5>3. CASE i \in items'
            BY <5>1, <5>2, <5>3 DEF IsThere
          <5>4. CASE i \notin items'
            <6>1. SameSecret(of, i) /\ i \in same(of)
              BY <1>9, <5>4 DEF SameSecret
            <6>2. s = of
              <7>1. SameSecret(s, of)
                BY <5>1, <6>1 DEF SameSecret
              <7> QED BY <1>1, <1>2, <3>1, <5>1, <7>1 DEF Spares
            <6>3. new.serial = i.serial /\ new \in items'
              BY <1>7, <6>1
            <6>4. Spares(Places, conn, new, s)'
              BY <5>2, <6>3 DEF Spares
            <6> QED BY <1>7, <6>2, <6>3, <6>4 DEF IsThere
          <5> QED BY <5>3, <5>4
        <4>4. CASE WillBeWritten(conn, s)
          <5>1. PICK p \in Places :
                  /\ Changes(calls[p], conn) /\ calls[p].op = "create" /\ calls[p].what = {s}
                  /\ \A q \in Places : q > p /\ Changes(calls[q], conn) =>
                       /\ calls[q].op # "delete"
                       /\ calls[q].op = "create" => \A t \in calls[q].what : SameSecret(s, t) => s = t
            BY <4>4 DEF WillBeWritten
          <5>2. ASSUME NEW q \in Places', q > p - 1, Changes(calls'[q], conn)
                PROVE  /\ calls'[q].op # "delete"
                       /\ calls'[q].op = "create" => \A t \in calls'[q].what : SameSecret(s, t) => s = t
            <6>1. q + 1 \in Places /\ calls[q + 1] = calls'[q] /\ q \in Int /\ p \in Int
              BY <1>5 DEF Places
            <6>2. q + 1 > p
              BY <5>2, <6>1
            <6> QED BY <5>1, <5>2, <6>1, <6>2
          <5>3. CASE p # 1
            <6>1. p - 1 \in Places' /\ calls'[p - 1] = calls[p]
              BY <1>6, <5>3
            <6> QED BY <5>1, <5>2, <6>1 DEF WillBeWritten
          <5>4. CASE p = 1
            <6>1. s = of /\ new \in items'
              BY <1>2, <1>7, <5>1, <5>4
            <6>2. ASSUME NEW q \in Places', Changes(calls'[q], conn)
                  PROVE  /\ calls'[q].op # "delete"
                         /\ calls'[q].op = "create" => \A t \in calls'[q].what : SameSecret(s, t) => s = t
              <7>1. q > p - 1
                BY <5>4 DEF Places
              <7> QED BY <5>2, <6>2, <7>1
            <6>3. Spares(Places, conn, new, s)'
              BY <6>2 DEF Spares
            <6> QED BY <1>7, <6>1, <6>3 DEF IsThere
          <5> QED BY <5>3, <5>4
        <4> QED BY <4>2, <4>3, <4>4
      <3> QED BY <3>2, <3>3 DEF Kept
    <2> QED BY <2>2, <2>3
  <1> QED BY <1>10, <1>11, <1>12, <1>13 DEF KeyringInv, KeptInv, Connections

\* A search that is served is followed by deletions of what it found and then by
\* what is to be written; it is the last to decide when no other one waits.
LEMMA FindStep ==
  ASSUME KeyringInv, FindServed
  PROVE  /\ KeyringInv'
         /\ \A p \in Places' : \/ p + 1 \in Places /\ calls[p + 1] = calls'[p]
                               \/ calls'[p].op \in {"delete", "create"}
         /\ \A p \in Places : p # 1 => p - 1 \in Places' /\ calls'[p - 1] = calls[p]
  <1> DEFINE h == calls[1]
             n == Len(calls) - 1
             mine == {i \in items : i.connection = ConnectionOf[h.id]}
             ds == {KeyringCall("delete", h.id, h.call, {i}) : i \in mine}
             cs == {KeyringCall("create", h.id, h.call, {s}) : s \in h.what}
  <1>1. /\ Len(calls) \in Nat /\ n \in Nat /\ 1 \in Places
        /\ h \in CallType /\ CallOK(h, lastSerial) /\ h.op \in {"find", "erase"} /\ h.id \in RequestIds /\ h.call \in AgentCalls
        /\ Head(calls) = h /\ Tail(calls) \in Seq(CallType) /\ Len(Tail(calls)) = n
        /\ \A k \in 1..n : k + 1 \in Places /\ Tail(calls)[k] = calls[k + 1]
    <2>1. CallsOK /\ calls # <<>>
      BY DEF KeyringInv, FindServed
    <2>2. /\ 1 \in Places /\ Head(calls) = h /\ CallOK(h, lastSerial)
          /\ Tail(calls) \in Seq(CallType) /\ Len(Tail(calls)) = n
          /\ \A k \in 1..n : k + 1 \in Places /\ Tail(calls)[k] = calls[k + 1]
      BY <2>1, HeadFacts
    <2>3. /\ Len(calls) \in Nat /\ h \in CallType /\ h.id \in RequestIds /\ h.call \in AgentCalls
      BY <2>1, <2>2, PlacesFacts
    <2>4. h.op \in {"find", "erase"}
      BY <2>2 DEF FindServed
    <2>5. n \in Nat
      BY <2>2, <2>3, LenProperties
    <2> QED BY <2>2, <2>3, <2>4, <2>5
  <1>2. OneOfEach(h.what) /\ \A s \in h.what : s.setting = h.id
    BY <1>1 DEF CallOK
  <1>3. UNCHANGED <<items, lastSerial, wanted>>
    BY DEF FindServed
  <1>4. PICK dels \in {SetToSeq(ds), <<>>} : calls' = (Tail(calls) \o dels) \o SetToSeq(cs)
    <2>1. \/ calls' = (Tail(calls) \o SetToSeq(ds)) \o SetToSeq(cs)
          \/ calls' = Tail(calls) \o SetToSeq(cs)
      BY <1>1 DEF FindServed
    <2>2. Tail(calls) \o <<>> = Tail(calls)
      BY <1>1, ConcatEmptySeq
    <2> HIDE DEF ds, cs
    <2> QED BY <2>1, <2>2, SMTT(30)
  <1> DEFINE wr == SetToSeq(cs)
  <1>5. ds \in SUBSET CallType /\ \A c \in ds : /\ c.op = "delete" /\ c.id = h.id
                                                /\ \A i \in c.what : i \in mine /\ i \in ItemType
    <2>1. \A i \in mine : i \in ItemType
      BY DEF KeyringInv, KeyringOK
    <2> HIDE DEF mine
    <2> QED BY <1>1, <2>1 DEF KeyringCall, CallType, Operations
  <1>6. cs \in SUBSET CallType /\ \A c \in cs : /\ c.op = "create" /\ c.id = h.id
                                                /\ \E s \in h.what : c.what = {s}
    BY <1>1, <1>2 DEF KeyringCall, CallType, Operations, OneOfEach
  <1>7. IsFiniteSet(ds) /\ IsFiniteSet(cs)
    <2>1. IsFiniteSet(mine)
      <3>1. mine \in SUBSET items /\ IsFiniteSet(items)
        BY DEF KeyringInv, KeyringOK
      <3> HIDE DEF mine
      <3> QED BY <3>1, FS_Subset
    <2>2. IsFiniteSet(h.what)
      BY <1>2 DEF OneOfEach
    <2> DEFINE f == [i \in mine |-> KeyringCall("delete", h.id, h.call, {i})]
               g == [s \in h.what |-> KeyringCall("create", h.id, h.call, {s})]
    <2>3. f \in Surjection(mine, ds) /\ g \in Surjection(h.what, cs)
      <3> HIDE DEF mine, h
      <3> QED BY DEF Surjection
    <2> HIDE DEF f, g, mine, ds, cs
    <2> QED BY <2>1, <2>2, <2>3, FS_Surjection
  <1>8. /\ dels \in Seq(CallType) /\ Len(dels) \in Nat
        /\ \A k \in 1..Len(dels) : dels[k] \in ds
    <2>1. CASE dels = SetToSeq(ds)
      <3> HIDE DEF ds
      <3>1. SetToSeq(ds) \in Seq(ds) /\ Len(SetToSeq(ds)) \in Nat
            /\ \A k \in 1..Len(SetToSeq(ds)) : SetToSeq(ds)[k] \in ds
        BY <1>7, SetToSeqProperties
      <3> QED BY <1>5, <2>1, <3>1, LenProperties, SeqMonotonic
    <2>2. CASE dels = <<>>
      BY <2>2
    <2> QED BY <1>4, <2>1, <2>2
  <1>9. /\ wr \in Seq(CallType) /\ Len(wr) \in Nat
        /\ \A k \in 1..Len(wr) : wr[k] \in cs
        /\ \A c \in cs : \E k \in 1..Len(wr) : wr[k] = c
    <2> HIDE DEF cs
    <2>1. SetToSeq(cs) \in Seq(cs)
      BY <1>7, SetToSeqProperties
    <2> QED BY <1>6, <1>7, <2>1, SetToSeqProperties, SeqMonotonic
  <1> DEFINE d == Len(dels)
             w == Len(wr)
  <1>10. /\ calls' \in Seq(CallType) /\ Len(calls') = n + d + w
         /\ \A k \in 1..n : calls'[k] = calls[k + 1]
         /\ \A k \in 1..d : calls'[n + k] = dels[k]
         /\ \A k \in 1..w : calls'[n + d + k] = wr[k]
    <2> DEFINE a == Tail(calls)
               b == a \o dels
    <2> HIDE DEF wr, n, h
    <2>1. /\ b \in Seq(CallType) /\ Len(b) = n + d
          /\ \A i \in 1..n + d : b[i] = IF i <= n THEN a[i] ELSE dels[i - n]
      BY <1>1, <1>8, ConcatProperties, ZenonT(60)
    <2> HIDE DEF b
    <2>2. /\ b \o wr \in Seq(CallType) /\ Len(b \o wr) = n + d + w
          /\ \A i \in 1..n + d + w : (b \o wr)[i] = IF i <= n + d THEN b[i] ELSE wr[i - (n + d)]
      BY <1>9, <2>1, ConcatProperties, SMTT(30)
    <2>3. calls' = b \o wr
      BY <1>4 DEF b, wr
    <2> HIDE DEF a, d, w
    <2>4. n \in Nat /\ d \in Nat /\ w \in Nat
      BY <1>1, <1>8, <1>9 DEF d, w
    <2>5. ASSUME NEW k \in 1..n PROVE calls'[k] = calls[k + 1]
      <3>1. k \in 1..n + d + w /\ k <= n + d /\ k \in 1..n + d /\ k <= n
        BY <2>4
      <3>2. calls'[k] = a[k]
        BY <2>1, <2>2, <2>3, <3>1
      <3> QED BY <1>1, <3>2 DEF a
    <2>6. ASSUME NEW k \in 1..d PROVE calls'[n + k] = dels[k]
      <3>1. n + k \in 1..n + d + w /\ n + k <= n + d /\ n + k \in 1..n + d /\ ~(n + k <= n) /\ (n + k) - n = k
        BY <2>4
      <3> QED BY <2>1, <2>2, <2>3, <3>1
    <2>7. ASSUME NEW k \in 1..w PROVE calls'[n + d + k] = wr[k]
      <3>1. n + d + k \in 1..n + d + w /\ ~(n + d + k <= n + d) /\ (n + d + k) - (n + d) = k
        BY <2>4
      <3> QED BY <2>2, <2>3, <3>1
    <2> QED BY <2>2, <2>3, <2>5, <2>6, <2>7
  <1>11. n \in Nat /\ d \in Nat /\ w \in Nat
    BY <1>1, <1>8, <1>9
  <1> HIDE DEF wr, d, w, n, ds, cs, h
  \* Each call was behind the first one, or deletes, or writes.
  <1>12. ASSUME NEW p \in Places'
         PROVE  \/ p \in 1..n /\ p + 1 \in Places /\ calls[p + 1] = calls'[p]
                \/ p > n /\ p <= n + d /\ calls'[p] \in ds
                \/ p > n + d /\ calls'[p] \in cs
    <2>1. p \in 1..n + d + w
      BY <1>10 DEF Places
    <2>2. CASE p <= n
      <3>1. p \in 1..n
        BY <1>11, <2>1, <2>2
      <3> QED BY <1>1, <1>10, <3>1
    <2>3. CASE ~(p <= n) /\ p <= n + d
      <3>1. p - n \in 1..d /\ n + (p - n) = p
        BY <1>11, <2>1, <2>3
      <3>2. calls'[p] = dels[p - n]
        BY <1>10, <3>1
      <3>3. p > n
        BY <1>11, <2>1, <2>3
      <3> QED BY <1>8, <2>3, <3>1, <3>2, <3>3 DEF d
    <2>4. CASE ~(p <= n) /\ ~(p <= n + d)
      <3>1. p - (n + d) \in 1..w /\ n + d + (p - (n + d)) = p /\ p > n + d
        BY <1>11, <2>1, <2>4
      <3>2. calls'[p] = wr[p - (n + d)]
        BY <1>10, <3>1
      <3> QED BY <1>9, <3>1, <3>2 DEF w
    <2> QED BY <2>2, <2>3, <2>4
  <1>13. \A p \in Places : p # 1 => p - 1 \in Places' /\ calls'[p - 1] = calls[p]
    <2>1. ASSUME NEW p \in Places, p # 1
          PROVE  p - 1 \in 1..n /\ (p - 1) + 1 = p /\ p - 1 \in 1..n + d + w
      BY <1>1, <1>11, <2>1 DEF Places, n
    <2> QED BY <1>10, <2>1 DEF Places
  <1>14. CallsOK'
    <2>1. ASSUME NEW p \in Places' PROVE CallOK(calls'[p], lastSerial')
      <3>1. CASE p + 1 \in Places /\ calls[p + 1] = calls'[p]
        BY <1>3, <3>1 DEF KeyringInv, CallsOK
      <3>2. CASE calls'[p] \in ds
        <4>1. \A i \in mine : i.serial <= lastSerial /\ i.connection = ConnectionOf[h.id]
          BY DEF KeyringInv, KeyringOK
        <4> QED BY <1>3, <1>5, <3>2, <4>1 DEF CallOK
      <3>3. CASE calls'[p] \in cs
        BY <1>2, <1>6, <3>3 DEF CallOK, OneOfEach
      <3> QED BY <1>12, <3>1, <3>2, <3>3
    <2> QED BY <1>10, <2>1 DEF CallsOK
  <1>15. KeyringOK'
    <2>1. ASSUME NEW p \in Places', calls'[p].op = "delete",
                 NEW i \in calls'[p].what, NEW j \in items', i.serial = j.serial
          PROVE  i.connection = j.connection
      <3>1. CASE p + 1 \in Places /\ calls[p + 1] = calls'[p]
        BY <1>3, <2>1, <3>1 DEF KeyringInv, KeyringOK
      <3>2. CASE calls'[p] \in ds
        BY <1>3, <1>5, <2>1, <3>2 DEF KeyringInv, KeyringOK
      <3>3. CASE calls'[p] \in cs
        BY <1>6, <2>1, <3>3
      <3> QED BY <1>12, <3>1, <3>2, <3>3
    <2> QED BY <1>3, <2>1 DEF KeyringInv, KeyringOK
  <1>16. WantedOK'
    BY <1>3 DEF KeyringInv, WantedOK
  <1>17. ASSUME NEW conn \in Connections PROVE Kept(conn)'
    <2>1. Kept(conn)
      BY DEF KeyringInv, KeptInv
    <2>2. CASE conn # ConnectionOf[h.id]
      <3>1. \A p \in Places : Changes(calls[p], conn) => p - 1 \in Places' /\ calls'[p - 1] = calls[p]
        BY <1>13, <2>2 DEF Changes, h
      <3>2. \A p \in Places' : Changes(calls'[p], conn) => p + 1 \in Places /\ calls[p + 1] = calls'[p]
        BY <1>5, <1>6, <1>12, <2>2 DEF Changes
      <3>3. Len(calls) \in Nat /\ Len(calls') \in Nat
        BY <1>1, <1>10, <1>11
      <3> QED BY <1>3, <2>1, <3>1, <3>2, <3>3, KeptMoves
    <2>3. CASE conn = ConnectionOf[h.id]
      <3>1. 1 \in FindsOf(conn)
        BY <1>1, <2>3 DEF FindsOf, Changes, h
      <3>2. \A p \in FindsOf(conn)' : p \in 1..n /\ p + 1 \in FindsOf(conn) /\ calls[p + 1] = calls'[p]
        BY <1>5, <1>6, <1>12 DEF FindsOf
      <3>3. ASSUME NEW p \in FindsOf(conn)', \A q \in FindsOf(conn)' : q <= p
            PROVE  calls'[p].what = wanted'[conn]
        <4>1. p + 1 \in FindsOf(conn) /\ calls'[p] = calls[p + 1] /\ p \in 1..n
          BY <3>2
        <4>2. ASSUME NEW q \in FindsOf(conn) PROVE q <= p + 1
          <5>1. q \in Int /\ p \in Int /\ p >= 1
            BY <1>11, <4>1 DEF FindsOf, Places
          <5>2. CASE q # 1
            <6>1. q - 1 \in FindsOf(conn)'
              BY <1>13, <5>2 DEF FindsOf
            <6> QED BY <3>3, <5>1, <6>1
          <5> QED BY <5>1, <5>2
        <4> QED BY <1>3, <2>1, <4>1, <4>2 DEF Kept
      <3>4. ASSUME FindsOf(conn)' = {}, NEW s \in wanted'[conn]
            PROVE  WillBeWritten(conn, s)'
        <4>1. \A q \in FindsOf(conn) : q <= 1
          <5>1. ASSUME NEW q \in FindsOf(conn), q # 1 PROVE FALSE
            BY <1>13, <3>4, <5>1 DEF FindsOf
          <5> QED BY <5>1
        <4>2. s \in h.what
          BY <1>3, <2>1, <3>1, <4>1 DEF Kept, h
        <4>3. KeyringCall("create", h.id, h.call, {s}) \in cs
          BY <4>2 DEF cs
        <4>4. PICK k \in 1..w : wr[k] = KeyringCall("create", h.id, h.call, {s})
          BY <1>9, <4>3 DEF w
        <4> DEFINE p == n + d + k
        <4>5. calls'[p].what = {s} /\ calls'[p].op = "create" /\ Changes(calls'[p], conn)
          BY <1>10, <2>3, <4>4 DEF KeyringCall, Changes
        <4>6. p \in Places' /\ p > n + d /\ p \in Int
          BY <1>10, <1>11 DEF Places
        <4>7. ASSUME NEW q \in Places', q > p
              PROVE  /\ calls'[q].op # "delete"
                     /\ calls'[q].op = "create" => \A t \in calls'[q].what : SameSecret(s, t) => s = t
          <5>1. q \in Int /\ q > n + d
            BY <1>11, <4>6, <4>7 DEF Places
          <5>2. calls'[q] \in cs
            BY <1>11, <1>12, <5>1
          <5>3. PICK t \in h.what : calls'[q].what = {t}
            BY <1>6, <5>2
          <5>4. SameSecret(s, t) => s = t
            BY <1>2, <4>2 DEF OneOfEach
          <5> QED BY <1>6, <5>2, <5>3, <5>4
        <4> HIDE DEF p
        <4> QED BY <4>5, <4>6, <4>7 DEF WillBeWritten
      <3> QED BY <3>3, <3>4 DEF Kept
    <2> QED BY <2>2, <2>3
  <1>18. KeyringInv'
    BY <1>14, <1>15, <1>16, <1>17 DEF KeyringInv, KeptInv, Connections
  <1> QED BY <1>5, <1>6, <1>12, <1>13, <1>18

-----------------------------------------------------------------------------
\* The requests and the deletions that were not answered.
Asked(c) ==
  \/ \E id \in RequestIds : \E r \in agentRequests[id] : r.call = c
  \/ \E p \in Places : calls[p].op = "erase" /\ calls[p].call = c

RequestsOK ==
  /\ DOMAIN agentRequests = RequestIds
  /\ \A id \in RequestIds : agentRequests[id] = {} \/ \E r \in AgentRequestType : agentRequests[id] = {r}
  /\ \A id, jd \in RequestIds : \A r \in agentRequests[id], q \in agentRequests[jd] : r.call = q.call => id = jd
  /\ \A id \in RequestIds : \A r \in agentRequests[id] : r.call <= asks

\* A lookup belongs to a request that waits for it.
LookupsOK ==
  /\ \A p \in Places : calls[p].op = "lookup" =>
       \E r \in agentRequests[calls[p].id] : r.call = calls[p].call /\ r.stage = "keyring"
  /\ \A p, q \in Places : calls[p].op = "lookup" /\ calls[q].op = "lookup" /\ calls[p].id = calls[q].id => p = q

\* A deletion has a call of its own.
ErasesOK ==
  /\ \A p \in Places : calls[p].op = "erase" =>
       /\ calls[p].call <= asks
       /\ \A id \in RequestIds : \A r \in agentRequests[id] : r.call # calls[p].call
  /\ \A p, q \in Places : calls[p].op = "erase" /\ calls[q].op = "erase" /\ calls[p].call = calls[q].call => p = q

AnswersOK == \A c \in AgentCalls : answered[c] = IF c > asks \/ Asked(c) THEN 0 ELSE 1

AnswersInv ==
  /\ asks \in 0..MaxAsked /\ answered \in [AgentCalls -> Nat]
  /\ RequestsOK /\ LookupsOK /\ ErasesOK /\ AnswersOK

AgentInv == KeyringInv /\ AnswersInv

\* The counts of the answers when one is given, and when none is.
LEMMA AnswerCounts ==
  ASSUME AnswersInv, asks' = asks,
         \/ UNCHANGED answered /\ \A e \in AgentCalls : Asked(e)' <=> Asked(e)
         \/ \E c \in AgentCalls : /\ c <= asks /\ Asked(c) /\ Answered(c) /\ ~Asked(c)'
                                  /\ \A e \in AgentCalls : e # c => (Asked(e)' <=> Asked(e))
  PROVE  answered' \in [AgentCalls -> Nat] /\ AnswersOK'
  <1>1. answered \in [AgentCalls -> Nat] /\ asks \in Nat /\ \A c \in AgentCalls : c \in Nat
    BY AgentAssumption DEF AnswersInv, AgentCalls
  <1>2. CASE UNCHANGED answered /\ \A e \in AgentCalls : Asked(e)' <=> Asked(e)
    BY <1>1, <1>2 DEF AnswersInv, AnswersOK
  <1>3. ASSUME NEW c \in AgentCalls, c <= asks, Asked(c), Answered(c), ~Asked(c)',
               \A e \in AgentCalls : e # c => (Asked(e)' <=> Asked(e))
        PROVE  answered' \in [AgentCalls -> Nat] /\ AnswersOK'
    <2>1. answered' = [answered EXCEPT ![c] = @ + 1] /\ answered[c] = 0
      BY <1>1, <1>3 DEF Answered, AnswersInv, AnswersOK
    <2>2. answered' \in [AgentCalls -> Nat]
      BY <1>1, <2>1
    <2>3. ASSUME NEW e \in AgentCalls PROVE answered'[e] = IF e > asks \/ Asked(e)' THEN 0 ELSE 1
      <3>1. CASE e = c
        <4>1. answered'[c] = 1 /\ ~(c > asks)
          BY <1>1, <1>3, <2>1
        <4> QED BY <1>3, <3>1, <4>1
      <3>2. CASE e # c
        <4>1. answered'[e] = answered[e]
          BY <1>1, <2>1, <3>2
        <4> QED BY <1>3, <3>2, <4>1 DEF AnswersInv, AnswersOK
      <3> QED BY <3>1, <3>2
    <2> QED BY <2>2, <2>3 DEF AnswersOK
  <1> QED BY <1>2, <1>3

\* A step of the keyring that answers nothing: the lookups and the deletions that
\* wait stay the same ones.
LEMMA AnswersRest ==
  ASSUME AnswersInv, UNCHANGED <<agentRequests, asks, answered>>, NEW d \in {0, 1},
         \A p \in Places' : calls'[p].op \in {"lookup", "erase"} => p + d \in Places /\ calls[p + d] = calls'[p],
         \A p \in Places : calls[p].op = "erase" => p - d \in Places' /\ calls'[p - d] = calls[p]
  PROVE  AnswersInv'
  <1>1. \A p \in Places' : p \in Int
    BY DEF Places
  <1>2. \A e \in AgentCalls : Asked(e)' <=> Asked(e)
    BY DEF Asked
  <1>3. answered' \in [AgentCalls -> Nat] /\ AnswersOK'
    BY <1>2, AnswerCounts
  <1>4. RequestsOK'
    BY DEF AnswersInv, RequestsOK
  <1>5. LookupsOK'
    <2>1. ASSUME NEW p \in Places', calls'[p].op = "lookup"
          PROVE  \E r \in agentRequests'[calls'[p].id] : r.call = calls'[p].call /\ r.stage = "keyring"
      <3>1. p + d \in Places /\ calls[p + d] = calls'[p]
        BY <2>1
      <3> QED BY <2>1, <3>1 DEF AnswersInv, LookupsOK
    <2>2. ASSUME NEW p \in Places', NEW q \in Places', calls'[p].op = "lookup", calls'[q].op = "lookup",
                 calls'[p].id = calls'[q].id
          PROVE  p = q
      <3>1. /\ p + d \in Places /\ calls[p + d] = calls'[p]
            /\ q + d \in Places /\ calls[q + d] = calls'[q]
        BY <2>2
      <3>2. p + d = q + d
        BY <2>2, <3>1 DEF AnswersInv, LookupsOK
      <3> QED BY <1>1, <3>2
    <2> QED BY <2>1, <2>2 DEF LookupsOK
  <1>6. ErasesOK'
    <2>1. ASSUME NEW p \in Places', calls'[p].op = "erase"
          PROVE  /\ calls'[p].call <= asks'
                 /\ \A id \in RequestIds : \A r \in agentRequests'[id] : r.call # calls'[p].call
      <3>1. p + d \in Places /\ calls[p + d] = calls'[p]
        BY <2>1
      <3> QED BY <2>1, <3>1 DEF AnswersInv, ErasesOK
    <2>2. ASSUME NEW p \in Places', NEW q \in Places', calls'[p].op = "erase", calls'[q].op = "erase",
                 calls'[p].call = calls'[q].call
          PROVE  p = q
      <3>1. /\ p + d \in Places /\ calls[p + d] = calls'[p]
            /\ q + d \in Places /\ calls[q + d] = calls'[q]
        BY <2>2
      <3>2. p + d = q + d
        BY <2>2, <3>1 DEF AnswersInv, ErasesOK
      <3> QED BY <1>1, <3>2
    <2> QED BY <2>1, <2>2 DEF ErasesOK
  <1> QED BY <1>3, <1>4, <1>5, <1>6 DEF AnswersInv

\* The request of an id goes, and gets its answer; its lookup went before or goes
\* with it, and the other calls move up or stay.
LEMMA RequestGoes ==
  ASSUME AnswersInv, NEW id \in RequestIds, NEW r \in agentRequests[id], NEW d \in {0, 1},
         Answered(r.call), asks' = asks, agentRequests' = [agentRequests EXCEPT ![id] = {}],
         \A p \in Places' : calls'[p].op \in {"lookup", "erase"} => p + d \in Places /\ calls[p + d] = calls'[p],
         \A p \in Places' : calls'[p].op = "lookup" => calls'[p].id # id,
         \A p \in Places : calls[p].op = "erase" => p - d \in Places' /\ calls'[p - d] = calls[p]
  PROVE  AnswersInv'
  <1>1. \A p \in Places' : p \in Int
    BY DEF Places
  <1>2. agentRequests[id] = {r} /\ r \in AgentRequestType /\ r.call \in AgentCalls /\ r.call <= asks
    <2>1. agentRequests[id] = {r} /\ r \in AgentRequestType /\ r.call <= asks
      BY DEF AnswersInv, RequestsOK
    <2> QED BY <2>1 DEF AgentRequestType
  <1>3. /\ DOMAIN agentRequests' = RequestIds /\ agentRequests'[id] = {}
        /\ \A jd \in RequestIds : jd # id => agentRequests'[jd] = agentRequests[jd]
    BY DEF AnswersInv, RequestsOK
  <1>4. RequestsOK'
    BY <1>3 DEF AnswersInv, RequestsOK
  <1>5. \A p \in Places' : calls'[p].op = "erase" => calls'[p].call # r.call
    BY DEF AnswersInv, ErasesOK
  <1>6. Asked(r.call) /\ ~Asked(r.call)'
    <2>1. \A jd \in RequestIds : \A q \in agentRequests'[jd] : q.call # r.call
      BY <1>3 DEF AnswersInv, RequestsOK
    <2> QED BY <1>5, <2>1 DEF Asked
  <1>7. ASSUME NEW e \in AgentCalls, e # r.call PROVE Asked(e)' <=> Asked(e)
    <2>1. ASSUME Asked(e) PROVE Asked(e)'
      BY <1>2, <1>3, <1>7, <2>1 DEF Asked
    <2>2. ASSUME Asked(e)' PROVE Asked(e)
      BY <1>3, <2>2 DEF Asked
    <2> QED BY <2>1, <2>2
  <1>8. answered' \in [AgentCalls -> Nat] /\ AnswersOK'
    BY <1>2, <1>6, <1>7, AnswerCounts
  <1>9. LookupsOK'
    <2>1. ASSUME NEW p \in Places', calls'[p].op = "lookup"
          PROVE  \E q \in agentRequests'[calls'[p].id] : q.call = calls'[p].call /\ q.stage = "keyring"
      <3>1. p + d \in Places /\ calls[p + d] = calls'[p] /\ calls'[p].id # id
        BY <2>1
      <3>2. \E q \in agentRequests[calls'[p].id] : q.call = calls'[p].call /\ q.stage = "keyring"
        BY <2>1, <3>1 DEF AnswersInv, LookupsOK
      <3> QED BY <3>1, <3>2
    <2>2. ASSUME NEW p \in Places', NEW q \in Places', calls'[p].op = "lookup", calls'[q].op = "lookup",
                 calls'[p].id = calls'[q].id
          PROVE  p = q
      <3>1. /\ p + d \in Places /\ calls[p + d] = calls'[p]
            /\ q + d \in Places /\ calls[q + d] = calls'[q]
        BY <2>2
      <3>2. p + d = q + d
        BY <2>2, <3>1 DEF AnswersInv, LookupsOK
      <3>3. p \in Int /\ q \in Int /\ d \in Int
        BY <1>1
      <3> QED BY <3>2, <3>3
    <2> QED BY <2>1, <2>2 DEF LookupsOK
  <1>10. ErasesOK'
    <2>1. ASSUME NEW p \in Places', calls'[p].op = "erase"
          PROVE  /\ calls'[p].call <= asks'
                 /\ \A jd \in RequestIds : \A q \in agentRequests'[jd] : q.call # calls'[p].call
      <3>1. p + d \in Places /\ calls[p + d] = calls'[p]
        BY <2>1
      <3> QED BY <1>3, <2>1, <3>1 DEF AnswersInv, ErasesOK
    <2>2. ASSUME NEW p \in Places', NEW q \in Places', calls'[p].op = "erase", calls'[q].op = "erase",
                 calls'[p].call = calls'[q].call
          PROVE  p = q
      <3>1. /\ p + d \in Places /\ calls[p + d] = calls'[p]
            /\ q + d \in Places /\ calls[q + d] = calls'[q]
        BY <2>2
      <3>2. p + d = q + d
        BY <2>2, <3>1 DEF AnswersInv, ErasesOK
      <3>3. p \in Int /\ q \in Int /\ d \in Int
        BY <1>1
      <3> QED BY <3>2, <3>3
    <2> QED BY <2>1, <2>2 DEF ErasesOK
  <1> QED BY <1>4, <1>8, <1>9, <1>10 DEF AnswersInv

-----------------------------------------------------------------------------
\* The first call is served and the others move up.
LEMMA HeadGoes ==
  ASSUME CallsOK, calls # <<>>, calls' = Tail(calls)
  PROVE  /\ calls' \in Seq(CallType) /\ 1 \in Places /\ Head(calls) = calls[1]
         /\ \A p \in Places' : p + 1 \in Places /\ calls[p + 1] = calls'[p] /\ p # 0
         /\ \A p \in Places : p # 1 => p - 1 \in Places' /\ calls'[p - 1] = calls[p]
  <1>1. /\ Len(calls) \in Nat /\ Len(calls') = Len(calls) - 1
        /\ 1 \in Places /\ Head(calls) = calls[1] /\ calls' \in Seq(CallType)
        /\ \A k \in 1..Len(calls) - 1 : k + 1 \in Places /\ calls'[k] = calls[k + 1]
    BY HeadFacts, PlacesFacts
  <1>2. \A p \in Places' : p + 1 \in Places /\ calls[p + 1] = calls'[p] /\ p # 0
    BY <1>1 DEF Places
  <1>3. ASSUME NEW p \in Places, p # 1 PROVE p - 1 \in Places' /\ calls'[p - 1] = calls[p]
    <2>1. p - 1 \in 1..Len(calls) - 1 /\ (p - 1) + 1 = p
      BY <1>1, <1>3 DEF Places
    <2> QED BY <1>1, <2>1 DEF Places
  <1> QED BY <1>1, <1>2, <1>3

\* A request that is freed leaves its lookup in the keyring as a cancelled one.
LEMMA CallsFreed ==
  ASSUME CallsOK, NEW id \in RequestIds, RequestFree(id)
  PROVE  /\ calls' \in Seq(CallType) /\ Places' = Places
         /\ \A p \in Places : calls[p].op = "lookup" /\ calls[p].id = id => calls'[p].op = "cancelled"
         /\ \A p \in Places : ~(calls[p].op = "lookup" /\ calls[p].id = id) => calls'[p] = calls[p]
  <1> DEFINE new(k) == IF calls[k].op = "lookup" /\ calls[k].id = id
                       THEN KeyringCall("cancelled", id, calls[k].call, {}) ELSE calls[k]
  <1>1. /\ calls \in Seq(CallType) /\ Len(calls) \in Nat /\ DOMAIN calls = 1..Len(calls)
        /\ \A p \in Places : calls[p] \in CallType /\ calls[p].call \in AgentCalls
    BY PlacesFacts, LenProperties DEF CallsOK
  <1>2. calls' = [k \in 1..Len(calls) |-> new(k)]
    BY <1>1 DEF RequestFree
  <1>3. ASSUME NEW k \in 1..Len(calls) PROVE new(k) \in CallType
    <2>1. KeyringCall("cancelled", id, calls[k].call, {}) \in CallType
      BY <1>1 DEF KeyringCall, CallType, Operations, Places
    <2> QED BY <1>1, <2>1 DEF Places
  <1>4. calls' \in [1..Len(calls) -> CallType]
    <2> HIDE DEF new
    <2> QED BY <1>2, <1>3
  <1>5. calls' \in Seq(CallType) /\ Len(calls') = Len(calls)
    BY <1>1, <1>4, FunctionIsSeq
  <1>6. \A p \in Places : calls'[p] = new(p)
    BY <1>2 DEF Places
  <1>7. \A p \in Places : calls[p].op = "lookup" /\ calls[p].id = id => calls'[p].op = "cancelled"
    <2>1. ASSUME NEW p \in Places, calls[p].op = "lookup", calls[p].id = id PROVE calls'[p].op = "cancelled"
      <3>1. calls'[p] = KeyringCall("cancelled", id, calls[p].call, {})
        BY <1>6, <2>1
      <3>2. KeyringCall("cancelled", id, calls[p].call, {}).op = "cancelled"
        BY DEF KeyringCall
      <3> QED BY <3>1, <3>2
    <2> QED BY <2>1
  <1> QED BY <1>5, <1>6, <1>7 DEF Places

\* A request that is freed with its answer: the user or NetworkManager cancels it.
LEMMA FreedStep ==
  ASSUME AgentInv, NEW id \in RequestIds, NEW r \in agentRequests[id], Answered(r.call), RequestFree(id),
         UNCHANGED <<asks, items, lastSerial, wanted>>
  PROVE  AgentInv'
  <1>1. /\ calls' \in Seq(CallType) /\ Places' = Places
        /\ \A p \in Places : calls[p].op = "lookup" /\ calls[p].id = id => calls'[p].op = "cancelled"
        /\ \A p \in Places : ~(calls[p].op = "lookup" /\ calls[p].id = id) => calls'[p] = calls[p]
    BY CallsFreed DEF AgentInv, KeyringInv
  <1>2. \A p \in Places : p \in Int /\ p + 0 = p /\ p - 0 = p
    BY DEF Places
  <1>3. KeyringInv'
    <2>1. \A p \in Places' : \/ calls'[p].op \in {"lookup", "cancelled"}
                             \/ p + 0 \in Places /\ calls[p + 0] = calls'[p]
      BY <1>1, <1>2
    <2>2. \A p \in Places : \/ calls[p].op \in {"lookup", "cancelled"}
                            \/ p - 0 \in Places' /\ calls'[p - 0] = calls[p]
      BY <1>1, <1>2
    <2> QED BY <1>1, <2>1, <2>2, KeyringRests DEF AgentInv
  <1>4. AnswersInv'
    <2>1. \A p \in Places' : calls'[p].op \in {"lookup", "erase"} => p + 0 \in Places /\ calls[p + 0] = calls'[p]
      BY <1>1, <1>2
    <2>2. \A p \in Places' : calls'[p].op = "lookup" => calls'[p].id # id
      BY <1>1
    <2>3. \A p \in Places : calls[p].op = "erase" => p - 0 \in Places' /\ calls'[p - 0] = calls[p]
      BY <1>1, <1>2
    <2>4. agentRequests' = [agentRequests EXCEPT ![id] = {}]
      BY DEF RequestFree
    <2> QED BY <2>1, <2>2, <2>3, <2>4, RequestGoes DEF AgentInv
  <1> QED BY <1>3, <1>4 DEF AgentInv

\* The calls that were cancelled, the deletions and the writes answer nobody.
LEMMA ServedStep ==
  ASSUME AgentInv, CancelledServed \/ DeleteServed \/ CreateServed
  PROVE  AgentInv'
  <1>1. /\ calls # <<>> /\ Head(calls).op \in {"cancelled", "delete", "create"} /\ calls' = Tail(calls)
        /\ UNCHANGED <<agentRequests, asks, answered>>
    BY DEF CancelledServed, DeleteServed, CreateServed
  <1>2. /\ calls' \in Seq(CallType) /\ 1 \in Places /\ Head(calls) = calls[1]
        /\ \A p \in Places' : p + 1 \in Places /\ calls[p + 1] = calls'[p] /\ p # 0
        /\ \A p \in Places : p # 1 => p - 1 \in Places' /\ calls'[p - 1] = calls[p]
    BY <1>1, HeadGoes DEF AgentInv, KeyringInv
  <1>3. AnswersInv'
    <2>1. \A p \in Places : calls[p].op = "erase" => p - 1 \in Places' /\ calls'[p - 1] = calls[p]
      BY <1>1, <1>2
    <2> QED BY <1>1, <1>2, <2>1, AnswersRest DEF AgentInv
  <1>4. CASE CancelledServed
    <2>1. \A p \in Places : \/ calls[p].op \in {"lookup", "cancelled"}
                            \/ p - 1 \in Places' /\ calls'[p - 1] = calls[p]
      <3>1. Head(calls).op = "cancelled"
        BY <1>4 DEF CancelledServed
      <3> QED BY <1>2, <3>1
    <2>2. UNCHANGED <<items, lastSerial, wanted>>
      BY <1>4 DEF CancelledServed
    <2>3. KeyringInv'
      BY <1>2, <2>1, <2>2, KeyringRests DEF AgentInv
    <2> QED BY <1>3, <2>3 DEF AgentInv
  <1>5. CASE DeleteServed
    BY <1>3, <1>5, DeleteStep DEF AgentInv
  <1>6. CASE CreateServed
    BY <1>3, <1>6, CreateStep, SMTT(30) DEF AgentInv
  <1> QED BY <1>4, <1>5, <1>6

\* The keyring answers a request, or has the user asked.
LEMMA LookupStep ==
  ASSUME AgentInv, LookupServed
  PROVE  AgentInv'
  <1> DEFINE h == calls[1]
             id == h.id
  <1>1. /\ calls # <<>> /\ Head(calls).op = "lookup" /\ calls' = Tail(calls)
        /\ UNCHANGED <<asks, items, lastSerial, wanted>>
    BY DEF LookupServed
  <1>2. /\ calls' \in Seq(CallType) /\ 1 \in Places /\ Head(calls) = h
        /\ \A p \in Places' : p + 1 \in Places /\ calls[p + 1] = calls'[p] /\ p # 0
        /\ \A p \in Places : p # 1 => p - 1 \in Places' /\ calls'[p - 1] = calls[p]
    BY <1>1, HeadGoes DEF AgentInv, KeyringInv
  <1>3. h.op = "lookup" /\ id \in RequestIds
    BY <1>1, <1>2, PlacesFacts DEF AgentInv, KeyringInv
  <1>4. KeyringInv'
    <2>1. \A p \in Places : \/ calls[p].op \in {"lookup", "cancelled"}
                            \/ p - 1 \in Places' /\ calls'[p - 1] = calls[p]
      BY <1>2, <1>3
    <2> QED BY <1>1, <1>2, <2>1, KeyringRests DEF AgentInv
  <1>5. PICK r \in agentRequests[id] : r.call = h.call /\ r.stage = "keyring"
    BY <1>2, <1>3 DEF AgentInv, AnswersInv, LookupsOK
  <1>6. \A p \in Places' : calls'[p].op = "lookup" => calls'[p].id # id
    <2>1. ASSUME NEW p \in Places', calls'[p].op = "lookup", calls'[p].id = id PROVE FALSE
      <3>1. p + 1 \in Places /\ calls[p + 1] = calls'[p] /\ p # 0 /\ p \in Int
        BY <1>2 DEF Places
      <3>2. p + 1 = 1
        BY <1>2, <1>3, <2>1, <3>1 DEF AgentInv, AnswersInv, LookupsOK
      <3> QED BY <3>1, <3>2
    <2> QED BY <2>1
  <1>7. \A p \in Places : calls[p].op = "erase" => p - 1 \in Places' /\ calls'[p - 1] = calls[p]
    BY <1>2, <1>3, SMTT(30)
  <1>8. \/ Answered(h.call) /\ agentRequests' = [agentRequests EXCEPT ![id] = {}]
        \/ /\ \E q \in agentRequests[id], es \in UNION {[s -> AgentCalls] : s \in SUBSET SecretKeys} :
                agentRequests' = [agentRequests EXCEPT ![id] = {[q EXCEPT !.stage = "ui", !.entries = es]}]
           /\ UNCHANGED answered
    <2> DEFINE mine == StoredItems(id)
               ks == {i.key : i \in mine}
    <2>1. \A i \in mine : i.key \in SecretKeys /\ i.value \in AgentCalls
      BY DEF AgentInv, KeyringInv, KeyringOK, ItemType, StoredItems
    <2>2. ASSUME NEW k \in ks PROVE (CHOOSE i \in mine : i.key = k).value \in AgentCalls
      <3>1. \E i \in mine : i.key = k
        OBVIOUS
      <3> QED BY <2>1, <3>1
    <2>3. ks \in SUBSET SecretKeys
      BY <2>1
    <2>4. StoredEntries(id) \in [ks -> AgentCalls]
      BY <2>2 DEF StoredEntries
    <2>5. StoredEntries(id) \in UNION {[s -> AgentCalls] : s \in SUBSET SecretKeys}
      <3> HIDE DEF ks
      <3> QED BY <2>3, <2>4
    <2>6. \/ Answered(h.call) /\ agentRequests' = [agentRequests EXCEPT ![id] = {}]
          \/ /\ \E q \in agentRequests[id] :
                  /\ q.interactive /\ (q.hinted \/ StoredItems(id) = {})
                  /\ agentRequests' = [agentRequests EXCEPT ![id] =
                                        {[q EXCEPT !.stage = "ui", !.entries = StoredEntries(id)]}]
             /\ UNCHANGED answered
      <3> HIDE DEF ks, mine
      <3> QED BY <1>2, Zenon DEF LookupServed
    <2> HIDE DEF ks, mine
    <2> QED BY <2>5, <2>6
  <1>9. CASE Answered(h.call) /\ agentRequests' = [agentRequests EXCEPT ![id] = {}]
    <2>1. AnswersInv'
      <3> HIDE DEF h, id
      <3> QED BY <1>1, <1>2, <1>3, <1>5, <1>6, <1>7, <1>9, RequestGoes DEF AgentInv
    <2> QED BY <1>4, <2>1 DEF AgentInv
  <1>10. ASSUME NEW q \in agentRequests[id], NEW es, UNCHANGED answered,
                agentRequests' = [agentRequests EXCEPT ![id] = {[q EXCEPT !.stage = "ui", !.entries = es]}],
                es \in UNION {[ks -> AgentCalls] : ks \in SUBSET SecretKeys}
         PROVE  AgentInv'
    <2> DEFINE new == [q EXCEPT !.stage = "ui", !.entries = es]
    <2>1. agentRequests[id] = {q} /\ q \in AgentRequestType
      BY <1>3, <1>10 DEF AgentInv, AnswersInv, RequestsOK
    <2>2. new \in AgentRequestType /\ new.call = q.call
      BY <1>10, <2>1 DEF AgentRequestType
    <2> HIDE DEF new, id
    <2>3. /\ DOMAIN agentRequests' = RequestIds /\ agentRequests'[id] = {new}
          /\ \A jd \in RequestIds : jd # id => agentRequests'[jd] = agentRequests[jd]
      BY <1>3, <1>10 DEF AgentInv, AnswersInv, RequestsOK, new
    <2>4. \A jd \in RequestIds : \A s \in agentRequests'[jd] : \E t \in agentRequests[jd] : t.call = s.call
      BY <2>1, <2>2, <2>3
    <2>5. \A jd \in RequestIds : \A t \in agentRequests[jd] : \E s \in agentRequests'[jd] : t.call = s.call
      BY <2>1, <2>2, <2>3
    <2>6. RequestsOK'
      <3>1. \A jd \in RequestIds : agentRequests'[jd] = {} \/ \E s \in AgentRequestType : agentRequests'[jd] = {s}
        BY <2>2, <2>3 DEF AgentInv, AnswersInv, RequestsOK
      <3>2. ASSUME NEW jd \in RequestIds, NEW kd \in RequestIds,
                   NEW s \in agentRequests'[jd], NEW t \in agentRequests'[kd], s.call = t.call
            PROVE  jd = kd
        BY <2>4, <3>2 DEF AgentInv, AnswersInv, RequestsOK
      <3>3. \A jd \in RequestIds : \A s \in agentRequests'[jd] : s.call <= asks'
        BY <1>1, <2>4 DEF AgentInv, AnswersInv, RequestsOK
      <3> QED BY <2>3, <3>1, <3>2, <3>3 DEF RequestsOK
    <2>7. LookupsOK'
      <3>1. ASSUME NEW p \in Places', calls'[p].op = "lookup"
            PROVE  \E s \in agentRequests'[calls'[p].id] : s.call = calls'[p].call /\ s.stage = "keyring"
        <4>1. p + 1 \in Places /\ calls[p + 1] = calls'[p] /\ calls'[p].id # id
          BY <1>2, <1>6, <3>1
        <4>2. calls'[p].id \in RequestIds
          BY <4>1, PlacesFacts DEF AgentInv, KeyringInv
        <4>3. agentRequests'[calls'[p].id] = agentRequests[calls'[p].id]
          BY <2>3, <4>1, <4>2
        <4> QED BY <3>1, <4>1, <4>3 DEF AgentInv, AnswersInv, LookupsOK
      <3>2. ASSUME NEW p \in Places', NEW t \in Places', calls'[p].op = "lookup", calls'[t].op = "lookup",
                   calls'[p].id = calls'[t].id
            PROVE  p = t
        <4>1. /\ p + 1 \in Places /\ calls[p + 1] = calls'[p]
              /\ t + 1 \in Places /\ calls[t + 1] = calls'[t]
          BY <1>2
        <4>2. p + 1 = t + 1
          BY <3>2, <4>1 DEF AgentInv, AnswersInv, LookupsOK
        <4>3. p \in Int /\ t \in Int
          BY DEF Places
        <4> QED BY <4>2, <4>3
      <3> QED BY <3>1, <3>2 DEF LookupsOK
    <2>8. ErasesOK'
      <3>1. ASSUME NEW p \in Places', calls'[p].op = "erase"
            PROVE  /\ calls'[p].call <= asks'
                   /\ \A jd \in RequestIds : \A s \in agentRequests'[jd] : s.call # calls'[p].call
        <4>1. p + 1 \in Places /\ calls[p + 1] = calls'[p]
          BY <1>2
        <4>2. calls[p + 1].call <= asks /\ \A jd \in RequestIds : \A s \in agentRequests[jd] : s.call # calls[p + 1].call
          BY <3>1, <4>1 DEF AgentInv, AnswersInv, ErasesOK
        <4>3. calls'[p].call <= asks'
          BY <1>1, <4>1, <4>2
        <4>4. ASSUME NEW jd \in RequestIds, NEW s \in agentRequests'[jd] PROVE s.call # calls'[p].call
          BY <2>4, <4>1, <4>2, <4>4
        <4> QED BY <4>3, <4>4
      <3>2. ASSUME NEW p \in Places', NEW t \in Places', calls'[p].op = "erase", calls'[t].op = "erase",
                   calls'[p].call = calls'[t].call
            PROVE  p = t
        <4>1. /\ p + 1 \in Places /\ calls[p + 1] = calls'[p]
              /\ t + 1 \in Places /\ calls[t + 1] = calls'[t]
          BY <1>2
        <4>2. p + 1 = t + 1
          BY <3>2, <4>1 DEF AgentInv, AnswersInv, ErasesOK
        <4>3. p \in Int /\ t \in Int
          BY DEF Places
        <4> QED BY <4>2, <4>3
      <3> QED BY <3>1, <3>2 DEF ErasesOK
    <2>9. ASSUME NEW e \in AgentCalls PROVE Asked(e)' <=> Asked(e)
      <3>1. (\E p \in Places' : calls'[p].op = "erase" /\ calls'[p].call = e)
              <=> (\E p \in Places : calls[p].op = "erase" /\ calls[p].call = e)
        BY <1>2, <1>7
      <3>2. (\E jd \in RequestIds : \E s \in agentRequests'[jd] : s.call = e)
              <=> (\E jd \in RequestIds : \E s \in agentRequests[jd] : s.call = e)
        BY <2>4, <2>5
      <3> QED BY <3>1, <3>2 DEF Asked
    <2>10. answered' \in [AgentCalls -> Nat] /\ AnswersOK'
      BY <1>1, <1>10, <2>9, AnswerCounts DEF AgentInv
    <2> QED BY <1>1, <1>4, <2>6, <2>7, <2>8, <2>10 DEF AgentInv, AnswersInv
  <1> QED BY <1>8, <1>9, <1>10

-----------------------------------------------------------------------------
\* A call that the keyring is asked for comes last.
LEMMA CallAppended ==
  ASSUME CallsOK, NEW c \in CallType, calls' = Append(calls, c)
  PROVE  /\ calls' \in Seq(CallType) /\ Len(calls) + 1 \notin Places
         /\ Places' = Places \cup {Len(calls) + 1} /\ calls'[Len(calls) + 1] = c
         /\ \A p \in Places : calls'[p] = calls[p] /\ p + 0 = p /\ p - 0 = p
  <1>1. calls \in Seq(CallType) /\ Len(calls) \in Nat
    BY PlacesFacts DEF CallsOK
  <1>2. /\ calls' \in Seq(CallType) /\ Len(calls') = Len(calls) + 1
        /\ \A p \in 1..Len(calls) : calls'[p] = calls[p]
        /\ calls'[Len(calls) + 1] = c
    BY <1>1, AppendProperties
  <1> QED BY <1>1, <1>2 DEF Places

\* A call of NetworkManager that waits for its answer: the new request, or the
\* new deletion.
LEMMA NewCall ==
  ASSUME AnswersInv, asks < MaxAsked, NEW c, c = asks + 1, asks' = c, UNCHANGED answered,
         Asked(c)', \A e \in AgentCalls : e # c => (Asked(e)' <=> Asked(e))
  PROVE  asks' \in 0..MaxAsked /\ answered' \in [AgentCalls -> Nat] /\ AnswersOK'
  <1>1. asks \in Nat /\ MaxAsked \in Nat /\ asks <= MaxAsked /\ \A e \in AgentCalls : e \in Nat
    BY AgentAssumption DEF AnswersInv, AgentCalls
  <1>2. ASSUME NEW e \in AgentCalls PROVE answered'[e] = IF e > asks' \/ Asked(e)' THEN 0 ELSE 1
    <2>1. answered'[e] = IF e > asks \/ Asked(e) THEN 0 ELSE 1
      BY DEF AnswersInv, AnswersOK
    <2>2. CASE e = c
      <3>1. e > asks
        BY <1>1, <2>2
      <3> QED BY <2>1, <2>2, <3>1
    <2>3. CASE e # c
      <3>1. e > c <=> e > asks
        BY <1>1, <2>3
      <3> QED BY <2>1, <2>3, <3>1
    <2> QED BY <2>2, <2>3
  <1> QED BY <1>1, <1>2 DEF AnswersInv, AnswersOK

\* NetworkManager asks for secrets.
LEMMA GetStep ==
  ASSUME AgentInv, NEW id \in RequestIds, GetSecrets(id)
  PROVE  AgentInv'
  <1> DEFINE n == Len(calls) + 1
             c == KeyringCall("lookup", id, asks + 1, {})
  <1>1. asks \in Nat /\ asks < MaxAsked /\ asks + 1 \in AgentCalls /\ agentRequests[id] = {}
    BY AgentAssumption DEF AgentInv, AnswersInv, GetSecrets, AgentCalls
  <1>2. PICK r : /\ r \in AgentRequestType /\ r.call = asks + 1
                 /\ agentRequests' = [agentRequests EXCEPT ![id] = {r}]
                 /\ \/ UNCHANGED calls
                    \/ r.stage = "keyring" /\ calls' = Append(calls, c)
    <2>1. PICK interactive \in BOOLEAN, hinted \in BOOLEAN, stage \in {"keyring", "ui"} :
            /\ agentRequests' = [agentRequests EXCEPT ![id] =
                 {[call |-> asks + 1, stage |-> stage, interactive |-> interactive, hinted |-> hinted, entries |-> <<>>]}]
            /\ calls' = IF stage = "ui" THEN calls ELSE Append(calls, c)
      BY DEF GetSecrets
    <2>2. <<>> \in [{} -> AgentCalls]
      OBVIOUS
    <2>3. <<>> \in UNION {[ks -> AgentCalls] : ks \in SUBSET SecretKeys}
      BY <2>2
    <2> DEFINE r == [call |-> asks + 1, stage |-> stage, interactive |-> interactive, hinted |-> hinted, entries |-> <<>>]
    <2>4. r \in AgentRequestType /\ r.call = asks + 1 /\ r.stage = stage
      BY <1>1, <2>3 DEF AgentRequestType
    <2>5. CASE stage = "ui"
      BY <2>1, <2>4, <2>5
    <2>6. CASE stage = "keyring"
      <3> HIDE DEF c
      <3> QED BY <2>1, <2>4, <2>6
    <2> QED BY <2>5, <2>6
  <1>3. asks' = asks + 1 /\ UNCHANGED <<answered, items, lastSerial, wanted>>
    BY DEF GetSecrets
  <1>4. c \in CallType /\ c.op = "lookup" /\ c.id = id /\ c.call = asks + 1
    BY <1>1 DEF KeyringCall, CallType, Operations
  <1> HIDE DEF c
  <1>5. /\ calls' \in Seq(CallType) /\ \A p \in Places : p \in Places' /\ calls'[p] = calls[p]
        /\ \A p \in Places' : p \in Places \/ (p = n /\ n \notin Places /\ calls'[p] = c /\ r.stage = "keyring")
    <2>1. CASE UNCHANGED calls
      <3>1. calls' \in Seq(CallType) /\ Places' = Places
        BY <2>1 DEF Places, AgentInv, KeyringInv, CallsOK
      <3> QED BY <2>1, <3>1
    <2>2. CASE r.stage = "keyring" /\ calls' = Append(calls, c)
      <3>1. /\ calls' \in Seq(CallType) /\ n \notin Places
            /\ Places' = Places \cup {n} /\ calls'[n] = c
            /\ \A p \in Places : calls'[p] = calls[p]
        BY <1>4, <2>2, CallAppended DEF AgentInv, KeyringInv
      <3> HIDE DEF n
      <3> QED BY <2>2, <3>1
    <2> QED BY <1>2, <2>1, <2>2
  <1> HIDE DEF n
  <1>6. KeyringInv'
    <2> \A p \in Places : p + 0 = p /\ p - 0 = p
      BY DEF Places
    <2>1. \A p \in Places' : \/ calls'[p].op \in {"lookup", "cancelled"}
                             \/ p + 0 \in Places /\ calls[p + 0] = calls'[p]
      BY <1>4, <1>5
    <2>2. \A p \in Places : \/ calls[p].op \in {"lookup", "cancelled"}
                            \/ p - 0 \in Places' /\ calls'[p - 0] = calls[p]
      BY <1>5
    <2> QED BY <1>3, <1>5, <2>1, <2>2, KeyringRests DEF AgentInv
  <1>7. /\ DOMAIN agentRequests' = RequestIds /\ agentRequests'[id] = {r}
        /\ \A jd \in RequestIds : jd # id => agentRequests'[jd] = agentRequests[jd]
    BY <1>2 DEF AgentInv, AnswersInv, RequestsOK
  <1>8. \A jd \in RequestIds : \A q \in agentRequests[jd] : q.call <= asks /\ q.call \in Nat
    <2>1. \A jd \in RequestIds : \A q \in agentRequests[jd] : q.call <= asks /\ q \in AgentRequestType
      BY DEF AgentInv, AnswersInv, RequestsOK
    <2> QED BY <2>1 DEF AgentRequestType, AgentCalls
  <1>9. RequestsOK'
    <2>1. \A jd \in RequestIds : agentRequests'[jd] = {} \/ \E q \in AgentRequestType : agentRequests'[jd] = {q}
      BY <1>2, <1>7 DEF AgentInv, AnswersInv, RequestsOK
    <2>2. \A jd \in RequestIds : jd # id => \A q \in agentRequests'[jd] : q.call # asks + 1 /\ q.call <= asks + 1
      BY <1>1, <1>7, <1>8
    <2>3. \A q \in agentRequests'[id] : q.call = asks + 1
      BY <1>2, <1>7
    <2>4. ASSUME NEW jd \in RequestIds, NEW kd \in RequestIds,
                 NEW p \in agentRequests'[jd], NEW q \in agentRequests'[kd], p.call = q.call
          PROVE  jd = kd
      <3>1. CASE jd # id /\ kd # id
        BY <1>7, <2>4, <3>1 DEF AgentInv, AnswersInv, RequestsOK
      <3> QED BY <2>2, <2>3, <2>4, <3>1
    <2>5. asks + 1 <= asks + 1
      BY <1>1
    <2>6. \A jd \in RequestIds : \A q \in agentRequests'[jd] : q.call <= asks'
      BY <1>3, <2>2, <2>3, <2>5
    <2> QED BY <1>7, <2>1, <2>4, <2>6 DEF RequestsOK
  <1>10. \A p \in Places : calls[p].op = "lookup" => calls[p].id # id /\ calls[p].id \in RequestIds
    BY <1>1, PlacesFacts DEF AgentInv, AnswersInv, LookupsOK, KeyringInv
  <1>11. LookupsOK'
    <2>1. ASSUME NEW p \in Places', calls'[p].op = "lookup"
          PROVE  \E q \in agentRequests'[calls'[p].id] : q.call = calls'[p].call /\ q.stage = "keyring"
      <3>1. CASE p \in Places
        <4>1. \E q \in agentRequests[calls[p].id] : q.call = calls[p].call /\ q.stage = "keyring"
          BY <1>5, <2>1, <3>1 DEF AgentInv, AnswersInv, LookupsOK
        <4>2. calls'[p] = calls[p] /\ agentRequests'[calls[p].id] = agentRequests[calls[p].id]
          BY <1>5, <1>7, <1>10, <2>1, <3>1
        <4> QED BY <4>1, <4>2
      <3>2. CASE p = n /\ calls'[p] = c /\ r.stage = "keyring"
        BY <1>2, <1>4, <1>7, <3>2
      <3> QED BY <1>5, <3>1, <3>2
    <2>2. ASSUME NEW p \in Places', NEW q \in Places', calls'[p].op = "lookup", calls'[q].op = "lookup",
                 calls'[p].id = calls'[q].id
          PROVE  p = q
      <3>1. CASE p \in Places /\ q \in Places
        BY <1>5, <2>2, <3>1 DEF AgentInv, AnswersInv, LookupsOK
      <3> QED BY <1>4, <1>5, <1>10, <2>2, <3>1
    <2> QED BY <2>1, <2>2 DEF LookupsOK
  <1>12. \A p \in Places' : calls'[p].op = "erase" => p \in Places /\ calls'[p] = calls[p]
    BY <1>4, <1>5
  <1>13. ErasesOK'
    <2>1. ASSUME NEW p \in Places', calls'[p].op = "erase"
          PROVE  /\ calls'[p].call <= asks'
                 /\ \A jd \in RequestIds : \A q \in agentRequests'[jd] : q.call # calls'[p].call
      <3>1. p \in Places /\ calls'[p] = calls[p]
        BY <1>12, <2>1
      <3>2. /\ calls[p].call <= asks /\ calls[p].call \in Nat
            /\ \A jd \in RequestIds : \A q \in agentRequests[jd] : q.call # calls[p].call
        BY <2>1, <3>1, PlacesFacts DEF AgentInv, AnswersInv, ErasesOK, KeyringInv, AgentCalls
      <3>3. calls[p].call <= asks + 1 /\ calls[p].call # asks + 1
        BY <1>1, <3>2
      <3> QED BY <1>2, <1>3, <1>7, <3>1, <3>2, <3>3
    <2>2. ASSUME NEW p \in Places', NEW q \in Places', calls'[p].op = "erase", calls'[q].op = "erase",
                 calls'[p].call = calls'[q].call
          PROVE  p = q
      BY <1>12, <2>2 DEF AgentInv, AnswersInv, ErasesOK
    <2> QED BY <2>1, <2>2 DEF ErasesOK
  <1>14. asks' \in 0..MaxAsked /\ answered' \in [AgentCalls -> Nat] /\ AnswersOK'
    <2> DEFINE new == r.call
    <2>1. Asked(new)'
      BY <1>7 DEF Asked
    <2>2. ASSUME NEW e \in AgentCalls, e # new PROVE Asked(e)' <=> Asked(e)
      <3>1. (\E p \in Places' : calls'[p].op = "erase" /\ calls'[p].call = e)
              <=> (\E p \in Places : calls[p].op = "erase" /\ calls[p].call = e)
        BY <1>5, <1>12
      <3>2. (\E jd \in RequestIds : \E q \in agentRequests'[jd] : q.call = e)
              <=> (\E jd \in RequestIds : \E q \in agentRequests[jd] : q.call = e)
        BY <1>1, <1>2, <1>7, <2>2
      <3> QED BY <3>1, <3>2 DEF Asked
    <2>3. new = asks + 1
      BY <1>2
    <2> HIDE DEF new
    <2> QED BY <1>1, <1>3, <2>1, <2>2, <2>3, NewCall DEF AgentInv
  <1> QED BY <1>6, <1>9, <1>11, <1>13, <1>14 DEF AgentInv, AnswersInv

\* NetworkManager deletes a connection.
LEMMA EraseStep ==
  ASSUME AgentInv, NEW id \in RequestIds, DeleteSecrets(id)
  PROVE  AgentInv'
  <1>0. PICK new : new = asks + 1
    OBVIOUS
  <1> DEFINE n == Len(calls) + 1
             c == KeyringCall("erase", id, new, {})
  <1>1. /\ asks \in Nat /\ asks < MaxAsked /\ new \in AgentCalls
        /\ calls' = Append(calls, c) /\ asks' = new
        /\ wanted' = [wanted EXCEPT ![ConnectionOf[id]] = {}]
        /\ UNCHANGED <<agentRequests, answered, items, lastSerial>>
    BY <1>0, AgentAssumption DEF AgentInv, AnswersInv, DeleteSecrets, AgentCalls
  <1>2. c \in CallType /\ c.op = "erase" /\ c.id = id /\ c.call = new
    BY <1>1 DEF KeyringCall, CallType, Operations
  <1>3. /\ n \notin Places /\ Places' = Places \cup {n} /\ calls'[n] = c
        /\ \A p \in Places : calls'[p] = calls[p]
    <2> HIDE DEF c
    <2> QED BY <1>1, <1>2, CallAppended DEF AgentInv, KeyringInv
  <1>4. KeyringInv'
    <2>1. OneOfEach({}) /\ \A s \in {} : s.setting = id
      BY FS_EmptySet DEF OneOfEach
    <2> QED BY <1>1, <2>1, SaveStep DEF AgentInv
  <1> HIDE DEF n, c
  <1>5. \A jd \in RequestIds : \A r \in agentRequests[jd] : r.call <= new /\ r.call # new
    <2>1. \A jd \in RequestIds : \A r \in agentRequests[jd] : r.call <= asks /\ r.call \in Nat
      <3>1. \A jd \in RequestIds : \A r \in agentRequests[jd] : r.call <= asks /\ r \in AgentRequestType
        BY DEF AgentInv, AnswersInv, RequestsOK
      <3> QED BY <3>1 DEF AgentRequestType, AgentCalls
    <2> QED BY <1>0, <1>1, <2>1
  <1>6. RequestsOK'
    BY <1>1, <1>5 DEF AgentInv, AnswersInv, RequestsOK
  <1>7. \A p \in Places' : calls'[p].op = "lookup" => p \in Places /\ calls'[p] = calls[p]
    BY <1>2, <1>3
  <1>8. LookupsOK'
    <2>1. ASSUME NEW p \in Places', calls'[p].op = "lookup"
          PROVE  \E r \in agentRequests'[calls'[p].id] : r.call = calls'[p].call /\ r.stage = "keyring"
      <3>1. p \in Places /\ calls'[p] = calls[p]
        BY <1>7, <2>1
      <3>2. \E r \in agentRequests[calls[p].id] : r.call = calls[p].call /\ r.stage = "keyring"
        BY <2>1, <3>1 DEF AgentInv, AnswersInv, LookupsOK
      <3> QED BY <1>1, <3>1, <3>2
    <2>2. ASSUME NEW p \in Places', NEW q \in Places', calls'[p].op = "lookup", calls'[q].op = "lookup",
                 calls'[p].id = calls'[q].id
          PROVE  p = q
      BY <1>7, <2>2 DEF AgentInv, AnswersInv, LookupsOK
    <2> QED BY <2>1, <2>2 DEF LookupsOK
  <1>9. \A p \in Places : calls[p].op = "erase" => calls[p].call <= new /\ calls[p].call # new
    <2>1. \A p \in Places : calls[p].op = "erase" => calls[p].call <= asks /\ calls[p].call \in Nat
      BY PlacesFacts DEF AgentInv, AnswersInv, ErasesOK, KeyringInv, AgentCalls
    <2> QED BY <1>0, <1>1, <2>1
  <1>10. ErasesOK'
    <2>1. ASSUME NEW p \in Places', calls'[p].op = "erase"
          PROVE  /\ calls'[p].call <= asks'
                 /\ \A jd \in RequestIds : \A r \in agentRequests'[jd] : r.call # calls'[p].call
      <3>1. CASE p \in Places
        <4>1. \A jd \in RequestIds : \A r \in agentRequests[jd] : r.call # calls[p].call
          BY <1>3, <2>1, <3>1 DEF AgentInv, AnswersInv, ErasesOK
        <4> QED BY <1>1, <1>3, <1>9, <2>1, <3>1, <4>1
      <3>2. CASE p = n
        <4>1. new <= new
          BY <1>0, <1>1
        <4> QED BY <1>1, <1>2, <1>3, <1>5, <3>2, <4>1
      <3> QED BY <1>3, <3>1, <3>2
    <2>2. ASSUME NEW p \in Places', NEW q \in Places', calls'[p].op = "erase", calls'[q].op = "erase",
                 calls'[p].call = calls'[q].call
          PROVE  p = q
      <3>1. CASE p \in Places /\ q \in Places
        BY <1>3, <2>2, <3>1 DEF AgentInv, AnswersInv, ErasesOK
      <3>2. CASE p = n \/ q = n
        BY <1>2, <1>3, <1>9, <2>2, <3>2
      <3> QED BY <1>3, <3>1, <3>2
    <2> QED BY <2>1, <2>2 DEF ErasesOK
  <1>11. asks' \in 0..MaxAsked /\ answered' \in [AgentCalls -> Nat] /\ AnswersOK'
    <2>1. Asked(new)'
      BY <1>2, <1>3 DEF Asked
    <2>2. ASSUME NEW e \in AgentCalls, e # new PROVE Asked(e)' <=> Asked(e)
      <3>1. (\E p \in Places' : calls'[p].op = "erase" /\ calls'[p].call = e)
              <=> (\E p \in Places : calls[p].op = "erase" /\ calls[p].call = e)
        BY <1>2, <1>3, <2>2
      <3> QED BY <1>1, <3>1 DEF Asked
    <2> QED BY <1>0, <1>1, <2>1, <2>2, NewCall DEF AgentInv
  <1> QED BY <1>4, <1>6, <1>8, <1>10, <1>11 DEF AgentInv, AnswersInv

\* The user enters the secrets; they are saved.
LEMMA ConfirmStep ==
  ASSUME AgentInv, NEW id \in RequestIds, RespondConfirmed(id)
  PROVE  AgentInv'
  <1>0. PICK r \in agentRequests[id] : \E secrets :
          /\ r.stage = "ui" /\ Answered(r.call) /\ SaveSecrets(id, r.call, secrets)
          /\ wanted' = [wanted EXCEPT ![ConnectionOf[id]] = secrets]
          /\ \E ks \in SUBSET SecretKeys : \E texts \in [ks -> AgentCalls] :
               secrets = {[setting |-> id, key |-> k, value |-> texts[k]] : k \in ks \cap OwnedKeys}
    <2>1. PICK r \in agentRequests[id], keys \in SUBSET SecretKeys :
            LET texts == [k \in DOMAIN r.entries \cup keys |-> IF k \in keys THEN r.call ELSE r.entries[k]]
                secrets == {[setting |-> id, key |-> k, value |-> texts[k]] : k \in DOMAIN texts \cap OwnedKeys}
            IN /\ r.stage = "ui"
               /\ Answered(r.call)
               /\ SaveSecrets(id, r.call, secrets)
               /\ wanted' = [wanted EXCEPT ![ConnectionOf[id]] = secrets]
      BY Zenon DEF RespondConfirmed
    <2> DEFINE ks == DOMAIN r.entries \cup keys
               texts == [k \in ks |-> IF k \in keys THEN r.call ELSE r.entries[k]]
               secrets == {[setting |-> id, key |-> k, value |-> texts[k]] : k \in ks \cap OwnedKeys}
    <2>2. r \in AgentRequestType
      BY DEF AgentInv, AnswersInv, RequestsOK
    <2>3. PICK s \in SUBSET SecretKeys : r.entries \in [s -> AgentCalls]
      BY <2>2 DEF AgentRequestType
    <2>4. r.call \in AgentCalls
      BY <2>2 DEF AgentRequestType
    <2>5. ks \in SUBSET SecretKeys /\ texts \in [ks -> AgentCalls] /\ DOMAIN texts = ks
      BY <2>3, <2>4
    <2>6. /\ r.stage = "ui"
          /\ Answered(r.call)
          /\ SaveSecrets(id, r.call, secrets)
          /\ wanted' = [wanted EXCEPT ![ConnectionOf[id]] = secrets]
      BY <2>1
    <2> HIDE DEF ks, texts
    <2>7. secrets = {[setting |-> id, key |-> k, value |-> texts[k]] : k \in ks \cap OwnedKeys}
      OBVIOUS
    <2> HIDE DEF secrets
    <2> QED BY <2>5, <2>6, <2>7
  <1>1. PICK secrets :
          /\ r.stage = "ui" /\ Answered(r.call) /\ SaveSecrets(id, r.call, secrets)
          /\ wanted' = [wanted EXCEPT ![ConnectionOf[id]] = secrets]
          /\ \E ks \in SUBSET SecretKeys : \E texts \in [ks -> AgentCalls] :
               secrets = {[setting |-> id, key |-> k, value |-> texts[k]] : k \in ks \cap OwnedKeys}
    BY <1>0
  <1>2. r.call \in AgentCalls /\ agentRequests[id] = {r}
    <2>1. r \in AgentRequestType /\ agentRequests[id] = {r}
      BY DEF AgentInv, AnswersInv, RequestsOK
    <2> QED BY <2>1 DEF AgentRequestType
  <1>3. OneOfEach(secrets) /\ \A s \in secrets : s.setting = id
    <2>0. PICK ks \in SUBSET SecretKeys : \E texts \in [ks -> AgentCalls] :
            secrets = {[setting |-> id, key |-> k, value |-> texts[k]] : k \in ks \cap OwnedKeys}
      BY <1>1
    <2>1. PICK texts \in [ks -> AgentCalls] :
            secrets = {[setting |-> id, key |-> k, value |-> texts[k]] : k \in ks \cap OwnedKeys}
      BY <2>0
    <2> DEFINE D == ks \cap OwnedKeys
               f == [k \in D |-> [setting |-> id, key |-> k, value |-> texts[k]]]
    <2>2. IsFiniteSet(D)
      <3>1. D \in SUBSET SecretKeys /\ IsFiniteSet(SecretKeys)
        BY AgentAssumption
      <3> HIDE DEF D
      <3> QED BY <3>1, FS_Subset
    <2>3. f \in Surjection(D, secrets)
      <3>1. secrets = {f[k] : k \in D}
        BY <2>1
      <3>2. f \in [D -> secrets]
        BY <2>1
      <3> HIDE DEF f, D
      <3> QED BY <3>1, <3>2 DEF Surjection
    <2>4. IsFiniteSet(secrets)
      <3> HIDE DEF f, D
      <3> QED BY <2>2, <2>3, FS_Surjection
    <2>5. secrets \subseteq SecretType /\ \A s \in secrets : s.setting = id
      BY <2>1 DEF SecretType
    <2>6. ASSUME NEW s \in secrets, NEW t \in secrets, SameSecret(s, t) PROVE s = t
      BY <2>1, <2>6 DEF SameSecret
    <2> QED BY <2>4, <2>5, <2>6 DEF OneOfEach
  <1> DEFINE c == KeyringCall("find", id, r.call, secrets)
  <1>4. /\ calls' = Append(calls, c) /\ agentRequests' = [agentRequests EXCEPT ![id] = {}]
        /\ UNCHANGED <<asks, items, lastSerial>>
    BY <1>1 DEF RespondConfirmed, SaveSecrets
  <1>5. KeyringInv'
    BY <1>1, <1>2, <1>3, <1>4, SaveStep DEF AgentInv
  <1>6. c \in CallType /\ c.op = "find"
    BY <1>2, <1>3 DEF KeyringCall, CallType, Operations, OneOfEach
  <1>7. /\ Places' = Places \cup {Len(calls) + 1} /\ calls'[Len(calls) + 1] = c
        /\ \A p \in Places : calls'[p] = calls[p] /\ p + 0 = p /\ p - 0 = p
    <2> HIDE DEF c
    <2> QED BY <1>4, <1>6, CallAppended DEF AgentInv, KeyringInv
  <1>8. \A p \in Places' : calls'[p].op \in {"lookup", "erase"} => p + 0 \in Places /\ calls[p + 0] = calls'[p]
    <2> HIDE DEF c
    <2> QED BY <1>6, <1>7
  <1>9. \A p \in Places' : calls'[p].op = "lookup" => calls'[p].id # id
    <2>1. ASSUME NEW p \in Places', calls'[p].op = "lookup", calls'[p].id = id PROVE FALSE
      <3>1. p \in Places /\ calls'[p] = calls[p]
        <4> HIDE DEF c
        <4> QED BY <1>6, <1>7, <2>1
      <3> QED BY <1>1, <1>2, <2>1, <3>1 DEF AgentInv, AnswersInv, LookupsOK
    <2> QED BY <2>1
  <1>10. \A p \in Places : calls[p].op = "erase" => p - 0 \in Places' /\ calls'[p - 0] = calls[p]
    BY <1>7
  <1>11. AnswersInv'
    BY <1>1, <1>4, <1>8, <1>9, <1>10, RequestGoes DEF AgentInv
  <1> QED BY <1>5, <1>11 DEF AgentInv

\* A search is served: a deletion is answered by it.
LEMMA SearchStep ==
  ASSUME AgentInv, FindServed
  PROVE  AgentInv'
  <1> DEFINE h == calls[1]
  <1>1. /\ KeyringInv'
        /\ \A p \in Places' : \/ p + 1 \in Places /\ calls[p + 1] = calls'[p]
                              \/ calls'[p].op \in {"delete", "create"}
        /\ \A p \in Places : p # 1 => p - 1 \in Places' /\ calls'[p - 1] = calls[p]
    BY FindStep DEF AgentInv
  <1>2. 1 \in Places /\ Head(calls) = h /\ h.op \in {"find", "erase"}
    BY HeadFacts DEF AgentInv, KeyringInv, FindServed
  <1>3. \A p \in Places' : calls'[p].op \in {"lookup", "erase"} =>
          p + 1 \in Places /\ calls[p + 1] = calls'[p] /\ p \in Int /\ p + 1 # 1
    <2>1. \A p \in Places' : p \in Int /\ p + 1 # 1
      BY DEF Places
    <2> QED BY <1>1, <2>1
  <1>4. UNCHANGED <<agentRequests, asks>> /\ h.call \in AgentCalls
    BY <1>2, PlacesFacts DEF FindServed, AgentInv, KeyringInv
  <1>5. CASE h.op = "find"
    <2>1. UNCHANGED answered
      BY <1>2, <1>5 DEF FindServed
    <2>2. \A p \in Places : calls[p].op = "erase" => p - 1 \in Places' /\ calls'[p - 1] = calls[p]
      BY <1>1, <1>5
    <2>3. \A p \in Places' : calls'[p].op \in {"lookup", "erase"} => p + 1 \in Places /\ calls[p + 1] = calls'[p]
      BY <1>3
    <2>4. AnswersInv'
      BY <1>4, <2>1, <2>2, <2>3, AnswersRest DEF AgentInv
    <2> QED BY <1>1, <2>4 DEF AgentInv
  <1>6. CASE h.op = "erase"
    <2> DEFINE c == h.call
    <2>1. Answered(c)
      BY <1>2, <1>6 DEF FindServed
    <2> HIDE DEF c
    <2>2. c \in AgentCalls /\ c <= asks /\ Asked(c) /\ \A id \in RequestIds : \A r \in agentRequests[id] : r.call # c
      BY <1>2, <1>4, <1>6 DEF AgentInv, AnswersInv, ErasesOK, Asked, c
    <2>3. \A p \in Places' : calls'[p].op = "erase" => calls'[p].call # c
      BY <1>2, <1>3, <1>6 DEF AgentInv, AnswersInv, ErasesOK, c
    <2>4. PICK call : call = c
      OBVIOUS
    <2>5. ~Asked(call)'
      BY <1>4, <2>2, <2>3, <2>4 DEF Asked, c
    <2>6. ASSUME NEW e \in AgentCalls, e # call PROVE Asked(e)' <=> Asked(e)
      <3>1. (\E p \in Places' : calls'[p].op = "erase" /\ calls'[p].call = e)
              <=> (\E p \in Places : calls[p].op = "erase" /\ calls[p].call = e)
        BY <1>1, <1>3, <2>4, <2>6 DEF c
      <3> QED BY <1>4, <3>1 DEF Asked
    <2>7. answered' \in [AgentCalls -> Nat] /\ AnswersOK'
      BY <1>4, <2>1, <2>2, <2>4, <2>5, <2>6, AnswerCounts DEF AgentInv
    <2>8. RequestsOK'
      BY <1>4 DEF AgentInv, AnswersInv, RequestsOK
    <2>9. LookupsOK'
      <3>1. ASSUME NEW p \in Places', calls'[p].op = "lookup"
            PROVE  \E r \in agentRequests'[calls'[p].id] : r.call = calls'[p].call /\ r.stage = "keyring"
        <4>1. p + 1 \in Places /\ calls[p + 1] = calls'[p]
          BY <1>3, <3>1
        <4> QED BY <1>4, <3>1, <4>1 DEF AgentInv, AnswersInv, LookupsOK
      <3>2. ASSUME NEW p \in Places', NEW q \in Places', calls'[p].op = "lookup", calls'[q].op = "lookup",
                   calls'[p].id = calls'[q].id
            PROVE  p = q
        <4>1. /\ p + 1 \in Places /\ calls[p + 1] = calls'[p] /\ p \in Int
              /\ q + 1 \in Places /\ calls[q + 1] = calls'[q] /\ q \in Int
          BY <1>3, <3>2
        <4>2. p + 1 = q + 1
          BY <3>2, <4>1 DEF AgentInv, AnswersInv, LookupsOK
        <4> QED BY <4>1, <4>2
      <3> QED BY <3>1, <3>2 DEF LookupsOK
    <2>10. ErasesOK'
      <3>1. ASSUME NEW p \in Places', calls'[p].op = "erase"
            PROVE  /\ calls'[p].call <= asks'
                   /\ \A id \in RequestIds : \A r \in agentRequests'[id] : r.call # calls'[p].call
        <4>1. p + 1 \in Places /\ calls[p + 1] = calls'[p]
          BY <1>3, <3>1
        <4> QED BY <1>4, <3>1, <4>1 DEF AgentInv, AnswersInv, ErasesOK
      <3>2. ASSUME NEW p \in Places', NEW q \in Places', calls'[p].op = "erase", calls'[q].op = "erase",
                   calls'[p].call = calls'[q].call
            PROVE  p = q
        <4>1. /\ p + 1 \in Places /\ calls[p + 1] = calls'[p] /\ p \in Int
              /\ q + 1 \in Places /\ calls[q + 1] = calls'[q] /\ q \in Int
          BY <1>3, <3>2
        <4>2. p + 1 = q + 1
          BY <3>2, <4>1 DEF AgentInv, AnswersInv, ErasesOK
        <4> QED BY <4>1, <4>2
      <3> QED BY <3>1, <3>2 DEF ErasesOK
    <2> QED BY <1>1, <1>4, <2>7, <2>8, <2>9, <2>10 DEF AgentInv, AnswersInv
  <1> QED BY <1>2, <1>5, <1>6

-----------------------------------------------------------------------------
\* The invariant holds at the start, is kept, and says what is promised.
LEMMA AgentStarts ==
  ASSUME AgentInit
  PROVE  AgentInv
  <1>1. calls = <<>> /\ Places = {} /\ calls \in Seq(CallType)
    BY DEF AgentInit, Places
  <1>2. KeyringInv
    <2>1. CallsOK
      BY <1>1 DEF CallsOK
    <2>2. KeyringOK
      BY <1>1, FS_EmptySet DEF AgentInit, KeyringOK
    <2>3. WantedOK
      BY FS_EmptySet DEF AgentInit, WantedOK, OneOfEach
    <2>4. KeptInv
      BY <1>1 DEF AgentInit, KeptInv, Kept, FindsOf
    <2> QED BY <2>1, <2>2, <2>3, <2>4 DEF KeyringInv
  <1>3. AnswersInv
    <2>1. asks \in 0..MaxAsked /\ answered \in [AgentCalls -> Nat]
      BY AgentAssumption DEF AgentInit
    <2>2. RequestsOK
      BY DEF AgentInit, RequestsOK
    <2>3. LookupsOK /\ ErasesOK
      BY <1>1 DEF LookupsOK, ErasesOK
    <2>4. AnswersOK
      <3>1. \A c \in AgentCalls : c > asks
        BY AgentAssumption DEF AgentInit, AgentCalls
      <3> QED BY <3>1 DEF AgentInit, AnswersOK
    <2> QED BY <2>1, <2>2, <2>3, <2>4 DEF AnswersInv
  <1> QED BY <1>2, <1>3 DEF AgentInv

\* Every step keeps it.
LEMMA AgentSteps ==
  ASSUME AgentInv, [AgentNext]_agentVars
  PROVE  AgentInv'
  <1>1. CASE UNCHANGED agentVars
    <2>1. Places' = Places
      BY <1>1 DEF agentVars, Places
    <2> USE <1>1, <2>1 DEF agentVars
    <2>2. KeyringInv'
      <3>1. CallsOK' /\ KeyringOK' /\ WantedOK'
        BY DEF AgentInv, KeyringInv, CallsOK, KeyringOK, WantedOK
      <3>2. ASSUME NEW conn \in Connections PROVE Kept(conn)'
        <4>1. \A i, s : Spares(Places, conn, i, s)' = Spares(Places, conn, i, s)
          BY DEF Spares
        <4>2. \A s : IsThere(conn, s)' = IsThere(conn, s) /\ WillBeWritten(conn, s)' = WillBeWritten(conn, s)
          BY <4>1 DEF IsThere, WillBeWritten
        <4>3. FindsOf(conn)' = FindsOf(conn) /\ Kept(conn)
          BY DEF FindsOf, AgentInv, KeyringInv, KeptInv
        <4> QED BY <4>2, <4>3 DEF Kept
      <3> QED BY <3>1, <3>2 DEF KeyringInv, KeptInv, Connections
    <2>3. AnswersInv'
      <3>1. RequestsOK' /\ LookupsOK' /\ ErasesOK'
        BY DEF AgentInv, AnswersInv, RequestsOK, LookupsOK, ErasesOK
      <3>2. AnswersOK'
        BY DEF AgentInv, AnswersInv, AnswersOK, Asked
      <3> QED BY <3>1, <3>2 DEF AgentInv, AnswersInv
    <2> QED BY <2>2, <2>3 DEF AgentInv
  <1>2. ASSUME NEW id \in RequestIds, GetSecrets(id) PROVE AgentInv'
    BY <1>2, GetStep
  <1>3. ASSUME NEW id \in RequestIds, CancelGetSecrets(id) PROVE AgentInv'
    <2>1. PICK r \in agentRequests[id] : Answered(r.call)
      BY <1>3 DEF CancelGetSecrets
    <2> QED BY <1>3, <2>1, FreedStep DEF CancelGetSecrets
  <1>4. ASSUME NEW id \in RequestIds, RespondRefused(id) PROVE AgentInv'
    <2>1. PICK r \in agentRequests[id] : Answered(r.call)
      BY <1>4 DEF RespondRefused
    <2> QED BY <1>4, <2>1, FreedStep DEF RespondRefused
  <1>5. ASSUME NEW id \in RequestIds, RespondConfirmed(id) PROVE AgentInv'
    BY <1>5, ConfirmStep
  <1>6. ASSUME NEW id \in RequestIds, DeleteSecrets(id) PROVE AgentInv'
    BY <1>6, EraseStep
  <1>7. CASE LookupServed
    BY <1>7, LookupStep
  <1>8. CASE FindServed
    BY <1>8, SearchStep
  <1>9. CASE CancelledServed \/ DeleteServed \/ CreateServed
    BY <1>9, ServedStep
  <1> QED BY <1>1, <1>2, <1>3, <1>4, <1>5, <1>6, <1>7, <1>8, <1>9 DEF AgentNext

\* What it implies.
LEMMA AgentSafe ==
  ASSUME AgentInv
  PROVE  SecretsAreSafe
  <1>1. AgentTypeOK
    <2>1. ASSUME NEW id \in RequestIds
          PROVE  Cardinality(agentRequests[id]) <= 1 /\ agentRequests[id] \subseteq AgentRequestType
      <3>1. CASE agentRequests[id] = {}
        BY <3>1, FS_EmptySet
      <3>2. CASE \E r \in AgentRequestType : agentRequests[id] = {r}
        BY <3>2, FS_Singleton
      <3> QED BY <3>1, <3>2 DEF AgentInv, AnswersInv, RequestsOK
    <2>2. \A c \in Range(calls) : c.op \in Operations /\ c.id \in RequestIds
      BY PlacesFacts DEF AgentInv, KeyringInv
    <2>3. items \subseteq ItemType
      BY DEF AgentInv, KeyringInv, KeyringOK
    <2> QED BY <2>1, <2>2, <2>3 DEF AgentTypeOK, AgentInv, AnswersInv, Operations
  <1>2. AnsweredOnce
    <2>1. ASSUME NEW c \in 1..asks PROVE answered[c] = IF Asked(c) THEN 0 ELSE 1
      <3>1. c \in AgentCalls /\ ~(c > asks)
        BY AgentAssumption DEF AgentInv, AnswersInv, AgentCalls
      <3> QED BY <3>1 DEF AgentInv, AnswersInv, AnswersOK
    <2>2. ASSUME NEW c
          PROVE  Asked(c) <=> \/ \E id \in RequestIds : \E r \in agentRequests[id] : r.call = c
                              \/ \E k \in Range(calls) : k.op = "erase" /\ k.call = c
      BY PlacesFacts DEF Asked, AgentInv, KeyringInv
    <2> QED BY <2>1, <2>2 DEF AnsweredOnce
  <1>3. SavedIsKept
    <2>1. ASSUME NEW conn \in Connections,
                 \A c \in Range(calls) : ConnectionOf[c.id] = conn => c.op \in {"lookup", "cancelled"},
                 NEW s \in wanted[conn]
          PROVE  \E i \in items : i.setting = s.setting /\ i.key = s.key /\ i.value = s.value
      <3>1. \A p \in Places : ~Changes(calls[p], conn)
        BY <2>1, PlacesFacts DEF Changes, AgentInv, KeyringInv
      <3>2. FindsOf(conn) = {} /\ ~WillBeWritten(conn, s)
        BY <3>1 DEF FindsOf, WillBeWritten
      <3>3. IsThere(conn, s)
        BY <3>2 DEF AgentInv, KeyringInv, KeptInv, Kept
      <3> QED BY <3>3 DEF IsThere, SameSecret
    <2> QED BY <2>1 DEF SavedIsKept
  <1> QED BY <1>1, <1>2, <1>3 DEF SecretsAreSafe

\* The network agent answers every request of NetworkManager exactly once, and what
\* the user confirmed last for a connection is in the keyring as soon as nothing is
\* left to do there, however saves, deletions and cancellations overlap.
THEOREM AgentSecretsAreSafe == AgentSpec => []SecretsAreSafe
  <1>1. AgentInit => AgentInv
    BY AgentStarts
  <1>2. AgentInv /\ [AgentNext]_agentVars => AgentInv'
    BY AgentSteps
  <1>3. AgentInv => SecretsAreSafe
    BY AgentSafe
  <1> QED BY <1>1, <1>2, <1>3, PTL DEF AgentSpec
=============================================================================
