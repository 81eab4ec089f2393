------------------------------- MODULE AppUsage -------------------------------
(***************************************************************************)
(* The scores of the applications (ShellAppUsage): how long their windows  *)
(* had the focus, halved when one gets too high, saved from time to time   *)
(* and restored when the shell starts.  The unit of time and of the scores *)
(* is FOCUS_TIME_MIN_SECONDS.                                              *)
(***************************************************************************)
EXTENDS Integers

CONSTANTS
  UsedApps,
  WindowBacked,   \* those without an entry, which are not saved
  NoFocus,
  ScoreMax, ScoreMin,  \* SCORE_MAX and SCORE_MIN
  IdleCount,      \* IDLE_TIME_TRANSITION_SECONDS
  ElapsedWidth,   \* 2 ^ 32, the type of elapsed being guint
  MaxClock        \* bound on the clock

ASSUME AppUsageAssumption ==
  /\ WindowBacked \subseteq UsedApps /\ NoFocus \notin UsedApps
  /\ {ScoreMax, ScoreMin, IdleCount, ElapsedWidth, MaxClock} \subseteq Nat
  /\ ElapsedWidth > MaxClock

VARIABLES
  clock,          \* get_time()
  watchStart,     \* watch_start_time
  watchedApp,
  focusedApp,     \* focus-app of the tracker
  currentlyIdle,
  monitoring,     \* enable_monitoring, and the key of the settings
  score,          \* 0 for an application that was never seen
  saveTimer,      \* save_id: "none", "pending", or "gone" for the id of a source
                  \* that has run
  savedScore,     \* the file
  dropped         \* history: a score has been left out of the file on purpose

usageVars == <<clock, watchStart, watchedApp, focusedApp, currentlyIdle, monitoring,
               score, saveTimer, savedScore, dropped>>

UsageInit ==
  /\ clock = 0 /\ watchStart = 0
  /\ watchedApp = NoFocus /\ focusedApp = NoFocus
  /\ currentlyIdle = FALSE /\ monitoring = TRUE
  /\ score = [a \in UsedApps |-> 0] /\ savedScore = score
  /\ saveTimer = "none" /\ dropped = FALSE

-----------------------------------------------------------------------------
\* increment_usage_for_app_at_time() and normalize_usage(): a clock that was set
\* back makes elapsed wrap around.
IncrementUsage(a, time) ==
  LET elapsed == (time - watchStart) % ElapsedWidth
      raised == [score EXCEPT ![a] = @ + elapsed] IN
  IF a = NoFocus \/ elapsed = 0 THEN UNCHANGED <<score, saveTimer>>
  ELSE /\ score' = IF raised[a] > ScoreMax
                   THEN [b \in UsedApps |-> raised[b] \div 2] ELSE raised
       /\ saveTimer' = IF saveTimer = "none" THEN "pending" ELSE saveTimer

\* on_focus_app_changed(), whether monitoring is enabled or not
FocusAppChanged(a) ==
  /\ a # focusedApp
  /\ focusedApp' = a /\ watchedApp' = a
  /\ IncrementUsage(watchedApp, clock)
  /\ watchStart' = clock
  /\ UNCHANGED <<clock, currentlyIdle, monitoring, savedScore, dropped>>

\* on_session_status_changed()
SessionIdle ==
  /\ ~currentlyIdle /\ currentlyIdle' = TRUE
  /\ IncrementUsage(watchedApp, watchStart + IdleCount)
  /\ UNCHANGED <<clock, watchStart, watchedApp, focusedApp, monitoring, savedScore, dropped>>

SessionBack ==
  /\ currentlyIdle /\ currentlyIdle' = FALSE
  /\ watchStart' = clock
  /\ UNCHANGED <<clock, watchedApp, focusedApp, monitoring, score, saveTimer, savedScore, dropped>>

\* update_enable_monitoring()
MonitoringEnabled ==
  /\ ~monitoring /\ monitoring' = TRUE
  /\ IncrementUsage(watchedApp, clock)
  /\ watchedApp' = focusedApp /\ watchStart' = clock
  /\ UNCHANGED <<clock, focusedApp, currentlyIdle, savedScore, dropped>>

MonitoringDisabled ==
  /\ monitoring /\ monitoring' = FALSE
  /\ watchedApp' = NoFocus
  /\ dropped' = (dropped \/ saveTimer = "pending")
  /\ saveTimer' = "none"
  /\ UNCHANGED <<clock, watchStart, focusedApp, currentlyIdle, score, savedScore>>

\* Mutant: the id of the timeout is kept.
SaveUsageKeepsId ==
  /\ saveTimer = "pending" /\ saveTimer' = "gone"
  /\ \/ savedScore' = [a \in UsedApps |-> IF a \in WindowBacked THEN 0 ELSE score[a]] /\ dropped' = FALSE
     \/ UNCHANGED savedScore /\ dropped' = TRUE
  /\ UNCHANGED <<clock, watchStart, watchedApp, focusedApp, currentlyIdle, monitoring, score>>

\* idle_save_application_usage(), which gives up when the file cannot be written
SaveUsage ==
  /\ saveTimer = "pending" /\ saveTimer' = "none"
  /\ \/ savedScore' = [a \in UsedApps |-> IF a \in WindowBacked THEN 0 ELSE score[a]] /\ dropped' = FALSE
     \/ UNCHANGED savedScore /\ dropped' = TRUE
  /\ UNCHANGED <<clock, watchStart, watchedApp, focusedApp, currentlyIdle, monitoring, score>>

\* The shell crashes or is restarted: shell_app_usage_init(), restore_from_file()
\* and idle_clean_usage(), which forgets applications with a low score that have
\* not been seen for a week.
Restarted(forgotten) ==
  /\ \A a \in forgotten : savedScore[a] < ScoreMin
  /\ score' = [a \in UsedApps |-> IF a \in forgotten THEN 0 ELSE savedScore[a]]
  /\ dropped' = (score' # savedScore)
  /\ saveTimer' = "none" /\ currentlyIdle' = FALSE
  /\ watchedApp' = IF monitoring THEN focusedApp ELSE NoFocus
  /\ watchStart' = IF monitoring THEN clock ELSE 0
  /\ UNCHANGED <<clock, focusedApp, monitoring, savedScore>>

ClockMoves ==
  /\ clock' \in (0 .. MaxClock) \cap ((0 .. clock - 1) \cup {clock + 1})
  /\ UNCHANGED <<watchStart, watchedApp, focusedApp, currentlyIdle, monitoring,
                 score, saveTimer, savedScore, dropped>>

UsageNext ==
  \/ \E a \in UsedApps \cup {NoFocus} : FocusAppChanged(a)
  \/ SessionIdle \/ SessionBack
  \/ MonitoringEnabled \/ MonitoringDisabled
  \/ SaveUsage
  \/ \E forgotten \in SUBSET UsedApps : Restarted(forgotten)
  \/ ClockMoves

UsageSpec == UsageInit /\ [][UsageNext]_usageVars

-----------------------------------------------------------------------------
UsageTypeOK ==
  /\ {clock, watchStart} \subseteq 0 .. MaxClock
  /\ {watchedApp, focusedApp} \subseteq UsedApps \cup {NoFocus}
  /\ {currentlyIdle, monitoring, dropped} \subseteq BOOLEAN
  /\ score \in [UsedApps -> Nat] /\ savedScore \in [UsedApps -> Nat]
  /\ saveTimer \in {"none", "pending", "gone"}

\* A score that is not in the file will be written: the timeout of
\* ensure_queued_save() is there, unless a save has failed or was called off.
UnsavedIsQueued ==
  \A a \in UsedApps \ WindowBacked :
    score[a] # savedScore[a] => saveTimer = "pending" \/ dropped

\* The scores are numbers, and what is not in the file will be.
ScoresAreKept == UsageTypeOK /\ UnsavedIsQueued
=============================================================================
