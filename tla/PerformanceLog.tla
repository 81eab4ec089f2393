---------------------------- MODULE PerformanceLog ----------------------------
(***************************************************************************)
(* Measuring the shell: the log of events and statistics (ShellPerfLog),   *)
(* kept in blocks of fixed size with the time of each event relative to    *)
(* the one before, and the functions ShellGlobal runs when the shell is    *)
(* idle, with which the scripts of the measurements wait.                  *)
(***************************************************************************)
EXTENDS Integers, Sequences, SequencesExt

CONSTANTS
  EventNames, StatisticNames,
  Signature,      \* of each name, "", "i" or "x"
  ArgSize,        \* bytes of an argument of each signature
  HeaderSize, BlockSize,
  DeltaLimit,     \* 0xffffffff, the longest relative time
  Readings,       \* values of the statistics and arguments of the events
  Functions_,     \* callers of shell_global_run_at_leisure()
  MaxPerfClock, MaxTold, MaxWork   \* bounds

ASSUME PerfAssumption == {MaxPerfClock, MaxTold, MaxWork} \subseteq Nat

PerfNames == EventNames \cup StatisticNames
SetTime == 1          \* EVENT_SET_TIME and EVENT_STATISTICS_COLLECTED, counted from 1
Collected == 2
Builtin == <<[name |-> "perf.setTime", sig |-> "x"],
             [name |-> "perf.statisticsCollected", sig |-> "x"]>>

VARIABLES
  perfClock,      \* get_time()
  enabled, statisticsTimer,
  defined,        \* events
  current, lastValue,   \* of the statistics: -1 if not initialized, not recorded
  perfLog,        \* [blocks, last], and told, a history of what was recorded
  setBack,        \* history: the clock has been set back
  workCount, leisureIdle, closures,   \* work_count, leisure_function_id != 0, leisure_closures
  ran             \* history: the functions that have been called

perfVars == <<perfClock, enabled, statisticsTimer, defined, current, lastValue, perfLog,
              setBack, workCount, leisureIdle, closures, ran>>
logVars == <<perfClock, enabled, statisticsTimer, defined, current, lastValue, perfLog, setBack>>
leisureVars == <<workCount, leisureIdle, closures, ran>>

PerfInit ==
  /\ perfClock = 0 /\ enabled = FALSE /\ statisticsTimer = FALSE
  /\ defined = Builtin
  /\ current = [s \in StatisticNames |-> -1] /\ lastValue = current
  /\ perfLog = [blocks |-> <<>>, last |-> 0, told |-> <<>>]
  /\ setBack = FALSE
  /\ workCount = 0 /\ leisureIdle = FALSE /\ closures = <<>> /\ ran = {}

-----------------------------------------------------------------------------
\* The log

EventIds(name) == {i \in DOMAIN defined : defined[i].name = name}

SizeOf(e) == HeaderSize + ArgSize[defined[e.id].sig]
Bytes(block) == FoldLeft(LAMBDA n, e : n + SizeOf(e), 0, block)

\* The end of record_event(): into the last block, or a new one
Put(blocks, e) ==
  IF blocks = <<>> \/ Bytes(Last(blocks)) + SizeOf(e) > BlockSize
  THEN Append(blocks, <<e>>)
  ELSE [blocks EXCEPT ![Len(blocks)] = Append(@, e)]

\* record_event() of an enabled log
Record(log, time, id, value) ==
  LET far == time > log.last + DeltaLimit
      delta == IF far \/ time < log.last THEN 0 ELSE time - log.last
      blocks == IF far THEN Put(log.blocks, [delta |-> 0, id |-> SetTime, value |-> time])
                       ELSE log.blocks IN
  [blocks |-> Put(blocks, [delta |-> delta, id |-> id, value |-> value]),
   last |-> time,
   told |-> Append(log.told, [time |-> time, id |-> id, value |-> value])]

\* define_event(): two events do not share a name
DefineEvent(name) ==
  /\ EventIds(name) = {}
  /\ defined' = Append(defined, [name |-> name, sig |-> Signature[name]])
  /\ UNCHANGED <<perfClock, enabled, statisticsTimer, current, lastValue, perfLog, setBack>>

SetEnabled ==
  /\ enabled' = ~enabled /\ statisticsTimer' = ~enabled
  /\ UNCHANGED <<perfClock, defined, current, lastValue, perfLog, setBack>>

\* shell_perf_log_event(), _i(), _x(): an event that is not defined, or not with
\* this signature, is discarded.
LogEvent(name, sig, value) ==
  \E id \in EventIds(name) :
    /\ enabled /\ defined[id].sig = sig /\ (sig = "" => value = 0)
    /\ perfLog' = Record(perfLog, perfClock, id, value)
    /\ UNCHANGED <<perfClock, enabled, statisticsTimer, defined, current, lastValue, setBack>>

UpdateStatistic(name, value) ==
  /\ EventIds(name) # {}
  /\ current' = [current EXCEPT ![name] = value]
  /\ UNCHANGED <<perfClock, enabled, statisticsTimer, defined, lastValue, perfLog, setBack>>

\* shell_perf_log_collect_statistics(), by the timer or a script: those that have
\* changed, in the order they were defined.  The functions that update them take
\* "spent".
Changed(name) == current[name] # -1 /\ current[name] # lastValue[name]
CollectStatistics(spent) ==
  LET now == perfClock + spent
      statistics == SelectSeq([i \in DOMAIN defined |-> i],
                      LAMBDA i : defined[i].name \in StatisticNames /\ Changed(defined[i].name))
      put == FoldLeft(LAMBDA log, i : Record(log, perfClock, i, current[defined[i].name]),
                      perfLog, statistics) IN
  /\ enabled
  /\ perfClock' = now
  /\ perfLog' = Record(put, perfClock, Collected, spent)
  /\ lastValue' = [s \in StatisticNames |->
                     IF EventIds(s) # {} /\ Changed(s) THEN current[s] ELSE lastValue[s]]
  /\ UNCHANGED <<enabled, statisticsTimer, defined, current, setBack>>

\* The clock is that of the user: it may be set.
Tick(time) ==
  /\ time # perfClock /\ perfClock' = time
  /\ setBack' = (setBack \/ time < perfClock)
  /\ UNCHANGED <<enabled, statisticsTimer, defined, current, lastValue, perfLog>>

\* shell_perf_log_replay()
ReplayEvent(r, e) ==
  IF e.id = SetTime THEN [r EXCEPT !.time = e.value]
  ELSE [time |-> r.time + e.delta,
        told |-> Append(r.told, [time |-> r.time + e.delta, id |-> e.id, value |-> e.value])]
Replay == FoldLeft(ReplayEvent, [time |-> 0, told |-> <<>>], FlattenSeq(perfLog.blocks)).told

-----------------------------------------------------------------------------
\* Leisure

BeginWork ==
  /\ workCount < MaxWork /\ workCount' = workCount + 1
  /\ UNCHANGED <<leisureIdle, closures, ran>>

EndWorkSchedulesEarly ==   \* a bug: the count is compared before it is lowered
  /\ workCount > 0 /\ workCount' = workCount - 1
  /\ leisureIdle' = (leisureIdle \/ workCount = 0)
  /\ UNCHANGED <<closures, ran>>

EndWork ==
  /\ workCount > 0 /\ workCount' = workCount - 1
  /\ leisureIdle' = (leisureIdle \/ workCount' = 0)
  /\ UNCHANGED <<closures, ran>>

RunAtLeisure(f) ==
  /\ f \notin Range(closures) /\ f \notin ran
  /\ closures' = Append(closures, f)
  /\ leisureIdle' = (leisureIdle \/ workCount = 0)
  /\ UNCHANGED <<workCount, ran>>

\* run_leisure_functions(): every turn of its loop takes the data of the first
\* element of the list, not of the one the loop has come to.
RunLeisureFunctions ==
  /\ leisureIdle /\ leisureIdle' = FALSE
  /\ IF workCount > 0 \/ closures = <<>> THEN UNCHANGED <<closures, ran>>
     ELSE closures' = <<>> /\ ran' = ran \cup {Head(closures)}
  /\ UNCHANGED workCount

-----------------------------------------------------------------------------
LogNext ==
  \/ \E n \in PerfNames : DefineEvent(n)
  \/ SetEnabled
  \/ \E n \in EventNames, s \in {"", "i", "x"}, v \in Readings : LogEvent(n, s, v)
  \/ \E n \in StatisticNames, v \in Readings : UpdateStatistic(n, v)
  \/ \E spent \in 0 .. 1 : perfClock + spent <= MaxPerfClock /\ CollectStatistics(spent)
  \/ \E t \in 0 .. MaxPerfClock : Tick(t)

LeisureNext ==
  BeginWork \/ EndWork \/ RunLeisureFunctions \/ \E f \in Functions_ : RunAtLeisure(f)

-----------------------------------------------------------------------------
LogTypeOK ==
  /\ perfClock \in 0 .. MaxPerfClock /\ {enabled, statisticsTimer, setBack} \subseteq BOOLEAN
  /\ Range(defined) \subseteq [name : PerfNames, sig : {"", "i", "x"}] \cup Range(Builtin)
  /\ {current, lastValue} \subseteq [StatisticNames -> Readings \cup {-1}]
  /\ perfLog.last \in 0 .. MaxPerfClock

LeisureTypeOK ==
  /\ workCount \in 0 .. MaxWork /\ leisureIdle \in BOOLEAN
  /\ closures \in Seq(Functions_) /\ ran \subseteq Functions_

\* No block is longer than its buffer, and the replay of the log gives every event
\* that was recorded, in order, with its argument and, as long as nobody sets the
\* clock back, its time: record_event() writes what shell_perf_log_replay() reads.
\* A statistic can be followed in it, although only its changes are recorded.
LogIsExact ==
  /\ \A i \in DOMAIN perfLog.blocks : Bytes(perfLog.blocks[i]) <= BlockSize
  /\ LET replay == Replay
         same(a, b) == a.id = b.id /\ a.value = b.value /\ (setBack \/ a.time = b.time)
         of(s) == SelectSeq(replay, LAMBDA e : defined[e.id].name = s) IN
     /\ Len(replay) = Len(perfLog.told)
     /\ \A i \in DOMAIN replay : same(replay[i], perfLog.told[i])
     /\ \A s \in StatisticNames :
          lastValue[s] # -1 => of(s) # <<>> /\ Last(of(s)).value = lastValue[s]

\* Functions that wait for the shell to be idle are not left behind: an idle source
\* will look at them, or work is under way whose end schedules one
\* (shell_global_end_work(), run_leisure_functions()).
LeisureWillCome == closures # <<>> => leisureIdle \/ workCount > 0
=============================================================================
