------------------------------ MODULE IdleMonitor ------------------------------
(***************************************************************************)
(* ShellIdleMonitor: watches on how long the user has been idle, each with *)
(* two alarms of the X server, which tells when its counter of idle time   *)
(* passes the interval of the watch upwards and downwards.                 *)
(***************************************************************************)
EXTENDS Integers, Sequences

CONSTANTS
  Intervals,     \* of the watches, in steps of the counter
  MaxSerial,     \* 2 ^ 31 - 1
  MaxIdle, MaxEvents   \* bounds on the counter and the events under way

ASSUME IdleMonitorAssumption ==
  Intervals \subseteq Nat /\ MaxSerial \in Nat \ {0} /\ {MaxIdle, MaxEvents} \subseteq Nat

VARIABLES
  idleTime,      \* the counter IDLETIME of the X server
  watchSerial,   \* watch_serial
  watches,       \* id -> [interval, told]: what its caller knows of the user, at
                 \* first because it asks for the state it is in
  alarmEvents,   \* alarm events on their way to the shell
  removedOwn     \* history: ids that were removed, until they are used again

idleMonitorVars == <<idleTime, watchSerial, watches, alarmEvents, removedOwn>>

IdleMonitorInit ==
  /\ idleTime = 0 /\ watchSerial = 1
  /\ watches = <<>> /\ alarmEvents = <<>> /\ removedOwn = {}

IsIdle(w) == idleTime >= watches[w].interval

\* The alarms of _xsync_alarm_set(): the positive one waits for the interval, the
\* negative one for one less.
PositiveAlarm(w, before, after) ==
  before < watches[w].interval /\ after >= watches[w].interval
NegativeAlarm(w, before, after) ==
  before > watches[w].interval - 1 /\ after <= watches[w].interval - 1

\* The X server counts, or the user comes back.
Counter(after) ==
  LET fired == {[id |-> w, positive |-> TRUE] :
                  w \in {v \in DOMAIN watches : PositiveAlarm(v, idleTime, after)}}
               \cup {[id |-> w, positive |-> FALSE] :
                  w \in {v \in DOMAIN watches : NegativeAlarm(v, idleTime, after)}} IN
  /\ after \in {0, idleTime + 1} /\ after <= MaxIdle
  /\ Len(alarmEvents) < MaxEvents
  /\ idleTime' = after
  /\ alarmEvents' = IF fired = {} THEN alarmEvents ELSE Append(alarmEvents, fired)
  /\ UNCHANGED <<watchSerial, watches, removedOwn>>

\* get_next_watch_serial()
NextSerial == IF watchSerial = MaxSerial THEN 1 ELSE watchSerial + 1

\* shell_idle_monitor_add_watch(): the number of a watch that still exists replaces it.
AddWatch(interval) ==
  LET id == watchSerial IN
  /\ watchSerial' = NextSerial
  /\ watches' = [w \in DOMAIN watches \cup {id} |->
                   IF w = id THEN [interval |-> interval, told |-> idleTime >= interval]
                             ELSE watches[w]]
  /\ alarmEvents' = [i \in DOMAIN alarmEvents |-> {e \in alarmEvents[i] : e.id # id}]
  /\ removedOwn' = removedOwn \ {id}
  /\ UNCHANGED idleTime

Without(w) == [v \in DOMAIN watches \ {w} |-> watches[v]]

RemoveWatch(w) ==
  /\ w \in DOMAIN watches
  /\ watches' = Without(w) /\ removedOwn' = removedOwn \cup {w}
  /\ UNCHANGED <<idleTime, watchSerial, alarmEvents>>

\* handle_alarm_notify_event(): the event of an alarm that has no watch any more is
\* passed over.  The callback may remove its own watch, as the message tray does.
AlarmNotify(removes) ==
  \E e \in IF alarmEvents = <<>> THEN {} ELSE Head(alarmEvents) :
    LET rest == Head(alarmEvents) \ {e} IN
    /\ alarmEvents' = IF rest = {} THEN Tail(alarmEvents) ELSE <<rest>> \o Tail(alarmEvents)
    /\ IF e.id \notin DOMAIN watches THEN ~removes /\ UNCHANGED <<watches, removedOwn>>
       ELSE IF removes
       THEN watches' = Without(e.id) /\ removedOwn' = removedOwn \cup {e.id}
       ELSE watches' = [watches EXCEPT ![e.id].told = e.positive] /\ UNCHANGED removedOwn
    /\ UNCHANGED <<idleTime, watchSerial>>

\* Events of which the alarm went with its watch are nobody's.
NothingLeft == alarmEvents # <<>> /\ Head(alarmEvents) = {}
               /\ alarmEvents' = Tail(alarmEvents)
               /\ UNCHANGED <<idleTime, watchSerial, watches, removedOwn>>

IdleMonitorNext ==
  \/ \E t \in 0 .. MaxIdle : Counter(t)
  \/ \E i \in Intervals : AddWatch(i)
  \/ \E w \in DOMAIN watches : RemoveWatch(w)
  \/ \E removes \in BOOLEAN : AlarmNotify(removes)
  \/ NothingLeft

-----------------------------------------------------------------------------
IdleMonitorTypeOK ==
  /\ idleTime \in 0 .. MaxIdle /\ watchSerial \in 1 .. MaxSerial
  /\ watches \in [DOMAIN watches -> [interval : Intervals, told : BOOLEAN]]
  /\ DOMAIN watches \cup removedOwn \subseteq 1 .. MaxSerial

\* Once the events of the X server have been handled, every watch has been told
\* whether the user is idle (handle_alarm_notify_event(), _xsync_alarm_set()), and
\* one that was removed has not come back: the two alarms of a watch leave no time
\* between them, and none is taken for the other.
WatchersKnow ==
  /\ DOMAIN watches \cap removedOwn = {}
  /\ alarmEvents = <<>> => \A w \in DOMAIN watches : watches[w].told = IsIdle(w)
=============================================================================
