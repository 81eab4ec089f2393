-------------------------------- MODULE Autorun --------------------------------
(***************************************************************************)
(* What the shell does with a medium that is put in (autorunManager.js):   *)
(* it asks the hotplug sniffer (hotplug-sniffer.c), a process of its own   *)
(* that quits when it has nothing to do, which looks at the files of the   *)
(* medium (shell-mime-sniffer.c) until a watchdog stops it.                *)
(***************************************************************************)
EXTENDS Integers, Sequences, SequencesExt, FiniteSets

CONSTANTS
  Mounts,
  RootOf,         \* the root of each
  Entries,        \* directory -> the types of its files and its subdirectories
  MaxMounted      \* bound on how often media are put in

ContentKinds == <<"x-content/video", "x-content/audio", "x-content/pictures", "x-content/documents">>
Dirs == DOMAIN Entries

VARIABLES
  mounted, mountings,
  listed,         \* _mounts of the resident source
  late,           \* history: removed while it was being examined
  up,             \* the sniffer runs
  autoquit,       \* there is a timer whose id is in autoquit_id
  strays,         \* timers whose id is lost
  sniff,          \* the request for each mount, and the DeepCountState
  watchdogs,
  overlapped,     \* history: there were two requests at a time
  droppedAnswers         \* history: mounts whose request was droppedAnswers when the sniffer quit

autorunVars == <<mounted, mountings, listed, late, up, autoquit, strays, sniff, watchdogs,
                 overlapped, droppedAnswers>>
snifferVars == <<up, autoquit, strays, watchdogs, overlapped, droppedAnswers>>

NoCount == [k \in ToSet(ContentKinds) |-> 0]
NoSniff == [stage |-> "none", dirs |-> <<>>, files |-> <<>>, count |-> NoCount,
            cancelled |-> FALSE, skipped |-> FALSE, types |-> <<>>]
InServer(m) == sniff[m].stage \notin {"none", "guess", "sent", "answered", "error"}

AutorunInit ==
  /\ mounted = {} /\ mountings = 0 /\ listed = {} /\ late = {}
  /\ up = FALSE /\ autoquit = FALSE /\ strays = 0
  /\ sniff = [m \in Mounts |-> NoSniff] /\ watchdogs = {}
  /\ overlapped = FALSE /\ droppedAnswers = {}

-----------------------------------------------------------------------------
\* The shell.  A mount that appears in a session that is not active is ignored.
MountAdded(m, active) ==
  /\ m \notin mounted /\ sniff[m].stage = "none" /\ mountings < MaxMounted
  /\ mounted' = mounted \cup {m} /\ mountings' = mountings + 1
  /\ sniff' = IF active THEN [sniff EXCEPT ![m] = [NoSniff EXCEPT !.stage = "guess"]] ELSE sniff
  /\ UNCHANGED <<listed, late, snifferVars>>

MountRemoved(m) ==
  /\ m \in mounted /\ mounted' = mounted \ {m} /\ listed' = listed \ {m}
  /\ late' = IF sniff[m].stage # "none" THEN late \cup {m} ELSE late
  /\ UNCHANGED <<mountings, sniff, snifferVars>>

\* The callback of the discoverer: addMount().
Emit(m) ==
  /\ listed' = listed \cup {m}
  /\ sniff' = [sniff EXCEPT ![m] = NoSniff]

ContentTypeGuessed(m, known) ==
  /\ sniff[m].stage = "guess"
  /\ IF known THEN Emit(m)
     ELSE sniff' = [sniff EXCEPT ![m].stage = "sent"] /\ UNCHANGED listed
  /\ UNCHANGED <<mounted, mountings, late, snifferVars>>

\* An error has no types to take apart, and the callback throws.
SniffAnswered(m) ==
  /\ sniff[m].stage \in {"answered", "error"}
  /\ IF sniff[m].stage = "answered" THEN Emit(m)
     ELSE sniff' = [sniff EXCEPT ![m] = NoSniff] /\ UNCHANGED listed
  /\ UNCHANGED <<mounted, mountings, late, snifferVars>>

-----------------------------------------------------------------------------
\* The sniffer as a service: the bus starts it, main() arms the timer.
ListStarted == ~up /\ (\E m \in Mounts : sniff[m].stage = "sent")
           /\ up' = TRUE /\ autoquit' = TRUE /\ strays' = 0
           /\ UNCHANGED <<mounted, mountings, listed, late, sniff, watchdogs, overlapped, droppedAnswers>>

\* handle_sniff_uri(), ensure_autoquit_off(), shell_mime_sniffer_sniff_async()
HandleSniffUri(m) ==
  /\ up /\ sniff[m].stage = "sent"
  /\ autoquit' = FALSE /\ watchdogs' = watchdogs \cup {m}
  /\ overlapped' = (overlapped \/ \E n \in Mounts : InServer(n))
  /\ sniff' = [sniff EXCEPT ![m].stage = "query"]
  /\ UNCHANGED <<mounted, mountings, listed, late, up, strays, droppedAnswers>>

\* sniff_async_ready_cb(), ensure_autoquit_on(): an id that is there is overwritten.
SniffReady(m) ==
  /\ sniff[m].stage \in {"idle", "failed"}
  /\ sniff' = [sniff EXCEPT ![m].stage = IF @ = "idle" THEN "answered" ELSE "error"]
  /\ autoquit' = TRUE /\ strays' = IF autoquit THEN strays + 1 ELSE strays
  /\ UNCHANGED <<mounted, mountings, listed, late, up, watchdogs, overlapped, droppedAnswers>>

\* autoquit_timeout_cb(), of whichever timer: the process ends, and with it what it
\* was doing; the callers get an error.
AutoquitTimeout ==
  /\ up /\ (autoquit \/ strays > 0)
  /\ up' = FALSE /\ autoquit' = FALSE /\ strays' = 0 /\ watchdogs' = {}
  /\ droppedAnswers' = droppedAnswers \cup {m \in Mounts : InServer(m)}
  /\ sniff' = [m \in Mounts |-> IF InServer(m) THEN [sniff[m] EXCEPT !.stage = "error"] ELSE sniff[m]]
  /\ overlapped' = (overlapped /\ droppedAnswers' # {})
  /\ UNCHANGED <<mounted, mountings, listed, late>>

-----------------------------------------------------------------------------
\* ShellMimeSniffer: the answers of GIO, one directory and one file at a time.
Step(m, from, to) ==
  /\ sniff[m].stage = from /\ sniff' = [sniff EXCEPT ![m] = to]
  /\ UNCHANGED <<mounted, mountings, listed, late, snifferVars>>

QueryInfoReady(m, ok) ==
  Step(m, "query",
       IF ok /\ ~sniff[m].cancelled /\ RootOf[m] \in Dirs
       THEN [sniff[m] EXCEPT !.stage = "enumerate", !.dirs = <<RootOf[m]>>]
       ELSE [sniff[m] EXCEPT !.stage = "failed"])

\* add_content_type_to_cache(): only files of a known type count.
AddContentType(s, type) == IF type \in DOMAIN s.count THEN [s EXCEPT !.count[type] = @ + 1] ELSE s

Total(c) == FoldLeft(LAMBDA n, k : n + c[k], 0, ContentKinds)

\* prepare_async_result(): the types by their share, the second and the third if they
\* have a tenth of all (HIGH_SCORE_RATIO).
SniffedMime(c) ==
  LET by == SortSeq(ContentKinds, LAMBDA a, b : c[a] > c[b])
      high == IF 10 * c[by[2]] < Total(c) THEN 1 ELSE IF 10 * c[by[3]] < Total(c) THEN 2 ELSE 3
  IN IF Total(c) = 0 THEN <<>> ELSE SubSeq(by, 1, high)

\* deep_count_finish()
DeepCountFinish(s) == [s EXCEPT !.stage = "idle", !.types = SniffedMime(s.count), !.dirs = <<>>,
                                !.files = <<>>]

\* deep_count_next_dir(): the head of dirs is the directory at work.
NextDir(s) ==
  LET rest == Tail(s.dirs) IN
  IF rest = <<>> THEN DeepCountFinish(s)
  ELSE [s EXCEPT !.stage = "enumerate", !.dirs = rest, !.files = <<>>]

DeepCountCallback(m, ok) ==
  Step(m, "enumerate",
       IF sniff[m].cancelled THEN DeepCountFinish(sniff[m])
       ELSE IF ok THEN [sniff[m] EXCEPT !.stage = "files", !.files = Entries[Head(sniff[m].dirs)]]
       ELSE NextDir([sniff[m] EXCEPT !.skipped = TRUE]))

\* deep_count_one()
DeepCountOne(s, e) ==
  IF e \in Dirs THEN [s EXCEPT !.dirs = Append(@, e)] ELSE AddContentType(s, e)

MoreFilesCallbackDepthLost(m, ok) ==   \* a bug: what is left to visit is lost at the end of a directory
  Step(m, "files",
       IF sniff[m].cancelled THEN DeepCountFinish(sniff[m])
       ELSE IF ~ok THEN NextDir([sniff[m] EXCEPT !.skipped = TRUE])
       ELSE IF sniff[m].files = <<>> THEN DeepCountFinish(sniff[m])
       ELSE DeepCountOne([sniff[m] EXCEPT !.files = Tail(@)], Head(sniff[m].files)))
MoreFilesCallback(m, ok) ==
  Step(m, "files",
       IF sniff[m].cancelled THEN DeepCountFinish(sniff[m])
       ELSE IF ~ok THEN NextDir([sniff[m] EXCEPT !.skipped = TRUE])
       ELSE IF sniff[m].files = <<>> THEN NextDir(sniff[m])
       ELSE DeepCountOne([sniff[m] EXCEPT !.files = Tail(@)], Head(sniff[m].files)))

\* watchdog_timeout_reached_cb(); nothing removes it when the count is done.
Watchdog(m) ==
  /\ m \in watchdogs /\ watchdogs' = watchdogs \ {m}
  /\ sniff' = IF sniff[m].stage \in {"query", "enumerate", "files"}
              THEN [sniff EXCEPT ![m].cancelled = TRUE] ELSE sniff
  /\ UNCHANGED <<mounted, mountings, listed, late, up, autoquit, strays, overlapped, droppedAnswers>>

AutorunNext ==
  \/ \E m \in Mounts, b \in BOOLEAN :
       MountAdded(m, b) \/ ContentTypeGuessed(m, b) \/ QueryInfoReady(m, b)
       \/ DeepCountCallback(m, b) \/ MoreFilesCallback(m, b)
  \/ \E m \in Mounts :
       MountRemoved(m) \/ SniffAnswered(m) \/ HandleSniffUri(m) \/ SniffReady(m) \/ Watchdog(m)
  \/ ListStarted \/ AutoquitTimeout

-----------------------------------------------------------------------------
\* All directories at or below one.
Tree(root) ==
  LET below[n \in 0..Cardinality(Dirs)] ==
        IF n = 0 THEN {root}
        ELSE below[n - 1] \cup (Dirs \cap UNION {Range(Entries[d]) : d \in below[n - 1]})
  IN below[Cardinality(Dirs)]
FilesOf(root, kind) ==
  UNION {{<<d, i>> : i \in {j \in DOMAIN Entries[d] : Entries[d][j] = kind}} : d \in Tree(root)}

AutorunTypeOK ==
  /\ listed \cup late \cup watchdogs \cup droppedAnswers \cup mounted \subseteq Mounts
  /\ strays \in Nat /\ (~up => ~autoquit /\ strays = 0)

\* A count that was neither stopped by its watchdog nor met a directory it could not
\* read counted every file in the tree once, however two counts take turns
\* (deep_count_next_dir(), deep_count_more_files_callback()).
EveryFileCounts ==
  \A m \in Mounts :
    sniff[m].stage \in {"idle", "answered"} /\ ~sniff[m].cancelled /\ ~sniff[m].skipped =>
      \A k \in ToSet(ContentKinds) : sniff[m].count[k] = Cardinality(FilesOf(RootOf[m], k))

\* The sniffer quits when it has nothing to do, as long as it never had two requests at
\* a time: then one timer is out of ensure_autoquit_off()'s reach.  So what is mounted
\* and no longer examined is listed, and nothing else, except what was removed while it
\* was examined.
NoAnswerLost ==
  /\ ~overlapped => droppedAnswers = {}
  /\ listed \subseteq mounted \cup late
=============================================================================
