------------------------------- MODULE Recorder -------------------------------
(***************************************************************************)
(* The screen recorder (ShellRecorder).  First the recordings that are     *)
(* paused, resumed and closed, the pipelines that finish on their own time *)
(* or fail, and the sources that drive them.                               *)
(*                                                                         *)
(* Then how it gets its frames and where they go (shell-recorder.c,        *)
(* shell-recorder-src.c): the source that a streaming thread of GStreamer  *)
(* empties while the main loop fills it, the pointer that is drawn into    *)
(* the frames, and the file that they end up in.                           *)
(*                                                                         *)
(* The X server, the clock and what GStreamer does with the frames behind  *)
(* the source are external.                                                *)
(***************************************************************************)
EXTENDS Integers, FiniteSets, Sequences, SequencesExt

CONSTANTS
  Pipelines,
  NoPipeline,
  MaxRefs         \* bound on the references the recorder takes on itself

ASSUME RecorderAssumption == NoPipeline \notin Pipelines /\ MaxRefs \in Nat

VARIABLES
  recorder,       \* the fields of the recorder, see RecorderType
  finishing,      \* the pipelines that were closed and encode what they have
  spent,          \* those that are freed
  countInName,    \* the filename has %c
  stageThere

recorderVars == <<recorder, finishing, spent, countInName, stageThere>>

RecorderType ==
  [state : {"CLOSED", "PAUSED", "RECORDING", "CRASHED"},
   current : Pipelines \cup {NoPipeline},
   hasCount : BOOLEAN,          \* filename_has_count
   closed : SUBSET Pipelines,   \* the pipelines whose source was told the end
   late : BOOLEAN,              \* history: a frame came after that
   refs : 0 .. MaxRefs,
   pointerTimer : BOOLEAN, repaintHook : BOOLEAN, redrawTimer : BOOLEAN]

RecorderInit ==
  /\ recorder = [state |-> "CLOSED", current |-> NoPipeline, hasCount |-> FALSE,
                 closed |-> {}, late |-> FALSE, refs |-> 0, pointerTimer |-> FALSE,
                 repaintHook |-> FALSE, redrawTimer |-> FALSE]
  /\ finishing = {} /\ spent = {}
  /\ countInName \in BOOLEAN
  /\ stageThere = TRUE

-----------------------------------------------------------------------------
\* recorder_on_stage_paint() and recorder_record_frame(): a frame is skipped when
\* memory is short or the last one is recent, and otherwise given to the source
\* of the current pipeline, whatever that is.
Paint(r, skipped) ==
  IF r.state # "RECORDING" \/ skipped THEN r
  ELSE IF r.current = NoPipeline THEN [r EXCEPT !.state = "CRASHED"]
  ELSE [r EXCEPT !.redrawTimer = TRUE, !.late = @ \/ r.current \in r.closed]

\* Mutant: the pipeline stays the current one until it has finished.
ClosePipelineLater(r) ==
  IF r.current = NoPipeline THEN r
  ELSE [r EXCEPT !.closed = @ \cup {r.current}, !.hasCount = FALSE]

\* recorder_close_pipeline()
ClosePipeline(r) ==
  IF r.current = NoPipeline THEN r
  ELSE [r EXCEPT !.closed = @ \cup {r.current}, !.current = NoPipeline, !.hasCount = FALSE]

\* shell_recorder_pause(), with one more frame
Pause(r, skipped) ==
  LET painted == Paint([r EXCEPT !.pointerTimer = FALSE], skipped)
      stopped == IF painted.hasCount THEN ClosePipeline(painted) ELSE painted
  IN IF painted.state = "CRASHED" THEN painted
     ELSE [stopped EXCEPT !.state = "PAUSED", !.repaintHook = FALSE]

\* shell_recorder_close()
Close(r, skipped) ==
  LET paused == IF r.state = "RECORDING" THEN Pause(r, skipped) ELSE r
  IN IF r.state = "CLOSED" \/ paused.state = "CRASHED" THEN paused
     ELSE [ClosePipeline(paused) EXCEPT !.state = "CLOSED", !.refs = @ - 1,
                                        !.pointerTimer = FALSE, !.redrawTimer = FALSE]

Alive == recorder.state # "CRASHED"

\* The pipelines that r has closed beyond those of recorder
Become(r) ==
  /\ recorder' = r
  /\ finishing' = finishing \cup (r.closed \ recorder.closed)

-----------------------------------------------------------------------------
\* shell_recorder_record() after a pause
RecordAgain(r) ==
  [r EXCEPT !.state = "RECORDING", !.refs = @ + 1, !.pointerTimer = TRUE, !.repaintHook = TRUE]

Resumed ==
  /\ recorder.state = "PAUSED" /\ stageThere /\ recorder.current # NoPipeline
  /\ recorder.refs < MaxRefs
  /\ Become(RecordAgain(recorder))
  /\ UNCHANGED <<spent, countInName, stageThere>>

\* shell_recorder_record() with recorder_open_pipeline(): it may fail before or
\* after the filename was looked at.
Started(p) ==
  /\ recorder.state \in {"CLOSED", "PAUSED"} /\ stageThere /\ recorder.current = NoPipeline
  /\ p \notin recorder.closed \cup finishing \cup spent /\ recorder.refs < MaxRefs
  /\ Become(RecordAgain([recorder EXCEPT !.current = p, !.hasCount = @ \/ countInName]))
  /\ UNCHANGED <<spent, countInName, stageThere>>

StartFails ==
  /\ recorder.state \in {"CLOSED", "PAUSED"} /\ stageThere /\ recorder.current = NoPipeline
  /\ \E seen \in BOOLEAN : Become([recorder EXCEPT !.hasCount = @ \/ (seen /\ countInName)])
  /\ UNCHANGED <<spent, countInName, stageThere>>

Paused(skipped) ==
  /\ recorder.state = "RECORDING"
  /\ Become(Pause(recorder, skipped))
  /\ UNCHANGED <<spent, countInName, stageThere>>

Closed(skipped) ==
  /\ recorder.state \in {"PAUSED", "RECORDING"}
  /\ Become(Close(recorder, skipped))
  /\ UNCHANGED <<spent, countInName, stageThere>>

\* recorder_set_filename(); the frame rate and the pipeline alike.
PropertySet(skipped) ==
  /\ Alive
  /\ Become(IF recorder.current # NoPipeline THEN Close(recorder, skipped) ELSE recorder)
  /\ countInName' \in BOOLEAN
  /\ UNCHANGED <<spent, stageThere>>

\* recorder_set_stage() to NULL
StageDestroyed(skipped) ==
  /\ Alive /\ stageThere /\ stageThere' = FALSE
  /\ Become(IF recorder.current # NoPipeline THEN Close(recorder, skipped) ELSE recorder)
  /\ UNCHANGED <<spent, countInName>>

\* The stage is painted.
StagePainted(skipped) ==
  /\ Alive /\ stageThere
  /\ Become(Paint(recorder, skipped))
  /\ UNCHANGED <<spent, countInName, stageThere>>

\* recorder_redraw_timeout()
RedrawTimeout ==
  /\ Alive /\ recorder.redrawTimer
  /\ Become([recorder EXCEPT !.redrawTimer = FALSE])
  /\ UNCHANGED <<spent, countInName, stageThere>>

\* recorder_pipeline_bus_watch(): the end of the stream of a closed pipeline
PipelineEnded(p) ==
  /\ Alive /\ p \in finishing
  /\ finishing' = finishing \ {p} /\ spent' = spent \cup {p}
  /\ UNCHANGED <<recorder, countInName, stageThere>>

\* recorder_pipeline_bus_watch(): an error of the current pipeline, which
\* recorder_pipeline_closed() forgets before it closes the recording.
PipelineFailed(p, skipped) ==
  /\ Alive /\ p = recorder.current
  /\ Become(Close([recorder EXCEPT !.current = NoPipeline], skipped))
  /\ spent' = spent \cup {p}
  /\ UNCHANGED <<countInName, stageThere>>

RecorderNext ==
  \/ Resumed \/ StartFails \/ RedrawTimeout
  \/ \E p \in Pipelines : Started(p) \/ PipelineEnded(p)
  \/ \E skipped \in BOOLEAN :
       \/ Paused(skipped) \/ Closed(skipped) \/ PropertySet(skipped)
       \/ StageDestroyed(skipped) \/ StagePainted(skipped)
       \/ \E p \in Pipelines : PipelineFailed(p, skipped)

RecorderSpec == RecorderInit /\ [][RecorderNext]_recorderVars

-----------------------------------------------------------------------------
RecorderTypeOK ==
  /\ recorder \in RecorderType
  /\ finishing \subseteq Pipelines /\ spent \subseteq Pipelines
  /\ {countInName, stageThere} \subseteq BOOLEAN

\* While it records, the recorder has a pipeline that takes frames, and none is
\* given to a pipeline that was told the end, although pause() and close() paint
\* once more and old pipelines finish meanwhile.
RecordingFeedsPipeline ==
  /\ recorder.state = "RECORDING" => recorder.current \in Pipelines \ (recorder.closed \cup spent)
  /\ ~recorder.late

\* A recording that is closed leaves no timeout and no repaint function behind,
\* not even those that its last frame starts; one that is paused keeps at most
\* the timeout of the last frame.
ClosedIsQuiet ==
  Alive => /\ (recorder.pointerTimer \/ recorder.repaintHook) => recorder.state = "RECORDING"
           /\ recorder.state = "CLOSED" => ~recorder.redrawTimer /\ recorder.current = NoPipeline

\* A pipeline is fed while it records and only then, and a recorder that is closed leaves
\* nothing running.
RecordingIsSound == RecorderTypeOK /\ RecordingFeedsPipeline /\ ClosedIsQuiet

-----------------------------------------------------------------------------
CONSTANTS
  StageWidths,    \* sizes of the stage, as the kB of a frame
  MemoryTarget,   \* kB, memory_target
  MaxFrames,      \* bound on the frames in the source
  Positions,      \* places of the pointer
  CursorShapes,
  NoCursor,
  MaxXEvents,     \* bound on the X events on their way
  FileNames,      \* bound on the count and on the unique part of a file name
  NamePatterns    \* what the templates hold: subsets of {"u", "c"}

ASSUME CaptureAssumption ==
  /\ StageWidths \subseteq Nat \ {0} /\ StageWidths # {} /\ {MemoryTarget, MaxFrames, MaxXEvents, FileNames} \subseteq Nat
  /\ NoCursor \notin CursorShapes
  /\ NamePatterns \subseteq SUBSET {"u", "c"}

VARIABLES
  captures,       \* which of the three is looked at
  source,         \* the sources and what the recorder knows of them, see SourceType
  pointer,        \* the pointer and what the recorder knows of it, see PointerType
  outfile         \* the files and what the recorder remembers of them, see OutfileType

captureVars == <<captures, source, pointer, outfile>>

Frame == [cost : StageWidths, caps : StageWidths]
Marker == [cost |-> 0, caps |-> 0]               \* behind the last frame

SourceType ==
  [stage : StageWidths, width : StageWidths,    \* of the stage, and stage_width
   recording : BOOLEAN,
   open : BOOLEAN, caps : StageWidths,          \* current_pipeline and the caps of its source
   queue : Seq(Frame \cup {Marker}),
   popped : SUBSET Frame, ended : BOOLEAN,      \* what the thread took and has not accounted for; it met the marker
   used : Int,                                  \* memory_used of the source, kB
   idle : BOOLEAN, timer : BOOLEAN,             \* memory_used_update_idle, update_memory_used_timeout
   watched : BOOLEAN,                           \* notify::memory-used is connected, the source is in pipelines
   known : Int]                                 \* memory_used of the recorder

PointerType ==
  [where : {"stage", "child", "outside"}, at : Positions, shape : CursorShapes,
   events : Seq([kind : {"enter", "leave", "motion", "notify"}, at : Positions]),
   have : BOOLEAN, drawnAt : Positions, image : CursorShapes \cup {NoCursor},
   queued : BOOLEAN]

OutfileType ==
  [files : SUBSET [u : 0 .. FileNames, c : 0 .. FileNames], count : 0 .. FileNames,
   unique : 0 .. FileNames + 1,                 \* FileNames + 1 while nothing is picked
   overwrote : BOOLEAN, hangs : BOOLEAN]

-----------------------------------------------------------------------------
\* Frames

Cost(frames) == FoldLeft(LAMBDA sum, f : sum + f.cost, 0, frames)
InSource(s) == Cost(s.queue) + Cost(SetToSeq(s.popped))

\* shell_recorder_src_update_memory_used(), with the mutex
Account(s, delta) == [s EXCEPT !.used = @ + delta, !.idle = TRUE]

\* recorder_update_memory_used(): of the pipelines that are in the list
UpdateMemoryUsed(s) == [s EXCEPT !.known = IF s.watched THEN s.used ELSE 0]

\* shell_recorder_src_add_buffer(): with the caps of now
AddBuffer(s) ==
  LET counted == Account(s, s.width)
  IN [counted EXCEPT !.queue = Append(@, [cost |-> s.width, caps |-> s.caps])]

\* recorder_draw_buffer_meter()
DrawBufferMeter(s) == UpdateMemoryUsed(s)

\* recorder_on_stage_paint() with recorder_record_frame(): no frame beyond 13/16
\* of the target, nor soon after the last one.
StagePaint(s, soon) ==
  LET full == s.known > (MemoryTarget * 13) \div 16
      fed == IF s.recording /\ ~full /\ ~soon THEN AddBuffer(s) ELSE s
  IN IF s.recording \/ fed.known # 0 THEN DrawBufferMeter(fed) ELSE fed

Other == UNCHANGED <<captures, pointer, outfile>>
Frames == captures = "frames" /\ Other

\* recorder_pipeline_add_source(), recorder_pipeline_add_sink(): when a step
\* fails nothing of the pipeline is kept.
SourceAdded ==
  /\ Frames /\ ~source.open /\ ~source.watched
  /\ \/ UNCHANGED source
     \/ source' = [source EXCEPT !.open = TRUE, !.recording = TRUE, !.caps = source.width, !.queue = <<>>, !.popped = {},
                                 !.ended = FALSE, !.used = 0, !.idle = FALSE, !.watched = TRUE]

StageIsPainted ==
  /\ Frames /\ Len(source.queue) < MaxFrames
  /\ \E soon \in BOOLEAN : source' = StagePaint(source, soon)

\* recorder_pipeline_set_caps()
PipelineSetCaps(s) == [s EXCEPT !.caps = s.width]

\* recorder_on_stage_notify_size(), with recorder_update_size()
NotifySize ==
  /\ Frames
  /\ \E w \in StageWidths \ {source.stage} :
       LET s == [source EXCEPT !.stage = w, !.width = w]
       IN source' = IF s.open THEN PipelineSetCaps(s) ELSE s

\* recorder_close_pipeline() after a pause, with its last frame: the marker goes
\* behind the frames.
SourceClosed ==
  /\ Frames /\ source.open /\ Len(source.queue) < MaxFrames
  /\ \E soon \in BOOLEAN :
       LET s == StagePaint(source, soon)
       IN source' = [s EXCEPT !.open = FALSE, !.recording = FALSE, !.queue = Append(s.queue, Marker)]

\* The streaming thread, shell_recorder_src_create(): it takes a frame, or ends,
\* and accounts for the frame with a step of its own.
ThreadPops ==
  /\ Frames /\ source.popped = {} /\ ~source.ended /\ source.queue # <<>>
  /\ source' = [source EXCEPT !.queue = Tail(@), !.ended = Head(source.queue) = Marker,
                              !.popped = {Head(source.queue)} \ {Marker}]
ThreadAccounts ==
  /\ Frames
  /\ \E f \in source.popped : source' = [Account(source, -f.cost) EXCEPT !.popped = {}]

\* shell_recorder_src_memory_used_update_idle(), and recorder_pipeline_on_memory_used_changed()
MemoryUsedIdle ==
  /\ Frames /\ source.idle
  /\ source' = [source EXCEPT !.idle = FALSE, !.timer = @ \/ source.watched]

\* recorder_update_memory_used_timeout(): the stage is painted, without a frame.
MemoryUsedTimeout ==
  /\ Frames /\ source.timer
  /\ source' = UpdateMemoryUsed([source EXCEPT !.timer = FALSE])

\* The end of the stream: recorder_pipeline_closed()
StreamEnds ==
  /\ Frames /\ source.ended /\ source.watched
  /\ source' = [source EXCEPT !.watched = FALSE, !.idle = FALSE]

-----------------------------------------------------------------------------
\* The pointer

Told(p, kinds, at) == [p EXCEPT !.events = @ \o [i \in 1 .. Len(kinds) |-> [kind |-> kinds[i], at |-> at]]]
Pointing == captures = "pointer" /\ UNCHANGED <<captures, source, outfile>>
RoomFor(n) == Len(pointer.events) + n <= MaxXEvents

\* The X server: crossings that are virtual are not told, a child takes the pointer.
PointerMoves ==
  /\ Pointing /\ RoomFor(1)
  /\ \E w \in {"stage", "child", "outside"}, p \in Positions :
       /\ <<w, p>> # <<pointer.where, pointer.at>>
       /\ LET kinds == CASE w = "stage" /\ pointer.where = "stage" -> <<"motion">>
                         [] w = "stage" /\ pointer.where # "stage" -> <<"enter">>
                         [] w # "stage" /\ pointer.where = "stage" -> <<"leave">>
                         [] OTHER -> <<>>
          IN pointer' = Told([pointer EXCEPT !.where = w, !.at = p], kinds, p)
CursorChanges ==
  /\ Pointing /\ RoomFor(1)
  /\ \E c \in CursorShapes \ {pointer.shape} : pointer' = Told([pointer EXCEPT !.shape = c], <<"notify">>, pointer.at)

\* recorder_queue_redraw()
QueueRedraw(p) == [p EXCEPT !.queued = TRUE]

\* recorder_event_filter()
EventFilter(p, e) ==
  CASE e.kind = "notify" -> QueueRedraw([p EXCEPT !.image = NoCursor])
    [] e.kind = "motion" -> QueueRedraw([p EXCEPT !.drawnAt = e.at])
    [] OTHER -> QueueRedraw([p EXCEPT !.have = (e.kind = "enter"), !.drawnAt = e.at])

XEventCame ==
  /\ Pointing /\ pointer.events # <<>>
  /\ pointer' = EventFilter([pointer EXCEPT !.events = Tail(@)], Head(pointer.events))

\* recorder_update_pointer(), from its timeout
UpdatePointer ==
  /\ Pointing /\ ~pointer.have /\ pointer.drawnAt # pointer.at
  /\ pointer' = QueueRedraw([pointer EXCEPT !.drawnAt = pointer.at])

\* recorder_fetch_cursor_image()
FetchCursorImage(p) == [p EXCEPT !.image = p.shape]

\* recorder_idle_redraw(), and recorder_draw_cursor() for the frame that follows
DrawCursor ==
  /\ Pointing /\ pointer.queued
  /\ LET drawn == IF pointer.image = NoCursor THEN FetchCursorImage(pointer) ELSE pointer
     IN pointer' = [drawn EXCEPT !.queued = FALSE]

-----------------------------------------------------------------------------
\* The file

\* recorder_open_outfile(): names until one is free; that is looked at only where
\* the count is in the name.
Named(pattern, u, c) == [u |-> IF "u" \in pattern THEN u ELSE 0, c |-> IF "c" \in pattern THEN c ELSE 0]

\* increment_unique(): a unique part that was picked is tried alone, though it
\* is the empty one (0) that is remembered after that.
Picked(o) == o.unique <= FileNames
UniqueParts(o) == IF Picked(o) THEN {o.unique} ELSE 0 .. FileNames

OpenOutfile(o, pattern) ==
  LET next == o.count + 1
      free == {u \in UniqueParts(o) : "c" \in pattern => Named(pattern, u, next) \notin o.files}
      least == CHOOSE u \in free : \A v \in free : u <= v
      name == Named(pattern, least, next)
  IN IF free # {}
     THEN [o EXCEPT !.count = next, !.unique = IF Picked(o) THEN 0 ELSE least, !.files = @ \cup {name}, !.overwrote = @ \/ name \in o.files]
     ELSE [o EXCEPT !.count = next, !.hangs = ~Picked(o) /\ "u" \notin pattern]

OutfileOpened ==
  /\ captures = "outfile" /\ ~outfile.hangs /\ outfile.count < FileNames
  /\ \E pattern \in NamePatterns : outfile' = OpenOutfile(outfile, pattern)
  /\ UNCHANGED <<captures, source, pointer>>

\* A session with another recorder finds the files of the earlier ones.
NextSession ==
  /\ captures = "outfile" /\ outfile.count > 0
  /\ outfile' = [outfile EXCEPT !.count = 0, !.unique = FileNames + 1, !.hangs = FALSE]
  /\ UNCHANGED <<captures, source, pointer>>

-----------------------------------------------------------------------------
\* recorder_get_initial_cursor_position() finds a pointer over the stage, and
\* not over a child of it.
CaptureInit ==
  /\ captures \in {"frames", "pointer", "outfile"}
  /\ LET w == CHOOSE x \in StageWidths : \A y \in StageWidths : x <= y
         p == CHOOSE x \in Positions : TRUE
         c == CHOOSE x \in CursorShapes : TRUE
     IN /\ source = [stage |-> w, width |-> w, recording |-> FALSE, open |-> FALSE, caps |-> w, queue |-> <<>>, popped |-> {}, ended |-> FALSE,
                     used |-> 0, idle |-> FALSE, timer |-> FALSE, watched |-> FALSE, known |-> 0]
        /\ pointer = [where |-> "stage", at |-> p, shape |-> c, events |-> <<>>, have |-> TRUE, drawnAt |-> p,
                      image |-> NoCursor, queued |-> FALSE]
  /\ outfile = [files |-> {}, count |-> 0, unique |-> FileNames + 1, overwrote |-> FALSE, hangs |-> FALSE]

CaptureNext ==
  \/ SourceAdded \/ StageIsPainted \/ NotifySize \/ SourceClosed
  \/ ThreadPops \/ ThreadAccounts \/ MemoryUsedIdle \/ MemoryUsedTimeout \/ StreamEnds
  \/ PointerMoves \/ CursorChanges \/ XEventCame \/ UpdatePointer \/ DrawCursor
  \/ OutfileOpened \/ NextSession

-----------------------------------------------------------------------------
\* Types
CaptureTypeOK == source \in SourceType /\ pointer \in PointerType /\ outfile \in OutfileType

\* What the source says of its memory is what it holds, whichever thread was
\* there last, and the recorder hears of it: only a change that is on its way
\* tells them apart while frames are held.  (What an earlier source left behind
\* is seen to by the next paint.)
MemoryIsCounted ==
  /\ source.used = InSource(source)
  /\ source.watched /\ source.used # 0 /\ source.known # source.used => source.idle \/ source.timer

\* Frames never take more than the target and one frame more, although the
\* encoder may stall: there is no flow control behind the source ("arbitrary
\* amounts of memory may be used", shell-recorder-src.c).
MemoryIsBounded ==
  InSource(source) <= (MemoryTarget * 13) \div 16 + (CHOOSE x \in StageWidths : \A y \in StageWidths : y <= x)

\* "The buffer contents must match the GstCaps" (shell-recorder-src.c), with
\* which they were put into the queue, whatever became of the stage since.
FramesMatchCaps ==
  \A n \in DOMAIN source.queue : source.queue[n].cost = source.queue[n].caps

\* Once the events have arrived, the recorder draws the cursor of now where the
\* pointer is, or asks where it is.
CursorIsCurrent ==
  pointer.events = <<>> =>
    /\ pointer.have <=> pointer.where = "stage"
    /\ pointer.have => pointer.drawnAt = pointer.at
    /\ pointer.image \in {NoCursor, pointer.shape}

\* A recording does not replace an earlier one and finds a name, with the
\* templates that the shell uses.
RecordingsAreKept == ~outfile.overwrote /\ ~outfile.hangs
=============================================================================
