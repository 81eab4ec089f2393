----------------------------- MODULE SoundStreams -----------------------------
(***************************************************************************)
(* What GvcMixerControl keeps of the objects of the sound server, one of a *)
(* kind at a time: a stream with its volume, muted and port, pushed to the *)
(* server while others change it there, and the indicator of the panel     *)
(* that shows it (volume.js); the profile of a card; and the default sink  *)
(* that the saved streams are moved to.  The server takes what it is asked *)
(* in order.  The three do not share state.                                *)
(***************************************************************************)
EXTENDS Integers, SequencesExt, FiniteSetsExt

CONSTANTS
  VolumeMax,       \* PA_VOLUME_NORM, in steps of the scroll wheel
  DeviceVolumes,   \* volumes, one number for each channel, that others choose
  Profiles, Outputs, SavedStreams, NoOutput,
  SoundTurns       \* bound on what the user and other programs do

ASSUME SoundAssumption ==
  /\ VolumeMax \in Nat /\ SoundTurns \in Nat /\ NoOutput \notin Outputs
  /\ \A v \in DeviceVolumes : v # <<>> /\ \A i \in DOMAIN v : v[i] \in 0 .. VolumeMax

VARIABLES
  device,      \* the server's object, see DeviceType
  stream,      \* what the control knows of it
  level,       \* the indicator
  capturing,   \* programs that record, as the control knows
  cardState,   \* a card, see CardType
  defaults,    \* the default sink and the saved streams, see DefaultsType
  toSound, fromSound,   \* what is on its way to the server and back
  soundPart,   \* which of the three runs
  soundTurns

streamVars == <<device, stream, level, capturing>>
soundVars == <<streamVars, cardState, defaults, toSound, fromSound, soundTurns, soundPart>>

StreamKinds == {"sink", "source", "sinkInput", "role"}
Shown == {"sink", "source"}            \* the kinds that the indicator shows
Ports == {"speaker", "phones"}

DeviceType ==
  [kind : StreamKinds, there : BOOLEAN, volume : DeviceVolumes, muted : BOOLEAN,
   port : Ports, monitor : BOOLEAN, event : BOOLEAN]

Loudest(volume) == Max(ToSet(volume))

\* pa_cvolume_scale()
Scaled(volume, to) ==
  [i \in DOMAIN volume |-> IF Loudest(volume) = 0 THEN to ELSE (volume[i] * to) \div Loudest(volume)]

-----------------------------------------------------------------------------
\* GvcMixerStream

\* gvc_channel_map_new_from_pa_channel_map() and a stream over it
NewStream(info) ==
  [there |-> TRUE, volume |-> [i \in DOMAIN info.volume |-> VolumeMax], muted |-> FALSE,
   port |-> "none", event |-> FALSE, pushing |-> FALSE]

\* gvc_mixer_stream_set_volume(): the channels keep their proportion.
SetVolume(s, to) == [s EXCEPT !.volume = Scaled(@, to)]

\* gvc_mixer_stream_set_is_muted()
SetIsMuted(s, muted) == [s EXCEPT !.muted = muted]

\* gvc_mixer_stream_set_port()
SetPort(s, port) == [s EXCEPT !.port = port]

\* gvc_mixer_stream_is_running()
IsRunning(s) == s.there /\ s.pushing

HeardOf(s, info) ==
  SetIsMuted(SetVolume(IF s.there THEN s ELSE NewStream(info), Loudest(info.volume)), info.muted)

\* update_sink()
UpdateSinkStream(s, info) ==
  IF IsRunning(s) THEN s
  ELSE [SetPort(HeardOf(s, info), info.port) EXCEPT !.volume = info.volume]

\* update_source(): of the channels it takes the loudest one only.
UpdateSource(s, info) ==
  IF info.monitor \/ IsRunning(s) THEN s ELSE SetPort(HeardOf(s, info), info.port)

\* update_sink_input()
UpdateSinkInput(s, info) ==
  IF IsRunning(s) THEN s ELSE [HeardOf(s, info) EXCEPT !.event = info.event]

\* update_event_role_stream()
UpdateEventRole(s, info) == HeardOf(s, info)

\* _pa_ext_stream_restore_read_cb(): a server that has saved no volume of the events
\* gets one stream all the same.
RestoreRead(s, info) ==
  IF info.there THEN UpdateEventRole(s, info)
  ELSE IF s.there THEN s
  ELSE UpdateEventRole(s, [info EXCEPT !.volume = <<VolumeMax>>, !.muted = FALSE])

Updated(s, info) ==
  CASE info.kind = "role" -> RestoreRead(s, info)
    [] info.kind # "role" /\ ~info.there -> s
    [] info.kind = "sink" /\ info.there -> UpdateSinkStream(s, info)
    [] info.kind = "source" /\ info.there -> UpdateSource(s, info)
    [] OTHER -> UpdateSinkInput(s, info)

-----------------------------------------------------------------------------
\* The indicator

Level == [bound : BOOLEAN, slider : 0 .. VolumeMax, icon : {"muted", "low", "medium", "high"}, shown : BOOLEAN]

\* _volumeToIcon()
VolumeToIcon(volume) ==
  IF volume <= 0 THEN "muted"
  ELSE LET n == (3 * volume) \div VolumeMax + 1 IN IF n < 2 THEN "low" ELSE IF n >= 3 THEN "high" ELSE "medium"

\* _mutedChanged()
MutedChanged(l, s) ==
  [l EXCEPT !.slider = IF s.muted THEN 0 ELSE Loudest(s.volume),
            !.icon = IF device.kind # "sink" THEN @ ELSE IF s.muted THEN "muted" ELSE VolumeToIcon(Loudest(s.volume))]

\* _volumeChanged(): the slider of a muted stream moves as well.
VolumeChanged(l, s) ==
  [l EXCEPT !.slider = Loudest(s.volume),
            !.icon = IF device.kind # "sink" \/ s.muted THEN @ ELSE VolumeToIcon(Loudest(s.volume))]

\* _readInput() when there is no source
ReadNoInput(l) == [l EXCEPT !.bound = FALSE, !.shown = FALSE]

\* _readOutput()
ReadStream(l, s) ==
  IF s.there THEN VolumeChanged(MutedChanged([l EXCEPT !.bound = TRUE], s), s)
  ELSE IF device.kind = "source" THEN ReadNoInput(l)
  ELSE [l EXCEPT !.bound = FALSE, !.slider = 0, !.icon = "muted"]

\* _maybeShowInput(): programs that control the volume do not count.
MaybeShowInput(l, recording) ==
  [l EXCEPT !.shown = device.kind = "source" /\ l.bound /\ recording \ {"control"} # {}]

\* What the indicator hears while update_sink() and the like change the stream: first
\* the volume, then muted, and of a sink the channels at last.
Informed(l, old, new) ==
  IF device.kind \notin Shown \/ old = new THEN l
  ELSE IF ~old.there THEN ReadStream(MaybeShowInput(l, capturing), new)
  ELSE LET scaled == SetVolume(old, Loudest(new.volume))
           first == IF scaled.volume # old.volume THEN VolumeChanged(l, scaled) ELSE l
           second == IF new.muted # old.muted THEN MutedChanged(first, new) ELSE first
       IN IF new.volume # scaled.volume THEN VolumeChanged(second, new) ELSE second

-----------------------------------------------------------------------------
Order(kind, volume, muted, port) == [kind |-> kind, volume |-> volume, muted |-> muted, port |-> port]
AskInfo == Order("info", <<>>, FALSE, "none")

\* What each class asks of the server to push the volume, to change muted and the port:
\* gvc-mixer-sink.c, gvc-mixer-source.c
SinkOrders(s, muted, port) ==
  [push |-> Order("volume", s.volume, FALSE, "none"), mute |-> Order("mute", <<>>, muted, "none"),
   port |-> <<Order("port", <<>>, FALSE, port)>>]

SourceOrders(s, muted, port) ==
  [push |-> Order("volume", s.volume, FALSE, "none"), mute |-> Order("mute", <<>>, muted, "none"),
   port |-> <<Order("port", <<>>, FALSE, port)>>]

\* gvc-mixer-sink-input.c: there are no ports to change.
SinkInputOrders(s, muted) ==
  [push |-> Order("volume", s.volume, FALSE, "none"), mute |-> Order("mute", <<>>, muted, "none"), port |-> <<>>]

\* update_settings() of gvc-mixer-event-role.c: either writes both, the other one as the
\* control knows it.
RoleOrders(s, muted) ==
  [push |-> Order("restore", s.volume, s.muted, "none"), mute |-> Order("restoreMuted", s.volume, muted, "none"), port |-> <<>>]

Orders(s, muted, port) ==
  CASE device.kind = "sink" -> SinkOrders(s, muted, port)
    [] device.kind = "source" -> SourceOrders(s, muted, port)
    [] device.kind = "sinkInput" -> SinkInputOrders(s, muted)
    [] OTHER -> RoleOrders(s, muted)

VolumeOrder(s) == Orders(s, FALSE, "none").push
MutedOrder(s, muted) == Orders(s, muted, "none").mute

\* gvc_mixer_stream_push_volume(): nothing is pushed of the stream of an event.
Pushed(s) == IF s.event THEN s ELSE [s EXCEPT !.pushing = TRUE]
PushOrders(s) == IF s.event THEN <<>> ELSE <<VolumeOrder(s)>>

SoundTurn == soundTurns < SoundTurns /\ soundTurns' = soundTurns + 1

\* _sliderChanged()
SliderMoved(to) ==
  /\ device.kind \in Shown /\ level.bound /\ SoundTurn
  /\ \E set \in {SetVolume(stream, to)} :
       /\ stream' = Pushed(set)
       /\ level' = VolumeChanged([level EXCEPT !.slider = to], set)
       /\ toSound' = toSound \o (IF (to = 0) # stream.muted THEN <<MutedOrder(set, to = 0)>> ELSE <<>>)
                             \o PushOrders(set)
  /\ UNCHANGED <<device, capturing, cardState, defaults, fromSound>>

\* _onScrollEvent()
Scrolled(up) ==
  /\ device.kind = "sink" /\ level.bound /\ SoundTurn
  /\ \E to \in {IF up THEN Min({VolumeMax, Loudest(stream.volume) + 1}) ELSE Max({0, Loudest(stream.volume) - 1})} :
     \E set \in {SetVolume(stream, to)} :
       /\ stream' = Pushed(set)
       /\ level' = IF set.volume = stream.volume THEN level ELSE VolumeChanged(level, set)
       /\ toSound' = toSound \o (IF up \/ (to = 0 /\ ~stream.muted) THEN <<MutedOrder(set, ~up)>> ELSE <<>>)
                             \o PushOrders(set)
  /\ UNCHANGED <<device, capturing, cardState, defaults, fromSound>>

\* A caller sets the volume of a stream that the indicator does not show, and pushes it.
CallerSets(to) ==
  /\ device.kind \notin Shown /\ stream.there /\ SoundTurn
  /\ stream' = Pushed(SetVolume(stream, to))
  /\ toSound' = toSound \o PushOrders(SetVolume(stream, to))
  /\ UNCHANGED <<device, level, capturing, cardState, defaults, fromSound>>

\* gvc_mixer_stream_change_is_muted()
CallerMutes(muted) ==
  /\ stream.there /\ SoundTurn
  /\ toSound' = Append(toSound, MutedOrder(stream, muted))
  /\ UNCHANGED <<streamVars, cardState, defaults, fromSound>>

\* gvc_mixer_stream_change_port()
ChangePort(port) ==
  /\ stream.there /\ SoundTurn
  /\ toSound' = toSound \o Orders(stream, FALSE, port).port
  /\ UNCHANGED <<streamVars, cardState, defaults, fromSound>>

\* What the server says of the object; [kind |-> "info"] answers a request.
Says(kind) == [kind |-> kind, info |-> device, program |-> "none"]
SaysProgram(kind, p) == [kind |-> kind, info |-> device, program |-> p]

\* _pa_context_get_sink_info_cb() and the like
InfoReceived ==
  /\ fromSound # <<>> /\ Head(fromSound).kind = "info" /\ fromSound' = Tail(fromSound)
  /\ \E new \in {Updated(stream, Head(fromSound).info)} :
       stream' = new /\ level' = Informed(level, stream, new)
  /\ UNCHANGED <<device, capturing, cardState, defaults, toSound, soundTurns>>

\* _pa_context_subscribe_cb() of a change, or of the stream that is there no more
Subscribed ==
  /\ fromSound # <<>> /\ Head(fromSound).kind = "changed" /\ fromSound' = Tail(fromSound)
  /\ toSound' = Append(toSound, AskInfo)
  /\ UNCHANGED <<streamVars, cardState, defaults, soundTurns>>

\* remove_sink(), remove_source() and remove_sink_input(): the stream leaves its table, and
\* an operation that runs is forgotten with it.
Removed(s) == [s EXCEPT !.there = FALSE, !.pushing = FALSE]

\* remove_stream()
RemoveStream ==
  /\ fromSound # <<>> /\ Head(fromSound).kind = "removed" /\ fromSound' = Tail(fromSound)
  /\ stream' = Removed(stream)
  /\ level' = IF stream.there THEN MaybeShowInput(ReadStream(level, stream'), capturing) ELSE level
  /\ UNCHANGED <<device, capturing, cardState, defaults, toSound, soundTurns>>

\* update_source_output() of one that is new
UpdateSourceOutput ==
  /\ fromSound # <<>> /\ Head(fromSound).kind = "records" /\ fromSound' = Tail(fromSound)
  /\ capturing' = capturing \cup {Head(fromSound).program}
  /\ level' = MaybeShowInput(level, capturing')
  /\ UNCHANGED <<device, stream, cardState, defaults, toSound, soundTurns>>

\* remove_source_output()
RemoveSourceOutput ==
  /\ fromSound # <<>> /\ Head(fromSound).kind = "stops" /\ fromSound' = Tail(fromSound)
  /\ capturing' = capturing \ {Head(fromSound).program}
  /\ level' = MaybeShowInput(level, capturing')
  /\ UNCHANGED <<device, stream, cardState, defaults, toSound, soundTurns>>

\* The operation that the control has started last is over.
PushEnds ==
  /\ fromSound # <<>> /\ Head(fromSound).kind = "pushed" /\ fromSound' = Tail(fromSound)
  /\ stream' = [stream EXCEPT !.pushing = @ /\ (\/ \E o \in ToSet(toSound) : o.kind \in {"volume", "restore"}
                                                \/ \E a \in ToSet(Tail(fromSound)) : a.kind = "pushed")]
  /\ UNCHANGED <<device, level, capturing, cardState, defaults, toSound, soundTurns>>

\* The server takes an order: first it answers, then it tells of what has changed.
DeviceAnswers ==
  /\ toSound # <<>> /\ toSound' = Tail(toSound) /\ Head(toSound).kind \in {"info", "volume", "restore", "restoreMuted", "mute", "port"}
  /\ LET o == Head(toSound)
         new == CASE o.kind = "volume" -> [device EXCEPT !.volume = o.volume]
                  [] o.kind \in {"restore", "restoreMuted"} -> [device EXCEPT !.there = TRUE, !.volume = o.volume, !.muted = o.muted]
                  [] o.kind = "mute" -> [device EXCEPT !.muted = o.muted]
                  [] o.kind = "port" -> [device EXCEPT !.port = o.port]
                  [] OTHER -> device
     IN /\ device' = IF device.there \/ device.kind = "role" THEN new ELSE device
        /\ fromSound' = fromSound
             \o (IF o.kind = "info" THEN <<Says("info")>>
                 ELSE IF o.kind \in {"volume", "restore"} THEN <<[Says("pushed") EXCEPT !.info = device']>> ELSE <<>>)
             \o (IF device' # device THEN <<[Says("changed") EXCEPT !.info = device']>> ELSE <<>>)
  /\ UNCHANGED <<stream, level, capturing, cardState, defaults, soundTurns>>

\* Other programs change the object, or it goes.
DeviceChanges ==
  /\ device.there /\ SoundTurn
  /\ \/ \E v \in DeviceVolumes : Len(v) = Len(device.volume) /\ device' = [device EXCEPT !.volume = v]
     \/ \E muted \in BOOLEAN : device' = [device EXCEPT !.muted = muted]
  /\ device' # device
  /\ fromSound' = Append(fromSound, Says("changed"))
  /\ UNCHANGED <<stream, level, capturing, cardState, defaults, toSound>>

DeviceGoes ==
  /\ device.there /\ device.kind # "role" /\ SoundTurn
  /\ device' = [device EXCEPT !.there = FALSE]
  /\ fromSound' = Append(fromSound, Says("removed"))
  /\ UNCHANGED <<stream, level, capturing, cardState, defaults, toSound>>

ProgramRecords(p) ==
  /\ device.kind = "source" /\ SoundTurn
  /\ \E kind \in {"records", "stops"} : fromSound' = Append(fromSound, SaysProgram(kind, p))
  /\ UNCHANGED <<streamVars, cardState, defaults, toSound>>

StreamInit ==
  /\ device \in {d \in DeviceType :
       /\ (d.monitor => d.kind = "source") /\ (d.event => d.kind = "sinkInput")
       /\ (d.there \/ d.kind = "role") /\ (d.kind = "role" <=> Len(d.volume) = 1)
       /\ ~d.muted /\ d.port = "speaker"}
  /\ stream = [there |-> FALSE, volume |-> <<VolumeMax>>, muted |-> FALSE, port |-> "none",
               event |-> FALSE, pushing |-> FALSE]
  /\ level = [bound |-> FALSE, slider |-> 0, icon |-> "muted", shown |-> FALSE]
  /\ capturing = {}

StreamNext ==
  \/ \E to \in 0 .. VolumeMax : SliderMoved(to) \/ CallerSets(to)
  \/ \E b \in BOOLEAN : Scrolled(b) \/ CallerMutes(b)
  \/ \E port \in Ports : ChangePort(port)
  \/ InfoReceived \/ Subscribed \/ RemoveStream \/ UpdateSourceOutput \/ RemoveSourceOutput \/ PushEnds
  \/ DeviceAnswers \/ DeviceChanges \/ DeviceGoes
  \/ \E p \in {"control", "recorder"} : ProgramRecords(p)

-----------------------------------------------------------------------------
\* The profile of a card

CardType ==
  [active : Profiles,                  \* at the server
   profile : Profiles \cup {"none"},   \* as the control knows
   target : Profiles \cup {"none"},    \* target_profile
   op : Nat,                           \* profile_op: the number of the operation, 0 if there is none
   asked : Nat]

Operation(kind, n, p) == [kind |-> kind, n |-> n, profile |-> p]

\* update_card(): the profiles of a card are those it had when it was seen first.
UpdateCard ==
  /\ fromSound # <<>> /\ Head(fromSound).kind = "card" /\ fromSound' = Tail(fromSound)
  /\ cardState' = [cardState EXCEPT !.profile = Head(fromSound).profile]
  /\ UNCHANGED <<streamVars, defaults, toSound, soundTurns>>

CardSubscribed ==
  /\ fromSound # <<>> /\ Head(fromSound).kind = "cardChanged" /\ fromSound' = Tail(fromSound)
  /\ toSound' = Append(toSound, Operation("askCard", 0, "none"))
  /\ UNCHANGED <<streamVars, cardState, defaults, soundTurns>>

\* gvc_mixer_card_change_profile(): a request for the profile it has, or waits for, is
\* no request; any other cancels the one that runs, the answer to which is not heard.
ChangeProfile(p) ==
  /\ cardState.profile \notin {p, "none"} /\ cardState.target # p /\ SoundTurn
  /\ cardState' = [cardState EXCEPT !.target = p, !.op = cardState.asked + 1, !.asked = @ + 1]
  /\ toSound' = Append(toSound, Operation("setProfile", cardState.asked + 1, p))
  /\ fromSound' = SelectSeq(fromSound, LAMBDA a : a.kind # "profileSet")
  /\ UNCHANGED <<streamVars, defaults>>

\* _pa_context_set_card_profile_by_index_cb()
ProfileSet ==
  /\ fromSound # <<>> /\ Head(fromSound).kind = "profileSet" /\ fromSound' = Tail(fromSound)
  /\ cardState' = [cardState EXCEPT !.profile = IF Head(fromSound).profile = "none" THEN @ ELSE cardState.target,
                                    !.target = "none", !.op = 0]
  /\ UNCHANGED <<streamVars, defaults, toSound, soundTurns>>

\* The server sets the profile or, when the card cannot, fails.
CardAnswers(can) ==
  /\ toSound # <<>> /\ Head(toSound).kind \in {"askCard", "setProfile"} /\ toSound' = Tail(toSound)
  /\ LET o == Head(toSound)
         set == o.kind = "setProfile" /\ can
     IN /\ cardState' = [cardState EXCEPT !.active = IF set THEN o.profile ELSE @]
        /\ fromSound' = fromSound
             \o (IF o.kind = "askCard" THEN <<Operation("card", 0, cardState.active)>>
                 ELSE IF o.n # cardState.op THEN <<>>
                 ELSE <<Operation("profileSet", o.n, IF can THEN o.profile ELSE "none")>>)
             \o (IF set /\ o.profile # cardState.active THEN <<Operation("cardChanged", 0, "none")>> ELSE <<>>)
  /\ UNCHANGED <<streamVars, defaults, soundTurns>>

CardChanges(p) ==
  /\ cardState.active # p /\ SoundTurn
  /\ cardState' = [cardState EXCEPT !.active = p]
  /\ fromSound' = Append(fromSound, Operation("cardChanged", 0, "none"))
  /\ UNCHANGED <<streamVars, defaults, toSound>>

CardNext ==
  \/ UpdateCard \/ CardSubscribed \/ ProfileSet
  \/ \E p \in Profiles : ChangeProfile(p) \/ CardChanges(p)
  \/ \E can \in BOOLEAN : CardAnswers(can)

-----------------------------------------------------------------------------
\* The default sink and the saved streams

DefaultsType ==
  [sink : Outputs \cup {NoOutput},                          \* the server's default
   saved : [SavedStreams -> Outputs \cup {NoOutput}],       \* where it restores each
   alive : SUBSET Outputs,                                  \* streams that are not finalized
   newDefault : Outputs \cup {NoOutput},                    \* new_default_stream
   weak : SUBSET Outputs]                                   \* streams that clear it when they go

Move(kind, entry, sink) == [kind |-> kind, entry |-> entry, sink |-> sink]

\* gvc_mixer_control_set_default_sink()
SetDefaultSink(s) ==
  /\ s \in defaults.alive /\ SoundTurn
  /\ defaults' = [defaults EXCEPT !.newDefault = s, !.weak = @ \cup {s}]
  /\ toSound' = toSound \o <<Move("setDefault", "none", s), Move("readSaved", "none", NoOutput)>>
  /\ UNCHANGED <<streamVars, cardState, fromSound>>

\* gvc_mixer_control_stream_restore_cb(), once for each saved stream
StreamRestore ==
  /\ fromSound # <<>> /\ Head(fromSound).kind = "saved" /\ fromSound' = Tail(fromSound)
  /\ toSound' = IF defaults.newDefault = NoOutput THEN toSound
                ELSE Append(toSound, Move("writeSaved", Head(fromSound).entry, defaults.newDefault))
  /\ UNCHANGED <<streamVars, cardState, defaults, soundTurns>>

\* gvc_mixer_stream_finalize(), and the weak pointers of g_object_add_weak_pointer()
StreamFinalized(s) ==
  /\ s \in defaults.alive /\ SoundTurn
  /\ defaults' = [defaults EXCEPT !.alive = @ \ {s}, !.weak = @ \ {s},
                                  !.newDefault = IF s \in defaults.weak THEN NoOutput ELSE @]
  /\ UNCHANGED <<streamVars, cardState, toSound, fromSound>>

SavedAnswers ==
  /\ toSound # <<>> /\ Head(toSound).kind \in {"setDefault", "readSaved", "writeSaved"} /\ toSound' = Tail(toSound)
  /\ LET o == Head(toSound) IN
       /\ defaults' = [defaults EXCEPT !.sink = IF o.kind = "setDefault" THEN o.sink ELSE @,
                                       !.saved = [e \in SavedStreams |-> IF o.kind = "writeSaved" /\ o.entry = e THEN o.sink ELSE @[e]]]
       /\ fromSound' = IF o.kind # "readSaved" THEN fromSound
                       ELSE fromSound \o SetToSeq({Move("saved", e, NoOutput) : e \in SavedStreams})
  /\ UNCHANGED <<streamVars, cardState, soundTurns>>

DefaultsNext ==
  \/ StreamRestore \/ SavedAnswers
  \/ \E s \in Outputs : SetDefaultSink(s) \/ StreamFinalized(s)

-----------------------------------------------------------------------------
SoundInit ==
  /\ StreamInit
  /\ \E p \in Profiles : cardState = [active |-> p, profile |-> "none", target |-> "none", op |-> 0, asked |-> 0]
  /\ defaults = [sink |-> NoOutput, saved |-> [e \in SavedStreams |-> NoOutput], alive |-> Outputs,
                 newDefault |-> NoOutput, weak |-> {}]
  /\ soundPart \in {"stream", "card", "defaults"}
  /\ toSound = CASE soundPart = "stream" -> <<AskInfo>>
                 [] soundPart = "card" -> <<Operation("askCard", 0, "none")>>
                 [] OTHER -> <<>>
  /\ fromSound = <<>> /\ soundTurns = 0

SoundNext ==
  /\ UNCHANGED soundPart
  /\ \/ soundPart = "stream" /\ StreamNext
     \/ soundPart = "card" /\ CardNext
     \/ soundPart = "defaults" /\ DefaultsNext

SoundSpec == SoundInit /\ [][SoundNext]_soundVars

-----------------------------------------------------------------------------
SoundTypeOK ==
  /\ device.kind \in StreamKinds /\ level \in Level /\ capturing \subseteq {"control", "recorder"}
  /\ \A i \in DOMAIN stream.volume : stream.volume[i] \in 0 .. VolumeMax
  /\ cardState \in CardType /\ defaults \in DefaultsType

SoundIsQuiet == toSound = <<>> /\ fromSound = <<>>

\* When nothing is on its way the stream is as loud as the server has it, whoever has
\* changed it last and whatever was told while it was being pushed; of a sink each
\* channel is.  The stream of an event is not pushed, and monitors are no streams.
StreamSettles ==
  soundPart = "stream" /\ SoundIsQuiet =>
    /\ stream.there = (device.kind = "role" \/ (device.there /\ ~device.monitor))
    /\ stream.there /\ device.there /\ ~stream.event => Loudest(stream.volume) = Loudest(device.volume)
    /\ stream.there /\ device.kind = "sink" => stream.volume = device.volume
    /\ stream.there /\ device.there /\ device.kind = "role" => stream.muted = device.muted

\* The indicator reads the stream that is there: its icon is that of the volume, or of a
\* muted stream whose slider may be at either place; and the input is shown to who records.
IndicatorShows ==
  /\ level.bound = (stream.there /\ device.kind \in Shown)
  /\ level.bound => /\ level.slider \in (IF stream.muted THEN {0, Loudest(stream.volume)} ELSE {Loudest(stream.volume)})
                    /\ device.kind = "sink" =>
                         level.icon = IF stream.muted THEN "muted" ELSE VolumeToIcon(Loudest(stream.volume))
  /\ level.shown => level.bound /\ "recorder" \in capturing

\* When nothing is on its way the card has the profile of the server and waits for none,
\* although operations are cancelled, fail, and race the changes of others.
ProfileSettles ==
  soundPart = "card" /\ SoundIsQuiet =>
    cardState.profile = cardState.active /\ cardState.target = "none" /\ cardState.op = 0

\* The new default sink is alive; and when nothing is on its way all that was saved has
\* been moved to it, although an earlier move may have run into it.
SavedStreamsFollow ==
  /\ defaults.newDefault \in defaults.alive \cup {NoOutput}
  /\ soundPart = "defaults" /\ SoundIsQuiet /\ defaults.newDefault # NoOutput =>
       defaults.sink = defaults.newDefault /\ \A e \in SavedStreams : defaults.saved[e] = defaults.newDefault
=============================================================================
