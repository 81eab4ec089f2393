----------------------------- MODULE MixerControl -----------------------------
(***************************************************************************)
(* GvcMixerControl as a client of the sound server: the lists it asks for  *)
(* when it is connected, the events it hears after that, the default sink  *)
(* that the server names, volumes that are being pushed, and the           *)
(* reconnection.  Requests and answers are kept in order by the server.    *)
(* Of the kinds of objects only sinks have contents here; sources are      *)
(* alike.  A stream is named by its index: an id refers to it as long as   *)
(* it is there.                                                            *)
(***************************************************************************)
EXTENDS Integers, SequencesExt

CONSTANTS
  Sinks,          \* indices
  Names,
  SinkName,       \* the name of each
  NoSink, NoName,
  MaxUpheavals    \* bound on what happens to the server and the connection

ASSUME MixerAssumption ==
  /\ SinkName \in [Sinks -> Names]
  /\ NoSink \notin Sinks /\ NoName \notin Names /\ MaxUpheavals \in Nat

VARIABLES
  soundServer,    \* the server: its sinks, those that are muted, the default
  asked,          \* requests on their way to it
  inbox,          \* answers and events on their way back
  mixer,          \* the fields of the control, see MixerType
  ignored,        \* history: sinks an answer about which was ignored
  upheavals

mixerVars == <<soundServer, asked, inbox, mixer, ignored, upheavals>>

MixerType ==
  [state : {"CLOSED", "CONNECTING", "READY", "FAILED"},
   context : {"unconnected", "connecting", "ready", "failed"},
   reconnect : BOOLEAN,               \* reconnect_id
   outstanding : 0 .. 7,              \* n_outstanding
   sinks : SUBSET Sinks, muted : SUBSET Sinks,
   pushing : SUBSET Sinks,            \* change_volume_op is running
   defaultName : Names \cup {NoName},
   defaultSink : Sinks \cup {NoSink}]  \* NoSink: default_sink_is_set is FALSE

ServerType == [sinks : SUBSET Sinks, muted : SUBSET Sinks, default : Names]

\* The server tells its sinks apart by their names.
UniqueNames(sinks) == \A s, t \in sinks : SinkName[s] = SinkName[t] => s = t

MixerInit ==
  /\ soundServer \in {s \in ServerType : UniqueNames(s.sinks) /\ s.muted = {}}
  /\ asked = <<>> /\ inbox = <<>>
  /\ mixer = [state |-> "CLOSED", context |-> "unconnected", reconnect |-> FALSE,
              outstanding |-> 0, sinks |-> {}, muted |-> {}, pushing |-> {},
              defaultName |-> NoName, defaultSink |-> NoSink]
  /\ ignored = {} /\ upheavals = 0

-----------------------------------------------------------------------------
Request(kind, sinks, list) == [kind |-> kind, of |-> sinks, list |-> list]

\* Requests about all objects of a kind, in the order of gvc_mixer_control_ready()
Lists == <<"server", "client", "sink", "source", "sinkInput", "sourceOutput", "card">>

\* dec_outstanding()
DecOutstanding(m) ==
  IF m.outstanding <= 0 THEN m
  ELSE [m EXCEPT !.outstanding = @ - 1, !.state = IF m.outstanding = 1 THEN "READY" ELSE @]

\* update_default_sink_from_name()
UpdateDefaultFromName(m, name) ==
  IF m.defaultName = name THEN m
  ELSE [m EXCEPT !.defaultName = name,
                 !.defaultSink = IF \E s \in m.sinks : SinkName[s] = name
                                 THEN CHOOSE s \in m.sinks : SinkName[s] = name ELSE NoSink]

\* update_sink() of each of the sinks that an answer is about: one whose volume is being
\* pushed is left as it is.
UpdateSinks(m, sinks, muted) ==
  LET heard == sinks \ (m.sinks \cap m.pushing)
      named == {s \in heard : SinkName[s] = m.defaultName}
  IN [m EXCEPT !.sinks = @ \cup sinks, !.muted = (@ \ heard) \cup (heard \cap muted),
               !.defaultSink = IF named # {} THEN CHOOSE s \in named : TRUE ELSE @]

\* Mutant: the default is kept until the server names another.
RemoveSinkKeepsDefault(m, s) ==
  [m EXCEPT !.sinks = @ \ {s}, !.muted = @ \ {s}, !.pushing = @ \ {s}]

\* remove_sink() and remove_stream()
RemoveSink(m, s) ==
  [m EXCEPT !.sinks = @ \ {s}, !.muted = @ \ {s}, !.pushing = @ \ {s},
            !.defaultSink = IF @ = s THEN NoSink ELSE @]

-----------------------------------------------------------------------------
\* gvc_mixer_control_open()
Open ==
  /\ mixer.context = "unconnected" /\ ~mixer.reconnect
  /\ mixer' = [mixer EXCEPT !.context = "connecting", !.state = "CONNECTING"]
  /\ UNCHANGED <<soundServer, asked, inbox, ignored, upheavals>>

\* gvc_mixer_control_ready(): seven requests of which six are counted, and one
\* that is not always supported.
Ready(restore) ==
  /\ mixer.context = "connecting"
  /\ mixer' = [mixer EXCEPT !.context = "ready", !.outstanding = IF restore THEN 7 ELSE 6]
  /\ asked' = [i \in DOMAIN Lists |-> Request(Lists[i], Sinks, TRUE)]
              \o (IF restore THEN <<Request("restore", Sinks, TRUE)>> ELSE <<>>)
  /\ UNCHANGED <<soundServer, inbox, ignored, upheavals>>

\* _pa_context_state_cb() of a context that fails; nothing arrives any more.
ContextFails ==
  /\ mixer.context \in {"connecting", "ready"} /\ upheavals < MaxUpheavals
  /\ upheavals' = upheavals + 1
  /\ mixer' = [mixer EXCEPT !.context = "failed", !.state = "FAILED", !.reconnect = TRUE, !.pushing = {}]
  /\ asked' = <<>> /\ inbox' = <<>>
  /\ UNCHANGED <<soundServer, ignored>>

\* idle_reconnect() and gvc_mixer_control_open()
Reconnect ==
  /\ mixer.reconnect
  /\ mixer' = [mixer EXCEPT !.reconnect = FALSE, !.context = "connecting", !.state = "CONNECTING",
                            !.sinks = {}, !.muted = {}, !.pushing = {}, !.defaultSink = NoSink]
  /\ ignored' = {}
  /\ UNCHANGED <<soundServer, asked, inbox, upheavals>>

\* _pa_context_get_server_info_cb(), _pa_context_get_sink_info_cb() and the like;
\* an answer that is an error is not counted.
AnswerReceived ==
  /\ inbox # <<>> /\ Head(inbox).kind \notin {"removed", "changed", "pushed"}
  /\ LET a == Head(inbox)
         known == CASE a.kind = "server" -> UpdateDefaultFromName(mixer, a.default)
                    [] a.kind = "sink" -> UpdateSinks(mixer, a.of, a.muted)
                    [] OTHER -> mixer
     IN /\ mixer' = IF a.ok THEN DecOutstanding(known) ELSE mixer
        /\ ignored' = IF a.ok /\ a.kind = "sink"
                      THEN (ignored \ a.of) \cup (a.of \cap mixer.pushing) ELSE ignored
  /\ inbox' = Tail(inbox)
  /\ UNCHANGED <<soundServer, asked, upheavals>>

\* _pa_context_subscribe_cb(): what changed is asked about; a removal is that of one sink.
EventReceived ==
  /\ inbox # <<>> /\ Head(inbox).kind \in {"removed", "changed"}
  /\ LET e == Head(inbox) IN
       IF e.kind = "removed"
       THEN (\E s \in e.of : mixer' = RemoveSink(mixer, s)) /\ UNCHANGED asked
       ELSE /\ asked' = Append(asked, IF e.of = {} THEN Request("server", Sinks, FALSE) ELSE Request("sink", e.of, FALSE))
            /\ UNCHANGED mixer
  /\ inbox' = Tail(inbox)
  /\ UNCHANGED <<soundServer, ignored, upheavals>>

\* gvc_mixer_stream_push_volume()
PushVolume(s) ==
  /\ mixer.context = "ready" /\ s \in mixer.sinks /\ upheavals < MaxUpheavals
  /\ upheavals' = upheavals + 1
  /\ mixer' = [mixer EXCEPT !.pushing = @ \cup {s}]
  /\ asked' = Append(asked, Request("volume", {s}, FALSE))
  /\ UNCHANGED <<soundServer, inbox, ignored>>

\* gvc_mixer_stream_is_running() finds the operation done.
PushDone ==
  /\ inbox # <<>> /\ Head(inbox).kind = "pushed"
  /\ mixer' = [mixer EXCEPT !.pushing =
                 {s \in @ : s \notin Head(inbox).of
                            \/ Request("volume", {s}, FALSE) \in ToSet(asked)
                            \/ \E m \in ToSet(Tail(inbox)) : m.kind = "pushed" /\ s \in m.of}]
  /\ inbox' = Tail(inbox)
  /\ UNCHANGED <<soundServer, asked, ignored, upheavals>>

-----------------------------------------------------------------------------
Message(kind, of, list, ok) ==
  [kind |-> kind, of |-> of, list |-> list, ok |-> ok,
   muted |-> IF kind = "sink" THEN of \cap soundServer.muted ELSE {},
   default |-> IF kind = "server" THEN soundServer.default ELSE NoName]

\* The sound server answers the next request.  It has no sink that was removed
\* meanwhile; of a new volume it tells who listens, unless it is the old one.  The
\* module that restores streams may not be loaded.
ServerAnswers(restore, louder) ==
  /\ asked # <<>> /\ asked' = Tail(asked)
  /\ LET r == Head(asked)
         there == r.of \cap soundServer.sinks
     IN inbox' = inbox \o
          (IF r.kind = "volume"
           THEN <<Message("pushed", r.of, FALSE, TRUE)>>
                \o (IF louder /\ there # {} THEN <<Message("changed", there, FALSE, TRUE)>> ELSE <<>>)
           ELSE <<Message(r.kind, there, r.list, (r.of = Sinks \/ there # {}) /\ (r.kind = "restore" => restore))>>)
  /\ UNCHANGED <<soundServer, mixer, ignored, upheavals>>

\* A change of the server; it is told once the control has subscribed.
ServerChanges(server, message) ==
  /\ upheavals < MaxUpheavals /\ upheavals' = upheavals + 1
  /\ soundServer' = server
  /\ inbox' = IF mixer.context = "ready" THEN Append(inbox, message) ELSE inbox
  /\ UNCHANGED <<asked, mixer, ignored>>

SinkPlugged(s) ==
  /\ s \notin soundServer.sinks /\ UniqueNames(soundServer.sinks \cup {s})
  /\ ServerChanges([soundServer EXCEPT !.sinks = @ \cup {s}], Message("changed", {s}, FALSE, TRUE))

SinkUnplugged(s) ==
  /\ s \in soundServer.sinks
  /\ ServerChanges([soundServer EXCEPT !.sinks = @ \ {s}, !.muted = @ \ {s}], Message("removed", {s}, FALSE, TRUE))

SinkMuted(s) ==
  /\ s \in soundServer.sinks \ soundServer.muted
  /\ ServerChanges([soundServer EXCEPT !.muted = @ \cup {s}], Message("changed", {s}, FALSE, TRUE))

DefaultChosen(n) ==
  /\ n # soundServer.default
  /\ ServerChanges([soundServer EXCEPT !.default = n], Message("changed", {}, FALSE, TRUE))

MixerNext ==
  \/ Open \/ (\E restore \in BOOLEAN : Ready(restore)) \/ ContextFails \/ Reconnect
  \/ AnswerReceived \/ EventReceived \/ PushDone
  \/ \E restore, louder \in BOOLEAN : ServerAnswers(restore, louder)
  \/ \E s \in Sinks : PushVolume(s) \/ SinkPlugged(s) \/ SinkUnplugged(s) \/ SinkMuted(s)
  \/ \E n \in Names : DefaultChosen(n)

MixerSpec == MixerInit /\ [][MixerNext]_mixerVars

-----------------------------------------------------------------------------
MixerTypeOK ==
  /\ soundServer \in ServerType /\ mixer \in MixerType
  /\ ignored \subseteq Sinks /\ upheavals \in 0 .. MaxUpheavals

\* The default sink is the one of the name that the server has given, as soon as
\* the control knows it and as long as it is there, whether the name, the sink or
\* a new connection comes first.
DefaultFollowsName ==
  mixer.defaultSink =
    IF \E s \in mixer.sinks : SinkName[s] = mixer.defaultName
    THEN CHOOSE s \in mixer.sinks : SinkName[s] = mixer.defaultName ELSE NoSink

\* The control is ready when what the volume indicator reads is there: although
\* one request less is counted than is sent, and events are answered in between.
ReadyIsComplete ==
  mixer.state = "READY" /\ mixer.context = "ready" =>
    \A m \in ToSet(asked) \cup ToSet(inbox) : m.list => m.kind \in {"card", "restore"}

\* When nothing is on its way the control knows the sinks of the server, its
\* default and what is muted, but for a sink about which an answer came while its
\* volume was being pushed.
SoundServerIsFollowed ==
  mixer.context = "ready" /\ asked = <<>> /\ inbox = <<>> =>
    /\ mixer.sinks = soundServer.sinks
    /\ mixer.defaultName = soundServer.default
    /\ mixer.muted \ ignored = soundServer.muted \ ignored

\* The control, ready or not, shows the sound server: its sinks, the default one by its
\* name, and what is muted; and it is ready when it has all that it asked for.
MixerFollowsServer == MixerTypeOK /\ DefaultFollowsName /\ ReadyIsComplete /\ SoundServerIsFollowed
=============================================================================
