----------------------------- MODULE CalendarEvents -----------------------------
(***************************************************************************)
(* The events of the calendar: evolution-data-server has them, the         *)
(* calendar server loads those of the range that the shell asked for and   *)
(* listens to what changes, the shell keeps what it was answered last.     *)
(* Three processes: each can die or change while another waits for it.     *)
(***************************************************************************)
EXTENDS Integers, Sequences, FiniteSets

CONSTANTS
  Calendars,      \* the sources of appointments; each has one appointment
  Ranges,         \* range of days -> the calendars whose appointment lies in it
  MaxEdits        \* bound: how often an appointment, the selection or the server changes

ASSUME CalendarAssumption == (\A r \in DOMAIN Ranges : Ranges[r] \subseteq Calendars) /\ MaxEdits \in Nat

VARIABLES
  content,        \* calendar -> the version of its appointment, 0 if it has none
  selected,       \* the sources that the user selected
  edits,          \* how many changes there were
  serverUp,       \* the calendar server owns its name
  clients,        \* source_data->clients
  restarting,     \* source_data->timeout_id: a backend died
  range,          \* app->since and app->until: {} or {a range}
  cached,         \* app->appointments
  live,           \* app->live_views
  cacheInvalid,   \* app->cache_invalid
  changedTimer,   \* app->changed_timeout_id is set
  loading,        \* {} or {[answer]}: app_load_events() has its objects and starts its views
  notices,        \* what the views have for the server
  asking,         \* the calls GetEvents under way: [range, force]
  telling,        \* the replies and signals under way to the shell
  curRequest,     \* _curRequestBegin, _curRequestEnd: {} or {a range}
  lastRequest,    \* _lastRequestBegin, _lastRequestEnd
  events,         \* _events: calendar -> version
  unheard,        \* history: the calendars that changed after they were read and before they had a view, or whose backend died
  untold          \* history: the server loaded new events and did not say so

serverVars == <<clients, restarting, range, cached, live, cacheInvalid, changedTimer, loading, notices>>
shellVars == <<curRequest, lastRequest, events>>
calendarVars == <<content, selected, edits, serverUp, serverVars, asking, telling, shellVars, unheard, untold>>

NoEvents == [c \in Calendars |-> 0]
Visible(r, versions) == [c \in Calendars |-> IF c \in Ranges[r] THEN versions[c] ELSE 0]

ServerStarts ==
  /\ clients = {} /\ restarting = FALSE /\ range = {} /\ cached = NoEvents /\ live = {}
  /\ cacheInvalid = FALSE /\ changedTimer = FALSE /\ loading = {} /\ notices = <<>>

CalendarInit ==
  /\ content = NoEvents /\ selected \in SUBSET Calendars /\ edits = 0
  /\ serverUp = TRUE /\ ServerStarts
  /\ asking = <<>> /\ telling = <<>>
  /\ curRequest = {} /\ lastRequest = {} /\ events = NoEvents
  /\ unheard = {} /\ untold = FALSE

-----------------------------------------------------------------------------
\* evolution-data-server

\* An appointment is added, modified or removed; the views on its calendar say so.
AppointmentEdited(c) ==
  /\ edits < MaxEdits /\ edits' = edits + 1
  /\ \E v \in {0, edits + 1} \ {content[c]} :
       /\ content' = [content EXCEPT ![c] = v]
       /\ LET kind == IF content[c] = 0 THEN "added" ELSE IF v = 0 THEN "removed" ELSE "modified"
          IN notices' = IF c \in live /\ loading = {} THEN Append(notices, [of |-> c, kind |-> kind]) ELSE notices
  /\ unheard' = IF loading # {} THEN unheard \cup {c} ELSE unheard
  /\ UNCHANGED <<selected, serverUp, clients, restarting, range, cached, live, cacheInvalid, changedTimer, loading, asking, telling,
                 shellVars, untold>>

-----------------------------------------------------------------------------
\* The calendar server: it does nothing else while it waits for an answer.

Idle == serverUp /\ loading = {}

\* app_load_events(): the views go, and with them what they had to say; the
\* calendars are opened, read and watched, as far as none of this fails.
LoadEvents(from, r, answer) ==
  /\ \E opened \in SUBSET from, viewed \in SUBSET from :
       /\ viewed \subseteq opened
       /\ cached' = [c \in Calendars |-> IF c \in opened THEN Visible(r, content)[c] ELSE 0]
       /\ live' = viewed
  /\ notices' = <<>> /\ loading' = {[answer |-> answer]}
  /\ unheard' = {} /\ cacheInvalid' = FALSE
  /\ UNCHANGED changedTimer

\* calendar_sources_load_esource_list(): the clients of the selected sources; a
\* change makes the server load the events again (on_appointment_sources_changed),
\* which nobody is told of.
LoadSources(now) ==
  /\ clients' = selected'
  /\ IF selected' # now /\ range # {} THEN LoadEvents(selected', CHOOSE r \in range : TRUE, FALSE)
     ELSE UNCHANGED <<cached, live, notices, loading, unheard, cacheInvalid, changedTimer>>

\* calendar_sources_selected_sources_notify(), once the sources were loaded
SelectionChanged ==
  /\ edits < MaxEdits /\ edits' = edits + 1
  /\ selected' \in SUBSET Calendars \ {selected}
  /\ Idle
  /\ IF range = {} THEN UNCHANGED <<clients, cached, live, notices, loading, unheard, cacheInvalid, changedTimer>>
     ELSE LoadSources(clients)
  /\ UNCHANGED <<content, serverUp, restarting, range, asking, telling, shellVars, untold>>

\* backend_died_cb()
BackendDied(c) ==
  /\ edits < MaxEdits /\ edits' = edits + 1
  /\ Idle /\ c \in clients
  /\ clients' = clients \ {c} /\ live' = live \ {c}
  /\ restarting' = TRUE
  /\ unheard' = unheard \cup {c}
  /\ UNCHANGED <<content, selected, serverUp, range, cached, cacheInvalid, changedTimer, loading, notices, asking, telling,
                 shellVars, untold>>

\* backend_restart()
BackendRestart ==
  /\ Idle /\ restarting
  /\ restarting' = FALSE /\ selected' = selected
  /\ LoadSources(clients)
  /\ UNCHANGED <<content, edits, serverUp, range, asking, telling, shellVars, untold>>

\* The views are there: the events are what GetEvents is answered with.
ViewsStarted ==
  /\ serverUp /\ \E l \in loading :
       /\ telling' = IF l.answer THEN Append(telling, [what |-> "events", events |-> cached]) ELSE telling
       /\ untold' = ~l.answer
  /\ loading' = {}
  /\ UNCHANGED <<content, selected, edits, serverUp, clients, restarting, range, cached, live, cacheInvalid, changedTimer, notices,
                 asking, shellVars, unheard>>

\* handle_method_call()
NeedsLoad(call) == range # {call.range} \/ call.force \/ cacheInvalid

\* handle_method_call() GetEvents; calendar_sources_get_appointment_sources() loads the
\* sources the first time.
GetEvents ==
  /\ Idle /\ asking # <<>>
  /\ asking' = Tail(asking) /\ range' = {Head(asking).range}
  /\ clients' = IF range = {} THEN selected ELSE clients
  /\ IF NeedsLoad(Head(asking)) THEN /\ LoadEvents(clients', Head(asking).range, TRUE)
                                     /\ UNCHANGED <<telling, untold>>
     ELSE /\ telling' = Append(telling, [what |-> "events", events |-> cached])
          /\ untold' = FALSE
          /\ UNCHANGED <<cached, live, notices, loading, unheard, cacheInvalid, changedTimer>>
  /\ UNCHANGED <<content, selected, edits, serverUp, restarting, shellVars>>

\* on_objects_added() ignores what it knows; on_objects_modified(), on_objects_removed()
ObjectsChanged ==
  /\ Idle /\ notices # <<>>
  /\ notices' = Tail(notices)
  /\ IF Head(notices).kind = "added" /\ cached[Head(notices).of] # 0 THEN UNCHANGED <<cacheInvalid, changedTimer>>
     ELSE cacheInvalid' = TRUE /\ changedTimer' = TRUE
  /\ UNCHANGED <<content, selected, edits, serverUp, clients, restarting, range, cached, live, loading, asking, telling, shellVars, unheard,
                 untold>>

\* on_app_schedule_changed_cb(): the signal Changed
ChangedTimeout ==
  /\ Idle /\ changedTimer
  /\ changedTimer' = FALSE
  /\ telling' = Append(telling, [what |-> "Changed"])
  /\ UNCHANGED <<content, selected, edits, serverUp, clients, restarting, range, cached, live, cacheInvalid, loading, notices, asking,
                 shellVars, unheard, untold>>

\* The server dies, also in a call: whoever waits for it gets an error.
ServerDies ==
  /\ edits < MaxEdits /\ edits' = edits + 1
  /\ serverUp /\ serverUp' = FALSE
  /\ telling' = telling \o [i \in 1 .. Len(asking) + (IF \E l \in loading : l.answer THEN 1 ELSE 0) |-> [what |-> "error"]]
                \o <<[what |-> "vanished"]>>
  /\ asking' = <<>>
  /\ clients' = {} /\ restarting' = FALSE /\ range' = {} /\ cached' = NoEvents /\ live' = {}
  /\ cacheInvalid' = FALSE /\ changedTimer' = FALSE /\ loading' = {} /\ notices' = <<>>
  /\ unheard' = {} /\ untold' = FALSE
  /\ UNCHANGED <<content, selected, shellVars>>

-----------------------------------------------------------------------------
\* DBusEventSource

\* requestRange(), _loadEvents(): only a forced call starts a server that is not
\* there; another one fails at once.
RequestRange ==
  /\ Len(asking) + Len(telling) < 2
  /\ \E r \in DOMAIN Ranges, force \in BOOLEAN :
       /\ force \/ lastRequest # {r}
       /\ curRequest' = {r} /\ lastRequest' = {r}
       /\ asking' = IF serverUp \/ force THEN Append(asking, [range |-> r, force |-> force]) ELSE asking
       /\ serverUp' = (serverUp \/ force)
       /\ telling' = IF serverUp THEN telling ELSE IF force THEN Append(telling, [what |-> "appeared"]) ELSE Append(telling, [what |-> "error"])
  /\ UNCHANGED <<content, selected, edits, serverVars, events, unheard, untold>>

\* _onEventsReceived(), _onChanged(), _onNameVanished(), _onNameAppeared()
ShellHears ==
  /\ telling # <<>>
  /\ LET m == Head(telling)
         Ask(force) == IF curRequest = {} \/ ~serverUp THEN asking
                       ELSE Append(asking, [range |-> CHOOSE r \in curRequest : TRUE, force |-> force])
     IN /\ events' = CASE m.what = "events" -> m.events [] m.what = "Changed" -> events [] OTHER -> NoEvents
        /\ lastRequest' = IF m.what \in {"vanished", "appeared"} THEN {} ELSE lastRequest
        /\ asking' = CASE m.what = "Changed" -> Ask(FALSE) [] m.what = "appeared" -> Ask(TRUE) [] OTHER -> asking
  /\ telling' = Tail(telling)
  /\ UNCHANGED <<content, selected, edits, serverUp, serverVars, curRequest, unheard, untold>>

CalendarNext ==
  \/ \E c \in Calendars : AppointmentEdited(c) \/ BackendDied(c)
  \/ SelectionChanged \/ BackendRestart \/ ViewsStarted \/ GetEvents \/ ObjectsChanged \/ ChangedTimeout \/ ServerDies
  \/ RequestRange \/ ShellHears

-----------------------------------------------------------------------------
\* Types
CalendarTypeOK ==
  /\ content \in [Calendars -> Nat] /\ cached \in [Calendars -> Nat] /\ events \in [Calendars -> Nat]
  /\ clients \subseteq Calendars /\ live \subseteq Calendars
  /\ Cardinality(loading) <= 1 /\ Cardinality(range) <= 1
  /\ curRequest \subseteq DOMAIN Ranges /\ lastRequest \subseteq curRequest

\* When nothing is under way any more the shell shows the appointments as they
\* are, of the range that it asked for last, for every calendar that the server
\* listens to: no order of edits, timeouts, reloads and deaths leaves a stale one,
\* nor one of a calendar that is not selected.  Three things do, and are set apart: an edit
\* between the reading of a calendar and the start of its view, the death of a backend whose
\* calendar is not selected any more, and a change of the sources, which is not announced.
EventsAreCurrent ==
  (serverUp /\ loading = {} /\ notices = <<>> /\ asking = <<>> /\ telling = <<>> /\ ~changedTimer /\ ~restarting /\ ~untold) =>
    \A r \in curRequest :
      /\ range = {r}
      /\ \A c \in live \ unheard : events[c] = Visible(r, content)[c]
      /\ \A c \in Calendars \ (clients \cup unheard) : events[c] = 0
=================================================================================
