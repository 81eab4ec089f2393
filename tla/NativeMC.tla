-------------------------------- MODULE NativeMC --------------------------------
(***************************************************************************)
(* The components behind the shell (the C library, its helper programs and *)
(* the JavaScript that uses them) that do not interact, checked side by    *)
(* side: in every behaviour one of them, chosen in the initial state, runs *)
(* and the others rest.                                                    *)
(***************************************************************************)
EXTENDS Applications, AppMenu, AppUsage, Recorder, TextureCache, MixerControl,
        NetworkAgent, TrayIcons, CalendarEvents, PerformanceLog, IdleMonitor,
        ExtensionSystem, MobileProviders, Autorun, Search, SoundStreams, TLC

CONSTANTS i1, l1, s1, s2, na, nb, r1, r2, k1, c1, e1, st1, u1, u2, u3, bad1, m1, m2, x1, x2, o1, o2

VARIABLE part

-----------------------------------------------------------------------------
\* What each component runs on

MCKinds ==
  {[class |-> i1, normal |-> TRUE, launch |-> l1],
   [class |-> Nobody, normal |-> TRUE, launch |-> l1],
   [class |-> Nobody, normal |-> FALSE, launch |-> l1],
   [class |-> "remote", normal |-> TRUE, launch |-> Nobody]}

MCActionsOf == [app |-> {"quit"}, win |-> {"full"}]

MCPatterns == {{"u", "c"}}

MCSinkName == s1 :> na @@ s2 :> nb

MCDeviceVolumes == {<<3, 1>>, <<0, 0>>, <<1>>, <<2>>}

MCConnectionOf == r1 :> "conn" @@ r2 :> "conn"

MCPalettes == {[r \in TrayRoles |-> r], [r \in TrayRoles |-> IF r = "error" THEN "warning" ELSE r]}

MCRanges == [r \in {"april", "may"} |-> IF r = "april" THEN Calendars ELSE {}]

MCSignature == e1 :> "" @@ st1 :> "x"
MCArgSize == [s \in {"", "i", "x"} |-> IF s = "" THEN 0 ELSE IF s = "i" THEN 1 ELSE 2]

MCPages == {[hostname |-> "extensions.gnome.org", protocol |-> "https:"]}

MCCountryCodes == [gb |-> "UK", uk |-> "UK"]
MCMaxOf ==
  [serviceproviders |-> 1, country |-> 2, provider |-> 2, gsm |-> 1, apn |-> 1, cdma |-> 1,
   name |-> 2, username |-> 2, sid |-> 1, dns |-> 1, plan |-> 0]
MCAttributes ==
  [serviceproviders |-> {"format 1.0", "format 2.0"}, country |-> {"gb", "uk", "none"},
   provider |-> {"none"}, name |-> {"none"}, gsm |-> {"none"}, cdma |-> {"none"},
   apn |-> {"none", "internet"}, sid |-> {"1"}, username |-> {"none"}, dns |-> {"none"},
   plan |-> {"none"}]
MCInside ==
  [file |-> {"serviceproviders"}, serviceproviders |-> {"country"}, country |-> {"provider"},
   provider |-> {"name", "gsm", "cdma"}, gsm |-> {"apn"}, cdma |-> {"sid", "username"},
   apn |-> {"name", "username", "dns", "plan"}, plan |-> {}, name |-> {}, sid |-> {},
   username |-> {}, dns |-> {}]

MCRootOf == m1 :> "disc" @@ m2 :> "card"
MCEntries ==
  [disc |-> <<"tracks", "x-content/video">>, tracks |-> <<"x-content/audio", "text/plain">>,
   card |-> <<"x-content/pictures">>]

Entry(n, e, d, k) == [shown |-> TRUE, name |-> n, exec |-> e, description |-> d, keywords |-> k]
MCVersions ==
  x1 :> {Entry(<<"a", "b">>, <<"c">>, <<"b">>, {})}
  @@ x2 :> {Entry(<<"b", " ", "a">>, <<"c", "-", "b", "a">>, <<>>, {<<"a", "b">>}),
            Entry(<<"c">>, <<"c", "a">>, <<>>, {})}
MCScore == x1 :> 1 @@ x2 :> 2
MCPeople ==
  [ann |-> [names |-> {<<"a", "b">>, <<"b">>}, addresses |-> {<<"a">>}],
   bob |-> [names |-> {<<"b">>}, addresses |-> {<<"c", "b", "a">>}]]
MCItems == [doc |-> <<"a", "b">>, pic |-> <<"c", "a">>]
MCSearches == {<< <<"a">> >>, << <<"a", "b">> >>, << <<"b">>, <<"a">> >>, << <<"b", "a">>, <<"a">> >>}

-----------------------------------------------------------------------------
appPartsVars == <<appsVars, orderVars, menuVars, usageVars>>
mediaVars == <<recorderVars, captureVars, cacheVars, mixerVars, soundVars>>
sessionVars == <<agentVars, trayVars, calendarVars>>
innerVars == <<perfVars, idleMonitorVars, extVars>>
readVars == <<mobileVars, autorunVars, searchVars>>
nativeVars == <<part, appPartsVars, mediaVars, sessionVars, innerVars, readVars>>

Components ==
  {"apps", "order", "menu", "usage", "recorder", "capture", "textures", "mixer", "sound", "agent", "tray", "calendar",
   "log", "leisure", "idle", "extensions", "mobile", "autorun", "search"}

\* A component that rests has one of its initial states only.
NativeInit ==
  /\ part \in Components
  /\ AppsInit /\ OrderInit /\ MenuInit /\ UsageInit /\ CacheInit /\ AgentInit /\ PerfInit /\ IdleMonitorInit /\ AutorunInit
  /\ RecorderInit /\ (part # "recorder" => countInName)
  /\ CaptureInit /\ (part # "capture" => captures = "frames")
  /\ MixerInit /\ (part # "mixer" => soundServer = [sinks |-> {}, muted |-> {}, default |-> na])
  /\ SoundInit /\ (part # "sound" => soundPart = "card" /\ cardState.active = "f1" /\ device.kind = "sink" /\ device.volume = <<0, 0>>)
  /\ TrayIconsInit /\ (part # "tray" => palette = [r \in TrayRoles |-> r])
  /\ CalendarInit /\ (part # "calendar" => selected = {})
  /\ ExtensionsInit /\ (part # "extensions" => storedEnabled = {})
  /\ MobileInit /\ (part # "mobile" => reading)
  /\ SearchInit /\ (part # "search" => installed = {} /\ entries[x2].name = <<"c">>)

AppsPart == part = "apps" /\ AppsNext /\ UNCHANGED <<part, orderVars, menuVars, usageVars, mediaVars, sessionVars, innerVars, readVars>>
OrderPart == part = "order" /\ OrderNext /\ UNCHANGED <<part, appsVars, menuVars, usageVars, mediaVars, sessionVars, innerVars, readVars>>
MenuPart == part = "menu" /\ MenuNext /\ UNCHANGED <<part, appsVars, orderVars, usageVars, mediaVars, sessionVars, innerVars, readVars>>
UsagePart == part = "usage" /\ UsageNext /\ UNCHANGED <<part, appsVars, orderVars, menuVars, mediaVars, sessionVars, innerVars, readVars>>

RecorderPart == part = "recorder" /\ RecorderNext /\ UNCHANGED <<part, captureVars, cacheVars, mixerVars, soundVars, appPartsVars, sessionVars, innerVars, readVars>>
CapturePart == part = "capture" /\ CaptureNext /\ UNCHANGED <<part, recorderVars, cacheVars, mixerVars, soundVars, appPartsVars, sessionVars, innerVars, readVars>>
TexturesPart == part = "textures" /\ CacheNext /\ UNCHANGED <<part, recorderVars, captureVars, mixerVars, soundVars, appPartsVars, sessionVars, innerVars, readVars>>
MixerPart == part = "mixer" /\ MixerNext /\ UNCHANGED <<part, recorderVars, captureVars, cacheVars, soundVars, appPartsVars, sessionVars, innerVars, readVars>>
SoundPart == part = "sound" /\ SoundNext /\ UNCHANGED <<part, recorderVars, captureVars, cacheVars, mixerVars, appPartsVars, sessionVars, innerVars, readVars>>

AgentPart == part = "agent" /\ AgentNext /\ UNCHANGED <<part, trayVars, calendarVars, appPartsVars, mediaVars, innerVars, readVars>>
TrayPart == part = "tray" /\ TrayIconsNext /\ UNCHANGED <<part, agentVars, calendarVars, appPartsVars, mediaVars, innerVars, readVars>>
CalendarPart == part = "calendar" /\ CalendarNext /\ UNCHANGED <<part, agentVars, trayVars, appPartsVars, mediaVars, innerVars, readVars>>

\* The log and the work at leisure of shell-global.c share the clock of the module only.
LogPart ==
  /\ part = "log" /\ LogNext /\ Len(perfLog.told') <= MaxTold
  /\ UNCHANGED <<part, leisureVars, idleMonitorVars, extVars, appPartsVars, mediaVars, sessionVars, readVars>>
LeisurePart ==
  /\ part = "leisure" /\ LeisureNext
  /\ UNCHANGED <<part, logVars, idleMonitorVars, extVars, appPartsVars, mediaVars, sessionVars, readVars>>
IdlePart == part = "idle" /\ IdleMonitorNext /\ UNCHANGED <<part, perfVars, extVars, appPartsVars, mediaVars, sessionVars, readVars>>
ExtensionsPart == part = "extensions" /\ ExtensionsNext /\ UNCHANGED <<part, perfVars, idleMonitorVars, appPartsVars, mediaVars, sessionVars, readVars>>

MobilePart == part = "mobile" /\ MobileNext /\ UNCHANGED <<part, autorunVars, searchVars, appPartsVars, mediaVars, sessionVars, innerVars>>
AutorunPart == part = "autorun" /\ AutorunNext /\ UNCHANGED <<part, mobileVars, searchVars, appPartsVars, mediaVars, sessionVars, innerVars>>
SearchPart == part = "search" /\ SearchNext /\ UNCHANGED <<part, mobileVars, autorunVars, appPartsVars, mediaVars, sessionVars, innerVars>>

NativeNext ==
  \/ AppsPart \/ OrderPart \/ MenuPart \/ UsagePart
  \/ RecorderPart \/ CapturePart \/ TexturesPart \/ MixerPart \/ SoundPart
  \/ AgentPart \/ TrayPart \/ CalendarPart
  \/ LogPart \/ LeisurePart \/ IdlePart \/ ExtensionsPart
  \/ MobilePart \/ AutorunPart \/ SearchPart

NativeSpec == NativeInit /\ [][NativeNext]_nativeVars

\* The shell agrees with those it works with across a connection: the icons of the tray with
\* the windows that X clients have docked, and the events of the calendar with those that the
\* calendar server has.
PeersAgree ==
  /\ part = "tray" => TrayIconsTypeOK /\ ShownIsEmbedded
  /\ part = "calendar" => CalendarTypeOK /\ EventsAreCurrent

\* What is put off is not lost: work at leisure is started, and the watches of the idle time
\* know of it.
TimeIsKept ==
  /\ part = "leisure" => LeisureTypeOK /\ LeisureWillCome
  /\ part = "idle" => IdleMonitorTypeOK /\ WatchersKnow

\* What was written is there when it is read: what is logged can be replayed, frames reach the
\* encoder as they were painted and in the file of their recording, and of the files of the
\* providers of mobile broadband and of a volume nothing is left out.
NothingIsLost ==
  /\ part = "log" => LogTypeOK /\ LogIsExact
  /\ part = "capture" => /\ CaptureTypeOK /\ MemoryIsCounted /\ MemoryIsBounded /\ FramesMatchCaps
                         /\ CursorIsCurrent /\ RecordingsAreKept
  /\ part = "mobile" => MobileTypeOK /\ TableIsTheTree
  /\ part = "autorun" => AutorunTypeOK /\ EveryFileCounts /\ NoAnswerLost

\* What the user is shown is what there is: the menu of an application, its
\* windows in the order of their use, the extensions, what a search finds that goes on from an
\* earlier one, and the volume, the profile and the default of the sound server.
ListsAreComplete ==
  /\ part = "menu" => MenuTypeOK /\ ObserversKnow /\ MenuShowsActions
  /\ part = "order" => OrderTypeOK /\ OrderIsKept
  /\ part = "extensions" => ExtensionsTypeOK /\ EnabledRuns /\ PageKnows
  /\ part = "search" => SearchTypeOK /\ SubsearchIsSearch
  /\ part = "sound" => SoundTypeOK /\ StreamSettles /\ IndicatorShows /\ ProfileSettles /\ SavedStreamsFollow
=============================================================================
