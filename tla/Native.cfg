SPECIFICATION NativeSpec
CONSTANTS
  i1 = i1
  l1 = l1
  s1 = s1
  s2 = s2
  na = na
  nb = nb
  r1 = r1
  r2 = r2
  k1 = k1
  c1 = c1
  e1 = e1
  st1 = st1
  u1 = u1
  u2 = u2
  u3 = u3
  bad1 = bad1
  m1 = m1
  m2 = m2
  x1 = x1
  x2 = x2
  Ids = {i1}
  Prefixed = {i1}
  Windows = {w1, w2}
  Launches = {l1}
  Nobody = Nobody
  MaxApps = 3
  MaxUpsets = 2
  Kinds <- MCKinds
  AppActions = ag
  WinActions = {wg1, wg2}
  ActionsOf <- MCActionsOf
  Observers = {ob}
  WatchedGroups = {"win"}
  MaxWatchers = 1
  MaxWaiters = 4
  AppWindows = {w1, w2, w3}
  MaxUserTime = 3
  UsedApps = {a1, a2}
  WindowBacked = {a2}
  NoFocus = NoFocus
  ScoreMax = 4
  ScoreMin = 2
  IdleCount = 1
  ElapsedWidth = 3
  MaxClock = 2
  Pipelines = {p1, p2, p3}
  NoPipeline = NoPipeline
  MaxRefs = 3
  Textures = {t1, t2, t3}
  Icons = {k1, k2}
  Uris = {uri1}
  Raws = {raw1}
  Unkeyed = {k2}
  NoData = NoData
  MaxThemes = 1
  Sinks = {s1, s2}
  Names = {na, nb}
  SinkName <- MCSinkName
  NoSink = NoSink
  NoName = NoName
  MaxUpheavals = 1
  RequestIds = {r1, r2}
  ConnectionOf <- MCConnectionOf
  SecretKeys = {k1, k2}
  OwnedKeys = {k1}
  MaxAsked = 3
  XIcons = {x1, x2}
  AlphaIcons = {x2}
  Palettes <- MCPalettes
  MaxSockets = 3
  MaxTrayEvents = 3
  Calendars = {c1}
  Ranges <- MCRanges
  MaxEdits = 2
  EventNames = {e1}
  StatisticNames = {st1}
  Signature <- MCSignature
  ArgSize <- MCArgSize
  HeaderSize = 2
  BlockSize = 7
  DeltaLimit = 1
  Readings = {0, 1}
  Functions_ = {f1, f2}
  MaxPerfClock = 2
  MaxTold = 2
  MaxWork = 1
  Intervals = {1, 2}
  MaxSerial = 3
  MaxIdle = 3
  MaxEvents = 2
  Uuids = {u1, u2}
  PerUser = {u1}
  OutOfDate = {}
  BrokenInit = {}
  Faulty = {u2}
  InvalidUuids = {bad1}
  Pages <- MCPages
  MaxRestarts = 1
  CountryCodes <- MCCountryCodes
  Inside <- MCInside
  Attributes <- MCAttributes
  MaxElements = 6
  MaxOf <- MCMaxOf
  MaxBlanks = 0
  Mounts = {m1, m2}
  RootOf <- MCRootOf
  Entries <- MCEntries
  MaxMounted = 2
  AppIds = {x1, x2}
  Versions <- MCVersions
  Score <- MCScore
  People <- MCPeople
  Items <- MCItems
  Searches <- MCSearches
  MaxChanges = 1
  MaxArrived = 1
  StageWidths = {2, 3}
  MemoryTarget = 8
  MaxFrames = 5
  Positions = {1, 2}
  CursorShapes = {"arrow", "hand"}
  NoCursor = NoCursor
  MaxXEvents = 2
  FileNames = 3
  NamePatterns <- MCPatterns
  o1 = o1
  o2 = o2
  VolumeMax = 3
  DeviceVolumes <- MCDeviceVolumes
  Profiles = {"f1", "f2"}
  Outputs = {o1, o2}
  SavedStreams = {"d1", "d2"}
  NoOutput = NoOutput
  SoundTurns = 2
INVARIANTS
  AppsOwnWindows
  ScoresAreKept
  RecordingIsSound
  TexturesArrive
  MixerFollowsServer
  
  PeersAgree
  
  
  ListsAreComplete
\* Several of the components stop at a bound.
CHECK_DEADLOCK FALSE
