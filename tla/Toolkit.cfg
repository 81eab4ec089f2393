SPECIFICATION ToolkitSpec
CONSTANTS
  panel = panel
  inside1 = inside1
  other = other
  group = group
  rowBox = rowBox
  key1 = key1
  key2 = key2
  key3 = key3
  holder = holder
  held1 = held1
  en1 = en1
  Widgets = {panel, inside1, other}
  Stage = Stage
  Nowhere = Nowhere
  Root = panel
  Roaming = {inside1, other}
  Painted = {panel}
  Tracking = {panel}
  Grabbing = {inside1}
  MaxMoves = 3
  Actors = {group, rowBox, key1, key2, key3, holder, held1}
  Nobody = Nobody
  Kids <- MCKids
  Bins = {holder}
  Box <- MCBox
  Roots = {group, rowBox}
  Hideable = {rowBox, key1, held1}
  Switchable = {rowBox, key3, holder}
  ViewSizes <- MCViewSizes
  Contents <- MCContents
  Policies <- MCPolicies
  Bar = 1
  ParentSheets <- MCParentSheets
  WidgetSheets <- MCWidgetSheets
  Px <- MCPx
  Colors <- MCColors
  Widths <- MCWidths
  Styles <- MCStyles
  PaintSizes <- MCPaintSizes
  Wardrobe <- MCWardrobe
  CanvasSizes <- MCCanvases
  Blurs = {0, 1, 2, 3, 5}
  Sheets <- MCSheets
  SheetWeight <- MCSheetWeight
  Extras = {"x", "y", "z"}
  AppSheets = {"app", "dark"}
  WidgetPaths <- MCWidgetPaths
  PixelUnits = 6
  BoxKids <- MCBoxKids
  BoxLengths = {12, 50, 64, 88, 126}
  BoxSpacings = {0, 12}
  TableKids = {1, 2, 3}
  CellSizes <- MCCellSizes
  TrackCount = 3
  TableLengths = {5, 9, 14}
  TrackSpacing = 1
  Entries_ = {en1}
  HintEntries = {en1}
  PasswordEntries = {en1}
  NoEntry = NoEntry
  Hints = {h1}
  NoHint = NoHint
  MaxPieces = 1
  MaxConversions = 1
  Buttons = {1, 2}
  ButtonMask = {1, 2}
  Toggles = TRUE
  IconNames = {ic1}
  IconSizes = {1, 2}
  DefaultSize = 2
  NoTexture = NoTexture
INVARIANTS
  WidgetsLookRight
  FocusReachesAll
  ViewShowsContent
  NodeReadsSheet
  PaintIsTheStyle
  RulesApply
  RoomIsShared
  ControlsAreCurrent
\* Several of the components stop at a bound.
CHECK_DEADLOCK FALSE
