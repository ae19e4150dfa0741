SPECIFICATION ResourcesSpec
CONSTANTS
  ConnectorList <- MCConnectors
  NumCrtcs = 2
  Possible <- MCPossible
  TileGroup <- MCTileGroup
  FullRes <- MCFullRes
  BootCrtc <- MCBootCrtc
  GetFails = TRUE
  s1 = s1
  s2 = s2
  f1 = f1
  f2 = f2
  Sizes = {s1, s2}
  NoSize = NoSize
  Formats = {f1, f2}
  Invalid = Invalid
  MaxLength = 3
  b1 = b1
  b2 = b2
  b3 = b3
  BufferNames = {b1, b2}
  MaxFds = 2
  FormatTables <- TwoTables
  ForceLinear = TRUE
  igpu = igpu
  dgpu = dgpu
  usb = usb
  CardList <- MCCardList
  Panels <- MCPanels
  BootVga = {dgpu}
  Evdi = {usb}
  DeviceLists <- MCDeviceLists
  RequestLists <- MCRequests
  AnlandEnvs = {FALSE, TRUE}
  MaxUdev = 2
  mouse = mouse
  combo = combo
  pen = pen
  marker = marker
  stylus = stylus
  InputDevices = {mouse, combo, pen}
  Caps <- MCCaps
  Tools = {marker, stylus}
  UniqueTools = {stylus}
  MaxInput = 2
  Buffers = {b1, b2, b3}
  NoFB = NoFB
  MaxEvents = 2
  Refusals = {"modeset"}
  Tearing = FALSE
  Hotplug = FALSE
  VtSwitch = FALSE
  RequestInFrame = FALSE
  BusyPresent = FALSE
INVARIANTS
  OneFlip
  ScanoutLocked
  NoOutputStarved
  OneOutputPerTiledMonitor
  RingAsConfigured
  RollbackUndoesNext
  GbmFdsOwned
  ScanoutIsRenderable
  GpusTracked
  PrimaryRendersItself
  KnownIsTold
  SeatButtonAgrees
PROPERTIES
  CrtcStable
