SPECIFICATION ChainSpec
CONSTANTS
  Capacity = 16
  MinCount = 1
  CountMod = 65536
  DefaultCategory = cDefault
  MdCategory = cMD
  EventCategory = cEvent
  Categories <- AllCategories
  EventKinds = {}
  StoreOrders = {}
  Rebindings = {}
  TickSteps = {1}
  MaxTick = 1000
  MaxPending = 16
  Garbage = Garbage
  Numerals <- AllNumerals
  Draws <- AllDraws
  Captures <- AllCaptures
  Ethers <- Ipv4OrNot
  VersionIhls <- VersionsIhls
  Protocols <- UdpOrNot
  UdpLengths <- SomeUdpLengths
  Counts <- SomeCounts
  Lengths <- SomeLengths
  Types <- SomeTypes
  ChainLines <- AllChainLines
  CommandLines <- AllCommandLines
  Tables <- AllTables
  Hashes <- AllHashes
  MaxRuns = 3
INVARIANT
  ToolsTypeOK
  ReadAsWritten
  PacketsReadBack
  ReadsStayInside
  RecordingFits
  EndsWhole
  PrintedIsRecorded
