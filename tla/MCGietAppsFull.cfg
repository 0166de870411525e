\* Every script, up to three in a row, on 2x1 grids whose cluster 1 is full or empty.
CONSTANTS
  XSize = 2  YSize = 1  NProcs = 2  XWidth = 1  YWidth = 1
  PaddrWidth = 4  PageWidth = 1  RamBase = 0  RamSize = 4
  Empty = Empty  Nil = Nil
  PsegNames = {}  VsegNames = {}  Prefix15 <- MCPrefix15
  NameLen = 8  NoName = Empty  None = Nil  NotFound <- MCNotFound
  RamBases = {}  PeriphBases = {}  PeriphTypes = {}  PeriphTypesAt <- MCAnyPlace  Subtypes = {}
  IsrTypes = {}  SrcIds = {}  Channels = {}  IrqChannels = {}
  ProcXY = {}  LpIds = {}  GlobalXY = {}  VsegXY = {}  TaskXY = {}
  VBases = {}  VLengths = {}  VTypes = {}  BinPaths = {}
  MaxPsegs = 0  MaxProcs = 0  MaxIrqs = 0  MaxGlobals = 0
  MaxVspaces = 0  MaxVsegs = 0  MaxTasks = 0
  Apps <- MCAllApps  ProcCounts <- MCFullOrLastEmpty  MaxApps = 3
SPECIFICATION AppsSpec
INVARIANTS TypeOK AppsEncode AppVsegsDisjoint TaskOnProc
