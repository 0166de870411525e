\* coproc on a 2x1 grid whose cluster 0 has no processor.
CONSTANTS
  XSize = 2  YSize = 1  NProcs = 2  XWidth = 1  YWidth = 1
  PaddrWidth = 4  PageWidth = 1  RamBase = 0  RamSize = 4
  Empty = Empty  Nil = Nil
  PsegNames = {}  VsegNames = {}  Prefix15 <- MCPrefix15
  NameLen = 8  NoName = Empty  None = Nil  NotFound <- MCNotFound
  RamBases = {}  PeriphBases = {}  PeriphTypes = {}  PeriphTypesAt <- MCAnyPlace  Subtypes = {}
  IsrTypes = {}  SrcIds = {}  Channels = {}  IrqChannels = {}
  ProcXY = {}  LpIds = {}  GlobalXY = {}  VsegXY = {}  TaskXY = {}
  VBases = {}  VLengths = {}  VTypes = {}  BinPaths = {}
  MaxPsegs = 0  MaxProcs = 0  MaxIrqs = 0  MaxGlobals = 0
  MaxVspaces = 0  MaxVsegs = 0  MaxTasks = 0
  Apps = {"coproc"}  ProcCounts <- MCFirstEmpty  MaxApps = 1
SPECIFICATION AppsSpec
INVARIANTS TaskOnProc
