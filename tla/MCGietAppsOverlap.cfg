\* convol on a 5x4 grid of clusters with one processor each.
CONSTANTS
  XSize = 5  YSize = 4  NProcs = 1  XWidth = 3  YWidth = 2
  PaddrWidth = 8  PageWidth = 1  RamBase = 0  RamSize = 4
  Empty = Empty  Nil = Nil
  PsegNames = {}  VsegNames = {}  Prefix15 <- MCPrefix15
  NameLen = 8  NoName = Empty  None = Nil  NotFound <- MCNotFound
  RamBases = {}  PeriphBases = {}  PeriphTypes = {}  PeriphTypesAt <- MCAnyPlace  Subtypes = {}
  IsrTypes = {}  SrcIds = {}  Channels = {}  IrqChannels = {}
  ProcXY = {}  LpIds = {}  GlobalXY = {}  VsegXY = {}  TaskXY = {}
  VBases = {}  VLengths = {}  VTypes = {}  BinPaths = {}
  MaxPsegs = 0  MaxProcs = 0  MaxIrqs = 0  MaxGlobals = 0
  MaxVspaces = 0  MaxVsegs = 0  MaxTasks = 0
  Apps = {"convol"}  ProcCounts <- MCFull  MaxApps = 1
SPECIFICATION AppsSpec
INVARIANTS AppVsegsDisjoint
