\* Software side: RAM psegs, global vsegs, vspaces, vsegs and tasks.
CONSTANTS
  XSize = 2  YSize = 1  NProcs = 1  XWidth = 1  YWidth = 1
  PaddrWidth = 4  PageWidth = 1  RamBase = 0  RamSize = 4
  RAM = RAM  ROM = ROM  A = A  B = B  ELF_BIN = ELF_BIN  Empty = Empty  Nil = Nil
  PsegNames = {RAM}  VsegNames = {A}  Prefix15 <- MCPrefix15
  NameLen = 8  NoName = Empty  None = Nil  NotFound <- MCNotFound
  RamBases = {0, 8}  PeriphBases = {}  PeriphTypes = {}  PeriphTypesAt <- MCAnyPlace  Subtypes = {}
  IsrTypes = {}  SrcIds = {}  Channels = {}  IrqChannels = {}
  ProcXY <- MCProcXY  LpIds = {0}
  GlobalXY <- MCGlobalXY  VsegXY <- MCVsegXY  TaskXY <- MCTaskXY
  VBases = {0}  VLengths = {1}  VTypes = {"ELF"}  BinPaths = {ELF_BIN, Empty}
  MaxPsegs = 2  MaxProcs = 0  MaxIrqs = 0  MaxGlobals = 1
  MaxVspaces = 2  MaxVsegs = 2  MaxTasks = 2
SPECIFICATION Spec
INVARIANTS TypeOK BlobOwnership VspaceRefsLocal VsegPlacement DisciplineEncodes
