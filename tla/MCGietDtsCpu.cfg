\* A 1x2 grid, nprocs = 2 and p_width = 0: the constructor accepts the width.
CONSTANTS
  XSize = 1  YSize = 2  NProcs = 2  XWidth = 1  YWidth = 1  PWidth = 0
  PaddrWidth = 4  PageWidth = 1  RamBase = 0  RamSize = 4
  RAM = RAM  A = A  BMAP = BMAP  BCODE = BCODE  BDATA = BDATA  BSTACK = BSTACK
  KCODE = KCODE  KDATA = KDATA  KINIT = KINIT  Empty = Empty  Nil = Nil
  PsegNames = {RAM}  VsegNames = {A}  Prefix15 <- MCPrefix15
  UseRamdisk = FALSE  NameText <- MCNameText  Head13 <- MCHead13  Head15 <- MCHead15
  BootPlatforms = {}
  NameLen = 8  NoName = Empty  None = Nil
  RamBases = {}  PeriphBases = {}  PeriphTypes = {}  PeriphTypesAt <- MCAnyPlace
  Subtypes = {}  Channels = {}
  IsrTypes = {}  SrcIds = {}  IrqChannels = {}
  ProcXY <- MCProcXYColumn  LpIds = {0, 1}
  GlobalXY = {}  VsegXY = {}  TaskXY = {}
  VBases = {}  VLengths = {}  VTypes = {}  BinPaths = {}
  MaxPsegs = 0  MaxProcs = 2  MaxIrqs = 0  MaxGlobals = 0
  MaxVspaces = 0  MaxVsegs = 0  MaxTasks = 0
SPECIFICATION Spec
INVARIANT CpuIdsDistinct
