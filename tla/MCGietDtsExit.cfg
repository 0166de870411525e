\* A graph without the boot vsegs: the header exporters stop with sys.exit().
CONSTANTS
  XSize = 2  YSize = 1  NProcs = 1  XWidth = 1  YWidth = 1  PWidth = 1
  PaddrWidth = 4  PageWidth = 1  RamBase = 0  RamSize = 4
  RAM = RAM  A = A  BMAP = BMAP  BCODE = BCODE  BDATA = BDATA  BSTACK = BSTACK
  KCODE = KCODE  KDATA = KDATA  KINIT = KINIT  Empty = Empty  Nil = Nil
  PsegNames = {RAM}  VsegNames = {A}  Prefix15 <- MCPrefix15
  UseRamdisk = FALSE  NameText <- MCNameText  Head13 <- MCHead13  Head15 <- MCHead15
  BootPlatforms = {}
  NameLen = 8  NoName = Empty  None = Nil
  RamBases = {}  PeriphBases = {2, 10}  PeriphTypes = {"XCU", "IOC"}  PeriphTypesAt <- MCAnyPlace
  Subtypes = {"BDV"}  Channels = {1}
  IsrTypes = {}  SrcIds = {0}  IrqChannels = {0}
  ProcXY = {}  LpIds = {0}
  GlobalXY = {}  VsegXY = {}  TaskXY = {}
  VBases = {}  VLengths = {}  VTypes = {}  BinPaths = {}
  MaxPsegs = 2  MaxProcs = 0  MaxIrqs = 0  MaxGlobals = 0
  MaxVspaces = 0  MaxVsegs = 0  MaxTasks = 0
SPECIFICATION HeadersSpec
INVARIANT ExitStatusNonZero
