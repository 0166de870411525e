\* netbsd_dts takes DMA lines from the last XCU met, in any cluster: the
\* XCU is in cluster (0,0), the DMA in cluster (1,0) beside a PIC.
CONSTANTS
  XSize = 2  YSize = 1  NProcs = 1  XWidth = 1  YWidth = 1  PWidth = 1
  PaddrWidth = 4  PageWidth = 1  RamBase = 0  RamSize = 4
  RAM = RAM  A = A  BMAP = BMAP  BCODE = BCODE  BDATA = BDATA  BSTACK = BSTACK
  KCODE = KCODE  KDATA = KDATA  KINIT = KINIT  Empty = Empty  Nil = Nil
  PsegNames = {RAM}  VsegNames = {A}  Prefix15 <- MCPrefix15
  UseRamdisk = FALSE  NameText <- MCNameText  Head13 <- MCHead13  Head15 <- MCHead15
  BootPlatforms = {}
  NameLen = 8  NoName = Empty  None = Nil
  RamBases = {}  PeriphBases = {2, 10}  PeriphTypes = {"XCU", "PIC", "DMA"}  PeriphTypesAt <- MCXcuApart
  Subtypes = {"BDV"}  Channels = {1}
  IsrTypes = {"ISR_DMA"}  SrcIds = {0}  IrqChannels = {0}
  ProcXY = {}  LpIds = {0}
  GlobalXY = {}  VsegXY = {}  TaskXY = {}
  VBases = {}  VLengths = {}  VTypes = {}  BinPaths = {}
  MaxPsegs = 3  MaxProcs = 0  MaxIrqs = 2  MaxGlobals = 0
  MaxVspaces = 0  MaxVsegs = 0  MaxTasks = 0
SPECIFICATION Spec
INVARIANT DtsIrqFromController
