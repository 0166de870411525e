\* Hardware side: RAM and periph psegs, processors, interrupt wiring.
CONSTANTS
  XSize = 2  YSize = 1  NProcs = 1  XWidth = 1  YWidth = 1
  PaddrWidth = 4  PageWidth = 1  RamBase = 0  RamSize = 4
  RAM = RAM  ROM = ROM  A = A  B = B  ELF_BIN = ELF_BIN  Empty = Empty  Nil = Nil
  PsegNames = {RAM}  VsegNames = {A}  Prefix15 <- MCPrefix15
  NameLen = 8  NoName = Empty  None = Nil  NotFound <- MCNotFound
  RamBases = {0, 4}  PeriphBases = {2, 10}  PeriphTypes = {"XCU", "IOC", "BAD"}  PeriphTypesAt <- MCAnyPlace
  Subtypes = {"BDV", "NONE"}  Channels = {1}
  IsrTypes = {"ISR_TTY_RX", "BAD"}  SrcIds = {0, 32}  IrqChannels = {0}
  ProcXY <- MCProcXY  LpIds = {0}
  GlobalXY <- MCGlobalXY  VsegXY <- MCVsegXY  TaskXY <- MCTaskXY
  VBases = {0}  VLengths = {1}  VTypes = {"ELF"}  BinPaths = {ELF_BIN}
  MaxPsegs = 3  MaxProcs = 1  MaxIrqs = 2  MaxGlobals = 0
  MaxVspaces = 0  MaxVsegs = 0  MaxTasks = 0
SPECIFICATION Spec
INVARIANTS TypeOK BlobOwnership DisciplineEncodes IrqSourceBound
