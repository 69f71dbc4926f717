\* The services around the kernel's core, each on a small instance.
SPECIFICATION Spec
CONSTANTS
  TOTAL_CLUSTERS = 5
  OnDrive = 4
  RootSectors = 2
  PerSector = 1
  Names = {"a", "b", "b2", "c"}
  Stored = {"a", "b", "c"}
  FmtName <- MCFmtName
  Contents <- MCContents
  MAX_FILE = 2
  Blank = "0"
  Garbage <- MCGarbage
  NSLOTS = 2
  DISK_PAGES = 2
  Blocks = {0, 1, 2}
  CachePages = {"p"}
  ZeroPage = "0"
  VQ_SIZE = 6
  SLOTS = 2
  Sectors = {1, 2}
  Values = {1, 2}
  ATTEMPTS = 2
  FRAME_MAX = 2
  MaxFrames = 5
  MaxCalls = 3
  Fds = {3, 4, 5}
  PIPE_MAX = 2
  PIPE_SIZE = 2
  KOBJ_MAX = 2
  TMPFS_N = 2
  TMPFS_MAX = 2
  DISK_CACHE_MAX = 2
  TmpNames = {"t", "long"}
  LongNames = {"long"}
  SeedName = "t"
  Seed <- MCSeed
  DiskNames = {"d", "e"}
  Chunks <- MCChunks
  MaxSeek = 1
  MaxSent = 3
  FRAME_PAGES = 4
  WINDOW = 1
  AS_TABLES = 1
  BootFrames = {0, 1}
  SPACES = 1
  Pages = {0, 1, 2, 3}
  ShmPage = 1
  BoxPage = 2
  Stamps = {"a"}
  WMAP_MAX = 1
  PAGE = 2
  HEAP_LEN = 8
  WORD = 16
  Lens = {1, 2, 3, 13, 15}
  WMAX = 2
  QLEN = 3
  XMAX = 1
  Width = 0
  MouseBytes = {0, 8, 255}
  BUF_SIZE = 3
  LINE_MAX = 2
  TTY_ROWS = 2
  TTY_COL = 3
  TW = 2
  TH = 2
  ED_CAP = 3
  IM_MAX = 2
  TABLE <- MCTable
  NS = 2
  CK = 1
  SAVES = 1
  SAVE_SZ = 2
  CLIP_MAX = 2
  AUDIT_N = 2
  TOKEN_MOD = 3
  MODELS = 2
  READBACK = 1
  KONE = 4
  CBUF = 2
  NCH = 1
  SAMPLE_MAX = 3
  TRACE_N = 3
  SHOWN = 2
  Data <- MCData
  COUNT_MAX = 2
  HEADER = 2
  ENTRY = 1
  ALIGN = 4
  MAX_RES = 2
  RES_MAX = 3
  Kept <- MCKept
  Containers <- MCContainers
  MEM = 16
  LOWEST = 2
  RUNTIME_BASE = 4
  MACHO_BASE = 20
  SHIM_PAGE = 100
  SHIM_TABLE <- MCShimTable
  SHIM_DATA <- MCShimData
  ATOF_TRAMP = 150
  MAX_DLLS = 2
  MAX_IMPORTS = 2
  ElfFiles <- MCElfFiles
  PeFiles <- MCPeFiles
  MachFiles <- MCMachFiles
  MAX_LABELS = 2
  InsnBytes <- MCInsnBytes
  AsmSources <- MCAsmSources
  MAX_SYMS = 2
  BASE = 64
  HEAD = 2
  OFF1 = 3
  TEXT_ALIGN = 4
  ADDR_BYTES = 2
  OUT = 16
  LinkInputs <- MCLinkInputs
  EXPR_MAX = 4
  CcSources <- MCCcSources
  DbgCode <- MCDbgCode
CONSTRAINT Explored
VIEW Seen
CHECK_DEADLOCK FALSE
INVARIANTS
  ServicesTypeOK
  NoSharedCluster
  DiskHasOwnPages
  QueuesInOrder
  DescriptorsExact
  FramesAccounted
  MemoryApart
  RectsMatchWindows
  TextSurfaces
  RecordsHonest
  ProgramsLoaded
PROPERTIES
  ImplementsVolume
  DriversAnswerOwn
