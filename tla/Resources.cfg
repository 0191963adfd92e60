INIT ResourcesInit
NEXT ResourcesNext
CONSTANTS
  Slots = {s1, q1, q2}
  initproc = s1
  NPAGES = 14
  PGSIZE = 2
  NPTENTRIES = 2
  KTABLES = 1
  KERNBASE = 8
  ImageSizes = {1, 3}
  Writers = {p1, p2}
  Files = {f1, f2}
  RootDir = f1
  OpenFiles = {q1, q2}
  NDIRECT = 1
  BSIZE = 2
  NBLOCKS = 5
  BPB = 1
  MAXOPBLOCKS = 6
  Lengths = {1, 2, 3}
  MaxImage = 3
  MaxCalls = 2
  HEAP = 2
  LIMIT = 10
  NALLOC = 4
  HSIZE = 2
  ByteCounts = {0, 1, 3, 7}
  NPROC = 6
  Sessions <- MCSessions
  Letters = {"a", " ", "|", "&", ";", "(", ")", "<", ">"}
  CmdLines <- MCCmdLines
  MAXARGS = 3
SYMMETRY Symmetry
INVARIANTS
  PagesConserved MappedExact
   ContentsMatch TransactionFits
  HeapPartition
  CleanDescriptors NoHang
  ParsesGrammar
CHECK_DEADLOCK FALSE
