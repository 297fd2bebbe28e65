SPECIFICATION StabSpec
CONSTANTS
  Page = {0, 1, 2, 3, 4, 5, 6, 7, 8, 9, 10, 11, 12, 13, 14, 15}
  N = 2
  U = 2
  RefMod = 4
  NULL = NULL
  PGSIZE = 8
  KB = 4
  Chunk = 4
  Above16M = 20
  IOPHYSMEM = 32
  EXTPHYSMEM = 48
  EntryMapped = 104
  PageInfoSize = 1
  EnvsSize = 7
  Machine <- Machines
  StabTable <- StabTables
  StabAddr = {0, 1, 2, 3, 4, 7}
  StabMod = 16
  AddrMod = 8
  UPGSIZE = 2
  ULIM = 6
  PteBits <- PteValues
  Key <- Keys
  MaxBytes = 4
  Exception = {0, 1, 4, 5, 6, 10, 11, 12, 13, 14, 16, 17, 19}
  SoftInt = {0, 3, 7, 8, 9, 13, 14, 32, 48}
  PrintCall <- PrintCalls
  SnSize = {0, 1, 3, 8}
  BufLen = 4
  MAXERROR = 9
  UintMod = 1024
  UllMod = 4096
  MAXARGS = 3
  CmdLine <- CmdLines
  Command <- Commands
  SECTSIZE = 4
  MemEnd = 24
  ElfImage <- ElfImages
  IcodePage = 4
  IcodeImage <- IcodeImages
INVARIANT StabContains
CHECK_DEADLOCK FALSE
