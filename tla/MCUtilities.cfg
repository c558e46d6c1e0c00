\* One caller of the dictionaries and options, the tree, the string buffer, the
\* growing arrays and blocks, the hashes and the counter mode; threads and first
\* uses; arithmetic; pictures.
SPECIFICATION MCSpec
CONSTANTS
  Kinds = {"dict", "options", "tree", "print", "array", "block", "copy", "digest", "aes",
           "codecs", "formats", "cpu", "numbers", "images"}
  Dicts = {m, m2}
  Source = m
  Keys <- const_Keys
  Values <- const_Values
  FlagSets <- const_FlagSets
  NoValue = NoValue
  MaxStrings = 5
  MaxOwned = 4
  MaxText = 2
  MaxLost = 1
  Objects = {o, o2}
  Numbers <- const_ZeroTexts
  Binaries <- const_ZeroTexts
  MaxElem = 8
  Nil = Nil
  NoElem = NoElem
  UIntMax = 20
  AllocMax = 12
  SizeAuto = 4
  SizesMax = {0, 1, 3, 7, 10, 20}
  MaxPrint = 5
  NoBuf = NoBuf
  IntMax = 140
  ElemSize = 8
  MaxAlloc = 120
  MinSizes = {0, 1, 20, 60, 82, 83, 84, 120, 121}
  MaxBack = 9
  MaxCount = 40
  Junk = Junk
  Block = 4
  LenBytes = 2
  MaxMessage = 13
  NoDigest = NoDigest
  BlockSize = 3
  HalfModulus = 3
  MaxStream = 12
  Threads = {t1, t2}
  NbCodecs = 2
  NbDevices = 2
  None = None
  Flags = {mmx, sse}
  Detected = {mmx}
  Mmx = mmx
  ImplyMmx = {sse}
  Unset = Unset
CHECK_DEADLOCK FALSE
VIEW View
INVARIANTS
  ObjectsOwnTheirs
  TreeIsTheSet
  TextIsWhole
  MemHolds
  CutAnywhere
  WalksAreWhole
  ForcedFlagsStay
  NumbersAreExact
  
 
