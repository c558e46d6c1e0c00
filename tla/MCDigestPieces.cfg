\* MurmurHash3 and the others, given the same data in one call and in several.
SPECIFICATION MCSpec
CONSTANTS
  Kinds = {"digest"}
  Dicts = {m, m2}
  Source = m
  Keys <- const_Keys
  Values <- const_Values
  FlagSets <- const_FlagSets
  NoValue = NoValue
  MaxStrings = 5
  MaxOwned = 4
  MaxText = 2
  MaxLost = 1
  Objects = {o, o2}
  Numbers <- const_ZeroTexts
  Binaries <- const_ZeroTexts
  MaxElem = 8
  Nil = Nil
  NoElem = NoElem
  UIntMax = 20
  AllocMax = 12
  SizeAuto = 4
  SizesMax = {0, 1, 3, 7, 10, 20}
  MaxPrint = 5
  NoBuf = NoBuf
  IntMax = 140
  ElemSize = 8
  MaxAlloc = 120
  MinSizes = {0, 1, 20, 60, 82, 83, 84, 120, 121}
  MaxBack = 9
  MaxCount = 40
  Junk = Junk
  Block = 4
  LenBytes = 2
  MaxMessage = 13
  NoDigest = NoDigest
  BlockSize = 3
  HalfModulus = 3
  MaxStream = 12
  Threads = {t1, t2}
  NbCodecs = 2
  NbDevices = 2
  None = None
  Flags = {mmx, sse}
  Detected = {mmx}
  Mmx = mmx
  ImplyMmx = {sse}
  Unset = Unset
CHECK_DEADLOCK FALSE
VIEW View
INVARIANT PiecesDoNotMatter
