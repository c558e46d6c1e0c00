\* Planes of up to eight bytes, byte fifos of up to nine: INT_MAX and the width
\* of the indices are as small as the sizes that have to pass them.
SPECIFICATION MCSpec
CONSTANTS
  Kinds = {"audio", "bytes"}
  IndexModulus = 10
  Garbage = 1000
  Samples <- const_Samples
  Bytes <- const_Samples
  Planes = 2
  SampleSize = 2
  IntMax = 18
  MaxCall = 2
  MaxAlloc = 2
  MaxBytes = 5
  None = None
  NoFifo = NoFifo
CHECK_DEADLOCK FALSE
VIEW View
INVARIANTS
  PlanesStayInStep
PROPERTIES
  SamplesAreAQueue
  BytesAreAQueue
