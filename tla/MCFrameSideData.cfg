\* Software frames whose side data is removed.
SPECIFICATION MCSpec
CONSTANTS
  Kinds = {"soft"}
  t1 = t1
  t2 = t2
  d1 = d1
  d2 = d2
  c1 = c1
  c2 = c2
  s1 = s1
  s2 = s2
  map1 = map1
  map2 = map2
  f1 = f1
  f2 = f2
  None = None
  Threads <- const_Threads
  Devices <- const_Devices
  Type <- const_Type
  Contexts <- const_Contexts
  Surfaces <- const_Surfaces
  Maps <- const_Maps
  Frames <- const_Frames
  InitialPool = 1
  MaxHandles = 1
  Temporary = tmp
  NumPtrs = 1
  Types = {"panscan"}
  Null = Null
  User = User
  NbBuffers = 6
  NbCells = 7
  MaxSide = 2
  MaxExtras = 2
SYMMETRY Symmetry
VIEW View
CONSTRAINT Bounded
CHECK_DEADLOCK FALSE
PROPERTY RemovedIsGone
