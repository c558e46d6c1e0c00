\* Two threads, two references, buffers and data chunks; liveness.
SPECIFICATION Spec
CONSTANTS
  t1 = t1
  t2 = t2
  r1 = r1
  r2 = r2
  r3 = r3
  b1 = b1
  b2 = b2
  b3 = b3
  d1 = d1
  d2 = d2
  d3 = d3
  Null = Null
  Threads <- const_Threads
  Refs = {r1, r2}
  Bufs = {b1, b2}
  Data = {d1, d2}
  PoolAllocReallocatable = FALSE
PROPERTIES
  PoolIsFreed
