\* Two threads, three references, buffers and data chunks; a pool whose alloc callback uses av_buffer_realloc.
INIT Init
NEXT Next
CONSTANTS
  t1 = t1
  t2 = t2
  r1 = r1
  r2 = r2
  r3 = r3
  b1 = b1
  b2 = b2
  b3 = b3
  d1 = d1
  d2 = d2
  d3 = d3
  Null = Null
  Threads <- const_Threads
  Refs <- const_Refs
  Bufs <- const_Bufs
  Data <- const_Data
  PoolAllocReallocatable = TRUE
SYMMETRY Symmetry
INVARIANTS
  EntriesAreAllocated
