\* Two senders, two receivers, queues of 1 and 3 indistinct messages; safety.
INIT Init
NEXT Next
CONSTANTS
  s1 = s1
  s2 = s2
  r1 = r1
  r2 = r2
  a = a
  Garbage = Garbage
  Senders <- const_Senders
  Receivers <- const_Receivers
  Msgs = {a}
  Errors = {5}
  Capacities <- const_Capacities
  MaxElems = 3
  IndexModulus = 4
SYMMETRY Symmetry
INVARIANTS
  TypeOK
  NoLostWakeup
  NoneBlockedOnError
  OnlyBlockingCallsWait
