\* Two senders and two receivers on a queue of one message; liveness.
SPECIFICATION Spec
CONSTANTS
  s1 = s1
  s2 = s2
  r1 = r1
  r2 = r2
  a = a
  Garbage = Garbage
  Senders <- const_Senders
  Receivers <- const_Receivers
  Msgs = {a}
  Errors = {5}
  Capacities = {1}
  MaxElems = 1
  IndexModulus = 2
PROPERTIES
  ErrorReleases
  ImplementsChannel
