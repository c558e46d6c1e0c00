\* A sender and a receiver, messages of two kinds, queues of 3 messages.
SPECIFICATION Spec
CONSTANTS
  s1 = s1
  s2 = s2
  r1 = r1
  r2 = r2
  a = a
  b = b
  Garbage = Garbage
  Senders = {s1}
  Receivers = {r1}
  Msgs = {a, b}
  Errors = {5}
  Capacities = {3, 4}
  MaxElems = 3
  IndexModulus = 4
PROPERTIES
  ImplementsChannel
