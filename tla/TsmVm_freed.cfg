SPECIFICATION Spec
CONSTANTS
  t1 = t1
  t2 = t2
  t3 = t3
  s1 = s1
  s2 = s2
  s3 = s3
  s4 = s4
  s5 = s5
  NoSkb = NoSkb
  Threads <- MCThreads3
  Skbs <- MCSkbs5
  Sessions = {7}
  Code <- JumpBootSend
  Targets = {1, 2}
  MaxReceived = 5
  MaxCcbs = 1
SYMMETRY PermsFreed
CONSTRAINT RacesOnly
INVARIANTS FreedPacketStaysOut
CHECK_DEADLOCK FALSE
