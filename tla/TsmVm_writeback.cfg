SPECIFICATION FairSpec
CONSTANTS
  t1 = t1
  t2 = t2
  t3 = t3
  s1 = s1
  s2 = s2
  s3 = s3
  s4 = s4
  s5 = s5
  NoSkb = NoSkb
  Threads = {t1}
  Skbs <- MCSkbs2
  Sessions = {7}
  Code <- SendFirst
  Targets = {0}
  MaxReceived = 2
  MaxCcbs = 1
PROPERTIES WriteBackEnds
CHECK_DEADLOCK FALSE
