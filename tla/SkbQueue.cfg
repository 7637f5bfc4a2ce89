SPECIFICATION Spec
CONSTANTS
  t1 = t1
  t2 = t2
  t3 = t3
  s1 = s1
  s2 = s2
  s3 = s3
  Threads <- MCThreads
  Skbs <- MCSkbs
  List = List
  NoSkb = NoSkb
  NoThread = NoThread
INVARIANTS TypeOK PacketsInOnePlace RingIsWhole NeighboursAgree
PROPERTY ImplementsFifo
