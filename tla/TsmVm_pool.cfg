SPECIFICATION FairSpec
CONSTANTS
  t1 = t1
  t2 = t2
  t3 = t3
  s1 = s1
  s2 = s2
  s3 = s3
  s4 = s4
  s5 = s5
  NoSkb = NoSkb
  Threads <- MCThreads2
  Skbs <- MCSkbs2
  Sessions = {0, 7}
  Code <- MCCode
  Targets <- MCTargets
  MaxReceived = 3
  MaxCcbs = 2
INVARIANTS TypeOK TokensMatchPackets PacketHeldOnce FragmentsOfPacket SessionOnOneCcb
CHECK_DEADLOCK FALSE
PROPERTIES QueuedPacketIsTaken
