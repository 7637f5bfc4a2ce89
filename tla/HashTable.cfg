SPECIFICATION FairSpec
CONSTANTS
  e1 = e1
  e2 = e2
  e3 = e3
  e4 = e4
  k1 = k1
  k2 = k2
  k3 = k3
  k4 = k4
  v1 = v1
  v2 = v2
  Nil = Nil
  Keys <- MCKeys
  Values <- MCValues
  Entries <- MCEntries
  Hash <- MCHash
  InitSize = 1
INVARIANTS TypeOK LookupFindsStored LinksAgree CountsMatch ForeachVisitsAll
PROPERTIES ImplementsMap GrowthEnds
