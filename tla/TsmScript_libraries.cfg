\* Two create messages that ask for libraries.
SPECIFICATION Spec
CONSTANTS
  Codes <- MCCodes
  Texts <- MCTexts
  SC_ENTRY_NUM = 8
  PARAM_NUM = 2
  POINTER = 8
  Paths <- MCPaths
  Lib <- MCLib
  Symbols = {f, g}
  BYCODE_SIZE = 2
  Scripts <- MCScripts
  Messages <- MCMessages
  WildPath = WildPath
  BC_SIZE = 16
  MaxCreates = 2
  DataSet = 64
  DataExtractRsp = 65
  DataExtract = 66
  DataIdle = 67
  DataConcat = 68
  DataReverse = 69
  DataScripts <- MCDataScripts
  Responses <- MCResponses
  MaxRuns = 4
  A = A
  B = B
  C = C
  D = D
  E = E
  F = F
  f = f
  g = g
INVARIANT LibrariesAreAdded
CHECK_DEADLOCK FALSE
