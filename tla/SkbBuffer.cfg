SPECIFICATION Spec
CONSTANTS
  a = a
  b = b
  Zero = Zero
  Byte <- MCByte
  Chunks <- MCChunks
  Sizes <- MCSizes
INVARIANTS TypeOK InBuffer
PROPERTIES ImplementsBytes
\* A thread that overruns a buffer spins for ever.
CHECK_DEADLOCK FALSE
