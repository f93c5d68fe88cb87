\* Every sequence of three samples of up to three frames over three functions.
SPECIFICATION Spec
CONSTANTS
  Addresses = {a1, a2, a3}
  Null = null
  MaxFrames = 3
  MaxSamples = 3
SYMMETRY Symmetry
\* The serialization ends.
CHECK_DEADLOCK FALSE
INVARIANTS
  TypeOK
  WellOrdered
  Deduplicated
  LeafResolved
  SameStackSameEntry
  ChainsKept
