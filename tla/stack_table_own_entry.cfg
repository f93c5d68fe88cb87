\* The claim of the tests in src/sampler.rs that two stacks do not share an entry.
SPECIFICATION Spec
CONSTANTS
  Addresses = {a1, a2, a3}
  Null = null
  MaxFrames = 3
  MaxSamples = 2
SYMMETRY Symmetry
CHECK_DEADLOCK FALSE
INVARIANTS
  OwnEntry
