\* Five words, at 12 to 28, with every content over null, an address below the stack,
\* two of frames that fit above each other, one in between that is aligned to half a
\* word, and one at the end that is not.  The stack has two or four words, from 12 or
\* 16 on: the frames are within it, or partly, or not, and the end of it is mapped or
\* not.  There is room for the leaf and one frame.
SPECIFICATION Spec
CONSTANTS
  Mapped = {12, 16, 20, 24, 28}
  Values = {0, 4, 12, 18, 20, 27}
  StackAddrs = {12, 16}
  StackSizes = {1, 2}
  MaxFrames = 2
  Leaf = leaf
\* The walk ends.
CHECK_DEADLOCK FALSE
INVARIANTS
  TypeOK
  FaultsOnlyOutside
  CallChainRecorded
