\* The user starts the executable with up to three arguments, and two more
\* processes can be spawned, where one should do.
SPECIFICATION Spec
CONSTANTS
  Processes = {p1, p2, p3}
  First = p1
  Flag = flag
  Exe = exe
  Other = other
  None = none
  MaxArgs = 3
\* The processes end, or accept blocks.
CHECK_DEADLOCK FALSE
INVARIANTS
  TypeOK
  ServiceOfItsApp
PROPERTIES
  StartupEnds
