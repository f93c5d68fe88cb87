\* Markers and samples of two threads over four ticks, that is two milliseconds;
\* a marker may be called like an address.
SPECIFICATION Spec
CONSTANTS
  Threads = {t1, t2}
  Names = {m1, a1}
  Addresses = {a1, a2}
  EntryLifetime = 1
  TicksPerMs = 2
  MaxNow = 3
  MaxMarkers = 2
  MaxSamples = 2
  MaxInfos = 2
SYMMETRY Symmetry
INVARIANTS
  TypeOK
  ReadsBack
  StringTableExact
PROPERTIES
  RemovesExactlyExpired
