SPECIFICATION SpecReading
CONSTANTS
  Components = {"cache", "packets", "bits", "levels", "codes", "patterns"}
  x = x
  y = y
  z = z
  bad = bad
  Callers = {k1, k2}
  Inputs = {x, y, z, bad}
  Surface <- SurfaceOf
  Invalid = {bad}
  Packed = {"rgb565"}
  Layout = "native"
  MaxInputs = 4
  MaxEntries = 2
  Batches <- Mixed
  MaxCalls = 2
  Firsts = {1, 10}
  LongRuns <- SomeRuns
  Orders <- ScanOrders
  Totals <- CloseTotals
  MaxBlocks = 1
  Selectors = {"level", "first", "index", "groups", "blocks"}
  Models <- SmallModels
  Repeats = {1, 5}
  Means = {0, 6, 9, 60}
INVARIANTS TypeOK LayoutsApart StableGroups DuplicatesShareAlone
  PacketsTrue PacketWindowTrue DirectIsInverse PlacesApart AdaptationBounded PatternsTrue
PROPERTY PacketsReadSerially
SYMMETRY Symmetry
