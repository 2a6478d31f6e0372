SPECIFICATION Spec
CONSTANTS
  N = 4
  NumVertices = 4
  Inputs <- RootInputs
  Graphs <- AllGraphs
  Perms <- SomePerms
  AllShifts <- SomeShifts
  Threads = {t1, t2}
  EpsNum = 1
  EpsDen = 10
  Families = {"long"}
  PeelVariants = {"hist"}
  SVBatches <- SomeBatches
  LongVariants <- AllVariants
  MaxSVBatches = 2
CHECK_DEADLOCK FALSE
INVARIANT UnionsKept
