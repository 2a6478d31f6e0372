SPECIFICATION Spec
CONSTANTS
  N = 4
  NumVertices = 4
  Inputs <- RootInputs
  Graphs <- AllGraphs
  Perms <- SomePerms
  AllShifts <- SomeShifts
  Threads = {t1, t2}
  EpsNum = 1
  EpsDen = 10
  Families = {"peel"}
  PeelVariants = {"fa"}
  SVBatches <- SomeBatches
  LongVariants <- Keeping
  MaxSVBatches = 2
CHECK_DEADLOCK FALSE
INVARIANT FetchAddCoresRight
