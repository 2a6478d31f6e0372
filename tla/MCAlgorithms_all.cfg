SPECIFICATION Spec
CONSTANTS
  N = 4
  NumVertices = 4
  Inputs <- RootInputs
  Graphs <- AllGraphs
  Perms <- SomePerms
  AllShifts <- SomeShifts
  Threads = {t1, t2}
  EpsNum = 1
  EpsDen = 10
  Families = {"sv", "lt", "long", "lp", "sample", "ldd", "jayanti", "peel", "between", "path", "search", "spec", "roots", "scc"}
  PeelVariants = {"hist", "order", "bkv12", "goodrich", "intsort", "elkin", "fa"}
  SVBatches <- SomeBatches
  LongVariants <- Keeping
  MaxSVBatches = 2
CHECK_DEADLOCK FALSE
INVARIANTS
  NeverOverMerges
  NothingLost
  LabelsRight
  ForestRight
  ClustersRight
  SearchesRight
  LengthsRight
  PeelingRight
  GreedyRight
  RootSetsRight
PROPERTY Terminates
