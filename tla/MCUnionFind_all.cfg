SPECIFICATION FairSpec
CONSTANTS
  N = 4
  Threads = {t1, t2}
  FindOptions = {"find_naive", "find_compress", "find_atomic_split", "find_atomic_halve"}
  UniteOptions = {"unite", "unite_early", "unite_nd"}
  Workloads <- AllWorkloads
INVARIANTS TypeOK ParentOrder ParentsStayInside LabelsAndForest
PROPERTIES LinkedForGood Linearizable Termination
