SPECIFICATION MCSpec
CONSTANTS
  N = 4
  Workers = {1, 2}
  ListLength = 2
  MaxBlocks = 8
  AllocSizes = {0, 5, 9}
  ReserveSizes = {0}
  HeapBlocks = 10
  MaxUsed = 1
  Ids = {0, 1, 2}
  null_bkt = 9
  MaxKey = 5
  open_buckets = 2
  Width = 16
  Threads = {1, 2}
  hash <- TableHash
  TableInputs <- SomeTables
  Clients = {"kcore", "wbfs", "cover"}
CHECK_DEADLOCK FALSE
INVARIANTS
  SubsetsAgree
  CountsRight
  TableIsTheSet
  ReadersAgree
  PackingStaysInside
  SequencesRight
  GraphsKeepEdges
  BlocksRight
PROPERTIES
  FrontierExact
  ImplementsPriorityBuckets
  AlwaysSettles
