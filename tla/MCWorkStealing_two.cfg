SPECIFICATION FairSpec
CONSTANTS
  p1 = p1
  p2 = p2
  p3 = p3
  p4 = p4
  NumThreads = 2
  Pardos = {p1, p2, p3, p4}
  Programs <- ForTwo
  NoPardo = NoPardo
  QSize = 3
  TagMod = 16
INVARIANTS TypeOK DequesRight
PROPERTIES Termination
