SPECIFICATION Spec
CONSTANTS
  p1 = p1
  p2 = p2
  p3 = p3
  p4 = p4
  NumThreads = 3
  Pardos = {p1, p2, p3}
  Programs <- ForThree
  NoPardo = NoPardo
  QSize = 3
  TagMod = 16
INVARIANTS JobsRight
PROPERTIES ImplementsForkJoin
