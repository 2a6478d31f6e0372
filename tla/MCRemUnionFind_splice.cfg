\* splice_atomic in place of a split or halving: it loses a union.
SPECIFICATION Spec
CONSTANTS
  N = 5
  Threads = {t1, t2}
  FindOptions = {"find_naive"}
  UniteOptions = {"unite_rem_cas"}
  Variants <- Spliced
  Workloads <- OneBridged
INVARIANTS LabelsAreComponents
