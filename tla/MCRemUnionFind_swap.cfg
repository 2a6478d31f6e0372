\* The spanning forest's UniteRemCAS, one thread: it records links never made.
SPECIFICATION Spec
CONSTANTS
  N = 4
  Threads = {t1}
  FindOptions = {"find_compress"}
  UniteOptions = {"unite_rem_cas_sf"}
  Variants <- ForestCas
  Workloads <- OneCrossed
INVARIANTS ForestSpans
