SPECIFICATION FairSpec
CONSTANTS
  N = 4
  Threads = {t1, t2}
  FindOptions = {"find_naive", "find_compress", "find_atomic_split", "find_atomic_halve"}
  UniteOptions = {"unite_rem_cas", "unite_rem_lock", "unite_rem_lock_sf"}
  Variants <- Composed
  Workloads <- MostWorkloads
INVARIANTS TreesRight
PROPERTIES Linearizable Termination
