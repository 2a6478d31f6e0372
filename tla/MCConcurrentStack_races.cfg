SPECIFICATION FairSpec
CONSTANTS
  t1 = t1  t2 = t2  t3 = t3
  v1 = v1  v2 = v2  v3 = v3  v4 = v4
  Threads = {t1, t2, t3}
  Values = {v1, v2, v3, v4}
  Nothing = Nothing
  NumNodes = 6
  Programs <- Races
  Initial <- Two
INVARIANTS StackRight
PROPERTIES Linearizable EveryCallReturns
