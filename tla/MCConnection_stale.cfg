SPECIFICATION Spec
CONSTANTS
  t1 = t1
  t2 = t2
  main = main
  test = test
  dMain = dMain
  dTest = dTest
  mine = mine
  dead = dead
  Threads = {t1, t2}
  Chains = {main, test}
  Urls = {dMain, dTest, mine, dead}
  DefaultUrl <- Defaults
  Dead = {dead}
  SwapsAlone = TRUE
  MaxCalls = 2
  Nothing = Nothing
SYMMETRY Symmetric
INVARIANT NextCallIsFresh
