SPECIFICATION FairSpec
CONSTANTS
  main = main
  t1 = t1
  Threads = {main, t1}
  Main = main
  Levels = {5, 6}
  Scenarios <- AloneOrTogether
INVARIANTS NothingDropped CountedOnce GuardReleased
PROPERTIES LevelFollows
CHECK_DEADLOCK FALSE
