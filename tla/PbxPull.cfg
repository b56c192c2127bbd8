SPECIFICATION FairSpec
CONSTANTS
  f1 = f1
  f2 = f2
  Files = {f1}
  LastDay = 2
  DayOf <- FirstOfTwoDays
  Runners = {task, hand}
  Task = task
  MaxSize = 3
  StaleSteps = 1
  MaxEvents = 2
INVARIANT PullInv
PROPERTIES OnlyTheShortGivesWay ImplementsArchive EverythingArrives
