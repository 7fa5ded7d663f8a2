SPECIFICATION FairSpec
CONSTANTS
  t1 = t1  h1 = h1
  NoHook = NoHook
  Tasks = {t1}
  Hooks = {h1}
  TaskOf <- OneOnFirst
  MaxRuns = 2
  MaxStarts = 3
INVARIANTS OneLaunchPerCompletion EventBound NoFalseAlarm
PROPERTIES EndsAreHandled InterruptedIsRaised
CHECK_DEADLOCK FALSE
