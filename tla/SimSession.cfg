SPECIFICATION Spec
CONSTANTS
  Scenes = {a, b}
  Starts <- MCStarts
  Owner = a
  Group = Group
  NoScene = NoScene
  Values = {1}
  KeyframeInterval = 2
  MaxItems = 3
  MaxTick = 2
  MaxFaults = 1
  MaxCommands = 2
INVARIANTS TypeOK TriggersOfThisRun 
PROPERTIES StepBackExact
CHECK_DEADLOCK FALSE
