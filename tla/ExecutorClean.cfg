SPECIFICATION FairSpec
CONSTANTS
  ignition = ignition
  crank = crank
  door = door
  alarm = alarm
  none = none
  idle = idle
  Relays <- MCRelays
  Inputs <- MCInputs
  Triggers <- MCTriggers
  NoRef = none
  NoProgram = idle
  StarterRelay = crank
  Programs <- MCClean
  MaxStarter = 2
  WaitAfter = 1
  RetryPause = 1
  MaxLag = 2
  Wrap = 7
INVARIANTS
  StarterOnlyWhileCranking
  SafetyNetUnused
  PoolBalanced
PROPERTIES
  KeepsDuty
  ProgramEnds
