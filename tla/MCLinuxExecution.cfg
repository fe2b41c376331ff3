SPECIFICATION LinuxFairSpec
CONSTANTS
  Commands = 2
  MaxFaults = 1
  MaxDenials = 1
INVARIANTS ReportTrue StepShut
PROPERTIES CommandEnds
CHECK_DEADLOCK FALSE
