SPECIFICATION FairSpec
CONSTANTS
  Passive = FALSE
  DelayOpen = FALSE
  IdleHold = TRUE
  NotifWithoutOpen = FALSE
  MaxDown = 0
PROPERTY RemovedTaskEnds
CHECK_DEADLOCK FALSE
