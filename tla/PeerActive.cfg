SPECIFICATION RetrySpec
CONSTANTS
  Passive = FALSE
  DelayOpen = TRUE
  IdleHold = TRUE
  NotifWithoutOpen = FALSE
  MaxDown = 0
INVARIANTS
  CollisionWindow DelayOpenHasConnection IdleIsQuiet SessionHasOpen SessionIsTimed ServerAgrees
PROPERTIES StoppedStaysIdle ActiveRetriesWhenQuiet KeepsProtocol
CHECK_DEADLOCK FALSE
