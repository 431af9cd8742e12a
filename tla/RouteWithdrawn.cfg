SPECIFICATION MonitoredSpec
CONSTANTS
  Attrs = {1, 2}
  BatchSize = 2
  MaxWaiting = 2
  Setups <- OnlyPlain
INVARIANT WithdrawalsFallOut
CHECK_DEADLOCK FALSE
