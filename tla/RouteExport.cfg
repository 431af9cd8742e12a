SPECIFICATION MonitoredSpec
CONSTANTS
  Attrs = {1, 2}
  BatchSize = 2
  MaxWaiting = 2
  Setups <- AllSetups
INVARIANTS PathIdsDistinct RibOutIsTold ExportsInSync LocIsLastSaid LocIsValidated CollectorsAreShown
CHECK_DEADLOCK FALSE
