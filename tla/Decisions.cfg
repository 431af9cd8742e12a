SPECIFICATION Spec
CONSTANTS
  Sets <- MCSets
  Starts <- MCStarts
  Probes <- MCProbes
INVARIANTS
  DecidesAlike
  DecidesAsWritten
  CommunitiesSurvive
