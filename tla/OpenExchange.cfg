SPECIFICATION Spec
CONSTANTS
    Setups <- AllPairs
INVARIANTS
    SpeakersAgree
    SessionsAreCompatible
PROPERTIES
    CompatibleMeet
CHECK_DEADLOCK FALSE
