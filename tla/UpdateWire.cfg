SPECIFICATION Spec
CONSTANTS
    Setups <- AllSetups
INVARIANTS
    PeerHoldsWhatIsRecorded
    NothingIsMisread
PROPERTIES
    ResetsHaveACause
