CONSTANTS
    Flow <- Flows
    Together <- Pairs
    None = None
    MaxTun = 1
SPECIFICATION Spec
INVARIANTS DestinationIsRight RepliesReachTheirApp
PROPERTIES OpenedIsAccepted
