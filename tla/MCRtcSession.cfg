SPECIFICATION Spec
CONSTANTS
    Device = {"a", "b"}
    MaxSessions = 2
    Trial <- Trials
INVARIANTS
    RegisteredMeansOpen
    ListShowsRoom
    FactoryOutlivesAgents
    OfferIsSettled
CHECK_DEADLOCK FALSE
