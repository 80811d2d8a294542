SPECIFICATION Spec
CONSTANTS
    Kinds <- AllKinds
    Poolers = {"Astroport", "Osmosis"}
    MaxUpdates = 1
INVARIANTS
    AstroportDeploymentSucceeds
    QueuedOnce
    PathsLeadHome
CHECK_DEADLOCK FALSE
