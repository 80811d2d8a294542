SPECIFICATION Spec
CONSTANTS
    Kinds <- PolKinds
    Poolers = {"Osmosis"}
    MaxUpdates = 0
INVARIANT DeploymentSucceeds
CHECK_DEADLOCK FALSE
