SPECIFICATION Spec
CONSTANTS
    s1 = s1
    s2 = s2
    k1 = k1
    schedulers <- MCTwoSchedulers
    satellites <- MCOneSatellite
    spare = {s2}
    Confs <- MCTwoConfs
    Flavors <- MCFlavors
    max_check_attempts = 2
    check_interval = 2
    OneOnly = FALSE
    MaxFaults = 1
    MaxEarly = 1
INVARIANTS TypeOK AssignmentIsMutual FlavorTells
PROPERTY PartsAreServed
