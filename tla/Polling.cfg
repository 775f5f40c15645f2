SPECIFICATION Spec
CONSTANTS
    Ids = {0, 1}
    Satellites = {p1}
    Workers = {w1}
    max_q_size = 1
    processes_by_worker = 1
    results_batch = 1
    MaxRun = 2
    MaxConf = 3
    MaxFaults = 1
    MaxEarly = 0
INVARIANTS TypeOK OnePlace NothingLost ResultOfThisConf
PROPERTY CheckComesBack
