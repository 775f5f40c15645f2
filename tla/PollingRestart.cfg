SPECIFICATION Spec
CONSTANTS
    Ids = {0}
    Satellites = {p1}
    Workers = {w1}
    max_q_size = 1
    processes_by_worker = 1
    results_batch = 0
    MaxRun = 2
    MaxConf = 2
    MaxFaults = 1
    MaxEarly = 0
INVARIANT ResultIsOfTheCheck
