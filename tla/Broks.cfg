SPECIFICATION LiveSpec
CONSTANTS
    Modules = {"external", "internal"}
    broks_batch = 2
    max_broks = 4
    max_queue_size = 4
    MaxVersion = 1
    Slow = 1
    MaxFaults = 2
    NoHost = NoHost
INVARIANT TypeOK
PROPERTIES ExternalInOrder ExternalCatchesUp
