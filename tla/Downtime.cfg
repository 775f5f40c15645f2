SPECIFICATION SpecD
CONSTANTS
    Refs = {host, srv}
    Ids = {0, 1}
    MaxBelow = 1
INVARIANTS TypeOKd DepthCounts MaintenanceIsKnown
PROPERTY EndedIsRemoved
