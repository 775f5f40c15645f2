SPECIFICATION LiveSpecN
CONSTANTS
    Host = {}
    Service <- MCItem
    Dep <- MCNoDep
    Period = {}
    Modulation <- MCNoModulation
    max_check_attempts <- MCAttempts
    own_business_impact <- MCImpact
    wants_unreachable = {}
    is_volatile = {}
    use_aggressive_host_checking = FALSE
    Watched = {}
    Exit <- MCExit
    Changes = {FALSE}
    It = "http"
    Contact <- MCContact
    contacts = {"admin"}
    escalation = {"boss"}
    first_notification = 2
    notification_interval = 1
    Picky = {"admin"}
    Kinds = {"ack","downtime","flapping","period","crash","clean","restart"}
    MaxEvents = 1
    ActionIds = {1, 2, 3, 4}
    MaxNumber = 2
INVARIANT SeriesIsKept
PROPERTY TellingGoesOn
CHECK_DEADLOCK FALSE
