SPECIFICATION Spec
CONSTANTS
    Host <- MCHost
    Service <- MCService
    Dep <- MCDep
    Period <- MCPeriod
    Modulation <- MCModulation
    max_check_attempts <- MCAttempts
    own_business_impact <- MCImpact
    wants_unreachable <- MCWants
    is_volatile <- MCNone
    use_aggressive_host_checking = TRUE
    Watched = {"http"}
    Exit <- MCExit
    Changes = {TRUE, FALSE}
INVARIANTS MutualImpacts StateTells
PROPERTY ProblemsAreFollowed
