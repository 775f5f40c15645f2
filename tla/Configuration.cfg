SPECIFICATION LiveSpec
CONSTANTS
    Nil = Nil
    ReadingCases <- MCReadingCases
    ServiceConfigurations <- MCServiceConfigurations
    DiscoverySetups <- MCDiscoverySetups
    DiscoveryBaseName <- MCDiscoveryBaseName
    MacroCases <- MCMacroCases
    RuleMember <- MCRuleMember
    RuleHostOf <- MCRuleHostOf
    RuleRules <- MCRuleRules
    RuleByDay <- MCRuleByDay
    RuleByNight <- MCRuleByNight
INVARIANTS
    ReadAsMeant
    LinkedAsMeant
    PartsAreComplete
    EvaluatedAsMeant
    ShownAsFound
PROPERTIES
    ProgramsEnd
CHECK_DEADLOCK FALSE
