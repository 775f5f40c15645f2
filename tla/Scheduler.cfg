SPECIFICATION Spec
CONSTANTS
    host = host
    srv = srv
    Items <- MCItems
    act_depend_of <- MCDepend
    Ids <- MCTwoIds
    InternalItems = {host}
    max_checks = 0
INVARIANTS TypeOK ConsumedOnce InProgressIsLive NoDependencyAtRest RemoveFindsId
PROPERTY ImplementsQueue
