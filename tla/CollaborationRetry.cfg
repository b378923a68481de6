SPECIFICATION Spec
CONSTANTS
    main = main
    worker = worker
    d1 = d1
    m1 = m1
    t1 = t1
    t2 = t2
    Items = {"create", "mail", "handoff", "turn1", "turn2"}
    Conversations = {main, worker}
    Delegations = {d1}
    MailIds = {m1}
    AttentionIds = {}
    Turns = {t1, t2}
    ItemCapacity = 5
    ControlItems = 0
    DelegationCapacity = 1
    SourceCapacity = 3
    Roots = {main}
    Attempts <- MCAttempts
    Requests <- MCRequests
    Heads = {0, 1, 2}
    NoDelegation = NoDelegation
    MaxPermits = 3
PROPERTY PoisonedIsSilent
CHECK_DEADLOCK FALSE
