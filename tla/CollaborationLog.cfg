SPECIFICATION MCSpec
CONSTANTS
    Items = {1, 2, 3, 4, 5, 6}
    Conversations = {main, worker, helper}
    Delegations = {d, e, f}
    MailIds = {m}
    AttentionIds = {x}
    Turns = {s, t}
    Heads = {0}
    ItemCapacity = 6
    ControlItems = 1
    DelegationCapacity = 3
    SourceCapacity = 3
SYMMETRY Symmetry
INVARIANTS
    Forest
    MutationsSerialised
    DeliveredOnce
CHECK_DEADLOCK FALSE
