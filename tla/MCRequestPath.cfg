SPECIFICATION PathSpec
CONSTANTS
    \* PreRequestGate
    Requests = {q1, q2}
    Assets = {a1}
    Inline = Inline
    MaxParts = 2
    MaxPages = 2
    MaxMishaps = 1
    \* GatewayDelivery
    Messages = {q1, q2}
    TicksPerSecond = 2
    ReceiptTtl = 1
    Retention = 2
    MaxReplay = 1
    MaxBytes = 2
    MaxTicks = 6
    Nobody = Nobody
    \* RateLimiter
    Keys = {k1, k2}
    Capacity = 2
    Refill = 1
    IdleTtl = 3
    MaxKeys = 1
    MaxSeconds = 6
    NoBucket = NoBucket
    \* ProviderExecution
    Llms = {1, 2}
    Readers = {3}
    Viewer = 4
    Supporting = {1}
    OptionCapable = {1}
    Targets = {1, 2}
    Routings <- MCRoutings
    Sites = {e1, e2}
    MaxEdits = 2
    Nil = Nil
    \* PersonalConversation
    Turns = {1, 2, 3}
    Conversations <- MCConversations
    MaxText = 4
    NoTurn = NoTurn
SYMMETRY Symmetry
INVARIANTS PathTypeOK GateKeepsItsWord DeliveredOnce RateIsBounded RoutedAsPublished ConversationKept
CHECK_DEADLOCK FALSE
