CONSTANTS
    Malformed = Malformed
    None = None
    QueueChannels <- Channel
    QueueChannelDefault <- Default
    MaxRepeats = 1
    MaxAttempts = 2
    Scenarios <- CommandLines
    Seeded = {8, 10}
    MaxStress = 3
    Clients = {1, 2}
    Names <- ClientNames
    Left <- Earlier
SPECIFICATION FairSpec
INVARIANTS TypeOK StressAccounts  CountersExact DepthBounds RoutedClaimable
PROPERTIES StressReturns
CHECK_DEADLOCK FALSE
