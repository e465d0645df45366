\* Two workers under one name, one of them on time and the other stalled at will:
\* one lease of three beats, an older event with a broken payload that is claimed
\* first, crashes and hung heartbeats.
SPECIFICATION FairSpec
CONSTANTS
    w1 = w1
    w2 = w2
    Events = {1, 2}
    Workers = {w1, w2}
    Name <- SharedName
    BadPayload = {1}
    Lease = 3
    Interval = 2
    BaseDelay = 1
    MaxDelay = 2
    Timely = {w1}
    MaxEpoch = 2
INVARIANTS TypeOK OneHolder ProcessedWasHandled NoOverlap
PROPERTIES SettledIsFinal DeliversAtLeastOnce EventuallySettled
