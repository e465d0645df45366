\* Two chapters of one band, fair workers, expired leases and a crash.
SPECIFICATION FairSpec
CONSTANTS
    e1 = e1
    p1 = p1
    p2 = p2
    Book = 2
    BandEnds = {2}
    Workers = {e1, p1}
    EventWorkers = {e1}
    Name <- ClaimName
    MaxReclaims = 1
    MaxManual = 0
    MaxCrashes = 1
PROPERTIES FollowsCadence EventuallyMaintained
