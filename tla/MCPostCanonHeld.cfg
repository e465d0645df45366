\* Two manual checkpoints in one band and an operator who approves.
SPECIFICATION DiligentSpec
CONSTANTS
    e1 = e1
    p1 = p1
    p2 = p2
    Book = 1
    BandEnds = {1}
    Workers = {p1}
    EventWorkers = {}
    Name <- ClaimName
    MaxReclaims = 0
    MaxManual = 2
    MaxCrashes = 0
PROPERTIES HoldsAreReleased
