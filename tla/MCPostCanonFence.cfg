\* An outbox worker and two pipelines of one task, one chapter, a manual checkpoint.
SPECIFICATION Spec
CONSTANTS
    e1 = e1
    p1 = p1
    p2 = p2
    Book = 1
    BandEnds = {1}
    Workers = {e1, p1, p2}
    EventWorkers = {e1}
    Name <- ClaimName
    MaxReclaims = 1
    MaxManual = 1
    MaxCrashes = 0
SYMMETRY Pipelines
INVARIANTS TypeOK RecordedByHolder AckedIsMaintained
PROPERTIES LapsedClaimIsDead FollowsCadence
