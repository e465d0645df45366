\* One task of one chapter of a longer book, fair workers that crash and reclaim.
SPECIFICATION FairSpec
CONSTANTS
    w1 = w1
    w2 = w2
    Tasks = {1}
    Workers = {w1, w2}
    Name <- SharedName
    Book = 2
    MaxChapters = 1
    MaxEpoch = 2
    MaxDrafts = 1
CHECK_DEADLOCK FALSE
INVARIANTS WithinRequest
PROPERTIES RunningSettles
