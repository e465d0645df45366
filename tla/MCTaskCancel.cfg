\* A crash while the task is terminating.
SPECIFICATION FairSpec
CONSTANTS
    w1 = w1
    w2 = w2
    Tasks = {1}
    Workers = {w1}
    Name <- SharedName
    Book = 1
    MaxChapters = 0
    MaxEpoch = 2
    MaxDrafts = 1
CHECK_DEADLOCK FALSE
PROPERTIES CancelSettles
