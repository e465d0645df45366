\* One chapter, two browser extensions with one attempt each that is referred to.
SPECIFICATION FairSpec
CONSTANTS
    j1 = j1
    A = A
    B = B
    None = None
    Jobs = {j1}
    Clients = {A, B}
    Slots = {1}
CHECK_DEADLOCK FALSE
INVARIANT TypeOK
PROPERTIES UploadsOnce NothingForgotten UploadsSettle
