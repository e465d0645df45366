\* One extension and an operator who terminates the job.
SPECIFICATION FairSpec
CONSTANTS
    j1 = j1
    A = A
    B = B
    None = None
    Jobs = {j1}
    Clients = {A}
    Slots = {1}
CHECK_DEADLOCK FALSE
PROPERTIES AbortConverges
