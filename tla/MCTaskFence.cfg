\* One task of two chapters, two workers, one reclaim.
SPECIFICATION Spec
CONSTANTS
    w1 = w1
    w2 = w2
    Tasks = {1}
    Workers = {w1, w2}
    Name <- SharedName
    Book = 2
    MaxChapters = 0
    MaxEpoch = 2
    MaxDrafts = 2
CHECK_DEADLOCK FALSE
SYMMETRY Replicas
INVARIANTS TypeOK OneHolder CreditedIsCanon StopsSoon
PROPERTIES AdmitsOnceInOrder
