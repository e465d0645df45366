SPECIFICATION Spec
CONSTANTS
    w1 = w1
    a1 = a1
    Workers = {w1}
    Approvers = {a1}
    Book = 2
    MaxVersions <- TwoThenOne
CHECK_DEADLOCK FALSE
INVARIANTS TypeOK AcceptedIsCanon
PROPERTIES RewritesAreAsked
