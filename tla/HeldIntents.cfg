\* A book of three chapters with one intent; one of the last two chapters is rewritten.
SPECIFICATION FairSpec
CONSTANTS
    Intents = {i1}
    Kinds = {"impact_review"}
    Total = 3
    Rewritable = {2, 3}
    MaxRewrites = 1
    MaxConflicts = 2
    MaxVanished = 1
INVARIANTS TypeOK SnapshotIsReplay OncePerIntent HeldIsAnswered
PROPERTIES SettledStays HoldsEnd
\* A chapter may wait for ever for a person to decide a conflict.
CHECK_DEADLOCK FALSE
