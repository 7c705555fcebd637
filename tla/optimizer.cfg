CONSTANTS
    good = good
    other = other
    malformed = malformed
    Goals <- MCGoals
    MalformedGoals <- MCMalformedGoals
    UnlimitedGoals <- MCUnlimitedGoals
    optimize_timeout_ = 3
SPECIFICATION FairSpec
INVARIANTS
    TypeOK
    InterruptedByTheLatest
    SuccessIsDue
PROPERTIES
    EveryGoalEnds
