SPECIFICATION FairSpec
CONSTANTS
    r1 = r1
    r2 = r2
    x = x
    y = y
    Runners <- MCRunners
    Versions <- MCVersions
    Sums <- MCSums
    AuthVersions <- MCAuthVersions
    Setups <- MCSetups
    NoFile = NoFile
    NoRunner = NoRunner
    NoVersion = NoVersion
INVARIANTS TypeOK LedgerIsTruth PlanStaysTrue AppliedInOrder SuccessMeansDone
PROPERTIES NoSilentRepair TooOldNeverWrites RunsEnd ImplementsDeployment
