SPECIFICATION PubSpec
CONSTANT Imports = 1
CHECK_DEADLOCK FALSE
INVARIANT KilledRunsAreNotReportedCompleted
