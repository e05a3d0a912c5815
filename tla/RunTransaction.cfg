SPECIFICATION FairSpec
CONSTANTS Times = 2 MaxOps = 2
INVARIANTS TypeOK CommittedOnce ReturnMeansCommitted RollbackIsFinal ReleasesLocks
PROPERTIES ImplementsPromise Ends
\* The call ends.
CHECK_DEADLOCK FALSE
