SPECIFICATION FairSpec
CONSTANTS
  NumProcs = 2
  NumGpus = 2
  Jobs <- MCJobs
INVARIANT IInv
INVARIANT RoundData
INVARIANT InFlightBounded
INVARIANT CallsMatch
PROPERTY Terminates
CHECK_DEADLOCK FALSE
