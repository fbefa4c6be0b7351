\* First movements of two products, all callers SERIALIZABLE.
SPECIFICATION FairSpec
CONSTANTS
  Pools <- TwoPools
  Jobs <- CountJobs
  Counts = {"count"}
  Requests <- CountRequests
  JobOf <- CountJobOf
  Level <- CountLevel
  Tries <- CountTries
  Postings <- CountPostings
  Expected <- CountExpected
  Opening <- NoRows
  MaxFaults = 1
INVARIANT OneRowPerLevel
PROPERTIES LedgerSpec EveryRequestEnds
CHECK_DEADLOCK FALSE
