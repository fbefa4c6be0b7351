\* Callers of both isolation levels, one with two postings in a transaction; two of
\* the counter's jobs reach a product without a row.
SPECIFICATION Spec
CONSTANTS
  Pools <- ThreePools
  Jobs <- BusyJobs
  Counts = {}
  Requests <- BusyRequests
  JobOf <- BusyJobOf
  Level <- BusyLevel
  Tries <- BusyTries
  Postings <- BusyPostings
  Expected <- NoCount
  Opening <- BothRows
  MaxFaults = 1
INVARIANTS TypeOK OnlyLongOnesCycle OneRowPerLevel RetriesSuffice
PROPERTY LedgerSpec
CHECK_DEADLOCK FALSE
