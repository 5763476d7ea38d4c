\* Two replicas whose leases may expire while they work, and counts that are
\* re-sent.
CONSTANTS
  Job = {j1}
  Worker = {w1, w2}
  Batch = 1
  Parallel = 1
  Lease = 1
  Timeout = 2
  WorkLimit = 1
  MaxAttempts = 2
  Backoff <- MCBackoff
  MaxResend = 1
  AttemptCap = 3
  MaxCrashes = 1
SPECIFICATION FairSpec
PROPERTIES
  ImplementsJobQueue
  JobSettled
