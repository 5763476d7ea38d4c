\* Two replicas; a batch is always finished within its lease.
CONSTANTS
  Job = {j1, j2}
  Worker = {w1, w2}
  Batch = 2
  Parallel = 2
  Lease = 3
  Timeout = 2
  WorkLimit = 1
  MaxAttempts = 2
  Backoff <- MCBackoff
  MaxResend = 0
  AttemptCap = 2
  MaxCrashes = 1
SYMMETRY Symmetric
SPECIFICATION Spec
INVARIANTS
  TypeOK
  NoJobLost
  
  

  
