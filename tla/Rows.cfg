\* One job with two requests; a job and its retry under outages and restarts.
CONSTANTS
  q1 = q1
  q2 = q2
  uploads = uploads
  Calls = {"start", "claimGroup", "claim", "heartbeat", "stop", "reportFailed", "reportCancelled", "expire", "upload", "chunk", "lastChunk"}
  MaxJobs = 2
  Request = {q1, q2}
  UploadRunner = uploads
SPECIFICATION RowsSpec
INVARIANTS RowTypes RowsHold
PROPERTIES RowSettles DowngradesSettled RowsQueued
CHECK_DEADLOCK FALSE
