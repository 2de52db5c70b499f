\* A replayed upload of a delivered recording.
CONSTANTS
  q1 = q1
  q2 = q2
  uploads = uploads
  Calls = {"start", "claimGroup", "upload", "runner"}
  MaxJobs = 1
  Request = {q1}
  UploadRunner = uploads
SPECIFICATION Spec
PROPERTY UploadedStands
CHECK_DEADLOCK FALSE
