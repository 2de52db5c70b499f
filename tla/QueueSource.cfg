\* An item enqueued while a pass releases the cache.
CONSTANTS
  smb = smb
  s3 = s3
  q1 = q1
  q2 = q2
  Policy = {smb, s3}
  Deleting = {smb}
  OnlyUploaded = TRUE
  MaxAttempts = 2
  MaxItems = 2
  MaxCuts = 0
  Calls = {"enqueue"}
  Request = {q1}
SPECIFICATION Spec
PROPERTY SourceKept
CHECK_DEADLOCK FALSE
