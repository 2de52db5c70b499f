\* Two destinations, retries, a purge and retention, with one pass cut short.
CONSTANTS
  smb = smb
  s3 = s3
  q1 = q1
  q2 = q2
  Policy = {smb, s3}
  Deleting = {smb}
  OnlyUploaded = TRUE
  MaxAttempts = 2
  MaxItems = 2
  MaxCuts = 1
  Calls = {"enqueue", "retry", "purge", "retention"}
  Request = {q1}
SPECIFICATION FairSpec
INVARIANT BudgetKept
PROPERTIES DeletedStays ReleasedIsDelivered Reconciled ItemsSettle
CHECK_DEADLOCK FALSE
