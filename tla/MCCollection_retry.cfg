SPECIFICATION Spec
CONSTANTS
  r1 = r1
  r2 = r2
  d1 = d1
  d2 = d2
  Reqs = {r1}
  Required = {r1}
  Other = Other
  Docs = {d1}
  Attachable <- AttachOne
  MaxRounds = 2
  MaxExcludes = 1
  ReviewLimit = 1
  AIMode = "AUTO_REVIEW"
INVARIANTS
  FailedReviewCanBeRetried
CHECK_DEADLOCK FALSE
