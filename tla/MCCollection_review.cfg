SPECIFICATION Spec
CONSTANTS
  r1 = r1
  r2 = r2
  d1 = d1
  d2 = d2
  Reqs = {r1, r2}
  Required = {r1}
  Other = Other
  Docs = {d1, d2}
  Attachable <- AttachReview
  MaxRounds = 2
  MaxExcludes = 0
  ReviewLimit = 1
  AIMode = "AUTO_REVIEW"
INVARIANTS
  ReadyMeansSettled
  SubmittedIsScanned
PROPERTIES
  AcceptedStands
  AIDecidesCurrentRound
  StrandedByReopen
  LifecycleSpec
CHECK_DEADLOCK FALSE
