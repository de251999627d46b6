SPECIFICATION Spec
CONSTANTS
  r1 = r1
  r2 = r2
  d1 = d1
  d2 = d2
  Reqs = {r1, r2}
  Required = {r2}
  Other = Other
  Docs = {d1, d2}
  Attachable <- AttachEach
  MaxRounds = 2
  MaxExcludes = 1
  ReviewLimit = 1
  AIMode = "OFF"
PROPERTIES
  UnreviewedIsCarried
CHECK_DEADLOCK FALSE
