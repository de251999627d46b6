SPECIFICATION Spec
CONSTANTS
  Accounts = {ann}
  Changes = {change}
  MaxSignIns = 2
  Keys = {k1}
  MaxItems = 2
  MaxVersions <- MCMaxVersions
  MaxSent = 2
  ClientMembers = {cli, both}
  Admins = {adm}
  Accountants = {both}
  MaxEvents = 4
  Callers = {p1, p2, p3}
  Rows = {r1}
  MaxChunks = 2
  Receipts <- MCReceipts
  Prices = {1, 2}
  MaxLines = 2
  People = {x, y}
  Replacements = {1, 2}
CHECK_DEADLOCK FALSE
INVARIANTS ApiInv OldSessionsOverlapped RepeatedCallsCountOnce VersionFixesContent AcceptedIsBacked
PROPERTIES MovesAreTold EveryCallEnds ReplacementLeavesList
