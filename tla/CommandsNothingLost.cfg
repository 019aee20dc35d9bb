SPECIFICATION Spec
CONSTANTS
  Edrs = {e1}
  Fields = {f1}
  Supported = {f1}
  Oids = {o1}
  Oid <- MCOid
  Plans <- MCPlans
  MaxAttempts = 2
  BatchLimit = 1
  ReportLimit = 2
  MaxEdits = 2
INVARIANTS NothingLost
