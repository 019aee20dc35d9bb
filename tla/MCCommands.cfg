SPECIFICATION FairSpec
CONSTANTS
  Edrs = {e1, e2}
  Fields = {f1, f2, f3}
  Supported = {f1, f2}
  Oids = {o1}
  Oid <- MCOid
  Plans <- MCPlans
  MaxAttempts = 2
  BatchLimit = 2
  ReportLimit = 1
  MaxEdits = 2
INVARIANTS TableSound DeviceNeverRegresses
PROPERTIES FinishedStaysFinished PendingSettles OutcomesGetReported
