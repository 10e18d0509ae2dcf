SPECIFICATION Spec
CONSTANTS
  a = a  b = b
  t1 = t1  t2 = t2  t3 = t3
  j1 = j1  j2 = j2
  Files = {1}
  Emails = {a}
  Contents <- MCShared
  Owned = {1}
  NoMx = {}
  Outlook = {}
  VerifyPlus = {}
  Misquoted = {}
  Ticks = {t1, t2}
  GreyJobs = {j1, j2}
  NoJob = NoJob
  SlowHandlers = {}
  FaultKinds = {"crash", "dberror", "csv"}
  MaxFaults = 2
  MaxStalled = 1
SYMMETRY MCSymmetry
CHECK_DEADLOCK FALSE
INVARIANTS
  TypeOK
  DataBehindStatus
  LoadedBeforePending
  ValidatedBeforeReady
  NoGreyAfterCheck
  GreyBehind
