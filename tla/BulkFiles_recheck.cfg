SPECIFICATION Spec
CONSTANTS
  a = a  b = b
  t1 = t1  t2 = t2  t3 = t3
  j1 = j1  j2 = j2
  Files = {1}
  Emails = {a, b}
  Contents <- MCBoth
  Owned = {1}
  NoMx = {}
  Outlook = {}
  VerifyPlus = {}
  Misquoted = {}
  Ticks = {t1, t2}
  GreyJobs = {j1, j2}
  NoJob = NoJob
  SlowHandlers = {}
  FaultKinds = {"recheck"}
  MaxFaults = 1
  MaxStalled = 1
CHECK_DEADLOCK FALSE
INVARIANTS
  NoGreyAfterCheck
