SPECIFICATION FairSpec
CONSTANTS
  a = a  b = b
  t1 = t1  t2 = t2  t3 = t3
  j1 = j1  j2 = j2
  Files = {1}
  Emails = {a, b}
  Contents <- MCBoth
  Owned = {1}
  NoMx = {b}
  Outlook = {}
  VerifyPlus = {b}
  Misquoted = {}
  Ticks = {t1, t2}
  GreyJobs = {j1, j2}
  NoJob = NoJob
  SlowHandlers = {"grey", "report"}
  FaultKinds = {}
  MaxFaults = 0
  MaxStalled = 1
CHECK_DEADLOCK FALSE
INVARIANTS
  ValidatedBeforeReady
  NoGreyAfterCheck
PROPERTIES
  EveryFileSettles
