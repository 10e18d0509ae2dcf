SPECIFICATION Spec
CONSTANTS
  a = a  b = b
  t1 = t1  t2 = t2  t3 = t3
  j1 = j1  j2 = j2
  Files <- MCFiles
  Emails = {a}
  Contents <- MCShared
  Owned <- MCFiles
  NoMx = {}
  Outlook = {}
  VerifyPlus = {}
  Misquoted = {2}
  Ticks = {t1, t2, t3}
  GreyJobs = {j1, j2}
  NoJob = NoJob
  SlowHandlers = {}
  FaultKinds = {"csv", "recheck"}
  MaxFaults = 1
  MaxStalled = 1
SYMMETRY MCSymmetry
CHECK_DEADLOCK FALSE
INVARIANTS
  StatusIsTheLock
  NoLostUpdate
  SingleOwner
  AtMostOneNotice
PROPERTIES
  StatusMovesForward
  ImplementsContract
