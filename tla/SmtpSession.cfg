SPECIFICATION FairSpec
CONSTANTS
  Sessions = {1, 2}
  Free = {2}
  Peers <- MCPeers
  Callers = {"validate", "grey"}
  ReusedAfterTls = FALSE
  LateAnswers = FALSE
CHECK_DEADLOCK FALSE
INVARIANTS
  TypeOK
  AnswerIsOwn
  VerdictIsAboutTheEmail
  LockStep
  NothingInTheClear
  InStep
PROPERTIES
  EverySessionSettles
