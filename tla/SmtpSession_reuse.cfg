SPECIFICATION Spec
CONSTANTS
  Sessions = {1, 2}
  Free = {}
  Peers <- MCPrompt
  Callers = {"grey"}
  ReusedAfterTls = TRUE
  LateAnswers = FALSE
CHECK_DEADLOCK FALSE
INVARIANT OneConnectionAtATime
