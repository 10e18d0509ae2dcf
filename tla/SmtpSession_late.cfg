SPECIFICATION Spec
CONSTANTS
  Sessions = {1}
  Free = {}
  Peers <- MCPrompt
  Callers = {"grey"}
  ReusedAfterTls = FALSE
  LateAnswers = TRUE
CHECK_DEADLOCK FALSE
INVARIANT AnswerIsOwn
