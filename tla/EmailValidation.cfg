SPECIFICATION FairSpec
CONSTANTS
  Calls = {1, 2}
  Emails = {"a", "b", "c", "f", "x"}
  Domains = {"biz", "free"}
  Asked <- MCAsked
  DomainOf <- MCDomainOf
  NoDomain = "no domain"
  None = None
  Malformed = {"x"}
  Free = {"free"}
  Listed = {"biz"}
  Known = {"free"}
  Zones = {"zen"}
  PlusCalls = {1}
  Files = {1, 2}
  Held <- MCHeld
  Answers <- MCAnswers
  MxGap = 1
  SpamGap = 1
  CatchAllGap = 1
  ErrorGap = 0
  ProcessedGap = 0
  MaxDays = 1
CHECK_DEADLOCK FALSE
INVARIANTS
  TypeOK
  VerdictIsStored
  GreyHasHost
  BlameHasGround
  BehindThePlace
PROPERTIES
  StoredVerdictStays
  FinalStaysFinal
  ProblemKeepsStatusAndDate
  EveryValidationEnds
