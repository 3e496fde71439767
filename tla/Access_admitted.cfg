SPECIFICATION Spec
CONSTANTS
  q1 = q1
  q2 = q2
  Requests <- Two
  Clients = {c1}
  FormLife = 1
  SessionLife = 3
  IdleTimeout = 2
  TouchInterval = 1
  TokenLife = 2
  RevealLife = 1
  FailureWindow = 2
  FailuresPerClient = 1
  GlobalBudget = 2
  BackoffMax = 2
  MaxTracked = 2
  MaxConsumed = 1
  PruneInterval = 1
  Slots = 2
  MaxActive = 1
  MaxReveals = 1
  Operations = {"create", "change"}
  MaxForms = 1
  MaxSessions = 2
  MaxTokens = 2
  MaxPasswords = 2
  MaxIssued = 0
  MaxStarts = 1
  MaxAsked = 3
  MaxClock = 2
SYMMETRY Alike
CHECK_DEADLOCK FALSE
PROPERTIES TokensOfCurrentPassword
