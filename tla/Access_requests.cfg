SPECIFICATION Spec
CONSTANTS
  q1 = q1
  q2 = q2
  Requests <- Two
  Clients = {c1}
  FormLife = 1
  SessionLife = 3
  IdleTimeout = 2
  TouchInterval = 1
  TokenLife = 2
  RevealLife = 1
  FailureWindow = 2
  FailuresPerClient = 1
  GlobalBudget = 2
  BackoffMax = 2
  MaxTracked = 1
  MaxConsumed = 1
  PruneInterval = 1
  Slots = 2
  MaxActive = 1
  MaxReveals = 1
  Operations = {"claim", "login", "reset", "change", "create", "view", "refresh", "logout", "others", "revoke", "api"}
  MaxForms = 2
  MaxSessions = 2
  MaxTokens = 2
  MaxPasswords = 2
  MaxIssued = 1
  MaxStarts = 2
  MaxAsked = 3
  MaxClock = 2
CONSTRAINT OneSide
SYMMETRY Alike
CHECK_DEADLOCK FALSE
INVARIANTS UsedOnce GuessesBounded NothingOutlivesPassword ChangesOnRecord
PROPERTIES IdleSessionsEnd
