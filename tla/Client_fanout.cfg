SPECIFICATION Spec
CONSTANTS
  Main = m
  Workers = {w1, w2}
  Listings <- Lists
  Nameless = {"n"}
  Groups <- Asked
  Attempts = 2
  RequestTime = 2
  PollTime = 2
  Delays = {2}
  MaxItems = 3
  MaxBytes = 4
  MaxPages = 2
  PageSize = 1
  Sizes = {1, 2}
  MaxPolls = 2
  MaxFaults = 1
  MaxExpiries = 1
SYMMETRY Alike
INVARIANTS RejectedTokenNotResent ReportedAsRead WithinBudget CauseIsNamed
PROPERTIES NobodyOvertakes
