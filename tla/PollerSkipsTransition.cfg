\* The poller alone settles a payment.
SPECIFICATION Spec
CONSTANTS
  s1 = s1
  c1 = c1
  c2 = c2
  Sessions = {s1}
  Payers = {p1}
  Cases <- OneCase
  Quotes <- TheirQuotes
  Handlers = {}
  Pollers = {poll}
  Admins = {}
  Sweepers = {}
  NoTx = NoTx
  NoCase = NoCase
  CallbackHasReference = TRUE
  StrayStatuses = {}
  OfficeStatuses <- NotByHand
  MaxStarts = 1
  MaxFaults = 0
INVARIANTS
  PolicyOnlyFromCompleted
CHECK_DEADLOCK FALSE
