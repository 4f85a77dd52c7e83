\* A refused payment is tried again from the same number.
SPECIFICATION Spec
CONSTANTS
  s1 = s1
  c1 = c1
  c2 = c2
  Sessions = {s1}
  Payers = {p1}
  Cases <- OneCase
  Quotes <- TheirQuotes
  Handlers = {h1}
  Pollers = {}
  Admins = {}
  Sweepers = {}
  NoTx = NoTx
  NoCase = NoCase
  CallbackHasReference = TRUE
  StrayStatuses = {}
  OfficeStatuses <- NotByHand
  MaxStarts = 2
  MaxFaults = 0
PROPERTIES
  RetryIsANewPayment
CHECK_DEADLOCK FALSE
