\* Two payments at once: over one row, or of one quote from two numbers.
SPECIFICATION Spec
CONSTANTS
  s1 = s1
  c1 = c1
  c2 = c2
  Sessions = {s1}
  Payers = {p1, p2}
  Cases <- TwoCases
  Quotes <- TheirQuotes
  Handlers = {h1}
  Pollers = {}
  Admins = {}
  Sweepers = {}
  NoTx = NoTx
  NoCase = NoCase
  CallbackHasReference = FALSE
  StrayStatuses = {}
  OfficeStatuses <- FirstReopened
  MaxStarts = 2
  MaxFaults = 0
INVARIANTS
  OnePolicyPerCase
  AttachedSaleCoversCase
SYMMETRY Symmetry
CHECK_DEADLOCK FALSE
