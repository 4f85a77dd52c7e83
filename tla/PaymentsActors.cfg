\* One payer, with or without a quote; every actor, a contradicting provider, one fault.
SPECIFICATION FairSpec
CONSTANTS
  s1 = s1
  c1 = c1
  c2 = c2
  Sessions = {s1}
  Payers = {p1}
  Cases <- OneCase
  Quotes <- MaybeNone
  Handlers = {h1}
  Pollers = {asks}
  Admins = {asks}
  Sweepers = {sweep}
  NoTx = NoTx
  NoCase = NoCase
  CallbackHasReference = TRUE
  StrayStatuses = {"failed"}
  OfficeStatuses <- NotByHand
  MaxStarts = 1
  MaxFaults = 1
INVARIANTS
  TypeOK
  PaidFirst
  CompletedIsInsured
  EachMoveOnce
PROPERTIES
  OutcomeIsFinal
  KeepsPromise
  EveryPaymentEnds
CHECK_DEADLOCK FALSE
