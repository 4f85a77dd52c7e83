\* A certificate is asked for with the first message of a session.
SPECIFICATION SceneSpec
CONSTANTS
  near = near
  far = far
  nowhere = nowhere
  basic = basic
  plus = plus
  orange = orange
  mtn = mtn
  ph = ph
  n1 = n1
  h1 = h1
  h2 = h2
  c1 = c1
  p1 = p1
  a1 = a1
  a2 = a2
  None = None
  Nobody = Nobody
  Never = Never
  NoJob = NoJob
  StartStep = "destination_dates"
  StoredNext <- ShortFlow
  RetryLimit = 1
  Trips <- AllTrips
  Plans <- TwoPlans
  Price <- TravelPrice
  Providers <- TwoOperators
  Offers <- AnyOperators
  Phones <- OnePhone
  Numbers <- OneNumber
  Handlers <- TwoHandlers
  PoolSize = 5
  MaxMessages = 6
  MaxRepeats = 1
  MaxFaults = 1
  Notices <- OneNotice
  Asks <- TwoAsks
  Partners <- OnePartner
  NoticeSize = 2
  MaxAttempts = 2
  Window = 1
  ResendLimit = 1
  ResendWindow = 1
  MinDays = 2
  Retentions <- ShortAndLong
  MaxSessions = 2
  MaxReceipts = 1
  MaxTime = 3
  MaxFailures = 2
  Scenes = {"asks"}
INVARIANTS
  AskersAreAnswered
SYMMETRY Symmetry
CHECK_DEADLOCK FALSE
