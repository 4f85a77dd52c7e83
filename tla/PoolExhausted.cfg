\* Two customers write at once to a pool of two connections.
SPECIFICATION FairSpec
CONSTANTS
  near = near
  far = far
  nowhere = nowhere
  basic = basic
  plus = plus
  orange = orange
  mtn = mtn
  StartStep = "destination_dates"
  StoredNext <- ShortFlow
  RetryLimit = 1
  Trips <- OneTrip
  Plans = {basic}
  Price <- TravelPrice
  Providers = {orange}
  Offers <- OrangeOnly
  Phones = {ph}
  None = None
  Numbers = {n1, n2}
  MaxMessages = 1
  Handlers = {h1, h2}
  Nobody = Nobody
  PoolSize = 2
  MaxRepeats = 0
  MaxFaults = 0
PROPERTIES
  RequestEnds
CHECK_DEADLOCK FALSE
