\* Seven messages of one customer: a trip changed on the review screen.
SPECIFICATION Spec
CONSTANTS
  near = near
  far = far
  nowhere = nowhere
  basic = basic
  plus = plus
  orange = orange
  mtn = mtn
  StartStep = "destination_dates"
  StoredNext <- ShortFlow
  RetryLimit = 1
  Trips <- TwoTrips
  Plans = {basic}
  Price <- TravelPrice
  Providers = {orange}
  Offers <- OrangeOnly
  Phones = {ph}
  None = None
  Numbers = {n1}
  MaxMessages = 7
  Handlers = {h1}
  Nobody = Nobody
  PoolSize = 5
  MaxRepeats = 0
  MaxFaults = 0
INVARIANTS
  ChargedIsQuoted
CHECK_DEADLOCK FALSE
