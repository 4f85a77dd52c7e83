\* A download overlaps a correction.
SPECIFICATION SceneSpec
CONSTANTS
  near = near
  far = far
  young = young
  old = old
  c1 = c1
  fr = fr
  en = en
  e1 = e1
  e2 = e2
  r1 = r1
  s1 = s1
  i1 = i1
  i2 = i2
  k1 = k1
  k2 = k2
  a1 = a1
  NoPrice = NoPrice
  NoFile = NoFile
  Cases = {c1}
  Insured = {c1}
  Trips <- TwoTrips
  Holders <- TwoHolders
  Price <- AllPrices
  Locales = {fr, en}
  Editors = {e1, e2}
  Scripts = {s1}
  Issuers = {i1, i2}
  Readers = {r1}
  Cashiers = {k1, k2}
  Deleters = {a1}
  MaxPolicies = 2
  MaxEdits = 5
  MaxPayments = 2
  MaxFaults = 1
  Scenes = {"correction"}
INVARIANTS
  FileShowsCertificate
CHECK_DEADLOCK FALSE
