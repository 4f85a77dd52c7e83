\* Every area of the office.
SPECIFICATION Office
CONSTANTS
  Catalogue <- FivePlans
  Zones <- ThreeZones
  Ages <- AgesAtLimits
  Stays <- StaysAtLimits
  Unset = Unset
  MaxBirthdays = 1
  admin = admin
  esther = esther
  late = late
  agency = agency
  agent = agent
  a1 = a1
  t1 = t1
  t2 = t2
  t3 = t3
  r1 = r1
  r2 = r2
  v1 = v1
  v2 = v2
  v3 = v3
  s1 = s1
  s2 = s2
  None = None
  Never = Never
  Factory = Factory
  k1 = k1
  k2 = k2
  owner = owner
  session = session
  sell = sell
  pay = pay
  once = once
  this = this
  that = that
  token = token
  secret = secret
  number = number
  w1 = w1
  w2 = w2
  plan1 = plan1
  document1 = document1
  u1 = u1
  u2 = u2
  e1 = e1
  e2 = e2
  e3 = e3
  world = world
  africa = africa
  asia = asia
  Nobody = Nobody
  Admins <- OneAdmin
  SubAdmins <- TwoSubAdmins
  InsurerSupervisors <- NoInsurer
  Agents <- ThreeAgents
  Founders <- AtTheStart
  Above <- TheirParents
  CreatedBy <- TheirCreators
  Requests <- ThreeTasks
  KeyIds <- TwoKeys
  Issued <- OneKey
  Owners <- OneOwner
  Session = session
  Routes <- TwoRoutes
  Idems <- OneIdem
  NoIdem = None
  Bodies <- TwoBodies
  Calls <- ThreeCalls
  Callers <- ThreeTasks
  DefaultRate = 1
  Window = 2
  MaxTime = 2
  MaxFailures = 1
  Kinds <- PolicyThenInvoice
  Formats <- ThreeFormats
  Sales <- ThreeSales
  MonthsPerYear = 2
  LastMonth = 2
  MaxChanges = 1
  MaxRollbacks = 1
  LastDay = 2
  Plans <- OnePlan
  Docs <- OneDocument
  FileRequests <- ThreeTasks
  NoFile = None
  MaxFileFaults = 1
  Users <- TwoUsers
  Emails <- ThreeEmails
  First <- FirstEmails
  Attempts <- FourTasks
  CodeTTL = 1
  MaxClock = 1
  MaxMoves = 1
  MaxLoginFaults = 1
  MaxFaults = 1
  Keys <- ThreeSettings
  Secrets <- TwoSecrets
  Token = token
  Forms <- SettingForms
  ZoneForms <- SentZones
  Workers <- TwoWorkers
  Tasks <- SaversAndReaders
  Home <- Homes
  Savers <- TwoSavers
  Nil = None
  TTL = 1
  LastTime = 1
  MaxFailedStatements = 1
  Areas = {"accounts", "partners", "settings", "uploads", "logins", "codes", "pricing", "numbers"}
INVARIANTS
  TypeOK
  OwnerListed
  NoDayUncovered
  WhoReachesWhom
  AreaTypeOK
  OncePerKey
  RevokedKeysEnd
  OnlyTheBusyWait
  WholeAndRecent
  DiskMatchesRows
  PasswordsProven
  PricesAgree
  NumbersServe
PROPERTIES
  AuditTrailKept
  NeverGoesBack
SYMMETRY Symmetry
CHECK_DEADLOCK FALSE
