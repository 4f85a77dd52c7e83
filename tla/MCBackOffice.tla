----------------------------- MODULE MCBackOffice -----------------------------
(***************************************************************************)
(* Small instances of the modules of the office.  Each behaviour plays one *)
(* of its areas: accounts and their supervision, the partners' API,        *)
(* settings or the zones of countries, uploaded files, logins, prices, or  *)
(* the numbers of documents.                                               *)
(***************************************************************************)
EXTENDS Accounts, PartnerApi, Numbers, Uploads, Logins, Settings, Pricing, TLC

CONSTANTS admin, esther, late, agency, agent, a1,                \* users
          t1, t2, t3, r1, r2, v1, v2, v3, s1, s2,                \* requests
          k1, k2, owner, session, sell, pay, once, this, that,   \* the API
          token, secret, number, w1, w2,                         \* settings
          plan1, document1, u1, u2, e1, e2, e3,                  \* files, logins
          world, africa, asia,                                   \* zones of prices
          Areas   \* the areas that are played

VARIABLE area   \* the one this behaviour plays

ASSUME AreasAssumption ==
  Areas \subseteq {"accounts", "partners", "settings", "uploads", "logins", "codes",
                   "pricing", "numbers"}

-----------------------------------------------------------------------------
(* Accounts: one administrator, two sub-administrators of which one is      *)
(* still to be hired; an agency of the first with an agent under it, and a  *)
(* login that is free.                                                      *)
OneAdmin == {admin}
TwoSubAdmins == {esther, late}
NoInsurer == {}
ThreeAgents == {agency, agent, a1}
AtTheStart == {admin, esther, agency, agent}
TheirParents == [a \in ThreeAgents |-> IF a = agent THEN agency ELSE Nobody]
TheirCreators == [a \in ThreeAgents |-> IF a \in {agency, agent} THEN esther ELSE Nobody]
ThreeTasks == {t1, t2, t3}

(* Partners: a key and one that may replace it, a session; the same call    *)
(* several times, another body under the same Idempotency-Key, a call from  *)
(* elsewhere without one.                                                   *)
TwoKeys == {k1, k2}
OneKey == {k1}
TwoRoutes == {sell, pay}
Sent(by, inside, route, idemKey, body) ==
  [token |-> by, inside |-> inside, route |-> route, idem |-> idemKey, body |-> body]
ThreeCalls ==
  {Sent(k1, TRUE, sell, once, this), Sent(session, TRUE, sell, once, that),
   Sent(k2, FALSE, pay, None, this)}
OneOwner == {owner}
OneIdem == {once}
Expiries == {0, Never}
TwoBodies == {this, that}

(* Settings: two administrators save in two workers, and one of these is    *)
(* asked by two readers; the copy lasts one unit of time.                   *)
Entry(key, what) == [key |-> key, what |-> what]
ThreeSettings == {token, secret, number}
TwoSecrets == {token, secret}
SettingForms ==
  {<<Entry(token, "value"), Entry(secret, "blank"), Entry(number, "value")>>,
   <<Entry(number, "blank"), Entry(token, "null")>>}
TwoWorkers == {w1, w2}
TwoSavers == {s1, s2}
TwoReaders == {r1, r2}
SaversAndReaders == TwoSavers \cup TwoReaders
Homes == [t \in SaversAndReaders |-> IF t = s2 THEN w2 ELSE w1]

(* Zones: the groups of countries, whose copies do not wait for each other. *)
SentZones ==
  {<<Entry(token, "value"), Entry(number, "invalid")>>, <<Entry(secret, "value")>>}

(* Uploads: three requests on a plan and a contractual document.            *)
OnePlan == {plan1}
OneDocument == {document1}

(* Logins: two accounts, three addresses, three requests.                   *)
TwoUsers == {u1, u2}
ThreeEmails == {e1, e2, e3}
FirstEmails == [u \in TwoUsers |-> IF u = u1 THEN e1 ELSE e2]

(* Codes: one account, that keeps its address, and four requests.           *)
FourTasks == {t1, t2, t3, s1}
OneUser == {u1}
OneEmail == {e1}

(* Pricing: the plan that the commission table was made for, one with three *)
(* columns and gaps, one with odd labels and a fixed price beside them, one *)
(* with nothing but that, and one that is not for travellers.               *)
OneColumn == <<world>>
Row1(days, price) ==
  [days |-> days, price |-> [c \in {world, africa, asia} |-> IF c = world THEN price ELSE Unset]]
Row3(days, inAfrica, inAsia, inWorld) ==
  [days |-> days, price |-> [c \in {world, africa, asia} |->
     IF c = world THEN inWorld ELSE IF c = africa THEN inAfrica ELSE inAsia]]
PlanRow(travel, fixed, flat, columns, rowsOf) ==
  [travel |-> travel, fixed |-> fixed, flat |-> flat, columns |-> columns, rows |-> rowsOf]
FivePlans ==
  {PlanRow(TRUE, FALSE, Unset, OneColumn,
           <<Row1(10, 15000), Row1(45, 30500), Row1(93, 43500), Row1(180, 60500), Row1(365, 78000)>>),
   PlanRow(TRUE, TRUE, Unset, <<africa, asia, world>>,
           <<Row3(10, 1000, 1500, 2000), Row3(45, Unset, 4500, 5700), Row3(93, Unset, Unset, Unset)>>),
   PlanRow(TRUE, FALSE, 300, OneColumn,
           <<Row1(Unset, 100), Row1(32, 200), Row1(32, 500), Row1(0, 600)>>),
   PlanRow(TRUE, FALSE, 300, <<>>, <<>>),
   PlanRow(FALSE, FALSE, 300, OneColumn, <<Row1(10, 400), Row1(93, Unset)>>)}
ThreeZones == {world, africa, asia}
AgesAtLimits == {15, 16, 75, 76, 80, 81, 85, 86, Unset}
StaysAtLimits == {1, 10, 11, 45, 93, 400}

(* Numbers: three sales that take two numbers each; years of two months.    *)
PolicyThenInvoice == <<"policy", "invoice">>
ThreeFormats ==
  {[year |-> TRUE, month |-> FALSE], [year |-> TRUE, month |-> TRUE], [year |-> FALSE, month |-> FALSE]}
ThreeSales == {v1, v2, v3}

-----------------------------------------------------------------------------
(* One area moves, the others rest.                                         *)
partnerVars == <<keys, disabled, buckets, idem, effects, caller, failures>>
office == <<vars, partnerVars, settingVars, uploadVars, loginVars, priceVars, numbersVars,
            now, area>>

Plays(areas) == area \in areas
Proving == {"logins", "codes"}

NoPrices ==
  /\ plan = Unset /\ zone = Unset /\ stay = Unset /\ age = Unset /\ birthdays = 0
  /\ quote = Unset /\ sale = Unset /\ line = Unset

(* A key is valid on the first day, or for good.                            *)
Partnering ==
  ApiNext /\ \A k \in KeyIds : keys'[k] # Absent => keys'[k].expires \in Expiries

(* Three requests of anybody, or four about one account's password.         *)
Logging ==
  \/ \E t \in ThreeTasks : AttemptStep(t, Users, Emails)
  \/ \E u \in Users, e \in Emails : ChangeEmail(u, e)
  \/ LoginTick
Resetting == (\E t \in FourTasks : AttemptStep(t, OneUser, OneEmail)) \/ LoginTick

OfficeInit ==
  /\ area \in Areas
  /\ Init /\ ApiInit /\ NumbersInit /\ UploadsInit /\ LoginsInit /\ SettingsInit
  /\ IF Plays({"numbers"}) THEN TRUE ELSE format = CHOOSE f \in Formats : TRUE
  /\ IF Plays({"settings"}) THEN TRUE ELSE stored = "settings"
  /\ IF Plays({"pricing"}) THEN PricingInit ELSE NoPrices

OfficeNext ==
  /\ UNCHANGED area
  /\ \/ area = "accounts" /\ Next
     \/ area = "partners" /\ Partnering /\ UNCHANGED faults
     \/ area = "settings" /\ SettingsNext /\ UNCHANGED faults
     \/ area = "uploads" /\ UploadsNext /\ UNCHANGED faults
     \/ area = "logins" /\ Logging /\ UNCHANGED faults
     \/ area = "codes" /\ Resetting /\ UNCHANGED faults
     \/ area = "pricing" /\ PricingNext /\ UNCHANGED faults
     \/ area = "numbers" /\ NumbersNext /\ UNCHANGED faults
  /\ IF Plays({"accounts"}) THEN TRUE ELSE UNCHANGED <<tables, today, req>>
  /\ IF Plays({"partners"}) THEN TRUE ELSE UNCHANGED partnerVars
  /\ IF Plays({"settings"}) THEN TRUE ELSE UNCHANGED settingVars
  /\ IF Plays({"uploads"}) THEN TRUE ELSE UNCHANGED uploadVars
  /\ IF Plays(Proving) THEN TRUE ELSE UNCHANGED loginVars
  /\ IF Plays({"pricing"}) THEN TRUE ELSE UNCHANGED priceVars
  /\ IF Plays({"numbers"}) THEN TRUE ELSE UNCHANGED numbersVars
  /\ IF Plays({"partners"}) THEN TRUE ELSE UNCHANGED now

Office == OfficeInit /\ [][OfficeNext]_office

-----------------------------------------------------------------------------
(* The shapes of the variables of the area.                                 *)
AreaTypeOK ==
  CASE area = "partners" -> ApiTypeOK
    [] area = "numbers" -> NumbersTypeOK
    [] area = "settings" -> SettingsTypeOK
    [] area = "uploads" -> UploadsTypeOK
    [] area \in Proving -> LoginsTypeOK
    [] OTHER -> TRUE

Symmetry == Permutations(ThreeTasks) \cup Permutations(TwoReaders)
=============================================================================
