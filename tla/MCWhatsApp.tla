------------------------------ MODULE MCWhatsApp ------------------------------
(***************************************************************************)
(* Small instances of Conversation and of Delivery.  Each behaviour plays  *)
(* one of the scenes: two requests that race for a conversation, a payment *)
(* that ends meanwhile, one purchase from beginning to end, or what is     *)
(* sent to a customer.                                                     *)
(***************************************************************************)
EXTENDS Conversation, Delivery, TLC

CONSTANTS near, far, nowhere, basic, plus, orange, mtn, ph, n1, h1, h2,
          c1, p1, a1, a2,
          Scenes   \* the scenes that are played

VARIABLE scene                \* the one this behaviour plays

ASSUME ScenesAssumption ==
  Scenes \subseteq {"race", "outcome", "purchase", "notice", "asks", "both", "partner"}

-----------------------------------------------------------------------------
(* A stored flow that is short enough to reach a payment in a few messages; *)
(* a trip that one plan covers, one that two do, and one that none does.    *)
ShortFlow == [destination_dates |-> "plan"]
Premium(t, p) ==
  CASE t = near -> IF p = basic THEN 1 ELSE 0
    [] t = far -> IF p = basic THEN 2 ELSE 3
    [] OTHER -> 0
AllTrips == {near, far, nowhere}
TwoPlans == {basic, plus}
TravelPrice == [t \in AllTrips |-> [p \in TwoPlans |-> Premium(t, p)]]

TwoOperators == {orange, mtn}
AnyOperators == {{}, {orange}, {orange, mtn}}
OnePhone == {ph}
OneNumber == {n1}
TwoHandlers == {h1, h2}
OneNotice == {c1}
TwoAsks == {a1, a2}
OnePartner == {p1}
ShortAndLong == {1, 3}

(* The conversations that race keep to the trip and the operator of which   *)
(* there is one choice each.                                                *)
Plain ==
  \A s \in 1 .. Len(sessions) : sessions[s].trip \in {None, near} /\ sessions[s].options \subseteq {orange}

(* Two requests of one number at once, and a redelivery.                    *)
Race == received[n1] <= 4 /\ repeats <= 1 /\ faults = 0 /\ Plain

(* A message more, so that a request meets a payment that ended.            *)
Outcome == received[n1] <= 5 /\ repeats = 0 /\ faults = 0 /\ Plain

(* One message at a time through the whole purchase: six messages, or five  *)
(* with a failed step or a crash.                                           *)
Purchase == received[n1] + faults <= 6 /\ repeats = 0 /\ Cardinality(Holding) <= 1

(* A job is left aside.                                                     *)
Aside(j) == sends[j].pc = "new"

(* A notice in two replies and a certificate, a send is attempted twice,    *)
(* and the archive is pruned: by a retention that is too short, or not.     *)
(* Without a sale there is no certificate, and receipts are left aside.     *)
NoticeAlone ==
  /\ Aside(a1) /\ Aside(a2) /\ Aside(p1)
  /\ sends[c1].wordsOnly => receipts = 0 /\ failures <= 1

(* The certificate is asked for twice, where one is the limit; the two are  *)
(* alike, and a1 comes first.                                               *)
Asking == (Aside(a1) => Aside(a2)) /\ Aside(c1) /\ Aside(p1) /\ now <= 1 /\ failures <= 1

(* It is asked for while the notice of a sale is sent, in its session.      *)
NoticeAsked ==
  /\ Aside(a2) /\ Aside(p1) /\ ~sends[c1].wordsOnly
  /\ session = 1 /\ receipts = 0 /\ now <= 1 /\ failures <= 1

(* It is asked for while a partner writes.                                  *)
PartnerAsked == Aside(c1) /\ Aside(a2) /\ receipts = 0 /\ now <= 1 /\ failures <= 1

-----------------------------------------------------------------------------
(* Either the conversations move or what is sent does.                      *)
Talking == scene \in {"race", "outcome", "purchase"}

sceneVars == <<vars, deliveryVars, scene>>

(* The templates that are configured matter to what reads them.             *)
SceneInit ==
  /\ scene \in Scenes
  /\ Init /\ DeliveryInit
  /\ Talking => templates = {}
  /\ scene \in {"asks", "partner"} => "notice" \notin templates
  /\ scene = "both" => templates \in {{}, {"notice", "certificate"}}

SceneNext ==
  /\ UNCHANGED scene
  /\ \/ Talking /\ Next /\ UNCHANGED deliveryVars
        /\ CASE scene = "race" -> Race'
             [] scene = "outcome" -> Outcome'
             [] scene = "purchase" -> Purchase'
     \/ ~Talking /\ DeliveryNext /\ UNCHANGED vars
        /\ CASE scene = "notice" -> NoticeAlone'
             [] scene = "asks" -> Asking'
             [] scene = "both" -> NoticeAsked'
             [] scene = "partner" -> PartnerAsked'

SceneSpec == SceneInit /\ [][SceneNext]_sceneVars

-----------------------------------------------------------------------------
(* The shapes of the variables.                                            *)
SceneTypeOK == TypeOK /\ DeliveryTypeOK

Symmetry == Permutations({h1, h2})
=============================================================================
