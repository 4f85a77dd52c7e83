------------------------------ MODULE MCPolicies ------------------------------
(***************************************************************************)
(* A small instance of Policies: two trips and two holders, of which one   *)
(* combination has no price.  Each behaviour plays one of the scenes: who  *)
(* works on a case at the same time, and within what bounds.               *)
(***************************************************************************)
EXTENDS Policies, TLC

CONSTANTS near, far, young, old, c1, fr, en, e1, e2, r1, s1, i1, i2, k1, k2, a1,
          Scenes  \* the scenes that are played

VARIABLE scene    \* the one this behaviour plays

ASSUME ScenesAssumption == Scenes \subseteq {"correction", "editors", "office"}

TwoTrips == {near, far}
TwoHolders == {young, old}

(* The far trip costs more; it is not sold to the old holder.               *)
PriceList(d) ==
  CASE d.trip = near -> IF d.holder = young THEN 1 ELSE 2
    [] d.holder = young -> 3
    [] OTHER -> NoPrice
AllPrices == [d \in [trip : TwoTrips, holder : TwoHolders] |-> PriceList(d)]

SceneInit ==
  /\ Init
  /\ scene \in Scenes
  /\ scene # "correction" => details[c1] = [trip |-> near, holder |-> young]

(* One writer at a time, a person or the script, downloads at any moment, a *)
(* fault or a crash.                                                        *)
Correction ==
  /\ scene = "correction"
  /\ edits < 3 \/ edits' = edits
  /\ overlapped' = {}
  /\ late' \subseteq {near}
  /\ UNCHANGED <<issue, cash, cancel>>

(* Two corrections at once, past the limit of an operator's corrections.    *)
TwoEditors ==
  /\ scene = "editors"
  /\ UNCHANGED <<late, read, issue, cash, cancel, faults>>
  /\ \A w \in Scripts : edit'[w].pc = "idle"
  /\ \A w \in Editors : edit'[w].pc # "idle" => edit'[w].new.holder = young

(* Two issues, two payment updates, a cancellation and a re-freeze at once, *)
(* a fault or a crash.                                                      *)
Office ==
  /\ scene = "office"
  /\ edits' <= 1
  /\ UNCHANGED read
  /\ \A w \in Editors : edit'[w].pc = "idle"
  /\ late' \subseteq {near}
  /\ \A w \in Issuers : issue'[w].pc # "idle" => issue'[w].price = 1

SceneNext == Next /\ UNCHANGED scene /\ (Correction \/ TwoEditors \/ Office)

SceneSpec == SceneInit /\ [][SceneNext]_<<vars, scene>>

Symmetry == Permutations({e1, e2}) \cup Permutations({i1, i2}) \cup Permutations({k1, k2})
=============================================================================
