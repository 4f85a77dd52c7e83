------------------------------ MODULE MCPayments ------------------------------
(***************************************************************************)
(* Small instances of Payments: what a conversation may pay for, and what  *)
(* the office makes of a case by hand.                                     *)
(***************************************************************************)
EXTENDS Payments, TLC

CONSTANTS s1, c1, c2

OneCase == {c1}
TwoCases == {c1, c2}
TheirQuotes == [s \in Sessions |-> Cases]
MaybeNone == [s \in Sessions |-> Cases \cup {NoCase}]

NotByHand == [c \in Cases |-> {}]
FirstReopened == [c \in Cases |-> IF c = c1 THEN {"AwaitingPayment"} ELSE {}]

Symmetry == Permutations(Payers)
=============================================================================
