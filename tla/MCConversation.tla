---------------------------- MODULE MCConversation ----------------------------
(***************************************************************************)
(* Small instances of Conversation: a stored flow short enough to reach a  *)
(* payment in a few messages, and three trips, of which one is covered by  *)
(* one plan, one by two at another price, and one by none.                 *)
(***************************************************************************)
EXTENDS Conversation, TLC

CONSTANTS near, far, nowhere, basic, plus, orange, mtn

OneTrip == {near}
TwoTrips == {near, far}
TravelPrice ==
  [t \in Trips |-> [p \in Plans |->
     CASE t = near -> IF p = basic THEN 1 ELSE 0
       [] t = far -> IF p = basic THEN 2 ELSE 3
       [] OTHER -> 0]]

ShortFlow == [destination_dates |-> "plan"]

OrangeOnly == {{orange}}

=============================================================================
