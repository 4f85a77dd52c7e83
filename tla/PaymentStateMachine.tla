------------------------- MODULE PaymentStateMachine -------------------------
(***************************************************************************)
(* The states of a payment and the moves the code allows between them:     *)
(* src/utils/payments/stateMachine.js.  Pure definitions, no state.        *)
(***************************************************************************)
EXTENDS Naturals, Sequences

PaymentStates == {"pending", "initiated", "awaiting_confirmation",
                  "completed", "failed", "expired", "cancelled"}

(* TRANSITIONS: the states reachable in one move.  An empty set is what     *)
(* makes a state terminal.                                                 *)
TRANSITIONS ==
  [s \in PaymentStates |->
     CASE s = "pending" -> PaymentStates \ {"pending"}
       [] s = "initiated" -> PaymentStates \ {"pending", "initiated"}
       [] s = "awaiting_confirmation" -> {"completed", "failed", "cancelled", "expired"}
       [] OTHER -> {}]

TerminalStates == {s \in PaymentStates : TRANSITIONS[s] = {}}

IsTerminal(s) == s \in TerminalStates
IsKnownState(s) == s \in PaymentStates

(* canTransition(from, to): the verdict of the guard, by its reason.  A     *)
(* move to the present state is allowed and is a no-op.                    *)
Verdict(from, to) ==
  CASE ~IsKnownState(from) \/ ~IsKnownState(to) -> "unknown_state"
    [] from = to -> "noop"
    [] IsTerminal(from) -> "terminal_state"
    [] to \notin TRANSITIONS[from] -> "illegal_transition"
    [] OTHER -> "ok"

RealMoveUnchecked(from, to) ==  \* faulty: verdict.ok not looked at
  Verdict(from, to) # "noop"

(* A move that transition() commits: verdict.ok and not verdict.noop.       *)
RealMove(from, to) == Verdict(from, to) = "ok"

(* historyEntry and appendHistory: the audit trail, its oldest entries      *)
(* dropped beyond HistoryCap.                                              *)
HistoryCap == 100
HistoryEntry(from, to) == [from |-> from, to |-> to]
AppendHistory(history, entry) ==
  LET next == Append(history, entry) IN
  IF Len(next) > HistoryCap
    THEN SubSeq(next, Len(next) - HistoryCap + 1, Len(next))
    ELSE next
=============================================================================
