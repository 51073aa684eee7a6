--------------------------- MODULE ConfirmedMail ---------------------------
(***************************************************************************)
(* What an administrator who confirms follow-up e-mails may rely on,        *)
(* without requests, claims or rows: a confirmation is mailed at most once, *)
(* its outcome is decided at most once, it is accepted only if its mail has *)
(* left, and no more than Limit are ever accepted or unsure.                *)
(***************************************************************************)
EXTENDS Naturals, FiniteSets

CONSTANTS Confirmations, Limit

VARIABLES delivered,  \* the confirmations whose mail has left
          accepted, unsure, dropped  \* what was decided about them

outcomes == <<accepted, unsure, dropped>>
vars == <<delivered, outcomes>>

Init == delivered = {} /\ outcomes = <<{}, {}, {}>>

Deliver(t) ==
  /\ t \notin delivered /\ delivered' = delivered \cup {t}
  /\ UNCHANGED outcomes

Undecided(t) == t \notin accepted \cup unsure \cup dropped
Room == Cardinality(accepted \cup unsure) < Limit

Accept(t) ==
  /\ Undecided(t) /\ Room /\ t \in delivered
  /\ accepted' = accepted \cup {t} /\ UNCHANGED <<delivered, unsure, dropped>>
LeaveUnsure(t) ==
  /\ Undecided(t) /\ Room
  /\ unsure' = unsure \cup {t} /\ UNCHANGED <<delivered, accepted, dropped>>
Drop(t) ==
  /\ Undecided(t)
  /\ dropped' = dropped \cup {t} /\ UNCHANGED <<delivered, accepted, unsure>>

Next == \E t \in Confirmations : Deliver(t) \/ Accept(t) \/ LeaveUnsure(t) \/ Drop(t)

Safety == Init /\ [][Next]_vars
=============================================================================
