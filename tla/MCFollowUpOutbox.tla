-------------------------- MODULE MCFollowUpOutbox --------------------------
(***************************************************************************)
(* Four requests of FollowUpOutbox for TLC: one confirmation sent twice,   *)
(* another for the same record, and one for a second record.  A behaviour  *)
(* has one kind of trouble, chosen at the start: a restart among three of  *)
(* them, a change of the first record and a restart while the second       *)
(* record is left alone, or a communication that is not updated while all  *)
(* four are served.  The parts only leave steps of FollowUpOutbox out.     *)
(***************************************************************************)
EXTENDS FollowUpOutbox, TLC

CONSTANTS q1, q2, q3, q4, t1, t2, t3, r1, r2

VARIABLE trouble

TokensOf == [q \in {q1, q2, q3, q4} |-> CASE q = q3 -> t2 [] q = q4 -> t3 [] OTHER -> t1]
RecordsOf == [t \in {t1, t2, t3} |-> IF t = t3 THEN r2 ELSE r1]

TroubledInit == Init /\ trouble \in {"restart", "change", "update"}

TroubledNext ==
  /\ Next /\ UNCHANGED trouble
  /\ trouble = "update" => crashes' = 0
  /\ IF trouble = "change" THEN request'[q4].pc = "new" ELSE events' = 0
  /\ trouble = "restart" => request'[q3].pc = "new"
  /\ trouble # "update" => faults' = 0

TroubledSpec == TroubledInit /\ [][TroubledNext]_<<vars, trouble>>

(* Requests with the same token are interchangeable *)
Symmetry == Permutations({q1, q2})
=============================================================================
