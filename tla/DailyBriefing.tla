---------------------------- MODULE DailyBriefing ----------------------------
(***************************************************************************)
(* What the Daily Deal Hunter e-mail of one date promises, without workers *)
(* or storage: at most one message is delivered, the record of the date    *)
(* names a message that exists and is never rewritten, and a delivered     *)
(* message ends up recorded.                                               *)
(***************************************************************************)
CONSTANTS Messages, Foreign, Nothing

VARIABLES delivered, recorded

Init == delivered = {} /\ recorded = Nothing

Deliver == \E m \in Messages :
  delivered = {} /\ delivered' = {m} /\ UNCHANGED recorded

Record == \E m \in delivered \cup Foreign :
  recorded = Nothing /\ recorded' = m /\ UNCHANGED delivered

Next == Deliver \/ Record

Safety == Init /\ [][Next]_<<delivered, recorded>>
Spec == Safety /\ WF_<<delivered, recorded>>(Record)
=============================================================================
