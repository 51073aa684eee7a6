---------------------------- MODULE MCCimQueues ----------------------------
(***************************************************************************)
(* What happens to the queues of two campaigns that share a broker         *)
(* conversation.  A behaviour is of one part, chosen at the start: either  *)
(* one campaign sends its touch, its follow-up and meets a crash while the *)
(* other waits, or both send their first touch beside each other.  The     *)
(* parts only leave steps of CimTransmission out.                          *)
(***************************************************************************)
EXTENDS CimTransmission, TLC

VARIABLE part  \* the campaign that sends, or "pair"

QueuesInit == Init /\ part \in Campaigns \cup {"pair"}

\* Only one campaign is claimed; the other changes with the conversation.
OneSends == \A c \in Campaigns \ {part} :
  touch'[c].state # "claimed" /\ (camp'[c] # camp[c] => conv' # conv)

\* No crash, three claims of a touch at most, and no follow-up is claimed.
PairTokens == 3
PairSends ==
  /\ crashes' = 0
  /\ \A c \in Campaigns : /\ touch'[c].token <= PairTokens
                          /\ touch'[c].ordinal > 0 => touch'[c].state # "claimed"

QueuesNext ==
  /\ Next /\ UNCHANGED part
  /\ IF part = "pair" THEN PairSends ELSE OneSends

QueuesSpec == QueuesInit /\ [][QueuesNext]_<<vars, part>>

Symmetry == Permutations(Campaigns)
=============================================================================
