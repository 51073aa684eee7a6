------------------------------ MODULE MCPipeline ------------------------------
(*****************************************************************************)
(* What happens to an opportunity between its listing and a campaign: a      *)
(* behaviour is one of one part, chosen at the start, and a part is an       *)
(* instance of a component with the constants that matter for its questions. *)
(*****************************************************************************)
EXTENDS Naturals, FiniteSets, TLC

CONSTANTS a1, a2, b1, b2, Nobody

(* A behaviour is of one part, so the parts share their variables: a component *)
(* finds its own under the names its instances give them.                     *)
VARIABLES
  part,  \* the part a behaviour belongs to
  x1, x2, x3, x4, x5, x6, x7, x8, x9, x10, x11, x12, x13

vars == <<part, x1, x2, x3, x4, x5, x6, x7, x8, x9, x10, x11, x12, x13>>

(* Follow-ups: q1 and q2 carry the same token, q3 another *)
SharedToken == [q \in {"q1", "q2", "q3"} |-> IF q = "q3" THEN "t2" ELSE "t1"]
(* CRM records of a pair of duplicates *)
OnePair == {[survivor |-> "s1", loser |-> "l1", opp |-> "o1"]}
TwoPairs == OnePair \cup {[survivor |-> "s2", loser |-> "l2", opp |-> "o2"]}
OursAtFirst == [r \in {"s1", "l1", "s2", "l2"} |-> CASE r = "s2" -> "o2" [] r = "l2" -> Nobody [] OTHER -> "o1"]
(* Pursuits: two commands of their own, or one sent twice *)
TwoKeys == [c \in {"c1", "c2"} |-> c]
OneKey == [c \in {"c1", "c2"} |-> "c1"]

(* Listings and the addresses they are known by; the approved pair *)
AdAliases == [l \in {"ad", "copy", "mixed"} |->
  CASE l = "ad" -> {"u1"} [] l = "copy" -> {"u2"} [] OTHER -> {"u1", "u3"}]
PairAliases == [l \in {"first", "second", "both", "more"} |->
  CASE l = "first" -> {"u1"} [] l = "second" -> {"u2"} [] l = "both" -> {"u1", "u2"} [] OTHER -> {"u3"}]
Pair == [o \in {"o1", "o2"} |-> IF o = "o1" THEN "first" ELSE "second"]

Unsure == INSTANCE FollowUpOutbox WITH
  Requests <- {"q1", "q2", "q3"}, Tokens <- {"t1", "t2"}, Records <- {"acme"},
  TokenOf <- SharedToken, RecordOf <- [t \in {"t1", "t2"} |-> "acme"],
  Takeovers <- {"t2"}, Cap <- 2, MaxEvents <- 1, MaxCrashes <- 1, MaxFaults <- 1,
  SlowCalls <- FALSE, None <- Nobody, record <- x1, suppressed <- x2, command <- x3,
  request <- x4, mailed <- x5, rested <- x6, events <- x7, crashes <- x8, faults <- x9
Contact == INSTANCE CimRequests WITH
  Opps <- {"bakery"}, Rcpts <- {"ann", "bob"}, Calls <- {a1, a2}, Cap <- 1,
  Kinds <- {"approved", "retry"}, Reports <- {"sent", "ambiguous"}, Stops <- {},
  MaxRestarts <- 0, SlowCalls <- TRUE, requests <- x1, communications <- x2,
  claims <- x3, reserved <- x4, locks <- x5, mailed <- x6, pursue <- x7, stops <- x8,
  run <- x9, restarts <- x10
Restarted == INSTANCE CimRequests WITH
  Opps <- {"bakery"}, Rcpts <- {"ann", "bob"}, Calls <- {a1, a2}, Cap <- 1,
  Kinds <- {"approved"}, Reports <- {"sent", "ambiguous"}, Stops <- {},
  MaxRestarts <- 1, SlowCalls <- TRUE, requests <- x1, communications <- x2,
  claims <- x3, reserved <- x4, locks <- x5, mailed <- x6, pursue <- x7, stops <- x8,
  run <- x9, restarts <- x10
Systems == INSTANCE CimRequests WITH
  Opps <- {"bakery"}, Rcpts <- {"ann", "bob"}, Calls <- {a1, a2}, Cap <- 1,
  Kinds <- {"signed", "retry"}, Reports <- {"sent", "ambiguous"}, Stops <- {"pursue"},
  MaxRestarts <- 0, SlowCalls <- FALSE, requests <- x1, communications <- x2,
  claims <- x3, reserved <- x4, locks <- x5, mailed <- x6, pursue <- x7, stops <- x8,
  run <- x9, restarts <- x10
BrokerCap == INSTANCE CimRequests WITH
  Opps <- {"bakery", "garage"}, Rcpts <- {"ann"}, Calls <- {a1, a2}, Cap <- 1,
  Kinds <- {"approved", "signed"}, Reports <- {"sent", "failed"},
  Stops <- {"suppress", "pause"}, MaxRestarts <- 0, SlowCalls <- TRUE, requests <- x1,
  communications <- x2, claims <- x3, reserved <- x4, locks <- x5, mailed <- x6,
  pursue <- x7, stops <- x8, run <- x9, restarts <- x10
Manual == INSTANCE ManualFollowUps WITH
  Calls <- {a1, a2}, Max <- 2, Greetings <- {1, 2}, MaxFaults <- 1, MaxRestarts <- 1,
  None <- Nobody, row <- x1, message <- x2, stamped <- x3, greeting <- x4,
  handed <- x5, refused <- x6, taken <- x7, lock <- x8, over <- x9, call <- x10,
  faults <- x11, restarts <- x12
Reminders == INSTANCE FollowUpRunner WITH
  Rows <- {1}, Runs <- {a1, a2}, Max <- 1, Verdicts <- {"sent", "failed"},
  Unlinked <- {}, Replies <- {1}, MaxFaults <- 0, MaxRestarts <- 1, None <- Nobody,
  row <- x1, message <- x2, unsure <- x3, taken <- x4, lock <- x5, broker <- x6,
  suppressed <- x7, event <- x8, late <- x9, hook <- x10, run <- x11, faults <- x12,
  restarts <- x13
TwoRequests == INSTANCE FollowUpRunner WITH
  Rows <- {1, 2}, Runs <- {a1, a2}, Max <- 1, Verdicts <- {"sent"}, Unlinked <- {},
  Replies <- {}, MaxFaults <- 0, MaxRestarts <- 0, None <- Nobody, row <- x1,
  message <- x2, unsure <- x3, taken <- x4, lock <- x5, broker <- x6,
  suppressed <- x7, event <- x8, late <- x9, hook <- x10, run <- x11, faults <- x12,
  restarts <- x13
Decided == INSTANCE PursueEnrollment WITH
  Deals <- {"d1"}, Owners <- {"c1", "c2"}, KeyOf <- TwoKeys,
  Choices <- {"pursue", "watch", "pass"}, Runs <- {}, Reevals <- {"v1"}, Cap <- 1,
  Changes <- {"sources", "contact", "stop", "rule", "down", "archive"},
  MaxChanges <- 1, MaxModes <- 0, MaxDays <- 1, MaxRestarts <- 0, fact <- x1,
  rule <- x2, down <- x3, history <- x4, campaign <- x5, mode <- x6, day <- x7,
  rows <- x8, proc <- x9, run <- x10, counters <- x11, late <- x12
Replayed == INSTANCE PursueEnrollment WITH
  Deals <- {"d1"}, Owners <- {"c1", "c2"}, KeyOf <- OneKey, Choices <- {"pursue"},
  Runs <- {}, Reevals <- {"v1"}, Cap <- 1, Changes <- {"contact", "stop", "archive"},
  MaxChanges <- 1, MaxModes <- 0, MaxDays <- 1, MaxRestarts <- 1, fact <- x1,
  rule <- x2, down <- x3, history <- x4, campaign <- x5, mode <- x6, day <- x7,
  rows <- x8, proc <- x9, run <- x10, counters <- x11, late <- x12
Automatic == INSTANCE PursueEnrollment WITH
  Deals <- {"d1", "d2"}, Owners <- {}, KeyOf <- TwoKeys, Choices <- {},
  Runs <- {"r1", "r2"}, Reevals <- {}, Cap <- 1, Changes <- {}, MaxChanges <- 0,
  MaxModes <- 1, MaxDays <- 1, MaxRestarts <- 0, fact <- x1, rule <- x2, down <- x3,
  history <- x4, campaign <- x5, mode <- x6, day <- x7, rows <- x8, proc <- x9,
  run <- x10, counters <- x11, late <- x12
BothPursue == INSTANCE PursueEnrollment WITH
  Deals <- {"d1"}, Owners <- {"c1"}, KeyOf <- TwoKeys, Choices <- {"pursue", "watch"},
  Runs <- {"r1"}, Reevals <- {}, Cap <- 1, Changes <- {"contact"}, MaxChanges <- 1,
  MaxModes <- 1, MaxDays <- 2, MaxRestarts <- 1, fact <- x1, rule <- x2, down <- x3,
  history <- x4, campaign <- x5, mode <- x6, day <- x7, rows <- x8, proc <- x9,
  run <- x10, counters <- x11, late <- x12
SwitchedOff == INSTANCE PursueEnrollment WITH
  Deals <- {"d1", "d2"}, Owners <- {}, KeyOf <- TwoKeys, Choices <- {}, Runs <- {"r1"},
  Reevals <- {}, Cap <- 2, Changes <- {}, MaxChanges <- 0, MaxModes <- 1,
  MaxDays <- 1, MaxRestarts <- 0, fact <- x1, rule <- x2, down <- x3, history <- x4,
  campaign <- x5, mode <- x6, day <- x7, rows <- x8, proc <- x9, run <- x10,
  counters <- x11, late <- x12
Identity == INSTANCE OpportunityIdentity WITH
  Listings <- {"ad", "copy", "mixed"}, AliasesOf <- AdAliases,
  Alike <- {<<"mixed", "ad">>}, Similar <- {<<"copy", "ad">>, <<"mixed", "copy">>},
  Opps <- {"o1", "o2", "o3", "o4"}, Known <- [o \in {} |-> "ad"],
  Passes <- {a1, a2, "p3"}, Decisions <- {"d1", "d2"}, None <- Nobody, owner <- x1,
  opp <- x2, doubt <- x3, proc <- x4
Merge == INSTANCE CanonicalMerge WITH
  Listings <- {"first", "second", "both", "more"}, AliasesOf <- PairAliases,
  Alike <- {<<"more", "second">>}, Similar <- {}, Opps <- {"o1", "o2"}, Known <- Pair,
  Passes <- {a1, a2}, Decisions <- {}, Survivor <- "o1", Loser <- "o2",
  Shared <- "both", Applies <- {b1, b2}, MaxBackups <- 1, MaxPauses <- 2,
  MaxSends <- 1, None <- Nobody, owner <- x1, opp <- x2, doubt <- x3, proc <- x4,
  outreach <- x5, granting <- x6, plan <- x7, backups <- x8, manifest <- x9,
  apply <- x10
Duplicates == INSTANCE CrmSupersession WITH
  Records <- {"s1", "l1", "s2", "l2"}, Opps <- {"o1", "o2"}, Pairs <- TwoPairs,
  Imported <- "l2", Ours <- OursAtFirst, Campaigns <- {"l1"}, Writers <- {},
  Repairs <- {"a", "b"}, MaxWrites <- 1, MaxPauses <- 2, MaxBackups <- 2,
  MaxReversals <- 1, None <- Nobody, recs <- x1, opps <- x2, import <- x3, rel <- x4,
  pause <- x5, receipts <- x6, file <- x7, writers <- x8, repairs <- x9, writes <- x10
OneDuplicate == INSTANCE CrmSupersession WITH
  Records <- {"s1", "l1"}, Opps <- {"o1", "o2"}, Pairs <- OnePair, Imported <- "l1",
  Ours <- OursAtFirst, Campaigns <- {"l1"}, Writers <- {"h"}, Repairs <- {"a"},
  MaxWrites <- 2, MaxPauses <- 0, MaxBackups <- 1, MaxReversals <- 1, None <- Nobody,
  recs <- x1, opps <- x2, import <- x3, rel <- x4, pause <- x5, receipts <- x6,
  file <- x7, writers <- x8, repairs <- x9, writes <- x10
BusyDuplicates == INSTANCE CrmSupersession WITH
  Records <- {"s1", "l1", "s2", "l2"}, Opps <- {"o1", "o2"}, Pairs <- TwoPairs,
  Imported <- "l2", Ours <- OursAtFirst, Campaigns <- {}, Writers <- {"h"},
  Repairs <- {"a"}, MaxWrites <- 1, MaxPauses <- 0, MaxBackups <- 1,
  MaxReversals <- 1, None <- Nobody, recs <- x1, opps <- x2, import <- x3, rel <- x4,
  pause <- x5, receipts <- x6, file <- x7, writers <- x8, repairs <- x9, writes <- x10

ASSUME Unsure!OutboxAssumption
ASSUME Contact!CimRequestsAssumption
ASSUME Restarted!CimRequestsAssumption
ASSUME Systems!CimRequestsAssumption
ASSUME BrokerCap!CimRequestsAssumption
ASSUME Manual!ManualAssumption
ASSUME Reminders!RunnerAssumption
ASSUME TwoRequests!RunnerAssumption
ASSUME Decided!EnrollmentAssumption
ASSUME Replayed!EnrollmentAssumption
ASSUME Automatic!EnrollmentAssumption
ASSUME BothPursue!EnrollmentAssumption
ASSUME SwitchedOff!EnrollmentAssumption
ASSUME Identity!IdentityAssumption
ASSUME Merge!MergeAssumption
ASSUME Duplicates!SupersessionAssumption
ASSUME OneDuplicate!SupersessionAssumption
ASSUME BusyDuplicates!SupersessionAssumption

(* The variables a component has no use for *)
Nothing == 0
Free4 ==
  /\ x5 = Nothing /\ x6 = Nothing /\ x7 = Nothing /\ x8 = Nothing /\ x9 = Nothing
  /\ x10 = Nothing /\ x11 = Nothing /\ x12 = Nothing /\ x13 = Nothing
Free9 ==
  /\ x10 = Nothing /\ x11 = Nothing /\ x12 = Nothing /\ x13 = Nothing
Free10 ==
  /\ x11 = Nothing /\ x12 = Nothing /\ x13 = Nothing
Free12 ==
  /\ x13 = Nothing

Init ==
  \/ part = "unsure" /\ Unsure!Init /\ Free9
  \/ part = "contact" /\ Contact!Init /\ Free10
  \/ part = "contact after a restart" /\ Restarted!Init /\ Free10
  \/ part = "systems" /\ Systems!Init /\ Free10
  \/ part = "touches" /\ BrokerCap!Init /\ Free10
  \/ part = "manual" /\ Manual!Init /\ Free12
  \/ part = "reminders" /\ Reminders!Init
  \/ part = "reminders of two" /\ TwoRequests!Init
  \/ part = "choices" /\ Decided!Init /\ Free12
  \/ part = "replay" /\ Replayed!Init /\ Free12
  \/ part = "automatic" /\ Automatic!Init /\ Free12
  \/ part = "both" /\ BothPursue!Init /\ Free12
  \/ part = "off" /\ SwitchedOff!Init /\ Free12
  \/ part = "identity" /\ Identity!IdentityInit /\ Free4
  \/ part = "merge" /\ Merge!MergeInit /\ Free10
  \/ part = "duplicates" /\ Duplicates!SupersessionInit /\ Free10
  \/ part = "duplicate of one" /\ OneDuplicate!SupersessionInit /\ Free10
  \/ part = "duplicates and a handler" /\ BusyDuplicates!SupersessionInit /\ Free10

Next ==
  \/ part = "unsure" /\ Unsure!Next /\ UNCHANGED <<part, x10, x11, x12, x13>>
  \/ part = "contact" /\ Contact!Next /\ UNCHANGED <<part, x11, x12, x13>>
  \/ part = "contact after a restart" /\ Restarted!Next /\ UNCHANGED <<part, x11, x12, x13>>
  \/ part = "systems" /\ Systems!Next /\ UNCHANGED <<part, x11, x12, x13>>
  \/ part = "touches" /\ BrokerCap!Next /\ UNCHANGED <<part, x11, x12, x13>>
  \/ part = "manual" /\ Manual!Next /\ UNCHANGED <<part, x13>>
  \/ part = "reminders" /\ Reminders!Next /\ UNCHANGED part
  \/ part = "reminders of two" /\ TwoRequests!Next /\ UNCHANGED part
  \/ part = "choices" /\ Decided!Next /\ UNCHANGED <<part, x13>>
  \/ part = "replay" /\ Replayed!Next /\ UNCHANGED <<part, x13>>
  \/ part = "automatic" /\ Automatic!Next /\ UNCHANGED <<part, x13>>
  \/ part = "both" /\ BothPursue!Next /\ UNCHANGED <<part, x13>>
  \/ part = "off" /\ SwitchedOff!Next /\ UNCHANGED <<part, x13>>
  \/ part = "identity" /\ Identity!IdentityNext /\ UNCHANGED <<part, x5, x6, x7, x8, x9, x10, x11, x12, x13>>
  \/ part = "merge" /\ Merge!MergeNext /\ UNCHANGED <<part, x11, x12, x13>>
  \/ part = "duplicates" /\ Duplicates!SupersessionNext /\ UNCHANGED <<part, x11, x12, x13>>
  \/ part = "duplicate of one" /\ OneDuplicate!SupersessionNext /\ UNCHANGED <<part, x11, x12, x13>>
  \/ part = "duplicates and a handler" /\ BusyDuplicates!SupersessionNext /\ UNCHANGED <<part, x11, x12, x13>>

Spec == Init /\ [][Next]_vars

-------------------------------------------------------------------------------
(* Properties *)

(* Every variable of the parts keeps its type. *)
TypeOK ==
  /\ part = "contact" => Contact!TypeOK
  /\ part = "manual" => Manual!TypeOK
  /\ part = "reminders" => Reminders!TypeOK
  /\ part = "choices" => Decided!TypeOK
  /\ part = "identity" => Identity!IdentityTypeOK
  /\ part = "merge" => Merge!MergeTypeOK
  /\ part = "duplicate of one" => OneDuplicate!SupersessionTypeOK

(* What there is one of stays one: the first contact of an opportunity and
   the system that makes it, the mail of an approved follow-up, the
   enrollment of a deal, and the opportunity a listing resolves to, whoever
   works on it at the same moment (claimDealHunterCimOpportunity,
   readPursueOwnership, sendManualDealHunterFollowUp,
   orchestratePursuitIntake, resolveDealHunterOpportunity). *)
OneEach ==
  /\ part = "contact" => Contact!OneFirstContact
  /\ part = "contact after a restart" => Restarted!OneFirstContact
  /\ part = "systems" => Systems!OneSystem
  /\ part = "manual" => Manual!OneMailPerFollowUp
  /\ part = "choices" => Decided!OneEnrollment
  /\ part = "replay" => Replayed!OneEnrollment
  /\ part = "both" => BothPursue!OneEnrollment
  /\ part = "identity" => (Identity!EveryDealIsFound /\ Identity!ResolvedTogether)
  /\ part = "merge" => (Merge!EveryDealIsFound /\ Merge!ResolvedTogether)

(* What is written down is so: a row that says its first e-mail was accepted
   is about one the provider has, the count of follow-ups is that of the
   mails sent, and a manifest of a merge holds the state the merge began
   from (runDealHunterCimFollowUps,
   applyDealHunterCanonicalOpportunityMerge). *)
RecordsAreTrue ==
  /\ part = "contact" => Contact!RecordIsTrue
  /\ part = "contact after a restart" => Restarted!RecordIsTrue
  /\ part = "manual" => Manual!CountIsTrue
  /\ part = "reminders" => Reminders!CountIsTrue
  /\ part = "reminders of two" => TwoRequests!CountIsTrue
  /\ part = "merge" => Merge!MergeCanBeUndone
  /\ part = "duplicates" => (Duplicates!RepairCanBeUndone /\ Duplicates!AllOrNothing /\ Duplicates!SurvivorsStand)
  /\ part = "duplicate of one" => (OneDuplicate!RepairCanBeUndone /\ OneDuplicate!AllOrNothing /\ OneDuplicate!SurvivorsStand)
  /\ part = "duplicates and a handler" => (BusyDuplicates!RepairCanBeUndone /\ BusyDuplicates!AllOrNothing /\ BusyDuplicates!SurvivorsStand)

(* What was decided last is what is done: touches of a broker stay within
   its cap, a campaign belongs to a deal that is wanted, an automatic Pursue
   is the first decision of its deal and within its cap, switching it off is
   heard, an exception is decided for one opportunity, a merged opportunity
   stays merged, and a follow-up that was put off comes back
   (evaluateCimRecipientPolicy, decideDealHunterPursuit, runAutoPursue,
   resolveCimIdentityException). *)
DecisionsAreHeard ==
  /\ part = "touches" => BrokerCap!CapHolds
  /\ part = "choices" => (Decided!CampaignIsWanted /\ Decided!AutoIsFirst)
  /\ part = "replay" => Replayed!CampaignIsWanted
  /\ part = "automatic" => (Automatic!CapHolds /\ Automatic!AutoIsFirst)
  /\ part = "both" => (BothPursue!CampaignIsWanted /\ BothPursue!AutoIsFirst /\ BothPursue!CapHolds /\ BothPursue!OffIsHeard)
  /\ part = "off" => (SwitchedOff!OffIsHeard /\ SwitchedOff!CapHolds)
  /\ part = "identity" => Identity!DecidedForOne
  /\ part = "merge" => Merge!MergeLasts
  /\ part = "manual" => Manual!GoesOn

(* A confirmed follow-up of unknown outcome is never handed over again, a
   contact that is complete is never opened again, a follow-up sequence that
   ended is never resumed, an answered request is left alone, and a touch is
   allocated on facts that still hold (claimCrmEmailOutbox,
   commitCrmActivityMutation, claimDealHunterCimFollowUp,
   orchestratePursuitIntake). *)
NothingIsUndone ==
  [][ /\ part = "unsure" => Unsure!LeavesUnsureAlone
      /\ part = "contact" => Contact!StaysComplete
      /\ part = "contact after a restart" => Restarted!StaysComplete
      /\ part = "manual" => Manual!StaysEnded
      /\ part = "reminders" => (Reminders!StaysStopped /\ Reminders!AlreadyAtWork)
      /\ part = "reminders of two" => TwoRequests!WhenOlderEnded
      /\ part = "choices" => Decided!OnFacts
      /\ part = "both" => BothPursue!OnFacts
      /\ part = "duplicate of one" => OneDuplicate!LeftAloneStep
      /\ part = "duplicates and a handler" => BusyDuplicates!LeftAloneStep ]_vars

(* Calls, runs, passes and applications are interchangeable *)
Symmetric ==
  Permutations({a1, a2}) \cup Permutations({b1, b2})
===============================================================================
