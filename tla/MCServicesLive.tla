---------------------------- MODULE MCServicesLive ----------------------------
(*****************************************************************************)
(* What the services owe: a behaviour is one of one part, chosen at the      *)
(* start, under the fairness its timers and callers give it.                 *)
(*****************************************************************************)
EXTENDS Naturals, FiniteSets, TLC

(* A behaviour is of one part, so the parts share their variables: a component *)
(* finds its own under the names its instances give them.                     *)
VARIABLES
  part,  \* the part a behaviour belongs to
  x1, x2, x3, x4, x5, x6, x7, x8, x9, x10, x11, x12, x13, x14

vars == <<part, x1, x2, x3, x4, x5, x6, x7, x8, x9, x10, x11, x12, x13, x14>>

(* One fault or crash of the vault; q1 and q2 carry the same token, q3 another *)
SharedToken == [q \in {"q1", "q2", "q3"} |-> IF q = "q3" THEN "t2" ELSE "t1"]

Vault == INSTANCE SecureDocuments WITH
  Docs <- {"a", "b"}, Stored <- {"a"}, Uploads <- {"u1"}, Sims <- {},
  Batch <- [u \in {"u1"} |-> {"b"}], Deletes <- {"x1"}, Removals <- {},
  Reconcilers <- {"r1"}, LostReplies <- FALSE, MaxFaults <- 1, MaxCrashes <- 1,
  None <- "none", submission <- x1, request <- x2, row <- x3, file <- x4, job <- x5,
  sidecar <- x6, settled <- x7, active <- x8, op <- x9, landed <- x10, late <- x11,
  rec <- x12, faults <- x13, crashes <- x14
Links == INSTANCE AdminLinks WITH
  Emails <- {"adm"}, Links <- {"l1"}, Visits <- {"v1", "v2"}, SignOuts <- {"o1"},
  MaxRestarts <- 1, None <- "none", allowed <- x1, link <- x2, request <- x3,
  mailed <- x4, withdrawn <- x5, session <- x6, visit <- x7, signOut <- x8,
  restarts <- x9
Outbox == INSTANCE FollowUpOutbox WITH
  Requests <- {"q1", "q2", "q3"}, Tokens <- {"t1", "t2"}, Records <- {"acme"},
  TokenOf <- SharedToken, RecordOf <- [t \in {"t1", "t2"} |-> "acme"],
  Takeovers <- {}, Cap <- 2, MaxEvents <- 1, MaxCrashes <- 0, MaxFaults <- 0,
  SlowCalls <- FALSE, None <- "none", record <- x1, suppressed <- x2, command <- x3,
  request <- x4, mailed <- x5, rested <- x6, events <- x7, crashes <- x8, faults <- x9
Cim == INSTANCE CimRequests WITH
  Opps <- {"bakery"}, Rcpts <- {"ann"}, Calls <- {"w1", "w2"}, Cap <- 2,
  Kinds <- {"approved"}, Reports <- {"sent", "failed", "ambiguous"}, Stops <- {},
  MaxRestarts <- 1, SlowCalls <- TRUE, requests <- x1, communications <- x2,
  claims <- x3, reserved <- x4, locks <- x5, mailed <- x6, pursue <- x7, stops <- x8,
  run <- x9, restarts <- x10
Reminder == INSTANCE FollowUpRunner WITH
  Rows <- {1}, Runs <- {"w1"}, Max <- 1, Verdicts <- {"sent", "failed"}, Unlinked <- {},
  Replies <- {1}, MaxFaults <- 0, MaxRestarts <- 1, None <- "none", row <- x1,
  message <- x2, unsure <- x3, taken <- x4, lock <- x5, broker <- x6,
  suppressed <- x7, event <- x8, late <- x9, hook <- x10, run <- x11, faults <- x12,
  restarts <- x13
Pursuit == INSTANCE PursueEnrollment WITH
  Deals <- {"d1"}, Owners <- {"c1"}, KeyOf <- [c \in {"c1"} |-> c],
  Choices <- {"pursue"}, Runs <- {}, Reevals <- {"v1"}, Cap <- 1,
  Changes <- {"sources", "contact", "stop", "rule", "down"}, MaxChanges <- 2,
  MaxModes <- 0, MaxDays <- 1, MaxRestarts <- 1, fact <- x1, rule <- x2, down <- x3,
  history <- x4, campaign <- x5, mode <- x6, day <- x7, rows <- x8, proc <- x9,
  run <- x10, counters <- x11, late <- x12
Bundle == INSTANCE Backups WITH
  Scheduled <- {"r1", "r2", "r3", "r4"}, ByHand <- {}, Docs <- {}, LastDay <- 1,
  Keep <- 1, Age <- 5, MaxDamages <- 0, MaxFaults <- 1, MaxRestarts <- 1,
  None <- "none", now <- x1, job <- x2, bundle <- x3, doc <- x4, spoiled <- x5,
  run <- x6, damages <- x7, faults <- x8, restarts <- x9

ASSUME Vault!VaultAssumption
ASSUME Links!LinksAssumption
ASSUME Outbox!OutboxAssumption
ASSUME Cim!CimRequestsAssumption
ASSUME Reminder!RunnerAssumption
ASSUME Pursuit!EnrollmentAssumption
ASSUME Bundle!BackupsAssumption

(* The variables a component has no use for *)
Nothing == 0
Free9 ==
  /\ x10 = Nothing /\ x11 = Nothing /\ x12 = Nothing /\ x13 = Nothing /\ x14 = Nothing
Free10 ==
  /\ x11 = Nothing /\ x12 = Nothing /\ x13 = Nothing /\ x14 = Nothing
Free12 ==
  /\ x13 = Nothing /\ x14 = Nothing
Free13 ==
  /\ x14 = Nothing

OnlyVault == UNCHANGED part
OnlyAuth == UNCHANGED <<part, x10, x11, x12, x13, x14>>
OnlyOutbox == UNCHANGED <<part, x10, x11, x12, x13, x14>>
OnlyCim == UNCHANGED <<part, x11, x12, x13, x14>>
OnlyRunner == UNCHANGED <<part, x14>>
OnlyPursuit == UNCHANGED <<part, x13, x14>>
OnlyBundle == UNCHANGED <<part, x10, x11, x12, x13, x14>>

Init ==
  \/ part \in {"upload job", "deletion job"} /\ Vault!Init
  \/ part = "session" /\ Links!Init /\ Free9
  \/ part \in {"command", "other command"} /\ Outbox!Init /\ Free9
  \/ part = "request" /\ Cim!Init /\ Free10
  \/ part = "reminder" /\ Reminder!Init /\ Free13
  \/ part = "pursuit" /\ Pursuit!Init /\ Free12
  \/ part = "backup" /\ Bundle!Init /\ Free9

Next ==
  \/ part \in {"upload job", "deletion job"} /\ Vault!Next /\ x13' + x14' <= 1 /\ UNCHANGED part
  \/ part = "session" /\ Links!Next /\ UNCHANGED <<part, x10, x11, x12, x13, x14>>
  \/ part \in {"command", "other command"} /\ Outbox!Next /\ UNCHANGED <<part, x10, x11, x12, x13, x14>>
  \/ part = "request" /\ Cim!Next /\ UNCHANGED <<part, x11, x12, x13, x14>>
  \/ part = "reminder" /\ Reminder!Next /\ ~Reminder!Skip("w1") /\ ~Reminder!HoldBack("w1") /\ UNCHANGED <<part, x14>>
  \/ part = "pursuit" /\ Pursuit!Next /\ UNCHANGED <<part, x13, x14>>
  \/ part = "backup" /\ Bundle!Next /\ UNCHANGED <<part, x10, x11, x12, x13, x14>>

Spec == Init /\ [][Next]_vars

(* What goes on by itself or is repeated for ever: the steps of calls under way, the clocks, the
   clean-up timer and the reconciliation; a reconciler or an owner who gets to it again and again
   in the end finds the job or request free. One formula for each kind of fairness, as a behaviour
   has one part *)
VaultPart == part \in {"upload job", "deletion job"}
OutboxPart == part \in {"command", "other command"}
Fair(vault, links, outbox, cim, reminder, pursuit, backup) ==
  \/ VaultPart /\ vault /\ OnlyVault
  \/ part = "session" /\ links /\ OnlyAuth
  \/ OutboxPart /\ outbox /\ OnlyOutbox
  \/ part = "request" /\ cim /\ OnlyCim
  \/ part = "reminder" /\ reminder /\ OnlyRunner
  \/ part = "pursuit" /\ pursuit /\ OnlyPursuit
  \/ part = "backup" /\ backup /\ OnlyBundle
Serve(q) == x4[q].pc # "new" /\ Outbox!Step(q)
Reevaluation ==
  \/ Pursuit!ListWaiting("v1") \/ Pursuit!Reevaluate("v1", "d1")
  \/ Pursuit!ReevaluationEnds("v1") \/ Pursuit!Orchestrate("v1")
LiveSpec ==
  /\ Spec
  /\ WF_vars(Fair(Vault!OpStep, Links!Cleanup, Serve("q1"), Cim!Step("w1"),
                  Reminder!Step("w1"), Reevaluation, \E r \in {"r1", "r2", "r3", "r4"} : Bundle!Tick(r)))
  /\ WF_vars(Fair(\E o \in {"u1", "x1"} : Vault!WindowPasses(o) \/ Vault!LeaseLapses(o),
                  Links!LinkExpires("l1"), Serve("q2"), Cim!Step("w2"),
                  Reminder!HookWrite(1), FALSE, Bundle!Step("r1")))
  /\ WF_vars(Fair(Vault!RecStep("r1"), \E v \in {"v1", "v2"} : Links!SessionExpires(v),
                  Serve("q3"), \E q \in Cim!Requests : Cim!Age(q),
                  Reminder!HookRead, FALSE, Bundle!Step("r2")))
  /\ WF_vars(Fair(FALSE, FALSE, FALSE, FALSE, Reminder!Lapse, FALSE, Bundle!Step("r3")))
  /\ WF_vars(Fair(FALSE, FALSE, FALSE, FALSE, Reminder!List("w1"), FALSE, Bundle!Step("r4")))
  /\ WF_vars(Fair(FALSE, FALSE, FALSE, FALSE, FALSE, FALSE, Bundle!NextDay))
  /\ SF_vars(Fair(\E o \in {"u1", "x1"} : Vault!ImportSidecar(o), FALSE, FALSE, Cim!Start("w1"),
                  FALSE, FALSE, FALSE))
  /\ SF_vars(Fair(Vault!RecClaim("r1", "u1"), FALSE, FALSE, Cim!Start("w2"),
                  FALSE, FALSE, FALSE))
  /\ SF_vars(Fair(Vault!RecClaim("r1", "x1"), FALSE, FALSE, FALSE, Reminder!Age(1), FALSE, FALSE))

(* What the part is about: one job, session, command or request (visits of a link, and the requests
   with one token, are interchangeable) *)
Due ==
  \/ part = "upload job" /\ Vault!Unfinished("u1")
  \/ part = "deletion job" /\ Vault!Unfinished("x1")
  \/ part = "session" /\ Links!SessionIs("v1", "live")
  \/ part = "command" /\ Outbox!Claimed("q1")
  \/ part = "other command" /\ Outbox!Claimed("q3")
  \/ part = "request" /\ \E q \in Cim!Requests : Cim!Waiting(q)
  \/ part = "reminder" /\ (Reminder!Claimed(1) \/ (Reminder!Answered(1) /\ ~Reminder!Quiet(1)))
  \/ part = "pursuit" /\ Pursuit!WaitingAt("d1", 1) /\ Pursuit!Quiet
  \/ part = "backup"
Done ==
  \/ part = "upload job" /\ Vault!Ended("u1")
  \/ part = "deletion job" /\ Vault!Ended("x1")
  \/ part = "session" /\ Links!SessionIs("v1", "gone")
  \/ part = "command" /\ ~Outbox!Claimed("q1")
  \/ part = "other command" /\ ~Outbox!Claimed("q3")
  \/ part = "request" /\ \A q \in Cim!Requests : ~Cim!Waiting(q)
  \/ part = "reminder" /\ ~Reminder!Claimed(1) /\ (Reminder!Answered(1) => Reminder!Quiet(1))
  \/ part = "pursuit" /\ ~Pursuit!WaitingAt("d1", 1)
  \/ part = "backup" /\ x2[1].status = "completed" 

-------------------------------------------------------------------------------
(* Properties *)

(* What is under way ends, whatever failed or crashed once: a pending
   cleanup job is completed or restored by the hourly reconciliation, a
   session is cleaned up, a claimed follow-up command is settled, and a CIM
   request left pending is settled by the next call of its owner. *)
PromisesAreKept == Due ~> Done
===============================================================================
