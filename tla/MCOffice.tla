------------------------------- MODULE MCOffice -------------------------------
(*****************************************************************************)
(* The parts of the back office that keep files, sessions, counters and      *)
(* backups, beside each other: a behaviour is one of one part, chosen at the *)
(* start.                                                                    *)
(*****************************************************************************)
EXTENDS Naturals, FiniteSets, TLC

CONSTANTS adm, vie, a1, a2, b1, b2, Nobody

(* A behaviour is of one part, so the parts share their variables: a component *)
(* finds its own under the names its instances give them.                     *)
VARIABLES
  part,  \* the part a behaviour belongs to
  x1, x2, x3, x4, x5, x6, x7, x8, x9, x10, x11, x12, x13, x14

vars == <<part, x1, x2, x3, x4, x5, x6, x7, x8, x9, x10, x11, x12, x13, x14>>

(* Uploads: u1 and u2 are batches of the same request, s1 brings a SIM *)
Brings(uploads) ==
  [u \in uploads |-> CASE u = "u1" -> {"b"} [] u = "u2" -> {"c"} [] OTHER -> {"a"}]

(* Limits: two addresses and two links; the last requests are contact forms *)
BucketsOf == <<{"ip1", "key1"}, {"ip1", "key2"}, {"ip2", "key1"}, {"ip2"}>>

VaultUploads == INSTANCE SecureDocumentsProofs WITH
  Docs <- {"b", "c"}, Stored <- {}, Uploads <- {"u1", "u2"}, Sims <- {},
  Batch <- Brings({"u1", "u2"}), Deletes <- {}, Removals <- {}, Reconcilers <- {"r1"},
  LostReplies <- FALSE, MaxFaults <- 2, MaxCrashes <- 1, None <- Nobody,
  submission <- x1, request <- x2, row <- x3, file <- x4, job <- x5, sidecar <- x6,
  settled <- x7, active <- x8, op <- x9, landed <- x10, late <- x11, rec <- x12,
  faults <- x13, crashes <- x14
VaultRemoval == INSTANCE SecureDocumentsProofs WITH
  Docs <- {"a", "b", "c"}, Stored <- {"b", "c"}, Uploads <- {"s1"}, Sims <- {"s1"},
  Batch <- Brings({"s1"}), Deletes <- {}, Removals <- {"m1"}, Reconcilers <- {"r1"},
  LostReplies <- FALSE, MaxFaults <- 1, MaxCrashes <- 1, None <- Nobody,
  submission <- x1, request <- x2, row <- x3, file <- x4, job <- x5, sidecar <- x6,
  settled <- x7, active <- x8, op <- x9, landed <- x10, late <- x11, rec <- x12,
  faults <- x13, crashes <- x14
VaultLost == INSTANCE SecureDocumentsProofs WITH
  Docs <- {"a", "b"}, Stored <- {"a"}, Uploads <- {"u1"}, Sims <- {},
  Batch <- Brings({"u1"}), Deletes <- {"x1"}, Removals <- {}, Reconcilers <- {"r1"},
  LostReplies <- TRUE, MaxFaults <- 2, MaxCrashes <- 0, None <- Nobody,
  submission <- x1, request <- x2, row <- x3, file <- x4, job <- x5, sidecar <- x6,
  settled <- x7, active <- x8, op <- x9, landed <- x10, late <- x11, rec <- x12,
  faults <- x13, crashes <- x14
Access == INSTANCE AccessProofs WITH
  Emails <- {adm, vie}, Links <- {a1, a2}, Visits <- {b1, b2}, SignOuts <- {"o1"},
  MaxRestarts <- 1, None <- Nobody, allowed <- x1, link <- x2, request <- x3,
  mailed <- x4, withdrawn <- x5, session <- x6, visit <- x7, signOut <- x8,
  restarts <- x9, Requests <- 1..4, Buckets <- {"ip1", "ip2", "key1", "key2"},
  BucketsOf <- BucketsOf, Fallback <- {1, 2, 3}, Uploads <- {1, 2, 3}, Max <- 1,
  Capacity <- 1, MaxFaults <- 2, asked <- x1, stored <- x2, memory <- x3, slots <- x4,
  response <- x5, faults <- x6, Mails <- {"i"}, FollowUps <- {}, ByRule <- {"i"},
  Unknown <- {}, Own <- {"sources"}, Shared <- {"documents"}, InPlace <- {"owner"},
  Gates <- {a1, a2}, MaxAuths <- 2, MaxChanges <- 2, MaxSwitches <- 0, MaxGens <- 1,
  facts <- x1, own <- x2, global <- x3, controls <- x4, camp <- x5, mail <- x6,
  auths <- x7, gates <- x8, spent <- x9
Tour == INSTANCE OnboardingProgress WITH
  Calls <- {"c1", "c2", "c3"}, Steps <- 2, row <- x1, call <- x2
RuleGate == INSTANCE AccessProofs WITH
  Emails <- {adm, vie}, Links <- {a1, a2}, Visits <- {b1, b2}, SignOuts <- {"o1"},
  MaxRestarts <- 1, None <- Nobody, allowed <- x1, link <- x2, request <- x3,
  mailed <- x4, withdrawn <- x5, session <- x6, visit <- x7, signOut <- x8,
  restarts <- x9, Requests <- 1..4, Buckets <- {"ip1", "ip2", "key1", "key2"},
  BucketsOf <- BucketsOf, Fallback <- {1, 2, 3}, Uploads <- {1, 2, 3}, Max <- 1,
  Capacity <- 1, MaxFaults <- 2, asked <- x1, stored <- x2, memory <- x3, slots <- x4,
  response <- x5, faults <- x6, Mails <- {"i"}, FollowUps <- {}, ByRule <- {"i"},
  Unknown <- {}, Own <- {"sources"}, Shared <- {"documents"}, InPlace <- {"owner"},
  Gates <- {a1, a2}, MaxAuths <- 2, MaxChanges <- 0, MaxSwitches <- 1, MaxGens <- 2,
  facts <- x1, own <- x2, global <- x3, controls <- x4, camp <- x5, mail <- x6,
  auths <- x7, gates <- x8, spent <- x9
FollowUpGate == INSTANCE AccessProofs WITH
  Emails <- {adm, vie}, Links <- {a1, a2}, Visits <- {b1, b2}, SignOuts <- {"o1"},
  MaxRestarts <- 1, None <- Nobody, allowed <- x1, link <- x2, request <- x3,
  mailed <- x4, withdrawn <- x5, session <- x6, visit <- x7, signOut <- x8,
  restarts <- x9, Requests <- 1..4, Buckets <- {"ip1", "ip2", "key1", "key2"},
  BucketsOf <- BucketsOf, Fallback <- {1, 2, 3}, Uploads <- {1, 2, 3}, Max <- 1,
  Capacity <- 1, MaxFaults <- 2, asked <- x1, stored <- x2, memory <- x3, slots <- x4,
  response <- x5, faults <- x6, Mails <- {"f"}, FollowUps <- {"f"}, ByRule <- {},
  Unknown <- {}, Own <- {"sources"}, Shared <- {}, InPlace <- {"owner"},
  Gates <- {a1, a2}, MaxAuths <- 2, MaxChanges <- 0, MaxSwitches <- 1, MaxGens <- 1,
  facts <- x1, own <- x2, global <- x3, controls <- x4, camp <- x5, mail <- x6,
  auths <- x7, gates <- x8, spent <- x9
PolicyGate == INSTANCE AccessProofs WITH
  Emails <- {adm, vie}, Links <- {a1, a2}, Visits <- {b1, b2}, SignOuts <- {"o1"},
  MaxRestarts <- 1, None <- Nobody, allowed <- x1, link <- x2, request <- x3,
  mailed <- x4, withdrawn <- x5, session <- x6, visit <- x7, signOut <- x8,
  restarts <- x9, Requests <- 1..4, Buckets <- {"ip1", "ip2", "key1", "key2"},
  BucketsOf <- BucketsOf, Fallback <- {1, 2, 3}, Uploads <- {1, 2, 3}, Max <- 1,
  Capacity <- 1, MaxFaults <- 2, asked <- x1, stored <- x2, memory <- x3, slots <- x4,
  response <- x5, faults <- x6, Mails <- {"i"}, FollowUps <- {}, ByRule <- {"i"},
  Unknown <- {"i"}, Own <- {"sources"}, Shared <- {"documents"}, InPlace <- {"owner"},
  Gates <- {a1, a2}, MaxAuths <- 2, MaxChanges <- 0, MaxSwitches <- 1, MaxGens <- 2,
  facts <- x1, own <- x2, global <- x3, controls <- x4, camp <- x5, mail <- x6,
  auths <- x7, gates <- x8, spent <- x9
Bundles == INSTANCE BackupsProofs WITH
  Scheduled <- {a1, a2}, ByHand <- {"c1"}, Docs <- {}, LastDay <- 2, Keep <- 1,
  Age <- 5, MaxDamages <- 1, MaxFaults <- 1, MaxRestarts <- 1, None <- Nobody,
  now <- x1, job <- x2, bundle <- x3, doc <- x4, spoiled <- x5, run <- x6,
  damages <- x7, faults <- x8, restarts <- x9, MaxCrashes <- 1, database <- x1,
  documents <- x2, aside <- x3, stage <- x4, call <- x5, failures <- x6,
  crashes <- x7, Members <- {"f1"}, Readers <- {a1, a2}, Granule <- 2, Margin <- 2,
  MaxTime <- 7, MaxChanges <- 1, clock <- x1, file <- x2, gone <- x3, record <- x4,
  reader <- x5, pending <- x6, changes <- x7
Documents == INSTANCE BackupsProofs WITH
  Scheduled <- {a1, a2}, ByHand <- {"c1"}, Docs <- {"d1"}, LastDay <- 0, Keep <- 1,
  Age <- 0, MaxDamages <- 1, MaxFaults <- 1, MaxRestarts <- 0, None <- Nobody,
  now <- x1, job <- x2, bundle <- x3, doc <- x4, spoiled <- x5, run <- x6,
  damages <- x7, faults <- x8, restarts <- x9, MaxCrashes <- 1, database <- x1,
  documents <- x2, aside <- x3, stage <- x4, call <- x5, failures <- x6,
  crashes <- x7, Members <- {"f1"}, Readers <- {a1, a2}, Granule <- 2, Margin <- 2,
  MaxTime <- 7, MaxChanges <- 1, clock <- x1, file <- x2, gone <- x3, record <- x4,
  reader <- x5, pending <- x6, changes <- x7

ASSUME VaultUploadsFit == VaultUploads!VaultAssumption
ASSUME VaultRemovalFit == VaultRemoval!VaultAssumption
ASSUME VaultLostFit == VaultLost!VaultAssumption
ASSUME LinksFit == Access!LinksAssumption
ASSUME Tour!StepsAssumption
ASSUME LimitsFit == Access!Http!LimitsAssumption
ASSUME GateFit == Access!Final!FinalGateAssumption
ASSUME RuleGateFit == RuleGate!Final!FinalGateAssumption
ASSUME FollowUpGateFit == FollowUpGate!Final!FinalGateAssumption
ASSUME PolicyGateFit == PolicyGate!Final!FinalGateAssumption
ASSUME BundlesFit == Bundles!BackupsAssumption
ASSUME DocumentsFit == Documents!BackupsAssumption
ASSUME RestoreFit == Bundles!Restore!RestoreAssumption
ASSUME RecordsFit == Bundles!Records!RecordsAssumption

(* The variables a component has no use for *)
Nothing == 0
Free2 ==
  /\ x3 = Nothing /\ x4 = Nothing /\ x5 = Nothing /\ x6 = Nothing /\ x7 = Nothing
  /\ x8 = Nothing /\ x9 = Nothing /\ x10 = Nothing /\ x11 = Nothing /\ x12 = Nothing
  /\ x13 = Nothing /\ x14 = Nothing
Free6 ==
  /\ x7 = Nothing /\ x8 = Nothing /\ x9 = Nothing /\ x10 = Nothing /\ x11 = Nothing
  /\ x12 = Nothing /\ x13 = Nothing /\ x14 = Nothing
Free7 ==
  /\ x8 = Nothing /\ x9 = Nothing /\ x10 = Nothing /\ x11 = Nothing /\ x12 = Nothing
  /\ x13 = Nothing /\ x14 = Nothing
Free9 ==
  /\ x10 = Nothing /\ x11 = Nothing /\ x12 = Nothing /\ x13 = Nothing /\ x14 = Nothing

Init ==
  \/ part = "uploads" /\ VaultUploads!Init
  \/ part = "removal" /\ VaultRemoval!Init
  \/ part = "lost" /\ VaultLost!Init
  \/ part = "links" /\ Access!Init /\ Free9
  \/ part = "tour" /\ Tour!Init /\ Free2
  \/ part = "limits" /\ Access!Http!Init /\ Free6
  \/ part = "gate" /\ Access!Final!FinalGateInit /\ Free9
  \/ part = "gate of the rule" /\ RuleGate!Final!FinalGateInit /\ Free9
  \/ part = "gate of follow-ups" /\ FollowUpGate!Final!FinalGateInit /\ Free9
  \/ part = "gate and a policy" /\ PolicyGate!Final!FinalGateInit /\ Free9
  \/ part = "bundles" /\ Bundles!Init /\ Free9
  \/ part = "documents" /\ Documents!Init /\ Free9
  \/ part = "restore" /\ Bundles!Restore!Init /\ Free7
  \/ part = "records" /\ Bundles!Records!Init /\ Free7

Next ==
  \/ part = "uploads" /\ VaultUploads!Next /\ UNCHANGED part
  \/ part = "removal" /\ VaultRemoval!Next /\ UNCHANGED part
  \/ part = "lost" /\ VaultLost!Next /\ UNCHANGED part
  \/ part = "links" /\ Access!Next /\ UNCHANGED <<part, x10, x11, x12, x13, x14>>
  \/ part = "tour" /\ Tour!Next /\ UNCHANGED <<part, x3, x4, x5, x6, x7, x8, x9, x10, x11, x12, x13, x14>>
  \/ part = "limits" /\ Access!Http!Next /\ UNCHANGED <<part, x7, x8, x9, x10, x11, x12, x13, x14>>
  \/ part = "gate" /\ Access!Final!FinalGateNext /\ UNCHANGED <<part, x10, x11, x12, x13, x14>>
  \/ part = "gate of the rule" /\ RuleGate!Final!FinalGateNext /\ UNCHANGED <<part, x10, x11, x12, x13, x14>>
  \/ part = "gate of follow-ups" /\ FollowUpGate!Final!FinalGateNext /\ UNCHANGED <<part, x10, x11, x12, x13, x14>>
  \/ part = "gate and a policy" /\ PolicyGate!Final!FinalGateNext /\ UNCHANGED <<part, x10, x11, x12, x13, x14>>
  \/ part = "bundles" /\ Bundles!Next /\ UNCHANGED <<part, x10, x11, x12, x13, x14>>
  \/ part = "documents" /\ Documents!Next /\ UNCHANGED <<part, x10, x11, x12, x13, x14>>
  \/ part = "restore" /\ Bundles!Restore!Next /\ UNCHANGED <<part, x8, x9, x10, x11, x12, x13, x14>>
  \/ part = "records" /\ Bundles!Records!Next /\ UNCHANGED <<part, x8, x9, x10, x11, x12, x13, x14>>

Spec == Init /\ [][Next]_vars

-------------------------------------------------------------------------------
(* Properties *)

(* Every variable of the vault, the sign-in, the tour, the limits, the gate,
   the backups, a restore and the records of verifications keeps its type. *)
TypeOK ==
  /\ part = "uploads" => VaultUploads!TypeOK
  /\ part = "links" => Access!TypeOK
  /\ part = "tour" => Tour!TypeOK
  /\ part = "limits" => Access!Http!TypeOK
  /\ part = "gate" => Access!Final!FinalGateTypeOK
  /\ part = "bundles" => Bundles!TypeOK
  /\ part = "documents" => Documents!TypeOK
  /\ part = "restore" => Bundles!Restore!TypeOK
  /\ part = "records" => Bundles!Records!TypeOK

(* No file is left without its row at rest, no file is forgotten in the
   trash, and no document the database knows loses its file, whatever
   failed, crashed or was answered late (uploadSecureDocuments,
   deleteDashboardSubmission, partitionCleanupJobFiles). *)
VaultIsWhole ==
  /\ part = "uploads" => VaultUploads!NoOrphans
  /\ part = "removal" => VaultRemoval!TrashIsCovered
  /\ part = "lost" => VaultLost!DocumentsKept

(* A magic link opens one session at most, and none once its failed mail
   withdrew it; an authorization of the final gate is spent by one hand-over
   of the mail it was issued for, and a policy it does not know is reported
   once (consumeAdminMagicLink, authorizeCimProviderPending). *)
UsedOnce ==
  /\ part = "links" => (Access!SingleUse /\ Access!WithdrawnIsDead)
  /\ part = "gate" => (Access!Final!SpentOnce /\ Access!Final!SaidOnce)
  /\ part = "gate of the rule" => (RuleGate!Final!SpentOnce /\ RuleGate!Final!SaidOnce)
  /\ part = "gate of follow-ups" => (FollowUpGate!Final!SpentOnce /\ FollowUpGate!Final!SaidOnce)
  /\ part = "gate and a policy" => (PolicyGate!Final!SpentOnce /\ PolicyGate!Final!SaidOnce)

(* No bucket admits more requests than its limit though the storage fails in
   between, and the upload slots in use are those of open responses
   (enforceAdminRateLimit, createApp). *)
LimitsHold ==
  /\ part = "limits" => (Access!Http!LimitHolds /\ Access!Http!SlotsCounted)

(* A backup under way is left alone by every retention, one that was
   published is left unless a database was damaged, a restored database
   stands with its documents, and a recorded verification that is trusted
   tells how the bundle is (enforceBackupRetention, isActiveBackupPath,
   restoreBackupBundle, readVerificationRecord). *)
CopiesRemain ==
  /\ part = "bundles" => (Bundles!WorkIsKept /\ Bundles!OneRemains)
  /\ part = "documents" => (Documents!WorkIsKept /\ Documents!OneRemains)
  /\ part = "restore" => Bundles!Restore!TheyGoTogether
  /\ part = "records" => (Bundles!Records!RecordsAreTrue /\ Bundles!Records!OnePass)

(* A revoked upload link stays revoked, a session is opened with a role its
   address has at that moment, the tour never goes back, a mail is handed
   over on facts, rules and activations that hold at that moment, no
   retention removes what is newest by what it saw before, and a restore
   loses nothing of what it replaces (resetSecureUploadRequestIfUploading,
   verifyAdminMagicLink, upsertAdminOnboardingProgress,
   authorizeCimProviderPending, enforceBackupRetention,
   restoreBackupBundle). *)
NothingIsStale ==
  [][ /\ part = "uploads" => VaultUploads!StaysRevoked
      /\ part = "links" => Access!GrantsCurrentRole
      /\ part = "tour" => Tour!GoesForward
      /\ part = "gate" => Access!Final!OnFactsStep
      /\ part = "gate of the rule" => RuleGate!Final!OnFactsStep
      /\ part = "gate of follow-ups" => FollowUpGate!Final!OnFactsStep
      /\ part = "gate and a policy" => PolicyGate!Final!OnFactsStep
      /\ part = "bundles" => Bundles!KeepsNewest
      /\ part = "documents" => Documents!KeepsNewest
      /\ part = "restore" => Bundles!Restore!LosesNothing ]_vars

(* Links, visits and addresses, and calls of the gate, are interchangeable *)
Symmetric ==
  Permutations({a1, a2}) \cup Permutations({b1, b2}) \cup Permutations({adm, vie})
===============================================================================
