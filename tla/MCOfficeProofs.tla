----------------------------- MODULE MCOfficeProofs -----------------------------
(***************************************************************************)
(* Theorems about the parts of the back office beside each other: a         *)
(* behaviour of a part is a behaviour of its component, so what is proved   *)
(* of the component holds of the part.                                      *)
(***************************************************************************)
EXTENDS MCOffice, TLAPS

(* A behaviour stays in the part it begins in. *)
LEMMA PartStays == [Next]_vars => part' = part
  BY DEF Next, vars

-----------------------------------------------------------------------------
(* The limits *)

(* A behaviour of the part with the limits is one of HttpLimits. *)
LEMMA LimitsPart ==
  Spec => [](~(part = "limits")) \/ ([](part = "limits") /\ Access!Http!Spec)
  <1>1. Init /\ part = "limits" => Access!Http!Init
    BY DEF Init
  <1>2. part = "limits" /\ [Next]_vars => [Access!Http!Next]_(Access!Http!vars)
    BY DEF Next, vars, Access!Http!vars
  <1>3. part = "limits" /\ [Next]_vars => (part = "limits")'
    BY PartStays
  <1>4. ~(part = "limits") /\ [Next]_vars => (~(part = "limits"))'
    BY PartStays
  <1> QED BY <1>1, <1>2, <1>3, <1>4, PTL DEF Spec, Access!Http!Spec

(* No bucket admits more requests than its limit though the storage fails in *)
(* between, and the upload slots in use are those of open responses          *)
(* (enforceAdminRateLimit, createApp).                                       *)
THEOREM LimitsAlwaysHold == Spec => []LimitsHold
  <1>1. Access!Http!Spec => []Access!Http!LimitHolds
    BY LimitsFit, Access!LimitsAreKept
  <1>2. Access!Http!Spec => []Access!Http!SlotsCounted
    BY LimitsFit, Access!SlotsAreCounted
  <1>3. Access!Http!LimitHolds /\ Access!Http!SlotsCounted => LimitsHold
    BY DEF LimitsHold
  <1>4. ~(part = "limits") => LimitsHold
    BY DEF LimitsHold
  <1> QED BY <1>1, <1>2, <1>3, <1>4, LimitsPart, PTL

-----------------------------------------------------------------------------
(* The sign-in links and the final gate *)

(* A behaviour of the part with the links is one of AdminLinks. *)
LEMMA LinksPart ==
  Spec => [](~(part = "links")) \/ ([](part = "links") /\ Access!Spec)
  <1>1. Init /\ part = "links" => Access!Init
    BY DEF Init
  <1>2. part = "links" /\ [Next]_vars => [Access!Next]_(Access!vars)
    BY DEF Next, vars, Access!vars
  <1>3. part = "links" /\ [Next]_vars => (part = "links")'
    BY PartStays
  <1>4. ~(part = "links") /\ [Next]_vars => (~(part = "links"))'
    BY PartStays
  <1> QED BY <1>1, <1>2, <1>3, <1>4, PTL DEF Spec, Access!Spec

(* Each part of the final gate behaves as FinalGate does with its constants. *)
LEMMA GatePart ==
  Spec => [](~(part = "gate")) \/ ([](part = "gate") /\ Access!Final!FinalGateSpec)
  <1>1. Init /\ part = "gate" => Access!Final!FinalGateInit
    BY DEF Init
  <1>2. part = "gate" /\ [Next]_vars => [Access!Final!FinalGateNext]_(Access!Final!gateVars)
    BY DEF Next, vars, Access!Final!gateVars
  <1>3. part = "gate" /\ [Next]_vars => (part = "gate")'
    BY PartStays
  <1>4. ~(part = "gate") /\ [Next]_vars => (~(part = "gate"))'
    BY PartStays
  <1> QED BY <1>1, <1>2, <1>3, <1>4, PTL DEF Spec, Access!Final!FinalGateSpec

(* The rule is switched and the activations change. *)
LEMMA RuleGatePart ==
  Spec => [](~(part = "gate of the rule")) \/ ([](part = "gate of the rule") /\ RuleGate!Final!FinalGateSpec)
  <1>1. Init /\ part = "gate of the rule" => RuleGate!Final!FinalGateInit
    BY DEF Init
  <1>2. part = "gate of the rule" /\ [Next]_vars => [RuleGate!Final!FinalGateNext]_(RuleGate!Final!gateVars)
    BY DEF Next, vars, RuleGate!Final!gateVars
  <1>3. part = "gate of the rule" /\ [Next]_vars => (part = "gate of the rule")'
    BY PartStays
  <1>4. ~(part = "gate of the rule") /\ [Next]_vars => (~(part = "gate of the rule"))'
    BY PartStays
  <1> QED BY <1>1, <1>2, <1>3, <1>4, PTL DEF Spec, RuleGate!Final!FinalGateSpec

(* A follow-up is authorized under both activations. *)
LEMMA FollowUpGatePart ==
  Spec => [](~(part = "gate of follow-ups")) \/ ([](part = "gate of follow-ups") /\ FollowUpGate!Final!FinalGateSpec)
  <1>1. Init /\ part = "gate of follow-ups" => FollowUpGate!Final!FinalGateInit
    BY DEF Init
  <1>2. part = "gate of follow-ups" /\ [Next]_vars => [FollowUpGate!Final!FinalGateNext]_(FollowUpGate!Final!gateVars)
    BY DEF Next, vars, FollowUpGate!Final!gateVars
  <1>3. part = "gate of follow-ups" /\ [Next]_vars => (part = "gate of follow-ups")'
    BY PartStays
  <1>4. ~(part = "gate of follow-ups") /\ [Next]_vars => (~(part = "gate of follow-ups"))'
    BY PartStays
  <1> QED BY <1>1, <1>2, <1>3, <1>4, PTL DEF Spec, FollowUpGate!Final!FinalGateSpec

(* The mail is under a policy this version does not know. *)
LEMMA PolicyGatePart ==
  Spec => [](~(part = "gate and a policy")) \/ ([](part = "gate and a policy") /\ PolicyGate!Final!FinalGateSpec)
  <1>1. Init /\ part = "gate and a policy" => PolicyGate!Final!FinalGateInit
    BY DEF Init
  <1>2. part = "gate and a policy" /\ [Next]_vars => [PolicyGate!Final!FinalGateNext]_(PolicyGate!Final!gateVars)
    BY DEF Next, vars, PolicyGate!Final!gateVars
  <1>3. part = "gate and a policy" /\ [Next]_vars => (part = "gate and a policy")'
    BY PartStays
  <1>4. ~(part = "gate and a policy") /\ [Next]_vars => (~(part = "gate and a policy"))'
    BY PartStays
  <1> QED BY <1>1, <1>2, <1>3, <1>4, PTL DEF Spec, PolicyGate!Final!FinalGateSpec

(* A magic link opens one session at most, and none once its failed mail     *)
(* withdrew it; an authorization is spent by one hand-over of its mail, and  *)
(* an unknown policy is reported once (consumeAdminMagicLink,                *)
(* authorizeCimProviderPending).                                             *)
THEOREM UsedOnceAlways == Spec => []UsedOnce
  <1> DEFINE LinksOnce == part = "links" => Access!SingleUse /\ Access!WithdrawnIsDead
             GateOnce == part = "gate" => Access!Final!SpentOnce /\ Access!Final!SaidOnce
             RuleGateOnce == part = "gate of the rule" => RuleGate!Final!SpentOnce /\ RuleGate!Final!SaidOnce
             FollowUpGateOnce == part = "gate of follow-ups" => FollowUpGate!Final!SpentOnce /\ FollowUpGate!Final!SaidOnce
             PolicyGateOnce == part = "gate and a policy" => PolicyGate!Final!SpentOnce /\ PolicyGate!Final!SaidOnce
  <1>1. Spec => []LinksOnce
    <2>1. Access!Spec => []Access!SingleUse
      BY LinksFit, Access!UsedByOne
    <2>2. Access!Spec => []Access!WithdrawnIsDead
      BY LinksFit, Access!WithdrawnOpensNothing
    <2> QED BY <2>1, <2>2, LinksPart, PTL
  <1>2. Spec => []GateOnce
    <2>1. Access!Final!FinalGateSpec => []Access!Final!SpentOnce
      BY GateFit, Access!AuthorizationsAreSpentOnce
    <2>2. Access!Final!FinalGateSpec => []Access!Final!SaidOnce
      BY GateFit, Access!UnknownIsSaidOnce
    <2> QED BY <2>1, <2>2, GatePart, PTL
  <1>3. Spec => []RuleGateOnce
    <2>1. RuleGate!Final!FinalGateSpec => []RuleGate!Final!SpentOnce
      BY RuleGateFit, RuleGate!AuthorizationsAreSpentOnce
    <2>2. RuleGate!Final!FinalGateSpec => []RuleGate!Final!SaidOnce
      BY RuleGateFit, RuleGate!UnknownIsSaidOnce
    <2> QED BY <2>1, <2>2, RuleGatePart, PTL
  <1>4. Spec => []FollowUpGateOnce
    <2>1. FollowUpGate!Final!FinalGateSpec => []FollowUpGate!Final!SpentOnce
      BY FollowUpGateFit, FollowUpGate!AuthorizationsAreSpentOnce
    <2>2. FollowUpGate!Final!FinalGateSpec => []FollowUpGate!Final!SaidOnce
      BY FollowUpGateFit, FollowUpGate!UnknownIsSaidOnce
    <2> QED BY <2>1, <2>2, FollowUpGatePart, PTL
  <1>5. Spec => []PolicyGateOnce
    <2>1. PolicyGate!Final!FinalGateSpec => []PolicyGate!Final!SpentOnce
      BY PolicyGateFit, PolicyGate!AuthorizationsAreSpentOnce
    <2>2. PolicyGate!Final!FinalGateSpec => []PolicyGate!Final!SaidOnce
      BY PolicyGateFit, PolicyGate!UnknownIsSaidOnce
    <2> QED BY <2>1, <2>2, PolicyGatePart, PTL
  <1>6. LinksOnce /\ GateOnce /\ RuleGateOnce /\ FollowUpGateOnce /\ PolicyGateOnce => UsedOnce
    BY DEF UsedOnce
  <1> QED BY <1>1, <1>2, <1>3, <1>4, <1>5, <1>6, PTL

-----------------------------------------------------------------------------
(* The vault *)

(* Two uploads, faults and a crash. *)
LEMMA UploadsPart ==
  Spec => [](~(part = "uploads")) \/ ([](part = "uploads") /\ VaultUploads!Spec)
  <1>1. Init /\ part = "uploads" => VaultUploads!Init
    BY DEF Init
  <1>2. part = "uploads" /\ [Next]_vars => [VaultUploads!Next]_(VaultUploads!vars)
    BY DEF Next, vars, VaultUploads!vars, VaultUploads!store, VaultUploads!files
  <1>3. part = "uploads" /\ [Next]_vars => (part = "uploads")'
    BY PartStays
  <1>4. ~(part = "uploads") /\ [Next]_vars => (~(part = "uploads"))'
    BY PartStays
  <1> QED BY <1>1, <1>2, <1>3, <1>4, PTL DEF Spec, VaultUploads!Spec

(* An upload and the deletion of its record. *)
LEMMA RemovalPart ==
  Spec => [](~(part = "removal")) \/ ([](part = "removal") /\ VaultRemoval!Spec)
  <1>1. Init /\ part = "removal" => VaultRemoval!Init
    BY DEF Init
  <1>2. part = "removal" /\ [Next]_vars => [VaultRemoval!Next]_(VaultRemoval!vars)
    BY DEF Next, vars, VaultRemoval!vars, VaultRemoval!store, VaultRemoval!files
  <1>3. part = "removal" /\ [Next]_vars => (part = "removal")'
    BY PartStays
  <1>4. ~(part = "removal") /\ [Next]_vars => (~(part = "removal"))'
    BY PartStays
  <1> QED BY <1>1, <1>2, <1>3, <1>4, PTL DEF Spec, VaultRemoval!Spec

(* An upload and a deletion whose answers may be lost. *)
LEMMA LostPart ==
  Spec => [](~(part = "lost")) \/ ([](part = "lost") /\ VaultLost!Spec)
  <1>1. Init /\ part = "lost" => VaultLost!Init
    BY DEF Init
  <1>2. part = "lost" /\ [Next]_vars => [VaultLost!Next]_(VaultLost!vars)
    BY DEF Next, vars, VaultLost!vars, VaultLost!store, VaultLost!files
  <1>3. part = "lost" /\ [Next]_vars => (part = "lost")'
    BY PartStays
  <1>4. ~(part = "lost") /\ [Next]_vars => (~(part = "lost"))'
    BY PartStays
  <1> QED BY <1>1, <1>2, <1>3, <1>4, PTL DEF Spec, VaultLost!Spec

(* No file is left without its row at rest, no file is forgotten in the trash, *)
(* and no document the database knows loses its file, whatever failed, crashed *)
(* or was answered late (uploadSecureDocuments, deleteDashboardSubmission,     *)
(* partitionCleanupJobFiles).                                                  *)
THEOREM VaultAlwaysWhole == Spec => []VaultIsWhole
  <1>1. VaultUploads!Spec => []VaultUploads!NoOrphans
    BY VaultUploadsFit, VaultUploads!UploadsLeaveNoOrphans DEF VaultUploads!Plain
  <1>2. VaultRemoval!Spec => []VaultRemoval!TrashIsCovered
    BY VaultRemovalFit, VaultRemoval!TrashAlwaysCovered
  <1>3. VaultLost!Spec => []VaultLost!DocumentsKept
    BY VaultLostFit, VaultLost!DocumentsAlwaysKept
  <1> DEFINE AtRest == part = "uploads" => VaultUploads!NoOrphans
             InTrash == part = "removal" => VaultRemoval!TrashIsCovered
             Known == part = "lost" => VaultLost!DocumentsKept
  <1>4. Spec => []AtRest
    BY <1>1, UploadsPart, PTL
  <1>5. Spec => []InTrash
    BY <1>2, RemovalPart, PTL
  <1>6. Spec => []Known
    BY <1>3, LostPart, PTL
  <1>7. AtRest /\ InTrash /\ Known => VaultIsWhole
    BY DEF VaultIsWhole
  <1> QED BY <1>4, <1>5, <1>6, <1>7, PTL

-----------------------------------------------------------------------------
(* The tour *)

(* Three tabs and two steps. *)
LEMMA TourPart ==
  Spec => [](~(part = "tour")) \/ ([](part = "tour") /\ Tour!Spec)
  <1>1. Init /\ part = "tour" => Tour!Init
    BY DEF Init
  <1>2. part = "tour" /\ [Next]_vars => [Tour!Next]_(Tour!vars)
    BY DEF Next, vars, Tour!vars
  <1>3. part = "tour" /\ [Next]_vars => (part = "tour")'
    BY PartStays
  <1>4. ~(part = "tour") /\ [Next]_vars => (~(part = "tour"))'
    BY PartStays
  <1> QED BY <1>1, <1>2, <1>3, <1>4, PTL DEF Spec, Tour!Spec

(* The row begins with no step on record. *)
TourTyped == Tour!TypeOK /\ (x1.status = "none" => x1.step = 0)
TourCalls == [pc : {"idle", "read", "done"}, record : Tour!Record]

(* A record is merged into the row: the row is final, or the later step wins. *)
LEMMA TourStep ==
  ASSUME TourTyped, [Tour!Next]_(Tour!vars) PROVE TourTyped' /\ Tour!GoesForward
  <1>0. /\ x1 \in [status : Tour!Statuses \cup {"none"}, step : 0..2, completedAt : BOOLEAN, skippedAt : BOOLEAN]
        /\ x2 \in [{"c1", "c2", "c3"} -> TourCalls]
    BY DEF TourTyped, Tour!TypeOK, TourCalls
  <1>a. x1.status \in Tour!Statuses \cup {"none"} /\ x1.step \in 0..2 /\ (x1.status = "none" => x1.step = 0)
    BY <1>0 DEF TourTyped
  <1>1. CASE x1' = x1 /\ x2' \in [{"c1", "c2", "c3"} -> TourCalls]
    <2>1. Tour!GoesForward
      BY <1>a, <1>1 DEF Tour!GoesForward
    <2>2. TourTyped'
      BY <1>1 DEF TourTyped, Tour!TypeOK, TourCalls
    <2> QED BY <2>1, <2>2
  <1>2. ASSUME NEW c \in {"c1", "c2", "c3"}, Tour!Read(c)
        PROVE  x1' = x1 /\ x2' \in [{"c1", "c2", "c3"} -> TourCalls]
    <2>1. PICK status \in Tour!Statuses, given \in BOOLEAN :
            \E step \in (IF given THEN 0..2 ELSE {x1.step}) :
              x2' = [x2 EXCEPT ![c] = IF Tour!Acceptable(status, step)
                                      THEN [pc |-> "read", record |-> [status |-> status, step |-> step]]
                                      ELSE [Tour!NoCall EXCEPT !.pc = "done"]]
      BY <1>2 DEF Tour!Read
    <2>2. PICK step \in 0..2 :
            x2' = [x2 EXCEPT ![c] = IF Tour!Acceptable(status, step)
                                    THEN [pc |-> "read", record |-> [status |-> status, step |-> step]]
                                    ELSE [Tour!NoCall EXCEPT !.pc = "done"]]
      BY <1>a, <2>1
    <2>3. [pc |-> "read", record |-> [status |-> status, step |-> step]] \in TourCalls
      BY DEF TourCalls, Tour!Record
    <2>4. [Tour!NoCall EXCEPT !.pc = "done"] \in TourCalls
      BY DEF TourCalls, Tour!Record, Tour!NoCall, Tour!Statuses
    <2>5. x1' = x1
      BY <1>2 DEF Tour!Read
    <2> QED BY <1>0, <2>2, <2>3, <2>4, <2>5
  <1>3. ASSUME NEW c \in {"c1", "c2", "c3"}, Tour!Write(c) PROVE TourTyped' /\ Tour!GoesForward
    <2>1. PICK r \in Tour!Record : r = x2[c].record
      BY <1>0 DEF TourCalls
    <2>2. r.status \in Tour!Statuses /\ r.step \in 0..2
      BY DEF Tour!Record
    <2>3. x1' = Tour!Merged(r) /\ x2' = [x2 EXCEPT ![c].pc = "done"]
      BY <1>3, <2>1 DEF Tour!Write
    <2>4. x2' \in [{"c1", "c2", "c3"} -> TourCalls]
      <3>1. x2[c] \in TourCalls
        BY <1>0
      <3>2. [x2[c] EXCEPT !.pc = "done"] \in TourCalls
        BY <3>1 DEF TourCalls
      <3> QED BY <1>0, <2>3, <3>2
    <2>5. CASE x1.status # "none" /\ Tour!Settled(r)
      BY <1>1, <2>3, <2>4, <2>5 DEF Tour!Merged
    <2>6. CASE x1.status = "none" \/ ~Tour!Settled(r)
      <3> DEFINE step == IF x1.status = "none" THEN r.step ELSE Tour!Later(r)
      <3>1. step \in 0..2 /\ step >= x1.step
        BY <1>a, <2>2 DEF Tour!Later
      <3> HIDE DEF step
      <3>2. x1' = [status |-> r.status, step |-> step,
                   completedAt |-> r.status = "completed", skippedAt |-> r.status = "skipped"]
        BY <2>3, <2>6 DEF Tour!Merged, step
      <3>3. x1'.status = r.status /\ x1'.step = step
        BY <3>2
      <3>4. r.status # "none"
        BY <2>2 DEF Tour!Statuses
      <3>5. Tour!GoesForward
        BY <2>6, <3>1, <3>3 DEF Tour!GoesForward, Tour!Settled
      <3>6. x1' \in [status : Tour!Statuses \cup {"none"}, step : 0..2, completedAt : BOOLEAN, skippedAt : BOOLEAN]
        BY <2>2, <3>1, <3>2
      <3> QED BY <2>4, <3>3, <3>4, <3>5, <3>6 DEF TourTyped, Tour!TypeOK, TourCalls
    <2> QED BY <2>5, <2>6
  <1> QED BY <1>0, <1>1, <1>2, <1>3 DEF Tour!Next, Tour!vars

(* The tour keeps its types. *)
LEMMA TourIsTyped == Tour!Spec => []TourTyped
  <1>1. Tour!Init => TourTyped
    BY DEF Tour!Init, TourTyped, Tour!TypeOK, Tour!NoRow, Tour!NoCall, Tour!Record, Tour!Statuses
  <1>2. TourTyped /\ [Tour!Next]_(Tour!vars) => TourTyped'
    BY TourStep
  <1> QED BY <1>1, <1>2, PTL DEF Tour!Spec

-----------------------------------------------------------------------------
(* The backups *)

(* Scheduled runs and one by hand, over three days. *)
LEMMA BundlesPart ==
  Spec => [](~(part = "bundles")) \/ ([](part = "bundles") /\ Bundles!Spec)
  <1>1. Init /\ part = "bundles" => Bundles!Init
    BY DEF Init
  <1>2. part = "bundles" /\ [Next]_vars => [Bundles!Next]_(Bundles!vars)
    BY DEF Next, vars, Bundles!vars
  <1>3. part = "bundles" /\ [Next]_vars => (part = "bundles")'
    BY PartStays
  <1>4. ~(part = "bundles") /\ [Next]_vars => (~(part = "bundles"))'
    BY PartStays
  <1> QED BY <1>1, <1>2, <1>3, <1>4, PTL DEF Spec, Bundles!Spec

(* A document that comes, is damaged and goes. *)
LEMMA DocumentsPart ==
  Spec => [](~(part = "documents")) \/ ([](part = "documents") /\ Documents!Spec)
  <1>1. Init /\ part = "documents" => Documents!Init
    BY DEF Init
  <1>2. part = "documents" /\ [Next]_vars => [Documents!Next]_(Documents!vars)
    BY DEF Next, vars, Documents!vars
  <1>3. part = "documents" /\ [Next]_vars => (part = "documents")'
    BY PartStays
  <1>4. ~(part = "documents") /\ [Next]_vars => (~(part = "documents"))'
    BY PartStays
  <1> QED BY <1>1, <1>2, <1>3, <1>4, PTL DEF Spec, Documents!Spec

(* The restore of a bundle. *)
LEMMA RestorePart ==
  Spec => [](~(part = "restore")) \/ ([](part = "restore") /\ Bundles!Restore!Spec)
  <1>1. Init /\ part = "restore" => Bundles!Restore!Init
    BY DEF Init
  <1>2. part = "restore" /\ [Next]_vars => [Bundles!Restore!Next]_(Bundles!Restore!vars)
    BY DEF Next, vars, Bundles!Restore!vars
  <1>3. part = "restore" /\ [Next]_vars => (part = "restore")'
    BY PartStays
  <1>4. ~(part = "restore") /\ [Next]_vars => (~(part = "restore"))'
    BY PartStays
  <1> QED BY <1>1, <1>2, <1>3, <1>4, PTL DEF Spec, Bundles!Restore!Spec

(* Two readers of the records of a bundle. *)
LEMMA RecordsPart ==
  Spec => [](~(part = "records")) \/ ([](part = "records") /\ Bundles!Records!Spec)
  <1>1. Init /\ part = "records" => Bundles!Records!Init
    BY DEF Init
  <1>2. part = "records" /\ [Next]_vars => [Bundles!Records!Next]_(Bundles!Records!vars)
    BY DEF Next, vars, Bundles!Records!vars
  <1>3. part = "records" /\ [Next]_vars => (part = "records")'
    BY PartStays
  <1>4. ~(part = "records") /\ [Next]_vars => (~(part = "records"))'
    BY PartStays
  <1> QED BY <1>1, <1>2, <1>3, <1>4, PTL DEF Spec, Bundles!Records!Spec

(* A backup under way is left alone by every retention, one that was published *)
(* is left unless a database was damaged, a restored database stands with its  *)
(* documents, and a recorded verification that is trusted tells how the bundle *)
(* is (enforceBackupRetention, isActiveBackupPath, restoreBackupBundle,        *)
(* readVerificationRecord).                                                    *)
THEOREM CopiesAlwaysRemain == Spec => []CopiesRemain
  <1> DEFINE Bundled == part = "bundles" => Bundles!WorkIsKept /\ Bundles!OneRemains
             Documented == part = "documents" => Documents!WorkIsKept /\ Documents!OneRemains
             Restored == part = "restore" => Bundles!Restore!TheyGoTogether
             Recorded == part = "records" => Bundles!Records!RecordsAreTrue /\ Bundles!Records!OnePass
  <1>1. Spec => []Bundled
    <2>1. Bundles!Spec => []Bundles!WorkIsKept
      BY BundlesFit, Bundles!WorkIsAlwaysKept
    <2>2. Bundles!Spec => []Bundles!OneRemains
      BY BundlesFit, Bundles!OneAlwaysRemains
    <2> QED BY <2>1, <2>2, BundlesPart, PTL
  <1>2. Spec => []Documented
    <2>1. Documents!Spec => []Documents!WorkIsKept
      BY DocumentsFit, Documents!WorkIsAlwaysKept
    <2>2. Documents!Spec => []Documents!OneRemains
      BY DocumentsFit, Documents!OneAlwaysRemains
    <2> QED BY <2>1, <2>2, DocumentsPart, PTL
  <1>3. Spec => []Restored
    <2>1. Bundles!Restore!Spec => []Bundles!Restore!TheyGoTogether
      BY RestoreFit, Bundles!RestoredTogether
    <2> QED BY <2>1, RestorePart, PTL
  <1>4. Spec => []Recorded
    <2>1. Bundles!Records!Spec => []Bundles!Records!RecordsAreTrue
      BY RecordsFit, Bundles!TrustedRecordsAreTrue
    <2>2. Bundles!Records!Spec => []Bundles!Records!OnePass
      BY RecordsFit, Bundles!OneVerifiesAtATime
    <2> QED BY <2>1, <2>2, RecordsPart, PTL
  <1>5. Bundled /\ Documented /\ Restored /\ Recorded => CopiesRemain
    BY DEF CopiesRemain
  <1> QED BY <1>1, <1>2, <1>3, <1>4, <1>5, PTL

-----------------------------------------------------------------------------
(* Types, and what a step may not do *)

(* Every variable of the vault, the sign-in, the tour, the limits, the gate,  *)
(* the backups, a restore and the records of verifications keeps its type.    *)
THEOREM TypeCorrect == Spec => []TypeOK
  <1> DEFINE VaultTyped == part = "uploads" => VaultUploads!TypeOK
             LinksTyped == part = "links" => Access!TypeOK
             TourKept == part = "tour" => Tour!TypeOK
             LimitsTyped == part = "limits" => Access!Http!TypeOK
             GateTyped == part = "gate" => Access!Final!FinalGateTypeOK
             BundlesTyped == part = "bundles" => Bundles!TypeOK
             DocumentsTyped == part = "documents" => Documents!TypeOK
             RestoreTyped == part = "restore" => Bundles!Restore!TypeOK
             RecordsTyped == part = "records" => Bundles!Records!TypeOK
  <1>1. Spec => []VaultTyped
    <2>1. VaultUploads!Spec => []VaultUploads!TypeOK
      BY VaultUploadsFit, VaultUploads!TypeCorrect
    <2> QED BY <2>1, UploadsPart, PTL
  <1>2. Spec => []LinksTyped
    <2>1. Access!Spec => []Access!TypeOK
      BY LinksFit, Access!TypeCorrect
    <2> QED BY <2>1, LinksPart, PTL
  <1>3. Spec => []TourKept
    <2>1. TourTyped => Tour!TypeOK
      BY DEF TourTyped
    <2> QED BY <2>1, TourIsTyped, TourPart, PTL
  <1>4. Spec => []LimitsTyped
    <2>1. Access!Http!Spec => []Access!Http!TypeOK
      BY LimitsFit, Access!LimitsTypeCorrect
    <2> QED BY <2>1, LimitsPart, PTL
  <1>5. Spec => []GateTyped
    <2>1. Access!Final!FinalGateSpec => []Access!Final!FinalGateTypeOK
      BY GateFit, Access!GateTypeCorrect
    <2> QED BY <2>1, GatePart, PTL
  <1>6. Spec => []BundlesTyped
    <2>1. Bundles!Spec => []Bundles!TypeOK
      BY BundlesFit, Bundles!TypeCorrect
    <2> QED BY <2>1, BundlesPart, PTL
  <1>7. Spec => []DocumentsTyped
    <2>1. Documents!Spec => []Documents!TypeOK
      BY DocumentsFit, Documents!TypeCorrect
    <2> QED BY <2>1, DocumentsPart, PTL
  <1>8. Spec => []RestoreTyped
    <2>1. Bundles!Restore!Spec => []Bundles!Restore!TypeOK
      BY RestoreFit, Bundles!RestoreTypeCorrect
    <2> QED BY <2>1, RestorePart, PTL
  <1>9. Spec => []RecordsTyped
    <2>1. Bundles!Records!Spec => []Bundles!Records!TypeOK
      BY RecordsFit, Bundles!RecordsTypeCorrect
    <2> QED BY <2>1, RecordsPart, PTL
  <1>10. VaultTyped /\ LinksTyped /\ TourKept /\ LimitsTyped /\ GateTyped /\ BundlesTyped /\ DocumentsTyped
         /\ RestoreTyped /\ RecordsTyped => TypeOK
    BY DEF TypeOK
  <1> QED BY <1>1, <1>2, <1>3, <1>4, <1>5, <1>6, <1>7, <1>8, <1>9, <1>10, PTL

(* A revoked upload link stays revoked, a session is opened with a role its   *)
(* address has at that moment, the tour never goes back, a mail is handed     *)
(* over on facts, rules and activations that hold at that moment, no          *)
(* retention removes what is newest by what it saw before, and a restore      *)
(* loses nothing of what it replaces (resetSecureUploadRequestIfUploading,    *)
(* verifyAdminMagicLink, upsertAdminOnboardingProgress,                       *)
(* authorizeCimProviderPending, enforceBackupRetention, restoreBackupBundle). *)
THEOREM NothingIsEverStale == Spec => NothingIsStale
  <1> DEFINE Revoked == part = "uploads" => VaultUploads!StaysRevoked
             Granted == part = "links" => Access!GrantsCurrentRole
             Forward == part = "tour" => Tour!GoesForward
             GateOnFacts == part = "gate" => Access!Final!OnFactsStep
             RuleGateOnFacts == part = "gate of the rule" => RuleGate!Final!OnFactsStep
             FollowUpGateOnFacts == part = "gate of follow-ups" => FollowUpGate!Final!OnFactsStep
             PolicyGateOnFacts == part = "gate and a policy" => PolicyGate!Final!OnFactsStep
             BundlesNewest == part = "bundles" => Bundles!KeepsNewest
             DocumentsNewest == part = "documents" => Documents!KeepsNewest
             NothingLost == part = "restore" => Bundles!Restore!LosesNothing
  <1>1. Spec => [][Revoked]_vars
    <2>1. VaultUploads!Spec => [][VaultUploads!StaysRevoked]_(VaultUploads!vars)
      BY VaultUploads!RevokedForGood DEF VaultUploads!RevokedStays
    <2>2. part = "uploads" /\ [Next]_vars /\ [VaultUploads!StaysRevoked]_(VaultUploads!vars) => [Revoked]_vars
      BY DEF Next, vars, VaultUploads!vars, VaultUploads!store, VaultUploads!files
    <2>3. ~(part = "uploads") => [Revoked]_vars
      OBVIOUS
    <2> HIDE DEF Revoked
    <2> QED BY <2>1, <2>2, <2>3, UploadsPart, PTL DEF Spec
  <1>2. Spec => [][Granted]_vars
    <2>1. Access!Spec => [][Access!GrantsCurrentRole]_(Access!vars)
      BY LinksFit, Access!RoleIsGranted DEF Access!RoleStillGranted
    <2>2. part = "links" /\ [Next]_vars /\ [Access!GrantsCurrentRole]_(Access!vars) => [Granted]_vars
      BY DEF Next, vars, Access!vars
    <2>3. ~(part = "links") => [Granted]_vars
      OBVIOUS
    <2> HIDE DEF Granted
    <2> QED BY <2>1, <2>2, <2>3, LinksPart, PTL DEF Spec
  <1>3. Spec => [][Forward]_vars
    <2>1. Tour!Spec => [][Tour!GoesForward]_(Tour!vars)
      <3>1. TourTyped /\ [Tour!Next]_(Tour!vars) => [Tour!GoesForward]_(Tour!vars)
        BY TourStep
      <3> QED BY <3>1, TourIsTyped, PTL DEF Tour!Spec
    <2>2. part = "tour" /\ [Next]_vars /\ [Tour!GoesForward]_(Tour!vars) => [Forward]_vars
      BY DEF Next, vars, Tour!vars
    <2>3. ~(part = "tour") => [Forward]_vars
      OBVIOUS
    <2> HIDE DEF Forward
    <2> QED BY <2>1, <2>2, <2>3, TourPart, PTL DEF Spec
  <1>4. Spec => [][GateOnFacts]_vars
    <2>1. Access!Final!FinalGateSpec => [][Access!Final!OnFactsStep]_(Access!Final!gateVars)
      BY GateFit, Access!HandedOverOnFactsAlways DEF Access!Final!HandedOverOnFacts
    <2>2. part = "gate" /\ [Next]_vars /\ [Access!Final!OnFactsStep]_(Access!Final!gateVars) => [GateOnFacts]_vars
      BY DEF Next, vars, Access!Final!gateVars
    <2>3. ~(part = "gate") => [GateOnFacts]_vars
      OBVIOUS
    <2> HIDE DEF GateOnFacts
    <2> QED BY <2>1, <2>2, <2>3, GatePart, PTL DEF Spec
  <1>5. Spec => [][RuleGateOnFacts]_vars
    <2>1. RuleGate!Final!FinalGateSpec => [][RuleGate!Final!OnFactsStep]_(RuleGate!Final!gateVars)
      BY RuleGateFit, RuleGate!HandedOverOnFactsAlways DEF RuleGate!Final!HandedOverOnFacts
    <2>2. part = "gate of the rule" /\ [Next]_vars /\ [RuleGate!Final!OnFactsStep]_(RuleGate!Final!gateVars) => [RuleGateOnFacts]_vars
      BY DEF Next, vars, RuleGate!Final!gateVars
    <2>3. ~(part = "gate of the rule") => [RuleGateOnFacts]_vars
      OBVIOUS
    <2> HIDE DEF RuleGateOnFacts
    <2> QED BY <2>1, <2>2, <2>3, RuleGatePart, PTL DEF Spec
  <1>6. Spec => [][FollowUpGateOnFacts]_vars
    <2>1. FollowUpGate!Final!FinalGateSpec => [][FollowUpGate!Final!OnFactsStep]_(FollowUpGate!Final!gateVars)
      BY FollowUpGateFit, FollowUpGate!HandedOverOnFactsAlways DEF FollowUpGate!Final!HandedOverOnFacts
    <2>2. part = "gate of follow-ups" /\ [Next]_vars /\ [FollowUpGate!Final!OnFactsStep]_(FollowUpGate!Final!gateVars) => [FollowUpGateOnFacts]_vars
      BY DEF Next, vars, FollowUpGate!Final!gateVars
    <2>3. ~(part = "gate of follow-ups") => [FollowUpGateOnFacts]_vars
      OBVIOUS
    <2> HIDE DEF FollowUpGateOnFacts
    <2> QED BY <2>1, <2>2, <2>3, FollowUpGatePart, PTL DEF Spec
  <1>7. Spec => [][PolicyGateOnFacts]_vars
    <2>1. PolicyGate!Final!FinalGateSpec => [][PolicyGate!Final!OnFactsStep]_(PolicyGate!Final!gateVars)
      BY PolicyGateFit, PolicyGate!HandedOverOnFactsAlways DEF PolicyGate!Final!HandedOverOnFacts
    <2>2. part = "gate and a policy" /\ [Next]_vars /\ [PolicyGate!Final!OnFactsStep]_(PolicyGate!Final!gateVars) => [PolicyGateOnFacts]_vars
      BY DEF Next, vars, PolicyGate!Final!gateVars
    <2>3. ~(part = "gate and a policy") => [PolicyGateOnFacts]_vars
      OBVIOUS
    <2> HIDE DEF PolicyGateOnFacts
    <2> QED BY <2>1, <2>2, <2>3, PolicyGatePart, PTL DEF Spec
  <1>8. Spec => [][BundlesNewest]_vars
    <2>1. Bundles!Spec => [][Bundles!KeepsNewest]_(Bundles!vars)
      BY BundlesFit, Bundles!NewestAreAlwaysKept DEF Bundles!NewestAreKept
    <2>2. part = "bundles" /\ [Next]_vars /\ [Bundles!KeepsNewest]_(Bundles!vars) => [BundlesNewest]_vars
      BY DEF Next, vars, Bundles!vars
    <2>3. ~(part = "bundles") => [BundlesNewest]_vars
      OBVIOUS
    <2> HIDE DEF BundlesNewest
    <2> QED BY <2>1, <2>2, <2>3, BundlesPart, PTL DEF Spec
  <1>9. Spec => [][DocumentsNewest]_vars
    <2>1. Documents!Spec => [][Documents!KeepsNewest]_(Documents!vars)
      BY DocumentsFit, Documents!NewestAreAlwaysKept DEF Documents!NewestAreKept
    <2>2. part = "documents" /\ [Next]_vars /\ [Documents!KeepsNewest]_(Documents!vars) => [DocumentsNewest]_vars
      BY DEF Next, vars, Documents!vars
    <2>3. ~(part = "documents") => [DocumentsNewest]_vars
      OBVIOUS
    <2> HIDE DEF DocumentsNewest
    <2> QED BY <2>1, <2>2, <2>3, DocumentsPart, PTL DEF Spec
  <1>10. Spec => [][NothingLost]_vars
    <2>1. Bundles!Restore!Spec => [][Bundles!Restore!LosesNothing]_(Bundles!Restore!vars)
      BY RestoreFit, Bundles!RestoreLosesNothing DEF Bundles!Restore!NothingIsLost
    <2>2. part = "restore" /\ [Next]_vars /\ [Bundles!Restore!LosesNothing]_(Bundles!Restore!vars) => [NothingLost]_vars
      BY DEF Next, vars, Bundles!Restore!vars
    <2>3. ~(part = "restore") => [NothingLost]_vars
      OBVIOUS
    <2> HIDE DEF NothingLost
    <2> QED BY <2>1, <2>2, <2>3, RestorePart, PTL DEF Spec
  <1> DEFINE AccessAndFiles == Revoked /\ Granted /\ Forward /\ NothingLost
             Gates == GateOnFacts /\ RuleGateOnFacts /\ FollowUpGateOnFacts /\ PolicyGateOnFacts
             Newest == BundlesNewest /\ DocumentsNewest
  <1>11. Spec => [][AccessAndFiles]_vars
    <2>1. [Revoked]_vars /\ [Granted]_vars /\ [Forward]_vars /\ [NothingLost]_vars => [AccessAndFiles]_vars
      OBVIOUS
    <2> HIDE DEF Revoked, Granted, Forward, NothingLost, AccessAndFiles
    <2> QED BY <1>1, <1>2, <1>3, <1>10, <2>1, PTL
  <1>12. Spec => [][Gates]_vars
    <2>1. [GateOnFacts]_vars /\ [RuleGateOnFacts]_vars /\ [FollowUpGateOnFacts]_vars /\ [PolicyGateOnFacts]_vars
          => [Gates]_vars
      OBVIOUS
    <2> HIDE DEF GateOnFacts, RuleGateOnFacts, FollowUpGateOnFacts, PolicyGateOnFacts, Gates
    <2> QED BY <1>4, <1>5, <1>6, <1>7, <2>1, PTL
  <1>13. Spec => [][Newest]_vars
    <2>1. [BundlesNewest]_vars /\ [DocumentsNewest]_vars => [Newest]_vars
      OBVIOUS
    <2> HIDE DEF BundlesNewest, DocumentsNewest, Newest
    <2> QED BY <1>8, <1>9, <2>1, PTL
  <1>14. [AccessAndFiles]_vars /\ [Gates]_vars /\ [Newest]_vars
        => [ /\ part = "uploads" => VaultUploads!StaysRevoked
             /\ part = "links" => Access!GrantsCurrentRole
             /\ part = "tour" => Tour!GoesForward
             /\ part = "gate" => Access!Final!OnFactsStep
             /\ part = "gate of the rule" => RuleGate!Final!OnFactsStep
             /\ part = "gate of follow-ups" => FollowUpGate!Final!OnFactsStep
             /\ part = "gate and a policy" => PolicyGate!Final!OnFactsStep
             /\ part = "bundles" => Bundles!KeepsNewest
             /\ part = "documents" => Documents!KeepsNewest
             /\ part = "restore" => Bundles!Restore!LosesNothing ]_vars
    OBVIOUS
  <1> HIDE DEF AccessAndFiles, Gates, Newest
  <1> QED BY <1>11, <1>12, <1>13, <1>14, PTL DEF NothingIsStale
=================================================================================
