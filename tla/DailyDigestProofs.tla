-------------------------- MODULE DailyDigestProofs --------------------------
(***************************************************************************)
(* Theorems about DailyDigest for every number of workers, attempts,       *)
(* restarts and foreign messages and every choice of the three delays.     *)
(* Order: the type invariant, the delivery invariant, the evidence         *)
(* invariant, then what follows from the three about single steps and      *)
(* about DailyBriefing.                                                    *)
(***************************************************************************)
EXTENDS DailyDigest, TLAPS

(* The storage operations map rows to rows. *)
LEMMA RowTypes ==
  ASSUME NEW r \in Rows, NEW t \in Times
  PROVE  /\ r.attempts < MaxAttempts => Claimed(r, t) \in Rows /\ NextToken(r) \in Tokens
         /\ \A status \in Statuses : Moved(r, status, t) \in Rows
         /\ \A id \in Ids : [Moved(r, "completed", t) EXCEPT !.messageId = id] \in Rows
         /\ [Moved(r, "transmitting", t) EXCEPT !.boundaryAt = t] \in Rows
         /\ WithEnvelope(Moved(r, "pending", t), "valid") \in Rows
         /\ [r EXCEPT !.envelope = "invalid"] \in Rows
  <1> USE DigestAssumption
  <1>1. ASSUME r.attempts < MaxAttempts PROVE r.attempts + 1 \in Tokens
    BY <1>1 DEF Rows, Tokens
  <1>2. ASSUME r.attempts < MaxAttempts
        PROVE  Claimed(r, t) \in Rows /\ NextToken(r) \in Tokens
    BY <1>1, <1>2 DEF Claimed, NextToken, Rows, Statuses
  <1>3. t + RetryDelay \in 0 .. MaxTime + RetryDelay
    BY DEF Times
  <1>4. \A status \in Statuses : Moved(r, status, t) \in Rows
    BY <1>3 DEF Moved, Rows
  <1>5. "completed" \in Statuses /\ "transmitting" \in Statuses /\ "pending" \in Statuses
    BY DEF Statuses
  <1>6. \A id \in Ids : [Moved(r, "completed", t) EXCEPT !.messageId = id] \in Rows
    BY <1>4, <1>5 DEF Rows
  <1>7. [Moved(r, "transmitting", t) EXCEPT !.boundaryAt = t] \in Rows
    BY <1>4, <1>5 DEF Rows
  <1>8. WithEnvelope(Moved(r, "pending", t), "valid") \in Rows
    BY <1>4, <1>5 DEF Rows, WithEnvelope
  <1>9. [r EXCEPT !.envelope = "invalid"] \in Rows
    BY DEF Rows
  <1> QED BY <1>2, <1>4, <1>6, <1>7, <1>8, <1>9

LEMMA IdleType == NoRow \in Rows /\ Idle \in Runs
  <1>1. NoRow \in Rows
    BY DigestAssumption DEF NoRow, Rows, Times, Tokens, Statuses
  <1> QED BY <1>1, DigestAssumption DEF Idle, Runs, PCs, Times, Tokens

LEMMA RunTypes ==
  ASSUME TypeOK, NEW w \in Workers
  PROVE  /\ run[w] \in Runs
         /\ \A pc \in PCs : Goto(w, pc) => run' \in [Workers -> Runs]
         /\ Finish(w) => run' \in [Workers -> Runs]
         /\ \A done : Return(w, done) => run' \in [Workers -> Runs]
  <1>1. run \in [Workers -> Runs] /\ run[w] \in Runs
    BY DEF TypeOK
  <1>2. ASSUME NEW pc \in PCs PROVE [run[w] EXCEPT !.pc = pc] \in Runs
    BY <1>1 DEF Runs
  <1>3. ASSUME NEW pc \in PCs, Goto(w, pc) PROVE run' \in [Workers -> Runs]
    BY <1>1, <1>2, <1>3 DEF Goto
  <1>4. [Idle EXCEPT !.pc = "claim", !.at = run[w].at] \in Runs
    BY <1>1, IdleType DEF Runs, PCs
  <1>5. ASSUME NEW done, Return(w, done) PROVE run' \in [Workers -> Runs]
    BY <1>1, <1>4, <1>5, IdleType DEF Return
  <1>6. Finish(w) => run' \in [Workers -> Runs]
    BY <1>1, IdleType DEF Finish
  <1> QED BY <1>1, <1>3, <1>5, <1>6


(* The type invariant: one step per action.                                *)

LEMMA TypeInit == Init => TypeOK
  <1> SUFFICES ASSUME Init PROVE TypeOK
    OBVIOUS
  <1> QED BY IdleType, DigestAssumption DEF Init, TypeOK, Times, Tokens, Ids

LEMMA TypeReconcile ==
  ASSUME TypeOK, NEW w \in Workers,
         Begin(w) \/ Hook(w) \/ Reconcile(w) \/ ReconcileThrows(w)
  PROVE  TypeOK'
  <1> USE DEF clock, events, provider, history
  <1>0. TypeOK /\ run[w] \in Runs /\ run \in [Workers -> Runs] /\ row \in Rows
    BY RunTypes DEF TypeOK
  <1>a. \A role \in {"run", "after", "hook"} : Reconciling(role) \in Runs
    BY <1>0, IdleType DEF Reconciling, Runs, PCs, TypeOK
  <1>b. MailIds \subseteq Ids
    BY DEF TypeOK, MailIds
  <1>1. CASE Begin(w)
    BY <1>0, <1>1, <1>a DEF Begin, TypeOK
  <1>2. CASE Hook(w)
    BY <1>0, <1>2, <1>a, <1>b DEF Hook, TypeOK
  <1>3. CASE ReconcileNothing(w)
    BY <1>3, RunTypes DEF ReconcileNothing, TypeOK
  <1>4. CASE ReconcileCompleted(w)
    <2>1. CASE marker = NoId /\ row.messageId # NoId
      <3>1. row.messageId \in Ids
        BY <1>0, <2>1 DEF Rows
      <3>2. [run[w] EXCEPT !.pc = "repair", !.seen = {row.messageId}] \in Runs
        BY <1>0, <3>1 DEF Runs, PCs
      <3> QED BY <1>0, <1>4, <2>1, <3>2 DEF ReconcileCompleted, TypeOK
    <2>2. CASE ~(marker = NoId /\ row.messageId # NoId)
      BY <1>4, <2>2, RunTypes DEF ReconcileCompleted, TypeOK
    <2> QED BY <2>1, <2>2
  <1>5. CASE ReconcileUnsettled(w)
    <2>1. [run[w] EXCEPT !.pc = "evidence", !.snap = row] \in Runs
      BY <1>0 DEF Runs, PCs
    <2> QED BY <1>0, <1>5, <2>1 DEF ReconcileUnsettled, TypeOK
  <1>6. CASE ReadEvidence(w)
    <2> DEFINE seen == ({marker} \ {NoId}) \cup localEvents \cup webhookEvents
               pc == IF run[w].role = "hook" THEN "resolve" ELSE "lookup"
    <2>1. seen \subseteq Ids /\ pc \in PCs
      BY DEF TypeOK, PCs
    <2> HIDE DEF seen, pc
    <2>2. [run[w] EXCEPT !.pc = pc, !.seen = seen] \in Runs
      BY <1>0, <2>1 DEF Runs
    <2>3. run' = [run EXCEPT ![w].pc = pc, ![w].seen = seen]
      BY <1>6 DEF ReadEvidence, seen, pc
    <2> QED BY <1>0, <1>6, <2>2, <2>3 DEF ReadEvidence, TypeOK
  <1>7. CASE Lookup(w)
    <2>1. PICK ids \in SUBSET Listed(w) : LookupReturns(w, ids)
      BY <1>7 DEF Lookup
    <2>2. ids \subseteq Ids
      BY <1>b DEF Listed, MailIds
    <2>3. [run[w] EXCEPT !.pc = "resolve", !.seen = @ \cup ids] \in Runs
      BY <1>0, <2>2 DEF Runs, PCs
    <2> QED BY <1>0, <2>1, <2>3 DEF LookupReturns, TypeOK
  <1>c. run[w].at \in Times /\ run[w].seen \subseteq Ids
    BY <1>0 DEF Runs
  <1>d. ASSUME MarkAmbiguous(w) PROVE row' \in Rows /\ run' \in [Workers -> Runs]
    <2>1. Moved(row, "ambiguous", run[w].at) \in Rows
      BY <1>0, <1>c, RowTypes DEF Statuses
    <2> QED BY <1>0, <1>d, <2>1, RunTypes DEF MarkAmbiguous, TryMove
  <1>8. CASE ResolveConflict(w)
    BY <1>8, <1>d DEF ResolveConflict, TypeOK
  <1>9. CASE ResolveNoProof(w)
    BY <1>0, <1>9, <1>d, RunTypes DEF ResolveNoProof, TypeOK
  <1>10. CASE ResolveProof(w)
    <2>1. PICK id \in run[w].seen :
            /\ TryMove(run[w].snap.token, {"transmitting", "ambiguous"}, "completed",
                       [Moved(row, "completed", run[w].at) EXCEPT !.messageId = id])
            /\ IF row'.status = "completed" THEN Goto(w, "repair") ELSE Return(w, FALSE)
      BY <1>10 DEF ResolveProof
    <2>2. row' \in Rows
      BY <1>0, <1>c, <2>1, RowTypes DEF TryMove
    <2>3. run' \in [Workers -> Runs]
      BY <2>1, RunTypes DEF PCs
    <2> QED BY <1>10, <2>2, <2>3 DEF ResolveProof, TypeOK
  <1>11. CASE Repair(w)
    BY <1>c, <1>11, RunTypes DEF Repair, TypeOK
  <1>12. CASE ReconcileThrows(w)
    BY <1>12, RunTypes DEF ReconcileThrows, TypeOK
  <1> QED BY <1>1, <1>2, <1>3, <1>4, <1>5, <1>6, <1>7, <1>8, <1>9, <1>10, <1>11, <1>12 DEF Reconcile
LEMMA TypeClaimedRun ==
  ASSUME TypeOK, NEW w \in Workers, ClaimedRun(w) \/ BuildThrows(w) \/ CompleteThrows(w)
  PROVE  TypeOK'
  <1> USE DEF clock, events, provider, history
  <1>0. TypeOK /\ run[w] \in Runs /\ run \in [Workers -> Runs] /\ row \in Rows
    BY RunTypes DEF TypeOK
  <1>a. run[w].at \in Times /\ run[w].token \in Tokens /\ run[w].token \in Ids
    BY <1>0 DEF Runs, Ids
  <1>b. \A status \in Statuses : Moved(row, status, run[w].at) \in Rows
    BY <1>0, <1>a, RowTypes
  <1>1. CASE Claim(w)
    <2>1. row' \in Rows /\ NextToken(row) \in Tokens
      BY <1>0, <1>a, <1>1, RowTypes DEF Claim
    <2> DEFINE pc == IF row.envelope = "none" THEN "build" ELSE "verify"
    <2>2. pc \in PCs
      BY DEF PCs
    <2> HIDE DEF pc
    <2>3. [run[w] EXCEPT !.pc = pc, !.token = NextToken(row)] \in Runs
      BY <1>0, <2>1, <2>2 DEF Runs
    <2>4. run' = [run EXCEPT ![w].pc = pc, ![w].token = NextToken(row)]
      BY <1>1 DEF Claim, pc
    <2> QED BY <1>0, <1>1, <2>1, <2>3, <2>4 DEF Claim, TypeOK
  <1>2. CASE ClaimDenied(w) \/ BuildThrows(w)
    BY <1>2, RunTypes DEF ClaimDenied, BuildThrows, TypeOK
  <1>3. CASE Build(w)
    <2>1. row' \in Rows
      BY <1>0, <1>a, <1>3, RowTypes DEF Build, TryMove
    <2>2. run' \in [Workers -> Runs]
      BY <1>3, RunTypes DEF Build, PCs
    <2> QED BY <1>3, <2>1, <2>2 DEF Build, TypeOK
  <1>4. CASE Cross(w)
    <2>1. row' \in Rows
      BY <1>0, <1>a, <1>4, RowTypes DEF Cross, TryMove
    <2>2. run' \in [Workers -> Runs] /\ crossedAt' \in Times
      BY <1>4, RunTypes DEF Cross, PCs, TypeOK
    <2> QED BY <1>4, <2>1, <2>2 DEF Cross, TypeOK
  <1>5. CASE RejectEnvelope(w)
    <2>1. row' \in Rows
      BY <1>0, <1>b, <1>5 DEF RejectEnvelope, TryMove, Statuses
    <2> QED BY <1>5, <2>1, RunTypes DEF RejectEnvelope, TypeOK
  <1>6. CASE Send(w) \/ SendRefusedLocally(w)
    BY <1>a, <1>6, RunTypes DEF Send, SendRefusedLocally, TypeOK, PCs
  <1>7. CASE HearAccepted(w) \/ HearRefused(w) \/ CompleteThrows(w)
    BY <1>7, RunTypes DEF HearAccepted, HearRefused, CompleteThrows, TypeOK, PCs
  <1>8. CASE HearNothing(w)
    <2>1. [Reconciling("after") EXCEPT !.at = run[w].at] \in Runs
      BY <1>0, <1>a, IdleType DEF Reconciling, Runs, PCs, TypeOK
    <2> QED BY <1>0, <1>8, <2>1 DEF HearNothing, TypeOK
  <1>9. CASE Fail(w)
    <2>1. row' \in Rows
      BY <1>0, <1>9, RowTypes DEF Fail, TryMove, Statuses, TypeOK
    <2> QED BY <1>9, <2>1, RunTypes DEF Fail, TypeOK
  <1>10. CASE WriteMarker(w)
    BY <1>a, <1>10, RunTypes DEF WriteMarker, TypeOK, PCs
  <1>11. CASE Complete(w)
    <2>1. row' \in Rows
      BY <1>0, <1>a, <1>11, RowTypes DEF Complete, TryMove
    <2> QED BY <1>11, <2>1, RunTypes DEF Complete, TypeOK, PCs
  <1>12. CASE Record(w)
    BY <1>a, <1>12, RunTypes DEF Record, TypeOK
  <1> QED BY <1>1, <1>2, <1>3, <1>4, <1>5, <1>6, <1>7, <1>8, <1>9, <1>10, <1>11, <1>12
          DEF ClaimedRun

LEMMA TypeEnvironment == ASSUME TypeOK, Environment PROVE TypeOK'
  <1> USE DEF clock, events, provider, history
  <1>1. ASSUME NEW t \in Tokens, Accept(t) \/ Refuse(t) PROVE TypeOK'
    BY <1>1 DEF Accept, Refuse, TypeOK, Ids
  <1>2. ASSUME NEW s \in Strays, Stray(s) PROVE TypeOK'
    BY <1>2 DEF Stray, TypeOK, Ids
  <1>3. CASE Crash
    <2>1. row' \in Rows
      BY <1>3 DEF Crash, TypeOK, Rows
    <2>2. crashes' \in 0 .. MaxCrashes
      BY <1>3, DigestAssumption DEF Crash, TypeOK
    <2> QED BY <1>3, <2>1, <2>2, IdleType DEF Crash, TypeOK
  <1>4. CASE Tick
    <2>1. now' \in Times
      BY <1>4, DigestAssumption DEF Tick, TypeOK, Times
    <2> QED BY <1>4, <2>1 DEF Tick, TypeOK
  <1> QED BY <1>1, <1>2, <1>3, <1>4 DEF Environment

LEMMA TypeNext == TypeOK /\ [Next]_vars => TypeOK'
  <1> SUFFICES ASSUME TypeOK, [Next]_vars PROVE TypeOK'
    OBVIOUS
  <1>1. CASE UNCHANGED vars
    BY <1>1 DEF vars, TypeOK
  <1>2. CASE Next
    BY <1>2, TypeReconcile, TypeClaimedRun, TypeEnvironment DEF Next, Throws
  <1> QED BY <1>1, <1>2

(* Every value of the row, of the workers and of the evidence stays within *)
(* the columns, program counters and ids that the code can produce.        *)
THEOREM TypeCorrect == Spec => []TypeOK
  BY TypeInit, TypeNext, PTL DEF Spec
-----------------------------------------------------------------------------
(* At most one acceptance.  DeliveryInv is inductive: a step that neither   *)
(* claims nor talks to the provider keeps it for the same reason, whatever  *)
(* it is, so those steps share one lemma.                                   *)

(* A row keeps its claim, and its status or its distance from the claims. *)
RowStays ==
  /\ row'.token = row.token /\ row'.attempts = row.attempts
  /\ \/ row'.status = row.status
     \/ /\ row.status \in {"transmitting", "ambiguous"}
        /\ row'.status \in {"transmitting", "ambiguous", "completed"}

(* A worker lets go of the claim, or moves on within the part past the send. *)
WorkerStays(w) ==
  /\ \A v \in Workers \ {w} : run'[v] = run[v]
  /\ \/ run'[w].pc \notin Holding
     \/ run[w].pc \in Holding /\ run'[w].pc = "verify" /\ run'[w].token = run[w].token
     \/ /\ run[w].pc \in PastBoundary /\ run'[w].token = run[w].token
        /\ \/ run'[w].pc \in {"marker", "complete", "record"}
           \/ run'[w].pc = "refused" /\ run[w].token \in refused

LEMMA QuietStep ==
  ASSUME DeliveryInv, NEW w \in Workers, RowStays, WorkerStays(w), UNCHANGED provider
  PROVE  DeliveryInv'
  <1> USE DEF DeliveryInv, provider
  <1>1. MailIds' = MailIds /\ OwnMail' = OwnMail
    BY DEF MailIds, OwnMail
  <1>2. \A v \in Workers : run'[v].pc \in Holding =>
          run[v].pc \in Holding /\ run'[v].token = run[v].token
    BY DEF WorkerStays, PastBoundary, Holding
  <1>3. \A v \in Workers : run'[v].pc \in PastBoundary => run[v].pc \in PastBoundary
    BY DEF WorkerStays, PastBoundary, Holding
  <1>4. TokenInv'
    BY <1>2, <1>3 DEF TokenInv, RowStays, PastBoundary, Holding
  <1>5. \A v \in Workers : run'[v].pc = "send" => run[v].pc = "send" /\ run'[v].token = run[v].token
    BY DEF WorkerStays, PastBoundary, Holding
  <1>6. \A v \in Workers : run'[v].pc = "refused" => run'[v].token \in refused
    BY DEF WorkerStays, PastBoundary, Holding, ProviderInv
  <1>7. ProviderInv'
    BY <1>1, <1>5, <1>6 DEF ProviderInv, RowStays
  <1>8. ClaimableMeansUnsent' /\ AtMostOneAcceptance'
    BY <1>1 DEF ClaimableMeansUnsent, AtMostOneAcceptance, RowStays
  <1> QED BY <1>4, <1>7, <1>8
LEMMA QuietMoves ==
  ASSUME TypeOK, NEW w \in Workers
  PROVE  /\ \A pc \in PCs \ Holding : Goto(w, pc) => WorkerStays(w)
         /\ Finish(w) => WorkerStays(w)
         /\ \A done : Return(w, done) => WorkerStays(w)
  <1>1. run \in [Workers -> Runs]
    BY DEF TypeOK
  <1>2. \A pc \in PCs \ Holding : Goto(w, pc) => WorkerStays(w)
    BY <1>1 DEF Goto, WorkerStays, Runs
  <1>3. Finish(w) => WorkerStays(w)
    BY <1>1 DEF Finish, WorkerStays, Idle, Holding, PastBoundary
  <1>4. \A done : Return(w, done) => WorkerStays(w)
    BY <1>1 DEF Return, WorkerStays, Idle, Holding, PastBoundary
  <1> QED BY <1>2, <1>3, <1>4

LEMMA DeliveryReconcile ==
  ASSUME TypeOK, DeliveryInv, NEW w \in Workers,
         Begin(w) \/ Hook(w) \/ Reconcile(w) \/ ReconcileThrows(w)
  PROVE  DeliveryInv'
  <1> USE DEF provider
  <1>0. run \in [Workers -> Runs] /\ row \in Rows
    BY DEF TypeOK
  <1>a. row' = row => RowStays
    BY DEF RowStays
  <1>b. \A role : run' = [run EXCEPT ![w] = Reconciling(role)] => WorkerStays(w)
    BY <1>0 DEF WorkerStays, Reconciling, Idle, Holding, PastBoundary
  <1>1. CASE Begin(w) \/ Hook(w)
    BY <1>1, <1>a, <1>b, QuietStep DEF Begin, Hook
  <1>2. CASE ReconcileNothing(w) \/ ReconcileThrows(w)
    BY <1>2, <1>a, QuietMoves, QuietStep DEF ReconcileNothing, ReconcileThrows
  <1>3. CASE ReconcileCompleted(w) \/ ReconcileUnsettled(w) \/ ReadEvidence(w) \/ Lookup(w)
    <2>1. WorkerStays(w)
      BY <1>0, <1>3 DEF ReconcileCompleted, ReconcileUnsettled, ReadEvidence, Lookup,
         LookupReturns, Finish, WorkerStays, Idle, Holding, PastBoundary, Runs
    <2>2. row' = row /\ UNCHANGED provider
      BY <1>3 DEF ReconcileCompleted, ReconcileUnsettled, ReadEvidence, Lookup, LookupReturns
    <2> QED BY <1>a, <2>1, <2>2, QuietStep
  <1>c. ASSUME MarkAmbiguous(w) PROVE RowStays /\ WorkerStays(w)
    <2>1. RowStays
      BY <1>0, <1>a, <1>c DEF MarkAmbiguous, Moved, Rows, TryMove, MayMove, RowStays
    <2>2. \E done : Return(w, done)
      BY <1>c DEF MarkAmbiguous
    <2> QED BY <2>1, <2>2, QuietMoves
  <1>4. CASE ResolveConflict(w) \/ ResolveNoProof(w)
    <2>1. RowStays /\ WorkerStays(w)
      BY <1>4, <1>a, <1>c, QuietMoves DEF ResolveConflict, ResolveNoProof
    <2> QED BY <1>4, <2>1, QuietStep DEF ResolveConflict, ResolveNoProof
  <1>5. CASE ResolveProof(w)
    <2>1. RowStays
      BY <1>0, <1>5 DEF ResolveProof, Moved, Rows, TryMove, MayMove, RowStays
    <2>2. "repair" \in PCs \ Holding
      BY DEF PCs, Holding, PastBoundary
    <2>3. WorkerStays(w)
      BY <1>5, <2>2, QuietMoves DEF ResolveProof
    <2> QED BY <1>5, <2>1, <2>3, QuietStep DEF ResolveProof
  <1>6. CASE Repair(w)
    BY <1>6, <1>a, QuietMoves, QuietStep DEF Repair
  <1> QED BY <1>1, <1>2, <1>3, <1>4, <1>5, <1>6 DEF Reconcile

LEMMA DeliveryQuietRun ==
  ASSUME TypeOK, DeliveryInv, NEW w \in Workers,
         \/ ClaimDenied(w) \/ Build(w) \/ HearAccepted(w) \/ HearRefused(w) \/ HearNothing(w)
         \/ WriteMarker(w) \/ Complete(w) \/ Record(w) \/ BuildThrows(w) \/ CompleteThrows(w)
  PROVE  DeliveryInv'
  <1> USE DEF provider
  <1>0. run \in [Workers -> Runs] /\ row \in Rows
    BY DEF TypeOK
  <1>a. row' = row => RowStays
    BY DEF RowStays
  <1>1. CASE ClaimDenied(w) \/ BuildThrows(w) \/ Record(w)
    BY <1>1, <1>a, QuietMoves, QuietStep DEF ClaimDenied, BuildThrows, Record
  <1>2. CASE Build(w)
    <2>1. WorkerStays(w)
      BY <1>0, <1>2, QuietMoves DEF Build, At, Goto, WorkerStays, Runs, Holding
    <2>2. RowStays
      BY <1>0, <1>2 DEF Build, TryMove, MayMove, Moved, WithEnvelope, Rows, RowStays
    <2> QED BY <1>2, <2>1, <2>2, QuietStep DEF Build
  <1>3. CASE HearAccepted(w) \/ HearRefused(w) \/ WriteMarker(w) \/ CompleteThrows(w)
    <2>1. WorkerStays(w)
      BY <1>0, <1>3 DEF HearAccepted, HearRefused, WriteMarker, CompleteThrows, At, Goto,
         WorkerStays, Runs, PastBoundary
    <2> QED BY <1>3, <1>a, <2>1, QuietStep
            DEF HearAccepted, HearRefused, WriteMarker, CompleteThrows
  <1>4. CASE HearNothing(w)
    <2>1. WorkerStays(w)
      BY <1>0, <1>4 DEF HearNothing, WorkerStays, Reconciling, Idle, Holding, PastBoundary
    <2> QED BY <1>4, <1>a, <2>1, QuietStep DEF HearNothing
  <1>5. CASE Complete(w)
    <2>1. RowStays
      BY <1>0, <1>5 DEF Complete, Moved, Rows, TryMove, MayMove, RowStays
    <2>2. WorkerStays(w)
      BY <1>0, <1>5 DEF Complete, At, Goto, WorkerStays, Runs, PastBoundary
    <2> QED BY <1>5, <2>1, <2>2, QuietStep DEF Complete
  <1> QED BY <1>1, <1>2, <1>3, <1>4, <1>5
(* A fresh claim finds nothing at the provider and no worker past the       *)
(* boundary, and its token is new to every worker and to the provider.      *)
LEMMA DeliveryClaim ==
  ASSUME TypeOK, DeliveryInv, NEW w \in Workers, Claim(w)
  PROVE  DeliveryInv'
  <1> USE DEF DeliveryInv, provider
  <1>0. run \in [Workers -> Runs] /\ row \in Rows /\ row.attempts \in Nat
    BY DEF TypeOK, Rows, Tokens
  <1>1. /\ row.status \in {"none", "pending", "failed"}
        /\ row' = Claimed(row, run[w].at)
        /\ UNCHANGED provider
    BY DEF Claim, Claimable
  <1>2. OwnMail = {} /\ requests = {} /\ OwnMail' = OwnMail /\ MailIds' = MailIds
    BY <1>1 DEF ClaimableMeansUnsent, OwnMail, MailIds
  <1>3. /\ row'.status = "pending" /\ row'.token = row.attempts + 1
        /\ row'.attempts = row.attempts + 1
    BY <1>0, <1>1 DEF Claimed, NextToken, Rows
  <1>4. /\ \A v \in Workers \ {w} : run'[v] = run[v]
        /\ run'[w].pc \in {"build", "verify"} /\ run'[w].token = row.attempts + 1
    BY <1>0 DEF Claim, NextToken, Runs
  <1>5. \A v \in Workers : run'[v].pc \notin PastBoundary
    BY <1>1, <1>4 DEF TokenInv, PastBoundary
  <1>6. TokenInv'
    BY <1>0, <1>3, <1>4, <1>5 DEF TokenInv, Holding
  <1>7. ProviderInv'
    BY <1>0, <1>1, <1>2, <1>3, <1>5 DEF ProviderInv, PastBoundary
  <1> QED BY <1>1, <1>2, <1>6, <1>7 DEF ClaimableMeansUnsent, AtMostOneAcceptance

(* The boundary is crossed by the one holder of a pending row's token. *)
LEMMA DeliveryCross ==
  ASSUME TypeOK, DeliveryInv, NEW w \in Workers, Cross(w)
  PROVE  DeliveryInv'
  <1> USE DEF DeliveryInv, provider
  <1>0. run \in [Workers -> Runs] /\ row \in Rows
    BY DEF TypeOK
  <1>1. CASE ~MayMove(row, run[w].token, {"pending"}, "transmitting")
    <2>1. row' = row /\ Finish(w) /\ UNCHANGED provider
      BY <1>1 DEF Cross, TryMove
    <2> QED BY <2>1, QuietStep, QuietMoves DEF RowStays
  <1>2. CASE MayMove(row, run[w].token, {"pending"}, "transmitting")
    <2>1. row.status = "pending" /\ row.token = run[w].token
      BY <1>2 DEF MayMove
    <2>2. /\ row'.status = "transmitting" /\ row'.token = row.token
          /\ row'.attempts = row.attempts /\ UNCHANGED provider
      BY <1>0, <1>2 DEF Cross, TryMove, Moved, Rows
    <2>3. /\ \A v \in Workers \ {w} : run'[v] = run[v]
          /\ run[w].pc = "verify" /\ run'[w].pc = "send" /\ run'[w].token = run[w].token
      BY <1>0, <1>2 DEF Cross, At, Goto, Runs
    <2>4. \A v \in Workers : run[v].pc \notin PastBoundary
      BY <2>1 DEF TokenInv
    <2>5. TokenInv'
      <3>1. \A v \in Workers : /\ run'[v].pc \in Holding <=> run[v].pc \in Holding
                               /\ run'[v].token = run[v].token
        BY <2>3 DEF Holding, PastBoundary
      <3>2. \A v \in Workers : run'[v].pc \in PastBoundary => v = w
        BY <2>3, <2>4
      <3> QED BY <2>1, <2>2, <2>3, <3>1, <3>2 DEF TokenInv
    <2>6. OwnMail = {} /\ requests = {} /\ OwnMail' = OwnMail /\ MailIds' = MailIds
      BY <2>1, <2>2 DEF ClaimableMeansUnsent, OwnMail, MailIds
    <2>7. run[w].token \notin MailIds /\ run[w].token \notin refused
      BY <2>1, <2>6, <1>0, DigestAssumption
         DEF OwnMail, MailIds, ProviderInv, Rows, Tokens
    <2>8. ProviderInv'
      BY <2>1, <2>2, <2>3, <2>4, <2>6, <2>7 DEF ProviderInv, PastBoundary
    <2> QED BY <2>2, <2>5, <2>6, <2>8 DEF ClaimableMeansUnsent, AtMostOneAcceptance
  <1> QED BY <1>1, <1>2

LEMMA DeliverySend ==
  ASSUME TypeOK, DeliveryInv, NEW w \in Workers, Send(w) \/ SendRefusedLocally(w)
  PROVE  DeliveryInv'
  <1> USE DEF DeliveryInv
  <1>0. run \in [Workers -> Runs] /\ row' = row /\ mail' = mail /\ run[w].pc = "send"
    BY DEF TypeOK, Send, SendRefusedLocally, At
  <1>1. /\ run[w].token = row.token /\ run[w].token \in 1 .. row.attempts
        /\ row.status \in {"transmitting", "ambiguous", "completed"}
        /\ run[w].token \notin requests \cup MailIds \cup refused
    BY <1>0 DEF TokenInv, ProviderInv, Holding, PastBoundary
  <1>2. OwnMail' = OwnMail /\ MailIds' = MailIds
    BY <1>0 DEF OwnMail, MailIds
  <1>3. /\ \A v \in Workers \ {w} : run'[v] = run[v]
        /\ run'[w].pc \in {"await", "refused"} /\ run'[w].token = run[w].token
    BY <1>0 DEF Send, SendRefusedLocally, Goto, Runs
  <1>4. TokenInv'
    BY <1>0, <1>1, <1>3 DEF TokenInv, Holding, PastBoundary
  <1>5. \A v \in Workers \ {w} : run[v].pc \notin PastBoundary
    BY <1>0, <1>1 DEF TokenInv, Holding, PastBoundary
  <1>6. ProviderInv'
    <2>1. \A v \in Workers : run'[v].pc # "send" /\ (run'[v].pc = "refused" => v = w)
      BY <1>3, <1>5 DEF PastBoundary
    <2>2. CASE Send(w)
      <3>1. requests' = requests \cup {run[w].token} /\ refused' = refused /\ run'[w].pc = "await"
        BY <1>0, <2>2 DEF Send, Goto, TypeOK, Runs
      <3> QED BY <1>0, <1>1, <1>2, <2>1, <3>1 DEF ProviderInv
    <2>3. CASE SendRefusedLocally(w)
      <3>1. refused' = refused \cup {run[w].token} /\ requests' = requests
        BY <2>3 DEF SendRefusedLocally
      <3>2. run[w].token \in 0 .. row.attempts
        BY <1>1 DEF TypeOK, Rows, Tokens
      <3>3. refused' \subseteq 0 .. row.attempts
        BY <3>1, <3>2 DEF ProviderInv
      <3> QED BY <3>3, <1>0, <1>1, <1>2, <1>3, <2>1, <3>1 DEF ProviderInv
    <2> QED BY <2>2, <2>3
  <1> QED BY <1>0, <1>1, <1>2, <1>4, <1>6 DEF ClaimableMeansUnsent, AtMostOneAcceptance
(* A row becomes failed only while the provider holds nothing of it. *)
LEMMA DeliveryFailed ==
  ASSUME TypeOK, DeliveryInv, NEW w \in Workers, Fail(w) \/ RejectEnvelope(w)
  PROVE  DeliveryInv'
  <1> USE DEF DeliveryInv, provider
  <1>0. run \in [Workers -> Runs] /\ row \in Rows /\ UNCHANGED provider /\ Finish(w)
    BY DEF TypeOK, Fail, RejectEnvelope
  <1>1. CASE row' = row
    BY <1>0, <1>1, QuietStep, QuietMoves DEF RowStays
  <1>2. CASE row' # row
    <2>1. /\ row'.status = "failed" /\ row'.token = row.token /\ row'.attempts = row.attempts
          /\ run[w].token = row.token
      BY <1>0, <1>2 DEF Fail, RejectEnvelope, TryMove, MayMove, Moved, Rows
    <2>2. OwnMail' = OwnMail /\ MailIds' = MailIds
      BY <1>0 DEF OwnMail, MailIds
    <2>3. OwnMail = {} /\ requests = {} /\ \A v \in Workers \ {w} : run[v].pc \notin PastBoundary
      <3>1. CASE Fail(w)
        <4>1. run[w].pc = "refused" /\ row.token \in refused
          BY <2>1, <3>1 DEF Fail, At, ProviderInv
        <4>2. row.token \notin requests \cup MailIds
          BY <4>1 DEF ProviderInv
        <4>3. OwnMail = {} /\ requests = {}
          BY <4>2 DEF ProviderInv, OwnMail, MailIds
        <4> QED BY <2>1, <4>1, <4>3 DEF TokenInv, Holding, PastBoundary
      <3>2. CASE RejectEnvelope(w)
        <4>1. row.status = "pending"
          BY <1>2, <3>2 DEF RejectEnvelope, TryMove, MayMove
        <4> QED BY <4>1 DEF ClaimableMeansUnsent, TokenInv
      <3> QED BY <3>1, <3>2
    <2>4. /\ \A v \in Workers \ {w} : run'[v] = run[v]
          /\ run'[w].pc = "idle"
      BY <1>0 DEF Finish, Idle
    <2>5. \A v \in Workers : run'[v].pc \notin PastBoundary
      BY <2>3, <2>4 DEF PastBoundary
    <2>6. \A v \in Workers : run'[v].pc \in Holding => v # w
      BY <2>4 DEF Holding, PastBoundary
    <2>7. TokenInv'
      BY <2>1, <2>4, <2>5, <2>6 DEF TokenInv
    <2>8. ProviderInv'
      BY <1>0, <2>1, <2>2, <2>3, <2>5 DEF ProviderInv, PastBoundary
    <2> QED BY <1>0, <2>2, <2>3, <2>7, <2>8 DEF ClaimableMeansUnsent, AtMostOneAcceptance
  <1> QED BY <1>1, <1>2

LEMMA DeliveryEnvironment ==
  ASSUME TypeOK, DeliveryInv, Environment
  PROVE  DeliveryInv'
  <1> USE DEF DeliveryInv, provider
  <1>1. ASSUME NEW t \in Tokens, Accept(t) PROVE DeliveryInv'
    <2>1. t = row.token /\ t \in requests /\ t \notin MailIds /\ t \notin refused
      BY <1>1 DEF Accept, ProviderInv
    <2>2. OwnMail = {}
      BY <2>1 DEF OwnMail, MailIds, ProviderInv
    <2>3. t \notin Strays /\ mail' = mail \cup {[id |-> t, at |-> now]}
      BY <1>1, DigestAssumption DEF Accept, Tokens
    <2>4. OwnMail' = {[id |-> t, at |-> now]} /\ MailIds' = MailIds \cup {t}
      <3> DEFINE new == [id |-> t, at |-> now]
      <3>1. new.id = t /\ mail' = mail \cup {new}
        BY <2>3
      <3> HIDE DEF new
      <3>2. OwnMail' = {new}
        BY <2>2, <2>3, <3>1 DEF OwnMail
      <3>3. MailIds' = MailIds \cup {t}
        BY <3>1 DEF MailIds
      <3> QED BY <3>2, <3>3 DEF new
    <2>5. requests' = {} /\ row' = row /\ run' = run /\ refused' = refused
      BY <1>1, <2>1 DEF Accept, ProviderInv
    <2>6. row.status \notin {"none", "pending", "failed"}
      BY <2>1 DEF ClaimableMeansUnsent
    <2>7. \A w \in Workers : run[w].pc = "send" => FALSE
      BY <2>1 DEF ProviderInv, TokenInv, PastBoundary
    <2>8. TokenInv'
      BY <2>5 DEF TokenInv
    <2>9. ProviderInv'
      BY <2>1, <2>4, <2>5, <2>6, <2>7 DEF ProviderInv
    <2> QED BY <2>4, <2>5, <2>6, <2>8, <2>9 DEF ClaimableMeansUnsent, AtMostOneAcceptance
  <1>2. ASSUME NEW t \in Tokens, Refuse(t) PROVE DeliveryInv'
    <2>1. t = row.token /\ t \in requests /\ t \notin MailIds
      BY <1>2 DEF Refuse, ProviderInv
    <2>2. /\ requests' = {} /\ row' = row /\ run' = run /\ refused' = refused \cup {t}
          /\ MailIds' = MailIds /\ OwnMail' = OwnMail
      BY <1>2, <2>1 DEF Refuse, ProviderInv, MailIds, OwnMail
    <2>3. row.status \notin {"none", "pending", "failed"}
      BY <2>1 DEF ClaimableMeansUnsent
    <2>4. \A w \in Workers : run[w].pc = "send" => FALSE
      BY <2>1 DEF ProviderInv, TokenInv, PastBoundary
    <2>5. t \in 0 .. row.attempts
      BY <1>2, <2>1 DEF TypeOK, Rows, Tokens, TokenInv
    <2>6. TokenInv'
      BY <2>2 DEF TokenInv
    <2>7. ProviderInv'
      BY <2>1, <2>2, <2>3, <2>4, <2>5 DEF ProviderInv
    <2> QED BY <2>2, <2>3, <2>6, <2>7 DEF ClaimableMeansUnsent, AtMostOneAcceptance
  <1>3. ASSUME NEW s \in Strays, Stray(s) PROVE DeliveryInv'
    <2>1. /\ OwnMail' = OwnMail /\ MailIds' = MailIds \cup {s}
          /\ row' = row /\ run' = run /\ refused' = refused /\ requests' = requests
      <3> DEFINE new == [id |-> s, at |-> now]
      <3>1. new.id = s /\ mail' = mail \cup {new}
        BY <1>3 DEF Stray
      <3> HIDE DEF new
      <3>2. OwnMail' = OwnMail /\ MailIds' = MailIds \cup {s}
        BY <3>1 DEF OwnMail, MailIds
      <3> QED BY <1>3, <3>2 DEF Stray
    <2>2. s \notin requests /\ s \notin refused /\ \A w \in Workers : run[w].token # s
      <3>1. s \notin Tokens
        BY DigestAssumption DEF Tokens
      <3> QED BY <3>1 DEF TypeOK, Runs
    <2>3. TokenInv' /\ ProviderInv'
      BY <2>1, <2>2 DEF TokenInv, ProviderInv
    <2> QED BY <2>1, <2>3 DEF ClaimableMeansUnsent, AtMostOneAcceptance
  <1>4. CASE Crash
    <2>1. /\ row'.status = row.status /\ row'.token = row.token /\ row'.attempts = row.attempts
          /\ \A w \in Workers : run'[w].pc = "idle"
      BY <1>4 DEF Crash, TypeOK, Rows, Idle
    <2>2. UNCHANGED provider /\ OwnMail' = OwnMail /\ MailIds' = MailIds
      BY <1>4 DEF Crash, OwnMail, MailIds
    <2>3. TokenInv' /\ ProviderInv'
      BY <2>1, <2>2 DEF TokenInv, ProviderInv, Holding, PastBoundary
    <2> QED BY <2>1, <2>2, <2>3 DEF ClaimableMeansUnsent, AtMostOneAcceptance
  <1>5. CASE Tick
    <2>1. row' = row /\ run' = run /\ UNCHANGED provider /\ OwnMail' = OwnMail /\ MailIds' = MailIds
      BY <1>5 DEF Tick, OwnMail, MailIds
    <2> QED BY <2>1 DEF TokenInv, ProviderInv, ClaimableMeansUnsent, AtMostOneAcceptance
  <1> QED BY <1>1, <1>2, <1>3, <1>4, <1>5 DEF Environment

LEMMA DeliveryInit == Init => DeliveryInv
  BY DEF Init, NoRow, Idle, DeliveryInv, TokenInv, ProviderInv, ClaimableMeansUnsent,
     AtMostOneAcceptance, OwnMail, MailIds, Holding, PastBoundary

LEMMA DeliveryNext == TypeOK /\ DeliveryInv /\ [Next]_vars => DeliveryInv'
  <1> SUFFICES ASSUME TypeOK, DeliveryInv, [Next]_vars PROVE DeliveryInv'
    OBVIOUS
  <1>1. CASE UNCHANGED vars
    <2>1. row' = row /\ run' = run /\ UNCHANGED provider /\ OwnMail' = OwnMail /\ MailIds' = MailIds
      BY <1>1 DEF vars, provider, OwnMail, MailIds
    <2> QED BY <2>1 DEF provider, DeliveryInv, TokenInv, ProviderInv, ClaimableMeansUnsent,
               AtMostOneAcceptance
  <1>2. ASSUME NEW w \in Workers,
               Begin(w) \/ Hook(w) \/ Reconcile(w) \/ ClaimedRun(w) \/ Throws(w)
        PROVE  DeliveryInv'
    BY <1>2, DeliveryReconcile, DeliveryQuietRun, DeliveryClaim, DeliveryCross, DeliverySend,
       DeliveryFailed DEF ClaimedRun, Throws
  <1> QED BY <1>1, <1>2, DeliveryEnvironment DEF Next

(* The inductive invariant behind the delivery theorems. *)
THEOREM DeliveryInvariant == Spec => []DeliveryInv
  <1>1. TypeOK /\ DeliveryInv /\ [Next]_vars => (TypeOK /\ DeliveryInv)'
    BY TypeNext, DeliveryNext
  <1> QED BY TypeInit, DeliveryInit, <1>1, PTL DEF Spec

(* The provider accepts the date's e-mail at most once, for any number of   *)
(* workers, attempts and restarts and any delays.                           *)
THEOREM AcceptedOnce == Spec => []AtMostOneAcceptance
  BY DeliveryInvariant, PTL DEF DeliveryInv

(* A row that may be claimed has nothing at the provider. *)
THEOREM ClaimsAreSafe == Spec => []ClaimableMeansUnsent
  BY DeliveryInvariant, PTL DEF DeliveryInv
-----------------------------------------------------------------------------
(* What the evidence says.                                                 *)

(* No marker, event, gathered identity or completed row names a message that *)
(* the provider has not accepted.                                           *)
EvidenceInv ==
  /\ RecordedMeansAccepted
  /\ localEvents \subseteq MailIds /\ webhookEvents \subseteq MailIds
  /\ \A w \in Workers : run[w].seen \subseteq MailIds
  /\ \A w \in Workers : run[w].pc \in {"marker", "complete", "record"} => run[w].token \in MailIds

LEMMA EvidenceInit == Init => EvidenceInv
  BY DEF Init, NoRow, Idle, EvidenceInv, RecordedMeansAccepted, MailIds

Hearing == {"marker", "complete", "record"}

LEMMA EvidenceStep ==
  ASSUME EvidenceInv, NEW w \in Workers, mail' = mail,
         \A v \in Workers \ {w} : run'[v] = run[v],
         run'[w].seen \subseteq MailIds,
         run'[w].pc \in Hearing => run'[w].token \in MailIds,
         marker' \in {marker} \cup MailIds,
         localEvents' \subseteq MailIds, webhookEvents' \subseteq MailIds,
         row' = row \/ (row'.status = "completed" => row'.messageId \in MailIds)
  PROVE  EvidenceInv'
  <1>1. MailIds' = MailIds
    BY DEF MailIds
  <1> QED BY <1>1 DEF EvidenceInv, RecordedMeansAccepted, Hearing

LEMMA EvidenceMoves ==
  ASSUME TypeOK, EvidenceInv, NEW w \in Workers
  PROVE  /\ Finish(w) \/ (\E done : Return(w, done)) =>
              /\ \A v \in Workers \ {w} : run'[v] = run[v]
              /\ run'[w].seen \subseteq MailIds /\ run'[w].pc \notin Hearing
         /\ \A pc : Goto(w, pc) =>
              /\ \A v \in Workers \ {w} : run'[v] = run[v]
              /\ run'[w].seen \subseteq MailIds /\ run'[w].pc = pc
              /\ run'[w].token = run[w].token
  <1>1. run \in [Workers -> Runs] /\ run[w].seen \subseteq MailIds
    BY DEF TypeOK, EvidenceInv
  <1>2. ASSUME Finish(w) \/ \E done : Return(w, done)
        PROVE  /\ \A v \in Workers \ {w} : run'[v] = run[v]
               /\ run'[w].seen = {} /\ run'[w].pc \in {"idle", "claim"}
    <2>1. CASE Finish(w)
      BY <1>1, <2>1 DEF Finish, Idle
    <2>2. ASSUME NEW done, Return(w, done)
          PROVE  /\ \A v \in Workers \ {w} : run'[v] = run[v]
                 /\ run'[w].seen = {} /\ run'[w].pc \in {"idle", "claim"}
      BY <1>1, <2>2 DEF Return, Idle
    <2> QED BY <1>2, <2>1, <2>2
  <1>3. ASSUME NEW pc, Goto(w, pc)
        PROVE  /\ \A v \in Workers \ {w} : run'[v] = run[v]
               /\ run'[w].seen = run[w].seen /\ run'[w].pc = pc
               /\ run'[w].token = run[w].token
    BY <1>1, <1>3 DEF Goto, Runs
  <1> QED BY <1>1, <1>2, <1>3 DEF Hearing

LEMMA EvidenceReconcile ==
  ASSUME TypeOK, EvidenceInv, NEW w \in Workers,
         Begin(w) \/ Hook(w) \/ Reconcile(w) \/ ReconcileThrows(w)
  PROVE  EvidenceInv'
  <1> USE DEF events, provider
  <1>0. run \in [Workers -> Runs] /\ row \in Rows
    BY DEF TypeOK
  <1>a. /\ localEvents \subseteq MailIds /\ webhookEvents \subseteq MailIds
        /\ run[w].seen \subseteq MailIds /\ marker \in MailIds \cup {NoId}
    BY DEF EvidenceInv, RecordedMeansAccepted
  <1>1. CASE Begin(w) \/ Hook(w)
    <2>1. /\ \A v \in Workers \ {w} : run'[v] = run[v]
          /\ run'[w].seen = {} /\ run'[w].pc = "reconcile"
      BY <1>0, <1>1 DEF Begin, Hook, Reconciling, Idle
    <2>2. /\ row' = row /\ mail' = mail /\ marker' = marker
          /\ localEvents' \subseteq MailIds /\ webhookEvents' \subseteq MailIds
      BY <1>1, <1>a DEF Begin, Hook
    <2> QED BY <2>1, <2>2, EvidenceStep DEF Hearing
  <1>2. CASE ReconcileNothing(w) \/ ReconcileThrows(w) \/ ResolveConflict(w) \/ ResolveNoProof(w)
    <2>1. \E done : Return(w, done)
      BY <1>2 DEF ReconcileNothing, ReconcileThrows, ResolveConflict, ResolveNoProof, MarkAmbiguous
    <2>2. row' = row \/ row'.status = "ambiguous"
      BY <1>0, <1>2 DEF ReconcileNothing, ReconcileThrows, ResolveConflict, ResolveNoProof,
         MarkAmbiguous, TryMove, Moved, Rows
    <2>3. UNCHANGED <<mail, marker, localEvents, webhookEvents>>
      BY <1>2 DEF ReconcileNothing, ReconcileThrows, ResolveConflict, ResolveNoProof
    <2> QED BY <1>a, <2>1, <2>2, <2>3, EvidenceMoves, EvidenceStep
  <1>3. CASE ReconcileCompleted(w) \/ ReconcileUnsettled(w) \/ ReadEvidence(w) \/ Lookup(w)
    <2>1. row' = row /\ UNCHANGED <<mail, marker, localEvents, webhookEvents>>
      BY <1>3 DEF ReconcileCompleted, ReconcileUnsettled, ReadEvidence, Lookup, LookupReturns
    <2>2. CASE ReconcileCompleted(w)
      <3>1. row.messageId \in MailIds
        BY <2>2 DEF ReconcileCompleted, EvidenceInv, RecordedMeansAccepted
      <3>2. CASE marker = NoId /\ row.messageId # NoId
        <4>1. /\ \A v \in Workers \ {w} : run'[v] = run[v]
              /\ run'[w].seen = {row.messageId} /\ run'[w].pc = "repair"
          BY <1>0, <2>2, <3>2 DEF ReconcileCompleted, Runs
        <4> QED BY <1>a, <2>1, <3>1, <4>1, EvidenceStep DEF Hearing
      <3>3. CASE ~(marker = NoId /\ row.messageId # NoId)
        <4>1. Finish(w)
          BY <2>2, <3>3 DEF ReconcileCompleted
        <4> QED BY <1>a, <2>1, <4>1, EvidenceMoves, EvidenceStep
      <3> QED BY <3>2, <3>3
    <2>3. CASE ReconcileUnsettled(w)
      <3>1. /\ \A v \in Workers \ {w} : run'[v] = run[v]
            /\ run'[w].seen = run[w].seen /\ run'[w].pc = "evidence"
        BY <1>0, <2>3 DEF ReconcileUnsettled, Runs
      <3> QED BY <1>a, <2>1, <3>1, EvidenceStep DEF Hearing
    <2>4. CASE ReadEvidence(w)
      <3>1. /\ \A v \in Workers \ {w} : run'[v] = run[v]
            /\ run'[w].seen = ({marker} \ {NoId}) \cup localEvents \cup webhookEvents
            /\ run'[w].pc \in {"resolve", "lookup"}
        BY <1>0, <2>4 DEF ReadEvidence, Runs
      <3> QED BY <1>a, <2>1, <3>1, EvidenceStep DEF Hearing
    <2>5. CASE Lookup(w)
      <3>1. PICK ids \in SUBSET Listed(w) : LookupReturns(w, ids)
        BY <2>5 DEF Lookup
      <3>2. ids \subseteq MailIds
        BY DEF Listed, MailIds
      <3>3. /\ \A v \in Workers \ {w} : run'[v] = run[v]
            /\ run'[w].seen = run[w].seen \cup ids /\ run'[w].pc = "resolve"
        BY <1>0, <3>1 DEF LookupReturns, Runs
      <3> QED BY <1>a, <2>1, <3>2, <3>3, EvidenceStep DEF Hearing
    <2> QED BY <1>3, <2>2, <2>3, <2>4, <2>5
  <1>4. CASE ResolveProof(w)
    <2>1. PICK id \in run[w].seen :
            /\ TryMove(run[w].snap.token, {"transmitting", "ambiguous"}, "completed",
                       [Moved(row, "completed", run[w].at) EXCEPT !.messageId = id])
            /\ IF row'.status = "completed" THEN Goto(w, "repair") ELSE Return(w, FALSE)
      BY <1>4 DEF ResolveProof
    <2>2. row' = row \/ row'.messageId = id
      BY <1>0, <2>1 DEF TryMove, Moved, Rows
    <2>3. UNCHANGED <<mail, marker, localEvents, webhookEvents>>
      BY <1>4 DEF ResolveProof
    <2>4. /\ \A v \in Workers \ {w} : run'[v] = run[v]
          /\ run'[w].seen \subseteq MailIds /\ run'[w].pc \notin Hearing
      <3>1. CASE Goto(w, "repair")
        BY <3>1, EvidenceMoves DEF Hearing
      <3>2. CASE Return(w, FALSE)
        BY <3>2, EvidenceMoves
      <3> QED BY <2>1, <3>1, <3>2
    <2> QED BY <1>a, <2>2, <2>3, <2>4, EvidenceStep
  <1>5. CASE Repair(w)
    BY <1>5, <1>a, EvidenceMoves, EvidenceStep DEF Repair
  <1> QED BY <1>1, <1>2, <1>3, <1>4, <1>5 DEF Reconcile

LEMMA EvidenceClaimedRun ==
  ASSUME TypeOK, EvidenceInv, NEW w \in Workers,
         ClaimedRun(w) \/ BuildThrows(w) \/ CompleteThrows(w)
  PROVE  EvidenceInv'
  <1> USE DEF events, provider
  <1>0. run \in [Workers -> Runs] /\ row \in Rows
    BY DEF TypeOK
  <1>a. /\ localEvents \subseteq MailIds /\ webhookEvents \subseteq MailIds
        /\ run[w].seen \subseteq MailIds
        /\ run[w].pc \in Hearing => run[w].token \in MailIds
    BY DEF EvidenceInv, Hearing
  <1>1. CASE Claim(w)
    <2>1. /\ \A v \in Workers \ {w} : run'[v] = run[v]
          /\ run'[w].seen = run[w].seen /\ run'[w].pc \in {"build", "verify"}
      BY <1>0, <1>1 DEF Claim, Runs
    <2>2. row'.status = "pending"
      BY <1>0, <1>1 DEF Claim, Claimed, Rows
    <2> QED BY <1>1, <1>a, <2>1, <2>2, EvidenceStep DEF Claim, Hearing
  <1>2. CASE ClaimDenied(w) \/ BuildThrows(w) \/ RejectEnvelope(w) \/ Fail(w)
    <2>1. row' = row \/ row'.status = "failed"
      BY <1>0, <1>2 DEF ClaimDenied, BuildThrows, RejectEnvelope, Fail, TryMove, Moved, Rows
    <2>2. Finish(w) /\ UNCHANGED <<mail, marker, localEvents, webhookEvents>>
      BY <1>2 DEF ClaimDenied, BuildThrows, RejectEnvelope, Fail
    <2> QED BY <1>a, <2>1, <2>2, EvidenceMoves, EvidenceStep
  <1>3. CASE Build(w) \/ Cross(w)
    <2>1. row' = row \/ row'.status \in {"pending", "transmitting"}
      BY <1>0, <1>3 DEF Build, Cross, TryMove, Moved, WithEnvelope, Rows
    <2>2. Goto(w, "verify") \/ Goto(w, "send") \/ Finish(w)
      BY <1>3 DEF Build, Cross
    <2>3. UNCHANGED <<mail, marker, localEvents, webhookEvents>>
      BY <1>3 DEF Build, Cross
    <2>4. /\ \A v \in Workers \ {w} : run'[v] = run[v]
          /\ run'[w].seen \subseteq MailIds /\ run'[w].pc \notin Hearing
      BY <2>2, EvidenceMoves DEF Hearing
    <2> QED BY <1>a, <2>1, <2>3, <2>4, EvidenceStep
  <1>4. CASE Send(w) \/ SendRefusedLocally(w) \/ HearAccepted(w) \/ HearRefused(w)
    <2>1. \E pc \in {"await", "refused", "marker"} :
            Goto(w, pc) /\ (pc = "marker" => run[w].token \in MailIds)
      BY <1>4 DEF Send, SendRefusedLocally, HearAccepted, HearRefused
    <2>2. row' = row /\ UNCHANGED <<mail, marker, localEvents, webhookEvents>>
      BY <1>4 DEF Send, SendRefusedLocally, HearAccepted, HearRefused
    <2>3. /\ \A v \in Workers \ {w} : run'[v] = run[v]
          /\ run'[w].seen \subseteq MailIds
          /\ run'[w].pc \in Hearing => run'[w].token \in MailIds
      BY <2>1, EvidenceMoves DEF Hearing
    <2> QED BY <1>a, <2>2, <2>3, EvidenceStep
  <1>5. CASE HearNothing(w)
    <2>1. /\ \A v \in Workers \ {w} : run'[v] = run[v]
          /\ run'[w].seen = {} /\ run'[w].pc = "reconcile"
      BY <1>0, <1>5 DEF HearNothing, Reconciling, Idle
    <2> QED BY <1>5, <1>a, <2>1, EvidenceStep DEF HearNothing, Hearing
  <1>6. CASE WriteMarker(w) \/ Complete(w) \/ CompleteThrows(w)
    <2>1. run[w].token \in MailIds
      BY <1>6, <1>a DEF WriteMarker, Complete, CompleteThrows, At, Hearing
    <2>2. Goto(w, "complete") \/ Goto(w, "record")
      BY <1>6 DEF WriteMarker, Complete, CompleteThrows
    <2>3. row' = row \/ row'.messageId = run[w].token
      BY <1>0, <1>6 DEF WriteMarker, Complete, CompleteThrows, TryMove, Moved, Rows
    <2>4. marker' \in {marker, run[w].token} /\ UNCHANGED <<mail, localEvents, webhookEvents>>
      BY <1>6 DEF WriteMarker, Complete, CompleteThrows
    <2>5. /\ \A v \in Workers \ {w} : run'[v] = run[v]
          /\ run'[w].seen \subseteq MailIds
          /\ run'[w].token = run[w].token
      BY <2>2, EvidenceMoves
    <2> QED BY <1>a, <2>1, <2>3, <2>4, <2>5, EvidenceStep
  <1>7. CASE Record(w)
    <2>1. run[w].token \in MailIds
      BY <1>7, <1>a DEF Record, At, Hearing
    <2> QED BY <1>7, <1>a, <2>1, EvidenceMoves, EvidenceStep DEF Record
  <1> QED BY <1>1, <1>2, <1>3, <1>4, <1>5, <1>6, <1>7 DEF ClaimedRun

LEMMA EvidenceEnvironment == ASSUME TypeOK, EvidenceInv, Environment PROVE EvidenceInv'
  <1>1. MailIds \subseteq MailIds'
    BY DEF Environment, Accept, Refuse, Stray, Crash, Tick, provider, MailIds
  <1>2. /\ marker' = marker /\ UNCHANGED events
        /\ row'.status = row.status /\ row'.messageId = row.messageId
    BY DEF Environment, Accept, Refuse, Stray, Crash, Tick, TypeOK, Rows
  <1>3. run' = run \/ run' = [w \in Workers |-> Idle]
    BY DEF Environment, Accept, Refuse, Stray, Crash, Tick
  <1> QED BY <1>1, <1>2, <1>3 DEF EvidenceInv, RecordedMeansAccepted, events, Idle

LEMMA EvidenceNext == TypeOK /\ EvidenceInv /\ [Next]_vars => EvidenceInv'
  <1> SUFFICES ASSUME TypeOK, EvidenceInv, [Next]_vars PROVE EvidenceInv'
    OBVIOUS
  <1>1. CASE UNCHANGED vars
    BY <1>1 DEF vars, EvidenceInv, RecordedMeansAccepted, MailIds
  <1> QED BY <1>1, EvidenceReconcile, EvidenceClaimedRun, EvidenceEnvironment DEF Next, Throws

(* The marker file and the completed row never claim a message that was not *)
(* accepted, whatever evidence they were completed from.                    *)
THEOREM RecordsAreTrue == Spec => []RecordedMeansAccepted
  <1>1. TypeOK /\ EvidenceInv /\ [Next]_vars => (TypeOK /\ EvidenceInv)'
    BY TypeNext, EvidenceNext
  <1>2. EvidenceInv => RecordedMeansAccepted
    BY DEF EvidenceInv
  <1> QED BY TypeInit, EvidenceInit, <1>1, <1>2, PTL DEF Spec
-----------------------------------------------------------------------------
(* What a step may do to the row.                                          *)

(* Every step leaves status and message id alone, claims a claimable row,   *)
(* or makes one of the transitions below.                                   *)
LEMMA RowSteps ==
  ASSUME TypeOK, DeliveryInv, EvidenceInv, [Next]_vars
  PROVE  \/ row'.status = row.status /\ row'.messageId = row.messageId
         \/ row.status \in {"none", "failed", "pending"} /\ row'.status = "pending"
         \/ row.status = "pending" /\ row'.status \in {"transmitting", "failed"}
         \/ row.status = "transmitting" /\ row'.status = "ambiguous"
         \/ /\ row.status = "transmitting" /\ row'.status = "failed"
            /\ row.token \in refused
         \/ /\ row.status \in {"transmitting", "ambiguous"} /\ row'.status = "completed"
            /\ row'.messageId \in MailIds
  <1>0. row \in Rows
    BY DEF TypeOK
  <1>1. CASE UNCHANGED vars \/ Environment
    BY <1>0, <1>1 DEF vars, Environment, Accept, Refuse, Stray, Crash, Tick, Rows
  <1>2. ASSUME NEW w \in Workers, Begin(w) \/ Hook(w) \/ Reconcile(w) \/ Throws(w)
        PROVE  \/ row' = row
               \/ row.status = "transmitting" /\ row'.status = "ambiguous"
               \/ /\ row.status \in {"transmitting", "ambiguous"} /\ row'.status = "completed"
                  /\ row'.messageId \in MailIds
    <2>1. CASE ResolveProof(w)
      <3>1. run[w].seen \subseteq MailIds
        BY DEF EvidenceInv
      <3> QED BY <1>0, <2>1, <3>1 DEF ResolveProof, TryMove, MayMove, Moved, Rows
    <2>2. CASE ResolveConflict(w) \/ ResolveNoProof(w)
      BY <1>0, <2>2 DEF ResolveConflict, ResolveNoProof, MarkAmbiguous, TryMove, MayMove, Moved, Rows
    <2> QED BY <1>2, <2>1, <2>2 DEF Begin, Hook, Reconcile, ReconcileNothing, ReconcileCompleted,
              ReconcileUnsettled, ReadEvidence, Lookup, LookupReturns, Repair, Throws,
              ReconcileThrows, BuildThrows, CompleteThrows
  <1>3. ASSUME NEW w \in Workers, ClaimedRun(w)
        PROVE  \/ row' = row
               \/ row.status \in {"none", "failed", "pending"} /\ row'.status = "pending"
               \/ row.status = "pending" /\ row'.status \in {"transmitting", "failed"}
               \/ /\ row.status = "transmitting" /\ row'.status = "failed"
                  /\ row.token \in refused
               \/ /\ row.status \in {"transmitting", "ambiguous"} /\ row'.status = "completed"
                  /\ row'.messageId \in MailIds
    <2>1. CASE Claim(w)
      BY <1>0, <2>1 DEF Claim, Claimable, Claimed, Rows
    <2>2. CASE Build(w) \/ Cross(w) \/ RejectEnvelope(w)
      BY <1>0, <2>2 DEF Build, Cross, RejectEnvelope, TryMove, MayMove, Moved, WithEnvelope, Rows
    <2>3. CASE Fail(w)
      <3>1. run[w].token \in refused
        BY <2>3 DEF Fail, At, DeliveryInv, ProviderInv
      <3> QED BY <1>0, <2>3, <3>1 DEF Fail, TryMove, MayMove, Moved, Rows
    <2>4. CASE Complete(w)
      <3>1. run[w].token \in MailIds
        BY <2>4 DEF Complete, At, EvidenceInv
      <3> QED BY <1>0, <2>4, <3>1 DEF Complete, TryMove, MayMove, Moved, Rows
    <2> QED BY <1>3, <2>1, <2>2, <2>3, <2>4 DEF ClaimedRun, ClaimDenied, Send, SendRefusedLocally,
              HearAccepted, HearRefused, HearNothing, WriteMarker, Record
  <1> QED BY <1>1, <1>2, <1>3 DEF Next

LEMMA AllInvariants == Spec => [](TypeOK /\ DeliveryInv /\ EvidenceInv)
  <1>1. TypeOK /\ DeliveryInv /\ EvidenceInv /\ [Next]_vars
        => (TypeOK /\ DeliveryInv /\ EvidenceInv)'
    BY TypeNext, DeliveryNext, EvidenceNext
  <1> QED BY TypeInit, DeliveryInit, EvidenceInit, <1>1, PTL DEF Spec

(* A crossed boundary is never retried unless the provider refused. *)
THEOREM RetryNeedsRefusal == Spec => NoRetryWithoutRefusal
  <1>1. TypeOK /\ DeliveryInv /\ EvidenceInv /\ [Next]_vars
        => [row.status \in {"transmitting", "ambiguous"}
            => \/ row'.status \in {"transmitting", "ambiguous", "completed"}
               \/ row'.status = "failed" /\ row.token \in refused]_vars
    BY RowSteps
  <1> QED BY AllInvariants, <1>1, PTL DEF Spec, NoRetryWithoutRefusal

-----------------------------------------------------------------------------
(* DailyDigest implements the safety part of DailyBriefing.                *)

delivered == {m.id : m \in OwnMail}
recorded == IF row.status = "completed" THEN row.messageId ELSE NoId

(* The provider's steps deliver, the completing transitions record, and     *)
(* every other step is a stutter.                                           *)
LEMMA BriefingStep ==
  ASSUME TypeOK, DeliveryInv, EvidenceInv, [Next]_vars
  PROVE  [Briefing!Next]_<<delivered, recorded>>
  <1>1. ASSUME NEW t \in Tokens, Accept(t) PROVE Briefing!Deliver
    <2>1. t \in requests /\ t = row.token /\ t \notin MailIds
      BY <1>1 DEF Accept, DeliveryInv, ProviderInv
    <2>2. OwnMail = {}
      BY <2>1 DEF DeliveryInv, ProviderInv, OwnMail, MailIds
    <2>3. t \notin Strays
      BY DigestAssumption DEF Tokens
    <2> DEFINE new == [id |-> t, at |-> now]
    <2>4. new.id = t /\ mail' = mail \cup {new} /\ row' = row
      BY <1>1 DEF Accept
    <2> HIDE DEF new
    <2>5. OwnMail' = {new}
      BY <2>2, <2>3, <2>4 DEF OwnMail
    <2>6. delivered = {} /\ delivered' = {t}
      BY <2>2, <2>4, <2>5 DEF delivered
    <2> QED BY <2>4, <2>6 DEF Briefing!Deliver, delivered, recorded
  <1>2. CASE \E t \in Tokens : Accept(t)
    BY <1>1, <1>2 DEF Briefing!Next
  <1>3. CASE ~ \E t \in Tokens : Accept(t)
    <2>1. OwnMail' = OwnMail
      <3>1. ASSUME NEW s \in Strays, Stray(s) PROVE OwnMail' = OwnMail
        <4> DEFINE new == [id |-> s, at |-> now]
        <4>1. new.id = s /\ mail' = mail \cup {new}
          BY <3>1 DEF Stray
        <4> HIDE DEF new
        <4> QED BY <4>1 DEF OwnMail
      <3>2. ASSUME NEW w \in Workers, Begin(w) \/ Hook(w) \/ Reconcile(w) \/ Throws(w)
            PROVE  mail' = mail
        BY <3>2 DEF provider, Begin, Hook, Reconcile, ReconcileNothing, ReconcileCompleted,
           ReconcileUnsettled, ReadEvidence, Lookup, LookupReturns, ResolveConflict,
           ResolveNoProof, ResolveProof, Repair, Throws, ReconcileThrows, BuildThrows,
           CompleteThrows
      <3>3. ASSUME NEW w \in Workers, ClaimedRun(w) PROVE mail' = mail
        BY <3>3 DEF provider, ClaimedRun, Claim, ClaimDenied, Build, Cross, RejectEnvelope,
           Send, SendRefusedLocally, HearAccepted, HearRefused, HearNothing, Fail,
           WriteMarker, Complete, Record
      <3>4. ASSUME Environment, ~ \E s \in Strays : Stray(s) PROVE mail' = mail
        BY <1>3, <3>4 DEF Environment, Refuse, Crash, Tick, provider
      <3>5. mail' = mail => OwnMail' = OwnMail
        BY DEF OwnMail
      <3>6. CASE UNCHANGED vars
        BY <3>5, <3>6 DEF vars
      <3> QED BY <3>1, <3>2, <3>3, <3>4, <3>5, <3>6 DEF Next
    <2>2. delivered' = delivered
      BY <2>1 DEF delivered
    <2>3. CASE row'.status # "completed" /\ row.status # "completed"
      BY <2>2, <2>3 DEF recorded
    <2>4. CASE row.status = "completed"
      BY <2>2, <2>4, RowSteps DEF recorded
    <2>5. CASE row'.status = "completed" /\ row.status # "completed"
      <3>1. row'.messageId \in MailIds
        BY <2>5, RowSteps
      <3>2. MailIds \subseteq delivered \cup Strays
        BY DEF MailIds, delivered, OwnMail
      <3>3. recorded = NoId /\ recorded' = row'.messageId
        BY <2>5 DEF recorded
      <3> QED BY <2>2, <3>1, <3>2, <3>3 DEF Briefing!Next, Briefing!Record, delivered, recorded
    <2> QED BY <2>3, <2>4, <2>5
  <1> QED BY <1>2, <1>3

(* Every behaviour of the runs, webhooks, provider and restarts is one of    *)
(* DailyBriefing: one delivery, recorded once, under the right identity.    *)
THEOREM BriefingImplemented == Spec => ImplementsBriefingSafety
  <1>1. Init => Briefing!Init
    BY DEF Init, NoRow, Briefing!Init, OwnMail
  <1>2. TypeOK /\ DeliveryInv /\ EvidenceInv /\ [Next]_vars
        => [Briefing!Next]_<<delivered, recorded>>
    BY BriefingStep
  <1> QED BY AllInvariants, <1>1, <1>2, PTL
          DEF Spec, ImplementsBriefingSafety, Briefing!Safety, delivered, recorded
=============================================================================
