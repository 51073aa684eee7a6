-------------------------- MODULE SecureDocumentsProofs --------------------------
(***************************************************************************)
(* Theorems about SecureDocuments for any documents, uploads, deletions,     *)
(* reconcilers, faults and restarts.                                         *)
(***************************************************************************)
EXTENDS SecureDocuments, FiniteSetTheorems, TLAPS

-----------------------------------------------------------------------------
(* Types *)

(* The entry of a call is rewritten. *)
LEMMA OpWritten ==
  ASSUME TypeOK, NEW o \in Op, \E new \in Ops : Becomes(o, new) PROVE op' \in [Op -> Ops]
  BY DEF TypeOK, Becomes

LEMMA OpMoved ==
  ASSUME TypeOK, NEW o \in Op, NEW pc \in OpPC, Goto(o, pc) PROVE op' \in [Op -> Ops]
  <1>1. op[o] \in Ops
    BY DEF TypeOK
  <1>2. [op[o] EXCEPT !.pc = pc] \in Ops
    BY <1>1 DEF Ops
  <1> QED BY <1>2, OpWritten DEF Goto

LEMMA OpClosed ==
  ASSUME TypeOK, NEW o \in Op, NEW end \in Pending \cup Terminal, NEW wal \in BOOLEAN,
         Close(o, end, wal)
  PROVE  op' \in [Op -> Ops]
  <1>1. op[o] \in Ops
    BY DEF TypeOK
  <1>2. [op[o] EXCEPT !.pc = "close", !.end = end, !.wal = wal] \in Ops
    BY <1>1 DEF Ops, OpPC
  <1> QED BY <1>2, OpWritten DEF Close

(* The fault counter stays within its bound. *)
LEMMA FaultTyped == ASSUME VaultAssumption, TypeOK, Fault \/ Fine PROVE faults' \in 0..MaxFaults
  BY DEF VaultAssumption, TypeOK, Fault, Fine

(* The two writes of a cleanup job. *)
LEMMA PersistTyped ==
  ASSUME VaultAssumption, TypeOK, NEW o \in Op, Persist(o, TRUE)
  PROVE  job' \in [Op -> Jobs] /\ sidecar' \in [Op -> Sidecars] /\ faults' \in 0..MaxFaults
  <1>1. [NoJob EXCEPT !.status = "pending", !.wal = TRUE] \in Jobs
    BY DEF NoJob, Jobs, Pending
  <1>2. [status |-> "pending", wal |-> TRUE] \in Sidecars
    BY DEF Sidecars, Pending
  <1>3. faults' \in 0..MaxFaults
    BY FaultTyped DEF Persist
  <1>4. job' \in [Op -> Jobs]
    BY <1>1 DEF Persist, TypeOK, SetJob
  <1>5. sidecar' \in [Op -> Sidecars]
    BY <1>2 DEF Persist, TypeOK
  <1> QED BY <1>3, <1>4, <1>5

(* The rows of a finished batch. *)
LEMMA FinalizeTyped ==
  ASSUME TypeOK, NEW u \in Uploads, Finalize(u)
  PROVE  /\ row' \in [Docs -> BOOLEAN] /\ landed' \subseteq Uploads /\ submission' = submission
         /\ request' \in [status : Openable \cup {"uploading", "completed", "revoked", "gone"},
                          stale : BOOLEAN, batches : Nat]
  <1>1. op[u].base \in Nat
    BY DEF TypeOK, Ops, Op
  <1>2. op[u].base + 1 \in Nat
    BY <1>1
  <1>3. \A d \in Docs : (row[d] \/ d \in op[u].docs) \in BOOLEAN
    OBVIOUS
  <1>4. row' \in [Docs -> BOOLEAN]
    BY <1>3 DEF Finalize
  <1>5. landed' \subseteq Uploads /\ submission' = submission
    BY DEF Finalize, TypeOK
  <1>6. request' \in [status : Openable \cup {"uploading", "completed", "revoked", "gone"},
                     stale : BOOLEAN, batches : Nat]
    <2>1. CASE u \in Sims
      BY <2>1 DEF Finalize, TypeOK
    <2>2. CASE u \notin Sims
      <3>1. PICK s \in {"received", "completed"} :
              request' = [status |-> s, stale |-> FALSE, batches |-> op[u].base + 1]
        BY <2>2 DEF Finalize
      <3> QED BY <1>2, <3>1 DEF Openable
    <2> QED BY <2>1, <2>2
  <1> QED BY <1>4, <1>5, <1>6

LEMMA UpdateTyped ==
  ASSUME VaultAssumption, TypeOK, NEW o \in Op, NEW end \in Pending \cup Terminal,
         NEW wal \in BOOLEAN, UpdateJob(o, end, wal)
  PROVE  job' \in [Op -> Jobs] /\ sidecar' \in [Op -> Sidecars] /\ faults' \in 0..MaxFaults
  <1>1. job[o] \in Jobs
    BY DEF TypeOK
  <1>2. [job[o] EXCEPT !.status = end, !.wal = wal] \in Jobs
    BY <1>1 DEF Jobs
  <1>3. [status |-> end, wal |-> wal] \in Sidecars
    BY DEF Sidecars
  <1>4. faults' \in 0..MaxFaults
    BY FaultTyped DEF UpdateJob
  <1> QED BY <1>2, <1>3, <1>4 DEF UpdateJob, TypeOK, SetJob

LEMMA ReleaseTyped ==
  ASSUME VaultAssumption, TypeOK, NEW r \in Reconcilers, rec[r].job \in Op,
         NEW status \in Pending \cup Terminal, Release(r, status)
  PROVE  job' \in [Op -> Jobs] /\ rec' \in [Reconcilers -> Recs]
  <1>1. job[rec[r].job] \in Jobs
    BY DEF TypeOK
  <1>2. [job[rec[r].job] EXCEPT !.status = status, !.lease = None] \in Jobs
    BY <1>1 DEF Jobs
  <1>3. IdleRec \in Recs
    BY DEF IdleRec, Recs
  <1> QED BY <1>2, <1>3 DEF Release, TypeOK, SetJob, Turns

LEMMA TypedAtFirst == ASSUME VaultAssumption, Init PROVE TypeOK
  <1>1. NoJob \in Jobs /\ NoSidecar \in Sidecars /\ IdleRec \in Recs
    BY DEF NoJob, NoSidecar, IdleRec, Jobs, Sidecars, Recs
  <1>2. IdleOp \in Ops
    BY DEF IdleOp, Ops, OpPC, Pending
  <1> QED BY <1>1, <1>2 DEF Init, TypeOK, Openable, VaultAssumption

LEMMA UploadStepTyped ==
  ASSUME VaultAssumption, TypeOK, NEW u \in Uploads, UploadStep(u) PROVE TypeOK'
  <1>0. /\ u \in Op /\ op[u] \in Ops /\ Batch[u] \subseteq Docs
        /\ op[u].docs \subseteq Docs /\ op[u].left \subseteq Docs
    BY DEF VaultAssumption, TypeOK, Op, Ops
  <1>1. CASE UploadRead(u)
    <2>1. [op[u] EXCEPT !.pc = "claim", !.docs = Batch[u], !.left = Batch[u],
                        !.base = request.batches] \in Ops
      BY <1>0 DEF Ops, OpPC, TypeOK
    <2>2. op' \in [Op -> Ops]
      BY <1>0, <1>1, <2>1, OpWritten DEF UploadRead
    <2> QED BY <1>1, <2>2, FaultTyped DEF TypeOK, UploadRead, Openable, Quiet, files
  <1>2. CASE SimRead(u)
    <2>1. [op[u] EXCEPT !.pc = "intent", !.docs = Batch[u], !.left = Batch[u]] \in Ops
      BY <1>0 DEF Ops, OpPC
    <2>2. op' \in [Op -> Ops]
      BY <1>0, <1>2, <2>1, OpWritten DEF SimRead
    <2> QED BY <1>2, <2>2, FaultTyped DEF TypeOK, SimRead, Quiet, files, store
  <1>3. CASE UploadClaim(u)
    <2>1. op' \in [Op -> Ops]
      BY <1>0, <1>3, OpMoved DEF UploadClaim, OpPC
    <2> QED BY <1>3, <2>1, FaultTyped DEF TypeOK, UploadClaim, Quiet, files
  <1>4. CASE UploadIntent(u)
    <2>1. op' \in [Op -> Ops]
      BY <1>0, <1>4, OpMoved DEF UploadIntent, Persist, OpPC
    <2>2. Persist(u, TRUE) /\ active' \subseteq Op
      BY <1>0, <1>4 DEF UploadIntent, Persist, TypeOK
    <2> QED BY <1>0, <1>4, <2>1, <2>2, PersistTyped DEF TypeOK, UploadIntent, Quiet, store
  <1>5. CASE UploadWrite(u)
    <2>1. PICK d \in op[u].left :
            \/ /\ PutFile(d, "vault") /\ Fine
               /\ Becomes(u, [op[u] EXCEPT !.left = @ \ {d}])
            \/ /\ Fault /\ UNCHANGED file
               /\ Becomes(u, [op[u] EXCEPT !.pc = "undo", !.left = op[u].docs])
      BY <1>5 DEF UploadWrite
    <2>2. /\ [op[u] EXCEPT !.left = @ \ {d}] \in Ops
          /\ [op[u] EXCEPT !.pc = "undo", !.left = op[u].docs] \in Ops
      BY <1>0 DEF Ops, OpPC
    <2>3. op' \in [Op -> Ops]
      BY <1>0, <2>1, <2>2, OpWritten
    <2>4. file' \in [Docs -> {"absent", "vault"} \cup Op]
      BY <1>0, <2>1 DEF TypeOK, PutFile
    <2> QED BY <1>5, <2>1, <2>3, <2>4, FaultTyped DEF TypeOK, UploadWrite, Quiet, store
  <1>6. CASE UploadCommit(u)
    <2>1. /\ [op[u] EXCEPT !.pc = IF op[u].lost THEN "inspect" ELSE "undo", !.left = op[u].docs] \in Ops
          /\ [op[u] EXCEPT !.pc = IF ~LostReplies THEN "undo"
                                  ELSE IF op[u].lost THEN "inspect" ELSE "write",
                           !.left = IF LostReplies /\ ~op[u].lost THEN {} ELSE op[u].docs,
                           !.lost = LostReplies] \in Ops
      BY <1>0 DEF Ops, OpPC, VaultAssumption
    <2>2. op' \in [Op -> Ops]
      BY <1>0, <1>6, <2>1, OpWritten, OpClosed DEF UploadCommit, Terminal
    <2>4. active' \subseteq Op /\ late' \subseteq Op
      BY <1>0, <1>6 DEF UploadCommit, TypeOK, Sent, store
    <2> QED BY <1>6, <2>2, <2>4, FaultTyped, FinalizeTyped DEF TypeOK, UploadCommit, Quiet, store, files
  <1>7. CASE SimCommit(u)
    <2>1. [op[u] EXCEPT !.pc = "undo", !.left = op[u].docs] \in Ops
      BY <1>0 DEF Ops, OpPC
    <2>2. op' \in [Op -> Ops]
      BY <1>0, <1>7, <2>1, OpWritten, OpClosed, OpMoved DEF SimCommit, Terminal, OpPC
    <2>4. active' \subseteq Op /\ late' \subseteq Op
      BY <1>0, <1>7 DEF SimCommit, TypeOK, Sent, store
    <2> QED BY <1>7, <2>2, <2>4, FaultTyped, FinalizeTyped DEF TypeOK, SimCommit, Quiet, store, files
  <1>8. CASE UploadInspect(u)
    <2>1. [op[u] EXCEPT !.pc = "preserve", !.left = op[u].docs] \in Ops
      BY <1>0 DEF Ops, OpPC
    <2>2. op' \in [Op -> Ops]
      BY <1>0, <1>8, <2>1, OpWritten, OpClosed DEF UploadInspect, Terminal
    <2> QED BY <1>8, <2>2, FaultTyped DEF TypeOK, UploadInspect, Quiet, store, files
  <1>9. CASE UploadPreserve(u)
    <2>1. \A d : [op[u] EXCEPT !.left = @ \ {d}] \in Ops
      BY <1>0 DEF Ops
    <2>2. op' \in [Op -> Ops]
      BY <1>0, <1>9, <2>1, OpWritten, OpClosed DEF UploadPreserve, Pending
    <2>3. file' \in [Docs -> {"absent", "vault"} \cup Op]
      BY <1>0, <1>9 DEF UploadPreserve, TypeOK, PutFile
    <2> QED BY <1>9, <2>2, <2>3, FaultTyped DEF TypeOK, UploadPreserve, Quiet, store
  <1>10. CASE UploadUndo(u)
    <2>1. \A d : /\ [op[u] EXCEPT !.left = @ \ {d}] \in Ops
                 /\ [op[u] EXCEPT !.left = @ \ {d}, !.failed = TRUE] \in Ops
      BY <1>0 DEF Ops
    <2>2. op' \in [Op -> Ops]
      BY <1>0, <1>10, <2>1, OpWritten, OpMoved DEF UploadUndo, OpPC
    <2>3. file' \in [Docs -> {"absent", "vault"} \cup Op] /\ row' \in [Docs -> BOOLEAN]
      BY <1>0, <1>10 DEF UploadUndo, TypeOK, PutFile
    <2> QED BY <1>10, <2>2, <2>3, FaultTyped DEF TypeOK, UploadUndo, Quiet
  <1>11. CASE UploadReset(u)
    <2>1. op' \in [Op -> Ops]
      BY <1>0, <1>11, OpClosed DEF UploadReset, Pending, Terminal
    <2> QED BY <1>11, <2>1, FaultTyped DEF TypeOK, UploadReset, Reset, Openable, Quiet, files
  <1>12. CASE Conclude(u)
    <2>1. op' \in [Op -> Ops]
      BY <1>0, <1>12, OpMoved DEF Conclude, OpPC
    <2>2. op[u].end \in Pending \cup Terminal /\ op[u].wal \in BOOLEAN
      BY <1>0 DEF Ops
    <2> QED BY <1>0, <1>12, <2>1, <2>2, UpdateTyped DEF TypeOK, Conclude, Quiet, store
  <1> QED BY <1>1, <1>2, <1>3, <1>4, <1>5, <1>6, <1>7, <1>8, <1>9, <1>10, <1>11, <1>12
          DEF UploadStep

(* An operation without a sidecar. *)
LEMMA EmptySidecar == NoSidecar \in Sidecars
  BY DEF NoSidecar, Sidecars

LEMMA DeleteStepTyped ==
  ASSUME VaultAssumption, TypeOK, NEW x \in Deletes, DeleteStep(x) PROVE TypeOK'
  <1>0. x \in Op /\ op[x] \in Ops /\ op[x].docs \subseteq Docs
    BY DEF TypeOK, Op, Ops
  <1>1. CASE DeleteRead(x)
    <2>1. \A d \in Docs : [op[x] EXCEPT !.pc = "intent", !.docs = {d}] \in Ops
      BY <1>0 DEF Ops, OpPC
    <2>2. op' \in [Op -> Ops]
      BY <1>0, <1>1, <2>1, OpWritten DEF DeleteRead
    <2> QED BY <1>1, <2>2, FaultTyped DEF TypeOK, DeleteRead, Quiet, files, store
  <1>2. CASE DeleteIntent(x)
    <2>1. op' \in [Op -> Ops]
      BY <1>0, <1>2, OpMoved DEF DeleteIntent, Persist, OpPC
    <2>2. Persist(x, TRUE) /\ active' \subseteq Op
      BY <1>0, <1>2 DEF DeleteIntent, Persist, TypeOK
    <2> QED BY <1>0, <1>2, <2>1, <2>2, PersistTyped DEF TypeOK, DeleteIntent, Quiet, store
  <1>3. CASE DeleteStage(x)
    <2>1. \A d \in Docs : [op[x] EXCEPT !.pc = "commit", !.staged = {d}] \in Ops
      BY <1>0 DEF Ops, OpPC
    <2>2. op' \in [Op -> Ops]
      BY <1>0, <1>3, <2>1, OpWritten, OpMoved, OpClosed DEF DeleteStage, OpPC, Terminal
    <2>3. file' \in [Docs -> {"absent", "vault"} \cup Op]
      BY <1>0, <1>3 DEF DeleteStage, TypeOK, PutFile, files
    <2>4. sidecar' \in [Op -> Sidecars]
      BY <1>0, <1>3, EmptySidecar DEF DeleteStage, TypeOK, files
    <2> QED BY <1>3, <2>2, <2>3, <2>4, FaultTyped DEF TypeOK, DeleteStage, Quiet, store
  <1>4. CASE DeleteCommit(x)
    <2>1. [op[x] EXCEPT !.lost = TRUE] \in Ops
      BY <1>0 DEF Ops
    <2>2. op' \in [Op -> Ops]
      BY <1>0, <1>4, <2>1, OpWritten, OpMoved DEF DeleteCommit, OpPC
    <2>3. row' \in [Docs -> BOOLEAN]
      <3>1. \A d \in Docs : (row[d] /\ d \notin op[x].docs) \in BOOLEAN
        OBVIOUS
      <3> QED BY <1>4, <3>1 DEF DeleteCommit, TypeOK
    <2>4. active' \subseteq Op /\ late' \subseteq Op
      BY <1>0, <1>4 DEF DeleteCommit, TypeOK, Sent
    <2> QED BY <1>4, <2>2, <2>3, <2>4, FaultTyped DEF TypeOK, DeleteCommit, Quiet, files
  <1>5. CASE DeleteInspect(x)
    <2>1. op' \in [Op -> Ops]
      BY <1>0, <1>5, OpMoved, OpClosed DEF DeleteInspect, OpPC, Pending
    <2> QED BY <1>5, <2>1, FaultTyped DEF TypeOK, DeleteInspect, Quiet, store, files
  <1>6. CASE DeleteRestore(x)
    <2>1. op' \in [Op -> Ops]
      BY <1>0, <1>6, OpClosed DEF DeleteRestore, Pending, Terminal
    <2>2. file' \in [Docs -> {"absent", "vault"} \cup Op]
      BY <1>0, <1>6 DEF DeleteRestore, TypeOK, PutFile
    <2> QED BY <1>6, <2>1, <2>2, FaultTyped DEF TypeOK, DeleteRestore, Quiet, store
  <1>7. CASE DeletePurge(x)
    <2>1. op' \in [Op -> Ops]
      BY <1>0, <1>7, OpClosed DEF DeletePurge, Pending, Terminal
    <2>2. file' \in [Docs -> {"absent", "vault"} \cup Op]
      BY <1>0, <1>7 DEF DeletePurge, TypeOK, files
    <2>3. sidecar' \in [Op -> Sidecars]
      BY <1>0, <1>7, EmptySidecar DEF DeletePurge, TypeOK, files
    <2> QED BY <1>7, <2>1, <2>2, <2>3, FaultTyped DEF TypeOK, DeletePurge, Quiet, store
  <1>8. CASE Conclude(x)
    <2>1. op' \in [Op -> Ops]
      BY <1>0, <1>8, OpMoved DEF Conclude, OpPC
    <2>2. op[x].end \in Pending \cup Terminal /\ op[x].wal \in BOOLEAN
      BY <1>0 DEF Ops
    <2> QED BY <1>0, <1>8, <2>1, <2>2, UpdateTyped DEF TypeOK, Conclude, Quiet, store
  <1> QED BY <1>1, <1>2, <1>3, <1>4, <1>5, <1>6, <1>7, <1>8 DEF DeleteStep

(* Erasing the record. *)
LEMMA EraseTyped ==
  ASSUME TypeOK, Erase
  PROVE  /\ row' \in [Docs -> BOOLEAN] /\ landed' \subseteq Uploads /\ submission' \in BOOLEAN
         /\ request' \in [status : Openable \cup {"uploading", "completed", "revoked", "gone"},
                          stale : BOOLEAN, batches : Nat]
  BY DEF TypeOK, Erase

LEMMA RemoveStepTyped ==
  ASSUME VaultAssumption, TypeOK, NEW m \in Removals, RemoveStep(m) PROVE TypeOK'
  <1>0. m \in Op /\ op[m] \in Ops /\ op[m].docs \subseteq Docs /\ op[m].left \subseteq Docs
        /\ op[m].staged \subseteq Docs
    BY DEF TypeOK, Op, Ops
  <1>1. CASE RemoveRead(m)
    <2> DEFINE listed == {d \in Docs : row[d]}
    <2>1. [op[m] EXCEPT !.pc = IF listed = {} THEN "commit" ELSE "intent",
                        !.docs = listed, !.left = listed] \in Ops
      BY <1>0 DEF Ops, OpPC
    <2>2. op' \in [Op -> Ops]
      BY <1>0, <1>1, <2>1, OpWritten DEF RemoveRead
    <2> QED BY <1>1, <2>2, FaultTyped DEF TypeOK, RemoveRead, Quiet, files, store
  <1>2. CASE RemoveIntent(m)
    <2>1. op' \in [Op -> Ops]
      BY <1>0, <1>2, OpMoved DEF RemoveIntent, Persist, OpPC
    <2>2. Persist(m, TRUE)
      BY <1>2 DEF RemoveIntent, Persist
    <2> QED BY <1>0, <1>2, <2>1, <2>2, PersistTyped DEF TypeOK, RemoveIntent, Quiet, store
  <1>3. CASE RemoveStage(m)
    <2>1. \A d \in Docs : /\ [op[m] EXCEPT !.left = @ \ {d}, !.staged = @ \cup {d}] \in Ops
                          /\ [op[m] EXCEPT !.left = @ \ {d}] \in Ops
      BY <1>0 DEF Ops
    <2>2. op' \in [Op -> Ops]
      BY <1>0, <1>3, <2>1, OpWritten, OpMoved DEF RemoveStage, OpPC
    <2>3. file' \in [Docs -> {"absent", "vault"} \cup Op]
      BY <1>0, <1>3 DEF RemoveStage, TypeOK, PutFile
    <2> QED BY <1>3, <2>2, <2>3, FaultTyped DEF TypeOK, RemoveStage, Quiet, store
  <1>4. CASE RemoveCommit(m)
    <2>1. op' \in [Op -> Ops]
      BY <1>0, <1>4, OpMoved, OpClosed DEF RemoveCommit, OpPC, Pending
    <2>2. late' \subseteq Op
      BY <1>0, <1>4 DEF RemoveCommit, TypeOK, Sent, store
    <2> QED BY <1>4, <2>1, <2>2, EraseTyped, FaultTyped DEF TypeOK, RemoveCommit, Quiet, store, files
  <1>5. CASE RemoveRestore(m)
    <2>1. \A d : \A b \in BOOLEAN : [op[m] EXCEPT !.staged = @ \ {d}, !.failed = b] \in Ops
      BY <1>0 DEF Ops
    <2>2. \A d : (op[m].failed \/ file'[d] # "vault") \in BOOLEAN
      OBVIOUS
    <2>3. op' \in [Op -> Ops]
      BY <1>0, <1>5, <2>1, <2>2, OpWritten, OpClosed DEF RemoveRestore, Pending, Terminal
    <2>4. file' \in [Docs -> {"absent", "vault"} \cup Op]
      BY <1>0, <1>5 DEF RemoveRestore, TypeOK, PutFile
    <2> QED BY <1>5, <2>3, <2>4, FaultTyped DEF TypeOK, RemoveRestore, Quiet, store
  <1>6. CASE RemoveConfirm(m)
    <2>1. [op[m] EXCEPT !.pc = "purge", !.left = op[m].docs] \in Ops
      BY <1>0 DEF Ops, OpPC
    <2>2. op' \in [Op -> Ops]
      BY <1>0, <1>6, <2>1, OpWritten, OpMoved DEF RemoveConfirm, OpPC
    <2>3. job' \in [Op -> Jobs] /\ sidecar' \in [Op -> Sidecars] /\ faults' \in 0..MaxFaults
      BY <1>0, <1>6, UpdateTyped, FaultTyped DEF RemoveConfirm, TypeOK, Pending
    <2> QED BY <1>6, <2>2, <2>3 DEF TypeOK, RemoveConfirm, Quiet, store
  <1>7. CASE RemovePurge(m)
    <2>1. \A d : /\ [op[m] EXCEPT !.left = @ \ {d}] \in Ops
                 /\ [op[m] EXCEPT !.left = @ \ {d}, !.failed = TRUE] \in Ops
      BY <1>0 DEF Ops
    <2>2. op' \in [Op -> Ops]
      BY <1>0, <1>7, <2>1, OpWritten, OpClosed DEF RemovePurge, Pending, Terminal
    <2>3. file' \in [Docs -> {"absent", "vault"} \cup Op]
      BY <1>0, <1>7 DEF RemovePurge, TypeOK, PutFile
    <2> QED BY <1>7, <2>2, <2>3, FaultTyped DEF TypeOK, RemovePurge, Quiet, store
  <1>8. CASE Conclude(m)
    <2>1. op' \in [Op -> Ops]
      BY <1>0, <1>8, OpMoved DEF Conclude, OpPC
    <2>2. op[m].end \in Pending \cup Terminal /\ op[m].wal \in BOOLEAN
      BY <1>0 DEF Ops
    <2> QED BY <1>0, <1>8, <2>1, <2>2, UpdateTyped DEF TypeOK, Conclude, Quiet, store
  <1> QED BY <1>1, <1>2, <1>3, <1>4, <1>5, <1>6, <1>7, <1>8 DEF RemoveStep

(* A run that is under way has the job of an operation. *)
RunsHaveJobs == \A r \in Reconcilers : rec[r].pc # "idle" => rec[r].job \in Op
VaultTyped == TypeOK /\ RunsHaveJobs

(* A run goes on with the same job, or ends. *)
LEMMA RunTyped ==
  ASSUME VaultTyped, NEW r \in Reconcilers, NEW new \in Recs, Turns(r, new),
         new.pc # "idle" => new.job \in Op
  PROVE  rec' \in [Reconcilers -> Recs] /\ RunsHaveJobs'
  BY DEF VaultTyped, TypeOK, RunsHaveJobs, Turns

LEMMA RunReleases ==
  ASSUME VaultAssumption, VaultTyped, NEW r \in Reconcilers, rec[r].pc # "idle",
         NEW status \in Pending \cup Terminal, Release(r, status)
  PROVE  job' \in [Op -> Jobs] /\ rec' \in [Reconcilers -> Recs] /\ RunsHaveJobs'
  <1>1. rec[r].job \in Op
    BY DEF VaultTyped, RunsHaveJobs
  <1>2. job' \in [Op -> Jobs] /\ rec' \in [Reconcilers -> Recs]
    BY <1>1, ReleaseTyped DEF VaultTyped
  <1>3. IdleRec \in Recs /\ IdleRec.pc = "idle"
    BY DEF IdleRec, Recs
  <1>4. RunsHaveJobs'
    BY <1>3, RunTyped DEF Release
  <1> QED BY <1>2, <1>4

LEMMA RecStepTyped ==
  ASSUME VaultAssumption, VaultTyped, NEW r \in Reconcilers, RecStep(r) PROVE VaultTyped'
  <1>0. TypeOK /\ rec[r] \in Recs /\ (rec[r].pc # "idle" => rec[r].job \in Op)
    BY DEF VaultTyped, TypeOK, RunsHaveJobs
  <1>a. IdleRec \in Recs /\ IdleRec.pc = "idle"
    BY DEF IdleRec, Recs
  <1>b. "pending" \in Pending \cup Terminal /\ "restored" \in Pending \cup Terminal
        /\ "completed" \in Pending \cup Terminal
    BY DEF Pending, Terminal
  <1>1. ASSUME NEW o \in Op, RecClaim(r, o) PROVE VaultTyped'
    <2>1. job[o] \in Jobs
      BY <1>0 DEF TypeOK
    <2>2. [job[o] EXCEPT !.lease = r, !.lapsed = FALSE] \in Jobs
      BY <2>1 DEF Jobs
    <2>3. [IdleRec EXCEPT !.pc = "partition", !.job = o] \in Recs
      BY <1>a DEF Recs
    <2>4. [IdleRec EXCEPT !.pc = "partition", !.job = o].job \in Op
      BY DEF IdleRec
    <2>5. rec' \in [Reconcilers -> Recs] /\ RunsHaveJobs'
      BY <1>1, <2>3, <2>4, RunTyped DEF RecClaim
    <2>6. job' \in [Op -> Jobs]
      BY <1>0, <1>1, <2>2 DEF RecClaim, SetJob, TypeOK
    <2> QED BY <1>0, <1>1, <2>5, <2>6, FaultTyped DEF VaultTyped, TypeOK, RecClaim, Calls, store, files
  <1>2. CASE RecPartition(r)
    <2>0. rec[r].pc # "idle" /\ rec[r].job \in Op
      BY <1>0, <1>2 DEF RecPartition, Working
    <2>1. op[rec[r].job].docs \subseteq Docs /\ Owned(rec[r].job) \subseteq Docs
      BY <1>0, <2>0 DEF TypeOK, Ops, Owned
    <2>2. (Owned(rec[r].job) # {}) \in BOOLEAN
      OBVIOUS
    <2> DEFINE new == [rec[r] EXCEPT !.pc = "move", !.restore = Owned(rec[r].job),
                          !.purge = op[rec[r].job].docs \ Owned(rec[r].job),
                          !.kept = Owned(rec[r].job) # {}]
    <2>3. new \in Recs /\ new.job = rec[r].job
      BY <1>0, <2>1, <2>2 DEF Recs
    <2>4. CASE Turns(r, new) /\ Fine /\ UNCHANGED job
      <3> HIDE DEF new
      <3> QED BY <1>0, <1>2, <2>0, <2>3, <2>4, RunTyped, FaultTyped
              DEF VaultTyped, TypeOK, RecPartition, Calls, store, files
    <2>5. CASE Fault /\ Release(r, "pending")
      BY <1>0, <1>2, <1>b, <2>0, <2>5, RunReleases, FaultTyped
         DEF VaultTyped, TypeOK, RecPartition, Calls, store, files
    <2> QED BY <1>2, <2>4, <2>5 DEF RecPartition
  <1>3. CASE RecRestore(r)
    <2>0. rec[r].pc # "idle" /\ rec[r].job \in Op
      BY <1>0, <1>3 DEF RecRestore, Working
    <2>1. PICK d \in rec[r].restore :
            /\ \/ PutFile(d, IF file[d] = rec[r].job THEN "vault" ELSE file[d]) /\ Fine
               \/ Fault /\ UNCHANGED file
            /\ Turns(r, [rec[r] EXCEPT !.restore = @ \ {d}, !.failed = @ \/ file'[d] # "vault"])
      BY <1>3 DEF RecRestore
    <2>2. (rec[r].failed \/ file'[d] # "vault") \in BOOLEAN
      OBVIOUS
    <2> DEFINE new == [rec[r] EXCEPT !.restore = @ \ {d}, !.failed = @ \/ file'[d] # "vault"]
    <2>3. new \in Recs /\ new.job = rec[r].job
      BY <1>0, <2>2 DEF Recs
    <2>4. rec' \in [Reconcilers -> Recs] /\ RunsHaveJobs'
      <3> HIDE DEF new
      <3>1. Turns(r, new)
        BY <2>1 DEF new
      <3> QED BY <2>0, <2>3, <3>1, RunTyped
    <2>5. file' \in [Docs -> {"absent", "vault"} \cup Op]
      BY <1>0, <2>1 DEF TypeOK, PutFile
    <2>6. faults' \in 0..MaxFaults
      BY <1>0, <2>1, FaultTyped
    <2> QED BY <1>0, <1>3, <2>4, <2>5, <2>6 DEF VaultTyped, TypeOK, RecRestore, Calls, store
  <1>4. CASE RecPurge(r)
    <2>0. rec[r].pc # "idle" /\ rec[r].job \in Op
      BY <1>0, <1>4 DEF RecPurge, Working
    <2>1. \A d : /\ [rec[r] EXCEPT !.purge = @ \ {d}] \in Recs
                 /\ [rec[r] EXCEPT !.purge = @ \ {d}].job = rec[r].job
                 /\ [rec[r] EXCEPT !.purge = @ \ {d}, !.failed = TRUE] \in Recs
                 /\ [rec[r] EXCEPT !.purge = @ \ {d}, !.failed = TRUE].job = rec[r].job
      BY <1>0 DEF Recs
    <2>2. \E new \in Recs : new.job = rec[r].job /\ Turns(r, new)
      BY <1>4, <2>1 DEF RecPurge
    <2>3. rec' \in [Reconcilers -> Recs] /\ RunsHaveJobs'
      BY <2>0, <2>2, RunTyped
    <2>4. file' \in [Docs -> {"absent", "vault"} \cup Op]
      BY <1>0, <1>4 DEF RecPurge, TypeOK, PutFile
    <2>5. faults' \in 0..MaxFaults
      BY <1>0, <1>4, FaultTyped DEF RecPurge
    <2> QED BY <1>0, <1>4, <2>3, <2>4, <2>5 DEF VaultTyped, TypeOK, RecPurge, Calls, store
  <1>5. CASE RecMoved(r)
    <2>0. rec[r].pc # "idle" /\ rec[r].job \in Op
      BY <1>0, <1>5 DEF RecMoved, Working
    <2>1. \A pc \in {"reset", "finish"} : /\ [rec[r] EXCEPT !.pc = pc] \in Recs
                                          /\ [rec[r] EXCEPT !.pc = pc].job = rec[r].job
      BY <1>0 DEF Recs
    <2>2. CASE rec[r].failed
      BY <1>0, <1>5, <1>b, <2>0, <2>2, RunReleases, FaultTyped
         DEF VaultTyped, TypeOK, RecMoved, Calls, store, files
    <2>3. CASE ~rec[r].failed
      <3>1. \E new \in Recs : new.job = rec[r].job /\ Turns(r, new)
        BY <1>5, <2>1, <2>3 DEF RecMoved
      <3>2. rec' \in [Reconcilers -> Recs] /\ RunsHaveJobs'
        BY <2>0, <3>1, RunTyped
      <3> QED BY <1>0, <1>5, <2>3, <3>2, FaultTyped DEF VaultTyped, TypeOK, RecMoved, Calls, store, files
    <2> QED BY <2>2, <2>3
  <1>6. CASE RecReset(r)
    <2>0. rec[r].pc # "idle" /\ rec[r].job \in Op
      BY <1>0, <1>6 DEF RecReset, Working
    <2>1. [rec[r] EXCEPT !.pc = "finish"] \in Recs /\ [rec[r] EXCEPT !.pc = "finish"].job = rec[r].job
      BY <1>0 DEF Recs
    <2>2. rec' \in [Reconcilers -> Recs] /\ RunsHaveJobs'
      BY <1>6, <2>0, <2>1, RunTyped DEF RecReset
    <2> QED BY <1>0, <1>6, <2>2, FaultTyped DEF VaultTyped, TypeOK, RecReset, Reset, Openable, Calls, files
  <1>7. CASE RecFinish(r)
    <2>0. rec[r].pc # "idle" /\ rec[r].job \in Op
      BY <1>0, <1>7 DEF RecFinish, Working
    <2>1. \E status \in Pending \cup Terminal : Release(r, status)
      BY <1>7, <1>b DEF RecFinish
    <2>2. job' \in [Op -> Jobs] /\ rec' \in [Reconcilers -> Recs] /\ RunsHaveJobs'
      BY <2>0, <2>1, RunReleases
    <2>3. faults' \in 0..MaxFaults
      BY <1>0, <1>7, FaultTyped DEF RecFinish
    <2> QED BY <1>0, <1>7, <2>2, <2>3 DEF VaultTyped, TypeOK, RecFinish, Calls, store, files
  <1>8. CASE RecLost(r)
    <2>1. rec' \in [Reconcilers -> Recs] /\ RunsHaveJobs'
      BY <1>8, <1>a, RunTyped DEF RecLost
    <2> QED BY <1>0, <1>8, <2>1, FaultTyped DEF VaultTyped, TypeOK, RecLost, Calls, store, files
  <1> QED BY <1>1, <1>2, <1>3, <1>4, <1>5, <1>6, <1>7, <1>8 DEF RecStep

(* The calls leave the runs alone. *)
LEMMA OpStepTyped == ASSUME VaultAssumption, VaultTyped, OpStep PROVE VaultTyped'
  <1>1. TypeOK'
    BY UploadStepTyped, DeleteStepTyped, RemoveStepTyped DEF OpStep, VaultTyped
  <1>2. UNCHANGED rec
    <2>1. ASSUME NEW u, UploadStep(u) PROVE UNCHANGED rec
      BY <2>1 DEF UploadStep, UploadRead, SimRead, UploadClaim, UploadIntent, UploadWrite, UploadCommit,
                  SimCommit, UploadInspect, UploadPreserve, UploadUndo, UploadReset, Conclude, Quiet
    <2>2. ASSUME NEW x, DeleteStep(x) PROVE UNCHANGED rec
      BY <2>2 DEF DeleteStep, DeleteRead, DeleteIntent, DeleteStage, DeleteCommit, DeleteInspect,
                  DeleteRestore, DeletePurge, Conclude, Quiet
    <2>3. ASSUME NEW m, RemoveStep(m) PROVE UNCHANGED rec
      BY <2>3 DEF RemoveStep, RemoveRead, RemoveIntent, RemoveStage, RemoveCommit, RemoveRestore,
                  RemoveConfirm, RemovePurge, Conclude, Quiet
    <2> QED BY <2>1, <2>2, <2>3 DEF OpStep
  <1> QED BY <1>1, <1>2 DEF VaultTyped, RunsHaveJobs

LEMMA LateCommitTyped ==
  ASSUME VaultAssumption, VaultTyped, NEW o \in Op, LateCommit(o) PROVE VaultTyped'
  <1>0. TypeOK /\ late' \subseteq Op
    BY DEF VaultTyped, TypeOK, LateCommit
  <1>1. CASE o \in Uploads /\ IF CanFinalize(o) THEN Finalize(o)
                              ELSE UNCHANGED <<submission, landed, request, row>>
    BY <1>0, <1>1, FinalizeTyped, FaultTyped DEF VaultTyped, RunsHaveJobs, LateCommit, TypeOK, Calls, files
  <1>2. CASE /\ row' = [d \in Docs |-> row[d] /\ d \notin op[o].docs]
             /\ UNCHANGED <<submission, landed, request>>
    <2>1. \A d \in Docs : (row[d] /\ d \notin op[o].docs) \in BOOLEAN
      OBVIOUS
    <2>2. row' \in [Docs -> BOOLEAN]
      BY <1>2, <2>1
    <2> QED BY <1>0, <1>2, <2>2, FaultTyped DEF VaultTyped, RunsHaveJobs, LateCommit, TypeOK, Calls, files
  <1>3. CASE Erase
    BY <1>0, <1>3, EraseTyped, FaultTyped DEF VaultTyped, RunsHaveJobs, LateCommit, TypeOK, Calls, files
  <1> QED BY <1>1, <1>2, <1>3 DEF LateCommit

LEMMA RestTyped ==
  ASSUME VaultAssumption, VaultTyped,
         \/ \E o \in Op : ImportSidecar(o) \/ LeaseLapses(o) \/ WindowPasses(o)
         \/ ClaimGoesStale \/ Revoke \/ Crash \/ UNCHANGED vars
  PROVE  VaultTyped'
  <1>0. TypeOK
    BY DEF VaultTyped
  <1>1. ASSUME NEW o \in Op, ImportSidecar(o) PROVE VaultTyped'
    <2>1. job[o] \in Jobs /\ sidecar[o] \in Sidecars
      BY <1>0 DEF TypeOK
    <2>2. [job[o] EXCEPT !.status = sidecar[o].status, !.wal = sidecar[o].wal] \in Jobs
      BY <2>1 DEF Jobs, Sidecars
    <2>3. job' \in [Op -> Jobs] /\ sidecar' \in [Op -> Sidecars]
      BY <1>0, <1>1, <2>2, EmptySidecar DEF ImportSidecar, TypeOK, SetJob
    <2> QED BY <1>0, <1>1, <2>3, FaultTyped DEF VaultTyped, RunsHaveJobs, ImportSidecar, TypeOK, Calls, store
  <1>2. ASSUME NEW o \in Op, LeaseLapses(o) PROVE VaultTyped'
    <2>1. job[o] \in Jobs
      BY <1>0 DEF TypeOK
    <2>2. [job[o] EXCEPT !.lapsed = TRUE] \in Jobs
      BY <2>1 DEF Jobs
    <2>3. job' \in [Op -> Jobs]
      BY <1>0, <1>2, <2>2 DEF LeaseLapses, TypeOK, SetJob
    <2> QED BY <1>0, <1>2, <2>3, FaultTyped DEF VaultTyped, RunsHaveJobs, LeaseLapses, TypeOK, Calls, store, files
  <1>3. ASSUME NEW o \in Op, WindowPasses(o) PROVE VaultTyped'
    BY <1>0, <1>3, FaultTyped DEF VaultTyped, RunsHaveJobs, WindowPasses, TypeOK, files
  <1>4. CASE ClaimGoesStale
    BY <1>0, <1>4, FaultTyped DEF VaultTyped, RunsHaveJobs, ClaimGoesStale, TypeOK, Calls, files
  <1>5. CASE Revoke
    BY <1>0, <1>5, FaultTyped DEF VaultTyped, RunsHaveJobs, Revoke, TypeOK, Calls, files
  <1>6. CASE Crash
    <2>0. \A o \in Op : op[o] \in Ops
      BY <1>0 DEF TypeOK
    <2>a. \A call \in Ops : [call EXCEPT !.pc = "done"] \in Ops
      BY DEF Ops, OpPC
    <2>1. \A o \in Op : [op[o] EXCEPT !.pc = "done"] \in Ops
      BY <2>0, <2>a
    <2>2. op' \in [Op -> Ops]
      BY <1>0, <1>6, <2>1 DEF Crash, TypeOK
    <2>3. IdleRec \in Recs /\ IdleRec.pc = "idle"
      BY DEF IdleRec, Recs
    <2>4. rec' \in [Reconcilers -> Recs] /\ RunsHaveJobs'
      BY <1>6, <2>3 DEF Crash, RunsHaveJobs
    <2>5. crashes' \in 0..MaxCrashes
      BY <1>0, <1>6 DEF Crash, TypeOK, VaultAssumption
    <2> QED BY <1>0, <1>6, <2>2, <2>4, <2>5, FaultTyped DEF VaultTyped, Crash, TypeOK, store, files
  <1>7. CASE UNCHANGED vars
    BY <1>0, <1>7 DEF VaultTyped, RunsHaveJobs, TypeOK, vars, store, files
  <1> QED BY <1>1, <1>2, <1>3, <1>4, <1>5, <1>6, <1>7

LEMMA StepTyped == ASSUME VaultAssumption, VaultTyped, [Next]_vars PROVE VaultTyped'
  BY OpStepTyped, RecStepTyped, LateCommitTyped, RestTyped DEF Next

(* The rows, files, jobs, sidecars, calls and reconciliation runs of the vault *)
(* have their types in every behaviour.                                       *)
THEOREM TypeCorrect == ASSUME VaultAssumption PROVE Spec => []TypeOK
  <1>1. Init => VaultTyped
    BY TypedAtFirst DEF VaultTyped, RunsHaveJobs, Init, IdleRec
  <1>2. VaultTyped /\ [Next]_vars => VaultTyped'
    BY StepTyped
  <1>3. VaultTyped => TypeOK
    BY DEF VaultTyped
  <1> QED BY <1>1, <1>2, <1>3, PTL DEF Spec

-----------------------------------------------------------------------------
(* The inductive invariant.                                                  *)
(*                                                                           *)
(* A file that still has work to do (it lies in a trash directory, or, when  *)
(* nothing is ever deleted, in the vault without a row) is held by its       *)
(* operation, and an operation that holds a file has a cleanup job, in the    *)
(* database or in its sidecar, that is not finished.  While a call moves its  *)
(* files nobody else may have its job (Shielded); the reconciler has only     *)
(* jobs whose call has decided what becomes of them (Free).                   *)

PC(o) == op[o].pc
Before(o) == PC(o) \in {"idle", "claim", "intent"}
Guarded(o) ==
  \/ o \in Uploads /\ PC(o) \in {"write", "undo", "inspect", "preserve", "reset"}
  \/ o \in Deletes /\ PC(o) \in {"stage", "commit"}
Shielded(o) == Guarded(o) \/ (o \in Removals /\ PC(o) \in {"stage", "commit", "restore"})
Free(o) == ~Before(o) /\ ~Shielded(o) /\ (o \in Uploads => o \in settled)

(* The database has had the document. *)
Known(d) == d \in Stored \/ \E u \in landed : d \in Batch[u]

Plain == Deletes = {} /\ Removals = {}
Loose(o, d) == Plain /\ o \in Uploads /\ d \in Batch[o] /\ file[d] = "vault" /\ ~row[d]
Held(o, d) == file[d] = o \/ Loose(o, d)

(* What the call works on. *)
CallInv(o) ==
  /\ op[o].left \subseteq op[o].docs /\ op[o].staged \subseteq op[o].docs
  /\ PC(o) = "idle" => op[o].left = {} /\ op[o].staged = {}
  /\ o \in Uploads => op[o].docs = IF PC(o) = "idle" THEN {} ELSE Batch[o]
  /\ o \in Uploads => op[o].wal
  /\ o \notin Uploads => \A d \in op[o].docs : Known(d)
  /\ o \in Deletes => \A c, d \in op[o].docs : c = d
  /\ o \in Deletes /\ PC(o) = "purge" => \A d \in op[o].docs : ~row[d]
  /\ o \in Removals /\ PC(o) \in {"confirm", "purge"} => ~submission
  /\ o \in late => o \notin settled
  /\ op[o].lost => LostReplies /\ o \notin Sims

(* Who may have its job. *)
JobInv(o) ==
  /\ Before(o) => /\ job[o].status = "none" /\ sidecar[o] = NoSidecar
                  /\ o \notin settled /\ o \notin late
  /\ Guarded(o) => o \in active
  /\ o \in Removals /\ Running(o) => o \notin settled
  /\ o \in Uploads \ settled \/ Shielded(o) =>
       /\ job[o].status # "none" => job[o].wal
       /\ sidecar[o].status # "none" => sidecar[o].wal
  /\ Shielded(o) => job[o].status \notin Terminal /\ sidecar[o].status \notin Terminal
  /\ Shielded(o) /\ PC(o) \notin {"commit", "restore"} =>
       job[o].status # "none" \/ sidecar[o].status # "none"

(* The files it holds. *)
HeldInv(o) == \A d \in Docs : Held(o, d) =>
  /\ job[o].status \notin Terminal /\ sidecar[o].status \notin Terminal
  /\ job[o].status # "none" \/ sidecar[o].status # "none"
  /\ d \in op[o].docs
  /\ PC(o) = "close" => op[o].end = "pending"
  /\ PC(o) = "undo" => d \in op[o].left \/ op[o].failed
  /\ PC(o) = "reset" => op[o].failed

TrashInv(o) == \A d \in Docs : file[d] = o =>
  /\ o \in Uploads => PC(o) \in {"preserve", "close", "done"}
  /\ o \in Deletes => PC(o) \in {"commit", "inspect", "restore", "purge", "close", "done"}
  /\ o \in Removals /\ PC(o) \in {"stage", "commit", "restore"} =>
       d \in op[o].staged \/ op[o].failed
  /\ o \in Removals /\ PC(o) = "purge" => d \in op[o].left \/ op[o].failed

(* The files of an upload that may still be recorded are there. *)
FreshInv(o) == o \in Uploads /\ o \notin landed =>
  /\ PC(o) \in {"claim", "intent", "write"} => \A d \in Batch[o] : d \in op[o].left \/ file[d] = "vault"
  /\ o \in late => /\ PC(o) \in {"write", "inspect", "preserve", "close", "done"}
                   /\ PC(o) = "write" => op[o].lost /\ op[o].left = {}
                   /\ \A d \in Batch[o] : file[d] \in {"vault", o}

OpInv(o) == CallInv(o) /\ JobInv(o) /\ HeldInv(o) /\ TrashInv(o) /\ FreshInv(o)

(* A run of the reconciler. *)
RunInv(r) == rec[r].pc # "idle" =>
  /\ rec[r].job \in Op /\ Free(rec[r].job)
  /\ rec[r].pc = "move" =>
       /\ rec[r].restore \subseteq op[rec[r].job].docs /\ rec[r].purge \subseteq op[rec[r].job].docs
       /\ \A d \in rec[r].purge : ~row[d]
       /\ Plain => \A d \in rec[r].restore : row[d]
       /\ \A d \in Docs : Held(rec[r].job, d) =>
            rec[r].failed \/ d \in rec[r].restore \/ d \in rec[r].purge
  /\ rec[r].pc \in {"reset", "finish"} => \A d \in Docs : ~Held(rec[r].job, d)

(* The database and the volume. *)
World ==
  /\ \A d \in Docs : row[d] => Known(d) /\ file[d] # "absent"
  /\ ~submission => request.status = "gone" /\ \A d \in Docs : ~row[d]
  /\ Plain => \A d \in Docs : file[d] = "vault" /\ ~row[d] => \E u \in Uploads : d \in Batch[u]

VaultInv ==
  /\ VaultTyped
  /\ \A o \in Op : OpInv(o)
  /\ \A r \in Reconcilers : RunInv(r)
  /\ World

(***************************************************************************)
(* What a step of operation o, or of a run that has its job, may do to what *)
(* belongs to others: it moves files of o's documents only, into the vault, *)
(* o's trash or nowhere, and lets in rows of o's batch only.                *)
(***************************************************************************)

Untouched(q) ==
  /\ op'[q] = op[q] /\ job'[q] = job[q] /\ sidecar'[q] = sidecar[q]
  /\ q \in settled' <=> q \in settled
  /\ q \in late' <=> q \in late
  /\ q \in active' <=> q \in active

Frame(o) ==
  /\ \A q \in Op \ {o} : Untouched(q)
  /\ \A d \in Docs : file'[d] = file[d] \/ (d \in op[o].docs /\ file'[d] \in {"absent", "vault", o})
  /\ \A d \in Docs : row'[d] => row[d] \/ (o \in Uploads /\ o \notin landed /\ o \in landed' /\ d \in Batch[o])
  /\ Plain => \A d \in Docs : row[d] => row'[d] \/ d \in op[o].docs
  /\ landed \subseteq landed' /\ landed' \subseteq landed \cup {o}
  /\ \A d \in Docs : row'[d] => file'[d] # "absent"
  /\ submission' => submission
  /\ ~submission' => request'.status = "gone" /\ \A d \in Docs : ~row'[d]

(* A free operation stays so: it takes no more files and no more rows. *)
StaysFree(o) == Free(o) =>
  /\ Free(o)'
  /\ op'[o].docs = op[o].docs
  /\ \A d \in Docs : Held(o, d)' => Held(o, d)
  /\ \A d \in op[o].docs : row'[d] => row[d]
  /\ Plain => \A d \in op[o].docs : row[d] => row'[d]

(* The documents of one operation are never those another upload may still *)
(* bring.                                                                  *)
LEMMA Apart ==
  ASSUME VaultAssumption, VaultInv, NEW o \in Op, NEW u \in Uploads, o # u, u \notin landed,
         NEW d \in op[o].docs
  PROVE  d \notin Batch[u]
  <1>1. CallInv(o) /\ landed \subseteq Uploads
    BY DEF VaultInv, OpInv, VaultTyped, TypeOK
  <1>2. CASE o \in Uploads
    BY <1>1, <1>2 DEF CallInv, VaultAssumption
  <1>3. CASE o \notin Uploads
    <2>1. Known(d)
      BY <1>1, <1>3 DEF CallInv
    <2> QED BY <1>1, <2>1 DEF Known, VaultAssumption
  <1> QED BY <1>2, <1>3

(* What is not o's is Free, held and loose as it was. *)
LEMMA OthersSame ==
  ASSUME VaultAssumption, VaultInv, NEW o \in Op, Frame(o), NEW q \in Op, q # o
  PROVE  /\ PC(q)' = PC(q) /\ (Before(q)' <=> Before(q)) /\ (Guarded(q)' <=> Guarded(q))
         /\ (Shielded(q)' <=> Shielded(q)) /\ (Free(q)' <=> Free(q)) /\ (Running(q)' <=> Running(q))
  BY DEF Frame, Untouched, PC, Before, Guarded, Shielded, Free, Running

LEMMA OthersHold ==
  ASSUME VaultAssumption, VaultInv, NEW o \in Op, Frame(o), NEW q \in Op, q # o
  PROVE  \A d \in Docs : /\ file'[d] = q => file[d] = q
                         /\ Held(q, d)' => Held(q, d)
  <1>1. q \notin {"absent", "vault", o}
    BY DEF VaultAssumption
  <1> SUFFICES ASSUME NEW d \in Docs
               PROVE  (file'[d] = q => file[d] = q) /\ (Loose(q, d)' => Held(q, d))
    BY DEF Held
  <1>2. file'[d] = q => file[d] = q
    BY <1>1 DEF Frame
  <1>3. ASSUME Loose(q, d)' PROVE Held(q, d)
    <2>1. Plain /\ q \in Uploads /\ d \in Batch[q] /\ file'[d] = "vault" /\ ~row'[d]
      BY <1>3 DEF Loose, Plain
    <2>2. o \in Uploads /\ op[o].docs \subseteq Batch[o]
      BY <2>1 DEF Plain, Op, VaultInv, OpInv, CallInv
    <2>3. d \notin op[o].docs
      BY <2>1, <2>2 DEF VaultAssumption
    <2>4. file[d] = "vault" /\ ~row[d]
      BY <2>1, <2>3 DEF Frame
    <2> QED BY <2>1, <2>4 DEF Held, Loose
  <1> QED BY <1>2, <1>3

LEMMA OthersKept ==
  ASSUME VaultAssumption, VaultInv, NEW o \in Op, Frame(o), NEW q \in Op, q # o
  PROVE  OpInv(q)'
  <1>0. /\ OpInv(q) /\ Untouched(q) /\ op'[q] = op[q] /\ job'[q] = job[q] /\ sidecar'[q] = sidecar[q]
    BY DEF VaultInv, Frame, Untouched
  <1>a. op[q].docs \subseteq Docs
    BY DEF VaultInv, VaultTyped, TypeOK, Ops
  <1>1. CallInv(q)'
    <2>1. q \notin Uploads => \A d \in op[q].docs : Known(d)'
      BY <1>0 DEF OpInv, CallInv, Known, Frame
    <2>2. q \in Deletes /\ PC(q) = "purge" => \A d \in op[q].docs : ~row'[d]
      <3> SUFFICES ASSUME q \in Deletes, PC(q) = "purge", NEW d \in op[q].docs PROVE ~row'[d]
        OBVIOUS
      <3>1. ~row[d] /\ d \in Docs
        BY <1>0, <1>a DEF OpInv, CallInv
      <3> QED BY <3>1, Apart DEF Frame
    <2> QED BY <1>0, <2>1, <2>2, OthersSame DEF OpInv, CallInv, Untouched, Frame, PC
  <1>2. JobInv(q)'
    BY <1>0, OthersSame DEF OpInv, JobInv, Untouched
  <1>3. HeldInv(q)'
    BY <1>0, OthersSame, OthersHold DEF OpInv, HeldInv
  <1>4. TrashInv(q)'
    BY <1>0, OthersSame, OthersHold DEF OpInv, TrashInv
  <1>5. FreshInv(q)'
    <2> SUFFICES ASSUME q \in Uploads, q \notin landed' PROVE FreshInv(q)'
      BY DEF FreshInv
    <2>1. q \notin landed /\ Batch[q] \subseteq Docs
      BY DEF Frame, VaultAssumption
    <2>2. \A d \in Batch[q] : file'[d] = file[d]
      BY <2>1, Apart DEF Frame
    <2> QED BY <1>0, <2>1, <2>2, OthersSame DEF OpInv, FreshInv, Untouched
  <1> QED BY <1>1, <1>2, <1>3, <1>4, <1>5 DEF OpInv

LEMMA RunsKept ==
  ASSUME VaultAssumption, VaultInv, NEW o \in Op, Frame(o), StaysFree(o),
         NEW r \in Reconcilers, rec'[r] = rec[r]
  PROVE  RunInv(r)'
  <1> SUFFICES ASSUME rec[r].pc # "idle" PROVE RunInv(r)'
    BY DEF RunInv
  <1> DEFINE j == rec[r].job
  <1>1. RunInv(r) /\ j \in Op /\ Free(j) /\ op[j].docs \subseteq Docs
    BY DEF VaultInv, RunInv, VaultTyped, TypeOK, Ops
  <1>2. /\ Free(j)' /\ op'[j].docs = op[j].docs
        /\ \A d \in Docs : Held(j, d)' => Held(j, d)
        /\ \A d \in op[j].docs : row'[d] => row[d]
        /\ Plain => \A d \in op[j].docs : row[d] => row'[d]
    <2>1. CASE j = o
      BY <1>1, <2>1 DEF StaysFree
    <2>2. CASE j # o
      <3>1. Free(j)' /\ \A d \in Docs : Held(j, d)' => Held(j, d)
        BY <1>1, <2>2, OthersSame, OthersHold
      <3>2. op'[j].docs = op[j].docs
        BY <1>1, <2>2 DEF Frame, Untouched
      <3>3. \A d \in op[j].docs : row'[d] => row[d]
        <4> SUFFICES ASSUME NEW d \in op[j].docs, row'[d], ~row[d] PROVE FALSE
          OBVIOUS
        <4>1. o \in Uploads /\ o \notin landed /\ d \in Batch[o]
          BY <1>1 DEF Frame
        <4> QED BY <1>1, <2>2, <4>1, Apart
      <3>4. ASSUME Plain PROVE \A d \in op[j].docs : row[d] => row'[d]
        <4>1. o \in Uploads /\ j \in Uploads /\ op[o].docs \subseteq Batch[o] /\ op[j].docs \subseteq Batch[j]
          BY <1>1, <3>4 DEF Plain, Op, VaultInv, OpInv, CallInv
        <4>2. \A d \in op[j].docs : d \notin op[o].docs
          BY <2>2, <4>1 DEF VaultAssumption
        <4> QED BY <1>1, <3>4, <4>2 DEF Frame
      <3> QED BY <3>1, <3>2, <3>3, <3>4
    <2> QED BY <2>1, <2>2
  <1> HIDE DEF j
  <1>3. RunInv(r)' <=> (rec[r].pc # "idle" =>
          /\ j \in Op /\ Free(j)'
          /\ rec[r].pc = "move" =>
               /\ rec[r].restore \subseteq op'[j].docs /\ rec[r].purge \subseteq op'[j].docs
               /\ \A d \in rec[r].purge : ~row'[d]
               /\ Plain => \A d \in rec[r].restore : row'[d]
               /\ \A d \in Docs : Held(j, d)' => rec[r].failed \/ d \in rec[r].restore \/ d \in rec[r].purge
          /\ rec[r].pc \in {"reset", "finish"} => \A d \in Docs : ~Held(j, d)')
    BY DEF RunInv, j, Op, Plain
  <1>4. RunInv(r) <=> (rec[r].pc # "idle" =>
          /\ j \in Op /\ Free(j)
          /\ rec[r].pc = "move" =>
               /\ rec[r].restore \subseteq op[j].docs /\ rec[r].purge \subseteq op[j].docs
               /\ \A d \in rec[r].purge : ~row[d]
               /\ Plain => \A d \in rec[r].restore : row[d]
               /\ \A d \in Docs : Held(j, d) => rec[r].failed \/ d \in rec[r].restore \/ d \in rec[r].purge
          /\ rec[r].pc \in {"reset", "finish"} => \A d \in Docs : ~Held(j, d))
    BY DEF RunInv, j
  <1> QED BY <1>1, <1>2, <1>3, <1>4

LEMMA WorldKept ==
  ASSUME VaultAssumption, VaultInv, VaultTyped', NEW o \in Op, Frame(o) PROVE World'
  <1>1. \A d \in Docs : row'[d] => Known(d)' /\ file'[d] # "absent"
    BY DEF Frame, VaultInv, World, Known
  <1>2. ASSUME Plain, NEW d \in Docs, file'[d] = "vault", ~row'[d]
        PROVE  \E u \in Uploads : d \in Batch[u]
    <2>1. o \in Uploads /\ op[o].docs \subseteq Batch[o]
      BY <1>2 DEF Plain, Op, VaultInv, OpInv, CallInv
    <2>2. CASE d \in op[o].docs
      BY <2>1, <2>2
    <2>3. CASE d \notin op[o].docs
      BY <1>2, <2>3 DEF Frame, VaultInv, World
    <2> QED BY <2>2, <2>3
  <1> QED BY <1>1, <1>2 DEF World, Frame, Plain

(* So a step need only be looked at where it acts. *)
LEMMA StepKeeps ==
  ASSUME VaultAssumption, VaultInv, VaultTyped', NEW o \in Op, Frame(o), StaysFree(o), OpInv(o)',
         \A r \in Reconcilers : rec'[r] = rec[r] \/ RunInv(r)'
  PROVE  VaultInv'
  <1>1. \A q \in Op : OpInv(q)'
    BY OthersKept
  <1>2. \A r \in Reconcilers : RunInv(r)'
    BY RunsKept
  <1> QED BY <1>1, <1>2, WorldKept DEF VaultInv, Op

(* The fields of a call after it moved on, or closed. *)
LEMMA Moved ==
  ASSUME TypeOK, NEW o \in Op, NEW pc, Goto(o, pc)
  PROVE  /\ op'[o].pc = pc /\ op'[o].docs = op[o].docs /\ op'[o].left = op[o].left
         /\ op'[o].staged = op[o].staged /\ op'[o].lost = op[o].lost /\ op'[o].failed = op[o].failed
         /\ op'[o].end = op[o].end /\ op'[o].wal = op[o].wal
         /\ \A q \in Op \ {o} : op'[q] = op[q]
  BY DEF TypeOK, Ops, Goto, Becomes

LEMMA Closed ==
  ASSUME TypeOK, NEW o \in Op, NEW end, NEW wal, Close(o, end, wal)
  PROVE  /\ op'[o].pc = "close" /\ op'[o].docs = op[o].docs /\ op'[o].left = op[o].left
         /\ op'[o].staged = op[o].staged /\ op'[o].lost = op[o].lost /\ op'[o].failed = op[o].failed
         /\ op'[o].end = end /\ op'[o].wal = wal
         /\ \A q \in Op \ {o} : op'[q] = op[q]
  BY DEF TypeOK, Ops, Close, Becomes

LEMMA Became ==
  ASSUME TypeOK, NEW o \in Op, NEW new, Becomes(o, new)
  PROVE  op'[o] = new /\ \A q \in Op \ {o} : op'[q] = op[q]
  BY DEF TypeOK, Becomes

(* The intent is in the database or in the sidecar. *)
LEMMA Persisted ==
  ASSUME TypeOK, NEW o \in Op, NEW next, Persist(o, next)
  PROVE  /\ next
         /\ \/ job'[o].status = "pending" /\ job'[o].wal /\ sidecar'[o] = sidecar[o]
            \/ sidecar'[o].status = "pending" /\ sidecar'[o].wal /\ job'[o] = job[o]
         /\ \A q \in Op \ {o} : job'[q] = job[q] /\ sidecar'[q] = sidecar[q]
  <1>1. next /\ \A q \in Op \ {o} : job'[q] = job[q] /\ sidecar'[q] = sidecar[q]
    BY DEF TypeOK, Persist, SetJob
  <1>2. CASE SetJob(o, [NoJob EXCEPT !.status = "pending", !.wal = TRUE]) /\ UNCHANGED sidecar
    <2>1. job'[o] = [NoJob EXCEPT !.status = "pending", !.wal = TRUE]
      BY <1>2 DEF SetJob, TypeOK
    <2> QED BY <1>1, <1>2, <2>1 DEF NoJob
  <1>3. CASE /\ sidecar' = [sidecar EXCEPT ![o] = [status |-> "pending", wal |-> TRUE]]
             /\ UNCHANGED job
    BY <1>1, <1>3 DEF TypeOK
  <1> QED BY <1>2, <1>3 DEF Persist

LEMMA Updated ==
  ASSUME TypeOK, NEW o \in Op, NEW end, NEW wal, UpdateJob(o, end, wal)
  PROVE  /\ \/ job'[o].status = end /\ job'[o].wal = wal /\ sidecar'[o] = sidecar[o]
            \/ sidecar'[o].status = end /\ sidecar'[o].wal = wal /\ job'[o] = job[o]
            \/ job'[o] = job[o] /\ sidecar'[o] = sidecar[o]
         /\ \A q \in Op \ {o} : job'[q] = job[q] /\ sidecar'[q] = sidecar[q]
  <1>1. \A q \in Op \ {o} : job'[q] = job[q] /\ sidecar'[q] = sidecar[q]
    BY DEF TypeOK, UpdateJob, SetJob
  <1>2. CASE SetJob(o, [job[o] EXCEPT !.status = end, !.wal = wal]) /\ UNCHANGED sidecar
    <2>1. job'[o] = [job[o] EXCEPT !.status = end, !.wal = wal] /\ job[o] \in Jobs
      BY <1>2 DEF SetJob, TypeOK
    <2>2. job'[o].status = end /\ job'[o].wal = wal
      BY <2>1 DEF Jobs
    <2> QED BY <1>1, <1>2, <2>2
  <1>3. CASE sidecar' = [sidecar EXCEPT ![o] = [status |-> end, wal |-> wal]] /\ UNCHANGED job
    BY <1>1, <1>3 DEF TypeOK
  <1>4. CASE UNCHANGED <<job, sidecar>>
    BY <1>4
  <1> QED BY <1>2, <1>3, <1>4 DEF UpdateJob

(* A call that moves no file and no row leaves the world as it is. *)
LEMMA Alone ==
  ASSUME VaultInv, NEW o \in Op, \A q \in Op \ {o} : Untouched(q),
         UNCHANGED <<submission, row, landed, file>>,
         request.status = "gone" => request'.status = "gone"
  PROVE  Frame(o)
  BY DEF Frame, VaultInv, World

-----------------------------------------------------------------------------
(* The steps of an upload keep the invariant. *)

LEMMA UploadFacts ==
  ASSUME VaultAssumption, VaultInv, NEW u \in Uploads
  PROVE  /\ u \in Op /\ u \notin Deletes /\ u \notin Removals /\ u \notin {"absent", "vault"}
         /\ TypeOK /\ op[u] \in Ops /\ OpInv(u) /\ Batch[u] \subseteq Docs
         /\ op[u].docs \subseteq Docs /\ op[u].left \subseteq Docs
  BY DEF VaultAssumption, VaultInv, VaultTyped, TypeOK, Op, Ops

LEMMA UploadReadKeeps ==
  ASSUME VaultAssumption, VaultInv, VaultTyped', NEW u \in Uploads, UploadRead(u) PROVE VaultInv'
  <1>0. u \in Op /\ TypeOK /\ op[u] \in Ops /\ OpInv(u) /\ PC(u) = "idle"
    BY UploadFacts DEF UploadRead, At, PC
  <1>1. /\ op'[u].pc = "claim" /\ op'[u].docs = Batch[u] /\ op'[u].left = Batch[u]
        /\ op'[u].staged = op[u].staged /\ op'[u].wal = op[u].wal /\ op'[u].lost = op[u].lost
        /\ \A q \in Op \ {u} : op'[q] = op[q]
    <2>1. /\ op'[u] = [op[u] EXCEPT !.pc = "claim", !.docs = Batch[u], !.left = Batch[u],
                                    !.base = request.batches]
          /\ \A q \in Op \ {u} : op'[q] = op[q]
      BY <1>0, Became DEF UploadRead
    <2> QED BY <1>0, <2>1 DEF Ops
  <1>2. Frame(u)
    BY <1>0, <1>1, Alone DEF UploadRead, Untouched, files, Quiet, Openable
  <1>3. StaysFree(u)
    BY <1>0 DEF StaysFree, Free, Before
  <1>4. OpInv(u)'
    <2>1. CallInv(u)'
      BY <1>0, <1>1 DEF OpInv, CallInv, JobInv, UploadRead, PC, Before, Op, VaultAssumption
    <2>2. JobInv(u)'
      BY <1>0, <1>1 DEF OpInv, JobInv, UploadRead, PC, Before, Guarded, Shielded, VaultAssumption, files, Quiet
    <2>3. HeldInv(u)' /\ TrashInv(u)'
      BY <1>0, <1>1 DEF OpInv, JobInv, HeldInv, TrashInv, UploadRead, PC, Before, files, Held, Loose, NoSidecar, Plain
    <2>4. FreshInv(u)'
      BY <1>0, <1>1 DEF OpInv, JobInv, FreshInv, UploadRead, PC, Before
    <2> QED BY <2>1, <2>2, <2>3, <2>4 DEF OpInv
  <1> QED BY <1>0, <1>2, <1>3, <1>4, StepKeeps DEF UploadRead, Quiet

LEMMA SimReadKeeps ==
  ASSUME VaultAssumption, VaultInv, VaultTyped', NEW u \in Uploads, SimRead(u) PROVE VaultInv'
  <1>0. u \in Op /\ TypeOK /\ op[u] \in Ops /\ OpInv(u) /\ PC(u) = "idle"
    BY UploadFacts DEF SimRead, At, PC
  <1>1. /\ op'[u].pc = "intent" /\ op'[u].docs = Batch[u] /\ op'[u].left = Batch[u]
        /\ op'[u].staged = op[u].staged /\ op'[u].wal = op[u].wal /\ op'[u].lost = op[u].lost
        /\ \A q \in Op \ {u} : op'[q] = op[q]
    <2>1. /\ op'[u] = [op[u] EXCEPT !.pc = "intent", !.docs = Batch[u], !.left = Batch[u]]
          /\ \A q \in Op \ {u} : op'[q] = op[q]
      BY <1>0, Became DEF SimRead
    <2> QED BY <1>0, <2>1 DEF Ops
  <1>2. Frame(u)
    BY <1>0, <1>1, Alone DEF SimRead, Untouched, files, store, Quiet
  <1>3. StaysFree(u)
    BY <1>0 DEF StaysFree, Free, Before
  <1>4. OpInv(u)'
    <2>1. CallInv(u)'
      BY <1>0, <1>1 DEF OpInv, CallInv, JobInv, SimRead, store, PC, Before, Op, VaultAssumption
    <2>2. JobInv(u)'
      BY <1>0, <1>1 DEF OpInv, JobInv, SimRead, store, PC, Before, Guarded, Shielded, VaultAssumption, files, Quiet
    <2>3. HeldInv(u)' /\ TrashInv(u)'
      BY <1>0, <1>1 DEF OpInv, JobInv, HeldInv, TrashInv, SimRead, store, PC, Before, files, Held, Loose, NoSidecar, Plain
    <2>4. FreshInv(u)'
      BY <1>0, <1>1 DEF OpInv, JobInv, FreshInv, SimRead, store, PC, Before
    <2> QED BY <2>1, <2>2, <2>3, <2>4 DEF OpInv
  <1> QED BY <1>0, <1>2, <1>3, <1>4, StepKeeps DEF SimRead, Quiet

LEMMA UploadClaimKeeps ==
  ASSUME VaultAssumption, VaultInv, VaultTyped', NEW u \in Uploads, UploadClaim(u) PROVE VaultInv'
  <1>0. u \in Op /\ TypeOK /\ op[u] \in Ops /\ OpInv(u) /\ PC(u) = "claim" /\ u \notin Deletes /\ u \notin Removals
    BY UploadFacts DEF UploadClaim, At, PC
  <1>1. /\ op'[u].pc \in {"intent", "done"} /\ op'[u].docs = op[u].docs /\ op'[u].left = op[u].left
        /\ op'[u].staged = op[u].staged /\ op'[u].wal = op[u].wal /\ op'[u].lost = op[u].lost
        /\ \A q \in Op \ {u} : op'[q] = op[q]
    BY <1>0, Moved DEF UploadClaim
  <1>2. Frame(u)
    BY <1>0, <1>1, Alone DEF UploadClaim, Untouched, files, Quiet, Openable
  <1>3. StaysFree(u)
    BY <1>0 DEF StaysFree, Free, Before
  <1>4. OpInv(u)'
    <2>1. CallInv(u)'
      BY <1>0, <1>1 DEF OpInv, CallInv, JobInv, UploadClaim, PC, Before
    <2>2. JobInv(u)'
      BY <1>0, <1>1 DEF OpInv, JobInv, UploadClaim, PC, Before, Guarded, Shielded, files, Quiet, NoSidecar
    <2>3. HeldInv(u)' /\ TrashInv(u)'
      BY <1>0, <1>1 DEF OpInv, JobInv, HeldInv, TrashInv, UploadClaim, PC, Before, files, Held, Loose, NoSidecar, Plain
    <2>4. FreshInv(u)'
      BY <1>0, <1>1 DEF OpInv, JobInv, FreshInv, UploadClaim, PC, Before, files
    <2> QED BY <2>1, <2>2, <2>3, <2>4 DEF OpInv
  <1> QED BY <1>0, <1>2, <1>3, <1>4, StepKeeps DEF UploadClaim, Quiet

LEMMA UploadIntentKeeps ==
  ASSUME VaultAssumption, VaultInv, VaultTyped', NEW u \in Uploads, UploadIntent(u) PROVE VaultInv'
  <1>0. u \in Op /\ TypeOK /\ op[u] \in Ops /\ OpInv(u) /\ PC(u) = "intent" /\ u \notin Deletes /\ u \notin Removals
    BY UploadFacts DEF UploadIntent, At, PC
  <1>a. /\ active' = active \cup {u} /\ Goto(u, "write")
        /\ \/ job'[u].status = "pending" /\ job'[u].wal /\ sidecar'[u] = sidecar[u]
           \/ sidecar'[u].status = "pending" /\ sidecar'[u].wal /\ job'[u] = job[u]
        /\ \A q \in Op \ {u} : job'[q] = job[q] /\ sidecar'[q] = sidecar[q]
    BY <1>0, Persisted DEF UploadIntent
  <1>1. /\ op'[u].pc = "write" /\ op'[u].docs = op[u].docs /\ op'[u].left = op[u].left
        /\ op'[u].staged = op[u].staged /\ op'[u].wal = op[u].wal /\ op'[u].lost = op[u].lost
        /\ \A q \in Op \ {u} : op'[q] = op[q]
    BY <1>0, <1>a, Moved
  <1>2. Frame(u)
    BY <1>0, <1>1, <1>a, Alone DEF UploadIntent, Untouched, store, Quiet
  <1>3. StaysFree(u)
    BY <1>0 DEF StaysFree, Free, Before
  <1>4. OpInv(u)'
    <2>1. CallInv(u)'
      BY <1>0, <1>1 DEF OpInv, CallInv, JobInv, UploadIntent, store, PC, Before, Quiet
    <2>2. JobInv(u)'
      BY <1>0, <1>1, <1>a DEF OpInv, JobInv, UploadIntent, store, PC, Before, Guarded, Shielded, Quiet, NoSidecar, Terminal
    <2>3. HeldInv(u)' /\ TrashInv(u)'
      BY <1>0, <1>1, <1>a DEF OpInv, JobInv, HeldInv, TrashInv, UploadIntent, store, PC, Before, Held, Loose, NoSidecar, Plain
    <2>4. FreshInv(u)'
      BY <1>0, <1>1 DEF OpInv, CallInv, JobInv, FreshInv, UploadIntent, store, PC, Before
    <2> QED BY <2>1, <2>2, <2>3, <2>4 DEF OpInv
  <1> QED BY <1>0, <1>2, <1>3, <1>4, StepKeeps DEF UploadIntent, Quiet

LEMMA UploadWriteKeeps ==
  ASSUME VaultAssumption, VaultInv, VaultTyped', NEW u \in Uploads, UploadWrite(u) PROVE VaultInv'
  <1>0. /\ u \in Op /\ TypeOK /\ op[u] \in Ops /\ OpInv(u) /\ PC(u) = "write" /\ op[u].left # {}
        /\ u \notin Deletes /\ u \notin Removals /\ u \notin {"absent", "vault"}
        /\ op[u].left \subseteq op[u].docs /\ op[u].docs = Batch[u] /\ op[u].docs \subseteq Docs
    BY UploadFacts DEF UploadWrite, At, PC, OpInv, CallInv
  <1>1. PICK d \in op[u].left :
          \/ /\ PutFile(d, "vault") /\ Becomes(u, [op[u] EXCEPT !.left = @ \ {d}])
          \/ /\ UNCHANGED file
             /\ Becomes(u, [op[u] EXCEPT !.pc = "undo", !.left = op[u].docs])
    BY <1>0 DEF UploadWrite
  <1>2. /\ \/ /\ op'[u].pc = "write" /\ op'[u].left = op[u].left \ {d}
              /\ file'[d] = "vault" /\ \A e \in Docs \ {d} : file'[e] = file[e]
           \/ op'[u].pc = "undo" /\ op'[u].left = op[u].docs /\ UNCHANGED file
        /\ op'[u].docs = op[u].docs /\ op'[u].staged = op[u].staged /\ op'[u].wal = op[u].wal
        /\ op'[u].lost = op[u].lost
        /\ \A q \in Op \ {u} : op'[q] = op[q]
    <2>1. CASE PutFile(d, "vault") /\ Becomes(u, [op[u] EXCEPT !.left = @ \ {d}])
      <3>1. op'[u] = [op[u] EXCEPT !.left = @ \ {d}] /\ \A q \in Op \ {u} : op'[q] = op[q]
        BY <1>0, <2>1, Became
      <3>2. file'[d] = "vault" /\ \A e \in Docs \ {d} : file'[e] = file[e]
        BY <1>0, <2>1 DEF PutFile, TypeOK
      <3> QED BY <1>0, <3>1, <3>2 DEF Ops, PC
    <2>2. CASE UNCHANGED file /\ Becomes(u, [op[u] EXCEPT !.pc = "undo", !.left = op[u].docs])
      <3>1. /\ op'[u] = [op[u] EXCEPT !.pc = "undo", !.left = op[u].docs]
            /\ \A q \in Op \ {u} : op'[q] = op[q]
        BY <1>0, <2>2, Became
      <3> QED BY <1>0, <2>2, <3>1 DEF Ops
    <2> QED BY <1>1, <2>1, <2>2
  <1>3. Frame(u)
    BY <1>0, <1>2 DEF UploadWrite, Frame, Untouched, store, Quiet, VaultInv, World
  <1>4. StaysFree(u)
    BY <1>0 DEF StaysFree, Free, Shielded, Guarded
  <1>5. OpInv(u)'
    <2>1. CallInv(u)'
      BY <1>0, <1>2 DEF OpInv, CallInv, UploadWrite, store, PC, Quiet
    <2>2. JobInv(u)'
      BY <1>0, <1>2 DEF OpInv, JobInv, UploadWrite, PC, Before, Guarded, Shielded, Quiet
    <2>3. HeldInv(u)'
      BY <1>0, <1>2 DEF OpInv, JobInv, HeldInv, TrashInv, UploadWrite, PC, Guarded, Shielded, Held, Loose, Plain
    <2>4. TrashInv(u)'
      BY <1>0, <1>2 DEF OpInv, TrashInv, PC
    <2>5. FreshInv(u)'
      BY <1>0, <1>2 DEF OpInv, FreshInv, UploadWrite, store, PC
    <2> QED BY <2>1, <2>2, <2>3, <2>4, <2>5 DEF OpInv
  <1> QED BY <1>0, <1>3, <1>4, <1>5, StepKeeps DEF UploadWrite, Quiet

(* The batch is recorded. *)
LEMMA Recorded ==
  ASSUME VaultAssumption, VaultInv, NEW u \in Uploads, CanFinalize(u), Finalize(u), op[u].docs = Batch[u],
         \A d \in Batch[u] : file[d] # "absent", UNCHANGED file,
         \A q \in Op \ {u} : Untouched(q)
  PROVE  Frame(u) /\ \A d \in Batch[u] : row'[d]
  <1>1. u \notin landed /\ landed' = landed \cup {u} /\ submission' = submission /\ Batch[u] \subseteq Docs
    BY DEF CanFinalize, Finalize, VaultAssumption
  <1>2. \A d \in Docs : row'[d] = (row[d] \/ d \in Batch[u])
    BY DEF Finalize
  <1>3. submission
    <2>1. CASE u \in Sims
      BY <2>1 DEF CanFinalize
    <2>2. CASE u \notin Sims
      BY <2>2 DEF CanFinalize, VaultInv, World
    <2> QED BY <2>1, <2>2
  <1>4. \A d \in Docs : row'[d] => file'[d] # "absent"
    BY <1>2 DEF VaultInv, World
  <1> QED BY <1>1, <1>2, <1>3, <1>4 DEF Frame

LEMMA CommitKeeps ==
  ASSUME VaultAssumption, VaultInv, VaultTyped', NEW u \in Uploads, UploadCommit(u) \/ SimCommit(u)
  PROVE  VaultInv'
  <1>0. /\ u \in Op /\ TypeOK /\ op[u] \in Ops /\ OpInv(u) /\ PC(u) = "write" /\ op[u].left = {}
        /\ u \notin Deletes /\ u \notin Removals /\ u \notin {"absent", "vault"}
        /\ op[u].docs = Batch[u] /\ Batch[u] \subseteq Docs /\ op[u].staged \subseteq op[u].docs
        /\ \A d \in Docs : file[d] # u
        /\ UNCHANGED <<files, job, settled, rec>>
    BY UploadFacts DEF UploadCommit, SimCommit, At, PC, OpInv, CallInv, TrashInv, Quiet
  <1>1. StaysFree(u)
    BY <1>0 DEF StaysFree, Free, Shielded, Guarded
  <1>2. ASSUME CanFinalize(u), Finalize(u), Close(u, "completed", TRUE), active' = active \ {u}, UNCHANGED late
        PROVE  Frame(u) /\ OpInv(u)'
    <2>0. Close(u, "completed", TRUE)
      BY <1>2
    <2>1. /\ op'[u].pc = "close" /\ op'[u].docs = op[u].docs /\ op'[u].left = op[u].left
          /\ op'[u].staged = op[u].staged /\ op'[u].wal /\ op'[u].lost = op[u].lost
          /\ op'[u].end = "completed"
          /\ \A q \in Op \ {u} : op'[q] = op[q]
      <3>1. /\ op'[u] = [op[u] EXCEPT !.pc = "close", !.end = "completed", !.wal = TRUE]
            /\ \A q \in Op \ {u} : op'[q] = op[q]
        BY <1>0, <2>0, Became DEF Close
      <3> QED BY <1>0, <3>1 DEF Ops
    <2>2. \A d \in Batch[u] : file[d] # "absent"
      BY <1>0, <1>2 DEF OpInv, FreshInv, CanFinalize
    <2>3. Frame(u) /\ \A d \in Batch[u] : row'[d]
      BY <1>0, <1>2, <2>1, <2>2, Recorded DEF Untouched, files
    <2>4. u \in landed'
      BY <1>2 DEF Finalize
    <2>5. CallInv(u)'
      BY <1>0, <1>2, <2>1 DEF OpInv, CallInv, PC
    <2>6. JobInv(u)'
      BY <1>0, <1>2, <2>1 DEF OpInv, JobInv, PC, Before, Guarded, Shielded, files
    <2>7. HeldInv(u)' /\ TrashInv(u)'
      BY <1>0, <2>1, <2>3 DEF HeldInv, TrashInv, PC, Held, Loose, files
    <2> QED BY <2>3, <2>4, <2>5, <2>6, <2>7 DEF OpInv, FreshInv
  <1>3. ASSUME UNCHANGED <<submission, landed, request, row>>,
               \/ late' = late /\ active' \in {active, active \ {u}}
               \/ late' = Sent(u) /\ active' \in {active, active \ {u}},
               op'[u].docs = op[u].docs, op'[u].left \in {{}, op[u].docs}, op'[u].staged = op[u].staged,
               op'[u].wal = op[u].wal, op'[u].lost => LostReplies /\ u \notin Sims,
               \A q \in Op \ {u} : op'[q] = op[q],
               \/ op'[u].pc = "write" /\ op'[u].lost /\ op'[u].left = {}
               \/ op'[u].pc \in {"inspect", "done"}
               \/ op'[u].pc = "undo" /\ op'[u].left = op[u].docs /\ (u \in late' => u \in landed),
               op'[u].pc # "done" => UNCHANGED active
        PROVE  Frame(u) /\ OpInv(u)'
    <2>1. Frame(u)
      BY <1>0, <1>3, Alone DEF Untouched, files, Sent
    <2>2. CallInv(u)'
      BY <1>0, <1>3 DEF OpInv, CallInv, PC, Sent
    <2>3. JobInv(u)'
      BY <1>0, <1>3 DEF OpInv, JobInv, PC, Before, Guarded, Shielded, files
    <2>4. HeldInv(u)' /\ TrashInv(u)'
      BY <1>0, <1>3 DEF OpInv, JobInv, HeldInv, TrashInv, PC, Held, Loose, Plain, files
    <2>5. FreshInv(u)'
      BY <1>0, <1>3 DEF OpInv, FreshInv, PC, files
    <2> QED BY <2>1, <2>2, <2>3, <2>4, <2>5 DEF OpInv
  <1>4. u \in late /\ u \notin landed => op[u].lost
    BY <1>0 DEF OpInv, FreshInv
  <1>c. op[u].lost => LostReplies /\ u \notin Sims
    BY <1>0 DEF OpInv, CallInv
  <1>5. CASE UploadCommit(u)
    <2>1. ASSUME UNCHANGED <<store, active>>,
                 Becomes(u, [op[u] EXCEPT !.pc = IF op[u].lost THEN "inspect" ELSE "undo",
                                          !.left = op[u].docs])
          PROVE  Frame(u) /\ OpInv(u)'
      <3>1. /\ op'[u].pc = (IF op[u].lost THEN "inspect" ELSE "undo") /\ op'[u].left = op[u].docs
            /\ op'[u].lost = op[u].lost /\ op'[u].docs = op[u].docs
            /\ op'[u].staged = op[u].staged /\ op'[u].wal = op[u].wal
            /\ \A q \in Op \ {u} : op'[q] = op[q]
        <4>1. op'[u] = [op[u] EXCEPT !.pc = IF op[u].lost THEN "inspect" ELSE "undo",
                                     !.left = op[u].docs]
              /\ \A q \in Op \ {u} : op'[q] = op[q]
          BY <1>0, <2>1, Became
        <4> QED BY <1>0, <4>1 DEF Ops
      <3> QED BY <1>3, <1>4, <1>c, <2>1, <3>1 DEF store
    <2>2. ASSUME late' = IF LostReplies THEN Sent(u) ELSE late,
                 Becomes(u, [op[u] EXCEPT !.pc = IF ~LostReplies THEN "undo"
                                                 ELSE IF op[u].lost THEN "inspect" ELSE "write",
                                          !.left = IF LostReplies /\ ~op[u].lost THEN {} ELSE op[u].docs,
                                          !.lost = LostReplies]),
                 UNCHANGED <<submission, landed, request, row, active>>
          PROVE  Frame(u) /\ OpInv(u)'
      <3>1. /\ op'[u].pc = (IF ~LostReplies THEN "undo" ELSE IF op[u].lost THEN "inspect" ELSE "write")
            /\ op'[u].left = (IF LostReplies /\ ~op[u].lost THEN {} ELSE op[u].docs)
            /\ op'[u].lost = LostReplies /\ op'[u].docs = op[u].docs
            /\ op'[u].staged = op[u].staged /\ op'[u].wal = op[u].wal
            /\ \A q \in Op \ {u} : op'[q] = op[q]
        <4>1. op'[u] = [op[u] EXCEPT !.pc = IF ~LostReplies THEN "undo"
                                            ELSE IF op[u].lost THEN "inspect" ELSE "write",
                                     !.left = IF LostReplies /\ ~op[u].lost THEN {} ELSE op[u].docs,
                                     !.lost = LostReplies]
              /\ \A q \in Op \ {u} : op'[q] = op[q]
          BY <1>0, <2>2, Became
        <4> QED BY <1>0, <4>1 DEF Ops
      <3>2. u \notin Sims /\ LostReplies \in BOOLEAN
        BY <1>5 DEF UploadCommit, VaultAssumption
      <3> QED BY <1>3, <1>4, <1>c, <2>2, <3>1, <3>2
    <2>3. Frame(u) /\ OpInv(u)'
      BY <1>2, <1>5, <2>1, <2>2 DEF UploadCommit
    <2> QED BY <1>0, <1>1, <2>3, StepKeeps
  <1>6. CASE SimCommit(u)
    <2>1. ASSUME UNCHANGED <<store, active>>, Becomes(u, [op[u] EXCEPT !.pc = "undo", !.left = op[u].docs])
          PROVE  Frame(u) /\ OpInv(u)'
      <3>1. /\ op'[u].pc = "undo" /\ op'[u].left = op[u].docs
            /\ op'[u].lost = op[u].lost /\ op'[u].docs = op[u].docs
            /\ op'[u].staged = op[u].staged /\ op'[u].wal = op[u].wal
            /\ \A q \in Op \ {u} : op'[q] = op[q]
        <4>1. op'[u] = [op[u] EXCEPT !.pc = "undo",
                                     !.left = op[u].docs]
              /\ \A q \in Op \ {u} : op'[q] = op[q]
          BY <1>0, <2>1, Became
        <4> QED BY <1>0, <4>1 DEF Ops
      <3>2. u \in Sims
        BY <1>6 DEF SimCommit
      <3> QED BY <1>3, <1>4, <1>c, <2>1, <3>1, <3>2 DEF store
    <2>2. ASSUME late' = IF LostReplies THEN Sent(u) ELSE late, Goto(u, "done"),
                 active' = active \ {u}, UNCHANGED <<submission, landed, request, row>>
          PROVE  Frame(u) /\ OpInv(u)'
      <3>1. /\ op'[u].pc = "done" /\ op'[u].left = op[u].left
            /\ op'[u].lost = op[u].lost /\ op'[u].docs = op[u].docs
            /\ op'[u].staged = op[u].staged /\ op'[u].wal = op[u].wal
            /\ \A q \in Op \ {u} : op'[q] = op[q]
        BY <1>0, <2>2, Moved
      <3> QED BY <1>0, <1>3, <1>c, <2>2, <3>1
    <2>3. Frame(u) /\ OpInv(u)'
      BY <1>2, <1>6, <2>1, <2>2 DEF SimCommit
    <2> QED BY <1>0, <1>1, <2>3, StepKeeps
  <1> QED BY <1>5, <1>6

LEMMA UploadInspectKeeps ==
  ASSUME VaultAssumption, VaultInv, VaultTyped', NEW u \in Uploads, UploadInspect(u) PROVE VaultInv'
  <1>0. /\ u \in Op /\ TypeOK /\ op[u] \in Ops /\ OpInv(u) /\ PC(u) = "inspect"
        /\ u \notin Deletes /\ u \notin Removals
        /\ op[u].docs = Batch[u] /\ \A d \in Docs : file[d] # u
        /\ UNCHANGED <<store, files, job, active, settled, rec>>
    BY UploadFacts DEF UploadInspect, At, PC, OpInv, CallInv, TrashInv, Quiet
  <1>1. /\ \/ op'[u].pc = "preserve" /\ op'[u].left = op[u].docs
           \/ op'[u].pc = "close" /\ op'[u].left = op[u].left /\ \A d \in op[u].docs : row[d]
        /\ op'[u].docs = op[u].docs /\ op'[u].staged = op[u].staged /\ op'[u].wal
        /\ op'[u].lost = op[u].lost
        /\ \A q \in Op \ {u} : op'[q] = op[q]
    <2>1. \/ Becomes(u, [op[u] EXCEPT !.pc = "preserve", !.left = op[u].docs])
          \/ (\A d \in op[u].docs : row[d]) /\ Close(u, "completed", TRUE)
      BY DEF UploadInspect
    <2>2. CASE Becomes(u, [op[u] EXCEPT !.pc = "preserve", !.left = op[u].docs])
      <3>1. op'[u] = [op[u] EXCEPT !.pc = "preserve", !.left = op[u].docs] /\ \A q \in Op \ {u} : op'[q] = op[q]
        BY <1>0, <2>2, Became
      <3>2. op[u].wal
        BY <1>0 DEF OpInv, CallInv
      <3> QED BY <1>0, <3>1, <3>2 DEF Ops
    <2>3. CASE (\A d \in op[u].docs : row[d]) /\ Close(u, "completed", TRUE)
      <3>1. Close(u, "completed", TRUE)
        BY <2>3
      <3> QED BY <1>0, <2>3, <3>1, Closed
    <2> QED BY <2>1, <2>2, <2>3
  <1>2. Frame(u)
    BY <1>0, <1>1, Alone DEF Untouched, files, store
  <1>3. StaysFree(u)
    BY <1>0 DEF StaysFree, Free, Shielded, Guarded
  <1>4. OpInv(u)'
    <2>1. CallInv(u)'
      BY <1>0, <1>1 DEF OpInv, CallInv, PC, store
    <2>2. JobInv(u)'
      BY <1>0, <1>1 DEF OpInv, JobInv, PC, Before, Guarded, Shielded, files, store
    <2>3. HeldInv(u)' /\ TrashInv(u)'
      BY <1>0, <1>1 DEF OpInv, JobInv, HeldInv, TrashInv, PC, Held, Loose, Plain, files, store
    <2>4. FreshInv(u)'
      BY <1>0, <1>1 DEF OpInv, FreshInv, PC, files, store
    <2> QED BY <2>1, <2>2, <2>3, <2>4 DEF OpInv
  <1> QED BY <1>0, <1>2, <1>3, <1>4, StepKeeps

LEMMA UploadPreserveKeeps ==
  ASSUME VaultAssumption, VaultInv, VaultTyped', NEW u \in Uploads, UploadPreserve(u) PROVE VaultInv'
  <1>0. /\ u \in Op /\ TypeOK /\ op[u] \in Ops /\ OpInv(u) /\ PC(u) = "preserve"
        /\ u \notin Deletes /\ u \notin Removals /\ u \notin {"absent", "vault"}
        /\ op[u].docs = Batch[u] /\ op[u].left \subseteq op[u].docs /\ op[u].docs \subseteq Docs
        /\ UNCHANGED <<store, sidecar, job, active, settled, rec>>
    BY UploadFacts DEF UploadPreserve, At, PC, OpInv, CallInv, Quiet
  <1>1. /\ op'[u].pc = "preserve" \/ (op'[u].pc = "close" /\ op'[u].end = "pending")
        /\ op'[u].left \subseteq op[u].left
        /\ op'[u].docs = op[u].docs /\ op'[u].staged = op[u].staged /\ op'[u].wal
        /\ op'[u].lost = op[u].lost
        /\ \A d \in Docs : file'[d] = file[d] \/ (d \in op[u].docs /\ file'[d] = u)
        /\ \A q \in Op \ {u} : op'[q] = op[q]
    <2>0. op[u].wal
      BY <1>0 DEF OpInv, CallInv
    <2>1. CASE \E d \in op[u].left :
                 /\ \/ PutFile(d, IF file[d] = "vault" THEN u ELSE file[d])
                    \/ UNCHANGED file
                 /\ Becomes(u, [op[u] EXCEPT !.left = @ \ {d}])
      <3>1. PICK d \in op[u].left :
                 /\ \/ PutFile(d, IF file[d] = "vault" THEN u ELSE file[d])
                    \/ UNCHANGED file
                 /\ Becomes(u, [op[u] EXCEPT !.left = @ \ {d}])
        BY <2>1
      <3>2. op'[u] = [op[u] EXCEPT !.left = @ \ {d}] /\ \A q \in Op \ {u} : op'[q] = op[q]
        BY <1>0, <3>1, Became
      <3>3. \A e \in Docs : file'[e] = file[e] \/ (e \in op[u].docs /\ file'[e] = u)
        BY <1>0, <3>1 DEF PutFile, TypeOK
      <3> QED BY <1>0, <2>0, <3>2, <3>3 DEF Ops, PC
    <2>2. CASE Close(u, "pending", TRUE) /\ UNCHANGED file
      <3>1. Close(u, "pending", TRUE)
        BY <2>2
      <3> QED BY <1>0, <2>2, <3>1, Closed
    <2> QED BY <2>1, <2>2 DEF UploadPreserve
  <1>2. Frame(u)
    BY <1>0, <1>1 DEF Frame, Untouched, store, VaultInv, World
  <1>3. StaysFree(u)
    BY <1>0 DEF StaysFree, Free, Shielded, Guarded
  <1>4. OpInv(u)'
    <2>1. CallInv(u)'
      BY <1>0, <1>1 DEF OpInv, CallInv, PC, store
    <2>2. JobInv(u)'
      BY <1>0, <1>1 DEF OpInv, JobInv, PC, Before, Guarded, Shielded, store
    <2>3. HeldInv(u)' /\ TrashInv(u)'
      BY <1>0, <1>1 DEF OpInv, JobInv, HeldInv, TrashInv, Guarded, Shielded, PC, Held, Loose, Plain, store
    <2>4. FreshInv(u)'
      BY <1>0, <1>1 DEF OpInv, FreshInv, PC, store
    <2> QED BY <2>1, <2>2, <2>3, <2>4 DEF OpInv
  <1> QED BY <1>0, <1>2, <1>3, <1>4, StepKeeps

LEMMA UploadUndoKeeps ==
  ASSUME VaultAssumption, VaultInv, VaultTyped', NEW u \in Uploads, UploadUndo(u) PROVE VaultInv'
  <1>0. /\ u \in Op /\ TypeOK /\ op[u] \in Ops /\ OpInv(u) /\ PC(u) = "undo"
        /\ u \notin Deletes /\ u \notin Removals /\ u \notin {"absent", "vault"}
        /\ op[u].docs = Batch[u] /\ op[u].left \subseteq op[u].docs /\ op[u].docs \subseteq Docs
        /\ op[u].wal /\ \A d \in Docs : file[d] # u
        /\ UNCHANGED <<submission, landed, request, late, sidecar, job, active, settled, rec>>
    BY UploadFacts DEF UploadUndo, At, PC, OpInv, CallInv, TrashInv, Quiet
  <1>1. /\ \/ /\ op'[u].pc = "undo"
              /\ \E d \in op[u].left :
                   /\ op'[u].left = op[u].left \ {d} /\ ~row'[d]
                   /\ \A e \in Docs \ {d} : file'[e] = file[e] /\ row'[e] = row[e]
                   /\ \/ file'[d] \in {file[d], "absent"} /\ file'[d] # "vault"
                         /\ op'[u].failed = op[u].failed
                      \/ file'[d] = file[d] /\ op'[u].failed
           \/ /\ op'[u].pc = "reset" /\ op[u].left = {} /\ op'[u].left = {}
              /\ op'[u].failed = op[u].failed /\ UNCHANGED <<row, file>>
        /\ op'[u].docs = op[u].docs /\ op'[u].staged = op[u].staged /\ op'[u].wal
        /\ op'[u].lost = op[u].lost
        /\ \A q \in Op \ {u} : op'[q] = op[q]
    <2>1. CASE \E d \in op[u].left :
             /\ row' = [row EXCEPT ![d] = FALSE]
             /\ \/ /\ PutFile(d, IF file[d] = "vault" THEN "absent" ELSE file[d])
                   /\ Becomes(u, [op[u] EXCEPT !.left = @ \ {d}])
                \/ /\ UNCHANGED file
                   /\ Becomes(u, [op[u] EXCEPT !.left = @ \ {d}, !.failed = TRUE])
      <3>1. PICK d \in op[u].left :
             /\ row' = [row EXCEPT ![d] = FALSE]
             /\ \/ /\ PutFile(d, IF file[d] = "vault" THEN "absent" ELSE file[d])
                   /\ Becomes(u, [op[u] EXCEPT !.left = @ \ {d}])
                \/ /\ UNCHANGED file
                   /\ Becomes(u, [op[u] EXCEPT !.left = @ \ {d}, !.failed = TRUE])
        BY <2>1
      <3>2. ~row'[d] /\ \A e \in Docs \ {d} : row'[e] = row[e]
        BY <1>0, <3>1 DEF TypeOK
      <3>3. CASE /\ PutFile(d, IF file[d] = "vault" THEN "absent" ELSE file[d])
                 /\ Becomes(u, [op[u] EXCEPT !.left = @ \ {d}])
        <4>1. op'[u] = [op[u] EXCEPT !.left = @ \ {d}] /\ \A q \in Op \ {u} : op'[q] = op[q]
          BY <1>0, <3>3, Became
        <4>2. /\ file'[d] \in {file[d], "absent"} /\ file'[d] # "vault"
              /\ \A e \in Docs \ {d} : file'[e] = file[e]
          BY <1>0, <3>3 DEF TypeOK, PutFile
        <4>3. /\ op'[u].pc = "undo" /\ op'[u].left = op[u].left \ {d} /\ op'[u].failed = op[u].failed
              /\ op'[u].docs = op[u].docs /\ op'[u].staged = op[u].staged /\ op'[u].wal = op[u].wal
              /\ op'[u].lost = op[u].lost
          BY <1>0, <4>1 DEF Ops, PC
        <4> QED BY <1>0, <3>1, <3>2, <4>1, <4>2, <4>3
      <3>4. CASE /\ UNCHANGED file
                 /\ Becomes(u, [op[u] EXCEPT !.left = @ \ {d}, !.failed = TRUE])
        <4>1. op'[u] = [op[u] EXCEPT !.left = @ \ {d}, !.failed = TRUE] /\ \A q \in Op \ {u} : op'[q] = op[q]
          BY <1>0, <3>4, Became
        <4>2. /\ op'[u].pc = "undo" /\ op'[u].left = op[u].left \ {d} /\ op'[u].failed
              /\ op'[u].docs = op[u].docs /\ op'[u].staged = op[u].staged /\ op'[u].wal = op[u].wal
              /\ op'[u].lost = op[u].lost
          BY <1>0, <4>1 DEF Ops, PC
        <4> QED BY <1>0, <3>1, <3>2, <3>4, <4>1, <4>2
      <3> QED BY <3>1, <3>3, <3>4
    <2>2. CASE op[u].left = {} /\ Goto(u, "reset") /\ UNCHANGED <<row, file>>
      BY <1>0, <2>2, Moved
    <2> QED BY <2>1, <2>2 DEF UploadUndo
  <1>2. Frame(u)
    <2>1. \A d \in Docs : row'[d] => row[d] /\ file'[d] = file[d]
      BY <1>0, <1>1
    <2>2. \A d \in Docs : d \notin op[u].docs => row'[d] = row[d] /\ file'[d] = file[d]
      BY <1>0, <1>1
    <2>3. \A d \in Docs : file'[d] \in {file[d], "absent"}
      BY <1>0, <1>1
    <2> QED BY <1>0, <1>1, <2>1, <2>2, <2>3 DEF Frame, Untouched, VaultInv, World
  <1>3. StaysFree(u)
    BY <1>0 DEF StaysFree, Free, Shielded, Guarded
  <1>4. OpInv(u)'
    <2>0. \A d \in Docs : file'[d] # u
      BY <1>0, <1>1
    <2>1. CallInv(u)'
      <3>1. op'[u].left \subseteq op[u].left
        BY <1>0, <1>1
      <3> QED BY <1>0, <1>1, <3>1 DEF OpInv, CallInv, PC
    <2>2. JobInv(u)'
      BY <1>0, <1>1 DEF OpInv, JobInv, PC, Before, Guarded, Shielded
    <2>3. HeldInv(u)' /\ TrashInv(u)'
      <3>1. \A d \in Docs : Loose(u, d)' =>
               (op'[u].pc = "undo" => d \in op'[u].left \/ op'[u].failed) /\ (op'[u].pc = "reset" => op'[u].failed)
        <4> SUFFICES ASSUME NEW d \in Docs, Loose(u, d)'
                     PROVE (op'[u].pc = "undo" => d \in op'[u].left \/ op'[u].failed)
                           /\ (op'[u].pc = "reset" => op'[u].failed)
          OBVIOUS
        <4>1. Plain /\ d \in op[u].docs /\ file'[d] = "vault" /\ ~row'[d]
          BY <1>0 DEF Loose, Plain
        <4>2. CASE d \in op[u].left
          BY <1>1, <4>1, <4>2
        <4>3. CASE d \notin op[u].left
          <5>1. file[d] = "vault" /\ ~row[d]
            BY <1>1, <4>1, <4>3
          <5>2. op[u].failed
            BY <1>0, <4>1, <4>3, <5>1 DEF OpInv, HeldInv, Held, Loose
          <5> QED BY <1>1, <5>2
        <4> QED BY <4>2, <4>3
      <3> QED BY <1>0, <1>1, <2>0, <3>1 DEF OpInv, JobInv, HeldInv, TrashInv, Guarded, Shielded, PC, Held, Loose
    <2>4. FreshInv(u)'
      BY <1>0, <1>1 DEF OpInv, FreshInv, PC
    <2> QED BY <2>1, <2>2, <2>3, <2>4 DEF OpInv
  <1> QED BY <1>0, <1>2, <1>3, <1>4, StepKeeps

LEMMA UploadResetKeeps ==
  ASSUME VaultAssumption, VaultInv, VaultTyped', NEW u \in Uploads, UploadReset(u) PROVE VaultInv'
  <1>0. /\ u \in Op /\ TypeOK /\ op[u] \in Ops /\ OpInv(u) /\ PC(u) = "reset"
        /\ u \notin Deletes /\ u \notin Removals /\ \A d \in Docs : file[d] # u
        /\ UNCHANGED <<submission, landed, row, late, files, job, active, settled, rec>>
    BY UploadFacts DEF UploadReset, At, PC, OpInv, CallInv, TrashInv, Quiet
  <1>1. /\ op'[u].pc = "close" /\ op'[u].left = op[u].left /\ (op[u].failed => op'[u].end = "pending")
        /\ op'[u].docs = op[u].docs /\ op'[u].staged = op[u].staged /\ op'[u].wal
        /\ op'[u].lost = op[u].lost
        /\ \A q \in Op \ {u} : op'[q] = op[q]
    <2>1. Close(u, IF op[u].failed THEN "pending" ELSE "completed", TRUE)
      BY DEF UploadReset
    <2>2. /\ op'[u] = [op[u] EXCEPT !.pc = "close", !.end = IF op[u].failed THEN "pending" ELSE "completed",
                                    !.wal = TRUE]
          /\ \A q \in Op \ {u} : op'[q] = op[q]
      BY <1>0, <2>1, Became DEF Close
    <2> QED BY <1>0, <2>2 DEF Ops
  <1>2. Frame(u)
    <2>1. request.status = "gone" => request'.status = "gone"
      BY DEF UploadReset, Reset
    <2> QED BY <1>0, <1>1, <2>1, Alone DEF Untouched, files
  <1>3. StaysFree(u)
    BY <1>0 DEF StaysFree, Free, Shielded, Guarded
  <1>4. OpInv(u)'
    <2>1. CallInv(u)'
      BY <1>0, <1>1 DEF OpInv, CallInv, PC
    <2>2. JobInv(u)'
      BY <1>0, <1>1 DEF OpInv, JobInv, PC, Before, Guarded, Shielded, files
    <2>3. HeldInv(u)' /\ TrashInv(u)'
      BY <1>0, <1>1 DEF OpInv, JobInv, HeldInv, TrashInv, PC, Held, Loose, Plain, files
    <2>4. FreshInv(u)'
      BY <1>0, <1>1 DEF OpInv, FreshInv, PC
    <2> QED BY <2>1, <2>2, <2>3, <2>4 DEF OpInv
  <1> QED BY <1>0, <1>2, <1>3, <1>4, StepKeeps

(* The last update leaves the job pending when a file is still held. *)
LEMMA ConcludeKeeps ==
  ASSUME VaultAssumption, VaultInv, VaultTyped', NEW o \in Op, Conclude(o) PROVE VaultInv'
  <1>0. /\ TypeOK /\ op[o] \in Ops /\ OpInv(o) /\ PC(o) = "close" /\ o \notin {"absent", "vault"}
        /\ UNCHANGED <<store, file, settled, rec>> /\ active' = active \ {o}
        /\ UpdateJob(o, op[o].end, op[o].wal)
    BY DEF VaultInv, VaultTyped, TypeOK, VaultAssumption, Conclude, At, PC, Quiet
  <1>1. /\ op'[o].pc = "done" /\ op'[o].left = op[o].left
        /\ op'[o].docs = op[o].docs /\ op'[o].staged = op[o].staged /\ op'[o].wal = op[o].wal
        /\ op'[o].lost = op[o].lost
        /\ \A q \in Op \ {o} : op'[q] = op[q]
    BY <1>0, Moved DEF Conclude
  <1>a. /\ \/ job'[o].status = op[o].end /\ job'[o].wal = op[o].wal /\ sidecar'[o] = sidecar[o]
           \/ sidecar'[o].status = op[o].end /\ sidecar'[o].wal = op[o].wal /\ job'[o] = job[o]
           \/ job'[o] = job[o] /\ sidecar'[o] = sidecar[o]
        /\ \A q \in Op \ {o} : job'[q] = job[q] /\ sidecar'[q] = sidecar[q]
    BY <1>0, Updated
  <1>2. Frame(o)
    BY <1>0, <1>1, <1>a, Alone DEF Untouched, store
  <1>3. StaysFree(o)
    BY <1>0, <1>1 DEF StaysFree, Free, Before, Shielded, Guarded, PC, Held, Loose, Plain, store
  <1>4. OpInv(o)'
    <2>1. CallInv(o)'
      BY <1>0, <1>1 DEF OpInv, CallInv, Known, PC, store
    <2>2. JobInv(o)'
      BY <1>0, <1>1, <1>a DEF OpInv, CallInv, JobInv, PC, Before, Guarded, Shielded, Running
    <2>3. HeldInv(o)' /\ TrashInv(o)'
      BY <1>0, <1>1, <1>a DEF OpInv, HeldInv, TrashInv, PC, Held, Loose, Plain, store, Terminal
    <2>4. FreshInv(o)'
      BY <1>0, <1>1 DEF OpInv, FreshInv, PC, store
    <2> QED BY <2>1, <2>2, <2>3, <2>4 DEF OpInv
  <1> QED BY <1>0, <1>2, <1>3, <1>4, StepKeeps

LEMMA UploadStepKeeps ==
  ASSUME VaultAssumption, VaultInv, VaultTyped', NEW u \in Uploads, UploadStep(u) PROVE VaultInv'
  BY UploadFacts, UploadReadKeeps, SimReadKeeps, UploadClaimKeeps, UploadIntentKeeps, UploadWriteKeeps,
     CommitKeeps, UploadInspectKeeps, UploadPreserveKeeps, UploadUndoKeeps, UploadResetKeeps,
     ConcludeKeeps DEF UploadStep

-----------------------------------------------------------------------------
(* The steps of the deletion of a document keep the invariant. *)

LEMMA DeleteFacts ==
  ASSUME VaultAssumption, VaultInv, NEW x \in Deletes
  PROVE  /\ x \in Op /\ x \notin Uploads /\ x \notin Removals /\ x \notin Sims
         /\ x \notin {"absent", "vault"} /\ ~Plain
         /\ TypeOK /\ op[x] \in Ops /\ OpInv(x) /\ op[x].docs \subseteq Docs
  BY DEF VaultAssumption, VaultInv, VaultTyped, TypeOK, Op, Ops, Plain

LEMMA DeleteReadKeeps ==
  ASSUME VaultAssumption, VaultInv, VaultTyped', NEW x \in Deletes, DeleteRead(x) PROVE VaultInv'
  <1>0. /\ PC(x) = "idle" /\ op[x].left = {} /\ op[x].staged = {}
        /\ UNCHANGED <<store, files, job, active, settled, rec>>
    BY DeleteFacts DEF DeleteRead, At, PC, Quiet, OpInv, CallInv
  <1>1. PICK d \in Docs : row[d] /\ Becomes(x, [op[x] EXCEPT !.pc = "intent", !.docs = {d}])
    BY DEF DeleteRead
  <1>2. /\ op'[x].pc = "intent" /\ op'[x].docs = {d} /\ op'[x].left = {} /\ op'[x].staged = {}
        /\ op'[x].lost = op[x].lost
        /\ \A q \in Op \ {x} : op'[q] = op[q]
    <2>1. op'[x] = [op[x] EXCEPT !.pc = "intent", !.docs = {d}] /\ \A q \in Op \ {x} : op'[q] = op[q]
      BY <1>1, DeleteFacts, Became
    <2> QED BY <1>0, <2>1, DeleteFacts DEF Ops
  <1>3. Frame(x)
    BY <1>0, <1>2, DeleteFacts, Alone DEF Untouched, files, store
  <1>4. StaysFree(x)
    BY <1>0 DEF StaysFree, Free, Before
  <1>5. OpInv(x)'
    <2>1. Known(d)
      BY <1>1 DEF VaultInv, World
    <2>2. CallInv(x)'
      BY <1>0, <1>2, <2>1, DeleteFacts DEF OpInv, CallInv, Known, PC, store
    <2>3. JobInv(x)'
      BY <1>0, <1>2, DeleteFacts DEF OpInv, JobInv, PC, Before, Guarded, Shielded, files, store
    <2>4. HeldInv(x)' /\ TrashInv(x)' /\ FreshInv(x)'
      BY <1>0, <1>2, DeleteFacts DEF OpInv, JobInv, HeldInv, TrashInv, FreshInv, PC, Before, files, Held, Loose,
                                     NoSidecar
    <2> QED BY <2>2, <2>3, <2>4 DEF OpInv
  <1> QED BY <1>0, <1>3, <1>4, <1>5, DeleteFacts, StepKeeps

LEMMA DeleteIntentKeeps ==
  ASSUME VaultAssumption, VaultInv, VaultTyped', NEW x \in Deletes, DeleteIntent(x) PROVE VaultInv'
  <1>0. PC(x) = "intent" /\ UNCHANGED <<store, file, settled, rec>>
    BY DeleteFacts DEF DeleteIntent, At, PC, Quiet
  <1>a. /\ active' = active \cup {x} /\ Goto(x, "stage")
        /\ \/ job'[x].status = "pending" /\ job'[x].wal /\ sidecar'[x] = sidecar[x]
           \/ sidecar'[x].status = "pending" /\ sidecar'[x].wal /\ job'[x] = job[x]
        /\ \A q \in Op \ {x} : job'[q] = job[q] /\ sidecar'[q] = sidecar[q]
    BY DeleteFacts, Persisted DEF DeleteIntent
  <1>1. /\ op'[x].pc = "stage" /\ op'[x].docs = op[x].docs /\ op'[x].left = op[x].left
        /\ op'[x].staged = op[x].staged /\ op'[x].lost = op[x].lost
        /\ \A q \in Op \ {x} : op'[q] = op[q]
    BY <1>a, DeleteFacts, Moved
  <1>2. Frame(x)
    BY <1>0, <1>1, <1>a, DeleteFacts, Alone DEF Untouched, store
  <1>3. StaysFree(x)
    BY <1>0 DEF StaysFree, Free, Before
  <1>4. OpInv(x)'
    <2>1. CallInv(x)'
      BY <1>0, <1>1, DeleteFacts DEF OpInv, CallInv, Known, PC, store
    <2>2. JobInv(x)'
      BY <1>0, <1>1, <1>a, DeleteFacts DEF OpInv, JobInv, PC, Before, Guarded, Shielded, NoSidecar, Terminal, store
    <2>3. HeldInv(x)' /\ TrashInv(x)' /\ FreshInv(x)'
      BY <1>0, <1>1, <1>a, DeleteFacts DEF OpInv, JobInv, HeldInv, TrashInv, FreshInv, PC, Before, Held, Loose,
                                           NoSidecar, Plain
    <2> QED BY <2>1, <2>2, <2>3 DEF OpInv
  <1> QED BY <1>0, <1>2, <1>3, <1>4, DeleteFacts, StepKeeps

LEMMA DeleteStageKeeps ==
  ASSUME VaultAssumption, VaultInv, VaultTyped', NEW x \in Deletes, DeleteStage(x) PROVE VaultInv'
  <1>0. /\ PC(x) = "stage" /\ UNCHANGED <<store, job, active, settled, rec>>
        /\ \A d \in Docs : file[d] # x
    BY DeleteFacts DEF DeleteStage, At, PC, Quiet, OpInv, TrashInv
  <1>1. PICK d \in op[x].docs :
          \/ /\ file[d] = "vault" /\ PutFile(d, x)
             /\ Becomes(x, [op[x] EXCEPT !.pc = "commit", !.staged = {d}])
             /\ UNCHANGED sidecar
          \/ file[d] # "vault" /\ Goto(x, "commit") /\ UNCHANGED files
          \/ /\ Close(x, "restored", TRUE)
             /\ sidecar' = [sidecar EXCEPT ![x] = NoSidecar] /\ UNCHANGED file
    BY DEF DeleteStage
  <1>2. /\ op'[x].docs = op[x].docs /\ op'[x].left = op[x].left /\ op'[x].staged \subseteq op[x].docs
        /\ op'[x].lost = op[x].lost
        /\ \A q \in Op \ {x} : op'[q] = op[q] /\ sidecar'[q] = sidecar[q]
        /\ \/ op'[x].pc = "commit" /\ sidecar'[x] = sidecar[x]
           \/ op'[x].pc = "close" /\ UNCHANGED file
        /\ \A e \in Docs : file'[e] = file[e] \/ (e \in op[x].docs /\ file'[e] = x)
    <2>0. op[x].staged \subseteq op[x].docs
      BY DeleteFacts DEF OpInv, CallInv
    <2>1. CASE /\ file[d] = "vault" /\ PutFile(d, x)
               /\ Becomes(x, [op[x] EXCEPT !.pc = "commit", !.staged = {d}])
               /\ UNCHANGED sidecar
      <3>1. op'[x] = [op[x] EXCEPT !.pc = "commit", !.staged = {d}] /\ \A q \in Op \ {x} : op'[q] = op[q]
        BY <2>1, DeleteFacts, Became
      <3>2. \A e \in Docs : file'[e] = file[e] \/ (e \in op[x].docs /\ file'[e] = x)
        BY <1>1, <2>1, DeleteFacts DEF PutFile, TypeOK
      <3>3. /\ op'[x].docs = op[x].docs /\ op'[x].left = op[x].left /\ op'[x].staged = {d}
            /\ op'[x].lost = op[x].lost /\ op'[x].pc = "commit"
        BY <3>1, DeleteFacts DEF Ops
      <3> QED BY <1>1, <2>1, <3>1, <3>2, <3>3
    <2>2. CASE file[d] # "vault" /\ Goto(x, "commit") /\ UNCHANGED files
      BY <2>0, <2>2, DeleteFacts, Moved DEF files
    <2>3. CASE /\ Close(x, "restored", TRUE)
               /\ sidecar' = [sidecar EXCEPT ![x] = NoSidecar] /\ UNCHANGED file
      <3>1. \A q \in Op \ {x} : sidecar'[q] = sidecar[q]
        BY <2>3, DeleteFacts DEF TypeOK
      <3>2. Close(x, "restored", TRUE)
        BY <2>3
      <3> QED BY <2>0, <2>3, <3>1, <3>2, DeleteFacts, Closed
    <2> QED BY <1>1, <2>1, <2>2, <2>3
  <1>3. Frame(x)
    BY <1>0, <1>2, DeleteFacts DEF Frame, Untouched, store, VaultInv, World
  <1>4. StaysFree(x)
    BY <1>0 DEF StaysFree, Free, Shielded, Guarded
  <1>5. OpInv(x)'
    <2>1. CallInv(x)'
      BY <1>0, <1>2, DeleteFacts DEF OpInv, CallInv, Known, PC, store
    <2>2. JobInv(x)'
      BY <1>0, <1>2, DeleteFacts DEF OpInv, JobInv, PC, Before, Guarded, Shielded, store
    <2>3. HeldInv(x)' /\ TrashInv(x)' /\ FreshInv(x)'
      BY <1>0, <1>2, DeleteFacts DEF OpInv, JobInv, HeldInv, TrashInv, FreshInv, Guarded, Shielded, PC, Held, Loose
    <2> QED BY <2>1, <2>2, <2>3 DEF OpInv
  <1> QED BY <1>0, <1>3, <1>4, <1>5, DeleteFacts, StepKeeps

LEMMA DeleteCommitKeeps ==
  ASSUME VaultAssumption, VaultInv, VaultTyped', NEW x \in Deletes, DeleteCommit(x) PROVE VaultInv'
  <1>0. /\ PC(x) = "commit" /\ UNCHANGED <<submission, landed, request, files, job, settled, rec>>
    BY DeleteFacts DEF DeleteCommit, At, PC, Quiet
  <1>1. /\ op'[x].docs = op[x].docs /\ op'[x].left = op[x].left /\ op'[x].staged = op[x].staged
        /\ op'[x].lost => op[x].lost \/ LostReplies
        /\ \A q \in Op \ {x} : op'[q] = op[q]
        /\ \/ op'[x].pc = "commit" /\ active' = active
           \/ op'[x].pc \in {"purge", "inspect"} /\ active' = active \ {x}
        /\ op'[x].pc = "purge" => \A d \in op[x].docs : ~row'[d]
        /\ \A d \in Docs : row'[d] => row[d]
        /\ late' = late \/ late' = Sent(x)
    <2>1. CASE /\ row' = [d \in Docs |-> row[d] /\ d \notin op[x].docs]
               /\ Goto(x, IF \E d \in op[x].docs : row[d] THEN "purge" ELSE "inspect")
               /\ active' = active \ {x} /\ UNCHANGED late
      <3>1. \A d \in Docs : row'[d] => row[d] /\ d \notin op[x].docs
        BY <2>1
      <3>2. op'[x].pc \in {"purge", "inspect"}
        BY <2>1, DeleteFacts, Moved
      <3>3. /\ op'[x].docs = op[x].docs /\ op'[x].left = op[x].left /\ op'[x].staged = op[x].staged
            /\ op'[x].lost = op[x].lost /\ \A q \in Op \ {x} : op'[q] = op[q]
        BY <2>1, DeleteFacts, Moved
      <3> QED BY <2>1, <3>1, <3>2, <3>3, DeleteFacts
    <2>2. CASE /\ UNCHANGED row /\ LostReplies
               /\ Becomes(x, [op[x] EXCEPT !.lost = TRUE])
               /\ late' = Sent(x) /\ UNCHANGED active
      <3>1. op'[x] = [op[x] EXCEPT !.lost = TRUE] /\ \A q \in Op \ {x} : op'[q] = op[q]
        BY <2>2, DeleteFacts, Became
      <3>2. /\ op'[x].docs = op[x].docs /\ op'[x].left = op[x].left /\ op'[x].staged = op[x].staged
            /\ op'[x].pc = "commit"
        BY <1>0, <3>1, DeleteFacts DEF Ops, PC
      <3> QED BY <2>2, <3>1, <3>2
    <2>3. CASE UNCHANGED row /\ Goto(x, "inspect") /\ active' = active \ {x} /\ UNCHANGED late
      BY <2>3, DeleteFacts, Moved
    <2> QED BY <2>1, <2>2, <2>3 DEF DeleteCommit
  <1>2. Frame(x)
    BY <1>0, <1>1, DeleteFacts DEF Frame, Untouched, files, VaultInv, World, Sent
  <1>3. StaysFree(x)
    BY <1>0 DEF StaysFree, Free, Shielded, Guarded
  <1>4. OpInv(x)'
    <2>1. CallInv(x)'
      BY <1>0, <1>1, DeleteFacts DEF OpInv, CallInv, Known, PC, Sent
    <2>2. JobInv(x)'
      BY <1>0, <1>1, DeleteFacts DEF OpInv, JobInv, PC, Before, Guarded, Shielded, files
    <2>3. HeldInv(x)' /\ TrashInv(x)' /\ FreshInv(x)'
      BY <1>0, <1>1, DeleteFacts DEF OpInv, JobInv, HeldInv, TrashInv, FreshInv, PC, Held, Loose, files
    <2> QED BY <2>1, <2>2, <2>3 DEF OpInv
  <1> QED BY <1>0, <1>2, <1>3, <1>4, DeleteFacts, StepKeeps

(* Steps of a deletion whose reconciliation may already run. *)
LEMMA DeleteInspectKeeps ==
  ASSUME VaultAssumption, VaultInv, VaultTyped', NEW x \in Deletes, DeleteInspect(x) PROVE VaultInv'
  <1>0. /\ PC(x) = "inspect" /\ UNCHANGED <<store, files, job, active, settled, rec>>
    BY DeleteFacts DEF DeleteInspect, At, PC, Quiet
  <1>1. /\ op'[x].docs = op[x].docs /\ op'[x].left = op[x].left /\ op'[x].staged = op[x].staged
        /\ op'[x].lost = op[x].lost
        /\ \A q \in Op \ {x} : op'[q] = op[q]
        /\ \/ op'[x].pc = "restore"
           \/ op'[x].pc = "close" /\ op'[x].end = "pending"
           \/ op'[x].pc = "purge" /\ \A d \in op[x].docs : ~row[d]
    <2>1. \/ Goto(x, "restore")
          \/ Close(x, "pending", TRUE)
          \/ Goto(x, "purge") /\ \A d \in op[x].docs : ~row[d]
      BY DEF DeleteInspect
    <2>2. CASE Close(x, "pending", TRUE)
      BY <2>2, DeleteFacts, Closed
    <2> QED BY <2>1, <2>2, DeleteFacts, Moved
  <1>2. Frame(x)
    BY <1>0, <1>1, DeleteFacts, Alone DEF Untouched, files, store
  <1>3. StaysFree(x)
    BY <1>0, <1>1, DeleteFacts DEF StaysFree, Free, Shielded, Guarded, Before, PC, Held, Loose, files, store
  <1>4. OpInv(x)'
    <2>1. CallInv(x)'
      BY <1>0, <1>1, DeleteFacts DEF OpInv, CallInv, Known, PC, store
    <2>2. JobInv(x)'
      BY <1>0, <1>1, DeleteFacts DEF OpInv, JobInv, PC, Before, Guarded, Shielded, store, files
    <2>3. HeldInv(x)' /\ TrashInv(x)' /\ FreshInv(x)'
      BY <1>0, <1>1, DeleteFacts DEF OpInv, JobInv, HeldInv, TrashInv, FreshInv, PC, Held, Loose, files, store
    <2> QED BY <2>1, <2>2, <2>3 DEF OpInv
  <1> QED BY <1>0, <1>2, <1>3, <1>4, DeleteFacts, StepKeeps

LEMMA DeleteRestoreKeeps ==
  ASSUME VaultAssumption, VaultInv, VaultTyped', NEW x \in Deletes, DeleteRestore(x) PROVE VaultInv'
  <1>0. /\ PC(x) = "restore" /\ UNCHANGED <<store, sidecar, job, active, settled, rec>>
    BY DeleteFacts DEF DeleteRestore, At, PC, Quiet
  <1>1. PICK d \in op[x].docs :
          \/ file[d] = x /\ PutFile(d, "vault") /\ Close(x, "restored", TRUE)
          \/ Close(x, "pending", FALSE) /\ UNCHANGED file
    BY DEF DeleteRestore
  <1>2. /\ op'[x].docs = op[x].docs /\ op'[x].left = op[x].left /\ op'[x].staged = op[x].staged
        /\ op'[x].lost = op[x].lost /\ op'[x].pc = "close"
        /\ \A q \in Op \ {x} : op'[q] = op[q]
        /\ \/ op'[x].end = "pending" /\ UNCHANGED file
           \/ /\ \A e \in Docs : file'[e] # x
              /\ \A e \in Docs : file'[e] = file[e] \/ (e \in op[x].docs /\ file'[e] = "vault")
    <2>1. CASE file[d] = x /\ PutFile(d, "vault") /\ Close(x, "restored", TRUE)
      <3>1. \A e \in Docs : file[e] = x => e \in op[x].docs
        BY DeleteFacts DEF OpInv, HeldInv, Held
      <3>2. \A e \in Docs : file[e] = x => e = d
        BY <1>1, <3>1, DeleteFacts DEF OpInv, CallInv
      <3>3. /\ \A e \in Docs : file'[e] # x
            /\ \A e \in Docs : file'[e] = file[e] \/ (e \in op[x].docs /\ file'[e] = "vault")
        BY <1>1, <2>1, <3>2, DeleteFacts DEF PutFile, TypeOK
      <3>4. Close(x, "restored", TRUE)
        BY <2>1
      <3> QED BY <3>3, <3>4, DeleteFacts, Closed
    <2>2. CASE Close(x, "pending", FALSE) /\ UNCHANGED file
      <3>1. Close(x, "pending", FALSE)
        BY <2>2
      <3> QED BY <2>2, <3>1, DeleteFacts, Closed
    <2> QED BY <1>1, <2>1, <2>2
  <1>3. Frame(x)
    BY <1>0, <1>2, DeleteFacts DEF Frame, Untouched, store, VaultInv, World
  <1>4. StaysFree(x)
    BY <1>0, <1>2, DeleteFacts DEF StaysFree, Free, Shielded, Guarded, Before, PC, Held, Loose, store, Plain
  <1>5. OpInv(x)'
    <2>1. CallInv(x)'
      BY <1>0, <1>2, DeleteFacts DEF OpInv, CallInv, Known, PC, store
    <2>2. JobInv(x)'
      BY <1>0, <1>2, DeleteFacts DEF OpInv, JobInv, PC, Before, Guarded, Shielded, store
    <2>3. HeldInv(x)' /\ TrashInv(x)' /\ FreshInv(x)'
      BY <1>0, <1>2, DeleteFacts DEF OpInv, JobInv, HeldInv, TrashInv, FreshInv, PC, Held, Loose
    <2> QED BY <2>1, <2>2, <2>3 DEF OpInv
  <1> QED BY <1>0, <1>3, <1>4, <1>5, DeleteFacts, StepKeeps

LEMMA DeletePurgeKeeps ==
  ASSUME VaultAssumption, VaultInv, VaultTyped', NEW x \in Deletes, DeletePurge(x) PROVE VaultInv'
  <1>0. /\ PC(x) = "purge" /\ UNCHANGED <<store, job, active, settled, rec>>
    BY DeleteFacts DEF DeletePurge, At, PC, Quiet
  <1>2. /\ op'[x].docs = op[x].docs /\ op'[x].left = op[x].left /\ op'[x].staged = op[x].staged
        /\ op'[x].lost = op[x].lost /\ op'[x].pc = "close"
        /\ \A q \in Op \ {x} : op'[q] = op[q] /\ sidecar'[q] = sidecar[q]
        /\ \/ op'[x].end = "pending" /\ UNCHANGED files
           \/ /\ \A e \in Docs : file'[e] # x
              /\ \A e \in Docs : file'[e] = file[e] \/ (file[e] = x /\ file'[e] = "absent")
    <2>1. CASE /\ file' = [d \in Docs |-> IF file[d] = x THEN "absent" ELSE file[d]]
               /\ sidecar' = [sidecar EXCEPT ![x] = NoSidecar]
               /\ Close(x, "completed", FALSE)
      <3>1. Close(x, "completed", FALSE)
        BY <2>1
      <3>2. /\ \A e \in Docs : file'[e] # x
            /\ \A e \in Docs : file'[e] = file[e] \/ (file[e] = x /\ file'[e] = "absent")
        BY <2>1, DeleteFacts
      <3>3. \A q \in Op \ {x} : sidecar'[q] = sidecar[q]
        BY <2>1, DeleteFacts DEF TypeOK
      <3> QED BY <3>1, <3>2, <3>3, DeleteFacts, Closed
    <2>2. CASE Close(x, "pending", FALSE) /\ UNCHANGED files
      <3>1. Close(x, "pending", FALSE)
        BY <2>2
      <3> QED BY <2>2, <3>1, DeleteFacts, Closed DEF files
    <2> QED BY <2>1, <2>2 DEF DeletePurge
  <1>a. \A d \in Docs : file[d] = x => d \in op[x].docs /\ ~row[d]
    BY <1>0, DeleteFacts DEF OpInv, HeldInv, Held, CallInv
  <1>3. Frame(x)
    BY <1>0, <1>2, <1>a, DeleteFacts DEF Frame, Untouched, store, files, VaultInv, World
  <1>4. StaysFree(x)
    BY <1>0, <1>2, DeleteFacts DEF StaysFree, Free, Shielded, Guarded, Before, PC, Held, Loose, store, files, Plain
  <1>5. OpInv(x)'
    <2>1. CallInv(x)'
      BY <1>0, <1>2, DeleteFacts DEF OpInv, CallInv, Known, PC, store
    <2>2. JobInv(x)'
      BY <1>0, <1>2, DeleteFacts DEF OpInv, JobInv, PC, Before, Guarded, Shielded, store
    <2>3. HeldInv(x)' /\ TrashInv(x)' /\ FreshInv(x)'
      BY <1>0, <1>2, DeleteFacts DEF OpInv, JobInv, HeldInv, TrashInv, FreshInv, PC, Held, Loose, files
    <2> QED BY <2>1, <2>2, <2>3 DEF OpInv
  <1> QED BY <1>0, <1>3, <1>4, <1>5, DeleteFacts, StepKeeps

LEMMA DeleteStepKeeps ==
  ASSUME VaultAssumption, VaultInv, VaultTyped', NEW x \in Deletes, DeleteStep(x) PROVE VaultInv'
  BY DeleteFacts, DeleteReadKeeps, DeleteIntentKeeps, DeleteStageKeeps, DeleteCommitKeeps, DeleteInspectKeeps,
     DeleteRestoreKeeps, DeletePurgeKeeps, ConcludeKeeps DEF DeleteStep

-----------------------------------------------------------------------------
(* The steps of the deletion of the record keep the invariant. *)

LEMMA RemoveFacts ==
  ASSUME VaultAssumption, VaultInv, NEW m \in Removals
  PROVE  /\ m \in Op /\ m \notin Uploads /\ m \notin Deletes /\ m \notin Sims
         /\ m \notin {"absent", "vault"} /\ ~Plain
         /\ TypeOK /\ op[m] \in Ops /\ OpInv(m) /\ op[m].docs \subseteq Docs
         /\ op[m].left \subseteq op[m].docs /\ op[m].staged \subseteq op[m].docs
  BY DEF VaultAssumption, VaultInv, VaultTyped, TypeOK, Op, Ops, Plain, OpInv, CallInv

LEMMA RemoveReadKeeps ==
  ASSUME VaultAssumption, VaultInv, VaultTyped', NEW m \in Removals, RemoveRead(m) PROVE VaultInv'
  <1>0. /\ PC(m) = "idle" /\ op[m].left = {} /\ op[m].staged = {}
        /\ UNCHANGED <<store, files, job, active, settled, rec>>
    BY RemoveFacts DEF RemoveRead, At, PC, Quiet, OpInv, CallInv
  <1> DEFINE listed == {d \in Docs : row[d]}
  <1>1. /\ op'[m].pc \in {"commit", "intent"} /\ op'[m].docs = listed /\ op'[m].left = listed
        /\ op'[m].staged = {} /\ op'[m].lost = op[m].lost
        /\ \A q \in Op \ {m} : op'[q] = op[q]
    <2>1. Becomes(m, [op[m] EXCEPT !.pc = IF listed = {} THEN "commit" ELSE "intent",
                                   !.docs = listed, !.left = listed])
      BY DEF RemoveRead
    <2>2. /\ op'[m] = [op[m] EXCEPT !.pc = IF listed = {} THEN "commit" ELSE "intent",
                                    !.docs = listed, !.left = listed]
          /\ \A q \in Op \ {m} : op'[q] = op[q]
      <3> HIDE DEF listed
      <3> QED BY <2>1, RemoveFacts, Became
    <2> HIDE DEF listed
    <2> QED BY <1>0, <2>2, RemoveFacts DEF Ops
  <1>2. Frame(m)
    BY <1>0, <1>1, RemoveFacts, Alone DEF Untouched, files, store
  <1>3. StaysFree(m)
    BY <1>0 DEF StaysFree, Free, Before
  <1>4. OpInv(m)'
    <2>1. \A d \in listed : Known(d)
      BY DEF VaultInv, World
    <2>2. CallInv(m)'
      <3> HIDE DEF listed
      <3> QED BY <1>0, <1>1, <2>1, RemoveFacts DEF OpInv, CallInv, JobInv, Known, PC, Before, store
    <2>3. JobInv(m)'
      BY <1>0, <1>1, RemoveFacts DEF OpInv, JobInv, PC, Before, Guarded, Shielded, files, store, NoSidecar, Terminal
    <2>4. HeldInv(m)' /\ TrashInv(m)' /\ FreshInv(m)'
      BY <1>0, <1>1, RemoveFacts DEF OpInv, JobInv, HeldInv, TrashInv, FreshInv, PC, Before, files, Held, Loose,
                                     NoSidecar
    <2> QED BY <2>2, <2>3, <2>4 DEF OpInv
  <1> QED BY <1>0, <1>2, <1>3, <1>4, RemoveFacts, StepKeeps

LEMMA RemoveIntentKeeps ==
  ASSUME VaultAssumption, VaultInv, VaultTyped', NEW m \in Removals, RemoveIntent(m) PROVE VaultInv'
  <1>0. PC(m) = "intent" /\ UNCHANGED <<store, file, active, settled, rec>>
    BY RemoveFacts DEF RemoveIntent, At, PC, Quiet
  <1>a. /\ Goto(m, "stage")
        /\ \/ job'[m].status = "pending" /\ job'[m].wal /\ sidecar'[m] = sidecar[m]
           \/ sidecar'[m].status = "pending" /\ sidecar'[m].wal /\ job'[m] = job[m]
        /\ \A q \in Op \ {m} : job'[q] = job[q] /\ sidecar'[q] = sidecar[q]
    BY RemoveFacts, Persisted DEF RemoveIntent
  <1>1. /\ op'[m].pc = "stage" /\ op'[m].docs = op[m].docs /\ op'[m].left = op[m].left
        /\ op'[m].staged = op[m].staged /\ op'[m].lost = op[m].lost
        /\ \A q \in Op \ {m} : op'[q] = op[q]
    BY <1>a, RemoveFacts, Moved
  <1>2. Frame(m)
    BY <1>0, <1>1, <1>a, RemoveFacts, Alone DEF Untouched, store
  <1>3. StaysFree(m)
    BY <1>0 DEF StaysFree, Free, Before
  <1>4. OpInv(m)'
    <2>1. CallInv(m)'
      BY <1>0, <1>1, RemoveFacts DEF OpInv, CallInv, Known, PC, store
    <2>2. JobInv(m)'
      BY <1>0, <1>1, <1>a, RemoveFacts DEF OpInv, JobInv, PC, Before, Guarded, Shielded, NoSidecar, Terminal, store
    <2>3. HeldInv(m)' /\ TrashInv(m)' /\ FreshInv(m)'
      BY <1>0, <1>1, <1>a, RemoveFacts DEF OpInv, JobInv, HeldInv, TrashInv, FreshInv, PC, Before, Held, Loose,
                                           NoSidecar, Plain
    <2> QED BY <2>1, <2>2, <2>3 DEF OpInv
  <1> QED BY <1>0, <1>2, <1>3, <1>4, RemoveFacts, StepKeeps

LEMMA RemoveStageKeeps ==
  ASSUME VaultAssumption, VaultInv, VaultTyped', NEW m \in Removals, RemoveStage(m) PROVE VaultInv'
  <1>0. PC(m) = "stage" /\ UNCHANGED <<store, sidecar, job, active, settled, rec>>
    BY RemoveFacts DEF RemoveStage, At, PC, Quiet
  <1>1. /\ op'[m].docs = op[m].docs /\ op'[m].left \subseteq op[m].left
        /\ op[m].staged \subseteq op'[m].staged /\ op'[m].staged \subseteq op[m].docs
        /\ op'[m].lost = op[m].lost /\ op'[m].failed = op[m].failed
        /\ \A q \in Op \ {m} : op'[q] = op[q]
        /\ op'[m].pc \in {"stage", "commit", "restore"}
        /\ \A e \in Docs : file'[e] = file[e] \/ (e \in op'[m].staged /\ file'[e] = m)
    <2>1. CASE \E d \in op[m].left :
                 /\ PutFile(d, m)
                 /\ Becomes(m, [op[m] EXCEPT !.left = @ \ {d}, !.staged = @ \cup {d}])
      <3>1. PICK d \in op[m].left :
                 /\ PutFile(d, m)
                 /\ Becomes(m, [op[m] EXCEPT !.left = @ \ {d}, !.staged = @ \cup {d}])
        BY <2>1
      <3>2. op'[m] = [op[m] EXCEPT !.left = @ \ {d}, !.staged = @ \cup {d}] /\ \A q \in Op \ {m} : op'[q] = op[q]
        BY <3>1, RemoveFacts, Became
      <3>3. /\ op'[m].docs = op[m].docs /\ op'[m].left = op[m].left \ {d} /\ op'[m].staged = op[m].staged \cup {d}
            /\ op'[m].lost = op[m].lost /\ op'[m].failed = op[m].failed /\ op'[m].pc = "stage"
        BY <1>0, <3>2, RemoveFacts DEF Ops, PC
      <3>4. \A e \in Docs : file'[e] = file[e] \/ (e \in op'[m].staged /\ file'[e] = m)
        BY <3>1, <3>3, RemoveFacts DEF PutFile, TypeOK
      <3> QED BY <3>1, <3>2, <3>3, <3>4, RemoveFacts
    <2>2. CASE UNCHANGED file /\ \E d \in op[m].left : Becomes(m, [op[m] EXCEPT !.left = @ \ {d}])
      <3>1. PICK d \in op[m].left : Becomes(m, [op[m] EXCEPT !.left = @ \ {d}])
        BY <2>2
      <3>2. op'[m] = [op[m] EXCEPT !.left = @ \ {d}] /\ \A q \in Op \ {m} : op'[q] = op[q]
        BY <3>1, RemoveFacts, Became
      <3>3. /\ op'[m].docs = op[m].docs /\ op'[m].left = op[m].left \ {d} /\ op'[m].staged = op[m].staged
            /\ op'[m].lost = op[m].lost /\ op'[m].failed = op[m].failed /\ op'[m].pc = "stage"
        BY <1>0, <3>2, RemoveFacts DEF Ops, PC
      <3> QED BY <2>2, <3>2, <3>3, RemoveFacts
    <2>3. CASE UNCHANGED file /\ (Goto(m, "commit") \/ Goto(m, "restore"))
      BY <2>3, RemoveFacts, Moved
    <2> QED BY <2>1, <2>2, <2>3 DEF RemoveStage
  <1>2. Frame(m)
    BY <1>0, <1>1, RemoveFacts DEF Frame, Untouched, store, VaultInv, World
  <1>3. StaysFree(m)
    BY <1>0, RemoveFacts DEF StaysFree, Free, Shielded, Guarded
  <1>4. OpInv(m)'
    <2>1. CallInv(m)'
      BY <1>0, <1>1, RemoveFacts DEF OpInv, CallInv, Known, PC, store
    <2>2. JobInv(m)'
      BY <1>0, <1>1, RemoveFacts DEF OpInv, JobInv, PC, Before, Guarded, Shielded, Running, store
    <2>3. HeldInv(m)' /\ TrashInv(m)' /\ FreshInv(m)'
      BY <1>0, <1>1, RemoveFacts DEF OpInv, JobInv, HeldInv, TrashInv, FreshInv, Guarded, Shielded, PC, Held, Loose
    <2> QED BY <2>1, <2>2, <2>3 DEF OpInv
  <1> QED BY <1>0, <1>2, <1>3, <1>4, RemoveFacts, StepKeeps

LEMMA RemoveCommitKeeps ==
  ASSUME VaultAssumption, VaultInv, VaultTyped', NEW m \in Removals, RemoveCommit(m) PROVE VaultInv'
  <1>0. PC(m) = "commit" /\ UNCHANGED <<files, job, active, settled, rec>>
    BY RemoveFacts DEF RemoveCommit, At, PC, Quiet
  <1>1. /\ op'[m].docs = op[m].docs /\ op'[m].left = op[m].left /\ op'[m].staged = op[m].staged
        /\ op'[m].lost = op[m].lost /\ op'[m].failed = op[m].failed
        /\ \A q \in Op \ {m} : op'[q] = op[q]
        /\ \/ op'[m].pc = "confirm" /\ ~submission'
           \/ op'[m].pc = "restore"
           \/ op'[m].pc = "close" /\ op'[m].end = "pending"
    <2>1. \/ Goto(m, "confirm") /\ ~submission'
          \/ Goto(m, "restore")
          \/ Close(m, "pending", TRUE)
      BY DEF RemoveCommit, Erase, store
    <2>2. CASE Goto(m, "confirm") /\ ~submission'
      BY <2>2, RemoveFacts, Moved
    <2>3. CASE Goto(m, "restore")
      BY <2>3, RemoveFacts, Moved
    <2>4. CASE Close(m, "pending", TRUE)
      BY <2>4, RemoveFacts, Closed
    <2> QED BY <2>1, <2>2, <2>3, <2>4
  <1>2. /\ \A d \in Docs : row'[d] => row[d]
        /\ landed' = landed
        /\ submission' => submission
        /\ ~submission' => request'.status = "gone" /\ \A d \in Docs : ~row'[d]
        /\ late' = late \/ late' = Sent(m)
    <2>1. CASE UNCHANGED <<submission, landed, request, row>>
      BY <2>1 DEF RemoveCommit, VaultInv, World, store
    <2>2. CASE Erase /\ UNCHANGED late
      BY <2>2, RemoveFacts DEF Erase, TypeOK
    <2> QED BY <2>1, <2>2 DEF RemoveCommit, store
  <1>3. Frame(m)
    BY <1>0, <1>1, <1>2, RemoveFacts DEF Frame, Untouched, files, VaultInv, World, Sent
  <1>4. StaysFree(m)
    BY <1>0, RemoveFacts DEF StaysFree, Free, Shielded, Guarded
  <1>5. OpInv(m)'
    <2>1. CallInv(m)'
      BY <1>0, <1>1, <1>2, RemoveFacts DEF OpInv, CallInv, Known, PC, Sent
    <2>2. JobInv(m)'
      BY <1>0, <1>1, RemoveFacts DEF OpInv, JobInv, PC, Before, Guarded, Shielded, Running, files
    <2>3. HeldInv(m)' /\ TrashInv(m)' /\ FreshInv(m)'
      BY <1>0, <1>1, RemoveFacts DEF OpInv, HeldInv, TrashInv, FreshInv, PC, Held, Loose, files
    <2> QED BY <2>1, <2>2, <2>3 DEF OpInv
  <1> QED BY <1>0, <1>3, <1>4, <1>5, RemoveFacts, StepKeeps

LEMMA RemoveRestoreKeeps ==
  ASSUME VaultAssumption, VaultInv, VaultTyped', NEW m \in Removals, RemoveRestore(m) PROVE VaultInv'
  <1>0. PC(m) = "restore" /\ UNCHANGED <<store, sidecar, job, active, settled, rec>>
    BY RemoveFacts DEF RemoveRestore, At, PC, Quiet
  <1>1. /\ op'[m].docs = op[m].docs /\ op'[m].left = op[m].left /\ op'[m].staged \subseteq op[m].staged
        /\ op'[m].lost = op[m].lost
        /\ \A q \in Op \ {m} : op'[q] = op[q]
        /\ op'[m].pc = "restore" \/ (op'[m].pc = "close" /\ (op'[m].end = "pending" \/ \A d \in Docs : file'[d] # m))
        /\ \A e \in Docs : file'[e] = file[e] \/ (e \in op[m].docs /\ file'[e] = "vault")
        /\ op'[m].pc = "restore" => \A e \in Docs : file'[e] = m => e \in op'[m].staged \/ op'[m].failed
    <2>0. \A e \in Docs : file[e] = m => e \in op[m].staged \/ op[m].failed
      BY <1>0, RemoveFacts DEF OpInv, TrashInv
    <2>1. CASE \E d \in op[m].staged :
                 /\ \/ PutFile(d, IF file[d] = m THEN "vault" ELSE file[d])
                    \/ UNCHANGED file
                 /\ Becomes(m, [op[m] EXCEPT !.staged = @ \ {d}, !.failed = @ \/ file'[d] # "vault"])
      <3>1. PICK d \in op[m].staged :
                 /\ \/ PutFile(d, IF file[d] = m THEN "vault" ELSE file[d])
                    \/ UNCHANGED file
                 /\ Becomes(m, [op[m] EXCEPT !.staged = @ \ {d}, !.failed = @ \/ file'[d] # "vault"])
        BY <2>1
      <3>2. /\ op'[m] = [op[m] EXCEPT !.staged = @ \ {d}, !.failed = @ \/ file'[d] # "vault"]
            /\ \A q \in Op \ {m} : op'[q] = op[q]
        BY <3>1, RemoveFacts, Became
      <3>3. /\ op'[m].docs = op[m].docs /\ op'[m].left = op[m].left /\ op'[m].staged = op[m].staged \ {d}
            /\ op'[m].lost = op[m].lost /\ op'[m].pc = "restore"
        BY <1>0, <3>2, RemoveFacts DEF Ops, PC
      <3>4. op[m].failed \/ file'[d] # "vault" => op'[m].failed
        BY <1>0, <3>2, RemoveFacts DEF Ops, PC
      <3>5. \A e \in Docs : file'[e] = file[e] \/ (e \in op[m].docs /\ file'[e] = "vault")
        BY <3>1, RemoveFacts DEF PutFile, TypeOK
      <3>6. \A e \in Docs : file'[e] = m => e \in op'[m].staged \/ op'[m].failed
        <4> SUFFICES ASSUME NEW e \in Docs, file'[e] = m PROVE e \in op'[m].staged \/ op'[m].failed
          OBVIOUS
        <4>1. file[e] = m
          BY <3>5, RemoveFacts
        <4>2. e = d => file'[d] # "vault"
          BY RemoveFacts
        <4> QED BY <2>0, <3>3, <3>4, <4>1, <4>2
      <3> QED BY <3>2, <3>3, <3>5, <3>6
    <2>2. CASE /\ op[m].staged = {} /\ UNCHANGED file
               /\ Close(m, IF op[m].failed \/ sidecar[m] # NoSidecar THEN "pending" ELSE "restored", TRUE)
      <3>1. /\ op'[m] = [op[m] EXCEPT !.pc = "close", !.wal = TRUE,
                              !.end = IF op[m].failed \/ sidecar[m] # NoSidecar THEN "pending" ELSE "restored"]
            /\ \A q \in Op \ {m} : op'[q] = op[q]
        BY <2>2, RemoveFacts, Became DEF Close
      <3>2. /\ op'[m].docs = op[m].docs /\ op'[m].left = op[m].left /\ op'[m].staged = op[m].staged
            /\ op'[m].lost = op[m].lost /\ op'[m].pc = "close"
        BY <3>1, RemoveFacts DEF Ops
      <3>3. op[m].failed => op'[m].end = "pending"
        BY <3>1, RemoveFacts DEF Ops
      <3> QED BY <2>0, <2>2, <3>1, <3>2, <3>3
    <2> QED BY <2>1, <2>2 DEF RemoveRestore
  <1>2. Frame(m)
    BY <1>0, <1>1, RemoveFacts DEF Frame, Untouched, store, VaultInv, World
  <1>3. StaysFree(m)
    BY <1>0, RemoveFacts DEF StaysFree, Free, Shielded, Guarded
  <1>4. OpInv(m)'
    <2>1. CallInv(m)'
      BY <1>0, <1>1, RemoveFacts DEF OpInv, CallInv, Known, PC, store
    <2>2. JobInv(m)'
      BY <1>0, <1>1, RemoveFacts DEF OpInv, JobInv, PC, Before, Guarded, Shielded, Running, store
    <2>3. HeldInv(m)' /\ TrashInv(m)' /\ FreshInv(m)'
      BY <1>0, <1>1, RemoveFacts DEF OpInv, JobInv, HeldInv, TrashInv, FreshInv, PC, Held, Loose
    <2> QED BY <2>1, <2>2, <2>3 DEF OpInv
  <1> QED BY <1>0, <1>2, <1>3, <1>4, RemoveFacts, StepKeeps

LEMMA RemoveConfirmKeeps ==
  ASSUME VaultAssumption, VaultInv, VaultTyped', NEW m \in Removals, RemoveConfirm(m) PROVE VaultInv'
  <1>0. PC(m) = "confirm" /\ UNCHANGED <<store, file, active, settled, rec>>
    BY RemoveFacts DEF RemoveConfirm, At, PC, Quiet
  <1>1. /\ op'[m].docs = op[m].docs /\ op'[m].left \subseteq op[m].docs /\ op'[m].staged = op[m].staged
        /\ op'[m].lost = op[m].lost /\ op'[m].failed = op[m].failed
        /\ \A q \in Op \ {m} : op'[q] = op[q] /\ job'[q] = job[q] /\ sidecar'[q] = sidecar[q]
        /\ \/ op'[m].pc = "done" /\ op[m].docs = {} /\ UNCHANGED <<job, sidecar>>
           \/ /\ op'[m].pc = "purge" /\ op'[m].left = op[m].docs
              /\ \/ job'[m].status = "pending" /\ sidecar'[m] = sidecar[m]
                 \/ sidecar'[m].status = "pending" /\ job'[m] = job[m]
                 \/ job'[m] = job[m] /\ sidecar'[m] = sidecar[m]
    <2>1. CASE op[m].docs = {} /\ Goto(m, "done") /\ UNCHANGED <<job, sidecar>>
      BY <2>1, RemoveFacts, Moved
    <2>2. CASE /\ UpdateJob(m, "pending", FALSE)
               /\ Becomes(m, [op[m] EXCEPT !.pc = "purge", !.left = op[m].docs])
      <3>1. op'[m] = [op[m] EXCEPT !.pc = "purge", !.left = op[m].docs] /\ \A q \in Op \ {m} : op'[q] = op[q]
        BY <2>2, RemoveFacts, Became
      <3>2. /\ op'[m].docs = op[m].docs /\ op'[m].left = op[m].docs /\ op'[m].staged = op[m].staged
            /\ op'[m].lost = op[m].lost /\ op'[m].failed = op[m].failed /\ op'[m].pc = "purge"
        BY <3>1, RemoveFacts DEF Ops
      <3>3. UpdateJob(m, "pending", FALSE)
        BY <2>2
      <3>4. /\ \/ job'[m].status = "pending" /\ sidecar'[m] = sidecar[m]
               \/ sidecar'[m].status = "pending" /\ job'[m] = job[m]
               \/ job'[m] = job[m] /\ sidecar'[m] = sidecar[m]
            /\ \A q \in Op \ {m} : job'[q] = job[q] /\ sidecar'[q] = sidecar[q]
        BY <3>3, RemoveFacts, Updated
      <3> QED BY <3>1, <3>2, <3>4
    <2> QED BY <2>1, <2>2 DEF RemoveConfirm
  <1>2. Frame(m)
    BY <1>0, <1>1, RemoveFacts, Alone DEF Untouched, store
  <1>3. StaysFree(m)
    BY <1>0, <1>1, RemoveFacts DEF StaysFree, Free, Shielded, Guarded, Before, PC, Held, Loose, Plain, store
  <1>4. OpInv(m)'
    <2>1. CallInv(m)'
      BY <1>0, <1>1, RemoveFacts DEF OpInv, CallInv, Known, PC, store
    <2>2. JobInv(m)'
      BY <1>0, <1>1, RemoveFacts DEF OpInv, JobInv, PC, Before, Guarded, Shielded, Running, store
    <2>3. HeldInv(m)' /\ TrashInv(m)' /\ FreshInv(m)'
      BY <1>0, <1>1, RemoveFacts DEF OpInv, HeldInv, TrashInv, FreshInv, PC, Held, Loose, Terminal
    <2> QED BY <2>1, <2>2, <2>3 DEF OpInv
  <1> QED BY <1>0, <1>2, <1>3, <1>4, RemoveFacts, StepKeeps

LEMMA RemovePurgeKeeps ==
  ASSUME VaultAssumption, VaultInv, VaultTyped', NEW m \in Removals, RemovePurge(m) PROVE VaultInv'
  <1>0. PC(m) = "purge" /\ UNCHANGED <<store, sidecar, job, active, settled, rec>>
    BY RemoveFacts DEF RemovePurge, At, PC, Quiet
  <1>1. /\ op'[m].docs = op[m].docs /\ op'[m].left \subseteq op[m].left /\ op'[m].staged = op[m].staged
        /\ op'[m].lost = op[m].lost
        /\ \A q \in Op \ {m} : op'[q] = op[q]
        /\ op'[m].pc = "purge" \/ (op'[m].pc = "close" /\ (op'[m].end = "pending" \/ \A d \in Docs : file'[d] # m))
        /\ \A e \in Docs : file'[e] = file[e] \/ (e \in op[m].docs /\ file'[e] = "absent")
        /\ op'[m].pc = "purge" => \A e \in Docs : file'[e] = m => e \in op'[m].left \/ op'[m].failed
    <2>0. \A e \in Docs : file[e] = m => e \in op[m].left \/ op[m].failed
      BY <1>0, RemoveFacts DEF OpInv, TrashInv
    <2>1. CASE \E d \in op[m].left :
                 /\ PutFile(d, IF file[d] = m THEN "absent" ELSE file[d])
                 /\ Becomes(m, [op[m] EXCEPT !.left = @ \ {d}])
      <3>1. PICK d \in op[m].left :
                 /\ PutFile(d, IF file[d] = m THEN "absent" ELSE file[d])
                 /\ Becomes(m, [op[m] EXCEPT !.left = @ \ {d}])
        BY <2>1
      <3>2. op'[m] = [op[m] EXCEPT !.left = @ \ {d}] /\ \A q \in Op \ {m} : op'[q] = op[q]
        BY <3>1, RemoveFacts, Became
      <3>3. /\ op'[m].docs = op[m].docs /\ op'[m].left = op[m].left \ {d} /\ op'[m].staged = op[m].staged
            /\ op'[m].lost = op[m].lost /\ op'[m].pc = "purge" /\ op'[m].failed = op[m].failed
        BY <1>0, <3>2, RemoveFacts DEF Ops, PC
      <3>4. /\ \A e \in Docs : file'[e] = file[e] \/ (e \in op[m].docs /\ file'[e] = "absent")
            /\ file'[d] # m
        BY <3>1, RemoveFacts DEF PutFile, TypeOK
      <3> QED BY <2>0, <3>2, <3>3, <3>4, RemoveFacts
    <2>2. CASE UNCHANGED file /\ \E d \in op[m].left : Becomes(m, [op[m] EXCEPT !.left = @ \ {d}, !.failed = TRUE])
      <3>1. PICK d \in op[m].left : Becomes(m, [op[m] EXCEPT !.left = @ \ {d}, !.failed = TRUE])
        BY <2>2
      <3>2. op'[m] = [op[m] EXCEPT !.left = @ \ {d}, !.failed = TRUE] /\ \A q \in Op \ {m} : op'[q] = op[q]
        BY <3>1, RemoveFacts, Became
      <3>3. /\ op'[m].docs = op[m].docs /\ op'[m].left = op[m].left \ {d} /\ op'[m].staged = op[m].staged
            /\ op'[m].lost = op[m].lost /\ op'[m].pc = "purge" /\ op'[m].failed
        BY <1>0, <3>2, RemoveFacts DEF Ops, PC
      <3> QED BY <2>2, <3>2, <3>3, RemoveFacts
    <2>3. CASE op[m].left = {} /\ UNCHANGED file /\ Close(m, IF op[m].failed THEN "pending" ELSE "completed", FALSE)
      <3>1. /\ op'[m] = [op[m] EXCEPT !.pc = "close", !.wal = FALSE,
                              !.end = IF op[m].failed THEN "pending" ELSE "completed"]
            /\ \A q \in Op \ {m} : op'[q] = op[q]
        BY <2>3, RemoveFacts, Became DEF Close
      <3>2. /\ op'[m].docs = op[m].docs /\ op'[m].left = op[m].left /\ op'[m].staged = op[m].staged
            /\ op'[m].lost = op[m].lost /\ op'[m].pc = "close"
        BY <3>1, RemoveFacts DEF Ops
      <3>3. op[m].failed => op'[m].end = "pending"
        BY <3>1, RemoveFacts DEF Ops
      <3> QED BY <2>0, <2>3, <3>1, <3>2, <3>3
    <2> QED BY <2>1, <2>2, <2>3 DEF RemovePurge
  <1>a. \A d \in Docs : ~row[d]
    BY <1>0, RemoveFacts DEF OpInv, CallInv, VaultInv, World
  <1>2. Frame(m)
    BY <1>0, <1>1, <1>a, RemoveFacts DEF Frame, Untouched, store, VaultInv, World
  <1>3. StaysFree(m)
    BY <1>0, <1>1, RemoveFacts DEF StaysFree, Free, Shielded, Guarded, Before, PC, Held, Loose, Plain, store
  <1>4. OpInv(m)'
    <2>1. CallInv(m)'
      BY <1>0, <1>1, RemoveFacts DEF OpInv, CallInv, Known, PC, store
    <2>2. JobInv(m)'
      BY <1>0, <1>1, RemoveFacts DEF OpInv, JobInv, PC, Before, Guarded, Shielded, Running, store
    <2>3. HeldInv(m)' /\ TrashInv(m)' /\ FreshInv(m)'
      BY <1>0, <1>1, RemoveFacts DEF OpInv, HeldInv, TrashInv, FreshInv, PC, Held, Loose
    <2> QED BY <2>1, <2>2, <2>3 DEF OpInv
  <1> QED BY <1>0, <1>2, <1>3, <1>4, RemoveFacts, StepKeeps

LEMMA RemoveStepKeeps ==
  ASSUME VaultAssumption, VaultInv, VaultTyped', NEW m \in Removals, RemoveStep(m) PROVE VaultInv'
  BY RemoveFacts, RemoveReadKeeps, RemoveIntentKeeps, RemoveStageKeeps, RemoveCommitKeeps, RemoveRestoreKeeps,
     RemoveConfirmKeeps, RemovePurgeKeeps, ConcludeKeeps DEF RemoveStep

-----------------------------------------------------------------------------
(* The steps of the reconciler keep the invariant. *)

LEMMA RunFacts ==
  ASSUME VaultAssumption, VaultInv, NEW r \in Reconcilers, rec[r].pc # "idle"
  PROVE  \E j \in Op :
           /\ j = rec[r].job /\ Free(j) /\ j \notin {"absent", "vault"} /\ OpInv(j) /\ RunInv(r)
           /\ TypeOK /\ rec[r] \in Recs /\ job[j] \in Jobs /\ op[j] \in Ops /\ op[j].docs \subseteq Docs
  <1>1. TypeOK /\ RunInv(r) /\ rec[r].job \in Op /\ Free(rec[r].job)
    BY DEF VaultInv, VaultTyped, RunInv
  <1>2. OpInv(rec[r].job) /\ rec[r].job \notin {"absent", "vault"}
    BY <1>1 DEF VaultInv, VaultAssumption
  <1>3. rec[r] \in Recs /\ job[rec[r].job] \in Jobs /\ op[rec[r].job] \in Ops
    BY <1>1 DEF TypeOK
  <1>4. op[rec[r].job].docs \subseteq Docs
    BY <1>3 DEF Ops
  <1> QED BY <1>1, <1>2, <1>3, <1>4

(* A run moves no file: what it has decided is kept with it. *)
LEMMA RunTurns ==
  ASSUME VaultAssumption, VaultInv, VaultTyped', NEW r \in Reconcilers, rec[r].pc # "idle",
         NEW new, Turns(r, new), RunInv(r)',
         UNCHANGED <<submission, row, landed, late, files, job, settled, active, op>>,
         request.status = "gone" => request'.status = "gone"
  PROVE  VaultInv'
  <1>0. PICK j \in Op :
         /\ j = rec[r].job /\ Free(j) /\ j \notin {"absent", "vault"} /\ OpInv(j) /\ RunInv(r)
         /\ TypeOK /\ rec[r] \in Recs /\ job[j] \in Jobs /\ op[j] \in Ops /\ op[j].docs \subseteq Docs
    BY RunFacts
  <1>1. Frame(j)
    BY <1>0, Alone DEF Untouched, files
  <1>2. StaysFree(j)
    BY DEF StaysFree, Free, Before, Shielded, Guarded, PC, Held, Loose, Plain, files
  <1>3. OpInv(j)'
    <2>1. CallInv(j)' /\ JobInv(j)'
      BY <1>0 DEF OpInv, CallInv, JobInv, Known, PC, Before, Guarded, Shielded, Running, files
    <2>2. HeldInv(j)' /\ TrashInv(j)' /\ FreshInv(j)'
      BY <1>0 DEF OpInv, HeldInv, TrashInv, FreshInv, PC, Held, Loose, Plain, files
    <2> QED BY <2>1, <2>2 DEF OpInv
  <1>4. \A q \in Reconcilers : rec'[q] = rec[q] \/ RunInv(q)'
    <2>1. \A q \in Reconcilers \ {r} : rec'[q] = rec[q]
      BY DEF Turns, VaultInv, VaultTyped, TypeOK
    <2> QED BY <2>1
  <1> QED BY <1>0, <1>1, <1>2, <1>3, <1>4, StepKeeps

(* A job whose state changes while its operation stays as it is. *)
LEMMA JobTurns ==
  ASSUME VaultAssumption, VaultInv, VaultTyped', NEW o \in Op, NEW new, SetJob(o, new),
         new.wal = job[o].wal \/ new.status = "none",
         new.status = job[o].status \/ Free(o),
         new.status = job[o].status \/ \A d \in Docs : Held(o, d) => new.status \notin Terminal /\ new.status # "none",
         UNCHANGED <<store, files, settled, active, op>>,
         \A r \in Reconcilers : rec'[r] = rec[r] \/ RunInv(r)'
  PROVE  VaultInv'
  <1>0. OpInv(o) /\ job'[o] = new /\ \A q \in Op \ {o} : job'[q] = job[q]
    BY DEF VaultInv, VaultTyped, TypeOK, SetJob
  <1>1. Frame(o)
    BY <1>0, Alone DEF Untouched, files, store
  <1>2. StaysFree(o)
    BY DEF StaysFree, Free, Before, Shielded, Guarded, PC, Held, Loose, Plain, files, store
  <1>3. OpInv(o)'
    <2>1. CallInv(o)'
      BY <1>0 DEF OpInv, CallInv, Known, PC, store
    <2>2. JobInv(o)'
      BY <1>0 DEF OpInv, JobInv, Free, PC, Before, Guarded, Shielded, Running, files, store
    <2>3. HeldInv(o)' /\ TrashInv(o)' /\ FreshInv(o)'
      BY <1>0 DEF OpInv, HeldInv, TrashInv, FreshInv, PC, Held, Loose, Plain, files, store
    <2> QED BY <2>1, <2>2, <2>3 DEF OpInv
  <1> QED BY <1>0, <1>1, <1>2, <1>3, StepKeeps

LEMMA ReleaseKeeps ==
  ASSUME VaultAssumption, VaultInv, VaultTyped', NEW r \in Reconcilers, rec[r].pc # "idle",
         NEW status, Release(r, status), status = "pending" \/ status \in Terminal,
         status = "pending" \/ \A d \in Docs : ~Held(rec[r].job, d),
         UNCHANGED <<store, files, settled, active, op>>
  PROVE  VaultInv'
  <1>0. PICK j \in Op :
         /\ j = rec[r].job /\ Free(j) /\ j \notin {"absent", "vault"} /\ OpInv(j) /\ RunInv(r)
         /\ TypeOK /\ rec[r] \in Recs /\ job[j] \in Jobs /\ op[j] \in Ops /\ op[j].docs \subseteq Docs
    BY RunFacts
  <1> DEFINE new == [job[j] EXCEPT !.status = status, !.lease = None]
  <1>1. SetJob(j, new)
    BY <1>0 DEF Release
  <1>2. new.wal = job[j].wal /\ new.status = status
    BY <1>0 DEF Jobs
  <1>3. \A q \in Reconcilers : rec'[q] = rec[q] \/ RunInv(q)'
    <2>1. rec'[r].pc = "idle" /\ \A q \in Reconcilers \ {r} : rec'[q] = rec[q]
      BY DEF Release, Turns, VaultInv, VaultTyped, TypeOK, IdleRec
    <2> QED BY <2>1 DEF RunInv
  <1>4. \A d \in Docs : Held(j, d) => status \notin Terminal /\ status # "none"
    BY <1>0 DEF Terminal
  <1> HIDE DEF new
  <1> QED BY <1>0, <1>1, <1>2, <1>3, <1>4, JobTurns

(* A claimed job belongs to a call that has decided what becomes of its files. *)
LEMMA RecClaimKeeps ==
  ASSUME VaultAssumption, VaultInv, VaultTyped', NEW r \in Reconcilers, NEW o \in Op, RecClaim(r, o)
  PROVE  VaultInv'
  <1>0. TypeOK /\ OpInv(o) /\ job[o] \in Jobs /\ job[o].status = "pending" /\ ~Settling(o)
    BY DEF VaultInv, VaultTyped, TypeOK, RecClaim, Pending
  <1>1. Free(o)
    BY <1>0 DEF OpInv, JobInv, Free, Settling, Shielded, Running, PC
  <1> DEFINE new == [job[o] EXCEPT !.lease = r, !.lapsed = FALSE]
  <1>2. new.status = job[o].status /\ new.wal = job[o].wal
    BY <1>0 DEF Jobs
  <1>3. SetJob(o, new)
    BY DEF RecClaim
  <1>4. \A q \in Reconcilers : rec'[q] = rec[q] \/ RunInv(q)'
    <2>1. /\ rec'[r] = [IdleRec EXCEPT !.pc = "partition", !.job = o]
          /\ \A q \in Reconcilers \ {r} : rec'[q] = rec[q]
      BY <1>0 DEF RecClaim, Turns, TypeOK
    <2>2. rec'[r].pc = "partition" /\ rec'[r].job = o
      BY <2>1 DEF IdleRec
    <2>3. Free(o)' /\ o \in Op'
      BY <1>1 DEF RecClaim, Calls, Free, Before, Shielded, Guarded, PC, Op
    <2>4. RunInv(r)'
      BY <2>2, <2>3 DEF RunInv
    <2> QED BY <2>1, <2>4
  <1>5. \A d \in Docs : Held(o, d) => new.status \notin Terminal /\ new.status # "none"
    BY <1>0, <1>2 DEF Terminal
  <1>6. UNCHANGED <<store, files, settled, active, op>>
    BY DEF RecClaim, Calls
  <1> HIDE DEF new
  <1> QED BY <1>1, <1>2, <1>3, <1>4, <1>5, <1>6, JobTurns

LEMMA RecPartitionKeeps ==
  ASSUME VaultAssumption, VaultInv, VaultTyped', NEW r \in Reconcilers, RecPartition(r) PROVE VaultInv'
  <1>0. rec[r].pc # "idle" /\ UNCHANGED <<store, files, settled, active, op>>
    BY DEF RecPartition, Working, Calls
  <1>a. PICK j \in Op :
         /\ j = rec[r].job /\ Free(j) /\ j \notin {"absent", "vault"} /\ OpInv(j) /\ RunInv(r)
         /\ TypeOK /\ rec[r] \in Recs /\ job[j] \in Jobs /\ op[j] \in Ops /\ op[j].docs \subseteq Docs
    BY <1>0, RunFacts
  <1> DEFINE new == [rec[r] EXCEPT !.pc = "move", !.restore = Owned(j),
                                   !.purge = op[j].docs \ Owned(j), !.kept = Owned(j) # {}]
  <1>1. CASE Turns(r, new) /\ UNCHANGED job
    <2>1. new.pc = "move" /\ new.restore = Owned(j) /\ new.purge = op[j].docs \ Owned(j) /\ new.job = j
      BY <1>a DEF Recs
    <2>2. rec'[r] = new
      BY <1>a, <1>1 DEF Turns, TypeOK
    <2> HIDE DEF new
    <2>4. Free(j)' /\ j \in Op'
      BY <1>0, <1>a DEF Free, Before, Shielded, Guarded, PC, Op
    <2>5. Owned(j) \subseteq op[j].docs /\ \A d \in op[j].docs \ Owned(j) : ~row[d]
      <3>1. CASE j \in Removals
        BY <1>a, <3>1 DEF Owned, VaultInv, World
      <3>2. CASE j \notin Removals
        BY <1>a, <3>2 DEF Owned
      <3> QED BY <3>1, <3>2
    <2>6. Plain => \A d \in Owned(j) : row[d]
      BY DEF Plain, Owned
    <2>7. \A d \in Docs : Held(j, d)' => d \in op[j].docs
      BY <1>0, <1>a DEF OpInv, HeldInv, Held, Loose, Plain, store, files
    <2>8. rec'[r].pc = "move" /\ rec'[r].job = j /\ rec'[r].restore = Owned(j)
          /\ rec'[r].purge = op[j].docs \ Owned(j)
      BY <1>a, <2>1, <2>2
    <2>9. op' = op /\ row' = row
      BY <1>0 DEF store
    <2>10. RunInv(r)'
      BY <1>a, <2>4, <2>5, <2>6, <2>7, <2>8, <2>9 DEF RunInv, Plain
    <2> QED BY <1>0, <1>1, <2>10, RunTurns DEF store
  <1>2. CASE Release(r, "pending")
    BY <1>0, <1>2, ReleaseKeeps
  <1>3. \/ Turns(r, new) /\ UNCHANGED job
        \/ Release(r, "pending")
    BY <1>a DEF RecPartition
  <1> QED BY <1>1, <1>2, <1>3

(* A file of the job goes back to the vault, or goes. *)
LEMMA FileMoves ==
  ASSUME VaultAssumption, VaultInv, VaultTyped', NEW r \in Reconcilers, rec[r].pc = "move",
         rec'[r].job = rec[r].job /\ rec'[r].pc = "move",
         \A q \in Reconcilers \ {r} : rec'[q] = rec[q],
         rec'[r].restore \subseteq rec[r].restore, rec'[r].purge \subseteq rec[r].purge,
         NEW j \in Op, j = rec[r].job, NEW d \in op[j].docs,
         \A e \in Docs \ {d} : file'[e] = file[e],
         rec[r].restore \ {d} \subseteq rec'[r].restore, rec[r].purge \ {d} \subseteq rec'[r].purge,
         file'[d] \in {file[d], "absent", "vault"},
         file'[d] = "absent" => file[d] = "absent" \/ ~row[d],
         file'[d] = "vault" => file[d] = "vault" \/ (Plain => row[d]),
         ~rec[r].failed \/ rec'[r].failed,
         ~Held(j, d)' \/ rec'[r].failed,
         UNCHANGED <<store, sidecar, job, settled, active, op>>
  PROVE  VaultInv'
  <1>0. Free(j) /\ OpInv(j) /\ RunInv(r) /\ op[j].docs \subseteq Docs /\ j \notin {"absent", "vault"}
    BY RunFacts
  <1>a. /\ rec[r].restore \subseteq op[j].docs /\ rec[r].purge \subseteq op[j].docs
        /\ \A e \in rec[r].purge : ~row[e]
        /\ Plain => \A e \in rec[r].restore : row[e]
        /\ \A e \in Docs : Held(j, e) => rec[r].failed \/ e \in rec[r].restore \/ e \in rec[r].purge
    BY <1>0 DEF RunInv
  <1>b. rec'[r].job = j /\ d \in op[j].docs /\ (Held(j, d)' => rec'[r].failed)
    OBVIOUS
  <1>1. Frame(j)
    BY <1>0, <1>b DEF Frame, Untouched, store, VaultInv, World
  <1>2. \A e \in Docs : Held(j, e)' => Held(j, e)
    BY <1>0, <1>b DEF Held, Loose, Plain, store
  <1>3. StaysFree(j)
    BY <1>0, <1>2 DEF StaysFree, Free, Before, Shielded, Guarded, PC, store
  <1>4. OpInv(j)'
    <2>1. CallInv(j)'
      BY <1>0 DEF OpInv, CallInv, Known, PC, store
    <2>2. JobInv(j)'
      BY <1>0 DEF OpInv, JobInv, PC, Before, Guarded, Shielded, Running, store
    <2>3. HeldInv(j)'
      BY <1>0, <1>2 DEF OpInv, HeldInv, PC
    <2>4. TrashInv(j)'
      <3>1. \A e \in Docs : file'[e] = j => file[e] = j
        BY <1>0, <1>b
      <3> QED BY <1>0, <3>1 DEF OpInv, TrashInv, PC
    <2>5. FreshInv(j)'
      BY <1>0 DEF OpInv, CallInv, FreshInv, Free, Before, Shielded, Guarded, PC, store
    <2> QED BY <2>1, <2>2, <2>3, <2>4, <2>5 DEF OpInv
  <1>5. RunInv(r)'
    <2>1. Free(j)' /\ j \in Op'
      BY <1>0, <1>3 DEF StaysFree, Op
    <2>2. \A e \in Docs : Held(j, e)' => rec'[r].failed \/ e \in rec'[r].restore \/ e \in rec'[r].purge
      BY <1>a, <1>b, <1>2
    <2>3. Plain => \A e \in rec'[r].restore : row[e]
      BY <1>a
    <2> QED BY <1>a, <1>b, <2>1, <2>2, <2>3 DEF RunInv, store, Plain
  <1>6. \A q \in Reconcilers : rec'[q] = rec[q] \/ RunInv(q)'
    BY <1>5
  <1> QED BY <1>0, <1>1, <1>3, <1>4, <1>6, StepKeeps

LEMMA RecRestoreKeeps ==
  ASSUME VaultAssumption, VaultInv, VaultTyped', NEW r \in Reconcilers, RecRestore(r) PROVE VaultInv'
  <1>0. rec[r].pc = "move" /\ UNCHANGED <<store, sidecar, job, settled, active, op>>
    BY DEF RecRestore, Working, Calls
  <1>2. PICK j \in Op :
         /\ j = rec[r].job /\ Free(j) /\ j \notin {"absent", "vault"} /\ OpInv(j) /\ RunInv(r)
         /\ TypeOK /\ rec[r] \in Recs /\ job[j] \in Jobs /\ op[j] \in Ops /\ op[j].docs \subseteq Docs
    BY <1>0, RunFacts
  <1>1. PICK d \in rec[r].restore :
           /\ \/ PutFile(d, IF file[d] = j THEN "vault" ELSE file[d])
              \/ UNCHANGED file
           /\ Turns(r, [rec[r] EXCEPT !.restore = @ \ {d}, !.failed = @ \/ file'[d] # "vault"])
    BY <1>2 DEF RecRestore
  <1>3. d \in op[j].docs /\ d \in Docs /\ (Plain => row[d])
    BY <1>0, <1>2 DEF RunInv
  <1>4. /\ rec'[r] = [rec[r] EXCEPT !.restore = @ \ {d}, !.failed = @ \/ file'[d] # "vault"]
        /\ \A q \in Reconcilers \ {r} : rec'[q] = rec[q]
    BY <1>1, <1>2 DEF Turns, TypeOK
  <1>5. /\ rec'[r].job = j /\ rec'[r].pc = "move" /\ rec'[r].restore = rec[r].restore \ {d}
        /\ rec'[r].purge = rec[r].purge
    BY <1>0, <1>2, <1>4 DEF Recs
  <1>6. rec[r].failed \/ file'[d] # "vault" => rec'[r].failed
    BY <1>2, <1>4 DEF Recs
  <1>7. /\ \A e \in Docs \ {d} : file'[e] = file[e]
        /\ file'[d] = file[d] \/ file'[d] = "vault"
    BY <1>1, <1>2, <1>3 DEF PutFile, TypeOK
  <1>8. Held(j, d)' => rec'[r].failed
    BY <1>0, <1>2, <1>3, <1>6 DEF Held, Loose, Plain, store
  <1>9. /\ file'[d] \in {file[d], "absent", "vault"}
        /\ file'[d] = "absent" => file[d] = "absent" \/ ~row[d]
        /\ file'[d] = "vault" => file[d] = "vault" \/ (Plain => row[d])
    BY <1>3, <1>7
  <1>10. /\ rec'[r].restore \subseteq rec[r].restore /\ rec'[r].purge \subseteq rec[r].purge
         /\ rec[r].restore \ {d} \subseteq rec'[r].restore /\ rec[r].purge \ {d} \subseteq rec'[r].purge
         /\ rec'[r].job = rec[r].job /\ rec'[r].pc = "move"
    BY <1>2, <1>5
  <1>11. ~rec[r].failed \/ rec'[r].failed
    BY <1>6
  <1> QED BY <1>0, <1>2, <1>3, <1>4, <1>7, <1>8, <1>9, <1>10, <1>11, FileMoves

LEMMA RecPurgeKeeps ==
  ASSUME VaultAssumption, VaultInv, VaultTyped', NEW r \in Reconcilers, RecPurge(r) PROVE VaultInv'
  <1>0. rec[r].pc = "move" /\ UNCHANGED <<store, sidecar, job, settled, active, op>>
    BY DEF RecPurge, Working, Calls
  <1>2. PICK j \in Op :
         /\ j = rec[r].job /\ Free(j) /\ j \notin {"absent", "vault"} /\ OpInv(j) /\ RunInv(r)
         /\ TypeOK /\ rec[r] \in Recs /\ job[j] \in Jobs /\ op[j] \in Ops /\ op[j].docs \subseteq Docs
    BY <1>0, RunFacts
  <1>1. PICK d \in rec[r].purge :
           \/ /\ PutFile(d, IF file[d] = j \/ (j \in Uploads /\ file[d] = "vault") THEN "absent" ELSE file[d])
              /\ Turns(r, [rec[r] EXCEPT !.purge = @ \ {d}])
           \/ /\ UNCHANGED file
              /\ Turns(r, [rec[r] EXCEPT !.purge = @ \ {d}, !.failed = TRUE])
    BY <1>2 DEF RecPurge
  <1>3. d \in op[j].docs /\ d \in Docs /\ ~row[d]
    BY <1>0, <1>2 DEF RunInv
  <1>4. CASE /\ PutFile(d, IF file[d] = j \/ (j \in Uploads /\ file[d] = "vault") THEN "absent" ELSE file[d])
             /\ Turns(r, [rec[r] EXCEPT !.purge = @ \ {d}])
    <2>1. rec'[r] = [rec[r] EXCEPT !.purge = @ \ {d}] /\ \A q \in Reconcilers \ {r} : rec'[q] = rec[q]
      BY <1>2, <1>4 DEF Turns, TypeOK
    <2>2. /\ rec'[r].job = j /\ rec'[r].pc = "move" /\ rec'[r].restore = rec[r].restore
          /\ rec'[r].purge = rec[r].purge \ {d} /\ rec'[r].failed = rec[r].failed
      BY <1>0, <1>2, <2>1 DEF Recs
    <2>3. /\ \A e \in Docs \ {d} : file'[e] = file[e]
          /\ file'[d] = IF file[d] = j \/ (j \in Uploads /\ file[d] = "vault") THEN "absent" ELSE file[d]
      BY <1>2, <1>3, <1>4 DEF PutFile, TypeOK
    <2>4. ~Held(j, d)'
      BY <1>2, <2>3 DEF Held, Loose
    <2>5. /\ file'[d] \in {file[d], "absent", "vault"}
          /\ file'[d] = "absent" => file[d] = "absent" \/ ~row[d]
          /\ file'[d] = "vault" => file[d] = "vault" \/ (Plain => row[d])
      BY <1>3, <2>3
    <2> QED BY <1>0, <1>2, <1>3, <2>1, <2>2, <2>3, <2>4, <2>5, FileMoves
  <1>5. CASE UNCHANGED file /\ Turns(r, [rec[r] EXCEPT !.purge = @ \ {d}, !.failed = TRUE])
    <2>1. /\ rec'[r] = [rec[r] EXCEPT !.purge = @ \ {d}, !.failed = TRUE]
          /\ \A q \in Reconcilers \ {r} : rec'[q] = rec[q]
      BY <1>2, <1>5 DEF Turns, TypeOK
    <2>2. /\ rec'[r].job = j /\ rec'[r].pc = "move" /\ rec'[r].restore = rec[r].restore
          /\ rec'[r].purge = rec[r].purge \ {d} /\ rec'[r].failed
      BY <1>0, <1>2, <2>1 DEF Recs
    <2> QED BY <1>0, <1>2, <1>3, <1>5, <2>1, <2>2, FileMoves
  <1> QED BY <1>1, <1>4, <1>5

LEMMA RecMovedKeeps ==
  ASSUME VaultAssumption, VaultInv, VaultTyped', NEW r \in Reconcilers, RecMoved(r) PROVE VaultInv'
  <1>0. /\ rec[r].pc = "move" /\ rec[r].restore = {} /\ rec[r].purge = {}
        /\ UNCHANGED <<store, files, settled, active, op>>
    BY DEF RecMoved, Working, Calls
  <1>1. CASE rec[r].failed
    BY <1>0, <1>1, ReleaseKeeps DEF RecMoved
  <1>2. CASE ~rec[r].failed
    <2>1. PICK j \in Op :
           /\ j = rec[r].job /\ Free(j) /\ j \notin {"absent", "vault"} /\ OpInv(j) /\ RunInv(r)
           /\ TypeOK /\ rec[r] \in Recs /\ job[j] \in Jobs /\ op[j] \in Ops /\ op[j].docs \subseteq Docs
      BY <1>0, RunFacts
    <2>2. PICK pc \in {"reset", "finish"} : Turns(r, [rec[r] EXCEPT !.pc = pc])
      BY <1>2 DEF RecMoved
    <2>3. rec'[r].pc = pc /\ rec'[r].job = j
      <3>1. rec'[r] = [rec[r] EXCEPT !.pc = pc]
        BY <2>1, <2>2 DEF Turns, TypeOK
      <3> QED BY <2>1, <3>1 DEF Recs
    <2>4. Free(j)' /\ j \in Op'
      BY <1>0, <2>1 DEF Free, Before, Shielded, Guarded, PC, Op
    <2>5. \A d \in Docs : ~Held(j, d)
      BY <1>0, <1>2, <2>1 DEF RunInv
    <2>6. \A d \in Docs : ~Held(j, d)'
      BY <1>0, <2>5 DEF Held, Loose, Plain, store, files
    <2>7. RunInv(r)'
      BY <2>3, <2>4, <2>6 DEF RunInv
    <2>8. UNCHANGED job
      BY <1>2 DEF RecMoved
    <2> QED BY <1>0, <2>2, <2>7, <2>8, RunTurns DEF store
  <1> QED BY <1>1, <1>2

LEMMA RecResetKeeps ==
  ASSUME VaultAssumption, VaultInv, VaultTyped', NEW r \in Reconcilers, RecReset(r) PROVE VaultInv'
  <1>0. /\ rec[r].pc = "reset" /\ UNCHANGED <<submission, landed, row, late, files, job, settled, active, op>>
    BY DEF RecReset, Working, Calls
  <1>1. PICK j \in Op :
         /\ j = rec[r].job /\ Free(j) /\ j \notin {"absent", "vault"} /\ OpInv(j) /\ RunInv(r)
         /\ TypeOK /\ rec[r] \in Recs /\ job[j] \in Jobs /\ op[j] \in Ops /\ op[j].docs \subseteq Docs
    BY <1>0, RunFacts
  <1>2. Turns(r, [rec[r] EXCEPT !.pc = "finish"])
    BY DEF RecReset
  <1>3. rec'[r].pc = "finish" /\ rec'[r].job = j
    <2>1. rec'[r] = [rec[r] EXCEPT !.pc = "finish"]
      BY <1>1, <1>2 DEF Turns, TypeOK
    <2> QED BY <1>1, <2>1 DEF Recs
  <1>4. Free(j)' /\ j \in Op'
    BY <1>0, <1>1 DEF Free, Before, Shielded, Guarded, PC, Op
  <1>5. \A d \in Docs : ~Held(j, d)'
    BY <1>0, <1>1 DEF RunInv, Held, Loose, Plain, files
  <1>6. RunInv(r)'
    BY <1>3, <1>4, <1>5 DEF RunInv
  <1>7. request.status = "gone" => request'.status = "gone"
    BY DEF RecReset, Reset
  <1> QED BY <1>0, <1>2, <1>6, <1>7, RunTurns

LEMMA RecFinishKeeps ==
  ASSUME VaultAssumption, VaultInv, VaultTyped', NEW r \in Reconcilers, RecFinish(r) PROVE VaultInv'
  <1>0. rec[r].pc = "finish" /\ UNCHANGED <<store, files, settled, active, op>>
    BY DEF RecFinish, Working, Calls
  <1>1. \A d \in Docs : ~Held(rec[r].job, d)
    BY <1>0, RunFacts DEF RunInv
  <1>2. \E status \in {"pending", "restored", "completed"} : Release(r, status)
    BY DEF RecFinish
  <1> QED BY <1>0, <1>1, <1>2, ReleaseKeeps DEF Terminal

LEMMA RecLostKeeps ==
  ASSUME VaultAssumption, VaultInv, VaultTyped', NEW r \in Reconcilers, RecLost(r) PROVE VaultInv'
  <1>1. rec'[r].pc = "idle"
    BY DEF RecLost, Turns, IdleRec, VaultInv, VaultTyped, TypeOK
  <1> QED BY <1>1, RunTurns DEF RecLost, Calls, RunInv, store

LEMMA RecStepKeeps ==
  ASSUME VaultAssumption, VaultInv, VaultTyped', NEW r \in Reconcilers, RecStep(r) PROVE VaultInv'
  BY RecClaimKeeps, RecPartitionKeeps, RecRestoreKeeps, RecPurgeKeeps, RecMovedKeeps, RecResetKeeps,
     RecFinishKeeps, RecLostKeeps DEF RecStep

-----------------------------------------------------------------------------
(* Time, the administrator, the database and the process *)

LEMMA ImportKeeps ==
  ASSUME VaultAssumption, VaultInv, VaultTyped', NEW o \in Op, ImportSidecar(o) PROVE VaultInv'
  <1>0. /\ TypeOK /\ OpInv(o) /\ job[o] \in Jobs /\ sidecar[o] \in Sidecars
        /\ UNCHANGED <<store, file, rec, settled, active, op>> /\ sidecar[o] # NoSidecar
    BY DEF VaultInv, VaultTyped, TypeOK, ImportSidecar, Calls
  <1>1. /\ sidecar'[o] = NoSidecar
        /\ \A q \in Op \ {o} : job'[q] = job[q] /\ sidecar'[q] = sidecar[q]
        /\ \/ job'[o] = job[o] /\ job[o].status # "none"
           \/ /\ job[o].status = "none"
              /\ job'[o].status = sidecar[o].status /\ job'[o].wal = sidecar[o].wal
    <2>1. sidecar'[o] = NoSidecar /\ \A q \in Op \ {o} : job'[q] = job[q] /\ sidecar'[q] = sidecar[q]
      BY <1>0 DEF ImportSidecar, SetJob, TypeOK
    <2>2. CASE job[o].status = "none"
      <3>1. job'[o] = [job[o] EXCEPT !.status = sidecar[o].status, !.wal = sidecar[o].wal]
        BY <1>0, <2>2 DEF ImportSidecar, SetJob, TypeOK
      <3>2. job'[o].status = sidecar[o].status /\ job'[o].wal = sidecar[o].wal
        BY <1>0, <3>1 DEF Jobs
      <3> QED BY <2>1, <2>2, <3>2
    <2>3. CASE job[o].status # "none"
      BY <2>1, <2>3 DEF ImportSidecar
    <2> QED BY <2>2, <2>3
  <1>2. Frame(o)
    BY <1>0, <1>1, Alone DEF Untouched, store
  <1>3. StaysFree(o)
    BY <1>0 DEF StaysFree, Free, Before, Shielded, Guarded, PC, Held, Loose, Plain, store
  <1>4. OpInv(o)'
    <2>1. CallInv(o)'
      BY <1>0 DEF OpInv, CallInv, Known, PC, store
    <2>2. JobInv(o)'
      BY <1>0, <1>1 DEF OpInv, JobInv, Free, PC, Before, Guarded, Shielded, Running, store, NoSidecar, Terminal
    <2>3. HeldInv(o)' /\ TrashInv(o)' /\ FreshInv(o)'
      BY <1>0, <1>1 DEF OpInv, HeldInv, TrashInv, FreshInv, PC, Held, Loose, Plain, store, NoSidecar, Terminal
    <2> QED BY <2>1, <2>2, <2>3 DEF OpInv
  <1> QED BY <1>0, <1>2, <1>3, <1>4, StepKeeps

LEMMA LapseKeeps ==
  ASSUME VaultAssumption, VaultInv, VaultTyped', NEW o \in Op, LeaseLapses(o) PROVE VaultInv'
  <1> DEFINE new == [job[o] EXCEPT !.lapsed = TRUE]
  <1>1. job[o] \in Jobs
    BY DEF VaultInv, VaultTyped, TypeOK
  <1>2. new.status = job[o].status /\ new.wal = job[o].wal
    BY <1>1 DEF Jobs
  <1>3. SetJob(o, new) /\ UNCHANGED <<store, files, settled, active, op, rec>>
    BY DEF LeaseLapses, Calls
  <1> HIDE DEF new
  <1> QED BY <1>2, <1>3, JobTurns

LEMMA WindowKeeps ==
  ASSUME VaultAssumption, VaultInv, VaultTyped', NEW o \in Op, WindowPasses(o) PROVE VaultInv'
  <1>0. /\ OpInv(o) /\ settled' = settled \cup {o} /\ late' = late \ {o} /\ ~(o \in Removals /\ Running(o))
        /\ UNCHANGED <<submission, landed, request, row, files, job, active, op, rec>>
    BY DEF VaultInv, WindowPasses
  <1>1. ~Before(o)
    BY <1>0 DEF WindowPasses, OpInv, JobInv
  <1>2. Frame(o)
    BY <1>0, Alone DEF Untouched, files
  <1>3. StaysFree(o)
    BY <1>0 DEF StaysFree, Free, Before, Shielded, Guarded, PC, Held, Loose, Plain, files
  <1>4. OpInv(o)'
    <2>1. CallInv(o)'
      BY <1>0 DEF OpInv, CallInv, Known, PC
    <2>2. JobInv(o)'
      BY <1>0, <1>1 DEF OpInv, JobInv, PC, Before, Guarded, Shielded, Running, files
    <2>3. HeldInv(o)' /\ TrashInv(o)' /\ FreshInv(o)'
      BY <1>0 DEF OpInv, HeldInv, TrashInv, FreshInv, PC, Held, Loose, Plain, files
    <2> QED BY <2>1, <2>2, <2>3 DEF OpInv
  <1> QED BY <1>0, <1>2, <1>3, <1>4, StepKeeps

(* A mutation that was sent is applied after all. *)
LEMMA LateKeeps ==
  ASSUME VaultAssumption, VaultInv, VaultTyped', NEW o \in Op, LateCommit(o) PROVE VaultInv'
  <1>0. /\ OpInv(o) /\ TypeOK /\ op[o].docs \subseteq Docs /\ o \in late /\ late' = late \ {o}
        /\ UNCHANGED <<files, job, rec, settled, active, op>>
    BY DEF VaultInv, VaultTyped, TypeOK, Ops, LateCommit, Calls
  <1>1. o \notin settled /\ ~Before(o)
    BY <1>0 DEF OpInv, CallInv, JobInv
  <1>2. \A q \in Op \ {o} : Untouched(q)
    BY <1>0 DEF Untouched, files
  <1>3. JobInv(o)' /\ TrashInv(o)'
    BY <1>0 DEF OpInv, JobInv, TrashInv, Free, PC, Before, Guarded, Shielded, Running, files
  <1>4. CASE UNCHANGED <<submission, landed, request, row>>
    <2>1. Frame(o)
      BY <1>0, <1>2, <1>4, Alone DEF files
    <2>2. StaysFree(o)
      BY <1>0, <1>4 DEF StaysFree, Free, Before, Shielded, Guarded, PC, Held, Loose, Plain, files
    <2>3. CallInv(o)' /\ HeldInv(o)' /\ FreshInv(o)'
      BY <1>0, <1>4 DEF OpInv, CallInv, HeldInv, FreshInv, Known, PC, Held, Loose, Plain, files
    <2> QED BY <1>0, <1>3, <2>1, <2>2, <2>3, StepKeeps DEF OpInv
  <1>5. CASE o \in Uploads /\ CanFinalize(o) /\ Finalize(o)
    <2>1. op[o].docs = Batch[o] /\ \A d \in Batch[o] : file[d] # "absent"
      BY <1>0, <1>1, <1>5, UploadFacts DEF OpInv, CallInv, FreshInv, CanFinalize, Before, PC
    <2>2. Frame(o) /\ \A d \in Batch[o] : row'[d]
      BY <1>0, <1>2, <1>5, <2>1, Recorded DEF files
    <2>3. StaysFree(o)
      BY <1>1, <1>5 DEF StaysFree, Free
    <2>4. CallInv(o)'
      BY <1>0, <1>5, UploadFacts DEF OpInv, CallInv, PC
    <2>5. HeldInv(o)'
      <3>1. \A d \in Docs : Held(o, d)' => Held(o, d)
        BY <1>0, <2>2 DEF Held, Loose, Plain, files
      <3> QED BY <1>0, <3>1 DEF OpInv, HeldInv, PC, files
    <2>6. FreshInv(o)'
      BY <1>5 DEF FreshInv, Finalize
    <2> QED BY <1>0, <1>3, <2>2, <2>3, <2>4, <2>5, <2>6, StepKeeps DEF OpInv
  <1>6. CASE /\ o \notin Uploads
             /\ \/ /\ row' = [d \in Docs |-> row[d] /\ d \notin op[o].docs]
                   /\ UNCHANGED <<submission, landed, request>>
                \/ o \in Removals /\ Erase
    <2>1. /\ \A d \in Docs : row'[d] => row[d]
          /\ landed' = landed /\ (submission' => submission)
          /\ ~submission' => request'.status = "gone" /\ \A d \in Docs : ~row'[d]
      <3>1. CASE Erase
        BY <1>0, <3>1 DEF Erase, TypeOK
      <3>2. CASE row' = [d \in Docs |-> row[d] /\ d \notin op[o].docs] /\ UNCHANGED <<submission, landed, request>>
        BY <3>2 DEF VaultInv, World
      <3> QED BY <1>6, <3>1, <3>2
    <2>2. Frame(o)
      BY <1>0, <1>2, <1>6, <2>1 DEF Frame, files, Plain, Op, VaultInv, World
    <2>3. StaysFree(o)
      BY <1>0, <1>6, <2>1 DEF StaysFree, Free, Before, Shielded, Guarded, PC, Held, Loose, Plain, Op, files
    <2>4. CallInv(o)'
      BY <1>0, <1>6, <2>1 DEF OpInv, CallInv, Known, PC
    <2>5. HeldInv(o)' /\ FreshInv(o)'
      BY <1>0, <1>6 DEF OpInv, HeldInv, FreshInv, PC, Held, Loose, files
    <2> QED BY <1>0, <1>3, <2>2, <2>3, <2>4, <2>5, StepKeeps DEF OpInv
  <1> QED BY <1>4, <1>5, <1>6 DEF LateCommit, VaultAssumption

(* The request alone: nothing else of the state depends on it. *)
LEMMA RequestOnlyKeeps ==
  ASSUME VaultAssumption, VaultInv, VaultTyped', request.status = "gone" => request'.status = "gone",
         UNCHANGED <<submission, landed, row, late, files, job, settled, active, op, rec>>
  PROVE  VaultInv'
  <1>1. ASSUME NEW o \in Op PROVE OpInv(o)'
    <2>0. OpInv(o)
      BY DEF VaultInv
    <2>1. CallInv(o)' /\ JobInv(o)'
      BY <2>0 DEF OpInv, CallInv, JobInv, Known, PC, Before, Guarded, Shielded, Running, files
    <2>2. HeldInv(o)' /\ TrashInv(o)' /\ FreshInv(o)'
      BY <2>0 DEF OpInv, HeldInv, TrashInv, FreshInv, PC, Held, Loose, Plain, files
    <2> QED BY <2>1, <2>2 DEF OpInv
  <1>2. ASSUME NEW r \in Reconcilers PROVE RunInv(r)'
    BY DEF VaultInv, RunInv, Free, PC, Before, Guarded, Shielded, Held, Loose, Plain, Op, files
  <1>3. World'
    BY DEF VaultInv, World, Known, Plain, files
  <1> QED BY <1>1, <1>2, <1>3 DEF VaultInv, Op

LEMMA CrashKeeps ==
  ASSUME VaultAssumption, VaultInv, VaultTyped', Crash PROVE VaultInv'
  <1>0. UNCHANGED <<store, files, job, settled>> /\ active' = {}
    BY DEF Crash
  <1>1. ASSUME NEW o \in Op PROVE OpInv(o)'
    <2>0. OpInv(o) /\ op[o] \in Ops
      BY DEF VaultInv, VaultTyped, TypeOK
    <2>1. /\ op'[o].docs = op[o].docs /\ op'[o].left = op[o].left /\ op'[o].staged = op[o].staged
          /\ op'[o].lost = op[o].lost /\ op'[o].wal = op[o].wal
          /\ op'[o].pc = IF op[o].pc = "idle" THEN "idle" ELSE "done"
      <3>1. op'[o] = IF op[o].pc = "idle" THEN op[o] ELSE [op[o] EXCEPT !.pc = "done"]
        BY DEF Crash
      <3> QED BY <2>0, <3>1 DEF Ops
    <2>2. CallInv(o)'
      BY <1>0, <2>0, <2>1 DEF OpInv, CallInv, Known, PC, store
    <2>3. JobInv(o)'
      BY <1>0, <2>0, <2>1 DEF OpInv, JobInv, PC, Before, Guarded, Shielded, Running, files, store
    <2>4. HeldInv(o)'
      BY <1>0, <2>0, <2>1 DEF OpInv, HeldInv, PC, Held, Loose, Plain, files, store
    <2>5. TrashInv(o)' /\ FreshInv(o)'
      BY <1>0, <2>0, <2>1 DEF OpInv, JobInv, Before, TrashInv, FreshInv, PC, files, store
    <2> QED BY <2>2, <2>3, <2>4, <2>5 DEF OpInv
  <1>2. ASSUME NEW r \in Reconcilers PROVE RunInv(r)'
    BY <1>2 DEF Crash, RunInv, IdleRec
  <1>3. World'
    BY <1>0 DEF VaultInv, World, Known, Plain, files, store
  <1> QED BY <1>1, <1>2, <1>3 DEF VaultInv, Op

LEMMA StepKeepsInv == ASSUME VaultAssumption, VaultInv, [Next]_vars PROVE VaultInv'
  <1>0. VaultTyped'
    BY StepTyped DEF VaultInv
  <1>1. ASSUME OpStep PROVE VaultInv'
    BY <1>0, <1>1, UploadStepKeeps, DeleteStepKeeps, RemoveStepKeeps DEF OpStep
  <1>2. ASSUME NEW r \in Reconcilers, RecStep(r) PROVE VaultInv'
    BY <1>0, <1>2, RecStepKeeps
  <1>3. ASSUME NEW o \in Op, ImportSidecar(o) \/ LeaseLapses(o) \/ WindowPasses(o) \/ LateCommit(o)
        PROVE VaultInv'
    BY <1>0, <1>3, ImportKeeps, LapseKeeps, WindowKeeps, LateKeeps
  <1>4. CASE ClaimGoesStale
    <2>1. request.status = "gone" => request'.status = "gone"
      BY <1>4 DEF ClaimGoesStale
    <2> QED BY <1>0, <1>4, <2>1, RequestOnlyKeeps DEF ClaimGoesStale, Calls
  <1>5. CASE Revoke
    <2>1. request.status = "gone" => request'.status = "gone"
      BY <1>5 DEF Revoke
    <2> QED BY <1>0, <1>5, <2>1, RequestOnlyKeeps DEF Revoke, Calls
  <1>6. CASE Crash
    BY <1>0, <1>6, CrashKeeps
  <1>7. CASE UNCHANGED vars
    BY <1>0, <1>7, RequestOnlyKeeps DEF vars, store
  <1> QED BY <1>1, <1>2, <1>3, <1>4, <1>5, <1>6, <1>7 DEF Next

LEMMA InvAtFirst == ASSUME VaultAssumption, Init PROVE VaultInv
  <1>0. VaultTyped
    BY TypedAtFirst DEF VaultTyped, RunsHaveJobs, Init, IdleRec
  <1>1. ASSUME NEW o \in Op PROVE OpInv(o)
    <2>1. /\ op[o] = IdleOp /\ job[o] = NoJob /\ sidecar[o] = NoSidecar
          /\ settled = {} /\ active = {} /\ late = {} /\ landed = {}
      BY DEF Init
    <2>2. /\ op[o].pc = "idle" /\ op[o].docs = {} /\ op[o].left = {} /\ op[o].staged = {}
          /\ ~op[o].lost /\ op[o].wal /\ job[o].status = "none" /\ sidecar[o].status = "none"
      BY <2>1 DEF IdleOp, NoJob, NoSidecar
    <2>3. o \notin {"absent", "vault"}
      BY DEF VaultAssumption
    <2>4. \A d \in Docs : ~Held(o, d) /\ file[d] # o
      BY <2>3 DEF Init, Held, Loose, VaultAssumption
    <2>5. CallInv(o)
      BY <2>1, <2>2 DEF CallInv, PC
    <2>6. JobInv(o)
      BY <2>1, <2>2 DEF JobInv, PC, Before, Guarded, Shielded, Running, Terminal
    <2>7. HeldInv(o) /\ TrashInv(o)
      BY <2>4 DEF HeldInv, TrashInv
    <2>8. FreshInv(o)
      <3>1. PC(o) = "idle" /\ o \notin late
        BY <2>1, <2>2 DEF PC
      <3> QED BY <3>1 DEF FreshInv
    <2> QED BY <2>5, <2>6, <2>7, <2>8 DEF OpInv
  <1>2. \A r \in Reconcilers : RunInv(r)
    BY DEF Init, IdleRec, RunInv
  <1>3. World
    BY DEF Init, World, Known, VaultAssumption
  <1> QED BY <1>0, <1>1, <1>2, <1>3 DEF VaultInv
-----------------------------------------------------------------------------
(* What the invariant gives *)

LEMMA Invariant == ASSUME VaultAssumption PROVE Spec => []VaultInv
  <1>1. Init => VaultInv
    BY InvAtFirst
  <1>2. VaultInv /\ [Next]_vars => VaultInv'
    BY StepKeepsInv
  <1> QED BY <1>1, <1>2, PTL DEF Spec

(* A file in a trash directory has a job that is not finished. *)
LEMMA HeldIsCovered == ASSUME VaultAssumption, VaultInv, NEW d \in Docs, file[d] \in Op PROVE Covered(file[d])
  <1>1. PICK o \in Op : o = file[d]
    OBVIOUS
  <1>2. HeldInv(o) /\ job[o] \in Jobs /\ sidecar[o] \in Sidecars
    BY DEF VaultInv, OpInv, VaultTyped, TypeOK
  <1>3. /\ job[o].status \notin Terminal /\ sidecar[o].status \notin Terminal
        /\ job[o].status # "none" \/ sidecar[o].status # "none"
    BY <1>1, <1>2 DEF HeldInv, Held
  <1>4. /\ job[o].status \in Pending \cup Terminal \cup {"none"}
        /\ sidecar[o].status \in Pending \cup Terminal \cup {"none"}
    BY <1>2 DEF Jobs, Sidecars
  <1> QED BY <1>1, <1>3, <1>4 DEF Covered

(* Nothing is forgotten in the trash: whatever failed or crashed, a file     *)
(* there belongs to a call under way or to a job that is still pending.      *)
THEOREM TrashAlwaysCovered == ASSUME VaultAssumption PROVE Spec => []TrashIsCovered
  <1>1. VaultInv => TrashIsCovered
    BY HeldIsCovered DEF TrashIsCovered
  <1> QED BY <1>1, Invariant, PTL

(* A document the database knows always has its file, in the vault or in a   *)
(* trash directory an unfinished job will empty.                             *)
THEOREM DocumentsAlwaysKept == ASSUME VaultAssumption PROVE Spec => []DocumentsKept
  <1>1. VaultInv => DocumentsKept
    <2> SUFFICES ASSUME VaultInv, NEW d \in Docs, row[d]
                 PROVE  file[d] = "vault" \/ (file[d] \in Op /\ Covered(file[d]))
      BY DEF DocumentsKept
    <2>1. file[d] # "absent" /\ file[d] \in {"absent", "vault"} \cup Op
      BY DEF VaultInv, World, VaultTyped, TypeOK
    <2> QED BY <2>1, HeldIsCovered
  <1> QED BY <1>1, Invariant, PTL

(* Uploads alone leave nothing behind: when all have come to rest, whatever  *)
(* was refused, failed or crashed, the vault holds no file without a row.    *)
THEOREM UploadsLeaveNoOrphans == ASSUME VaultAssumption, Plain PROVE Spec => []NoOrphans
  <1>1. VaultInv => NoOrphans
    <2> SUFFICES ASSUME VaultInv, Quiescent, NEW d \in Docs, file[d] = "vault", ~row[d] PROVE FALSE
      BY DEF NoOrphans
    <2>1. PICK u \in Uploads : d \in Batch[u]
      BY DEF VaultInv, World
    <2>2. u \in Op /\ HeldInv(u) /\ job[u] \in Jobs
      BY DEF VaultInv, OpInv, VaultTyped, TypeOK, Op
    <2>3. Held(u, d)
      BY <2>1 DEF Held, Loose
    <2>4. job[u].status \notin Terminal /\ (job[u].status # "none" \/ sidecar[u].status # "none")
      BY <2>2, <2>3 DEF HeldInv
    <2>5. job[u].status \in Pending \cup Terminal \cup {"none"}
      BY <2>2 DEF Jobs
    <2>6. job[u].status \notin Pending /\ sidecar[u] = NoSidecar
      BY <2>2 DEF Quiescent
    <2> QED BY <2>4, <2>5, <2>6 DEF NoSidecar
  <1> QED BY <1>1, Invariant, PTL

-----------------------------------------------------------------------------
(* The upload request *)

RequestFields == [status : STRING, stale : BOOLEAN, batches : Nat]

(* The request is always a record with the fields of its row; what the rest  *)
(* of the state holds does not matter to it.                                 *)
RequestIsRow ==
  request = [status |-> request.status, stale |-> request.stale, batches |-> request.batches]

(* What one step may do to the request. *)
Requests ==
  \/ request' = request
  \/ request.status # "revoked" /\ RequestIsRow'
  \/ request'.status \in {"revoked", "gone"} /\ RequestIsRow'

(* A finished upload replaces the request only while it is uploading. *)
LEMMA FinalizedRequest == ASSUME NEW u, CanFinalize(u), Finalize(u) PROVE Requests
  BY DEF CanFinalize, Finalize, Requests, RequestIsRow

(* A reset looks at the status first. *)
LEMMA ResetRequest == ASSUME RequestIsRow, NEW u, request' = Reset(u) PROVE Requests
  BY DEF Reset, Requests, RequestIsRow

(* Erased with its record. *)
LEMMA ErasedRequest == ASSUME RequestIsRow, Erase PROVE Requests
  BY DEF Erase, Requests, RequestIsRow

(* Every step does one of these to the request. *)
LEMMA RequestSteps == ASSUME RequestIsRow, [Next]_vars PROVE Requests
  <1>1. ASSUME NEW u, UploadStep(u) PROVE Requests
    <2>1. CASE UploadRead(u)
      BY <2>1 DEF UploadRead, Openable, Requests, RequestIsRow
    <2>2. CASE UploadClaim(u)
      BY <2>2 DEF UploadClaim, Openable, Requests, RequestIsRow
    <2>3. CASE UploadCommit(u)
      BY <2>3, FinalizedRequest DEF UploadCommit, Requests, store
    <2>4. CASE SimCommit(u)
      BY <2>4, FinalizedRequest DEF SimCommit, Requests, store
    <2>5. CASE UploadReset(u)
      BY <2>5, ResetRequest DEF UploadReset, Requests
    <2>6. CASE UploadUndo(u)
      BY <2>6 DEF UploadUndo, Requests
    <2>7. CASE SimRead(u) \/ UploadIntent(u) \/ UploadWrite(u) \/ UploadInspect(u) \/ UploadPreserve(u)
               \/ Conclude(u)
      BY <2>7 DEF SimRead, UploadIntent, UploadWrite, UploadInspect, UploadPreserve, Conclude, store, Requests
    <2> QED BY <1>1, <2>1, <2>2, <2>3, <2>4, <2>5, <2>6, <2>7 DEF UploadStep
  <1>2. ASSUME NEW x, DeleteStep(x) PROVE Requests
    BY <1>2 DEF DeleteStep, DeleteRead, DeleteIntent, DeleteStage, DeleteCommit, DeleteInspect,
                DeleteRestore, DeletePurge, Conclude, store, Requests
  <1>3. ASSUME NEW m, RemoveStep(m) PROVE Requests
    <2>1. CASE RemoveCommit(m)
      BY <2>1, ErasedRequest DEF RemoveCommit, Requests, store
    <2>2. CASE ~RemoveCommit(m)
      BY <1>3, <2>2 DEF RemoveStep, RemoveRead, RemoveIntent, RemoveStage, RemoveRestore, RemoveConfirm,
                        RemovePurge, Conclude, store, Requests
    <2> QED BY <2>1, <2>2
  <1>4. ASSUME NEW r, RecStep(r) PROVE Requests
    <2>1. CASE RecReset(r)
      BY <2>1, ResetRequest DEF RecReset
    <2>2. CASE RecPartition(r)
      BY <2>2 DEF RecPartition, store, Requests
    <2>3. CASE ~(RecReset(r) \/ RecPartition(r))
      BY <1>4, <2>3 DEF RecStep, RecClaim, RecRestore, RecPurge, RecMoved, RecFinish, RecLost, store, Requests
    <2> QED BY <2>1, <2>2, <2>3
  <1>5. ASSUME NEW o, LateCommit(o) PROVE Requests
    BY <1>5, FinalizedRequest, ErasedRequest DEF LateCommit, Requests
  <1>6. CASE ClaimGoesStale
    BY <1>6 DEF ClaimGoesStale, Requests, RequestIsRow
  <1>7. CASE Revoke
    BY <1>7 DEF Revoke, Requests, RequestIsRow
  <1>8. ASSUME NEW o, ImportSidecar(o) \/ LeaseLapses(o) \/ WindowPasses(o) PROVE Requests
    BY <1>8 DEF ImportSidecar, LeaseLapses, WindowPasses, store, Requests
  <1>9. CASE Crash \/ UNCHANGED vars
    BY <1>9 DEF Crash, vars, store, Requests
  <1> QED BY <1>1, <1>2, <1>3, <1>4, <1>5, <1>6, <1>7, <1>8, <1>9 DEF Next, OpStep

(* A revoked link stays revoked, however late an upload, a cleanup or a      *)
(* reconciler finishes (resetSecureUploadRequestIfUploading).                *)
THEOREM RevokedForGood == Spec => RevokedStays
  <1>1. Init => RequestIsRow
    BY DEF Init, RequestIsRow
  <1>2. RequestIsRow /\ [Next]_vars => RequestIsRow'
    BY RequestSteps DEF Requests, RequestIsRow
  <1>3. RequestIsRow /\ [Next]_vars => [StaysRevoked]_vars
    BY RequestSteps DEF Requests, StaysRevoked
  <1> QED BY <1>1, <1>2, <1>3, PTL DEF Spec, RevokedStays

==================================================================================
