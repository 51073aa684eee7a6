---------------------------- MODULE SecureDocuments ----------------------------
(***************************************************************************)
(* The secure document vault of one CRM record: upload batches, SIM        *)
(* uploads, the deletion of one document, the deletion of the whole        *)
(* record, and the reconciler that finishes what a failure or a crash left *)
(* behind (documentVault.js, submissions.js, pursuedDealsSimUpload.js,     *)
(* secureDocumentCleanupState.js).                                         *)
(*                                                                         *)
(* Rows live in the database and files on the volume: no transaction spans *)
(* both.  Every operation first writes a cleanup job (to the database, or  *)
(* to a sidecar file when that fails), and deletion moves a file to the    *)
(* trash directory of its operation before it deletes the row.  One action *)
(* is the code between two awaits that may suspend.                        *)
(***************************************************************************)
EXTENDS Naturals, FiniteSets

CONSTANTS
  Docs,         \* document ids
  Stored,       \* the documents already in the vault
  Uploads,      \* calls of uploadSecureDocuments and receivePursuitSimUpload
  Sims,         \* those of the second kind
  Batch,        \* Batch[u]: the documents upload u brings
  Deletes,      \* calls of deleteSecureDocument
  Removals,     \* calls of deleteDashboardSubmission
  Reconcilers,  \* reconciliation runs
  None,
  LostReplies,  \* whether the database may apply a mutation without answering
  MaxFaults,    \* bound on failed file and database operations
  MaxCrashes    \* bound on restarts

Op == Uploads \cup Deletes \cup Removals

(* A document id is made for the document that is uploaded under it *)
VaultAssumption ==
  /\ Stored \subseteq Docs
  /\ Sims \subseteq Uploads
  /\ Uploads \cap Deletes = {} /\ Uploads \cap Removals = {} /\ Deletes \cap Removals = {}
  /\ Op \cap {"absent", "vault"} = {}
  /\ Batch \in [Uploads -> (SUBSET Docs) \ {{}}]
  /\ \A u \in Uploads : /\ Batch[u] \cap Stored = {}
                        /\ \A v \in Uploads \ {u} : Batch[u] \cap Batch[v] = {}
  /\ None \notin Reconcilers
  /\ LostReplies \in BOOLEAN
  /\ MaxFaults \in Nat
  /\ MaxCrashes \in Nat

VARIABLES
  submission,  \* whether the CRM record exists
  request,     \* the upload request: status, whether its claim is stale, batches
  row,         \* row[d]: the database has a row for document d
  file,        \* file[d]: "absent", "vault", or the operation whose trash holds it
  job,         \* job[o]: the cleanup job of operation o in the database
  sidecar,     \* sidecar[o]: the same job in its sidecar file
  settled,     \* the operations whose settlement window has passed
  active,      \* the intents registered in memory (activeCleanupIntentIds)
  op,          \* the calls
  landed,      \* the uploads whose activity is on record
  late,        \* mutations that were sent and may still be applied
  rec,         \* the reconciliation runs
  faults, crashes

store == <<submission, request, row, landed, late>>
files == <<file, sidecar>>
vars == <<store, files, job, settled, active, op, rec, faults, crashes>>

-----------------------------------------------------------------------------
(* Types and initial state *)

Openable == {"open", "received"}
Pending == {"pending"}
Terminal == {"completed", "restored"}
NoSidecar == [status |-> "none", wal |-> FALSE]
NoJob == [status |-> "none", wal |-> FALSE, lease |-> None, lapsed |-> FALSE]
IdleOp == [pc |-> "idle", docs |-> {}, left |-> {}, staged |-> {},
           base |-> 0, lost |-> FALSE, failed |-> FALSE, end |-> "pending", wal |-> TRUE]
IdleRec == [pc |-> "idle", job |-> None, restore |-> {}, purge |-> {},
            kept |-> FALSE, failed |-> FALSE]
OpPC == {"idle", "claim", "intent", "write", "stage", "commit", "inspect", "preserve",
         "undo", "reset", "restore", "confirm", "purge", "close", "done"}

Jobs == [status : Pending \cup Terminal \cup {"none"}, wal : BOOLEAN,
         lease : Reconcilers \cup {None}, lapsed : BOOLEAN]
Sidecars == [status : Pending \cup Terminal \cup {"none"}, wal : BOOLEAN]
Ops == [pc : OpPC, docs : SUBSET Docs, left : SUBSET Docs, staged : SUBSET Docs, base : Nat,
        lost : BOOLEAN, failed : BOOLEAN, end : Pending \cup Terminal, wal : BOOLEAN]
Recs == [pc : {"idle", "partition", "move", "reset", "finish"}, job : Op \cup {None},
         restore : SUBSET Docs, purge : SUBSET Docs, kept : BOOLEAN, failed : BOOLEAN]

TypeOK ==
  /\ submission \in BOOLEAN
  /\ request \in [status : Openable \cup {"uploading", "completed", "revoked", "gone"},
                  stale : BOOLEAN, batches : Nat]
  /\ row \in [Docs -> BOOLEAN]
  /\ file \in [Docs -> {"absent", "vault"} \cup Op]
  /\ job \in [Op -> Jobs] /\ sidecar \in [Op -> Sidecars]
  /\ op \in [Op -> Ops] /\ rec \in [Reconcilers -> Recs]
  /\ settled \subseteq Op /\ active \subseteq Op /\ late \subseteq Op
  /\ landed \subseteq Uploads
  /\ faults \in 0..MaxFaults /\ crashes \in 0..MaxCrashes

Init ==
  /\ submission = TRUE
  /\ request = [status |-> "open", stale |-> FALSE, batches |-> 0]
  /\ row = [d \in Docs |-> d \in Stored]
  /\ file = [d \in Docs |-> IF d \in Stored THEN "vault" ELSE "absent"]
  /\ job = [o \in Op |-> NoJob]
  /\ sidecar = [o \in Op |-> NoSidecar]
  /\ settled = {} /\ active = {} /\ late = {} /\ landed = {}
  /\ op = [o \in Op |-> IdleOp]
  /\ rec = [r \in Reconcilers |-> IdleRec]
  /\ faults = 0 /\ crashes = 0

At(o, pc) == op[o].pc = pc
Running(o) == op[o].pc \notin {"idle", "done"}
Becomes(o, call) == op' = [op EXCEPT ![o] = call]
SetJob(o, new) == job' = [job EXCEPT ![o] = new]
Goto(o, pc) == Becomes(o, [op[o] EXCEPT !.pc = pc])
Close(o, end, wal) == Becomes(o, [op[o] EXCEPT !.pc = "close", !.end = end, !.wal = wal])
Fault == faults < MaxFaults /\ faults' = faults + 1
Fine == faults' = faults
KeepFiles == UNCHANGED files
Quiet == UNCHANGED <<settled, rec, crashes>>
(* A mutation is applied within the settlement window of its intent, or never *)
Sent(o) == IF o \in settled THEN late ELSE late \cup {o}
PutFile(d, place) == file' = [file EXCEPT ![d] = place]

-----------------------------------------------------------------------------
(* The cleanup job in the database and in its sidecar *)

(* persistSecureDocumentCleanupJob: the write-ahead intent *)
Persist(o, next) ==
  \/ /\ SetJob(o, [NoJob EXCEPT !.status = "pending", !.wal = TRUE])
     /\ UNCHANGED sidecar /\ Fine /\ next
  \/ /\ Fault
     /\ sidecar' = [sidecar EXCEPT ![o] = [status |-> "pending", wal |-> TRUE]]
     /\ UNCHANGED job /\ next

(* updateSecureDocumentCleanupJobState: a row that is leased or missing   *)
(* refuses the update, and the state goes to the sidecar                   *)
UpdateJob(o, end, wal) ==
  \/ /\ job[o].status # "none" /\ job[o].lease = None
     /\ SetJob(o, [job[o] EXCEPT !.status = end, !.wal = wal])
     /\ UNCHANGED sidecar /\ Fine
  \/ /\ \/ /\ job[o].status = "none" \/ job[o].lease # None
           /\ Fine
        \/ Fault
     /\ sidecar' = [sidecar EXCEPT ![o] = [status |-> end, wal |-> wal]]
     /\ UNCHANGED job
  \/ Fault /\ UNCHANGED <<job, sidecar>>

(* The last update of an operation, with the end of its registration *)
Conclude(o) ==
  /\ At(o, "close")
  /\ UpdateJob(o, op[o].end, op[o].wal)
  /\ active' = active \ {o}
  /\ Goto(o, "done")
  /\ UNCHANGED <<store, file>> /\ Quiet

-----------------------------------------------------------------------------
(* Uploads *)

(* getSecureUploadContext, recoverStaleUploadRequest and the limits *)
UploadRead(u) ==
  /\ At(u, "idle") /\ u \in Uploads \ Sims /\ submission
  /\ request.status \in Openable \/ (request.status = "uploading" /\ request.stale)
  /\ request' = IF request.status = "uploading"
                THEN [request EXCEPT !.status = "open", !.stale = FALSE] ELSE request
  /\ Becomes(u, [op[u] EXCEPT !.pc = "claim", !.docs = Batch[u], !.left = Batch[u],
                              !.base = request.batches])
  /\ UNCHANGED <<submission, landed, row, late, files, job, active>> /\ Fine /\ Quiet

(* receivePursuitSimUpload, up to its intent; it claims no request *)
SimRead(u) ==
  /\ At(u, "idle") /\ u \in Sims /\ submission
  /\ Becomes(u, [op[u] EXCEPT !.pc = "intent", !.docs = Batch[u], !.left = Batch[u]])
  /\ UNCHANGED <<store, files, job, active>> /\ Fine /\ Quiet

(* claimSecureUploadRequest *)
UploadClaim(u) ==
  /\ At(u, "claim")
  /\ \/ /\ request.status \in Openable \/ (request.status = "uploading" /\ request.stale)
        /\ request' = [request EXCEPT !.status = "uploading", !.stale = FALSE]
        /\ Goto(u, "intent")
     \/ /\ ~(request.status \in Openable \/ (request.status = "uploading" /\ request.stale))
        /\ Goto(u, "done")
        /\ UNCHANGED request
  /\ UNCHANGED <<submission, landed, row, late, files, job, active>> /\ Fine /\ Quiet

(* The intent is on disk before the first byte *)
UploadIntent(u) ==
  /\ At(u, "intent") /\ u \in Uploads
  /\ Persist(u, /\ active' = active \cup {u}
                /\ Goto(u, "write"))
  /\ UNCHANGED <<store, file>> /\ Quiet

UploadWrite(u) ==
  /\ At(u, "write") /\ op[u].left # {}
  /\ \E d \in op[u].left :
       \/ /\ PutFile(d, "vault") /\ Fine
          /\ Becomes(u, [op[u] EXCEPT !.left = @ \ {d}])
       \/ /\ Fault /\ UNCHANGED file
          /\ Becomes(u, [op[u] EXCEPT !.pc = "undo", !.left = op[u].docs])
  /\ UNCHANGED <<store, sidecar, job, active>> /\ Quiet

(* finalize_secure_document_upload and recordPursuitSimIntake: the rows of  *)
(* the batch appear with the request's new status, in one transaction with   *)
(* an activity, whose id lets it in only once                                *)
CanFinalize(u) ==
  u \notin landed /\ IF u \in Sims THEN submission ELSE request.status = "uploading"

(* Mutant of Finalize: the request keeps the claim of another upload *)
FinalizeBadly(u) ==
  /\ row' = [d \in Docs |-> row[d] \/ d \in op[u].docs]
  /\ request' = [status |-> "received", stale |-> FALSE, batches |-> op[u].base - 1]
  /\ landed' = landed \cup {u}
  /\ UNCHANGED submission

Finalize(u) ==
  /\ row' = [d \in Docs |-> row[d] \/ d \in op[u].docs]
  /\ IF u \in Sims THEN UNCHANGED request
     ELSE \E s \in {"received", "completed"} :
            request' = [status |-> s, stale |-> FALSE, batches |-> op[u].base + 1]
  /\ landed' = landed \cup {u}
  /\ UNCHANGED submission

(* The commit of an upload.  Without an answer the database may still apply *)
(* it later; such a commit is tried once more, then the outcome is open.    *)
UploadCommit(u) ==
  /\ At(u, "write") /\ op[u].left = {} /\ u \notin Sims
  /\ \/ /\ CanFinalize(u) /\ Finalize(u)
        /\ Close(u, "completed", TRUE)
        /\ active' = active \ {u}
        /\ UNCHANGED late /\ Fine
     \/ /\ ~CanFinalize(u)
        /\ Becomes(u, [op[u] EXCEPT !.pc = IF op[u].lost THEN "inspect" ELSE "undo",
                                    !.left = op[u].docs])
        /\ UNCHANGED <<store, active>> /\ Fine
     \/ /\ Fault
        /\ late' = IF LostReplies THEN Sent(u) ELSE late
        /\ Becomes(u, [op[u] EXCEPT !.pc = IF ~LostReplies THEN "undo"
                                           ELSE IF op[u].lost THEN "inspect" ELSE "write",
                                    !.left = IF LostReplies /\ ~op[u].lost THEN {} ELSE op[u].docs,
                                    !.lost = LostReplies])
        /\ UNCHANGED <<submission, landed, request, row, active>>
  /\ UNCHANGED <<files, job>> /\ Quiet

(* recordPursuitSimIntake: a refusal discards the file, an error keeps it for *)
(* the reconciler                                                              *)
SimCommit(u) ==
  /\ At(u, "write") /\ op[u].left = {} /\ u \in Sims
  /\ \/ /\ CanFinalize(u) /\ Finalize(u)
        /\ Close(u, "completed", TRUE)
        /\ active' = active \ {u}
        /\ UNCHANGED late /\ Fine
     \/ /\ ~CanFinalize(u)
        /\ Becomes(u, [op[u] EXCEPT !.pc = "undo", !.left = op[u].docs])
        /\ UNCHANGED <<store, active>> /\ Fine
     \/ /\ Fault
        /\ late' = IF LostReplies THEN Sent(u) ELSE late
        /\ Goto(u, "done")
        /\ active' = active \ {u}
        /\ UNCHANGED <<submission, landed, request, row>>
  /\ UNCHANGED <<files, job>> /\ Quiet

(* inspectUploadFinalization after an unanswered commit *)
UploadInspect(u) ==
  /\ At(u, "inspect") /\ u \in Uploads
  /\ \/ /\ Fine
        /\ IF request.status # "gone" /\ (\A d \in op[u].docs : row[d])
              /\ request.batches >= op[u].base + 1
           THEN Close(u, "completed", TRUE)
           ELSE Becomes(u, [op[u] EXCEPT !.pc = "preserve", !.left = op[u].docs])
     \/ Fault /\ Becomes(u, [op[u] EXCEPT !.pc = "preserve", !.left = op[u].docs])
  /\ UNCHANGED <<store, files, job, active>> /\ Quiet

(* preserveAmbiguousUploadFiles: into the trash, until the reconciler knows *)
UploadPreserve(u) ==
  /\ At(u, "preserve")
  /\ \/ /\ op[u].left # {}
        /\ \E d \in op[u].left :
             /\ \/ PutFile(d, IF file[d] = "vault" THEN u ELSE file[d]) /\ Fine
                \/ Fault /\ UNCHANGED file
             /\ Becomes(u, [op[u] EXCEPT !.left = @ \ {d}])
     \/ /\ op[u].left = {} /\ Close(u, "pending", TRUE)
        /\ Fine /\ UNCHANGED file
  /\ UNCHANGED <<store, sidecar, job, active>> /\ Quiet

(* cleanupPartialUploadAttempt and discardUpload: rows, then files *)
UploadUndo(u) ==
  /\ At(u, "undo")
  /\ \/ /\ op[u].left # {}
        /\ \E d \in op[u].left :
             /\ row' = [row EXCEPT ![d] = FALSE]
             /\ \/ /\ PutFile(d, IF file[d] = "vault" THEN "absent" ELSE file[d])
                   /\ Fine
                   /\ Becomes(u, [op[u] EXCEPT !.left = @ \ {d}])
                \/ /\ Fault /\ UNCHANGED file
                   /\ Becomes(u, [op[u] EXCEPT !.left = @ \ {d}, !.failed = TRUE])
     \/ /\ op[u].left = {}
        /\ Goto(u, "reset") /\ Fine /\ UNCHANGED <<row, file>>
  /\ UNCHANGED <<submission, landed, request, late, sidecar, job, active>> /\ Quiet

(* Mutant of Reset: updateSecureUploadRequest, which does not look at the status *)
ResetAlways(u) == [request EXCEPT !.status = "open", !.stale = FALSE]

(* resetSecureUploadRequestIfUploading *)
Reset(u) ==
  IF request.status = "uploading"
  THEN [request EXCEPT !.status = IF op[u].base > 0 THEN "received" ELSE "open", !.stale = FALSE]
  ELSE request

UploadReset(u) ==
  /\ At(u, "reset")
  /\ request' = IF u \in Sims THEN request ELSE Reset(u)
  /\ Close(u, IF op[u].failed THEN "pending" ELSE "completed", TRUE)
  /\ UNCHANGED <<submission, landed, row, late, files, job, active>> /\ Fine /\ Quiet

-----------------------------------------------------------------------------
(* Deletion of one document *)

DeleteRead(x) ==
  /\ At(x, "idle") /\ x \in Deletes
  /\ \E d \in Docs : row[d] /\ Becomes(x, [op[x] EXCEPT !.pc = "intent", !.docs = {d}])
  /\ UNCHANGED <<store, files, job, active>> /\ Fine /\ Quiet

DeleteIntent(x) ==
  /\ At(x, "intent") /\ x \in Deletes
  /\ Persist(x, active' = active \cup {x} /\ Goto(x, "stage"))
  /\ UNCHANGED <<store, file>> /\ Quiet

(* The rename into the trash.  A missing file does not stop the deletion;    *)
(* any other error ends it, after the trash directory is removed.           *)
DeleteStage(x) ==
  /\ At(x, "stage") /\ x \in Deletes
  /\ \E d \in op[x].docs :
       \/ /\ file[d] = "vault" /\ PutFile(d, x)
          /\ Becomes(x, [op[x] EXCEPT !.pc = "commit", !.staged = {d}])
          /\ Fine /\ UNCHANGED sidecar
       \/ /\ file[d] # "vault" /\ Goto(x, "commit")
          /\ Fine /\ UNCHANGED files
       \/ /\ Fault /\ Close(x, "restored", TRUE)
          /\ sidecar' = [sidecar EXCEPT ![x] = NoSidecar] /\ UNCHANGED file
  /\ UNCHANGED <<store, job, active>> /\ Quiet

(* delete_secure_document; the registration ends with the answer *)
DeleteCommit(x) ==
  /\ At(x, "commit") /\ x \in Deletes
  /\ \/ /\ row' = [d \in Docs |-> row[d] /\ d \notin op[x].docs]
        /\ Goto(x, IF \E d \in op[x].docs : row[d] THEN "purge" ELSE "inspect")
        /\ active' = active \ {x}
        /\ Fine /\ UNCHANGED late
     \/ /\ Fault /\ UNCHANGED row
        /\ IF LostReplies /\ ~op[x].lost
           THEN /\ Becomes(x, [op[x] EXCEPT !.lost = TRUE])
                /\ late' = Sent(x) /\ UNCHANGED active
           ELSE /\ Goto(x, "inspect") /\ active' = active \ {x} /\ UNCHANGED late
  /\ UNCHANGED <<submission, landed, request, files, job>> /\ Quiet

(* Mutant of DeleteInspect: a deletion without an answer is taken for done *)
DeleteInspectHasty(x) ==
  /\ At(x, "inspect") /\ x \in Deletes
  /\ LET there == \E d \in op[x].docs : row[d] IN
     \/ (~there \/ op[x].lost) /\ Goto(x, "purge") /\ Fine
     \/ there /\ ~op[x].lost /\ Goto(x, "restore") /\ Fine
     \/ Fault /\ Close(x, "pending", TRUE)
  /\ UNCHANGED <<store, files, job, active>> /\ Quiet

DeleteInspect(x) ==
  /\ At(x, "inspect") /\ x \in Deletes
  /\ LET there == \E d \in op[x].docs : row[d] IN
     \/ ~there /\ Goto(x, "purge") /\ Fine
     \/ there /\ op[x].lost /\ Close(x, "pending", TRUE) /\ Fine
     \/ there /\ ~op[x].lost /\ Goto(x, "restore") /\ Fine
     \/ Fault /\ Close(x, "pending", TRUE)
  /\ UNCHANGED <<store, files, job, active>> /\ Quiet

DeleteRestore(x) ==
  /\ At(x, "restore") /\ x \in Deletes
  /\ \E d \in op[x].docs :
       \/ /\ file[d] = x /\ PutFile(d, "vault")
          /\ Close(x, "restored", TRUE) /\ Fine
       \/ /\ file[d] # x /\ Close(x, "pending", FALSE)
          /\ Fine /\ UNCHANGED file
       \/ Fault /\ Close(x, "pending", FALSE) /\ UNCHANGED file
  /\ UNCHANGED <<store, sidecar, job, active>> /\ Quiet

(* The trash directory goes with everything in it, the sidecar included *)
DeletePurge(x) ==
  /\ At(x, "purge") /\ x \in Deletes
  /\ \/ /\ file' = [d \in Docs |-> IF file[d] = x THEN "absent" ELSE file[d]]
        /\ sidecar' = [sidecar EXCEPT ![x] = NoSidecar]
        /\ Close(x, "completed", FALSE) /\ Fine
     \/ Fault /\ Close(x, "pending", FALSE) /\ UNCHANGED files
  /\ UNCHANGED <<store, job, active>> /\ Quiet

-----------------------------------------------------------------------------
(* Deletion of the CRM record.  Its intent is not registered in memory. *)

RemoveRead(m) ==
  /\ At(m, "idle") /\ m \in Removals /\ submission
  /\ LET listed == {d \in Docs : row[d]} IN
     Becomes(m, [op[m] EXCEPT !.pc = IF listed = {} THEN "commit" ELSE "intent",
                              !.docs = listed, !.left = listed])
  /\ UNCHANGED <<store, files, job, active>> /\ Fine /\ Quiet

RemoveIntent(m) ==
  /\ At(m, "intent") /\ m \in Removals
  /\ Persist(m, Goto(m, "stage"))
  /\ UNCHANGED <<store, file, active>> /\ Quiet

RemoveStage(m) ==
  /\ At(m, "stage") /\ m \in Removals
  /\ \/ /\ op[m].left = {} /\ Goto(m, "commit") /\ Fine /\ UNCHANGED file
     \/ \E d \in op[m].left :
          \/ /\ file[d] = "vault" /\ PutFile(d, m) /\ Fine
             /\ Becomes(m, [op[m] EXCEPT !.left = @ \ {d}, !.staged = @ \cup {d}])
          \/ /\ file[d] # "vault" /\ Fine /\ UNCHANGED file
             /\ Becomes(m, [op[m] EXCEPT !.left = @ \ {d}])
          \/ Fault /\ Goto(m, "restore") /\ UNCHANGED file
  /\ UNCHANGED <<store, sidecar, job, active>> /\ Quiet

(* deleteSubmission: every row of the record goes in one transaction; a CIM  *)
(* transmission under way blocks it                                          *)
Erase ==
  /\ submission' = FALSE
  /\ row' = [d \in Docs |-> FALSE]
  /\ request' = [request EXCEPT !.status = "gone", !.stale = FALSE]
  /\ UNCHANGED landed

RemoveCommit(m) ==
  /\ At(m, "commit") /\ m \in Removals
  /\ \/ /\ submission /\ Erase /\ Goto(m, "confirm")
        /\ Fine /\ UNCHANGED late
     \/ /\ ~submission /\ Goto(m, "confirm")
        /\ Fine /\ UNCHANGED store
     \/ /\ submission /\ Goto(m, "restore")
        /\ Fine /\ UNCHANGED store
     \/ /\ Fault /\ Close(m, "pending", TRUE)
        /\ late' = IF LostReplies THEN Sent(m) ELSE late
        /\ UNCHANGED <<submission, landed, request, row>>
  /\ UNCHANGED <<files, job, active>> /\ Quiet

(* Mutant of RemoveRestore: a failed rename is reported as restored *)
RemoveRestoreBlind(m) ==
  /\ At(m, "restore") /\ m \in Removals
  /\ \/ \E d \in op[m].staged :
          /\ Becomes(m, [op[m] EXCEPT !.staged = @ \ {d}])
          /\ \/ PutFile(d, IF file[d] = m THEN "vault" ELSE file[d]) /\ Fine
             \/ Fault /\ UNCHANGED file
     \/ /\ op[m].staged = {} /\ Fine /\ UNCHANGED file
        /\ Close(m, "restored", TRUE)
  /\ UNCHANGED <<store, sidecar, job, active>> /\ Quiet

(* restoreStagedDocumentFiles, then the directory, which a sidecar keeps *)
RemoveRestore(m) ==
  /\ At(m, "restore") /\ m \in Removals
  /\ \/ \E d \in op[m].staged :
          /\ \/ PutFile(d, IF file[d] = m THEN "vault" ELSE file[d]) /\ Fine
             \/ Fault /\ UNCHANGED file
          /\ Becomes(m, [op[m] EXCEPT !.staged = @ \ {d},
                                      !.failed = @ \/ file'[d] # "vault"])
     \/ /\ op[m].staged = {} /\ Fine /\ UNCHANGED file
        /\ Close(m, IF op[m].failed \/ sidecar[m] # NoSidecar THEN "pending" ELSE "restored", TRUE)
  /\ UNCHANGED <<store, sidecar, job, active>> /\ Quiet

RemoveConfirm(m) ==
  /\ At(m, "confirm")
  /\ IF op[m].docs = {} THEN Goto(m, "done") /\ Fine /\ UNCHANGED <<job, sidecar>>
     ELSE /\ UpdateJob(m, "pending", FALSE)
          /\ Becomes(m, [op[m] EXCEPT !.pc = "purge", !.left = op[m].docs])
  /\ UNCHANGED <<store, file, active>> /\ Quiet

RemovePurge(m) ==
  /\ At(m, "purge") /\ m \in Removals
  /\ \/ \E d \in op[m].left :
          \/ /\ PutFile(d, IF file[d] = m THEN "absent" ELSE file[d]) /\ Fine
             /\ Becomes(m, [op[m] EXCEPT !.left = @ \ {d}])
          \/ /\ Fault /\ UNCHANGED file
             /\ Becomes(m, [op[m] EXCEPT !.left = @ \ {d}, !.failed = TRUE])
     \/ /\ op[m].left = {} /\ Fine /\ UNCHANGED file
        /\ Close(m, IF op[m].failed THEN "pending" ELSE "completed", FALSE)
  /\ UNCHANGED <<store, sidecar, job, active>> /\ Quiet

-----------------------------------------------------------------------------
(* The reconciler: hourly and at startup *)

(* Mutant of Settling: intents registered in memory are not looked at *)
SettlingByTime(o) == job[o].wal /\ o \notin settled

(* cleanupJobIsSettling *)
Settling(o) == job[o].wal /\ (o \in active \/ o \notin settled)

Turns(r, run) == rec' = [rec EXCEPT ![r] = run]
Holds(r) == job[rec[r].job].lease = r /\ ~job[rec[r].job].lapsed
Working(r, pc) == rec[r].pc = pc /\ Holds(r)
Release(r, status) ==
  /\ SetJob(rec[r].job, [job[rec[r].job] EXCEPT !.status = status, !.lease = None])
  /\ Turns(r, IdleRec)
Calls == UNCHANGED <<settled, active, op, crashes>>

(* Mutant of ImportSidecar: the sidecar of a job the database has is left *)
ImportSidecarKeeps(o) ==
  /\ sidecar[o] # NoSidecar /\ job[o].status = "none"
  /\ \E r \in Reconcilers : rec[r].pc = "idle"
  /\ SetJob(o, [job[o] EXCEPT !.status = sidecar[o].status, !.wal = sidecar[o].wal])
  /\ UNCHANGED <<store, files, rec>> /\ Calls /\ Fine

(* importSecureDocumentCleanupSidecars: a job the database already has wins *)
ImportSidecar(o) ==
  /\ sidecar[o] # NoSidecar
  /\ \E r \in Reconcilers : rec[r].pc = "idle"
  /\ IF job[o].status = "none"
     THEN SetJob(o, [job[o] EXCEPT !.status = sidecar[o].status, !.wal = sidecar[o].wal])
     ELSE UNCHANGED job
  /\ sidecar' = [sidecar EXCEPT ![o] = NoSidecar]
  /\ UNCHANGED <<store, file, rec>> /\ Calls /\ Fine

RecClaim(r, o) ==
  /\ rec[r].pc = "idle"
  /\ job[o].status \in Pending /\ ~Settling(o)
  /\ job[o].lease = None \/ job[o].lapsed
  /\ SetJob(o, [job[o] EXCEPT !.lease = r, !.lapsed = FALSE])
  /\ Turns(r, [IdleRec EXCEPT !.pc = "partition", !.job = o])
  /\ UNCHANGED <<store, files>> /\ Calls /\ Fine

(* partitionCleanupJobFiles: the rows decide which files come back *)
Owned(o) == IF o \in Removals THEN (IF submission THEN op[o].docs ELSE {})
            ELSE {d \in op[o].docs : row[d]}

RecPartition(r) ==
  /\ Working(r, "partition")
  /\ LET o == rec[r].job IN
     \/ /\ Turns(r, [rec[r] EXCEPT !.pc = "move", !.restore = Owned(o),
                                   !.purge = op[o].docs \ Owned(o), !.kept = Owned(o) # {}])
        /\ Fine /\ UNCHANGED job
     \/ Fault /\ Release(r, "pending")
  /\ UNCHANGED <<store, files>> /\ Calls

(* One file, the lease renewed just before.  An upload's file that never    *)
(* reached the trash is purged where it is.                                 *)
RecRestore(r) ==
  /\ Working(r, "move")
  /\ \E d \in rec[r].restore :
       /\ \/ PutFile(d, IF file[d] = rec[r].job THEN "vault" ELSE file[d]) /\ Fine
          \/ Fault /\ UNCHANGED file
       /\ Turns(r, [rec[r] EXCEPT !.restore = @ \ {d},
                                  !.failed = @ \/ file'[d] # "vault"])
  /\ UNCHANGED <<store, sidecar, job>> /\ Calls

RecPurge(r) ==
  /\ Working(r, "move") /\ rec[r].restore = {}
  /\ \E d \in rec[r].purge :
       \/ /\ PutFile(d, IF file[d] = rec[r].job
                           \/ (rec[r].job \in Uploads /\ file[d] = "vault")
                        THEN "absent" ELSE file[d])
          /\ Turns(r, [rec[r] EXCEPT !.purge = @ \ {d}]) /\ Fine
       \/ /\ Fault /\ UNCHANGED file
          /\ Turns(r, [rec[r] EXCEPT !.purge = @ \ {d}, !.failed = TRUE])
  /\ UNCHANGED <<store, sidecar, job>> /\ Calls

RecMoved(r) ==
  /\ Working(r, "move") /\ rec[r].restore = {} /\ rec[r].purge = {}
  /\ IF rec[r].failed THEN Release(r, "pending")
     ELSE /\ Turns(r, [rec[r] EXCEPT !.pc =
                          IF rec[r].job \in Uploads \ Sims /\ ~rec[r].kept THEN "reset" ELSE "finish"])
          /\ UNCHANGED job
  /\ UNCHANGED <<store, files>> /\ Calls /\ Fine

RecReset(r) ==
  /\ Working(r, "reset")
  /\ request' = Reset(rec[r].job)
  /\ Turns(r, [rec[r] EXCEPT !.pc = "finish"])
  /\ UNCHANGED <<submission, landed, row, late, files, job>> /\ Calls /\ Fine

(* The directory must be empty; a sidecar in it fails the attempt *)
RecFinish(r) ==
  /\ Working(r, "finish")
  /\ IF sidecar[rec[r].job] # NoSidecar THEN Release(r, "pending") /\ Fine
     ELSE \/ Release(r, IF rec[r].kept THEN "restored" ELSE "completed") /\ Fine
          \/ Fault /\ Release(r, "pending")
  /\ UNCHANGED <<store, files>> /\ Calls

(* CleanupLeaseLostError: the run leaves the job to the next owner *)
RecLost(r) ==
  /\ rec[r].pc # "idle" /\ ~Holds(r)
  /\ Turns(r, IdleRec)
  /\ UNCHANGED <<store, files, job>> /\ Calls /\ Fine

-----------------------------------------------------------------------------
(* Time, the administrator, the database and the process *)

(* A lease outlives its owner by a quarter of an hour; an owner that stalls *)
(* for as long loses it (a fault)                                          *)
LeaseLapses(o) ==
  /\ job[o].lease # None /\ ~job[o].lapsed
  /\ SetJob(o, [job[o] EXCEPT !.lapsed = TRUE])
  /\ IF rec[job[o].lease].job = o THEN Fault ELSE Fine
  /\ UNCHANGED <<store, files, rec>> /\ Calls

(* reconcileAfter has passed; what was under way then is lost for good.  The *)
(* deletion of a record is taken to be faster than the window: its intent    *)
(* has no registration that would hold the reconciler off.                   *)
WindowPasses(o) ==
  /\ o \notin settled
  /\ ~(o \in Removals /\ Running(o))
  /\ job[o].status # "none" \/ sidecar[o] # NoSidecar
  /\ settled' = settled \cup {o}
  /\ late' = late \ {o}
  /\ UNCHANGED <<submission, landed, request, row, files, job, active, op, rec, crashes>> /\ Fine

ClaimGoesStale ==
  /\ request.status = "uploading" /\ ~request.stale
  /\ request' = [request EXCEPT !.stale = TRUE]
  /\ UNCHANGED <<submission, landed, row, late, files, job, rec>> /\ Calls /\ Fine

(* revokeSecureUploadRequest *)
Revoke ==
  /\ request.status \notin {"revoked", "gone"}
  /\ request' = [request EXCEPT !.status = "revoked", !.stale = FALSE]
  /\ UNCHANGED <<submission, landed, row, late, files, job, rec>> /\ Calls /\ Fine

LateCommit(o) ==
  /\ o \in late
  /\ late' = late \ {o}
  /\ \/ /\ o \in Uploads
        /\ IF CanFinalize(o) THEN Finalize(o) ELSE UNCHANGED <<submission, landed, request, row>>
     \/ /\ o \in Deletes
        /\ row' = [d \in Docs |-> row[d] /\ d \notin op[o].docs]
        /\ UNCHANGED <<submission, landed, request>>
     \/ /\ o \in Removals
        /\ Erase
  /\ UNCHANGED <<files, job, rec>> /\ Calls /\ Fine

(* The process exits: calls, runs and registrations are gone *)
Crash ==
  /\ crashes < MaxCrashes /\ crashes' = crashes + 1
  /\ op' = [o \in Op |-> IF op[o].pc = "idle" THEN op[o] ELSE [op[o] EXCEPT !.pc = "done"]]
  /\ rec' = [r \in Reconcilers |-> IdleRec]
  /\ active' = {}
  /\ UNCHANGED <<store, files, job, settled>> /\ Fine

UploadStep(u) ==
  \/ UploadRead(u) \/ SimRead(u) \/ UploadClaim(u) \/ UploadIntent(u) \/ UploadWrite(u)
  \/ UploadCommit(u) \/ SimCommit(u) \/ UploadInspect(u) \/ UploadPreserve(u) \/ UploadUndo(u) \/ UploadReset(u) \/ Conclude(u)
DeleteStep(x) ==
  \/ DeleteRead(x) \/ DeleteIntent(x) \/ DeleteStage(x) \/ DeleteCommit(x) \/ DeleteInspect(x)
  \/ DeleteRestore(x) \/ DeletePurge(x) \/ Conclude(x)
RemoveStep(m) ==
  \/ RemoveRead(m) \/ RemoveIntent(m) \/ RemoveStage(m) \/ RemoveCommit(m) \/ RemoveRestore(m)
  \/ RemoveConfirm(m) \/ RemovePurge(m) \/ Conclude(m)
OpStep == \/ \E u \in Uploads : UploadStep(u)
          \/ \E x \in Deletes : DeleteStep(x)
          \/ \E m \in Removals : RemoveStep(m)
RecStep(r) ==
  \/ \E o \in Op : RecClaim(r, o)
  \/ RecPartition(r) \/ RecRestore(r) \/ RecPurge(r) \/ RecMoved(r)
  \/ RecReset(r) \/ RecFinish(r) \/ RecLost(r)

Next ==
  \/ OpStep
  \/ \E r \in Reconcilers : RecStep(r)
  \/ \E o \in Op : ImportSidecar(o) \/ LeaseLapses(o) \/ WindowPasses(o) \/ LateCommit(o)
  \/ ClaimGoesStale \/ Revoke \/ Crash

Spec == Init /\ [][Next]_vars

(* Calls go on and clocks advance; every hour a reconciliation imports the   *)
(* sidecars and goes through all the pending jobs                            *)
Fairness ==
  /\ WF_vars(OpStep)
  /\ WF_vars(\E o \in Op : WindowPasses(o) \/ LeaseLapses(o))
  /\ WF_vars(\E r \in Reconcilers : RecStep(r))
  /\ SF_vars(\E o \in Op : ImportSidecar(o))
  /\ \A o \in Op : SF_vars(\E r \in Reconcilers : RecClaim(r, o))

LiveSpec == Spec /\ Fairness

-----------------------------------------------------------------------------
(* Properties *)

Covered(o) == Running(o) \/ job[o].status \in Pending \/ sidecar[o].status \in Pending

(* A document the database knows always has its file, in the vault or in a  *)
(* trash directory some unfinished job will empty (partitionCleanupJobFiles, *)
(* the order of staging, commit and purge).                                  *)
DocumentsKept ==
  \A d \in Docs : row[d] => file[d] = "vault" \/ (file[d] \in Op /\ Covered(file[d]))

(* Nothing is forgotten in the trash: whatever failed or crashed, a file     *)
(* there belongs to a call under way or to a job that is still pending.      *)
TrashIsCovered ==
  \A d \in Docs : file[d] \in Op => Covered(file[d])

Quiescent ==
  /\ \A o \in Op : ~Running(o) /\ job[o].status \notin Pending /\ sidecar[o] = NoSidecar
  /\ late = {}

(* When everything has come to rest, the vault holds no file without a row:  *)
(* uploads that were refused, failed or crashed leave nothing behind.        *)
NoOrphans ==
  Quiescent => \A d \in Docs : file[d] = "vault" => row[d]

(* A revoked link stays revoked, however late an upload, a cleanup or a      *)
(* reconciler finishes (resetSecureUploadRequestIfUploading).                *)
StaysRevoked == request.status = "revoked" => request'.status \in {"revoked", "gone"}
RevokedStays == [][StaysRevoked]_vars

(* Deleting a CRM record removes the stored files of its documents           *)
(* (test/documentVault.test.js:324).                                         *)
DeletionRemovesFiles ==
  Quiescent /\ ~submission => \A d \in Docs : file[d] = "absent"

(* Every cleanup job comes to an end.                                        *)
Unfinished(o) == job[o].status \in Pending
Ended(o) == job[o].status \in Terminal
JobsEnd == \A o \in Op : Unfinished(o) ~> Ended(o)
=============================================================================
