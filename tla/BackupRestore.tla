----------------------------- MODULE BackupRestore -----------------------------
(***************************************************************************)
(* restoreBackupBundle (backups.js): a verified bundle is staged beside the  *)
(* database, the paths of its documents are mapped, and then the documents   *)
(* and the database are put in the place of the old ones, which are moved    *)
(* aside.  Any operation on the files may fail once, and the process may end *)
(* between any two of them.                                                  *)
(***************************************************************************)
EXTENDS Naturals

CONSTANTS
  MaxFaults,  \* bound on operations that fail
  MaxCrashes  \* bound on ends of the process

RestoreAssumption == MaxFaults \in Nat /\ MaxCrashes \in Nat

VARIABLES
  database,  \* what is at the path of the database
  documents, \* what is at the path of the vault
  aside,     \* what was moved aside (documents and database)
  stage,     \* what is staged
  call,      \* the restore
  faults, crashes

vars == <<database, documents, aside, stage, call, faults, crashes>>

Contents == {"none", "old", "new"}
Parts == {"database", "documents"}
Steps == {"new", "verified", "copied", "mapped", "database aside", "documents aside",
          "documents in", "database in", "undo database in", "undo database", "undo documents in", "undo documents"}
Ends == {"done", "refused", "failed", "crashed"}

TypeOK ==
  /\ database \in Contents /\ documents \in Contents
  /\ aside \subseteq Parts /\ stage \subseteq Parts
  /\ call \in [pc : Steps \cup Ends, overwrite : BOOLEAN, accept : BOOLEAN,
               class : {"none", "current", "degraded", "legacy", "invalid"}]
  /\ faults \in 0..MaxFaults /\ crashes \in 0..MaxCrashes

(* A server with its data, or an empty machine *)
Init ==
  /\ \/ database = "old" /\ documents \in {"old", "none"}
     \/ database = "none" /\ documents = "none"
  /\ aside = {} /\ stage = {}
  /\ call \in [pc : {"new"}, overwrite : BOOLEAN, accept : BOOLEAN, class : {"none"}]
  /\ faults = 0 /\ crashes = 0

Goto(pc) == call' = [call EXCEPT !.pc = pc]

(* finally: the stage is removed *)
End(pc) == Goto(pc) /\ stage' = {}

(* verifyBackupBundle: only a current bundle, or a degraded one on request *)
Verify ==
  /\ call.pc = "new"
  /\ \E class \in {"current", "degraded", "legacy", "invalid"} :
       LET restorable == class = "current" \/ (call.accept /\ class = "degraded")
       IN call' = [call EXCEPT !.class = class, !.pc = IF restorable THEN "verified" ELSE "refused"]
  /\ UNCHANGED <<database, documents, aside, stage, faults, crashes>>

(* An operation of a step fails: the step's own way out follows *)
May(fails, works) ==
  \/ works /\ UNCHANGED <<faults, crashes>>
  \/ faults < MaxFaults /\ faults' = faults + 1 /\ fails /\ UNCHANGED <<aside, crashes>>

(* The copies of the bundle's files, and the paths of its rows *)
Stage ==
  /\ call.pc = "verified"
  /\ May(End("failed"), Goto("copied") /\ stage' = Parts /\ UNCHANGED aside)
  /\ UNCHANGED <<database, documents>>
Map ==
  /\ call.pc = "copied"
  /\ May(End("failed"), Goto("mapped") /\ UNCHANGED <<aside, stage>>)
  /\ UNCHANGED <<database, documents>>

(* An existing database is refused without --overwrite, else moved aside *)
DatabaseAside ==
  /\ call.pc = "mapped"
  /\ IF database = "none"
     THEN Goto("database aside") /\ UNCHANGED <<database, aside, stage, faults, crashes>>
     ELSE IF ~call.overwrite
     THEN End("refused") /\ UNCHANGED <<database, aside, faults, crashes>>
     ELSE May(End("failed") /\ UNCHANGED database,
              /\ Goto("database aside") /\ database' = "none"
              /\ aside' = aside \cup {"database"} /\ UNCHANGED stage)
  /\ UNCHANGED documents

(* Mutant of Undo: the database that was moved aside is left there *)
UndoInPlaceOnly(pc) ==
  CASE pc = "documents aside" -> "undo documents"
    [] pc = "documents in" -> "undo documents in"
    [] pc = "database in" -> "undo database in"
    [] OTHER -> "failed"

(* Where the way back begins: with what was put in place last *)
Undo(pc) ==
  CASE pc = "database in" -> "undo database in"
    [] OTHER -> "undo database"

(* replaceDirectory: the vault is moved aside, and the staged one put in its   *)
(* place; when the second fails it brings the first back itself                *)
DocumentsAside ==
  /\ call.pc = "database aside"
  /\ IF documents = "none"
     THEN Goto("documents aside") /\ UNCHANGED <<documents, aside, faults, crashes>>
     ELSE IF ~call.overwrite
     THEN Goto(Undo("database aside")) /\ UNCHANGED <<documents, aside, faults, crashes>>
     ELSE May(Goto(Undo("database aside")) /\ UNCHANGED documents,
              Goto("documents aside") /\ documents' = "none" /\ aside' = aside \cup {"documents"})
  /\ UNCHANGED <<database, stage>>
DocumentsIn ==
  /\ call.pc = "documents aside"
  /\ \/ /\ Goto("documents in") /\ documents' = "new" /\ stage' = stage \ {"documents"}
        /\ UNCHANGED <<aside, faults, crashes>>
     \/ /\ faults < MaxFaults /\ faults' = faults + 1
        /\ Goto(Undo("documents aside"))
        /\ documents' = IF "documents" \in aside THEN "old" ELSE "none"
        /\ aside' = aside \ {"documents"} /\ UNCHANGED <<stage, crashes>>
  /\ UNCHANGED database
DatabaseIn ==
  /\ call.pc = "documents in"
  /\ May(Goto(Undo("documents in")) /\ UNCHANGED <<database, stage>>,
         Goto("database in") /\ database' = "new" /\ stage' = stage \ {"database"} /\ UNCHANGED aside)
  /\ UNCHANGED documents

(* chmod, and the answer *)
Finish ==
  /\ call.pc = "database in"
  /\ May(Goto(Undo("database in")) /\ UNCHANGED stage, End("done") /\ UNCHANGED aside)
  /\ UNCHANGED <<database, documents>>

(* The way back, each operation on its own; one that fails is passed over *)
Back(pc, next, restored) ==
  /\ call.pc = pc
  /\ \/ restored /\ UNCHANGED <<faults, crashes>>
     \/ /\ faults < MaxFaults /\ faults' = faults + 1
        /\ UNCHANGED <<database, documents, aside, crashes>>
  /\ IF next = "failed" THEN End("failed") ELSE Goto(next) /\ UNCHANGED stage
UndoDatabaseIn ==
  Back("undo database in", "undo database", database' = "none" /\ UNCHANGED <<documents, aside>>)
UndoDatabase ==
  Back("undo database", "undo documents in",
       /\ database' = IF "database" \in aside THEN "old" ELSE database
       /\ aside' = aside \ {"database"} /\ UNCHANGED documents)

(* Mutant of Emptied: the vault is removed, whoever put it there *)
EmptiedAnyway == "none"

(* What is left of a vault that this call put in place *)
Emptied == IF documents = "new" THEN "none" ELSE documents
UndoDocumentsIn ==
  Back("undo documents in", "undo documents", documents' = Emptied /\ UNCHANGED <<database, aside>>)
UndoDocuments ==
  Back("undo documents", "failed",
       /\ documents' = IF "documents" \in aside /\ documents = "none" THEN "old" ELSE documents
       /\ aside' = IF documents = "none" THEN aside \ {"documents"} ELSE aside
       /\ UNCHANGED database)

(* The process ends, and the stage stays behind *)
Crash ==
  /\ call.pc \in Steps \ {"new"} /\ crashes < MaxCrashes
  /\ crashes' = crashes + 1
  /\ Goto("crashed")
  /\ UNCHANGED <<database, documents, aside, stage, faults>>

Next ==
  \/ Verify \/ Stage \/ Map \/ DatabaseAside \/ DocumentsAside \/ DocumentsIn \/ DatabaseIn \/ Finish
  \/ UndoDatabaseIn \/ UndoDatabase \/ UndoDocumentsIn \/ UndoDocuments
  \/ Crash

Spec == Init /\ [][Next]_vars

-----------------------------------------------------------------------------
(* Properties *)

(* What the server had is never lost: it is in its place or beside it          *)
(* (databaseSafetyPath, documentsSafetyPath), however the restore ends         *)
LosesNothing ==
  /\ database = "old" /\ database' # "old" => "database" \in aside'
  /\ documents = "old" /\ documents' # "old" => "documents" \in aside'
  /\ "database" \in aside /\ "database" \notin aside' => database' = "old"
  /\ "documents" \in aside /\ "documents" \notin aside' => documents' = "old"
NothingIsLost == [][LosesNothing]_vars

(* A restored database never stands without the documents its rows point to,   *)
(* nor the old one beside the restored documents once the call has answered,   *)
(* unless an operation of the way back fails as well                           *)
TheyGoTogether ==
  /\ database = "new" /\ faults <= 1 => documents = "new" \/ call.pc \in Steps
  /\ call.pc \in {"failed", "refused"} /\ faults <= 1 => database # "new" /\ documents # "new" /\ aside = {}
  /\ call.pc = "done" => database = "new" /\ documents = "new"
================================================================================
