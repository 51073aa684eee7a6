---------------------------- MODULE CrmSupersession ----------------------------
(***************************************************************************)
(* CRM records that a reviewed repair declared duplicates of another      *)
(* record (src/server/storage/sqlite.js, crm_submission_supersessions;     *)
(* services/crmDuplicateConsolidationRepair.js).  The repair supersedes    *)
(* the losers of its pairs in one transaction, on a plan that the live     *)
(* database and a backup both reproduce.  Handlers that write to a record  *)
(* looked at it before an await, so the write itself looks again.          *)
(***************************************************************************)
EXTENDS Integers, FiniteSets

CONSTANTS Records,      \* CRM records (contact_submissions)
          Opps,         \* canonical opportunities
          Pairs,        \* [survivor, loser, opp] of the checked-in descriptor
          Imported,     \* the loser that the import row of the descriptor names
          Ours,         \* Ours[r]: opportunity that owns r at first
          Campaigns,    \* records that may have a live campaign at first
          Writers,      \* handlers of the application
          Repairs,      \* invocations of the repair
          MaxWrites, MaxPauses, MaxBackups, MaxReversals,
          None

VARIABLES recs,         \* the records: [exists, direct, meta, ver, work, campaign]
          opps,         \* the opportunities: [active, primary]
          import,       \* the record the import row points at
          rel,          \* the supersession of a pair: none, active, reversed
          pause,        \* revision of the pause rows; even: all is paused
          receipts,     \* applied plans: [plan, before, copy]
          file,         \* the backup file: [copy, n], n counts its versions
          writers,      \* calls: [pc, kind, rec, seen]
          repairs,      \* invocations: [pc, plan, n]
          writes        \* writes so far

supersessionVars == <<recs, opps, import, rel, pause, receipts, file, writers, repairs, writes>>

Losers == {p.loser : p \in Pairs}
Kinds == {"edit", "queue", "settle", "delete", "link", "import"}

SupersessionAssumption ==
  /\ Pairs \subseteq [survivor : Records, loser : Records, opp : Opps]
  /\ \A p, q \in Pairs : p.survivor # q.loser /\ (p # q => p.loser # q.loser)
  /\ Imported \in Losers /\ \A r \in Records : Ours[r] \in Opps \cup {None}
  /\ None \notin Records \cup Opps
  /\ {MaxWrites, MaxPauses, MaxBackups, MaxReversals} \subseteq Nat

(***************************************************************************)
(* What a transaction reads                                                *)
(***************************************************************************)
DB == [recs |-> recs, opps |-> opps, import |-> import, rel |-> rel, pause |-> pause]

(* Active relations that name a record as the superseded one *)
Superseding(r) == {p \in Pairs : p.loser = r /\ rel[p] = "active"}
(* Mutant of Writable: the transaction trusts the look before the await *)
WritableThen(r) == TRUE
Writable(r) == Superseding(r) = {}

(* What a later link may rely on: owners, primaries and supersessions *)
Authority == [owners |-> [r \in Records |-> <<recs[r].direct, recs[r].meta>>], opps |-> opps, rel |-> rel]

SupersessionInit ==
  /\ \E live \in SUBSET Campaigns :
       recs = [r \in Records |-> [exists |-> TRUE, direct |-> None, meta |-> Ours[r],
                                  ver |-> 0, work |-> FALSE, campaign |-> r \in live]]
  /\ opps = [o \in Opps |-> [active |-> TRUE,
                             primary |-> IF \E p \in Pairs : p.opp = o
                                         THEN (CHOOSE p \in Pairs : p.opp = o).survivor ELSE None]]
  /\ import = Imported
  /\ rel = [p \in Pairs |-> "none"]
  /\ pause = 0
  /\ receipts = {}
  /\ file = [copy |-> None, n |-> 0]
  /\ writers = [w \in Writers |-> [pc |-> "idle", kind |-> None, rec |-> None, seen |-> None]]
  /\ repairs = [i \in Repairs |-> [pc |-> "idle", plan |-> None, n |-> 0]]
  /\ writes = 0

(***************************************************************************)
(* Triggers: what the tables refuse whoever writes                         *)
(***************************************************************************)
(* The owner of a survivor stays its opportunity, that of a loser is its   *)
(* opportunity or none.                                                     *)
Owned(direct, meta, o) == {direct, meta} \ {None} = {o}
MayOwn(r, direct, meta) ==
  \A p \in Pairs : rel[p] = "active" =>
    /\ p.survivor = r => Owned(direct, meta, p.opp)
    /\ p.loser = r => {direct, meta} \subseteq {None, p.opp}

(* An opportunity with a supersession stays active, its primary the survivor *)
(* Mutant of MayBecome: only the primary is guarded *)
MayBecomeSuperseded(o, active, primary) ==
  \A p \in Pairs : rel[p] = "active" /\ p.opp = o => primary = p.survivor
MayBecome(o, active, primary) ==
  \A p \in Pairs : rel[p] = "active" /\ p.opp = o => active /\ primary = p.survivor

MayBePrimary(r) == \A p \in Pairs : rel[p] = "active" => p.loser # r

MayDelete(r) == \A p \in Pairs : rel[p] # "none" => r \notin {p.survivor, p.loser}

(* A new relation, in a database whose other relations are db.rel *)
MayInsert(db, p) ==
  /\ db.recs[p.survivor].exists /\ db.recs[p.loser].exists
  /\ db.opps[p.opp] = [active |-> TRUE, primary |-> p.survivor]
  /\ Owned(db.recs[p.survivor].direct, db.recs[p.survivor].meta, p.opp)
  /\ {db.recs[p.loser].direct, db.recs[p.loser].meta} \subseteq {None, p.opp}
  /\ \A o \in Opps : db.opps[o].primary # p.loser

NoChain(db, p) ==
  \A q \in Pairs : db.rel[q] = "active" =>
    p.loser \notin {q.survivor, q.loser} /\ p.survivor # q.loser

(* Only active to reversed, by a reversal receipt of its own *)
MayReverse(p) == rel[p] = "active"

(***************************************************************************)
(* The handlers.  A call looks at the record, awaits, and writes.          *)
(***************************************************************************)
Idle == [pc |-> "idle", kind |-> None, rec |-> None, seen |-> None]

Look(w) ==
  /\ writers[w].pc = "idle"
  /\ \E r \in Records, k \in Kinds :
       /\ recs[r].exists /\ Writable(r)
       /\ k = "settle" => recs[r].work
       /\ k = "queue" => ~recs[r].work
       /\ writers' = [writers EXCEPT ![w] = [pc |-> "looked", kind |-> k, rec |-> r,
            seen |-> CASE k = "link" -> Authority [] k = "queue" -> recs[r].ver [] OTHER -> None]]
  /\ UNCHANGED <<recs, opps, import, rel, pause, receipts, file, repairs, writes>>

Done(w) == writers' = [writers EXCEPT ![w] = Idle] /\ writes' = writes + 1
Doing(w, k) == writers[w].pc = "looked" /\ writers[w].kind = k /\ recs[writers[w].rec].exists
                /\ writes < MaxWrites

(* An edit may take the opportunity out of the record's metadata *)
Edit(w) ==
  LET r == writers[w].rec IN
  /\ Doing(w, "edit") /\ Writable(r)
  /\ \E m \in {recs[r].meta, None} :
       /\ MayOwn(r, recs[r].direct, m)
       /\ recs' = [recs EXCEPT ![r].ver = @ + 1, ![r].meta = m]
  /\ Done(w)
  /\ UNCHANGED <<opps, import, rel, pause, receipts, file, repairs>>

(* A mail is queued for the version of the record that was looked at *)
Queue(w) ==
  LET r == writers[w].rec IN
  /\ Doing(w, "queue") /\ Writable(r)
  /\ recs[r].ver = writers[w].seen
  /\ recs' = [recs EXCEPT ![r].work = TRUE, ![r].ver = @ + 1]
  /\ Done(w)
  /\ UNCHANGED <<opps, import, rel, pause, receipts, file, repairs>>

Settle(w) ==
  LET r == writers[w].rec IN
  /\ Doing(w, "settle") /\ recs[r].work /\ Writable(r)
  /\ recs' = [recs EXCEPT ![r].work = FALSE]
  /\ Done(w)
  /\ UNCHANGED <<opps, import, rel, pause, receipts, file, repairs>>

(* Its mails and the import row's reference go with a deleted record *)
Delete(w) ==
  LET r == writers[w].rec IN
  /\ Doing(w, "delete") /\ Writable(r) /\ MayDelete(r)
  /\ recs' = [recs EXCEPT ![r].exists = FALSE, ![r].work = FALSE]
  /\ import' = IF import = r THEN None ELSE import
  /\ Done(w)
  /\ UNCHANGED <<opps, rel, pause, receipts, file, repairs>>

(* The record becomes the primary of an opportunity, on the revision of the *)
(* owners that the handler looked at.                                       *)
Link(w) ==
  LET r == writers[w].rec IN
  /\ Doing(w, "link") /\ writers[w].seen = Authority /\ Writable(r)
  /\ \E o \in Opps :
       /\ opps[o].active /\ opps[o].primary \in {None, r}
       /\ {recs[r].direct, recs[r].meta} \subseteq {None, o}
       /\ \A s \in Records \ {r} : recs[s].exists => recs[s].direct # o
       /\ MayOwn(r, o, recs[r].meta) /\ MayBecome(o, TRUE, r) /\ MayBePrimary(r)
       /\ recs' = [recs EXCEPT ![r].direct = o]
       /\ opps' = [opps EXCEPT ![o].primary = r]
  /\ Done(w)
  /\ UNCHANGED <<import, rel, pause, receipts, file, repairs>>

(* The import row is pointed at the record; the record it leaves must be   *)
(* writable as well.                                                        *)
MoveImport(w) ==
  LET r == writers[w].rec IN
  /\ Doing(w, "import") /\ Writable(r)
  /\ import # None => Writable(import)
  /\ import' = r
  /\ Done(w)
  /\ UNCHANGED <<recs, opps, rel, pause, receipts, file, repairs>>

(* The write is refused, or the handler is lost with its process *)
Forget(w) ==
  /\ writers[w].pc = "looked"
  /\ writers' = [writers EXCEPT ![w] = Idle]
  /\ UNCHANGED <<recs, opps, import, rel, pause, receipts, file, repairs, writes>>

(* A pass over the listings writes an opportunity; no handler's look       *)
(* precedes it, the triggers are all there is.                              *)
WriteOpportunity ==
  /\ writes < MaxWrites
  /\ \E o \in Opps, active \in BOOLEAN, r \in {x \in Records : recs[x].exists} \cup {None} :
       LET primary == IF r = None THEN opps[o].primary ELSE r IN
       /\ opps[o].active
       /\ MayBecome(o, active, primary) /\ (r # None => MayBePrimary(r))
       /\ opps' = [opps EXCEPT ![o] = [active |-> active, primary |-> primary]]
  /\ writes' = writes + 1
  /\ UNCHANGED <<recs, import, rel, pause, receipts, file, writers, repairs>>

SetPause ==
  /\ pause < MaxPauses /\ pause' = pause + 1
  /\ UNCHANGED <<recs, opps, import, rel, receipts, file, writers, repairs, writes>>

(***************************************************************************)
(* The repair                                                              *)
(***************************************************************************)
Paused(db) == db.pause % 2 = 0

NothingOpen(db) == \A l \in Losers : ~db.recs[l].work

(* What a pair is approved on: both records in the right hands, the import *)
(* row at its loser, and no relation of before                              *)
PairsStand(db) ==
  /\ \A p \in Pairs : MayInsert(db, p) /\ db.rel[p] = "none"
  /\ db.import = Imported

(* An inspection without blockers is a plan *)
Plannable(db) == PairsStand(db) /\ Paused(db) /\ NothingOpen(db)

(* The evidence of a backup that the preview asks for *)
Checkpointed == file.n > 0

(* The backup at the path the checkpoint names; a second one may replace it *)
Backup ==
  /\ file.n < MaxBackups
  /\ file' = [copy |-> DB, n |-> file.n + 1]
  /\ UNCHANGED <<recs, opps, import, rel, pause, receipts, writers, repairs, writes>>

Preview(i) ==
  /\ repairs[i].pc = "idle" /\ Checkpointed
  /\ Plannable(DB)
  /\ repairs' = [repairs EXCEPT ![i] = [pc |-> "reviewed", plan |-> DB, n |-> 0]]
  /\ UNCHANGED <<recs, opps, import, rel, pause, receipts, file, writers, writes>>

(* The artifact in the operator's hands holds the plan it was reviewed for *)
ArtifactOf(i) == repairs[i].plan # None

RuntimeSafe(i) == Paused(DB) /\ pause = repairs[i].plan.pause

(* Before storage is opened for writing *)
LookAtSafety(i) ==
  /\ repairs[i].pc = "reviewed" /\ ArtifactOf(i) /\ RuntimeSafe(i)
  /\ repairs' = [repairs EXCEPT ![i].pc = "looked"]
  /\ UNCHANGED <<recs, opps, import, rel, pause, receipts, file, writers, writes>>

(* The backup reproduces the reviewed plan; the evidence names its file *)
VerifyBackup(i) ==
  /\ repairs[i].pc = "looked"
  /\ Plannable(file.copy) /\ file.copy = repairs[i].plan
  /\ repairs' = [repairs EXCEPT ![i].pc = "verified", ![i].n = file.n]
  /\ UNCHANGED <<recs, opps, import, rel, pause, receipts, file, writers, writes>>

(* Mutant of SameFile: the evidence is taken without its file *)
SameFileByPath(i) == repairs[i].pc = "verified"
SameFile(i) == repairs[i].pc = "verified" /\ repairs[i].n = file.n

PriorReceipt(i) == {c \in receipts : c.plan = repairs[i].plan} # {}

(* The live database is the one that was planned from *)
AsReviewed(i) == Plannable(DB) /\ DB = repairs[i].plan

Superseded == [p \in Pairs |-> "active"]
(* The import row follows its loser to the survivor *)
Repointed == (CHOOSE p \in Pairs : p.loser = Imported).survivor
(* The losers' campaigns are ended *)
Converged == [r \in Records |->
  IF r \in Losers THEN [recs[r] EXCEPT !.campaign = FALSE] ELSE recs[r]]

(* The rows the plan must not touch are those it was made from *)
Protected(i, newrecs) ==
  newrecs = repairs[i].plan.recs /\ opps = repairs[i].plan.opps /\ pause = repairs[i].plan.pause

FinalState(newrel, newimport) == newrel = Superseded /\ newimport = Repointed

Applicable(i) ==
  /\ SameFile(i) /\ RuntimeSafe(i) /\ ~PriorReceipt(i) /\ AsReviewed(i)
  /\ \A p \in Pairs : MayInsert(DB, p) /\ NoChain(DB, p)
  /\ Protected(i, Converged) /\ FinalState(Superseded, Repointed)

Apply(i) ==
  /\ Applicable(i)
  /\ receipts' = receipts \cup {[plan |-> repairs[i].plan, before |-> DB, copy |-> file.copy]}
  /\ rel' = Superseded
  /\ import' = Repointed
  /\ recs' = Converged
  /\ repairs' = [repairs EXCEPT ![i].pc = "done"]
  /\ UNCHANGED <<opps, pause, file, writers, writes>>

(* Applied before: the final state is checked and nothing is written *)
ReplayIsSound(i) ==
  /\ SameFile(i) /\ RuntimeSafe(i) /\ PriorReceipt(i)
  /\ FinalState(rel, import) /\ Protected(i, recs)

Replay(i) ==
  /\ ReplayIsSound(i)
  /\ repairs' = [repairs EXCEPT ![i].pc = "done"]
  /\ UNCHANGED <<recs, opps, import, rel, pause, receipts, file, writers, writes>>

(* A refusal rolls back and uses up the evidence; so does a lost process *)
Refuse(i) ==
  /\ repairs[i].pc \in {"looked", "verified"}
  /\ repairs' = [repairs EXCEPT ![i].pc = "reviewed", ![i].n = 0]
  /\ UNCHANGED <<recs, opps, import, rel, pause, receipts, file, writers, writes>>

(* A reviewed reversal of one relation; the repository has the guard, not  *)
(* the caller.                                                              *)
Reverse(p) ==
  /\ MayReverse(p)
  /\ Cardinality({q \in Pairs : rel[q] = "reversed"}) < MaxReversals
  /\ rel' = [rel EXCEPT ![p] = "reversed"]
  /\ UNCHANGED <<recs, opps, import, pause, receipts, file, writers, repairs, writes>>

SupersessionNext ==
  \/ \E w \in Writers :
       \/ Look(w) \/ Edit(w) \/ Queue(w) \/ Settle(w)
       \/ Delete(w) \/ Link(w) \/ MoveImport(w) \/ Forget(w)
  \/ WriteOpportunity \/ SetPause \/ Backup
  \/ \E i \in Repairs :
       \/ Preview(i) \/ LookAtSafety(i) \/ VerifyBackup(i)
       \/ Apply(i) \/ Replay(i) \/ Refuse(i)
  \/ \E p \in Pairs : Reverse(p)

SupersessionSpec == SupersessionInit /\ [][SupersessionNext]_supersessionVars

(***************************************************************************)
(* Properties                                                              *)
(***************************************************************************)
(* Every variable has its type. *)
SupersessionTypeOK ==
  /\ recs \in [Records -> [exists : BOOLEAN, direct : Opps \cup {None},
                           meta : Opps \cup {None}, ver : 0..MaxWrites,
                           work : BOOLEAN, campaign : BOOLEAN]]
  /\ opps \in [Opps -> [active : BOOLEAN, primary : Records \cup {None}]]
  /\ import \in Records \cup {None}
  /\ rel \in [Pairs -> {"none", "active", "reversed"}]
  /\ pause \in 0..MaxPauses /\ writes \in 0..MaxWrites /\ file.n \in 0..MaxBackups
  /\ \A w \in Writers : writers[w].pc \in {"idle", "looked"}
  /\ \A i \in Repairs : repairs[i].pc \in {"idle", "reviewed", "looked", "verified", "done"}

(* What the audit looks for is never there: while a record is superseded   *)
(* its survivor is the primary and in the ownership of an active           *)
(* opportunity, the superseded one is no primary, belongs to nobody else   *)
(* and has no mail under way, and the import row does not point at it      *)
(* (auditCrmSubmissionSupersessions and the triggers of                    *)
(* crm_submission_supersessions).                                           *)
AuditViolations ==
  {p \in Pairs : rel[p] = "active" /\ ~MayInsert(DB, p)}
  \cup {p \in Pairs : rel[p] # "none" /\ ~(recs[p.survivor].exists /\ recs[p.loser].exists)}
SurvivorsStand ==
  /\ AuditViolations = {}
  /\ \A p \in Pairs : rel[p] = "active" => ~recs[p.loser].work /\ import # p.loser

(* All pairs are superseded with one receipt, or none is and there is no   *)
(* receipt, whatever fails in between and however often the repair runs    *)
(* (applyCrmDuplicateConsolidation).                                        *)
AllOrNothing ==
  /\ Cardinality(receipts) <= 1
  /\ \A p \in Pairs : rel[p] = "none" <=> receipts = {}

(* The backup a receipt names is the database the repair found, and it is  *)
(* what was reviewed (verifyCrmDuplicateConsolidationBackupPlan).           *)
RepairCanBeUndone == \A c \in receipts : c.before = c.copy /\ c.before = c.plan

(* A record is left alone from the moment it is superseded, by handlers    *)
(* that looked before as well, and history is only ever reversed           *)
(* (assertCrmSubmissionWritableInTransaction, the immutable core).          *)
LeftAloneStep ==
  /\ \A p \in Pairs : rel[p] = "active" =>
       /\ recs'[p.loser] = recs[p.loser]
       /\ rel'[p] \in {"active", "reversed"}
  /\ \A p \in Pairs : rel[p] = "reversed" => rel'[p] = "reversed"
  /\ receipts \subseteq receipts'
SupersededIsLeftAlone == [][LeftAloneStep]_supersessionVars
================================================================================
