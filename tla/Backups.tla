-------------------------------- MODULE Backups --------------------------------
(***************************************************************************)
(* Application backups (backups.js): the daily run of the scheduler and the  *)
(* command line build a bundle in a working directory (a snapshot of the     *)
(* database, then each secure document it names), rename it when it          *)
(* verifies, and then apply retention.  Uploads, deletions, damage to files, *)
(* failures and restarts happen in between.  Time is counted in days.        *)
(***************************************************************************)
EXTENDS Naturals, FiniteSets

CONSTANTS
  Scheduled,   \* runs of the scheduler
  ByHand,      \* runs of the command line, each a process of its own
  Docs,        \* secure documents
  LastDay,     \* bound on the days
  Keep,        \* config.backup.retentionCount
  Age,         \* config.backup.retentionDays
  MaxDamages,  \* bound on damage to files
  MaxFaults,   \* bound on failures of the file system
  MaxRestarts, \* bound on restarts of the server
  None         \* no run

Runs == Scheduled \cup ByHand
Days == 0..LastDay

BackupsAssumption ==
  /\ Scheduled \cap ByHand = {} /\ None \notin Runs /\ IsFiniteSet(Runs)
  /\ LastDay \in Nat /\ Keep \in Nat \ {0} /\ Age \in Nat
  /\ MaxDamages \in Nat /\ MaxFaults \in Nat /\ MaxRestarts \in Nat

VARIABLES
  now,     \* today
  job,     \* job[d]: the row of the scheduled job of day d
  bundle,  \* bundle[r]: the directory run r makes
  doc,     \* doc[d]: new, its file stored, its row stored, file taken for a
           \* deletion, brought back, or gone
  spoiled, \* documents whose file was changed in place
  run,     \* state of each run
  damages, faults, restarts

vars == <<now, job, bundle, doc, spoiled, run, damages, faults, restarts>>
vault == <<doc, spoiled>>
bounds == <<damages, faults, restarts>>

Steps == {"new", "marked", "snapped", "copied", "renamed", "removing"}
Ends == {"done", "failed", "lost"}

TypeOK ==
  /\ now \in Days
  /\ job \in [Days -> [status : {"none", "pending", "completed", "failed"}, by : Runs \cup {None}]]
  /\ bundle \in [Runs -> [state : {"none", "incomplete", "final", "gone"}, day : Days, seq : 0..Cardinality(Runs),
                          snapshot : SUBSET Docs, copied : SUBSET Docs, linked : SUBSET Docs,
                          bad : SUBSET Docs, broken : BOOLEAN]]
  /\ doc \in [Docs -> {"new", "file", "row", "taken", "back", "gone"}] /\ spoiled \subseteq Docs
  /\ run \in [Runs -> [pc : Steps \cup Ends, list : SUBSET Runs]]
  /\ damages \in 0..MaxDamages /\ faults \in 0..MaxFaults /\ restarts \in 0..MaxRestarts

Init ==
  /\ now = 0 /\ job = [d \in Days |-> [status |-> "none", by |-> None]]
  /\ bundle = [r \in Runs |-> [state |-> "none", day |-> 0, seq |-> 0, snapshot |-> {}, copied |-> {},
                               linked |-> {}, bad |-> {}, broken |-> FALSE]]
  /\ doc = [d \in Docs |-> "new"] /\ spoiled = {}
  /\ run = [r \in Runs |-> [pc |-> "new", list |-> {}]]
  /\ damages = 0 /\ faults = 0 /\ restarts = 0

Alive(r) == run[r].pc \in Steps \ {"new"}

(* verifyBackupBundle of what is on the disk *)
Class(b) ==
  CASE bundle[b].state = "incomplete" -> "incomplete"
    [] bundle[b].state # "incomplete" /\ bundle[b].broken -> "invalid"
    [] bundle[b].state # "incomplete" /\ ~bundle[b].broken
         -> IF bundle[b].bad = {} /\ bundle[b].copied = bundle[b].snapshot THEN "valid" ELSE "degraded"

Present == {b \in Runs : bundle[b].state \in {"incomplete", "final"}}
Kept == {b \in Present : Class(b) \in {"valid", "degraded"}}

(* By the time the bundle was begun *)
Newer(b, c) == bundle[b].seq > bundle[c].seq

(* The rows of the database, and the files of the vault *)
Rows == {d \in Docs : doc[d] \in {"row", "taken", "back"}}
Files == {d \in Docs : doc[d] \in {"file", "row", "back"}}

-----------------------------------------------------------------------------
(* A run *)

Begin(r) ==
  /\ run' = [run EXCEPT ![r].pc = "marked"]
  /\ bundle' = [bundle EXCEPT ![r].state = "incomplete", ![r].day = now,
                   ![r].seq = Cardinality({b \in Runs : bundle[b].seq > 0}) + 1]

(* Mutant of Claimable: a day that failed is over *)
ClaimableOnce(d) == job[d].status = "none"

(* claimScheduledJob: no row, a failed one, or a stale claim *)
Claimable(d) == job[d].status # "completed"

(* tick: one run at a time; runClaimedBackup: claimScheduledJob.  A pending   *)
(* row is stale after two hours: its process has ended                        *)
Tick(r) ==
  /\ r \in Scheduled /\ run[r].pc = "new" /\ \A s \in Scheduled : ~Alive(s)
  /\ Claimable(now)
  /\ job' = [job EXCEPT ![now] = [status |-> "pending", by |-> r]]
  /\ Begin(r)
  /\ UNCHANGED <<now, vault, bounds>>

CommandLine(r) ==
  /\ r \in ByHand /\ run[r].pc = "new"
  /\ Begin(r)
  /\ UNCHANGED <<now, job, vault, bounds>>

(* runClaimedBackup: the row of the day is written without a look at its claim *)
Settled(r, status) ==
  IF r \in Scheduled
  THEN job' = [job EXCEPT ![bundle[r].day] = [status |-> status, by |-> r]]
  ELSE UNCHANGED job

(* createBackupBundle: an error removes the working directory; a bundle that *)
(* has its final name stays                                                  *)
Fails(r) ==
  /\ Settled(r, "failed")
  /\ run' = [run EXCEPT ![r].pc = "failed"]
  /\ bundle' = [bundle EXCEPT ![r].state = IF @ = "incomplete" THEN "gone" ELSE @]

(* createApplicationBackup: the rows of one moment *)
Snapshot(r) ==
  /\ run[r].pc = "marked"
  /\ bundle' = [bundle EXCEPT ![r].snapshot = Rows]
  /\ run' = [run EXCEPT ![r].pc = "snapped"]
  /\ UNCHANGED <<now, job, vault, bounds>>

(* copySecureDocuments: a document whose file is gone ends the run.           *)
(* placeSecureDocument: a link, or a copy when linking fails.  The manifest  *)
(* records what was copied: a file that disagrees with its row is degraded   *)
Copy(r, d) ==
  /\ run[r].pc = "snapped" /\ d \in bundle[r].snapshot \ bundle[r].copied
  /\ IF d \notin Files
     THEN Fails(r)
     ELSE /\ \E link \in BOOLEAN :
               bundle' = [bundle EXCEPT ![r].copied = @ \cup {d},
                            ![r].linked = IF link THEN @ \cup {d} ELSE @,
                            ![r].bad = IF d \in spoiled THEN @ \cup {d} ELSE @]
          /\ UNCHANGED <<job, run>>
  /\ UNCHANGED <<now, vault, bounds>>

(* The manifest, verifyBackupBundle (its database must be sound) and the rename *)
Rename(r) ==
  /\ run[r].pc = "snapped" /\ bundle[r].copied = bundle[r].snapshot
  /\ IF bundle[r].broken
     THEN Fails(r)
     ELSE /\ bundle' = [bundle EXCEPT ![r].state = "final"]
          /\ run' = [run EXCEPT ![r].pc = "renamed"]
          /\ UNCHANGED job
  /\ UNCHANGED <<now, vault, bounds>>

(* Mutant of Active: a working directory is anyone's after a day *)
ActiveToday(b) == bundle[b].day = now

(* isActiveBackupPath: its own set, or the marker of a process that runs *)
Active(b) == Alive(b)

(* enforceBackupRetention: incomplete and invalid bundles untouched for more *)
(* than a day (a run of the next day finds them younger than that)           *)
Abandoned(r) ==
  {b \in Present \ Kept : bundle[b].day + 1 < bundle[r].day /\ ~Active(b)}

(* Mutant of Ranked: what is there counts, sound or not *)
RankedPresent == Present

(* The bundles that are counted: their databases verify *)
Ranked == Kept

(* Bundles past the count, or too old *)
Outdated(r) ==
  {b \in Ranked : \/ Cardinality({c \in Ranked : Newer(c, b)}) >= Keep
                  \/ bundle[b].day + Age < bundle[r].day}

(* inspectBackupDirectory: what retention is going to remove *)
Inspect(r) ==
  /\ run[r].pc = "renamed"
  /\ run' = [run EXCEPT ![r].pc = "removing", ![r].list = Abandoned(r) \cup Outdated(r)]
  /\ UNCHANGED <<now, job, bundle, vault, bounds>>

Remove(r, b) ==
  /\ run[r].pc = "removing" /\ b \in run[r].list
  /\ bundle' = [bundle EXCEPT ![b].state = "gone"]
  /\ run' = [run EXCEPT ![r].list = @ \ {b}]
  /\ UNCHANGED <<now, job, vault, bounds>>

Finish(r) ==
  /\ run[r].pc = "removing" /\ run[r].list = {}
  /\ run' = [run EXCEPT ![r].pc = "done"]
  /\ Settled(r, "completed")
  /\ UNCHANGED <<now, bundle, vault, bounds>>

(* A step of the run fails *)
Fail(r) ==
  /\ Alive(r) /\ faults < MaxFaults
  /\ faults' = faults + 1
  /\ Fails(r)
  /\ UNCHANGED <<now, vault, damages, restarts>>

-----------------------------------------------------------------------------
(* Around it *)

(* An upload stores the file, then its row; a deletion takes the file away    *)
(* first, and brings it back when the rows cannot be removed                  *)
Becomes(d, from, to) ==
  /\ doc[d] = from
  /\ doc' = [doc EXCEPT ![d] = to]
  /\ UNCHANGED <<now, job, bundle, spoiled, run, bounds>>
StoreFile(d) == Becomes(d, "new", "file")
StoreRow(d) == Becomes(d, "file", "row")
TakeFile(d) == Becomes(d, "row", "taken")
BringBack(d) == Becomes(d, "taken", "back")
RemoveRow(d) == Becomes(d, "taken", "gone")

(* A file of the vault is changed in place: what is linked to it changes too *)
Spoil(d) ==
  /\ d \in Files \ spoiled /\ damages < MaxDamages
  /\ damages' = damages + 1
  /\ spoiled' = spoiled \cup {d}
  /\ bundle' = [b \in Runs |-> IF d \in bundle[b].linked THEN [bundle[b] EXCEPT !.bad = @ \cup {d}]
                                                         ELSE bundle[b]]
  /\ UNCHANGED <<now, job, doc, run, faults, restarts>>

(* The database of a bundle is damaged; not while a retention acts on what it saw *)
Break(b) ==
  /\ bundle[b].state \in {"incomplete", "final"} /\ ~bundle[b].broken /\ damages < MaxDamages
  /\ \A r \in Runs : run[r].pc # "removing"
  /\ run[b].pc # "marked"
  /\ damages' = damages + 1
  /\ bundle' = [bundle EXCEPT ![b].broken = TRUE]
  /\ UNCHANGED <<now, job, vault, run, faults, restarts>>

(* The server ends: its run leaves what it was doing *)
Restart ==
  /\ restarts < MaxRestarts
  /\ restarts' = restarts + 1
  /\ run' = [r \in Runs |-> IF r \in Scheduled /\ Alive(r) THEN [pc |-> "lost", list |-> {}] ELSE run[r]]
  /\ UNCHANGED <<now, job, bundle, vault, damages, faults>>

NextDay ==
  /\ now < LastDay
  /\ now' = now + 1
  /\ UNCHANGED <<job, bundle, vault, run, bounds>>

Step(r) ==
  \/ Snapshot(r) \/ (\E d \in Docs : Copy(r, d)) \/ Rename(r)
  \/ Inspect(r) \/ (\E b \in Runs : Remove(r, b)) \/ Finish(r)

Next ==
  \/ \E r \in Runs : Tick(r) \/ CommandLine(r) \/ Step(r) \/ Fail(r)
  \/ \E d \in Docs : StoreFile(d) \/ StoreRow(d) \/ TakeFile(d) \/ BringBack(d) \/ RemoveRow(d) \/ Spoil(d)
  \/ \E b \in Runs : Break(b)
  \/ Restart \/ NextDay

(* The tick is repeated, a run goes on, and a deletion that took a file away  *)
(* is settled                                                                 *)
Fairness ==
  /\ WF_vars(\E r \in Scheduled : Tick(r))
  /\ \A r \in Scheduled : WF_vars(Step(r))
  /\ WF_vars(NextDay)
  /\ \A d \in Docs : WF_vars(BringBack(d) \/ RemoveRow(d))

Spec == Init /\ [][Next]_vars
LiveSpec == Spec /\ Fairness

-----------------------------------------------------------------------------
(* Properties *)

(* Retention removes a sound bundle only when it is too old or Keep sound      *)
(* bundles at least as new remain, whoever else applies retention meanwhile    *)
KeepsNewest ==
  \A b \in Runs : bundle[b].state = "final" /\ Class(b) \in {"valid", "degraded"} /\ bundle'[b].state = "gone"
       => \/ bundle[b].day + Age < now
          \/ Cardinality({c \in Kept \ {b} : bundle[c].day >= bundle[b].day}) >= Keep
NewestAreKept == [][KeepsNewest]_vars

(* The working directory of a run is its own, however long it takes: it is     *)
(* there until the run renames it or fails                                     *)
WorkIsKept ==
  \A r \in Runs : Alive(r) /\ run[r].pc \in {"marked", "snapped"} => bundle[r].state = "incomplete"

(* Once a backup was made there is one to restore, unless it was damaged      *)
OneRemains ==
  (\E d \in Days : job[d].status = "completed") /\ (\A b \in Runs : ~bundle[b].broken)
    => \E b \in Runs : bundle[b].state = "final"

(* The day's backup is made in the end: failures and restarts are tried again *)
DayIsBackedUp == <>(job[LastDay].status = "completed")
================================================================================
