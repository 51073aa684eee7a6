----------------------------- MODULE BackupRecords -----------------------------
(***************************************************************************)
(* The recorded verification of a backup bundle (backups.js): a bundle is    *)
(* fingerprinted (its manifest, and the size and mtime of its files), waits  *)
(* in a queue, is verified file by file and recorded under the fingerprint.  *)
(* A status read trusts a record whose fingerprint still matches, unless a   *)
(* file was changed so close to a fingerprint that its mtime may not tell.   *)
(* A file system stores mtimes in steps of Granule ticks.                    *)
(***************************************************************************)
EXTENDS Naturals

CONSTANTS
  Files,      \* files of the bundle
  Readers,    \* status reads, warm-ups and retentions
  Granule,    \* ticks of one mtime
  Margin,     \* racyTimestampMarginMs
  MaxTime,    \* bound on the clock
  MaxChanges  \* bound on the changes of files

RecordsAssumption ==
  /\ Granule \in Nat \ {0} /\ Margin \in Nat /\ Margin >= Granule
  /\ MaxTime \in Nat /\ MaxTime >= Margin + Granule /\ MaxChanges \in Nat

VARIABLES
  clock,
  file,    \* file[f]: its mtime and whether it is as the manifest says
  gone,    \* the bundle was removed
  record,  \* the record beside the bundle
  reader,  \* state of each reader
  pending, \* verifications that wait or run, by fingerprint: the reader that asked first
  changes

vars == <<clock, file, gone, record, reader, pending, changes>>

Steps == {"new", "read", "queued", "running", "ended", "joined"}
Stamps == [Files -> 0..MaxTime]
Results == {"valid", "damaged"}
Stored == [made : BOOLEAN, print : Stamps, at : 0..MaxTime, result : Results]

TypeOK ==
  /\ clock \in 0..MaxTime /\ file \in [Files -> [mtime : 0..MaxTime, sound : BOOLEAN]]
  /\ gone \in BOOLEAN /\ record \in Stored
  /\ reader \in [Readers -> [pc : Steps, print : Stamps, at : 0..MaxTime, left : SUBSET Files,
                             sound : BOOLEAN, told : {"none", "gone", "pending"} \cup Results]]
  /\ pending \subseteq Readers /\ changes \in 0..MaxChanges

Mtime(t) == (t \div Granule) * Granule
Stamp == [f \in Files |-> file[f].mtime]
Blank == [f \in Files |-> 0]

(* A bundle made a while ago *)
Init ==
  /\ clock = Margin + Granule
  /\ file = [f \in Files |-> [mtime |-> 0, sound |-> TRUE]]
  /\ gone = FALSE
  /\ record = [made |-> FALSE, print |-> Blank, at |-> 0, result |-> "damaged"]
  /\ reader = [r \in Readers |-> [pc |-> "new", print |-> Blank, at |-> 0, left |-> {},
                                  sound |-> TRUE, told |-> "none"]]
  /\ pending = {} /\ changes = 0

Sound == \A f \in Files : file[f].sound

(* fingerprintBackupBundle: taken before anything is verified *)
Fingerprint(r) ==
  /\ reader[r].pc = "new"
  /\ reader' = [reader EXCEPT ![r] = IF gone THEN [@ EXCEPT !.pc = "ended", !.told = "gone"]
                                     ELSE [@ EXCEPT !.pc = "read", !.print = Stamp, !.at = clock]]
  /\ UNCHANGED <<clock, file, gone, record, pending, changes>>

(* Mutant of Racy: only the time of the record counts, not that of the read *)
RacyWhenRecorded(r) ==
  \E f \in Files : reader[r].print[f] + Margin >= record.at + 2 * Margin

(* A file whose mtime lies within the margin of either fingerprint *)
Racy(r) ==
  LET from == IF record.at < reader[r].at THEN record.at ELSE reader[r].at
      until == IF record.at < reader[r].at THEN reader[r].at ELSE record.at
  IN \E f \in Files : reader[r].print[f] + Margin >= from /\ reader[r].print[f] <= until + Margin

(* readVerificationRecord *)
Trusted(r) == record.made /\ record.print = reader[r].print /\ ~Racy(r)

(* The pass already under way for the same fingerprint *)
Joins(r, s) == s \in pending /\ reader[s].print = reader[r].print

(* A status read takes the record's word; retention verifies anyway *)
ReadRecord(r) ==
  /\ reader[r].pc = "read" /\ Trusted(r)
  /\ reader' = [reader EXCEPT ![r].pc = "ended", ![r].told = record.result]
  /\ UNCHANGED <<clock, file, gone, record, pending, changes>>

(* queueBundleVerification: one pass for each fingerprint, one at a time *)
Queue(r) ==
  /\ reader[r].pc = "read"
  /\ IF \E s \in Readers : Joins(r, s)
     THEN reader' = [reader EXCEPT ![r].pc = "joined"] /\ UNCHANGED pending
     ELSE /\ reader' = [reader EXCEPT ![r].pc = "queued", ![r].left = Files, ![r].sound = TRUE]
          /\ pending' = pending \cup {r}
  /\ UNCHANGED <<clock, file, gone, record, changes>>
Run(r) ==
  /\ reader[r].pc = "queued" /\ \A s \in Readers : reader[s].pc # "running"
  /\ reader' = [reader EXCEPT ![r].pc = "running"]
  /\ UNCHANGED <<clock, file, gone, record, pending, changes>>

(* verifyBackupBundle reads one file after the other *)
Verify(r, f) ==
  /\ reader[r].pc = "running" /\ f \in reader[r].left
  /\ reader' = [reader EXCEPT ![r].left = @ \ {f}, ![r].sound = @ /\ file[f].sound /\ ~gone]
  /\ UNCHANGED <<clock, file, gone, record, pending, changes>>

(* Mutant of Recorded: under a fingerprint taken when the pass has ended *)
RecordedNow(r) ==
  [made |-> TRUE, print |-> Stamp, at |-> clock,
   result |-> IF reader[r].sound THEN "valid" ELSE "damaged"]

(* writeVerificationRecord: under the fingerprint taken before *)
Recorded(r) ==
  [made |-> TRUE, print |-> reader[r].print, at |-> reader[r].at,
   result |-> IF reader[r].sound THEN "valid" ELSE "damaged"]

(* verifyAndRecordBundle, and the readers that joined *)
End(r) ==
  /\ reader[r].pc = "running" /\ reader[r].left = {}
  /\ record' = IF gone THEN record ELSE Recorded(r)
  /\ reader' = [s \in Readers |->
       IF s = r \/ (reader[s].pc = "joined" /\ reader[s].print = reader[r].print)
       THEN [reader[s] EXCEPT !.pc = "ended",
               !.told = IF gone THEN "gone" ELSE IF reader[r].sound THEN "valid" ELSE "damaged"]
       ELSE reader[s]]
  /\ pending' = pending \ {r}
  /\ UNCHANGED <<clock, file, gone, changes>>

(* settleWithinBudget: the pass goes on behind the answer *)
GiveUp(r) ==
  /\ reader[r].pc = "joined"
  /\ reader' = [reader EXCEPT ![r].pc = "ended", ![r].told = "pending"]
  /\ UNCHANGED <<clock, file, gone, record, pending, changes>>

(* Another read *)
Again(r) ==
  /\ reader[r].pc = "ended"
  /\ reader' = [reader EXCEPT ![r] = [pc |-> "new", print |-> Blank, at |-> 0, left |-> {},
                                      sound |-> TRUE, told |-> "none"]]
  /\ UNCHANGED <<clock, file, gone, record, pending, changes>>

(* A file is written: damaged, or repaired *)
Change(f) ==
  /\ changes < MaxChanges /\ ~gone
  /\ changes' = changes + 1
  /\ \E sound \in BOOLEAN : file' = [file EXCEPT ![f] = [mtime |-> Mtime(clock), sound |-> sound]]
  /\ UNCHANGED <<clock, gone, record, reader, pending>>

(* Retention removes the bundle; pruneVerificationRecords its record *)
Remove ==
  /\ ~gone
  /\ gone' = TRUE
  /\ UNCHANGED <<clock, file, record, reader, pending, changes>>
Prune ==
  /\ gone /\ record.made
  /\ record' = [record EXCEPT !.made = FALSE]
  /\ UNCHANGED <<clock, file, gone, reader, pending, changes>>

Tick ==
  /\ clock < MaxTime
  /\ clock' = clock + 1
  /\ UNCHANGED <<file, gone, record, reader, pending, changes>>

Next ==
  \/ \E r \in Readers :
       \/ Fingerprint(r) \/ ReadRecord(r) \/ Queue(r) \/ Run(r) \/ (\E f \in Files : Verify(r, f))
       \/ End(r) \/ GiveUp(r) \/ Again(r)
  \/ \E f \in Files : Change(f)
  \/ Remove \/ Prune \/ Tick

Spec == Init /\ [][Next]_vars

-----------------------------------------------------------------------------
(* Properties *)

(* A record is trusted only for the bundle it was made of: while the bundle    *)
(* still is as the reader's fingerprint found it, the record tells how it is   *)
RecordsAreTrue ==
  \A r \in Readers :
    reader[r].pc = "read" /\ reader[r].print = Stamp /\ ~gone /\ Trusted(r)
    => (record.result = "valid") = Sound

(* Two passes never run at once, and each fingerprint has one *)
OnePass ==
  /\ \A r, s \in Readers : reader[r].pc = "running" /\ reader[s].pc = "running" => r = s
  /\ \A r, s \in pending : reader[r].print = reader[s].print => r = s
================================================================================
