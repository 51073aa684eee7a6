--------------------------- MODULE OnboardingProgress ---------------------------
(***************************************************************************)
(* The progress of one principal in one onboarding tour (adminOnboarding.js, *)
(* upsertAdminOnboardingProgress).  Every browser tab of every admin writes   *)
(* the same row; a call reads the rows, fills in what the body leaves out,    *)
(* and merges its record into the row in one statement.                      *)
(***************************************************************************)
EXTENDS Naturals

CONSTANTS Calls,   \* update calls
          Steps    \* the number of steps of the tour

StepsAssumption == Steps \in Nat

VARIABLES row,   \* the row: status, last completed step (0 for none), its two dates
          call   \* the calls, with the record each is about to write

vars == <<row, call>>

Statuses == {"in_progress", "completed", "skipped"}
NoRow == [status |-> "none", step |-> 0, completedAt |-> FALSE, skippedAt |-> FALSE]
Record == [status : Statuses, step : 0..Steps]
NoCall == [pc |-> "idle", record |-> [status |-> "in_progress", step |-> 0]]

TypeOK ==
  /\ row \in [status : Statuses \cup {"none"}, step : 0..Steps, completedAt : BOOLEAN,
              skippedAt : BOOLEAN]
  /\ call \in [Calls -> [pc : {"idle", "read", "done"}, record : Record]]

Init == row = NoRow /\ call = [c \in Calls |-> NoCall]

(* Mutant of Acceptable: completion is taken as it comes *)
AcceptableAlways(status, step) == status \in Statuses /\ step \in 0..Steps

(* updateAdminOnboardingProgressForSession: a step left out of the body is the *)
(* one on record; a tour is completed with some step only                      *)
Acceptable(status, step) == status = "completed" => step # 0

Read(c) ==
  /\ call[c].pc = "idle"
  /\ \E status \in Statuses, given \in BOOLEAN :
       \E step \in (IF given THEN 0..Steps ELSE {row.step}) :
         call' = [call EXCEPT ![c] =
                    IF Acceptable(status, step)
                    THEN [pc |-> "read", record |-> [status |-> status, step |-> step]]
                    ELSE [NoCall EXCEPT !.pc = "done"]]
  /\ UNCHANGED row

(* The ON CONFLICT clause: completed is final, skipped gives way to completed *)
(* only, and the step never goes back                                         *)
Settled(r) == \/ row.status = "completed"
              \/ row.status = "skipped" /\ r.status # "completed"

(* Mutant of Later: the last writer wins *)
LastWritten(r) == r.step

(* Mutant of Later: the index of the step is taken for a count *)
LaterCounted(r) == IF r.step < row.step THEN row.step ELSE r.step + 1

Later(r) == IF r.step < row.step THEN row.step ELSE r.step

Merged(r) ==
  IF row.status = "none" \/ ~Settled(r)
  THEN [status |-> r.status, step |-> IF row.status = "none" THEN r.step ELSE Later(r),
        completedAt |-> r.status = "completed", skippedAt |-> r.status = "skipped"]
  ELSE row

Write(c) ==
  /\ call[c].pc = "read"
  /\ row' = Merged(call[c].record)
  /\ call' = [call EXCEPT ![c].pc = "done"]

Next == \E c \in Calls : Read(c) \/ Write(c)

Spec == Init /\ [][Next]_vars

-----------------------------------------------------------------------------
(* Properties *)

(* Two tabs that write at once cannot take a user back: a completed tour      *)
(* stays completed, a skipped one is at most completed, and the last step     *)
(* never goes back (the CASE expressions of upsertAdminOnboardingProgress).   *)
GoesForward ==
  /\ row.status = "completed" => row'.status = "completed"
  /\ row.status = "skipped" => row'.status \in {"skipped", "completed"}
  /\ row'.step >= row.step
NeverBack == [][GoesForward]_vars

(* A completed tour has a completed step, although the step may come from a   *)
(* row that was read before the write; and each date goes with its status.    *)
CompletedWithStep ==
  /\ row.status = "completed" => row.step # 0
  /\ row.completedAt = (row.status = "completed")
  /\ row.skippedAt = (row.status = "skipped")
=================================================================================
