----------------------------- MODULE BackupsProofs -----------------------------
(***************************************************************************)
(* Theorems about Backups for any runs, documents, days, retention and      *)
(* number of faults, about BackupRestore for any number of faults and       *)
(* crashes, and about BackupRecords for any files, readers, steps of mtimes *)
(* and margin at least as long.  Order: types, what a step does to runs and *)
(* bundles, working directories, the order of the bundles, what retention   *)
(* leaves; a restore; verification records.                                 *)
(***************************************************************************)
EXTENDS Backups, FiniteSetTheorems, TLAPS

JobRows == [status : {"none", "pending", "completed", "failed"}, by : Runs \cup {None}]
BundleRows == [state : {"none", "incomplete", "final", "gone"}, day : Days, seq : 0..Cardinality(Runs),
               snapshot : SUBSET Docs, copied : SUBSET Docs, linked : SUBSET Docs,
               bad : SUBSET Docs, broken : BOOLEAN]
RunRows == [pc : Steps \cup Ends, list : SUBSET Runs]

-----------------------------------------------------------------------------
(* Types *)

(* A run has a bundle, and a place among the bundles, from its first step on. *)
BegunRunsCount ==
  \A r \in Runs : /\ run[r].pc = "new" <=> bundle[r].seq = 0
                  /\ run[r].pc = "new" => bundle[r].state = "none"

(* Retention removes nothing of a run that still has a working directory. *)
ListsAreOver ==
  \A r \in Runs : \A b \in run[r].list : run[b].pc \notin {"new", "marked", "snapped"}

(* The types need the place of each run, and the place that its working        *)
(* directory is not taken from it.                                             *)
BackupsInv == TypeOK /\ BegunRunsCount /\ WorkIsKept /\ ListsAreOver

Begun == {b \in Runs : bundle[b].seq > 0}

LEMMA RowsTyped ==
  ASSUME BackupsInv
  PROVE  /\ job \in [Days -> JobRows] /\ bundle \in [Runs -> BundleRows] /\ run \in [Runs -> RunRows]
         /\ now \in Days /\ spoiled \subseteq Docs
         /\ doc \in [Docs -> {"new", "file", "row", "taken", "back", "gone"}]
         /\ damages \in 0..MaxDamages /\ faults \in 0..MaxFaults /\ restarts \in 0..MaxRestarts
  BY DEF BackupsInv, TypeOK, JobRows, BundleRows, RunRows

(* The numbers of the constants. *)
LEMMA RunsCount ==
  ASSUME BackupsAssumption
  PROVE  /\ IsFiniteSet(Runs) /\ Cardinality(Runs) \in Nat
         /\ \A S \in SUBSET Runs : /\ IsFiniteSet(S) /\ Cardinality(S) \in Nat
                                   /\ Cardinality(S) <= Cardinality(Runs)
         /\ \A T \in SUBSET Runs : \A S \in SUBSET T : Cardinality(S) <= Cardinality(T)
  <1>1. IsFiniteSet(Runs)
    BY DEF BackupsAssumption
  <1>2. \A S \in SUBSET Runs : IsFiniteSet(S) /\ Cardinality(S) <= Cardinality(Runs)
    BY <1>1, FS_Subset
  <1>3. \A S \in SUBSET Runs : Cardinality(S) \in Nat
    BY <1>2, FS_CardinalityType
  <1>4. \A T \in SUBSET Runs : \A S \in SUBSET T : Cardinality(S) <= Cardinality(T)
    BY <1>2, FS_Subset
  <1> QED BY <1>1, <1>2, <1>3, <1>4, FS_CardinalityType

(* A run that begins is one more than those that have. *)
LEMMA OneMoreBegun ==
  ASSUME BackupsAssumption, BackupsInv, NEW r \in Runs, run[r].pc = "new"
  PROVE  Cardinality(Begun) + 1 \in 1..Cardinality(Runs) /\ Cardinality(Begun \cup {r}) = Cardinality(Begun) + 1
  <1>1. Begun \in SUBSET Runs /\ Begun \cup {r} \in SUBSET Runs /\ r \notin Begun
    BY DEF Begun, BackupsInv, BegunRunsCount
  <1>2. Cardinality(Begun \cup {r}) = Cardinality(Begun) + 1
    BY <1>1, RunsCount, FS_AddElement
  <1>3. Cardinality(Begun) \in Nat /\ Cardinality(Runs) \in Nat /\ Cardinality(Begun \cup {r}) <= Cardinality(Runs)
    BY <1>1, RunsCount
  <1> QED BY <1>2, <1>3

LEMMA InvAtFirst == ASSUME BackupsAssumption, Init PROVE BackupsInv
  <1> DEFINE none == [state |-> "none", day |-> 0, seq |-> 0, snapshot |-> {}, copied |-> {},
                      linked |-> {}, bad |-> {}, broken |-> FALSE]
             fresh == [pc |-> "new", list |-> {}]
             row == [status |-> "none", by |-> None]
  <1>1. 0 \in Days /\ 0 \in 0..Cardinality(Runs)
    BY RunsCount DEF Days, BackupsAssumption
  <1>2. none \in BundleRows /\ fresh \in RunRows /\ row \in JobRows
    BY <1>1 DEF BundleRows, RunRows, JobRows, Steps
  <1>3. /\ bundle = [b \in Runs |-> none] /\ run = [r \in Runs |-> fresh] /\ job = [d \in Days |-> row]
    BY DEF Init
  <1> HIDE DEF none, fresh, row
  <1>4. bundle \in [Runs -> BundleRows] /\ run \in [Runs -> RunRows] /\ job \in [Days -> JobRows]
    BY <1>2, <1>3
  <1>5. now \in Days /\ spoiled \subseteq Docs
        /\ doc \in [Docs -> {"new", "file", "row", "taken", "back", "gone"}]
        /\ damages \in 0..MaxDamages /\ faults \in 0..MaxFaults /\ restarts \in 0..MaxRestarts
    BY <1>1 DEF Init, BackupsAssumption
  <1>6. BegunRunsCount /\ WorkIsKept /\ ListsAreOver
    BY <1>3 DEF none, fresh, BegunRunsCount, WorkIsKept, ListsAreOver
  <1> QED BY <1>4, <1>5, <1>6 DEF BackupsInv, TypeOK, BundleRows, RunRows, JobRows

(* A row with some of its fields written. *)
LEMMA BundleRow ==
  ASSUME NEW row \in BundleRows
  PROVE  /\ \A state \in {"none", "incomplete", "final", "gone"} :
              /\ [row EXCEPT !.state = state] \in BundleRows
              /\ \A day \in Days, seq \in 0..Cardinality(Runs) :
                   [row EXCEPT !.state = state, !.day = day, !.seq = seq] \in BundleRows
         /\ \A S \in SUBSET Docs : /\ [row EXCEPT !.snapshot = S] \in BundleRows
                                   /\ [row EXCEPT !.bad = S] \in BundleRows
         /\ \A S, T, U \in SUBSET Docs :
              [row EXCEPT !.copied = S, !.linked = T, !.bad = U] \in BundleRows
         /\ [row EXCEPT !.broken = TRUE] \in BundleRows
  <1>1. ASSUME NEW state \in {"none", "incomplete", "final", "gone"}
        PROVE  [row EXCEPT !.state = state] \in BundleRows
    BY DEF BundleRows
  <1>2. ASSUME NEW state \in {"none", "incomplete", "final", "gone"}, NEW day \in Days,
               NEW seq \in 0..Cardinality(Runs)
        PROVE  [row EXCEPT !.state = state, !.day = day, !.seq = seq] \in BundleRows
    BY DEF BundleRows
  <1>3. ASSUME NEW S \in SUBSET Docs
        PROVE  [row EXCEPT !.snapshot = S] \in BundleRows /\ [row EXCEPT !.bad = S] \in BundleRows
    BY DEF BundleRows
  <1>4. ASSUME NEW S \in SUBSET Docs, NEW T \in SUBSET Docs, NEW U \in SUBSET Docs
        PROVE  [row EXCEPT !.copied = S, !.linked = T, !.bad = U] \in BundleRows
    BY DEF BundleRows
  <1>5. [row EXCEPT !.broken = TRUE] \in BundleRows
    BY DEF BundleRows
  <1> QED BY <1>1, <1>2, <1>3, <1>4, <1>5

LEMMA RunRow ==
  ASSUME NEW row \in RunRows
  PROVE  /\ \A pc \in Steps \cup Ends :
              /\ [row EXCEPT !.pc = pc] \in RunRows
              /\ \A list \in SUBSET Runs : [row EXCEPT !.pc = pc, !.list = list] \in RunRows
         /\ \A list \in SUBSET Runs : [row EXCEPT !.list = list] \in RunRows
  BY DEF RunRows

-----------------------------------------------------------------------------
(* What a step does to runs and bundles *)

(* What retention and the working directories are about: whether a bundle is *)
(* there and sound, and its place.                                           *)
SameBundle(b) ==
  /\ bundle'[b].state = bundle[b].state /\ bundle'[b].day = bundle[b].day
  /\ bundle'[b].seq = bundle[b].seq /\ bundle'[b].broken = bundle[b].broken
SameBundles == \A b \in Runs : SameBundle(b)
OthersSame(r) == \A b \in Runs \ {r} : SameBundle(b)
SameRuns == \A s \in Runs : run'[s] = run[s]
OtherRuns(r) == \A s \in Runs \ {r} : run'[s] = run[s]

(* A run begins: its working directory is made, in the last place. *)
Begins(r) ==
  /\ run[r].pc = "new" /\ run'[r].pc = "marked" /\ run'[r].list = run[r].list /\ OtherRuns(r)
  /\ bundle'[r].state = "incomplete" /\ bundle'[r].day = now
  /\ bundle'[r].seq = Cardinality(Begun) + 1 /\ bundle'[r].broken = bundle[r].broken
  /\ OthersSame(r)
  /\ now' = now

(* A run fails: its working directory goes. *)
Breaks(r) ==
  /\ run[r].pc \in Steps \ {"new"} /\ run'[r].pc = "failed" /\ run'[r].list = run[r].list /\ OtherRuns(r)
  /\ bundle'[r].state = (IF bundle[r].state = "incomplete" THEN "gone" ELSE bundle[r].state)
  /\ bundle'[r].day = bundle[r].day /\ bundle'[r].seq = bundle[r].seq
  /\ bundle'[r].broken = bundle[r].broken /\ OthersSame(r)
  /\ now' = now

(* A run has its snapshot. *)
Reads(r) ==
  /\ run[r].pc = "marked" /\ run'[r].pc = "snapped" /\ run'[r].list = run[r].list
  /\ OtherRuns(r) /\ SameBundles /\ now' = now

(* A bundle that verified gets its final name. *)
Publishes(r) ==
  /\ run[r].pc = "snapped" /\ run'[r].pc = "renamed" /\ run'[r].list = run[r].list /\ OtherRuns(r)
  /\ ~bundle[r].broken /\ bundle'[r].state = "final"
  /\ bundle'[r].day = bundle[r].day /\ bundle'[r].seq = bundle[r].seq
  /\ bundle'[r].broken = bundle[r].broken /\ OthersSame(r)
  /\ now' = now

(* A run has looked at the bundles, and knows which it is going to remove. *)
Looks(r) ==
  /\ run[r].pc = "renamed" /\ run'[r].pc = "removing"
  /\ run'[r].list = Abandoned(r) \cup Outdated(r)
  /\ OtherRuns(r) /\ SameBundles /\ now' = now

(* One of them is removed. *)
Removes(r, b) ==
  /\ run[r].pc = "removing" /\ b \in run[r].list
  /\ run'[r].pc = "removing" /\ run'[r].list = run[r].list \ {b} /\ OtherRuns(r)
  /\ bundle'[b].state = "gone" /\ bundle'[b].day = bundle[b].day
  /\ bundle'[b].seq = bundle[b].seq /\ bundle'[b].broken = bundle[b].broken /\ OthersSame(b)
  /\ now' = now

(* A run is over. *)
Completes(r) ==
  /\ run[r].pc = "removing" /\ run'[r].pc = "done" /\ run'[r].list = run[r].list
  /\ OtherRuns(r) /\ SameBundles /\ now' = now

(* The database of a bundle is damaged. *)
Damages(b) ==
  /\ \A r \in Runs : run[r].pc # "removing"
  /\ bundle'[b].broken = TRUE /\ bundle'[b].state = bundle[b].state
  /\ bundle'[b].day = bundle[b].day /\ bundle'[b].seq = bundle[b].seq /\ OthersSame(b)
  /\ SameRuns /\ now' = now

(* The runs of the server are lost. *)
Loses ==
  /\ \A r \in Runs :
       \/ run'[r] = run[r]
       \/ run[r].pc \in Steps \ {"new"} /\ run'[r].pc = "lost" /\ run'[r].list = {}
  /\ SameBundles /\ now' = now

(* Nothing of it changes, but the day. *)
Leaves == SameRuns /\ SameBundles /\ now' >= now

(* The job rows change by the run of their day, and say completed at its end alone. *)
JobsFollow ==
  \A d \in Days : job'[d].status = "completed" /\ job[d].status # "completed"
    => \E r \in Runs : run'[r].pc = "done"

OneMove ==
  \/ \E r \in Runs : Begins(r) \/ Breaks(r) \/ Reads(r) \/ Publishes(r) \/ Looks(r) \/ Completes(r)
  \/ \E r, b \in Runs : Removes(r, b)
  \/ \E b \in Runs : Damages(b)
  \/ Loses \/ Leaves

(* A step keeps the rows typed, is one of the moves, and writes the job rows *)
(* as the runs go.                                                            *)
Does ==
  /\ bundle' \in [Runs -> BundleRows] /\ run' \in [Runs -> RunRows] /\ job' \in [Days -> JobRows]
  /\ OneMove /\ JobsFollow

(* The job row is written for the day of the run, with the end of the run. *)
LEMMA SettledDoes ==
  ASSUME BackupsInv, NEW r \in Runs, NEW status \in {"completed", "failed"}, Settled(r, status)
  PROVE  /\ job' \in [Days -> JobRows]
         /\ status # "completed" => \A d \in Days : job'[d].status = "completed" => job[d].status = "completed"
  <1>1. job \in [Days -> JobRows] /\ bundle[r].day \in Days
    BY RowsTyped DEF BundleRows
  <1> DEFINE row == [status |-> status, by |-> r]
  <1>2. row \in JobRows /\ row.status = status
    BY DEF JobRows
  <1>3. job' = job \/ job' = [job EXCEPT ![bundle[r].day] = row]
    BY DEF Settled
  <1> HIDE DEF row
  <1> QED BY <1>1, <1>2, <1>3

LEMMA BeginDoes ==
  ASSUME BackupsAssumption, BackupsInv, NEW r \in Runs, run[r].pc = "new", Begin(r), now' = now
  PROVE  bundle' \in [Runs -> BundleRows] /\ run' \in [Runs -> RunRows] /\ Begins(r)
  <1>1. bundle \in [Runs -> BundleRows] /\ run \in [Runs -> RunRows] /\ now \in Days
    BY RowsTyped
  <1>2. Cardinality(Begun) + 1 \in 0..Cardinality(Runs)
    <2>1. Cardinality(Begun) + 1 \in 1..Cardinality(Runs)
      BY OneMoreBegun
    <2> QED BY <2>1
  <1> DEFINE place == Cardinality(Begun) + 1
             row == [bundle[r] EXCEPT !.state = "incomplete", !.day = now, !.seq = place]
             mine == [run[r] EXCEPT !.pc = "marked"]
  <1>3. row \in BundleRows /\ mine \in RunRows
    BY <1>1, <1>2, BundleRow, RunRow DEF Steps
  <1>4. bundle' = [bundle EXCEPT ![r] = row] /\ run' = [run EXCEPT ![r] = mine]
    BY <1>1 DEF Begin, Begun
  <1>5. row.state = "incomplete" /\ row.day = now /\ row.seq = place /\ row.broken = bundle[r].broken
    BY <1>1 DEF BundleRows
  <1>6. mine.pc = "marked" /\ mine.list = run[r].list
    BY <1>1 DEF RunRows
  <1> HIDE DEF row, mine
  <1>7. bundle' \in [Runs -> BundleRows] /\ run' \in [Runs -> RunRows]
    BY <1>1, <1>3, <1>4
  <1>8. /\ bundle'[r] = row /\ run'[r] = mine
        /\ \A b \in Runs \ {r} : bundle'[b] = bundle[b] /\ run'[b] = run[b]
    BY <1>1, <1>4
  <1> QED BY <1>5, <1>6, <1>7, <1>8 DEF Begins, OtherRuns, OthersSame, SameBundle

LEMMA FailsDoes ==
  ASSUME BackupsInv, NEW r \in Runs, run[r].pc \in Steps \ {"new"}, Fails(r), now' = now
  PROVE  Does
  <1>1. bundle \in [Runs -> BundleRows] /\ run \in [Runs -> RunRows]
    BY RowsTyped
  <1> DEFINE state == IF bundle[r].state = "incomplete" THEN "gone" ELSE bundle[r].state
             row == [bundle[r] EXCEPT !.state = state]
             mine == [run[r] EXCEPT !.pc = "failed"]
  <1>2. state \in {"none", "incomplete", "final", "gone"}
    BY <1>1 DEF BundleRows
  <1>3. row \in BundleRows /\ mine \in RunRows
    BY <1>1, <1>2, BundleRow, RunRow DEF Ends
  <1>4. bundle' = [bundle EXCEPT ![r] = row] /\ run' = [run EXCEPT ![r] = mine]
    BY <1>1 DEF Fails
  <1>5. row.state = state /\ row.day = bundle[r].day /\ row.seq = bundle[r].seq /\ row.broken = bundle[r].broken
    BY <1>1 DEF BundleRows
  <1>6. mine.pc = "failed" /\ mine.list = run[r].list
    BY <1>1 DEF RunRows
  <1> HIDE DEF row, mine
  <1>7. bundle' \in [Runs -> BundleRows] /\ run' \in [Runs -> RunRows]
    BY <1>1, <1>3, <1>4
  <1>8. /\ bundle'[r] = row /\ run'[r] = mine
        /\ \A b \in Runs \ {r} : bundle'[b] = bundle[b] /\ run'[b] = run[b]
    BY <1>1, <1>4
  <1>9. Breaks(r)
    BY <1>5, <1>6, <1>8 DEF Breaks, OtherRuns, OthersSame, SameBundle
  <1>10. job' \in [Days -> JobRows] /\ JobsFollow
    BY SettledDoes DEF Fails, JobsFollow
  <1> QED BY <1>7, <1>9, <1>10 DEF Does, OneMove

LEMMA SnapshotDoes ==
  ASSUME BackupsInv, NEW r \in Runs, Snapshot(r) PROVE Does
  <1>1. bundle \in [Runs -> BundleRows] /\ run \in [Runs -> RunRows] /\ job \in [Days -> JobRows]
    BY RowsTyped
  <1> DEFINE row == [bundle[r] EXCEPT !.snapshot = Rows]
             mine == [run[r] EXCEPT !.pc = "snapped"]
  <1>2. Rows \in SUBSET Docs
    BY DEF Rows
  <1>3. row \in BundleRows /\ mine \in RunRows
    BY <1>1, <1>2, BundleRow, RunRow DEF Steps
  <1>4. bundle' = [bundle EXCEPT ![r] = row] /\ run' = [run EXCEPT ![r] = mine]
    BY <1>1 DEF Snapshot
  <1>5. row.state = bundle[r].state /\ row.day = bundle[r].day /\ row.seq = bundle[r].seq
        /\ row.broken = bundle[r].broken
    BY <1>1 DEF BundleRows
  <1>6. mine.pc = "snapped" /\ mine.list = run[r].list
    BY <1>1 DEF RunRows
  <1> HIDE DEF row, mine
  <1>7. bundle' \in [Runs -> BundleRows] /\ run' \in [Runs -> RunRows]
    BY <1>1, <1>3, <1>4
  <1>8. /\ bundle'[r] = row /\ run'[r] = mine
        /\ \A b \in Runs \ {r} : bundle'[b] = bundle[b] /\ run'[b] = run[b]
    BY <1>1, <1>4
  <1>9. run[r].pc = "marked" /\ now' = now /\ job' = job
    BY DEF Snapshot
  <1>10. Reads(r)
    BY <1>5, <1>6, <1>8, <1>9 DEF Reads, OtherRuns, SameBundles, SameBundle
  <1> QED BY <1>1, <1>7, <1>9, <1>10 DEF Does, OneMove, JobsFollow

LEMMA CopyDoes ==
  ASSUME BackupsInv, NEW r \in Runs, NEW d \in Docs, Copy(r, d) PROVE Does
  <1>1. bundle \in [Runs -> BundleRows] /\ run \in [Runs -> RunRows] /\ job \in [Days -> JobRows]
    BY RowsTyped
  <1>2. CASE d \notin Files
    BY <1>2, FailsDoes DEF Copy, Steps
  <1>3. CASE d \in Files
    <2>1. PICK link \in BOOLEAN :
            bundle' = [bundle EXCEPT ![r].copied = @ \cup {d},
                         ![r].linked = IF link THEN @ \cup {d} ELSE @,
                         ![r].bad = IF d \in spoiled THEN @ \cup {d} ELSE @]
      BY <1>3 DEF Copy
    <2> DEFINE copied == bundle[r].copied \cup {d}
               linked == IF link THEN bundle[r].linked \cup {d} ELSE bundle[r].linked
               bad == IF d \in spoiled THEN bundle[r].bad \cup {d} ELSE bundle[r].bad
               row == [bundle[r] EXCEPT !.copied = copied, !.linked = linked, !.bad = bad]
    <2>2. copied \in SUBSET Docs /\ linked \in SUBSET Docs /\ bad \in SUBSET Docs
      BY <1>1 DEF BundleRows
    <2>3. bundle' = [bundle EXCEPT ![r] = row]
      BY <1>1, <2>1
    <2> HIDE DEF copied, linked, bad
    <2>4. row \in BundleRows
      BY <1>1, <2>2, BundleRow
    <2>5. row.state = bundle[r].state /\ row.day = bundle[r].day /\ row.seq = bundle[r].seq
          /\ row.broken = bundle[r].broken
      BY <1>1 DEF BundleRows
    <2> HIDE DEF row
    <2>6. bundle' \in [Runs -> BundleRows]
      BY <1>1, <2>3, <2>4
    <2>7. bundle'[r] = row /\ \A b \in Runs \ {r} : bundle'[b] = bundle[b]
      BY <1>1, <2>3
    <2>8. now' = now /\ job' = job /\ run' = run
      BY <1>3 DEF Copy
    <2>9. now' >= now
      BY <2>8, RowsTyped DEF Days
    <2>10. Leaves
      BY <2>5, <2>7, <2>8, <2>9 DEF Leaves, SameRuns, SameBundles, SameBundle
    <2> QED BY <1>1, <2>6, <2>8, <2>10 DEF Does, OneMove, JobsFollow
  <1> QED BY <1>2, <1>3

LEMMA RenameDoes ==
  ASSUME BackupsInv, NEW r \in Runs, Rename(r) PROVE Does
  <1>1. bundle \in [Runs -> BundleRows] /\ run \in [Runs -> RunRows] /\ job \in [Days -> JobRows]
    BY RowsTyped
  <1>2. CASE bundle[r].broken
    BY <1>2, FailsDoes DEF Rename, Steps
  <1>3. CASE ~bundle[r].broken
    <2> DEFINE row == [bundle[r] EXCEPT !.state = "final"]
               mine == [run[r] EXCEPT !.pc = "renamed"]
    <2>1. row \in BundleRows /\ mine \in RunRows
      BY <1>1, BundleRow, RunRow DEF Steps
    <2>2. bundle' = [bundle EXCEPT ![r] = row] /\ run' = [run EXCEPT ![r] = mine]
      BY <1>1, <1>3 DEF Rename
    <2>3. row.state = "final" /\ row.day = bundle[r].day /\ row.seq = bundle[r].seq
          /\ row.broken = bundle[r].broken
      BY <1>1 DEF BundleRows
    <2>4. mine.pc = "renamed" /\ mine.list = run[r].list
      BY <1>1 DEF RunRows
    <2> HIDE DEF row, mine
    <2>5. bundle' \in [Runs -> BundleRows] /\ run' \in [Runs -> RunRows]
      BY <1>1, <2>1, <2>2
    <2>6. /\ bundle'[r] = row /\ run'[r] = mine
          /\ \A b \in Runs \ {r} : bundle'[b] = bundle[b] /\ run'[b] = run[b]
      BY <1>1, <2>2
    <2>7. run[r].pc = "snapped" /\ now' = now /\ job' = job
      BY <1>3 DEF Rename
    <2>8. Publishes(r)
      BY <1>3, <2>3, <2>4, <2>6, <2>7 DEF Publishes, OtherRuns, OthersSame, SameBundle
    <2> QED BY <1>1, <2>5, <2>7, <2>8 DEF Does, OneMove, JobsFollow
  <1> QED BY <1>2, <1>3

LEMMA InspectDoes ==
  ASSUME BackupsInv, NEW r \in Runs, Inspect(r) PROVE Does
  <1>1. bundle \in [Runs -> BundleRows] /\ run \in [Runs -> RunRows] /\ job \in [Days -> JobRows]
    BY RowsTyped
  <1> DEFINE list == Abandoned(r) \cup Outdated(r)
             mine == [run[r] EXCEPT !.pc = "removing", !.list = list]
  <1>2. list \in SUBSET Runs
    BY DEF Abandoned, Outdated, Present, Ranked, Kept
  <1>3. run' = [run EXCEPT ![r] = mine]
    BY <1>1 DEF Inspect
  <1> HIDE DEF list
  <1>4. mine \in RunRows
    BY <1>1, <1>2, RunRow DEF Steps
  <1>5. mine.pc = "removing" /\ mine.list = list
    BY <1>1 DEF RunRows
  <1> HIDE DEF mine
  <1>6. run' \in [Runs -> RunRows] /\ run'[r] = mine /\ \A s \in Runs \ {r} : run'[s] = run[s]
    BY <1>1, <1>3, <1>4
  <1>7. run[r].pc = "renamed" /\ now' = now /\ job' = job /\ bundle' = bundle
    BY DEF Inspect
  <1>8. Looks(r)
    BY <1>5, <1>6, <1>7 DEF Looks, OtherRuns, SameBundles, SameBundle, list
  <1> QED BY <1>1, <1>6, <1>7, <1>8 DEF Does, OneMove, JobsFollow

LEMMA RemoveDoes ==
  ASSUME BackupsInv, NEW r \in Runs, NEW b \in Runs, Remove(r, b) PROVE Does
  <1>1. bundle \in [Runs -> BundleRows] /\ run \in [Runs -> RunRows] /\ job \in [Days -> JobRows]
    BY RowsTyped
  <1> DEFINE row == [bundle[b] EXCEPT !.state = "gone"]
             list == run[r].list \ {b}
             mine == [run[r] EXCEPT !.list = list]
  <1>2. bundle' = [bundle EXCEPT ![b] = row] /\ run' = [run EXCEPT ![r] = mine]
    BY <1>1 DEF Remove
  <1>3. list \in SUBSET Runs
    BY <1>1 DEF RunRows
  <1>4. row \in BundleRows /\ mine \in RunRows
    BY <1>1, <1>3, BundleRow, RunRow
  <1>5. row.state = "gone" /\ row.day = bundle[b].day /\ row.seq = bundle[b].seq
        /\ row.broken = bundle[b].broken
    BY <1>1 DEF BundleRows
  <1>6. mine.pc = run[r].pc /\ mine.list = list
    BY <1>1 DEF RunRows
  <1> HIDE DEF row, mine
  <1>7. bundle' \in [Runs -> BundleRows] /\ run' \in [Runs -> RunRows]
    BY <1>1, <1>2, <1>4
  <1>8. /\ bundle'[b] = row /\ \A c \in Runs \ {b} : bundle'[c] = bundle[c]
        /\ run'[r] = mine /\ \A s \in Runs \ {r} : run'[s] = run[s]
    BY <1>1, <1>2
  <1>9. run[r].pc = "removing" /\ b \in run[r].list /\ now' = now /\ job' = job
    BY DEF Remove
  <1>10. Removes(r, b)
    BY <1>5, <1>6, <1>8, <1>9 DEF Removes, OtherRuns, OthersSame, SameBundle
  <1> QED BY <1>1, <1>7, <1>9, <1>10 DEF Does, OneMove, JobsFollow

LEMMA FinishDoes ==
  ASSUME BackupsInv, NEW r \in Runs, Finish(r) PROVE Does
  <1>1. bundle \in [Runs -> BundleRows] /\ run \in [Runs -> RunRows]
    BY RowsTyped
  <1> DEFINE mine == [run[r] EXCEPT !.pc = "done"]
  <1>2. mine \in RunRows
    BY <1>1, RunRow DEF Ends
  <1>3. run' = [run EXCEPT ![r] = mine]
    BY <1>1 DEF Finish
  <1>4. mine.pc = "done" /\ mine.list = run[r].list
    BY <1>1 DEF RunRows
  <1> HIDE DEF mine
  <1>5. run' \in [Runs -> RunRows] /\ run'[r] = mine /\ \A s \in Runs \ {r} : run'[s] = run[s]
    BY <1>1, <1>2, <1>3
  <1>6. run[r].pc = "removing" /\ now' = now /\ bundle' = bundle
    BY DEF Finish
  <1>7. Completes(r)
    BY <1>4, <1>5, <1>6 DEF Completes, OtherRuns, SameBundles, SameBundle
  <1>8. job' \in [Days -> JobRows]
    BY SettledDoes DEF Finish
  <1>9. JobsFollow
    BY <1>4, <1>5 DEF JobsFollow
  <1> QED BY <1>1, <1>5, <1>6, <1>7, <1>8, <1>9 DEF Does, OneMove

LEMMA SpoilDoes ==
  ASSUME BackupsInv, NEW d \in Docs, Spoil(d) PROVE Does
  <1>1. bundle \in [Runs -> BundleRows] /\ run \in [Runs -> RunRows] /\ job \in [Days -> JobRows]
    BY RowsTyped
  <1> DEFINE spoilt(b) == [bundle[b] EXCEPT !.bad = @ \cup {d}]
  <1>2. ASSUME NEW b \in Runs
        PROVE  /\ spoilt(b) \in BundleRows /\ spoilt(b).state = bundle[b].state
               /\ spoilt(b).day = bundle[b].day /\ spoilt(b).seq = bundle[b].seq
               /\ spoilt(b).broken = bundle[b].broken
    <2>1. bundle[b] \in BundleRows
      BY <1>1
    <2>2. bundle[b].bad \cup {d} \in SUBSET Docs
      BY <2>1 DEF BundleRows
    <2>3. spoilt(b) \in BundleRows
      BY <2>1, <2>2, BundleRow
    <2> QED BY <2>1, <2>3 DEF BundleRows
  <1>3. bundle' = [b \in Runs |-> IF d \in bundle[b].linked THEN spoilt(b) ELSE bundle[b]]
    BY DEF Spoil
  <1> HIDE DEF spoilt
  <1>4. \A b \in Runs : bundle'[b] = spoilt(b) \/ bundle'[b] = bundle[b]
    BY <1>3
  <1>5. bundle' \in [Runs -> BundleRows] /\ SameBundles
    <2>1. \A b \in Runs : (IF d \in bundle[b].linked THEN spoilt(b) ELSE bundle[b]) \in BundleRows
      BY <1>1, <1>2
    <2>2. bundle' \in [Runs -> BundleRows]
      BY <1>3, <2>1
    <2>3. SameBundles
      BY <1>2, <1>4 DEF SameBundles, SameBundle
    <2> QED BY <2>2, <2>3
  <1>6. now' = now /\ job' = job /\ run' = run
    BY DEF Spoil
  <1>7. now' >= now
    BY <1>6, RowsTyped DEF Days
  <1> QED BY <1>1, <1>5, <1>6, <1>7 DEF Does, OneMove, JobsFollow, Leaves, SameRuns

LEMMA BreakDoes ==
  ASSUME BackupsInv, NEW b \in Runs, Break(b) PROVE Does
  <1>1. bundle \in [Runs -> BundleRows] /\ run \in [Runs -> RunRows] /\ job \in [Days -> JobRows]
    BY RowsTyped
  <1> DEFINE row == [bundle[b] EXCEPT !.broken = TRUE]
  <1>2. row \in BundleRows
    BY <1>1, BundleRow
  <1>3. bundle' = [bundle EXCEPT ![b] = row]
    BY <1>1 DEF Break
  <1>4. row.state = bundle[b].state /\ row.day = bundle[b].day /\ row.seq = bundle[b].seq /\ row.broken = TRUE
    BY <1>1 DEF BundleRows
  <1> HIDE DEF row
  <1>5. bundle' \in [Runs -> BundleRows] /\ bundle'[b] = row /\ \A c \in Runs \ {b} : bundle'[c] = bundle[c]
    BY <1>1, <1>2, <1>3
  <1>6. now' = now /\ job' = job /\ run' = run /\ \A r \in Runs : run[r].pc # "removing"
    BY DEF Break
  <1>7. Damages(b)
    BY <1>4, <1>5, <1>6 DEF Damages, OthersSame, SameBundle, SameRuns
  <1> QED BY <1>1, <1>5, <1>6, <1>7 DEF Does, OneMove, JobsFollow

LEMMA RestartDoes ==
  ASSUME BackupsInv, Restart PROVE Does
  <1>1. bundle \in [Runs -> BundleRows] /\ run \in [Runs -> RunRows] /\ job \in [Days -> JobRows]
    BY RowsTyped
  <1> DEFINE lost == [pc |-> "lost", list |-> {}]
  <1>2. lost \in RunRows /\ lost.pc = "lost" /\ lost.list = {}
    BY DEF RunRows, Ends
  <1>3. run' = [r \in Runs |-> IF r \in Scheduled /\ Alive(r) THEN lost ELSE run[r]]
    BY DEF Restart
  <1> HIDE DEF lost
  <1>4. run' \in [Runs -> RunRows]
    BY <1>1, <1>2, <1>3
  <1>5. \A r \in Runs : run'[r] = run[r] \/ (run[r].pc \in Steps \ {"new"} /\ run'[r] = lost)
    BY <1>3 DEF Alive
  <1>6. now' = now /\ job' = job /\ bundle' = bundle
    BY DEF Restart
  <1>7. Loses
    BY <1>2, <1>5, <1>6 DEF Loses, SameBundles, SameBundle
  <1> QED BY <1>1, <1>4, <1>6, <1>7 DEF Does, OneMove, JobsFollow

(* A run of the scheduler, or of the command line, begins. *)
LEMMA StartDoes ==
  ASSUME BackupsAssumption, BackupsInv, NEW r \in Runs, Tick(r) \/ CommandLine(r)
  PROVE  Does
  <1>1. run[r].pc = "new" /\ Begin(r) /\ now' = now
    BY DEF Tick, CommandLine
  <1>2. bundle' \in [Runs -> BundleRows] /\ run' \in [Runs -> RunRows] /\ Begins(r)
    BY <1>1, BeginDoes
  <1>3. job \in [Days -> JobRows] /\ now \in Days
    BY RowsTyped
  <1> DEFINE row == [status |-> "pending", by |-> r]
  <1>4. row \in JobRows /\ row.status = "pending"
    BY DEF JobRows
  <1>5. job' = job \/ job' = [job EXCEPT ![now] = row]
    BY DEF Tick, CommandLine
  <1> HIDE DEF row
  <1>6. job' \in [Days -> JobRows] /\ \A d \in Days : job'[d].status = "completed" => job[d].status = "completed"
    BY <1>3, <1>4, <1>5
  <1> QED BY <1>2, <1>6 DEF Does, OneMove, JobsFollow

(* Every step is one of the moves. *)
LEMMA StepDoes ==
  ASSUME BackupsAssumption, BackupsInv, [Next]_vars PROVE Does
  <1>1. ASSUME run' = run, bundle' = bundle, job' = job, now' >= now PROVE Does
    BY <1>1, RowsTyped DEF Does, OneMove, JobsFollow, Leaves, SameRuns, SameBundles, SameBundle
  <1>2. now' = now => now' >= now
    BY RowsTyped DEF Days
  <1>3. ASSUME NEW r \in Runs, Tick(r) \/ CommandLine(r) PROVE Does
    BY <1>3, StartDoes
  <1>4. ASSUME NEW r \in Runs, Step(r) PROVE Does
    BY <1>4, SnapshotDoes, CopyDoes, RenameDoes, InspectDoes, RemoveDoes, FinishDoes DEF Step
  <1>5. ASSUME NEW r \in Runs, Fail(r) PROVE Does
    BY <1>5, FailsDoes DEF Fail, Alive
  <1>6. ASSUME NEW d \in Docs, \/ StoreFile(d) \/ StoreRow(d) \/ TakeFile(d) \/ BringBack(d) \/ RemoveRow(d)
        PROVE  Does
    BY <1>1, <1>2, <1>6 DEF StoreFile, StoreRow, TakeFile, BringBack, RemoveRow, Becomes
  <1>7. ASSUME NEW d \in Docs, Spoil(d) PROVE Does
    BY <1>7, SpoilDoes
  <1>8. ASSUME NEW b \in Runs, Break(b) PROVE Does
    BY <1>8, BreakDoes
  <1>9. ASSUME Restart PROVE Does
    BY <1>9, RestartDoes
  <1>10. ASSUME NextDay PROVE Does
    <2>1. now' >= now
      BY <1>10, RowsTyped DEF NextDay, Days
    <2> QED BY <1>1, <1>10, <2>1 DEF NextDay
  <1>11. ASSUME UNCHANGED vars PROVE Does
    BY <1>1, <1>2, <1>11 DEF vars
  <1> QED BY <1>3, <1>4, <1>5, <1>6, <1>7, <1>8, <1>9, <1>10, <1>11 DEF Next

(* The day, the documents and the bounds keep their types. *)
LEMMA SurroundingsTyped ==
  ASSUME BackupsAssumption, TypeOK, [Next]_vars
  PROVE  /\ now' \in Days /\ spoiled' \subseteq Docs
         /\ doc' \in [Docs -> {"new", "file", "row", "taken", "back", "gone"}]
         /\ damages' \in 0..MaxDamages /\ faults' \in 0..MaxFaults /\ restarts' \in 0..MaxRestarts
  <1> DEFINE DocStates == {"new", "file", "row", "taken", "back", "gone"}
             Goal == /\ now' \in Days /\ spoiled' \subseteq Docs /\ doc' \in [Docs -> DocStates]
                     /\ damages' \in 0..MaxDamages /\ faults' \in 0..MaxFaults
                     /\ restarts' \in 0..MaxRestarts
  <1>1. /\ now \in Days /\ spoiled \subseteq Docs /\ doc \in [Docs -> DocStates]
        /\ damages \in 0..MaxDamages /\ faults \in 0..MaxFaults /\ restarts \in 0..MaxRestarts
    BY DEF TypeOK
  <1>2. MaxDamages \in Nat /\ MaxFaults \in Nat /\ MaxRestarts \in Nat /\ LastDay \in Nat
    BY DEF BackupsAssumption
  <1>3. UNCHANGED <<now, vault, bounds>> => Goal
    BY <1>1 DEF vault, bounds
  <1> HIDE DEF Goal
  <1>4. ASSUME NEW r \in Runs, Tick(r) \/ CommandLine(r) \/ Step(r) PROVE Goal
    <2>1. CASE Tick(r) \/ CommandLine(r)
      BY <1>3, <2>1 DEF Tick, CommandLine
    <2>2. CASE Snapshot(r) \/ Rename(r) \/ Inspect(r) \/ Finish(r)
      BY <1>3, <2>2 DEF Snapshot, Rename, Inspect, Finish
    <2>3. ASSUME NEW d \in Docs, Copy(r, d) PROVE Goal
      <3>1. UNCHANGED <<now, vault, bounds>>
        BY Zenon, <2>3 DEF Copy
      <3> QED BY <1>3, <3>1
    <2>4. ASSUME NEW b \in Runs, Remove(r, b) PROVE Goal
      BY <1>3, <2>4 DEF Remove
    <2> QED BY <1>4, <2>1, <2>2, <2>3, <2>4 DEF Step
  <1>5. ASSUME NEW r \in Runs, Fail(r) PROVE Goal
    <2>1. faults' \in 0..MaxFaults /\ UNCHANGED <<now, vault, damages, restarts>>
      BY <1>1, <1>2, <1>5 DEF Fail
    <2> QED BY <1>1, <2>1 DEF vault, Goal
  <1>6. ASSUME NEW d \in Docs, NEW from, NEW to \in DocStates, Becomes(d, from, to) PROVE Goal
    <2>1. doc' \in [Docs -> DocStates] /\ UNCHANGED <<now, spoiled, bounds>>
      BY <1>1, <1>6 DEF Becomes
    <2> QED BY <1>1, <2>1 DEF bounds, Goal
  <1>7. ASSUME NEW d \in Docs, \/ StoreFile(d) \/ StoreRow(d) \/ TakeFile(d) \/ BringBack(d) \/ RemoveRow(d)
        PROVE  Goal
    BY <1>6, <1>7 DEF StoreFile, StoreRow, TakeFile, BringBack, RemoveRow
  <1>8. ASSUME NEW d \in Docs, Spoil(d) PROVE Goal
    <2>1. damages' \in 0..MaxDamages /\ spoiled' \subseteq Docs /\ UNCHANGED <<now, doc, faults, restarts>>
      BY <1>1, <1>2, <1>8 DEF Spoil
    <2> QED BY <1>1, <2>1 DEF Goal
  <1>9. ASSUME NEW b \in Runs, Break(b) PROVE Goal
    <2>1. damages' \in 0..MaxDamages /\ UNCHANGED <<now, vault, faults, restarts>>
      BY <1>1, <1>2, <1>9 DEF Break
    <2> QED BY <1>1, <2>1 DEF vault, Goal
  <1>10. ASSUME Restart PROVE Goal
    <2>1. restarts' \in 0..MaxRestarts /\ UNCHANGED <<now, vault, damages, faults>>
      BY <1>1, <1>2, <1>10 DEF Restart
    <2> QED BY <1>1, <2>1 DEF vault, Goal
  <1>11. ASSUME NextDay PROVE Goal
    <2>1. now' \in Days /\ UNCHANGED <<vault, bounds>>
      BY <1>1, <1>2, <1>11 DEF NextDay, Days
    <2> QED BY <1>1, <2>1 DEF vault, bounds, Goal
  <1>12. ASSUME UNCHANGED vars PROVE Goal
    BY <1>3, <1>12 DEF vars, vault, bounds
  <1>13. ASSUME Next PROVE Goal
    BY <1>4, <1>5, <1>7, <1>8, <1>9, <1>10, <1>11, <1>13 DEF Next
  <1>14. Goal
    BY <1>12, <1>13
  <1> QED BY <1>14 DEF Goal

(* A bundle is kept when it is published and its database is sound. *)
LEMMA KeptAre ==
  Kept = {b \in Runs : bundle[b].state = "final" /\ ~bundle[b].broken}
  <1>1. ASSUME NEW b \in Runs, bundle[b].state = "incomplete" PROVE Class(b) = "incomplete"
    BY <1>1 DEF Class
  <1>2. ASSUME NEW b \in Runs, bundle[b].state # "incomplete", bundle[b].broken PROVE Class(b) = "invalid"
    BY <1>2 DEF Class
  <1>3. ASSUME NEW b \in Runs, bundle[b].state # "incomplete", ~bundle[b].broken
        PROVE  Class(b) \in {"valid", "degraded"}
    BY <1>3 DEF Class
  <1> QED BY <1>1, <1>2, <1>3 DEF Kept, Present

(* What retention is going to remove belongs to runs past their working directory. *)
LEMMA ListIsOver ==
  ASSUME BackupsInv, NEW r \in Runs, NEW b \in Abandoned(r) \cup Outdated(r)
  PROVE  b \in Runs /\ run[b].pc \notin {"new", "marked", "snapped"}
  <1>1. b \in Runs /\ bundle[b].state \in {"incomplete", "final"}
    BY DEF Abandoned, Outdated, Ranked, Kept, Present
  <1>2. run[b].pc # "new"
    BY <1>1 DEF BackupsInv, BegunRunsCount
  <1>3. CASE b \in Abandoned(r)
    BY <1>1, <1>2, <1>3 DEF Abandoned, Active, Alive, Steps
  <1>4. CASE b \in Outdated(r)
    <2>1. bundle[b].state = "final"
      BY <1>4, KeptAre DEF Outdated, Ranked
    <2> QED BY <1>1, <1>2, <2>1 DEF BackupsInv, WorkIsKept, Alive, Steps
  <1> QED BY <1>1, <1>3, <1>4

(* Every step keeps the types, and the working directories to their runs. *)
LEMMA InvKept ==
  ASSUME BackupsAssumption, BackupsInv, [Next]_vars PROVE BackupsInv'
  <1>1. /\ bundle' \in [Runs -> BundleRows] /\ run' \in [Runs -> RunRows] /\ job' \in [Days -> JobRows]
        /\ OneMove
    BY StepDoes DEF Does
  <1>2. TypeOK'
    BY <1>1, SurroundingsTyped DEF TypeOK, BundleRows, RunRows, JobRows, BackupsInv
  <1> DEFINE InOne(r) == /\ run[r].pc = "new" <=> bundle[r].seq = 0
                         /\ run[r].pc = "new" => bundle[r].state = "none"
                         /\ run[r].pc \in {"marked", "snapped"} => bundle[r].state = "incomplete"
                         /\ \A b \in run[r].list : run[b].pc \notin {"new", "marked", "snapped"}
  <1>3. /\ \A r \in Runs : run[r].list \subseteq Runs
        /\ (\A r \in Runs : InOne(r))
        /\ ((\A r \in Runs : InOne(r)') => (BegunRunsCount /\ WorkIsKept /\ ListsAreOver)')
    <2>1. \A r \in Runs : run[r].list \subseteq Runs
      BY RowsTyped DEF RunRows
    <2>2. \A r \in Runs : InOne(r)
      BY DEF BackupsInv, BegunRunsCount, WorkIsKept, ListsAreOver, Alive, Steps
    <2>3. (\A r \in Runs : InOne(r)') => (BegunRunsCount /\ WorkIsKept /\ ListsAreOver)'
      BY DEF BegunRunsCount, WorkIsKept, ListsAreOver
    <2> QED BY <2>1, <2>2, <2>3
  <1> SUFFICES \A s \in Runs : InOne(s)'
    BY <1>2, <1>3 DEF BackupsInv
  <1>4. ASSUME NEW r \in Runs, Begins(r), NEW s \in Runs PROVE InOne(s)'
    <2>1. Cardinality(Begun) + 1 \in 1..Cardinality(Runs)
      BY <1>4, OneMoreBegun DEF Begins
    <2>2. bundle'[r].seq # 0 /\ run'[r].pc = "marked"
      BY <1>4, <2>1 DEF Begins
    <2> QED BY <1>3, <1>4, <2>2 DEF Begins, OtherRuns, OthersSame, SameBundle
  <1>5. ASSUME NEW r \in Runs, Breaks(r), NEW s \in Runs PROVE InOne(s)'
    BY <1>3, <1>5 DEF Breaks, OtherRuns, OthersSame, SameBundle
  <1>6. ASSUME NEW r \in Runs, Reads(r) \/ Completes(r), NEW s \in Runs PROVE InOne(s)'
    BY <1>3, <1>6 DEF Reads, Completes, OtherRuns, SameBundles, SameBundle
  <1>7. ASSUME NEW r \in Runs, Looks(r), NEW s \in Runs PROVE InOne(s)'
    <2>1. \A b \in run'[r].list : b \in Runs /\ run[b].pc \notin {"new", "marked", "snapped"}
      BY <1>7, ListIsOver DEF Looks
    <2> QED BY <1>3, <1>7, <2>1 DEF Looks, OtherRuns, SameBundles, SameBundle
  <1>8. ASSUME NEW r \in Runs, Publishes(r), NEW s \in Runs PROVE InOne(s)'
    BY <1>3, <1>8 DEF Publishes, OtherRuns, OthersSame, SameBundle
  <1>9. ASSUME NEW r \in Runs, NEW b \in Runs, Removes(r, b), NEW s \in Runs PROVE InOne(s)'
    BY <1>3, <1>9 DEF Removes, OtherRuns, OthersSame, SameBundle
  <1>10. ASSUME NEW b \in Runs, Damages(b), NEW s \in Runs PROVE InOne(s)'
    BY <1>3, <1>10 DEF Damages, OthersSame, SameBundle, SameRuns
  <1>11. ASSUME Loses, NEW s \in Runs PROVE InOne(s)'
    <2>1. \A b \in Runs : run[b].pc \notin {"new", "marked", "snapped"} => run'[b].pc \notin {"new", "marked", "snapped"}
      BY <1>11 DEF Loses
    <2>2. run'[s].list \subseteq run[s].list
      BY <1>11 DEF Loses
    <2>3. /\ run'[s].pc = "new" <=> run[s].pc = "new"
          /\ run'[s].pc \in {"marked", "snapped"} => run[s].pc \in {"marked", "snapped"}
      BY <1>11 DEF Loses
    <2> QED BY <1>3, <1>11, <2>1, <2>2, <2>3 DEF Loses, SameBundles, SameBundle
  <1>12. ASSUME Leaves, NEW s \in Runs PROVE InOne(s)'
    BY <1>3, <1>12 DEF Leaves, SameRuns, SameBundles, SameBundle
  <1> QED BY <1>1, <1>4, <1>5, <1>6, <1>7, <1>8, <1>9, <1>10, <1>11, <1>12 DEF OneMove

(* The variables keep their types. *)
THEOREM TypeCorrect == ASSUME BackupsAssumption PROVE Spec => []TypeOK
  <1>1. Init => BackupsInv
    BY InvAtFirst
  <1>2. BackupsInv /\ [Next]_vars => BackupsInv'
    BY InvKept
  <1>3. BackupsInv => TypeOK
    BY DEF BackupsInv
  <1> QED BY <1>1, <1>2, <1>3, PTL DEF Spec

(* The working directory of a run is there until the run renames it or fails, *)
(* however long it takes and whoever applies retention meanwhile              *)
(* (isActiveBackupPath, enforceBackupRetention).                              *)
THEOREM WorkIsAlwaysKept == ASSUME BackupsAssumption PROVE Spec => []WorkIsKept
  <1>1. Init => BackupsInv
    BY InvAtFirst
  <1>2. BackupsInv /\ [Next]_vars => BackupsInv'
    BY InvKept
  <1>3. BackupsInv => WorkIsKept
    BY DEF BackupsInv
  <1> QED BY <1>1, <1>2, <1>3, PTL DEF Spec

-----------------------------------------------------------------------------
(* The order of the bundles *)

(* A bundle begun later is not of an earlier day, and the last place is the   *)
(* number of the runs that have begun.                                        *)
InOrder ==
  /\ \A b \in Runs : bundle[b].day <= now /\ bundle[b].seq <= Cardinality(Begun)
  /\ \A b, c \in Runs :
       bundle[c].seq > 0 /\ bundle[b].seq >= bundle[c].seq => bundle[b].day >= bundle[c].day

LEMMA OrderedAtFirst == ASSUME BackupsAssumption, Init PROVE InOrder
  <1>1. \A b \in Runs : bundle[b].day = 0 /\ bundle[b].seq = 0 /\ now = 0
    BY DEF Init
  <1>2. Cardinality(Begun) \in Nat
    BY RunsCount DEF Begun
  <1> QED BY <1>1, <1>2 DEF InOrder

(* What the numbers of a bundle are. *)
LEMMA Numbers ==
  ASSUME BackupsAssumption, BackupsInv
  PROVE  /\ now \in Nat /\ Cardinality(Begun) \in Nat
         /\ \A b \in Runs : bundle[b].day \in Nat /\ bundle[b].seq \in Nat /\ bundle[b].broken \in BOOLEAN
  <1>1. Cardinality(Runs) \in Nat /\ Cardinality(Begun) \in Nat
    BY RunsCount DEF Begun
  <1>2. Days \subseteq Nat /\ 0..Cardinality(Runs) \subseteq Nat
    BY <1>1 DEF Days
  <1>3. \A b \in Runs : bundle[b] \in BundleRows
    BY RowsTyped
  <1>4. \A b \in Runs : /\ bundle[b].day \in Days /\ bundle[b].seq \in 0..Cardinality(Runs)
                        /\ bundle[b].broken \in BOOLEAN
    BY <1>3 DEF BundleRows
  <1>5. now \in Days
    BY RowsTyped
  <1> QED BY <1>1, <1>2, <1>4, <1>5

LEMMA OrderKept ==
  ASSUME BackupsAssumption, BackupsInv, InOrder, [Next]_vars PROVE InOrder'
  <1>0. OneMove /\ BackupsInv'
    BY StepDoes, InvKept DEF Does
  <1>n. /\ now \in Nat /\ Cardinality(Begun) \in Nat
        /\ \A b \in Runs : bundle[b].day \in Nat /\ bundle[b].seq \in Nat
    BY Numbers
  <1>s. ASSUME \A b \in Runs : bundle'[b].day = bundle[b].day /\ bundle'[b].seq = bundle[b].seq,
               now' \in Nat, now' >= now
        PROVE  InOrder'
    <2>1. Begun' = Begun
      BY <1>s DEF Begun
    <2>2. now' >= now /\ now' \in Nat
      BY <1>s
    <2> QED BY <1>n, <1>s, <2>1, <2>2 DEF InOrder
  <1>m. now' \in Nat
    BY SurroundingsTyped DEF BackupsInv, Days
  <1>1. ASSUME NEW r \in Runs, Begins(r) PROVE InOrder'
    <2>1. bundle[r].seq = 0
      BY <1>1 DEF Begins, BackupsInv, BegunRunsCount
    <2>2. /\ bundle'[r].day = now /\ bundle'[r].seq = Cardinality(Begun) + 1 /\ now' = now
          /\ \A b \in Runs \ {r} : bundle'[b].day = bundle[b].day /\ bundle'[b].seq = bundle[b].seq
      BY <1>1 DEF Begins, OthersSame, SameBundle
    <2>3. Begun' = Begun \cup {r}
      BY <1>n, <2>1, <2>2 DEF Begun
    <2>4. Cardinality(Begun') = Cardinality(Begun) + 1
      BY <1>1, <2>3, OneMoreBegun DEF Begins
    <2>5. \A b \in Runs : bundle'[b].day <= now' /\ bundle'[b].seq <= Cardinality(Begun')
      BY <1>n, <2>2, <2>4 DEF InOrder
    <2>6. ASSUME NEW b \in Runs, NEW c \in Runs, bundle'[c].seq > 0, bundle'[b].seq >= bundle'[c].seq
          PROVE  bundle'[b].day >= bundle'[c].day
      <3>1. CASE b = r
        BY <1>n, <2>2, <2>5, <3>1
      <3>2. CASE b # r /\ c = r
        BY <1>n, <2>2, <2>6, <3>2 DEF InOrder
      <3>3. CASE b # r /\ c # r
        BY <1>n, <2>2, <2>6, <3>3 DEF InOrder
      <3> QED BY <3>1, <3>2, <3>3
    <2> QED BY <2>5, <2>6 DEF InOrder
  <1>2. ASSUME NEW r \in Runs, Breaks(r) PROVE InOrder'
    BY <1>n, <1>2, <1>s DEF Breaks, OthersSame, SameBundle
  <1>3. ASSUME NEW r \in Runs, Reads(r) \/ Looks(r) \/ Completes(r) PROVE InOrder'
    BY <1>n, <1>3, <1>s DEF Reads, Looks, Completes, SameBundles, SameBundle
  <1>4. ASSUME NEW r \in Runs, Publishes(r) PROVE InOrder'
    BY <1>n, <1>4, <1>s DEF Publishes, OthersSame, SameBundle
  <1>5. ASSUME NEW r \in Runs, NEW b \in Runs, Removes(r, b) PROVE InOrder'
    BY <1>n, <1>5, <1>s DEF Removes, OthersSame, SameBundle
  <1>6. ASSUME NEW b \in Runs, Damages(b) PROVE InOrder'
    BY <1>n, <1>6, <1>s DEF Damages, OthersSame, SameBundle
  <1>7. ASSUME Loses PROVE InOrder'
    BY <1>n, <1>7, <1>s DEF Loses, SameBundles, SameBundle
  <1>8. ASSUME Leaves PROVE InOrder'
    BY <1>m, <1>8, <1>s DEF Leaves, SameBundles, SameBundle
  <1> QED BY <1>0, <1>1, <1>2, <1>3, <1>4, <1>5, <1>6, <1>7, <1>8 DEF OneMove

-----------------------------------------------------------------------------
(* Retention keeps the newest *)

NewerKept(b) == {c \in Kept : Newer(c, b)}
Old(b) == bundle[b].day + Age < now

(* While a run removes, every sound bundle on its list is too old or has Keep *)
(* sound bundles after it, though another run removes at the same time: of   *)
(* those that count for it none goes without Keep of its own.                *)
ListsAreJustified ==
  \A r \in Runs : run[r].pc = "removing" =>
    \A b \in run[r].list \cap Kept : Old(b) \/ Cardinality(NewerKept(b)) >= Keep

LEMMA NewerCounts ==
  ASSUME BackupsAssumption
  PROVE  /\ Kept \in SUBSET Runs
         /\ \A b \in Runs : NewerKept(b) \in SUBSET Runs /\ Cardinality(NewerKept(b)) \in Nat
  <1>1. Kept \in SUBSET Runs /\ \A b \in Runs : NewerKept(b) \in SUBSET Runs
    BY DEF Kept, Present, NewerKept
  <1> QED BY <1>1, RunsCount

(* More of the newer bundles are kept than before. *)
LEMMA MoreNewer ==
  ASSUME BackupsAssumption, NEW b \in Runs, NewerKept(b) \subseteq NewerKept(b)',
         Cardinality(NewerKept(b)) >= Keep
  PROVE  Cardinality(NewerKept(b)') >= Keep
  <1>1. NewerKept(b)' \in SUBSET Runs
    BY DEF Kept, Present, NewerKept
  <1>2. Cardinality(NewerKept(b)) <= Cardinality(NewerKept(b)')
    BY <1>1, RunsCount
  <1>3. Cardinality(NewerKept(b)) \in Nat /\ Cardinality(NewerKept(b)') \in Nat /\ Keep \in Nat
    BY <1>1, NewerCounts, RunsCount DEF BackupsAssumption
  <1> QED BY <1>2, <1>3

LEMMA JustifiedKept ==
  ASSUME BackupsAssumption, BackupsInv, InOrder, ListsAreJustified, [Next]_vars
  PROVE  ListsAreJustified'
  <1>0. OneMove /\ BackupsInv'
    BY StepDoes, InvKept DEF Does
  <1>k. /\ Kept = {b \in Runs : bundle[b].state = "final" /\ ~bundle[b].broken}
        /\ Kept' = {b \in Runs : bundle'[b].state = "final" /\ ~bundle'[b].broken}
    <2>1. (Kept = {b \in Runs : bundle[b].state = "final" /\ ~bundle[b].broken})'
      BY KeptAre, PTL
    <2> QED BY <2>1, KeptAre
  <1>n. /\ now \in Nat /\ now' \in Nat /\ Age \in Nat /\ Keep \in Nat \ {0}
        /\ \A b \in Runs : bundle[b].day \in Nat /\ bundle[b].seq \in Nat
    BY Numbers, SurroundingsTyped DEF BackupsAssumption, BackupsInv, Days
  <1>l. \A r \in Runs : run[r].list \subseteq Runs
    BY RowsTyped DEF RunRows
  (* the bundles that were kept keep their places, and time goes on *)
  <1>s. ASSUME \A c \in Kept : bundle'[c].day = bundle[c].day /\ bundle'[c].seq = bundle[c].seq,
               Kept \subseteq Kept', now' >= now,
               NEW b \in Kept, Old(b) \/ Cardinality(NewerKept(b)) >= Keep
        PROVE  Old(b)' \/ Cardinality(NewerKept(b)') >= Keep
    <2>1. CASE Old(b)
      BY <1>k, <1>n, <1>s, <2>1 DEF Old
    <2>2. CASE Cardinality(NewerKept(b)) >= Keep
      <3>1. NewerKept(b) \subseteq NewerKept(b)'
        BY <1>s DEF NewerKept, Newer
      <3> QED BY <1>k, <2>2, <3>1, MoreNewer
    <2> QED BY <1>s, <2>1, <2>2
  (* no run begins to remove, and nothing it is going to remove becomes sound *)
  <1>t. ASSUME \A c \in Kept : bundle'[c].day = bundle[c].day /\ bundle'[c].seq = bundle[c].seq,
               Kept \subseteq Kept', now' >= now,
               \A r \in Runs : run'[r].pc = "removing" =>
                 /\ run[r].pc = "removing" /\ run'[r].list \cap Kept' \subseteq run[r].list \cap Kept
        PROVE  ListsAreJustified'
    <2> SUFFICES ASSUME NEW r \in Runs, run'[r].pc = "removing", NEW b \in run'[r].list \cap Kept'
                 PROVE  Old(b)' \/ Cardinality(NewerKept(b)') >= Keep
      BY DEF ListsAreJustified
    <2>1. b \in run[r].list \cap Kept /\ run[r].pc = "removing"
      BY <1>t
    <2>2. Old(b) \/ Cardinality(NewerKept(b)) >= Keep
      BY <2>1 DEF ListsAreJustified
    <2> QED BY <1>s, <1>t, <2>1, <2>2
  <1>e. now' = now => now' >= now
    BY <1>n
  <1>1. ASSUME NEW r \in Runs, Begins(r) PROVE ListsAreJustified'
    <2>1. bundle[r].state = "none" /\ bundle'[r].state = "incomplete"
      BY <1>1 DEF Begins, BackupsInv, BegunRunsCount
    <2>2. \A b \in Runs \ {r} : SameBundle(b)
      BY <1>1 DEF Begins, OthersSame
    <2>3. Kept' = Kept /\ r \notin Kept
      BY <1>k, <2>1, <2>2 DEF SameBundle
    <2>4. \A c \in Kept : bundle'[c].day = bundle[c].day /\ bundle'[c].seq = bundle[c].seq
      BY <1>k, <2>2, <2>3 DEF SameBundle
    <2>5. \A s \in Runs : run'[s].pc = "removing" => run[s].pc = "removing" /\ run'[s].list = run[s].list
      BY <1>1 DEF Begins, OtherRuns
    <2>6. now' >= now
      BY <1>1, <1>e DEF Begins
    <2> QED BY <1>t, <2>3, <2>4, <2>5, <2>6
  <1>2. ASSUME NEW r \in Runs, Breaks(r) PROVE ListsAreJustified'
    <2>1. \A b \in Runs : /\ bundle'[b].day = bundle[b].day /\ bundle'[b].seq = bundle[b].seq
                          /\ bundle'[b].state = "final" <=> bundle[b].state = "final"
                          /\ bundle'[b].broken = bundle[b].broken
      BY <1>2 DEF Breaks, OthersSame, SameBundle
    <2>2. Kept' = Kept
      BY <1>k, <2>1
    <2>3. \A s \in Runs : run'[s].pc = "removing" => run[s].pc = "removing" /\ run'[s].list = run[s].list
      BY <1>2 DEF Breaks, OtherRuns
    <2>4. now' >= now
      BY <1>2, <1>e DEF Breaks
    <2> QED BY <1>k, <1>t, <2>1, <2>2, <2>3, <2>4
  <1>3. ASSUME SameBundles, now' >= now,
               \A r \in Runs : run'[r].pc = "removing" => run[r].pc = "removing" /\ run'[r].list = run[r].list
        PROVE  ListsAreJustified'
    <2>1. Kept' = Kept
      BY <1>k, <1>3 DEF SameBundles, SameBundle
    <2> QED BY <1>k, <1>t, <1>3, <2>1 DEF SameBundles, SameBundle
  <1>4. ASSUME NEW r \in Runs, Reads(r) \/ Completes(r) PROVE ListsAreJustified'
    BY <1>3, <1>4, <1>e DEF Reads, Completes, OtherRuns
  <1>5. ASSUME Loses PROVE ListsAreJustified'
    <2>1. \A r \in Runs : run'[r].pc = "removing" => run'[r] = run[r]
      BY <1>5 DEF Loses
    <2> QED BY <1>3, <1>5, <1>e, <2>1 DEF Loses
  <1>6. ASSUME Leaves PROVE ListsAreJustified'
    BY <1>3, <1>6 DEF Leaves, SameRuns
  <1>7. ASSUME NEW b \in Runs, Damages(b) PROVE ListsAreJustified'
    BY <1>7 DEF Damages, SameRuns, ListsAreJustified
  <1>8. ASSUME NEW r \in Runs, Publishes(r) PROVE ListsAreJustified'
    <2>1. \A b \in Runs : /\ bundle'[b].day = bundle[b].day /\ bundle'[b].seq = bundle[b].seq
                          /\ bundle'[b].broken = bundle[b].broken
                          /\ b # r => bundle'[b].state = bundle[b].state
      BY <1>8 DEF Publishes, OthersSame, SameBundle
    <2>2. Kept' = Kept \cup {r}
      BY <1>k, <1>8, <2>1 DEF Publishes
    <2>3. \A s \in Runs : run'[s].list = run[s].list /\ r \notin run[s].list
      BY <1>8 DEF Publishes, OtherRuns, BackupsInv, ListsAreOver
    <2>4. \A s \in Runs : run'[s].pc = "removing" => run[s].pc = "removing"
      BY <1>8 DEF Publishes, OtherRuns
    <2>5. now' >= now
      BY <1>8, <1>e DEF Publishes
    <2> QED BY <1>k, <1>t, <2>1, <2>2, <2>3, <2>4, <2>5
  <1>9. ASSUME NEW r \in Runs, Looks(r) PROVE ListsAreJustified'
    <2>1. Kept' = Kept /\ \A b \in Runs : /\ bundle'[b].day = bundle[b].day
                                          /\ bundle'[b].seq = bundle[b].seq
      BY <1>k, <1>9 DEF Looks, SameBundles, SameBundle
    <2>2. now' >= now
      BY <1>9, <1>e DEF Looks
    <2>3. ASSUME NEW b \in run'[r].list \cap Kept'
          PROVE  Old(b) \/ Cardinality(NewerKept(b)) >= Keep
      <3>1. b \in Kept /\ b \in Abandoned(r) \cup Outdated(r)
        BY <1>9, <2>1 DEF Looks
      <3>2. b \in Outdated(r)
        BY <3>1 DEF Abandoned
      <3>3. Cardinality({c \in Ranked : Newer(c, b)}) >= Keep \/ bundle[b].day + Age < bundle[r].day
        BY <3>2 DEF Outdated
      <3>4. bundle[r].day <= now
        BY DEF InOrder
      <3> QED BY <1>k, <1>n, <3>1, <3>3, <3>4 DEF NewerKept, Ranked, Old
    <2> SUFFICES ASSUME NEW s \in Runs, run'[s].pc = "removing", NEW b \in run'[s].list \cap Kept'
                 PROVE  Old(b)' \/ Cardinality(NewerKept(b)') >= Keep
      BY DEF ListsAreJustified
    <2>4. Old(b) \/ Cardinality(NewerKept(b)) >= Keep
      <3>1. CASE s = r
        BY <2>3, <3>1
      <3>2. CASE s # r
        BY <1>9, <2>1, <3>2 DEF Looks, OtherRuns, ListsAreJustified
      <3> QED BY <3>1, <3>2
    <2> QED BY <1>k, <1>s, <2>1, <2>2, <2>4
  <1>10. ASSUME NEW r \in Runs, NEW x \in Runs, Removes(r, x) PROVE ListsAreJustified'
    <2>1. \A b \in Runs : /\ bundle'[b].day = bundle[b].day /\ bundle'[b].seq = bundle[b].seq
                          /\ bundle'[b].broken = bundle[b].broken
                          /\ b # x => bundle'[b].state = bundle[b].state
      BY <1>10 DEF Removes, OthersSame, SameBundle
    <2>2. Kept' = Kept \ {x}
      BY <1>k, <1>10, <2>1 DEF Removes
    <2>3. \A s \in Runs : run'[s].pc = "removing" => run[s].pc = "removing" /\ run'[s].list \subseteq run[s].list
      BY <1>10 DEF Removes, OtherRuns
    <2>4. now' = now
      BY <1>10 DEF Removes
    <2> SUFFICES ASSUME NEW s \in Runs, run'[s].pc = "removing", NEW b \in run'[s].list \cap Kept'
                 PROVE  Old(b)' \/ Cardinality(NewerKept(b)') >= Keep
      BY DEF ListsAreJustified
    <2>5. b \in Kept /\ b \in Runs /\ b # x /\ (Old(b) \/ Cardinality(NewerKept(b)) >= Keep)
      BY <1>k, <2>2, <2>3 DEF ListsAreJustified
    <2>6. CASE Old(b)
      BY <2>1, <2>4, <2>5, <2>6 DEF Old
    <2>7. CASE Cardinality(NewerKept(b)) >= Keep /\ x \notin NewerKept(b)
      <3>1. NewerKept(b) \subseteq NewerKept(b)'
        BY <1>k, <2>1, <2>2, <2>5, <2>7 DEF NewerKept, Newer
      <3> QED BY <2>5, <2>7, <3>1, MoreNewer
    <2>8. CASE x \in NewerKept(b)
      <3>1. x \in Kept /\ bundle[x].seq > bundle[b].seq
        BY <2>8 DEF NewerKept, Newer
      <3>2. bundle[x].day >= bundle[b].day
        <4>1. bundle[b].seq > 0
          <5>1. run[b].pc # "new"
            BY <1>k, <2>5 DEF BackupsInv, BegunRunsCount
          <5> QED BY <1>n, <2>5, <5>1 DEF BackupsInv, BegunRunsCount
        <4> QED BY <1>n, <2>5, <3>1, <4>1 DEF InOrder
      <3>3. Old(x) \/ Cardinality(NewerKept(x)) >= Keep
        BY <1>10, <3>1 DEF Removes, ListsAreJustified
      <3>4. CASE Old(x)
        BY <1>n, <2>1, <2>4, <2>5, <3>2, <3>4 DEF Old
      <3>5. CASE Cardinality(NewerKept(x)) >= Keep
        <4>1. NewerKept(x) \subseteq NewerKept(b)'
          BY <1>k, <1>n, <2>1, <2>2, <2>5, <3>1 DEF NewerKept, Newer
        <4>2. NewerKept(x) \in SUBSET Runs /\ NewerKept(b)' \in SUBSET Runs
          BY <1>k DEF NewerKept
        <4>3. Cardinality(NewerKept(x)) <= Cardinality(NewerKept(b)')
          BY <4>1, <4>2, RunsCount
        <4>4. Cardinality(NewerKept(x)) \in Nat /\ Cardinality(NewerKept(b)') \in Nat
          BY <4>2, RunsCount
        <4> QED BY <1>n, <3>5, <4>3, <4>4
      <3> QED BY <3>3, <3>4, <3>5
    <2> QED BY <2>5, <2>6, <2>7, <2>8
  <1> QED BY <1>0, <1>1, <1>2, <1>4, <1>5, <1>6, <1>7, <1>8, <1>9, <1>10 DEF OneMove

(* What a step removes is on the list of a run, and so justified. *)
LEMMA NewestKept ==
  ASSUME BackupsAssumption, BackupsInv, InOrder, ListsAreJustified, [Next]_vars
  PROVE  KeepsNewest
  <1> SUFFICES ASSUME NEW b \in Runs, bundle[b].state = "final", Class(b) \in {"valid", "degraded"},
                      bundle'[b].state = "gone"
               PROVE  \/ Old(b)
                      \/ Cardinality({c \in Kept \ {b} : bundle[c].day >= bundle[b].day}) >= Keep
    BY DEF KeepsNewest, Old
  <1> DEFINE rest == {c \in Kept \ {b} : bundle[c].day >= bundle[b].day}
  <1>n. /\ Keep \in Nat /\ \A c \in Runs : bundle[c].day \in Nat /\ bundle[c].seq \in Nat
    BY Numbers DEF BackupsAssumption
  <1>0. OneMove
    BY StepDoes DEF Does
  <1>1. b \in Kept /\ ~SameBundle(b)
    BY DEF Kept, Present, SameBundle
  <1>2. \E r \in Runs : Removes(r, b)
    <2>1. ASSUME NEW r \in Runs PROVE ~Begins(r) /\ ~Breaks(r)
      <3>1. b = r => ~Begins(r)
        BY DEF Begins
      <3>2. b = r => ~Breaks(r)
        BY DEF Breaks
      <3> QED BY <1>1, <3>1, <3>2 DEF Begins, Breaks, OthersSame
    <2>2. ASSUME NEW r \in Runs PROVE ~Reads(r) /\ ~Looks(r) /\ ~Completes(r)
      BY <1>1 DEF Reads, Looks, Completes, SameBundles
    <2>3. ASSUME NEW r \in Runs PROVE ~Publishes(r)
      BY <1>1 DEF Publishes, OthersSame
    <2>4. ASSUME NEW c \in Runs PROVE ~Damages(c)
      BY <1>1 DEF Damages, OthersSame
    <2>5. ~Loses /\ ~Leaves
      BY <1>1 DEF Loses, Leaves, SameBundles
    <2>6. ASSUME NEW r \in Runs, NEW c \in Runs, Removes(r, c) PROVE c = b
      BY <1>1, <2>6 DEF Removes, OthersSame
    <2> QED BY <1>0, <2>1, <2>2, <2>3, <2>4, <2>5, <2>6 DEF OneMove
  <1>3. Old(b) \/ Cardinality(NewerKept(b)) >= Keep
    BY <1>1, <1>2 DEF Removes, ListsAreJustified
  <1>4. bundle[b].seq > 0
    <2>1. run[b].pc # "new"
      BY DEF BackupsInv, BegunRunsCount
    <2> QED BY <1>n, <2>1 DEF BackupsInv, BegunRunsCount
  <1>5. NewerKept(b) \subseteq rest /\ rest \in SUBSET Runs
    <2>1. Kept \subseteq Runs
      BY DEF Kept, Present
    <2> QED BY <1>n, <1>4, <2>1 DEF NewerKept, Newer, InOrder
  <1>6. Cardinality(NewerKept(b)) <= Cardinality(rest) /\ Cardinality(rest) \in Nat
    BY <1>5, RunsCount
  <1>7. Cardinality(NewerKept(b)) \in Nat
    BY NewerCounts
  <1> QED BY <1>n, <1>3, <1>6, <1>7

RetentionInv == BackupsInv /\ InOrder /\ ListsAreJustified

LEMMA RetentionInvHolds ==
  ASSUME BackupsAssumption
  PROVE  /\ Init => RetentionInv
         /\ RetentionInv /\ [Next]_vars => RetentionInv'
  <1>1. Init => ListsAreJustified
    BY DEF Init, ListsAreJustified
  <1>2. Init => RetentionInv
    BY <1>1, InvAtFirst, OrderedAtFirst DEF RetentionInv
  <1>3. RetentionInv /\ [Next]_vars => RetentionInv'
    BY InvKept, OrderKept, JustifiedKept DEF RetentionInv
  <1> QED BY <1>2, <1>3

(* Retention removes a sound bundle only when it is too old, or Keep sound    *)
(* bundles at least as new remain, whoever else applies retention at the same *)
(* time: a list that is older than what another run removed meanwhile removes *)
(* nothing it should not (enforceBackupRetention).                            *)
THEOREM NewestAreAlwaysKept == ASSUME BackupsAssumption PROVE Spec => NewestAreKept
  <1>1. Init => RetentionInv
    BY RetentionInvHolds
  <1>2. RetentionInv /\ [Next]_vars => RetentionInv'
    BY RetentionInvHolds
  <1>3. RetentionInv /\ [Next]_vars => [KeepsNewest]_vars
    BY NewestKept DEF RetentionInv
  <1> QED BY <1>1, <1>2, <1>3, PTL DEF Spec, NewestAreKept

-----------------------------------------------------------------------------
(* There is one to restore *)

Undamaged == \A b \in Runs : ~bundle[b].broken
Final(c) == bundle[c].state = "final"

(* From its rename on a run knows of a bundle as new as its own, and of one   *)
(* newer than each of those it is going to remove.                            *)
Succeeded(r) ==
  run[r].pc \in {"renamed", "removing", "done"} =>
    \E c \in Runs : Final(c) /\ bundle[c].seq >= bundle[r].seq
Replaced(r) ==
  run[r].pc = "removing" =>
    \A b \in run[r].list : Final(b) => \E c \in Runs : Final(c) /\ bundle[c].seq > bundle[b].seq
OneIsNewest == Undamaged => \A r \in Runs : Succeeded(r) /\ Replaced(r)

(* A day is completed by a run that is done. *)
DoneByRuns ==
  \A d \in Days : job[d].status = "completed" => \E r \in Runs : run[r].pc = "done"

LEMMA DoneKept ==
  ASSUME BackupsAssumption, BackupsInv, DoneByRuns, [Next]_vars PROVE DoneByRuns'
  <1>0. OneMove /\ JobsFollow
    BY StepDoes DEF Does
  <1>1. \A r \in Runs : run[r].pc = "done" => run'[r].pc = "done"
    <2> SUFFICES ASSUME NEW s \in Runs, run[s].pc = "done" PROVE run'[s].pc = "done"
      OBVIOUS
    <2>1. ASSUME NEW r \in Runs, Begins(r) \/ Breaks(r) \/ Reads(r) PROVE run'[s].pc = "done"
      BY <2>1 DEF Begins, Breaks, Reads, OtherRuns, Steps
    <2>2. ASSUME NEW r \in Runs, Publishes(r) \/ Looks(r) \/ Completes(r) PROVE run'[s].pc = "done"
      BY <2>2 DEF Publishes, Looks, Completes, OtherRuns
    <2>3. ASSUME NEW r \in Runs, NEW b \in Runs, Removes(r, b) PROVE run'[s].pc = "done"
      BY <2>3 DEF Removes, OtherRuns
    <2>4. ASSUME NEW b \in Runs, Damages(b) PROVE run'[s].pc = "done"
      BY <2>4 DEF Damages, SameRuns
    <2>5. ASSUME Loses \/ Leaves PROVE run'[s].pc = "done"
      BY <2>5 DEF Loses, Leaves, SameRuns, Steps
    <2> QED BY <1>0, <2>1, <2>2, <2>3, <2>4, <2>5 DEF OneMove
  <1> QED BY <1>0, <1>1 DEF DoneByRuns, JobsFollow

(* What a run knows of lasts as long as it is neither removed nor replaced. *)
LEMMA NewestIsKept ==
  ASSUME BackupsAssumption, BackupsInv, InOrder, OneIsNewest, [Next]_vars PROVE OneIsNewest'
  <1>0. OneMove
    BY StepDoes DEF Does
  <1>n. \A b \in Runs : bundle[b].day \in Nat /\ bundle[b].seq \in Nat
    BY Numbers
  <1>l. \A r \in Runs : run[r].list \subseteq Runs
    BY RowsTyped DEF RunRows
  <1>u. Undamaged' => Undamaged
    <2>1. ASSUME NEW b \in Runs, ~bundle'[b].broken, NEW r \in Runs,
                 Begins(r) \/ Breaks(r) \/ Publishes(r)
          PROVE  ~bundle[b].broken
      BY <2>1 DEF Begins, Breaks, Publishes, OthersSame, SameBundle
    <2>2. ASSUME NEW b \in Runs, ~bundle'[b].broken, NEW r \in Runs,
                 Reads(r) \/ Looks(r) \/ Completes(r)
          PROVE  ~bundle[b].broken
      BY <2>2 DEF Reads, Looks, Completes, SameBundles, SameBundle
    <2>3. ASSUME NEW b \in Runs, ~bundle'[b].broken, NEW r \in Runs, NEW c \in Runs, Removes(r, c)
          PROVE  ~bundle[b].broken
      BY <2>3 DEF Removes, OthersSame, SameBundle
    <2>4. ASSUME NEW b \in Runs, ~bundle'[b].broken, NEW c \in Runs, Damages(c)
          PROVE  ~bundle[b].broken
      BY <2>4 DEF Damages, OthersSame, SameBundle
    <2>5. ASSUME NEW b \in Runs, ~bundle'[b].broken, Loses \/ Leaves
          PROVE  ~bundle[b].broken
      BY <2>5 DEF Loses, Leaves, SameBundles, SameBundle
    <2> QED BY <1>0, <2>1, <2>2, <2>3, <2>4, <2>5 DEF OneMove, Undamaged
  <1> SUFFICES ASSUME Undamaged' PROVE \A s \in Runs : Succeeded(s)' /\ Replaced(s)'
    BY DEF OneIsNewest
  <1>i. \A s \in Runs : Succeeded(s) /\ Replaced(s)
    BY <1>u DEF OneIsNewest
  (* nothing goes, and no run looks again *)
  <1>s. ASSUME \A c \in Runs : Final(c) => Final(c)' /\ bundle'[c].seq = bundle[c].seq,
               NEW s \in Runs,
               bundle'[s].seq = bundle[s].seq \/ run'[s].pc \notin {"renamed", "removing", "done"},
               run'[s].pc \in {"renamed", "removing", "done"} =>
                 run[s].pc \in {"renamed", "removing", "done"},
               run'[s].pc = "removing" =>
                 /\ run[s].pc = "removing"
                 /\ \A b \in run'[s].list : Final(b)' => b \in run[s].list /\ Final(b)
        PROVE  Succeeded(s)' /\ Replaced(s)'
    <2>1. Succeeded(s)'
      BY <1>i, <1>s DEF Succeeded
    <2>2. Replaced(s)'
      <3> SUFFICES ASSUME run'[s].pc = "removing", NEW b \in run'[s].list, Final(b)'
                   PROVE  \E c \in Runs : Final(c)' /\ bundle'[c].seq > bundle'[b].seq
        BY DEF Replaced
      <3>1. run[s].pc = "removing" /\ b \in run[s].list /\ Final(b) /\ b \in Runs
        BY <1>l, <1>s
      <3>2. PICK c \in Runs : Final(c) /\ bundle[c].seq > bundle[b].seq
        BY <1>i, <3>1 DEF Replaced
      <3> QED BY <1>s, <3>1, <3>2
    <2> QED BY <2>1, <2>2
  <1>1. ASSUME NEW r \in Runs, Begins(r), NEW s \in Runs PROVE Succeeded(s)' /\ Replaced(s)'
    <2>1. bundle[r].state = "none"
      BY <1>1 DEF Begins, BackupsInv, BegunRunsCount
    <2>2. \A c \in Runs : Final(c) => Final(c)' /\ bundle'[c].seq = bundle[c].seq
      BY <1>1, <2>1 DEF Begins, OthersSame, SameBundle, Final
    <2>3. \A c \in Runs : Final(c)' => Final(c)
      BY <1>1 DEF Begins, OthersSame, SameBundle, Final
    <2> QED BY <1>1, <1>l, <1>s, <2>2, <2>3 DEF Begins, OtherRuns, OthersSame, SameBundle
  <1>2. ASSUME NEW r \in Runs, Breaks(r), NEW s \in Runs PROVE Succeeded(s)' /\ Replaced(s)'
    <2>1. \A c \in Runs : (Final(c)' <=> Final(c)) /\ bundle'[c].seq = bundle[c].seq
      BY <1>2 DEF Breaks, OthersSame, SameBundle, Final
    <2> QED BY <1>2, <1>l, <1>s, <2>1 DEF Breaks, OtherRuns
  <1>3. ASSUME SameBundles, NEW s \in Runs,
               run'[s].pc \in {"renamed", "removing", "done"} =>
                 run[s].pc \in {"renamed", "removing", "done"},
               run'[s].pc = "removing" => run[s].pc = "removing" /\ run'[s].list = run[s].list
        PROVE  Succeeded(s)' /\ Replaced(s)'
    <2>1. \A c \in Runs : (Final(c)' <=> Final(c)) /\ bundle'[c].seq = bundle[c].seq
      BY <1>3 DEF SameBundles, SameBundle, Final
    <2> QED BY <1>3, <1>l, <1>s, <2>1
  <1>4. ASSUME NEW r \in Runs, Reads(r) \/ Completes(r), NEW s \in Runs
        PROVE  Succeeded(s)' /\ Replaced(s)'
    BY <1>3, <1>4 DEF Reads, Completes, OtherRuns
  <1>5. ASSUME Loses, NEW s \in Runs PROVE Succeeded(s)' /\ Replaced(s)'
    <2>1. run'[s] = run[s] \/ run'[s].pc = "lost"
      BY <1>5 DEF Loses
    <2> QED BY <1>3, <1>5, <2>1 DEF Loses
  <1>6. ASSUME Leaves, NEW s \in Runs PROVE Succeeded(s)' /\ Replaced(s)'
    BY <1>3, <1>6 DEF Leaves, SameRuns
  <1>7. ASSUME NEW b \in Runs, Damages(b) PROVE FALSE
    BY <1>7 DEF Damages, Undamaged
  <1>8. ASSUME NEW r \in Runs, Publishes(r), NEW s \in Runs PROVE Succeeded(s)' /\ Replaced(s)'
    <2>1. Final(r)' /\ \A c \in Runs : /\ bundle'[c].seq = bundle[c].seq
                                       /\ Final(c) => Final(c)'
                                       /\ c # r => (Final(c)' <=> Final(c))
      BY <1>8 DEF Publishes, OthersSame, SameBundle, Final
    <2>2. CASE s = r
      BY <1>8, <1>n, <2>1, <2>2 DEF Publishes, Succeeded, Replaced
    <2>3. CASE s # r
      <3>1. r \notin run[s].list /\ run'[s] = run[s]
        BY <1>8, <2>3 DEF Publishes, OtherRuns, BackupsInv, ListsAreOver
      <3> QED BY <1>l, <1>s, <2>1, <3>1
    <2> QED BY <2>2, <2>3
  <1>9. ASSUME NEW r \in Runs, Looks(r), NEW s \in Runs PROVE Succeeded(s)' /\ Replaced(s)'
    <2>1. \A c \in Runs : (Final(c)' <=> Final(c)) /\ bundle'[c].seq = bundle[c].seq
      BY <1>9 DEF Looks, SameBundles, SameBundle, Final
    <2>2. CASE s # r
      <3>1. run'[s] = run[s]
        BY <1>9, <2>2 DEF Looks, OtherRuns
      <3> QED BY <1>l, <1>s, <2>1, <3>1
    <2>3. CASE s = r
      <3>1. PICK c \in Runs : Final(c) /\ bundle[c].seq >= bundle[r].seq
        BY <1>9, <1>i DEF Looks, Succeeded
      <3>2. Succeeded(s)'
        BY <2>1, <2>3, <3>1 DEF Succeeded
      <3>3. run'[r].list \subseteq Runs
        BY <1>9, ListIsOver DEF Looks
      <3>4. ASSUME NEW b \in run'[r].list, Final(b)
            PROVE  \E x \in Runs : Final(x) /\ bundle[x].seq > bundle[b].seq
        <4>1. b \in Runs /\ b \in Abandoned(r) \cup Outdated(r)
          BY <1>9, <3>4, ListIsOver DEF Looks
        <4>2. b \in Kept
          BY <1>u, <3>4, <4>1, KeptAre DEF Final, Undamaged
        <4>3. b \in Outdated(r)
          BY <4>1, <4>2 DEF Abandoned
        <4>4. CASE Cardinality({x \in Ranked : Newer(x, b)}) >= Keep
          <5>1. Cardinality({x \in Ranked : Newer(x, b)}) # 0
            <6>1. Keep \in Nat \ {0}
              BY DEF BackupsAssumption
            <6> QED BY <4>4, <6>1
          <5>2. PICK x \in Ranked : Newer(x, b)
            BY <5>1, FS_EmptySet
          <5>3. x \in Runs /\ Final(x)
            BY <5>2, KeptAre DEF Ranked, Final
          <5> QED BY <4>1, <5>2, <5>3 DEF Newer
        <4>5. CASE bundle[b].day + Age < bundle[r].day
          <5>1. Age \in Nat
            BY DEF BackupsAssumption
          <5>2. ~(bundle[b].day >= bundle[r].day)
            BY <1>n, <4>1, <4>5, <5>1
          <5>3. bundle[r].seq > 0
            <6>1. run[r].pc # "new"
              BY <1>9 DEF Looks
            <6> QED BY <1>n, <6>1 DEF BackupsInv, BegunRunsCount
          <5>4. ~(bundle[b].seq >= bundle[r].seq)
            BY <4>1, <5>2, <5>3 DEF InOrder
          <5>5. bundle[c].seq > bundle[b].seq
            BY <1>n, <3>1, <4>1, <5>4
          <5> QED BY <3>1, <4>1, <5>5
        <4> QED BY <4>3, <4>4, <4>5 DEF Outdated
      <3>5. Replaced(s)'
        BY <2>1, <2>3, <3>4, <3>3 DEF Replaced
      <3> QED BY <3>2, <3>5
    <2> QED BY <2>2, <2>3
  <1>10. ASSUME NEW r \in Runs, NEW x \in Runs, Removes(r, x), NEW s \in Runs
         PROVE  Succeeded(s)' /\ Replaced(s)'
    <2>1. /\ ~Final(x)'
          /\ \A c \in Runs : /\ bundle'[c].seq = bundle[c].seq
                             /\ c # x => (Final(c)' <=> Final(c))
      BY <1>10 DEF Removes, OthersSame, SameBundle, Final
    <2>2. run'[s].pc = run[s].pc /\ run'[s].list \subseteq run[s].list
      BY <1>10 DEF Removes, OtherRuns
    (* the bundle that goes leaves a newer one *)
    <2>3. ASSUME NEW c \in Runs, Final(c)
          PROVE  \E e \in Runs : Final(e)' /\ bundle'[e].seq >= bundle[c].seq
      <3>1. CASE c # x
        BY <1>n, <2>1, <2>3, <3>1
      <3>2. CASE c = x
        <4>1. PICK e \in Runs : Final(e) /\ bundle[e].seq > bundle[x].seq
          BY <1>10, <1>i, <2>3, <3>2 DEF Removes, Replaced
        <4>2. e # x
          BY <1>n, <4>1
        <4>3. bundle'[e].seq >= bundle[c].seq
          BY <1>n, <2>1, <3>2, <4>1
        <4> QED BY <2>1, <4>1, <4>2, <4>3
      <3> QED BY <3>1, <3>2
    <2>4. \A b \in Runs : bundle'[b].seq \in Nat
      BY <1>n, <2>1
    <2>5. Succeeded(s)'
      <3> SUFFICES ASSUME run'[s].pc \in {"renamed", "removing", "done"}
                   PROVE  \E e \in Runs : Final(e)' /\ bundle'[e].seq >= bundle'[s].seq
        BY DEF Succeeded
      <3>1. PICK c \in Runs : Final(c) /\ bundle[c].seq >= bundle[s].seq
        BY <1>i, <2>2 DEF Succeeded
      <3>2. PICK e \in Runs : Final(e)' /\ bundle'[e].seq >= bundle[c].seq
        BY <2>3, <3>1
      <3>3. bundle'[e].seq >= bundle'[s].seq
        BY <1>n, <2>1, <2>4, <3>1, <3>2
      <3> QED BY <3>2, <3>3
    <2>6. Replaced(s)'
      <3> SUFFICES ASSUME run'[s].pc = "removing", NEW b \in run'[s].list, Final(b)'
                   PROVE  \E e \in Runs : Final(e)' /\ bundle'[e].seq > bundle'[b].seq
        BY DEF Replaced
      <3>1. run[s].pc = "removing" /\ b \in run[s].list /\ b \in Runs /\ Final(b)
        BY <1>l, <2>1, <2>2
      <3>2. PICK c \in Runs : Final(c) /\ bundle[c].seq > bundle[b].seq
        BY <1>i, <3>1 DEF Replaced
      <3>3. PICK e \in Runs : Final(e)' /\ bundle'[e].seq >= bundle[c].seq
        BY <2>3, <3>2
      <3>4. bundle'[e].seq > bundle'[b].seq
        BY <1>n, <2>1, <2>4, <3>1, <3>2, <3>3
      <3> QED BY <3>3, <3>4
    <2> QED BY <2>5, <2>6
  <1> QED BY <1>0, <1>1, <1>2, <1>4, <1>5, <1>6, <1>7, <1>8, <1>9, <1>10 DEF OneMove

NewestInv == BackupsInv /\ InOrder /\ OneIsNewest /\ DoneByRuns

LEMMA NewestInvHolds ==
  ASSUME BackupsAssumption
  PROVE  /\ Init => NewestInv
         /\ NewestInv /\ [Next]_vars => NewestInv'
         /\ NewestInv => OneRemains
  <1>1. Init => OneIsNewest /\ DoneByRuns
    BY DEF Init, OneIsNewest, Succeeded, Replaced, DoneByRuns
  <1>2. Init => NewestInv
    BY <1>1, InvAtFirst, OrderedAtFirst DEF NewestInv
  <1>3. NewestInv /\ [Next]_vars => NewestInv'
    BY InvKept, OrderKept, NewestIsKept, DoneKept DEF NewestInv
  <1>4. NewestInv => OneRemains
    BY DEF NewestInv, OneIsNewest, Succeeded, DoneByRuns, Undamaged, Final, OneRemains
  <1> QED BY <1>2, <1>3, <1>4

(* Once a backup was made there is one to restore, unless one was damaged: no *)
(* number of runs of the server and of the command line removes the last one  *)
(* (createApplicationBackup, enforceBackupRetention).                         *)
THEOREM OneAlwaysRemains == ASSUME BackupsAssumption PROVE Spec => []OneRemains
  <1>1. Init => NewestInv
    BY NewestInvHolds
  <1>2. NewestInv /\ [Next]_vars => NewestInv'
    BY NewestInvHolds
  <1>3. NewestInv => OneRemains
    BY NewestInvHolds
  <1> QED BY <1>1, <1>2, <1>3, PTL DEF Spec

-----------------------------------------------------------------------------
(* Of BackupRestore and BackupRecords: their constants and variables, with     *)
(* failures for the faults of a restore and Members for the files of a bundle  *)
CONSTANTS MaxCrashes, Members, Readers, Granule, Margin, MaxTime, MaxChanges
VARIABLES database, documents, aside, stage, call, failures, crashes,
          clock, file, gone, record, reader, pending, changes

Restore == INSTANCE BackupRestore WITH faults <- failures
Records == INSTANCE BackupRecords WITH Files <- Members

-----------------------------------------------------------------------------
(* A restore *)

CallRows == [pc : Restore!Steps \cup Restore!Ends, overwrite : BOOLEAN, accept : BOOLEAN,
             class : {"none", "current", "degraded", "legacy", "invalid"}]

(* Where things are while they are put in place. *)
PutInPlace ==
  /\ call.pc \in {"new", "verified", "copied", "mapped", "refused"} =>
       /\ database # "new" /\ documents # "new" /\ aside = {}
       /\ database = "none" => documents = "none"
  /\ call.pc \in {"database aside", "documents aside", "documents in"} => database = "none"
  /\ call.pc = "database aside" => documents # "new" /\ "documents" \notin aside
                                   /\ (call.overwrite \/ documents = "none")
  /\ call.pc = "documents aside" => documents = "none"
  /\ call.pc = "documents in" => documents = "new"
  /\ call.pc \in {"database in", "undo database in", "done"} => database = "new" /\ documents = "new"

(* What was moved aside is not in its place as well. *)
AsideIsAway ==
  /\ "database" \in aside => database # "old"
  /\ "documents" \in aside => documents # "old"

(* A way back on which nothing else fails ends where the restore began. *)
PutBack ==
  /\ call.pc \in {"undo database in", "undo database", "undo documents in", "undo documents"} => failures > 0
  /\ failures <= 1 =>
       /\ call.pc = "undo database" => database = "none"
       /\ call.pc \in {"undo documents in", "undo documents"} => database # "new" /\ "database" \notin aside
       /\ call.pc = "undo documents" => documents # "new"
       /\ call.pc = "failed" => database # "new" /\ documents # "new" /\ aside = {}
       /\ call.pc = "crashed" /\ database = "new" => documents = "new"

RestoreInv == Restore!TypeOK /\ PutInPlace /\ AsideIsAway /\ PutBack

LEMMA RestoreAtFirst == ASSUME Restore!RestoreAssumption, Restore!Init PROVE RestoreInv
  <1>1. call.pc = "new" /\ call \in CallRows
    BY DEF Restore!Init, CallRows, Restore!Steps
  <1> QED BY <1>1 DEF Restore!Init, Restore!RestoreAssumption, RestoreInv, Restore!TypeOK, Restore!Contents,
                      PutInPlace, AsideIsAway, PutBack, CallRows

(* The call goes on to a step; an operation fails. *)
Moves(pc) == call' \in CallRows /\ call'.pc = pc /\ call'.overwrite = call.overwrite

OneFails == failures < MaxFaults /\ failures' = failures + 1

LEMMA RestoreMoves ==
  ASSUME call \in CallRows
  PROVE  /\ Restore!Goto("copied") => Moves("copied")
         /\ Restore!Goto("mapped") => Moves("mapped")
         /\ Restore!Goto("database aside") => Moves("database aside")
         /\ Restore!Goto("documents aside") => Moves("documents aside")
         /\ Restore!Goto("documents in") => Moves("documents in")
         /\ Restore!Goto("database in") => Moves("database in")
         /\ Restore!Goto("undo database in") => Moves("undo database in")
         /\ Restore!Goto("undo database") => Moves("undo database")
         /\ Restore!Goto("undo documents in") => Moves("undo documents in")
         /\ Restore!Goto("undo documents") => Moves("undo documents")
         /\ Restore!Goto("done") => Moves("done")
         /\ Restore!Goto("refused") => Moves("refused")
         /\ Restore!Goto("failed") => Moves("failed")
         /\ Restore!Goto("crashed") => Moves("crashed")
         /\ Restore!Verify => Moves("verified") \/ Moves("refused")
  <1>1. ASSUME NEW pc \in Restore!Steps \cup Restore!Ends, Restore!Goto(pc) PROVE Moves(pc)
    BY <1>1 DEF Restore!Goto, CallRows, Moves
  <1>2. ASSUME Restore!Verify PROVE Moves("verified") \/ Moves("refused")
    BY <1>2 DEF Restore!Verify, CallRows, Moves, Restore!Steps, Restore!Ends
  <1> QED BY <1>1, <1>2 DEF Restore!Steps, Restore!Ends

LEMMA RestoreKept ==
  ASSUME Restore!RestoreAssumption, RestoreInv, [Restore!Next]_(Restore!vars)
  PROVE  RestoreInv' /\ Restore!LosesNothing
  <1> DEFINE Things == /\ database' \in Restore!Contents /\ documents' \in Restore!Contents
                       /\ aside' \subseteq Restore!Parts /\ stage' \subseteq Restore!Parts
             Sound == PutInPlace' /\ AsideIsAway' /\ PutBack' /\ Restore!LosesNothing
  <1>0. /\ database \in Restore!Contents /\ documents \in Restore!Contents
        /\ aside \subseteq Restore!Parts /\ stage \subseteq Restore!Parts
        /\ call \in CallRows /\ failures \in 0..MaxFaults /\ crashes \in 0..MaxCrashes
        /\ MaxFaults \in Nat /\ MaxCrashes \in Nat
    BY DEF RestoreInv, Restore!TypeOK, CallRows, Restore!RestoreAssumption
  <1>f. /\ OneFails => failures' > 0 /\ failures' # failures /\ (failures > 0 => ~(failures' <= 1))
        /\ failures' = failures \/ OneFails => (failures > 0 => failures' > 0) /\ (failures' <= 1 => failures <= 1)
    BY <1>0 DEF OneFails
  <1>p. PutInPlace /\ AsideIsAway /\ PutBack
    BY DEF RestoreInv
  <1>a. ASSUME call' \in CallRows, Things, failures' = failures \/ OneFails, crashes' \in 0..MaxCrashes, Sound
        PROVE  RestoreInv' /\ Restore!LosesNothing
    <2>1. failures' \in 0..MaxFaults
      BY <1>0, <1>a DEF OneFails
    <2> QED BY <1>a, <2>1 DEF RestoreInv, Restore!TypeOK, CallRows
  <1> USE DEF Restore!Contents, Restore!Parts
  <1>1. CASE Restore!Verify
    <2>1. Moves("verified") \/ Moves("refused")
      BY <1>0, <1>1, RestoreMoves
    <2>2. call.pc = "new" /\ UNCHANGED <<database, documents, aside, stage, failures, crashes>>
      BY <1>1 DEF Restore!Verify
    <2> QED BY <1>0, <1>a, <1>p, <2>1, <2>2 DEF OneFails, Moves, PutInPlace, AsideIsAway, PutBack, Restore!LosesNothing
  <1>2. CASE Restore!Stage
    <2>1. /\ call.pc = "verified" /\ UNCHANGED <<database, documents, aside>> /\ stage' \subseteq Restore!Parts
          /\ crashes' = crashes /\ (failures' = failures \/ OneFails)
          /\ Moves("failed") \/ Moves("copied")
      BY <1>0, <1>2, RestoreMoves DEF Restore!Stage, OneFails, Restore!May, Restore!End
    <2> QED BY <1>0, <1>a, <1>p, <2>1 DEF OneFails, Moves, PutInPlace, AsideIsAway, PutBack, Restore!LosesNothing
  <1>3. CASE Restore!Map
    <2>1. /\ call.pc = "copied" /\ UNCHANGED <<database, documents, aside>> /\ stage' \subseteq Restore!Parts
          /\ crashes' = crashes /\ (failures' = failures \/ OneFails)
          /\ Moves("failed") \/ Moves("mapped")
      BY <1>0, <1>3, RestoreMoves DEF Restore!Map, OneFails, Restore!May, Restore!End
    <2> QED BY <1>0, <1>a, <1>p, <2>1 DEF OneFails, Moves, PutInPlace, AsideIsAway, PutBack, Restore!LosesNothing
  <1>4. CASE Restore!DatabaseAside
    <2>1. /\ call.pc = "mapped" /\ documents' = documents /\ stage' \subseteq Restore!Parts
          /\ crashes' = crashes /\ (failures' = failures \/ OneFails)
          /\ \/ /\ Moves("database aside") /\ database' = "none"
                /\ \/ aside' = aside /\ database = "none"
                   \/ aside' = aside \cup {"database"} /\ call.overwrite
             \/ /\ Moves("refused") \/ Moves("failed")
                /\ UNCHANGED <<database, aside>>
      BY <1>0, <1>4, RestoreMoves DEF Restore!DatabaseAside, OneFails, Restore!May, Restore!End
    <2> QED BY <1>0, <1>a, <1>p, <2>1 DEF OneFails, Moves, PutInPlace, AsideIsAway, PutBack, Restore!LosesNothing
  <1>5. CASE Restore!DocumentsAside
    <2>1. /\ call.pc = "database aside" /\ UNCHANGED <<database, stage>>
          /\ crashes' = crashes /\ (failures' = failures \/ OneFails)
          /\ \/ /\ Moves("documents aside") /\ documents' = "none"
                /\ \/ aside' = aside /\ documents = "none"
                   \/ aside' = aside \cup {"documents"}
             \/ Moves("undo database") /\ OneFails /\ UNCHANGED <<documents, aside>>
      BY <1>0, <1>5, <1>p, RestoreMoves DEF Restore!DocumentsAside, OneFails, Restore!May, Restore!Undo, PutInPlace
    <2>2. PutInPlace'
      BY <1>0, <1>p, <2>1 DEF Moves, PutInPlace
    <2>3. AsideIsAway'
      BY <1>0, <1>p, <2>1 DEF Moves, PutInPlace, AsideIsAway
    <2>4. PutBack'
      BY <1>f, <1>p, <2>1 DEF Moves, PutInPlace, AsideIsAway, PutBack
    <2>5. Restore!LosesNothing
      BY <1>0, <1>p, <2>1 DEF Moves, PutInPlace, AsideIsAway, Restore!LosesNothing
    <2> QED BY <1>0, <1>a, <2>1, <2>2, <2>3, <2>4, <2>5 DEF Moves
  <1>6. CASE Restore!DocumentsIn
    <2>1. /\ call.pc = "documents aside" /\ database' = database /\ stage' \subseteq Restore!Parts
          /\ crashes' = crashes /\ (failures' = failures \/ OneFails)
          /\ \/ Moves("documents in") /\ documents' = "new" /\ aside' = aside
             \/ /\ Moves("undo database") /\ OneFails /\ aside' = aside \ {"documents"}
                /\ documents' = IF "documents" \in aside THEN "old" ELSE "none"
      BY <1>0, <1>6, RestoreMoves DEF Restore!DocumentsIn, OneFails, Restore!Undo
    <2>2. PutInPlace'
      BY <1>0, <1>p, <2>1 DEF Moves, PutInPlace
    <2>3. AsideIsAway'
      BY <1>0, <1>p, <2>1 DEF Moves, PutInPlace, AsideIsAway
    <2>4. PutBack'
      BY <1>f, <1>p, <2>1 DEF Moves, PutInPlace, AsideIsAway, PutBack
    <2>5. Restore!LosesNothing
      BY <1>0, <1>p, <2>1 DEF Moves, PutInPlace, AsideIsAway, Restore!LosesNothing
    <2> QED BY <1>0, <1>a, <2>1, <2>2, <2>3, <2>4, <2>5 DEF Moves
  <1>7. CASE Restore!DatabaseIn
    <2>1. /\ call.pc = "documents in" /\ UNCHANGED <<documents, aside>> /\ stage' \subseteq Restore!Parts
          /\ crashes' = crashes /\ (failures' = failures \/ OneFails)
          /\ \/ Moves("database in") /\ database' = "new"
             \/ Moves("undo database") /\ OneFails /\ database' = database
      BY <1>0, <1>7, RestoreMoves DEF Restore!DatabaseIn, OneFails, Restore!May, Restore!Undo
    <2>2. PutInPlace'
      BY <1>0, <1>p, <2>1 DEF Moves, PutInPlace
    <2>3. AsideIsAway'
      BY <1>0, <1>p, <2>1 DEF Moves, PutInPlace, AsideIsAway
    <2>4. PutBack'
      BY <1>f, <1>p, <2>1 DEF Moves, PutInPlace, AsideIsAway, PutBack
    <2>5. Restore!LosesNothing
      BY <1>0, <1>p, <2>1 DEF Moves, PutInPlace, AsideIsAway, Restore!LosesNothing
    <2> QED BY <1>0, <1>a, <2>1, <2>2, <2>3, <2>4, <2>5 DEF Moves
  <1>8. CASE Restore!Finish
    <2>1. /\ call.pc = "database in" /\ UNCHANGED <<database, documents, aside>>
          /\ stage' \subseteq Restore!Parts
          /\ crashes' = crashes /\ (failures' = failures \/ OneFails)
          /\ Moves("done") \/ (Moves("undo database in") /\ OneFails)
      BY <1>0, <1>8, RestoreMoves DEF Restore!Finish, OneFails, Restore!May, Restore!End, Restore!Undo
    <2>2. PutInPlace'
      BY <1>0, <1>p, <2>1 DEF Moves, PutInPlace
    <2>3. AsideIsAway'
      BY <1>0, <1>p, <2>1 DEF Moves, PutInPlace, AsideIsAway
    <2>4. PutBack'
      BY <1>f, <1>p, <2>1 DEF Moves, PutInPlace, AsideIsAway, PutBack
    <2>5. Restore!LosesNothing
      BY <1>0, <1>p, <2>1 DEF Moves, PutInPlace, AsideIsAway, Restore!LosesNothing
    <2> QED BY <1>0, <1>a, <2>1, <2>2, <2>3, <2>4, <2>5 DEF Moves
  <1>9. CASE Restore!UndoDatabaseIn
    <2>1. /\ call.pc = "undo database in" /\ Moves("undo database")
          /\ crashes' = crashes /\ (failures' = failures \/ OneFails)
          /\ UNCHANGED <<documents, aside, stage>>
          /\ \/ database' = "none" /\ failures' = failures
             \/ database' = database /\ OneFails
      BY <1>0, <1>9, RestoreMoves DEF Restore!UndoDatabaseIn, OneFails, Restore!Back
    <2>2. PutInPlace'
      BY <1>0, <1>p, <2>1 DEF Moves, PutInPlace
    <2>3. AsideIsAway'
      BY <1>0, <1>p, <2>1 DEF Moves, PutInPlace, AsideIsAway
    <2>4. PutBack'
      BY <1>f, <1>p, <2>1 DEF Moves, PutInPlace, AsideIsAway, PutBack
    <2>5. Restore!LosesNothing
      BY <1>0, <1>p, <2>1 DEF Moves, PutInPlace, AsideIsAway, Restore!LosesNothing
    <2> QED BY <1>0, <1>a, <2>1, <2>2, <2>3, <2>4, <2>5 DEF Moves
  <1>10. CASE Restore!UndoDatabase
    <2>1. /\ call.pc = "undo database" /\ Moves("undo documents in")
          /\ crashes' = crashes /\ (failures' = failures \/ OneFails)
          /\ UNCHANGED <<documents, stage>>
          /\ \/ /\ failures' = failures /\ aside' = aside \ {"database"}
                /\ database' = IF "database" \in aside THEN "old" ELSE database
             \/ OneFails /\ UNCHANGED <<database, aside>>
      BY <1>0, <1>10, RestoreMoves DEF Restore!UndoDatabase, OneFails, Restore!Back
    <2>2. PutInPlace'
      BY <1>0, <1>p, <2>1 DEF Moves, PutInPlace
    <2>3. AsideIsAway'
      BY <1>0, <1>p, <2>1 DEF Moves, PutInPlace, AsideIsAway
    <2>4. PutBack'
      BY <1>f, <1>p, <2>1 DEF Moves, PutInPlace, AsideIsAway, PutBack
    <2>5. Restore!LosesNothing
      BY <1>0, <1>p, <2>1 DEF Moves, PutInPlace, AsideIsAway, Restore!LosesNothing
    <2> QED BY <1>0, <1>a, <2>1, <2>2, <2>3, <2>4, <2>5 DEF Moves
  <1>11. CASE Restore!UndoDocumentsIn
    <2>1. /\ call.pc = "undo documents in" /\ Moves("undo documents")
          /\ crashes' = crashes /\ (failures' = failures \/ OneFails)
          /\ UNCHANGED <<database, aside, stage>>
          /\ \/ failures' = failures /\ documents' = IF documents = "new" THEN "none" ELSE documents
             \/ OneFails /\ documents' = documents
      BY <1>0, <1>11, RestoreMoves DEF Restore!UndoDocumentsIn, OneFails, Restore!Emptied, Restore!Back
    <2>2. PutInPlace'
      BY <1>0, <1>p, <2>1 DEF Moves, PutInPlace
    <2>3. AsideIsAway'
      BY <1>0, <1>p, <2>1 DEF Moves, PutInPlace, AsideIsAway
    <2>4. PutBack'
      BY <1>f, <1>p, <2>1 DEF Moves, PutInPlace, AsideIsAway, PutBack
    <2>5. Restore!LosesNothing
      BY <1>0, <1>p, <2>1 DEF Moves, PutInPlace, AsideIsAway, Restore!LosesNothing
    <2> QED BY <1>0, <1>a, <2>1, <2>2, <2>3, <2>4, <2>5 DEF Moves
  <1>12. CASE Restore!UndoDocuments
    <2>1. /\ call.pc = "undo documents" /\ Moves("failed")
          /\ crashes' = crashes /\ (failures' = failures \/ OneFails)
          /\ database' = database /\ stage' \subseteq Restore!Parts
          /\ \/ /\ failures' = failures
                /\ documents' = IF "documents" \in aside /\ documents = "none" THEN "old" ELSE documents
                /\ aside' = IF documents = "none" THEN aside \ {"documents"} ELSE aside
             \/ OneFails /\ UNCHANGED <<documents, aside>>
      BY <1>0, <1>12, RestoreMoves DEF Restore!UndoDocuments, OneFails, Restore!Back, Restore!End
    <2>2. PutInPlace'
      BY <1>0, <1>p, <2>1 DEF Moves, PutInPlace
    <2>3. AsideIsAway'
      BY <1>0, <1>p, <2>1 DEF Moves, PutInPlace, AsideIsAway
    <2>6. failures <= 1 /\ failures' = failures => aside' = {}
      BY <1>0, <1>f, <1>p, <2>1 DEF PutBack, AsideIsAway
    <2>4. PutBack'
      BY <1>f, <1>p, <2>1, <2>6 DEF Moves, PutInPlace, AsideIsAway, PutBack
    <2>5. Restore!LosesNothing
      BY <1>0, <1>p, <2>1 DEF Moves, PutInPlace, AsideIsAway, Restore!LosesNothing
    <2> QED BY <1>0, <1>a, <2>1, <2>2, <2>3, <2>4, <2>5 DEF Moves
  <1>13. CASE Restore!Crash
    <2>1. /\ UNCHANGED <<database, documents, aside, stage, failures>> /\ Moves("crashed")
          /\ call.pc \in Restore!Steps \ {"new"}
      BY <1>0, <1>13, RestoreMoves DEF Restore!Crash
    <2>2. crashes' \in 0..MaxCrashes
      BY <1>0, <1>13 DEF Restore!Crash
    <2> QED BY <1>0, <1>a, <1>p, <2>1, <2>2
            DEF OneFails, Moves, PutInPlace, AsideIsAway, PutBack, Restore!LosesNothing, Restore!Steps
  <1>14. CASE UNCHANGED Restore!vars
    BY <1>0, <1>a, <1>p, <1>14 DEF Restore!vars, PutInPlace, AsideIsAway, PutBack, Restore!LosesNothing
  <1> QED BY <1>1, <1>2, <1>3, <1>4, <1>5, <1>6, <1>7, <1>8, <1>9, <1>10, <1>11, <1>12, <1>13, <1>14
          DEF Restore!Next

(* Every variable of a restore keeps its type. *)
THEOREM RestoreTypeCorrect == ASSUME Restore!RestoreAssumption PROVE Restore!Spec => []Restore!TypeOK
  <1>1. Restore!Init => RestoreInv
    BY RestoreAtFirst
  <1>2. RestoreInv /\ [Restore!Next]_(Restore!vars) => RestoreInv'
    BY RestoreKept
  <1>3. RestoreInv => Restore!TypeOK
    BY DEF RestoreInv
  <1> QED BY <1>1, <1>2, <1>3, PTL DEF Restore!Spec

(* A restored database never stands without its documents, nor the old one     *)
(* beside restored documents, when the call has answered (restoreBackupBundle). *)
THEOREM RestoredTogether == ASSUME Restore!RestoreAssumption PROVE Restore!Spec => []Restore!TheyGoTogether
  <1>1. Restore!Init => RestoreInv
    BY RestoreAtFirst
  <1>2. RestoreInv /\ [Restore!Next]_(Restore!vars) => RestoreInv'
    BY RestoreKept
  <1>3. RestoreInv => Restore!TheyGoTogether
    BY DEF RestoreInv, Restore!TypeOK, PutInPlace, PutBack, Restore!TheyGoTogether, Restore!Ends
  <1> QED BY <1>1, <1>2, <1>3, PTL DEF Restore!Spec

(* What the server had is in its place or beside it, however many operations   *)
(* of the restore fail and wherever it ends (restoreBackupBundle).             *)
THEOREM RestoreLosesNothing == ASSUME Restore!RestoreAssumption PROVE Restore!Spec => Restore!NothingIsLost
  <1>1. Restore!Init => RestoreInv
    BY RestoreAtFirst
  <1>2. RestoreInv /\ [Restore!Next]_(Restore!vars) => RestoreInv'
    BY RestoreKept
  <1>3. RestoreInv /\ [Restore!Next]_(Restore!vars) => [Restore!LosesNothing]_(Restore!vars)
    BY RestoreKept
  <1> QED BY <1>1, <1>2, <1>3, PTL DEF Restore!Spec, Restore!NothingIsLost
-----------------------------------------------------------------------------
(* Verification records *)

Marks == [Members -> 0..MaxTime]
Verdicts == {"valid", "damaged"}
ReaderRows == [pc : Records!Steps, print : Marks, at : 0..MaxTime, left : SUBSET Members,
               sound : BOOLEAN, told : {"none", "gone", "pending"} \cup Verdicts]

(* Nothing bears a later time than the clock, and what a reader found is not   *)
(* later than its reading.                                                     *)
TimesPassed ==
  /\ \A f \in Members : file[f].mtime <= clock
  /\ record.at <= clock
  /\ \A r \in Readers : /\ reader[r].at <= clock
                        /\ \A f \in Members : reader[r].print[f] <= reader[r].at

(* The bundle is as it was found, and the find is old enough to tell: whoever  *)
(* writes a file afterwards gives it another mtime.                            *)
Calm(print, at) == \A f \in Members : file[f].mtime = print[f] /\ print[f] + Margin < at

(* What is written down, and what a pass has read so far, is how a calm bundle is. *)
RecordTells ==
  record.made /\ ~gone /\ Calm(record.print, record.at) => (record.result = "valid") = Records!Sound
PassTells(r) ==
  reader[r].pc \in {"queued", "running"} /\ ~gone /\ Calm(reader[r].print, reader[r].at) =>
    reader[r].sound = (\A f \in Members \ reader[r].left : file[f].sound)
PassesTell == \A r \in Readers : PassTells(r)

(* One pass runs, and those that wait are of different finds. *)
OneRuns == \A r, s \in Readers : reader[r].pc = "running" /\ reader[s].pc = "running" => r = s
OneWaits ==
  /\ \A r \in pending : reader[r].pc \in {"queued", "running"}
  /\ \A r, s \in pending : reader[r].print = reader[s].print => r = s

RecordsInv == Records!TypeOK /\ TimesPassed /\ RecordTells /\ PassesTell /\ OneRuns /\ OneWaits

(* A file system never stores a later time than it has, nor one a whole       *)
(* granule earlier.                                                           *)
LEMMA GranuleRounds ==
  ASSUME Records!RecordsAssumption, NEW t \in Nat
  PROVE  Records!Mtime(t) \in Nat /\ Records!Mtime(t) <= t /\ Records!Mtime(t) + Margin >= t
  <1>1. Granule \in Nat \ {0} /\ Margin \in Nat /\ Margin >= Granule
    BY DEF Records!RecordsAssumption
  <1>2. (t \div Granule) * Granule \in Nat /\ (t \div Granule) * Granule <= t
        /\ (t \div Granule) * Granule + Granule > t
    BY <1>1
  <1> QED BY <1>1, <1>2 DEF Records!Mtime

LEMMA RecordsAtFirst == ASSUME Records!RecordsAssumption, Records!Init PROVE RecordsInv
  <1>1. Margin \in Nat /\ Granule \in Nat /\ MaxTime \in Nat /\ Margin + Granule <= MaxTime /\ MaxChanges \in Nat
    BY DEF Records!RecordsAssumption
  <1>2. clock \in 0..MaxTime /\ clock = Margin + Granule /\ changes \in 0..MaxChanges
    BY <1>1 DEF Records!Init
  <1>3. Records!Blank \in Marks /\ \A f \in Members : Records!Blank[f] = 0
    BY <1>1 DEF Records!Blank, Marks
  <1>4. file \in [Members -> [mtime : 0..MaxTime, sound : BOOLEAN]]
        /\ \A f \in Members : file[f].mtime = 0 /\ file[f].sound
    BY <1>1 DEF Records!Init
  <1>5. record \in [made : BOOLEAN, print : Marks, at : 0..MaxTime, result : Verdicts]
        /\ ~record.made /\ record.at = 0
    BY <1>1, <1>3 DEF Records!Init, Verdicts
  <1>6. \A r \in Readers : /\ reader[r].pc = "new" /\ reader[r].print = Records!Blank /\ reader[r].at = 0
    BY DEF Records!Init
  <1>7. reader \in [Readers -> ReaderRows]
    BY <1>1, <1>3 DEF Records!Init, ReaderRows, Records!Steps
  <1>8. gone = FALSE /\ pending = {}
    BY DEF Records!Init
  <1>9. Records!TypeOK
    BY <1>2, <1>4, <1>5, <1>7, <1>8 DEF Records!TypeOK, Records!Stored, Records!Stamps, Records!Results, ReaderRows,
       Marks, Verdicts
  <1>10. TimesPassed
    BY <1>1, <1>2, <1>3, <1>4, <1>5, <1>6 DEF TimesPassed
  <1> QED BY <1>5, <1>6, <1>8, <1>9, <1>10
          DEF RecordsInv, RecordTells, PassesTell, PassTells, OneRuns, OneWaits

(* The rows while only one reader moves, to a row of the right type. *)
MovesTo(r, row) == reader' = [reader EXCEPT ![r] = row] /\ row \in ReaderRows
BundleStays == UNCHANGED <<clock, file, gone, changes>>


LEMMA RowsStayRows ==
  ASSUME NEW r \in Readers, NEW row, MovesTo(r, row), reader \in [Readers -> ReaderRows]
  PROVE  /\ reader' \in [Readers -> ReaderRows] /\ reader'[r] = row
         /\ \A s \in Readers : s # r => reader'[s] = reader[s]
  BY DEF MovesTo

LEMMA TypesOfRecords ==
  ASSUME Records!TypeOK
  PROVE  /\ reader \in [Readers -> ReaderRows] /\ pending \subseteq Readers
         /\ record \in [made : BOOLEAN, print : Marks, at : 0..MaxTime, result : Verdicts]
         /\ file \in [Members -> [mtime : 0..MaxTime, sound : BOOLEAN]] /\ clock \in 0..MaxTime
         /\ gone \in BOOLEAN /\ changes \in 0..MaxChanges
  BY DEF Records!TypeOK, Records!Stored, Records!Stamps, Records!Results, ReaderRows, Marks, Verdicts

LEMMA TypesOfRecordsNext ==
  ASSUME reader' \in [Readers -> ReaderRows], pending' \subseteq Readers,
         record' \in [made : BOOLEAN, print : Marks, at : 0..MaxTime, result : Verdicts],
         file' \in [Members -> [mtime : 0..MaxTime, sound : BOOLEAN]], clock' \in 0..MaxTime,
         gone' \in BOOLEAN, changes' \in 0..MaxChanges
  PROVE  Records!TypeOK'
  BY DEF Records!TypeOK, Records!Stored, Records!Stamps, Records!Results, ReaderRows, Marks, Verdicts

(* What a row must be for its reader to move to it. *)
RowTells(row) ==
  row.pc \in {"queued", "running"} /\ ~gone /\ Calm(row.print, row.at) =>
    row.sound = (\A f \in Members \ row.left : file[f].sound)
RowInTime(row) == row.at <= clock /\ \A f \in Members : row.print[f] <= row.at

LEMMA ReaderMoves ==
  ASSUME RecordsInv, NEW r \in Readers, NEW row, MovesTo(r, row), BundleStays, record' = record,
         pending' \subseteq Readers, RowInTime(row), RowTells(row),
         row.pc = "running" => \A s \in Readers \ {r} : reader[s].pc # "running"
  PROVE  Records!TypeOK' /\ TimesPassed' /\ RecordTells' /\ PassesTell' /\ OneRuns'
  <1>1. Records!TypeOK /\ TimesPassed /\ RecordTells /\ PassesTell /\ OneRuns
    BY DEF RecordsInv
  <1>2. clock' = clock /\ file' = file /\ gone' = gone /\ changes' = changes
    BY DEF BundleStays
  <1>3. /\ reader' \in [Readers -> ReaderRows] /\ reader'[r] = row
        /\ \A s \in Readers : s # r => reader'[s] = reader[s]
    BY <1>1, RowsStayRows, TypesOfRecords
  <1>4. Records!TypeOK'
    BY <1>1, <1>2, <1>3, TypesOfRecords, TypesOfRecordsNext
  <1>5. TimesPassed'
    <2>1. \A f \in Members : file'[f].mtime <= clock'
      BY <1>1, <1>2 DEF TimesPassed
    <2>2. record'.at <= clock'
      BY <1>1, <1>2 DEF TimesPassed
    <2>3. ASSUME NEW s \in Readers
          PROVE  reader'[s].at <= clock' /\ \A f \in Members : reader'[s].print[f] <= reader'[s].at
      <3>1. CASE s = r
        BY <3>1, <1>2, <1>3 DEF RowInTime
      <3>2. CASE s # r
        BY <3>2, <1>1, <1>2, <1>3 DEF TimesPassed
      <3> QED BY <3>1, <3>2
    <2> QED BY <2>1, <2>2, <2>3 DEF TimesPassed
  <1>6. RecordTells'
    BY <1>1, <1>2 DEF RecordTells, Calm, Records!Sound
  <1>7. ASSUME NEW s \in Readers PROVE PassTells(s)'
    <2>1. CASE s = r
      BY <2>1, <1>2, <1>3 DEF RowTells, PassTells, Calm
    <2>2. CASE s # r
      BY <2>2, <1>1, <1>2, <1>3 DEF PassesTell, PassTells, Calm
    <2> QED BY <2>1, <2>2
  <1>8. OneRuns'
    BY <1>1, <1>3 DEF OneRuns
  <1> QED BY <1>4, <1>5, <1>6, <1>7, <1>8 DEF PassesTell

(* A reader that keeps its find and does not leave the queue. *)
LEMMA StillWaits ==
  ASSUME RecordsInv, NEW r \in Readers, NEW row, MovesTo(r, row), pending' = pending,
         r \in pending => row.pc \in {"queued", "running"} /\ row.print = reader[r].print
  PROVE  OneWaits'
  <1>1. Records!TypeOK /\ OneWaits /\ pending \subseteq Readers /\ reader \in [Readers -> ReaderRows]
    BY TypesOfRecords DEF RecordsInv
  <1>2. /\ reader'[r] = row
        /\ \A s \in Readers : s # r => reader'[s] = reader[s]
    BY <1>1, RowsStayRows
  <1>3. \A s \in pending : reader'[s].print = reader[s].print /\ reader'[s].pc \in {"queued", "running"}
    BY <1>1, <1>2 DEF OneWaits
  <1> QED BY <1>1, <1>3 DEF OneWaits

LEMMA FingerprintKeeps ==
  ASSUME RecordsInv, NEW r \in Readers, Records!Fingerprint(r)
  PROVE  RecordsInv'
  <1>1. Records!TypeOK /\ OneWaits /\ TimesPassed /\ reader \in [Readers -> ReaderRows] /\ reader[r] \in ReaderRows
        /\ file \in [Members -> [mtime : 0..MaxTime, sound : BOOLEAN]] /\ clock \in 0..MaxTime
    BY TypesOfRecords DEF RecordsInv
  <1>2. r \notin pending
    BY <1>1 DEF OneWaits, Records!Fingerprint
  <1>3. BundleStays /\ record' = record /\ pending' = pending
    BY DEF Records!Fingerprint, BundleStays
  <1>4. CASE gone
    <2> DEFINE row == [reader[r] EXCEPT !.pc = "ended", !.told = "gone"]
    <2>1. reader' = [reader EXCEPT ![r] = row]
      BY <1>4 DEF Records!Fingerprint
    <2>2. row \in ReaderRows /\ row.pc = "ended" /\ row.at = reader[r].at /\ row.print = reader[r].print
      BY <1>1 DEF ReaderRows, Records!Steps
    <2> HIDE DEF row
    <2>3. RowInTime(row) /\ RowTells(row)
      BY <1>1, <2>2 DEF RowInTime, RowTells, TimesPassed
    <2>4. MovesTo(r, row)
      BY <2>1, <2>2 DEF MovesTo
    <2>5. OneWaits'
      BY <1>2, <1>3, <2>4, StillWaits
    <2>6. Records!TypeOK' /\ TimesPassed' /\ RecordTells' /\ PassesTell' /\ OneRuns'
      BY <1>1, <1>3, <2>2, <2>3, <2>4, ReaderMoves, TypesOfRecords
    <2> QED BY <2>5, <2>6 DEF RecordsInv
  <1>5. CASE ~gone
    <2> DEFINE row == [reader[r] EXCEPT !.pc = "read", !.print = Records!Stamp, !.at = clock]
    <2>1. reader' = [reader EXCEPT ![r] = row]
      BY <1>5 DEF Records!Fingerprint
    <2>2. Records!Stamp \in Marks /\ \A f \in Members : Records!Stamp[f] = file[f].mtime
      BY <1>1 DEF Marks, Records!Stamp
    <2>3. row \in ReaderRows /\ row.pc = "read" /\ row.at = clock /\ row.print = Records!Stamp
      BY <1>1, <2>2 DEF ReaderRows, Records!Steps
    <2> HIDE DEF row
    <2>4. RowInTime(row) /\ RowTells(row)
      BY <1>1, <2>2, <2>3 DEF RowInTime, RowTells, TimesPassed
    <2>5. MovesTo(r, row)
      BY <2>1, <2>3 DEF MovesTo
    <2>6. OneWaits'
      BY <1>2, <1>3, <2>5, StillWaits
    <2>7. Records!TypeOK' /\ TimesPassed' /\ RecordTells' /\ PassesTell' /\ OneRuns'
      BY <1>1, <1>3, <2>3, <2>4, <2>5, ReaderMoves, TypesOfRecords
    <2> QED BY <2>6, <2>7 DEF RecordsInv
  <1> QED BY <1>4, <1>5

(* A reader that keeps its find and is not, or no longer, verifying. *)
LEMMA RestsKeeps ==
  ASSUME RecordsInv, NEW r \in Readers, NEW row, MovesTo(r, row), BundleStays, record' = record,
         pending' = pending, r \notin pending,
         row.pc \in {"ended", "joined"}, row.at = reader[r].at, row.print = reader[r].print
  PROVE  RecordsInv'
  <1>1. RowInTime(row) /\ RowTells(row)
    BY DEF RecordsInv, RowInTime, RowTells, TimesPassed
  <1>2. OneWaits'
    BY StillWaits
  <1>3. Records!TypeOK' /\ TimesPassed' /\ RecordTells' /\ PassesTell' /\ OneRuns'
    BY <1>1, ReaderMoves, TypesOfRecords DEF RecordsInv
  <1> QED BY <1>2, <1>3 DEF RecordsInv

LEMMA ReadRecordKeeps ==
  ASSUME RecordsInv, NEW r \in Readers, Records!ReadRecord(r)
  PROVE  RecordsInv'
  <1> DEFINE row == [reader[r] EXCEPT !.pc = "ended", !.told = record.result]
  <1>1. OneWaits /\ reader \in [Readers -> ReaderRows] /\ reader[r] \in ReaderRows /\ record.result \in Verdicts
    BY TypesOfRecords DEF RecordsInv
  <1>2. row \in ReaderRows /\ row.pc = "ended" /\ row.at = reader[r].at /\ row.print = reader[r].print
    BY <1>1 DEF ReaderRows, Records!Steps
  <1>3. reader' = [reader EXCEPT ![r] = row]
    BY <1>1 DEF Records!ReadRecord
  <1> HIDE DEF row
  <1>4. r \notin pending /\ BundleStays /\ record' = record /\ pending' = pending
    BY <1>1 DEF OneWaits, Records!ReadRecord, BundleStays
  <1> QED BY <1>2, <1>3, <1>4, RestsKeeps DEF MovesTo

LEMMA GiveUpKeeps ==
  ASSUME RecordsInv, NEW r \in Readers, Records!GiveUp(r)
  PROVE  RecordsInv'
  <1> DEFINE row == [reader[r] EXCEPT !.pc = "ended", !.told = "pending"]
  <1>1. OneWaits /\ reader \in [Readers -> ReaderRows] /\ reader[r] \in ReaderRows
    BY TypesOfRecords DEF RecordsInv
  <1>2. row \in ReaderRows /\ row.pc = "ended" /\ row.at = reader[r].at /\ row.print = reader[r].print
    BY <1>1 DEF ReaderRows, Records!Steps
  <1>3. reader' = [reader EXCEPT ![r] = row]
    BY <1>1 DEF Records!GiveUp
  <1> HIDE DEF row
  <1>4. r \notin pending /\ BundleStays /\ record' = record /\ pending' = pending
    BY <1>1 DEF OneWaits, Records!GiveUp, BundleStays
  <1> QED BY <1>2, <1>3, <1>4, RestsKeeps DEF MovesTo

LEMMA QueueKeeps ==
  ASSUME RecordsInv, NEW r \in Readers, Records!Queue(r)
  PROVE  RecordsInv'
  <1>1. /\ OneWaits /\ TimesPassed /\ reader \in [Readers -> ReaderRows] /\ reader[r] \in ReaderRows
        /\ pending \subseteq Readers /\ reader[r].pc = "read"
    BY TypesOfRecords DEF RecordsInv, Records!Queue
  <1>2. BundleStays /\ record' = record /\ r \notin pending
    BY <1>1 DEF Records!Queue, BundleStays, OneWaits
  <1>3. CASE \E s \in Readers : Records!Joins(r, s)
    <2> DEFINE row == [reader[r] EXCEPT !.pc = "joined"]
    <2>1. reader' = [reader EXCEPT ![r] = row] /\ pending' = pending
      BY <1>1, <1>3 DEF Records!Queue
    <2>2. row \in ReaderRows /\ row.pc = "joined" /\ row.at = reader[r].at /\ row.print = reader[r].print
      BY <1>1 DEF ReaderRows, Records!Steps
    <2> HIDE DEF row
    <2> QED BY <1>2, <2>1, <2>2, RestsKeeps DEF MovesTo
  <1>4. CASE ~ \E s \in Readers : Records!Joins(r, s)
    <2> DEFINE row == [reader[r] EXCEPT !.pc = "queued", !.left = Members, !.sound = TRUE]
    <2>1. reader' = [reader EXCEPT ![r] = row] /\ pending' = pending \cup {r}
      BY <1>1, <1>4 DEF Records!Queue
    <2>2. /\ row \in ReaderRows /\ row.pc = "queued" /\ row.at = reader[r].at /\ row.print = reader[r].print
          /\ row.left = Members /\ row.sound
      BY <1>1 DEF ReaderRows, Records!Steps
    <2> HIDE DEF row
    <2>3. MovesTo(r, row)
      BY <2>1, <2>2 DEF MovesTo
    <2>4. RowInTime(row) /\ RowTells(row)
      BY <1>1, <2>2 DEF RowInTime, RowTells, TimesPassed
    <2>5. Records!TypeOK' /\ TimesPassed' /\ RecordTells' /\ PassesTell' /\ OneRuns'
      BY <1>1, <1>2, <2>1, <2>2, <2>3, <2>4, ReaderMoves
    <2>6. reader'[r] = row /\ \A s \in Readers : s # r => reader'[s] = reader[s]
      BY <1>1, <2>3, RowsStayRows
    <2>7. \A s \in pending : s \in Readers /\ s # r /\ reader[s].print # reader[r].print
      BY <1>1, <1>2, <1>4 DEF Records!Joins
    <2>8. OneWaits'
      <3>1. \A s \in pending' : reader'[s].pc \in {"queued", "running"}
        BY <1>1, <2>1, <2>2, <2>6, <2>7 DEF OneWaits
      <3>2. ASSUME NEW s \in pending', NEW t \in pending', reader'[s].print = reader'[t].print PROVE s = t
        BY <1>1, <2>1, <2>2, <2>6, <2>7, <3>2 DEF OneWaits
      <3> QED BY <3>1, <3>2 DEF OneWaits
    <2> QED BY <2>5, <2>8 DEF RecordsInv
  <1> QED BY <1>3, <1>4

LEMMA RunKeeps ==
  ASSUME RecordsInv, NEW r \in Readers, Records!Run(r)
  PROVE  RecordsInv'
  <1> DEFINE row == [reader[r] EXCEPT !.pc = "running"]
  <1>1. /\ PassesTell /\ TimesPassed /\ reader \in [Readers -> ReaderRows] /\ reader[r] \in ReaderRows
        /\ pending \subseteq Readers /\ reader[r].pc = "queued"
    BY TypesOfRecords DEF RecordsInv, Records!Run
  <1>2. /\ row \in ReaderRows /\ row.pc = "running" /\ row.at = reader[r].at /\ row.print = reader[r].print
        /\ row.left = reader[r].left /\ row.sound = reader[r].sound
    BY <1>1 DEF ReaderRows, Records!Steps
  <1>3. reader' = [reader EXCEPT ![r] = row]
    BY <1>1 DEF Records!Run
  <1> HIDE DEF row
  <1>4. BundleStays /\ record' = record /\ pending' = pending /\ \A s \in Readers : reader[s].pc # "running"
    BY DEF Records!Run, BundleStays
  <1>5. MovesTo(r, row)
    BY <1>2, <1>3 DEF MovesTo
  <1>6. RowInTime(row) /\ RowTells(row)
    BY <1>1, <1>2 DEF RowInTime, RowTells, TimesPassed, PassesTell, PassTells
  <1>7. Records!TypeOK' /\ TimesPassed' /\ RecordTells' /\ PassesTell' /\ OneRuns'
    BY <1>1, <1>4, <1>5, <1>6, ReaderMoves
  <1>8. OneWaits'
    BY <1>2, <1>4, <1>5, StillWaits
  <1> QED BY <1>7, <1>8 DEF RecordsInv

LEMMA VerifyKeeps ==
  ASSUME RecordsInv, NEW r \in Readers, NEW f \in Members, Records!Verify(r, f)
  PROVE  RecordsInv'
  <1> DEFINE row == [reader[r] EXCEPT !.left = reader[r].left \ {f},
                                      !.sound = reader[r].sound /\ file[f].sound /\ ~gone]
  <1>1. /\ PassesTell /\ TimesPassed /\ OneRuns /\ reader \in [Readers -> ReaderRows] /\ reader[r] \in ReaderRows
        /\ pending \subseteq Readers /\ reader[r].pc = "running" /\ f \in reader[r].left
        /\ file[f].sound \in BOOLEAN /\ gone \in BOOLEAN
    BY TypesOfRecords DEF RecordsInv, Records!Verify
  <1>2. /\ row \in ReaderRows /\ row.pc = "running" /\ row.at = reader[r].at /\ row.print = reader[r].print
        /\ row.left = reader[r].left \ {f} /\ row.sound = (reader[r].sound /\ file[f].sound /\ ~gone)
    BY <1>1 DEF ReaderRows, Records!Steps
  <1>3. reader' = [reader EXCEPT ![r] = row]
    BY <1>1 DEF Records!Verify
  <1> HIDE DEF row
  <1>4. BundleStays /\ record' = record /\ pending' = pending
    BY DEF Records!Verify, BundleStays
  <1>5. MovesTo(r, row)
    BY <1>2, <1>3 DEF MovesTo
  <1>6. RowInTime(row)
    BY <1>1, <1>2 DEF RowInTime, TimesPassed
  <1>7. RowTells(row)
    <2>1. Members \ row.left = (Members \ reader[r].left) \cup {f}
      BY <1>1, <1>2
    <2> QED BY <1>1, <1>2, <2>1 DEF RowTells, PassesTell, PassTells
  <1>8. \A s \in Readers \ {r} : reader[s].pc # "running"
    BY <1>1 DEF OneRuns
  <1>9. Records!TypeOK' /\ TimesPassed' /\ RecordTells' /\ PassesTell' /\ OneRuns'
    BY <1>1, <1>4, <1>5, <1>6, <1>7, <1>8, ReaderMoves
  <1>10. OneWaits'
    BY <1>2, <1>4, <1>5, StillWaits
  <1> QED BY <1>9, <1>10 DEF RecordsInv

LEMMA AgainKeeps ==
  ASSUME RecordsInv, Records!RecordsAssumption, NEW r \in Readers, Records!Again(r)
  PROVE  RecordsInv'
  <1> DEFINE row == [pc |-> "new", print |-> Records!Blank, at |-> 0, left |-> {}, sound |-> TRUE, told |-> "none"]
  <1>1. /\ OneWaits /\ reader \in [Readers -> ReaderRows] /\ pending \subseteq Readers /\ clock \in 0..MaxTime
        /\ reader[r].pc = "ended" /\ MaxTime \in Nat
    BY TypesOfRecords DEF RecordsInv, Records!Again, Records!RecordsAssumption
  <1>2. Records!Blank \in Marks /\ \A f \in Members : Records!Blank[f] = 0
    BY <1>1 DEF Records!Blank, Marks
  <1>3. row \in ReaderRows /\ row.pc = "new" /\ row.at = 0 /\ row.print = Records!Blank
    BY <1>1, <1>2 DEF ReaderRows, Records!Steps
  <1>4. reader' = [reader EXCEPT ![r] = row]
    BY DEF Records!Again
  <1> HIDE DEF row
  <1>5. BundleStays /\ record' = record /\ pending' = pending /\ r \notin pending
    BY <1>1 DEF Records!Again, BundleStays, OneWaits
  <1>6. MovesTo(r, row)
    BY <1>3, <1>4 DEF MovesTo
  <1>7. RowInTime(row) /\ RowTells(row)
    BY <1>1, <1>2, <1>3 DEF RowInTime, RowTells
  <1>8. Records!TypeOK' /\ TimesPassed' /\ RecordTells' /\ PassesTell' /\ OneRuns'
    BY <1>1, <1>3, <1>5, <1>6, <1>7, ReaderMoves
  <1>9. OneWaits'
    BY <1>5, <1>6, StillWaits
  <1> QED BY <1>8, <1>9 DEF RecordsInv

(* A pass that ends writes down what it found of the bundle it was asked about. *)
LEMMA EndKeeps ==
  ASSUME RecordsInv, NEW r \in Readers, Records!End(r)
  PROVE  RecordsInv'
  <1>1. /\ Records!TypeOK /\ PassesTell /\ TimesPassed /\ OneRuns /\ OneWaits /\ RecordTells
        /\ reader \in [Readers -> ReaderRows] /\ reader[r] \in ReaderRows
        /\ pending \subseteq Readers /\ reader[r].pc = "running" /\ reader[r].left = {}
    BY TypesOfRecords DEF RecordsInv, Records!End
  <1>2. clock' = clock /\ file' = file /\ gone' = gone /\ changes' = changes /\ pending' = pending \ {r}
    BY DEF Records!End
  <1>3. /\ reader' \in [Readers -> ReaderRows]
        /\ \A s \in Readers : /\ reader'[s].at = reader[s].at /\ reader'[s].print = reader[s].print
                              /\ reader'[s] = reader[s] \/ reader'[s].pc = "ended"
                              /\ s # r /\ reader[s].pc # "joined" => reader'[s] = reader[s]
        /\ reader'[r].pc = "ended"
    <2> DEFINE word == IF gone THEN "gone" ELSE IF reader[r].sound THEN "valid" ELSE "damaged"
    <2> DEFINE row(s) == IF s = r \/ (reader[s].pc = "joined" /\ reader[s].print = reader[r].print)
                         THEN [reader[s] EXCEPT !.pc = "ended", !.told = word]
                         ELSE reader[s]
    <2>1. word \in {"none", "gone", "pending"} \cup Verdicts
      BY DEF Verdicts
    <2>2. reader' = [s \in Readers |-> row(s)]
      BY DEF Records!End
    <2> HIDE DEF word
    <2>3. ASSUME NEW s \in Readers
          PROVE  /\ row(s) \in ReaderRows /\ row(s).at = reader[s].at /\ row(s).print = reader[s].print
                 /\ row(s) = reader[s] \/ row(s).pc = "ended"
                 /\ s # r /\ reader[s].pc # "joined" => row(s) = reader[s]
                 /\ s = r => row(s).pc = "ended"
      <3>1. reader[s] \in ReaderRows
        BY <1>1
      <3>2. /\ [reader[s] EXCEPT !.pc = "ended", !.told = word] \in ReaderRows
            /\ [reader[s] EXCEPT !.pc = "ended", !.told = word].at = reader[s].at
            /\ [reader[s] EXCEPT !.pc = "ended", !.told = word].print = reader[s].print
            /\ [reader[s] EXCEPT !.pc = "ended", !.told = word].pc = "ended"
        BY <2>1, <3>1 DEF ReaderRows, Records!Steps
      <3> QED BY <3>1, <3>2
    <2> HIDE DEF row
    <2> QED BY <2>2, <2>3
  <1>4. /\ record' \in [made : BOOLEAN, print : Marks, at : 0..MaxTime, result : Verdicts]
        /\ gone \/ (/\ record'.print = reader[r].print /\ record'.at = reader[r].at
                    /\ (record'.result = "valid") = (reader[r].sound = TRUE))
        /\ gone => record' = record
    <2>1. CASE gone
      BY <1>1, <2>1, TypesOfRecords DEF Records!End
    <2>2. CASE ~gone
      <3>1. record' = Records!Recorded(r)
        BY <2>2 DEF Records!End
      <3> QED BY <1>1, <2>2, <3>1 DEF Records!Recorded, ReaderRows, Verdicts
    <2> QED BY <2>1, <2>2
  <1>5. Records!TypeOK'
    BY <1>1, <1>2, <1>3, <1>4, TypesOfRecords, TypesOfRecordsNext
  <1>6. TimesPassed'
    <2>1. record'.at <= clock
      BY <1>1, <1>4 DEF TimesPassed
    <2> QED BY <1>1, <1>2, <1>3, <2>1 DEF TimesPassed
  <1>7. RecordTells'
    <2>1. CASE gone
      BY <1>2, <2>1 DEF RecordTells
    <2>2. CASE ~gone /\ Calm(reader[r].print, reader[r].at)
      <3>1. reader[r].sound = (\A f \in Members : file[f].sound)
        BY <1>1, <2>2 DEF PassesTell, PassTells
      <3> QED BY <1>1, <1>2, <1>4, <2>2, <3>1 DEF RecordTells, Records!Sound
    <2>3. CASE ~gone /\ ~Calm(reader[r].print, reader[r].at)
      BY <1>2, <1>4, <2>3 DEF RecordTells, Calm
    <2> QED BY <2>1, <2>2, <2>3
  <1>8. ASSUME NEW s \in Readers PROVE PassTells(s)'
    BY <1>1, <1>2, <1>3 DEF PassesTell, PassTells, Calm
  <1>9. OneRuns'
    BY <1>1, <1>3 DEF OneRuns
  <1>10. OneWaits'
    BY <1>1, <1>2, <1>3 DEF OneWaits
  <1> QED BY <1>5, <1>6, <1>7, <1>8, <1>9, <1>10 DEF RecordsInv, PassesTell

(* Who writes a file leaves an mtime near the time: no find of it is calm. *)
LEMMA ChangeKeeps ==
  ASSUME RecordsInv, Records!RecordsAssumption, NEW f \in Members, Records!Change(f)
  PROVE  RecordsInv'
  <1>1. /\ Records!TypeOK /\ TimesPassed /\ OneRuns /\ OneWaits
        /\ file \in [Members -> [mtime : 0..MaxTime, sound : BOOLEAN]] /\ clock \in 0..MaxTime
        /\ changes \in 0..MaxChanges /\ MaxChanges \in Nat /\ MaxTime \in Nat /\ Margin \in Nat
    BY TypesOfRecords DEF RecordsInv, Records!RecordsAssumption
  <1>2. changes' = changes + 1 /\ changes < MaxChanges /\ clock' = clock
        /\ gone' = gone /\ record' = record /\ reader' = reader /\ pending' = pending
    BY DEF Records!Change
  <1>3. PICK sound \in BOOLEAN : file' = [file EXCEPT ![f] = [mtime |-> Records!Mtime(clock), sound |-> sound]]
    BY DEF Records!Change
  <1>4. /\ Records!Mtime(clock) \in 0..MaxTime /\ Records!Mtime(clock) <= clock
        /\ Records!Mtime(clock) + Margin >= clock
    BY <1>1, GranuleRounds
  <1>5. /\ file' \in [Members -> [mtime : 0..MaxTime, sound : BOOLEAN]]
        /\ file'[f].mtime = Records!Mtime(clock)
        /\ \A g \in Members : g # f => file'[g] = file[g]
    BY <1>1, <1>3, <1>4
  <1>6. changes' \in 0..MaxChanges
    BY <1>1, <1>2
  <1>7. Records!TypeOK'
    BY <1>1, <1>2, <1>5, <1>6, TypesOfRecords, TypesOfRecordsNext
  <1>8. TimesPassed'
    BY <1>1, <1>2, <1>4, <1>5 DEF TimesPassed
  <1>9. ASSUME NEW print, NEW at \in 0..MaxTime, at <= clock PROVE ~Calm(print, at)'
    <2>1. SUFFICES ASSUME file'[f].mtime = print[f], print[f] + Margin < at PROVE FALSE
      BY DEF Calm
    <2>2. Records!Mtime(clock) + Margin < at
      BY <1>5, <2>1
    <2> QED BY <1>1, <1>4, <1>9, <2>2
  <1>10. RecordTells'
    <2>1. record.at \in 0..MaxTime /\ record.at <= clock
      BY <1>1, TypesOfRecords DEF TimesPassed
    <2>2. ~(\A g \in Members : file'[g].mtime = record.print[g] /\ record.print[g] + Margin < record.at)
      BY <1>9, <2>1 DEF Calm
    <2> QED BY <1>2, <2>2 DEF RecordTells, Calm
  <1>11. ASSUME NEW s \in Readers PROVE PassTells(s)'
    <2>1. reader[s].at \in 0..MaxTime /\ reader[s].at <= clock
      BY <1>1, TypesOfRecords DEF TimesPassed, ReaderRows
    <2>2. ~(\A g \in Members : file'[g].mtime = reader[s].print[g] /\ reader[s].print[g] + Margin < reader[s].at)
      BY <1>9, <2>1 DEF Calm
    <2> QED BY <1>2, <2>2 DEF PassTells, Calm
  <1>12. OneRuns' /\ OneWaits'
    BY <1>1, <1>2 DEF OneRuns, OneWaits
  <1> QED BY <1>7, <1>8, <1>10, <1>11, <1>12 DEF RecordsInv, PassesTell

LEMMA OthersKeep ==
  ASSUME RecordsInv, Records!RecordsAssumption,
         Records!Remove \/ Records!Prune \/ Records!Tick \/ UNCHANGED Records!vars
  PROVE  RecordsInv'
  <1>1. Records!TypeOK /\ TimesPassed /\ PassesTell /\ RecordTells /\ OneRuns /\ OneWaits
    BY DEF RecordsInv
  <1>2. reader' = reader /\ pending' = pending /\ file' = file /\ changes' = changes
    BY DEF Records!Remove, Records!Prune, Records!Tick, Records!vars
  <1>3. OneRuns' /\ OneWaits'
    BY <1>1, <1>2 DEF OneRuns, OneWaits
  <1>4. /\ clock' \in 0..MaxTime /\ clock' >= clock
        /\ gone' \in BOOLEAN /\ (gone => gone')
        /\ record' \in [made : BOOLEAN, print : Marks, at : 0..MaxTime, result : Verdicts]
        /\ record'.at = record.at /\ record'.print = record.print /\ record'.result = record.result
        /\ (record'.made => record.made)
    <2>1. clock \in 0..MaxTime /\ MaxTime \in Nat /\ gone \in BOOLEAN
          /\ record \in [made : BOOLEAN, print : Marks, at : 0..MaxTime, result : Verdicts]
      BY <1>1, TypesOfRecords DEF Records!RecordsAssumption
    <2>2. CASE Records!Remove
      BY <2>1, <2>2 DEF Records!Remove
    <2>3. CASE Records!Prune
      <3>1. record' = [record EXCEPT !.made = FALSE] /\ record.made /\ clock' = clock /\ gone' = gone
        BY <2>3 DEF Records!Prune
      <3>2. /\ record' \in [made : BOOLEAN, print : Marks, at : 0..MaxTime, result : Verdicts]
            /\ record'.at = record.at /\ record'.print = record.print /\ record'.result = record.result
        BY <2>1, <3>1
      <3>3. clock' >= clock
        BY <2>1, <3>1
      <3> QED BY <2>1, <3>1, <3>2, <3>3
    <2>4. CASE Records!Tick
      BY <2>1, <2>4 DEF Records!Tick
    <2>5. CASE UNCHANGED Records!vars
      BY <2>1, <2>5 DEF Records!vars
    <2> QED BY <2>2, <2>3, <2>4, <2>5
  <1>5. Records!TypeOK'
    BY <1>1, <1>2, <1>4, TypesOfRecords, TypesOfRecordsNext
  <1>6. TimesPassed'
    <2>1. clock \in 0..MaxTime /\ record.at \in 0..MaxTime /\ reader \in [Readers -> ReaderRows]
          /\ file \in [Members -> [mtime : 0..MaxTime, sound : BOOLEAN]]
      BY <1>1, TypesOfRecords
    <2>2. \A f \in Members : file[f].mtime <= clock'
      BY <1>1, <1>4, <2>1 DEF TimesPassed
    <2>3. record'.at <= clock'
      BY <1>1, <1>4, <2>1 DEF TimesPassed
    <2>4. ASSUME NEW s \in Readers PROVE reader[s].at <= clock'
      <3>1. reader[s].at \in 0..MaxTime /\ reader[s].at <= clock
        BY <1>1, <2>1 DEF TimesPassed, ReaderRows
      <3> QED BY <1>4, <2>1, <3>1
    <2> QED BY <1>1, <1>2, <2>2, <2>3, <2>4 DEF TimesPassed
  <1>7. RecordTells'
    BY <1>1, <1>2, <1>4 DEF RecordTells, Calm, Records!Sound
  <1>8. PassesTell'
    BY <1>1, <1>2, <1>4 DEF PassesTell, PassTells, Calm
  <1> QED BY <1>3, <1>5, <1>6, <1>7, <1>8 DEF RecordsInv

LEMMA RecordsKept ==
  ASSUME RecordsInv, Records!RecordsAssumption, [Records!Next]_(Records!vars)
  PROVE  RecordsInv'
  <1>1. CASE \E r \in Readers : \/ Records!Fingerprint(r) \/ Records!ReadRecord(r) \/ Records!Queue(r)
                                \/ Records!Run(r) \/ (\E f \in Members : Records!Verify(r, f))
                                \/ Records!End(r) \/ Records!GiveUp(r) \/ Records!Again(r)
    BY <1>1, FingerprintKeeps, ReadRecordKeeps, QueueKeeps, RunKeeps, VerifyKeeps, EndKeeps, GiveUpKeeps, AgainKeeps
  <1>2. CASE \E f \in Members : Records!Change(f)
    BY <1>2, ChangeKeeps
  <1>3. CASE Records!Remove \/ Records!Prune \/ Records!Tick \/ UNCHANGED Records!vars
    BY <1>3, OthersKeep
  <1> QED BY <1>1, <1>2, <1>3 DEF Records!Next

(* Every variable keeps its type. *)
THEOREM RecordsTypeCorrect == ASSUME Records!RecordsAssumption PROVE Records!Spec => []Records!TypeOK
  <1>1. Records!Init => RecordsInv
    BY RecordsAtFirst
  <1>2. RecordsInv /\ [Records!Next]_(Records!vars) => RecordsInv'
    BY RecordsKept
  <1>3. RecordsInv => Records!TypeOK
    BY DEF RecordsInv
  <1> QED BY <1>1, <1>2, <1>3, PTL DEF Records!Spec

(* While the bundle is as a status read found it, the record that it trusts    *)
(* tells how the bundle is (readVerificationRecord, isFingerprintRacy).         *)
THEOREM TrustedRecordsAreTrue == ASSUME Records!RecordsAssumption PROVE Records!Spec => []Records!RecordsAreTrue
  <1>1. Records!Init => RecordsInv
    BY RecordsAtFirst
  <1>2. RecordsInv /\ [Records!Next]_(Records!vars) => RecordsInv'
    BY RecordsKept
  <1>3. RecordsInv => Records!RecordsAreTrue
    <2> SUFFICES ASSUME RecordsInv, NEW r \in Readers, reader[r].pc = "read", reader[r].print = Records!Stamp,
                        ~gone, Records!Trusted(r)
                 PROVE  (record.result = "valid") = Records!Sound
      BY DEF Records!RecordsAreTrue
    <2>1. /\ TimesPassed /\ RecordTells /\ record.made /\ record.print = reader[r].print /\ ~Records!Racy(r)
          /\ record.at \in 0..MaxTime /\ reader[r] \in ReaderRows /\ Margin \in Nat
      BY TypesOfRecords DEF RecordsInv, Records!Trusted, Records!RecordsAssumption
    <2>2. ASSUME NEW f \in Members
          PROVE  file[f].mtime = record.print[f] /\ record.print[f] + Margin < record.at
      <3> DEFINE from == IF record.at < reader[r].at THEN record.at ELSE reader[r].at
                 until == IF record.at < reader[r].at THEN reader[r].at ELSE record.at
      <3>1. reader[r].print[f] \in 0..MaxTime /\ reader[r].at \in 0..MaxTime
        BY <2>1 DEF ReaderRows, Marks
      <3>2. reader[r].print[f] <= reader[r].at
        BY <2>1 DEF TimesPassed
      <3>3. ~(reader[r].print[f] + Margin >= from /\ reader[r].print[f] <= until + Margin)
        BY <2>1 DEF Records!Racy
      <3>4. reader[r].print[f] + Margin < record.at
        BY <2>1, <3>1, <3>2, <3>3
      <3>5. file[f].mtime = reader[r].print[f]
        BY DEF Records!Stamp
      <3> QED BY <2>1, <3>4, <3>5
    <2> QED BY <2>1, <2>2 DEF RecordTells, Calm
  <1> QED BY <1>1, <1>2, <1>3, PTL DEF Records!Spec

(* One verification runs at a time, and one waits for each find of a bundle   *)
(* (queueBundleVerification).                                                  *)
THEOREM OneVerifiesAtATime == ASSUME Records!RecordsAssumption PROVE Records!Spec => []Records!OnePass
  <1>1. Records!Init => RecordsInv
    BY RecordsAtFirst
  <1>2. RecordsInv /\ [Records!Next]_(Records!vars) => RecordsInv'
    BY RecordsKept
  <1>3. RecordsInv => Records!OnePass
    BY DEF RecordsInv, OneRuns, OneWaits, Records!OnePass
  <1> QED BY <1>1, <1>2, <1>3, PTL DEF Records!Spec
================================================================================
