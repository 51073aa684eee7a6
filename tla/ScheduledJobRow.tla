--------------------------- MODULE ScheduledJobRow ---------------------------
(***************************************************************************)
(* One row of scheduled_job_runs and the two storage operations that move  *)
(* it: claimScheduledJob and transitionScheduledJob.  Both run inside one  *)
(* immediate SQLite transaction, so each is a single function of the row.  *)
(* Every recurring job of the server owns its rows through them.           *)
(*                                                                         *)
(* Times are integers in units of the job's clock.  A claim token is a     *)
(* fresh UUID in the code; here it is the number of the attempt it was     *)
(* issued for, which is as unique and is never 0.                          *)
(***************************************************************************)
EXTENDS Integers

CONSTANTS
  RetryDelay,   \* scheduledJobRetryDelayMs
  NoId          \* the SQL NULL of provider_message_id

Statuses == {"none", "pending", "transmitting", "failed", "ambiguous", "completed"}

\* The absent row ("none") and the columns the jobs read.  envelope stands for
\* metadata.preparedEnvelope with its digests and dates, boundaryAt for
\* metadata.providerBoundaryAt.
NoRow == [status |-> "none", token |-> 0, attempts |-> 0, updatedAt |-> 0,
          boundaryAt |-> 0, nextRetryAt |-> 0, envelope |-> "none", messageId |-> NoId]

\* scheduledJobTransitions
Legal == [none |-> {}, failed |-> {}, completed |-> {},
          pending |-> {"pending", "transmitting", "failed", "ambiguous", "completed"},
          transmitting |-> {"failed", "ambiguous", "completed"},
          ambiguous |-> {"completed"}]

\* Mutants of Claimable: staleness alone decides, whatever the status; a silent
\* owner is never replaced.
ClaimableWheneverStale(r, staleBefore, retryDueAt) ==
  r.status = "none" \/ r.updatedAt <= staleBefore
ClaimableNeverStale(r, staleBefore, retryDueAt) ==
  \/ r.status = "none"
  \/ r.status = "failed" /\ r.nextRetryAt <= retryDueAt

\* scheduledJobClaimDenialReason for a caller that passes a token: the job has
\* no row yet, or its owner went silent, or its retry is due.
Claimable(r, staleBefore, retryDueAt) ==
  \/ r.status = "none"
  \/ r.status = "pending" /\ r.updatedAt <= staleBefore
  \/ r.status = "failed" /\ r.nextRetryAt <= retryDueAt

NextToken(r) == r.attempts + 1

\* A claim keeps the metadata of earlier attempts, the prepared envelope included.
Claimed(r, time) ==
  [r EXCEPT !.status = "pending", !.token = NextToken(r), !.attempts = @ + 1,
            !.updatedAt = time, !.messageId = NoId]

\* The three fences of a transition: the caller holds the current token, the
\* row is where the caller expects it, and the move is a legal one.
MayMove(r, token, expected, status) ==
  /\ r.status # "completed"
  /\ r.token = token
  /\ r.status \in expected
  /\ status \in Legal[r.status]

\* Mutant of Moved: the caller has added the delay already.
MovedTwiceDelayed(r, status, time) ==
  [r EXCEPT !.status = status, !.updatedAt = time,
            !.nextRetryAt = IF status = "failed" THEN time + RetryDelay + RetryDelay ELSE @]

Moved(r, status, time) ==
  [r EXCEPT !.status = status, !.updatedAt = time,
            !.nextRetryAt = IF status = "failed" THEN time + RetryDelay ELSE @]

\* mergeScheduledJobMetadata: the prepared envelope is immutable once set.
WithEnvelope(r, envelope) ==
  [r EXCEPT !.envelope = IF @ = "none" THEN envelope ELSE @]
=============================================================================
