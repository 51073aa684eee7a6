----------------------------- MODULE DailyDigest -----------------------------
(***************************************************************************)
(* The Daily Deal Hunter e-mail of one business date: the scheduler and    *)
(* the administrator's button both run runClaimedDailyDealHunterEmail, the *)
(* provider accepts or refuses what they send, its webhooks come back, and *)
(* the process may die between any two awaits.  One worker is one call of  *)
(* that function or of the webhook handler; its pc names the await it is   *)
(* suspended at.                                                           *)
(***************************************************************************)
EXTENDS ScheduledJobRow, FiniteSets

CONSTANTS
  Workers,      \* calls that may be suspended at the same time
  Strays,       \* messages with this envelope that some other system sent
  Stale,        \* dailyEmailClaimStaleMs
  Window,       \* DAILY_DEAL_HUNTER_RECONCILIATION_WINDOW_MS
  Upgrades,     \* whether a restart may bring an incompatible envelope format
  MaxTime, MaxAttempts, MaxCrashes    \* bounds of the instance

ASSUME DigestAssumption ==
  /\ RetryDelay \in Nat \ {0} /\ Stale \in Nat \ {0} /\ Window \in Nat
  /\ MaxTime \in Nat /\ MaxAttempts \in Nat /\ MaxCrashes \in Nat
  /\ Upgrades \in BOOLEAN
  /\ Strays \cap Nat = {} /\ NoId \notin Nat \cup Strays

VARIABLES
  now,            \* the wall clock
  row,            \* the job's row
  marker,         \* provider id in the marker file of the date, or NoId
  localEvents,    \* ids in email_events rows written by the sender
  webhookEvents,  \* ids in email_events rows written by signed webhooks
  requests,       \* attempts whose request is under way to the provider
  mail,           \* what the provider accepted: [id, at]
  refused,        \* attempts the provider definitively did not accept
  run,            \* the workers
  crashes,        \* restarts so far
  failedAt,       \* history: when the provider's refusal was recorded
  crossedAt       \* history: when the row last became transmitting

vars == <<now, row, marker, localEvents, webhookEvents, requests, mail, refused,
          run, crashes, failedAt, crossedAt>>
provider == <<requests, mail, refused>>
events == <<localEvents, webhookEvents>>
clock == <<now, crashes>>
history == <<failedAt, crossedAt>>

Times == 0 .. MaxTime
Tokens == 0 .. MaxAttempts
Ids == Tokens \cup Strays
\* The provider mints one id per acceptance: an accepted attempt's own number.
MailIds == {m.id : m \in mail}
OwnMail == {m \in mail : m.id \notin Strays}

Rows == [status : Statuses, token : Tokens, attempts : Tokens, updatedAt : Times,
         boundaryAt : Times, nextRetryAt : 0 .. MaxTime + RetryDelay,
         envelope : {"none", "valid", "invalid"}, messageId : Ids \cup {NoId}]
PCs == {"idle", "reconcile", "evidence", "lookup", "resolve", "repair", "claim", "build",
        "verify", "send", "await", "refused", "marker", "complete", "record"}
Runs == [pc : PCs, role : {"run", "after", "hook"}, at : Times, token : Tokens,
         snap : Rows, seen : SUBSET Ids]

Idle == [pc |-> "idle", role |-> "run", at |-> 0, token |-> 0, snap |-> NoRow, seen |-> {}]

TypeOK ==
  /\ now \in Times /\ row \in Rows /\ crashes \in 0 .. MaxCrashes
  /\ marker \in Ids \cup {NoId} /\ localEvents \subseteq Ids /\ webhookEvents \subseteq Ids
  /\ requests \subseteq Tokens /\ refused \subseteq Tokens
  /\ mail \subseteq [id : Ids, at : Times]
  /\ run \in [Workers -> Runs]
  /\ failedAt \in Times /\ crossedAt \in Times

Init ==
  /\ now = 0 /\ row = NoRow /\ crashes = 0
  /\ marker = NoId /\ localEvents = {} /\ webhookEvents = {}
  /\ requests = {} /\ mail = {} /\ refused = {}
  /\ run = [w \in Workers |-> Idle]
  /\ failedAt = 0 /\ crossedAt = 0

At(w, pc) == run[w].pc = pc
Goto(w, pc) == run' = [run EXCEPT ![w].pc = pc]
Finish(w) == run' = [run EXCEPT ![w] = Idle]

\* A move of the row by worker w that the fences may deny: the row is moved to
\* next or left alone.
TryMove(token, expected, status, next) ==
  row' = IF MayMove(row, token, expected, status) THEN next ELSE row

-----------------------------------------------------------------------------
(* Reconciliation.  It opens every run (role "run"), closes a run whose    *)
(* send had an unknown outcome ("after"), and is all a webhook does        *)
(* ("hook"); it never sends.                                               *)

Reconciling(role) ==
  [Idle EXCEPT !.pc = "reconcile", !.role = role, !.at = now]

\* Only the opening reconciliation of a run goes on to the claim, and only when
\* the row it returns is not completed.
Return(w, completed) ==
  run' = [run EXCEPT ![w] =
            IF @.role = "run" /\ ~completed
            THEN [Idle EXCEPT !.pc = "claim", !.at = run[w].at] ELSE Idle]

\* runClaimedDailyDealHunterEmail is called; `now' is read here, once.
Begin(w) ==
  /\ At(w, "idle")
  /\ run' = [run EXCEPT ![w] = Reconciling("run")]
  /\ UNCHANGED <<clock, row, marker, events, provider, history>>

\* A signed webhook about an accepted message: its event is stored, then the
\* date is reconciled.  Deliveries may repeat and come at any time.
Hook(w) ==
  /\ At(w, "idle")
  /\ \E id \in MailIds : webhookEvents' = webhookEvents \cup {id}
  /\ run' = [run EXCEPT ![w] = Reconciling("hook")]
  /\ UNCHANGED <<clock, row, marker, localEvents, provider, history>>

\* No row, no verifiable envelope, or a row that claims decide about.
ReconcileNothing(w) ==
  /\ At(w, "reconcile")
  /\ row.envelope # "valid" \/ row.status \in {"pending", "failed"}
  /\ Return(w, row.status = "completed")
  /\ UNCHANGED <<clock, row, marker, events, provider, history>>

\* A completed row restores a missing marker.
ReconcileCompleted(w) ==
  /\ At(w, "reconcile") /\ row.envelope = "valid" /\ row.status = "completed"
  /\ IF marker = NoId /\ row.messageId # NoId
     THEN run' = [run EXCEPT ![w].pc = "repair", ![w].seen = {row.messageId}]
     ELSE Finish(w)
  /\ UNCHANGED <<clock, row, marker, events, provider, history>>

ReconcileUnsettled(w) ==
  /\ At(w, "reconcile") /\ row.envelope = "valid"
  /\ row.status \in {"transmitting", "ambiguous"}
  /\ run' = [run EXCEPT ![w].pc = "evidence", ![w].snap = row]
  /\ UNCHANGED <<clock, row, marker, events, provider, history>>

ReadEvidence(w) ==
  /\ At(w, "evidence")
  /\ run' = [run EXCEPT
       ![w].pc = IF run[w].role = "hook" THEN "resolve" ELSE "lookup",
       ![w].seen = ({marker} \ {NoId}) \cup localEvents \cup webhookEvents]
  /\ UNCHANGED <<clock, row, marker, events, provider, history>>

\* Messages created after the run's own clock reading are not candidates.
Listed(w) == {m.id : m \in {m \in mail : m.at <= run[w].at}}

\* The provider's listing may be unavailable or lag behind.
LookupReturns(w, ids) ==
  /\ At(w, "lookup")
  /\ run' = [run EXCEPT ![w].pc = "resolve", ![w].seen = @ \cup ids]
  /\ UNCHANGED <<clock, row, marker, events, provider, history>>
Lookup(w) == \E ids \in SUBSET Listed(w) : LookupReturns(w, ids)

\* Mutant of MarkAmbiguous: no proof is taken for a failure.
MarkFailed(w) ==
  IF run[w].snap.status = "ambiguous"
  THEN row' = row /\ Return(w, FALSE)
  ELSE /\ TryMove(run[w].snap.token, {"transmitting"}, "failed",
                  Moved(row, "failed", run[w].at))
       /\ Return(w, row'.status = "completed")

\* markAmbiguous, under the token and the status that were read at the start.
MarkAmbiguous(w) ==
  IF run[w].snap.status = "ambiguous"
  THEN row' = row /\ Return(w, FALSE)
  ELSE /\ TryMove(run[w].snap.token, {"transmitting"}, "ambiguous",
                  Moved(row, "ambiguous", run[w].at))
       /\ Return(w, row'.status = "completed")

WindowOver(w) ==
  run[w].snap.status = "transmitting" /\ run[w].at - run[w].snap.boundaryAt >= Window

ResolveConflict(w) ==
  /\ At(w, "resolve") /\ Cardinality(run[w].seen) > 1
  /\ MarkAmbiguous(w)
  /\ UNCHANGED <<clock, marker, events, provider, history>>

ResolveNoProof(w) ==
  /\ At(w, "resolve") /\ run[w].seen = {}
  /\ IF WindowOver(w) THEN MarkAmbiguous(w) ELSE row' = row /\ Return(w, FALSE)
  /\ UNCHANGED <<clock, marker, events, provider, history>>

\* Mutant of ResolveProof: an ambiguous row is not expected.
ResolveProofInTime(w) ==
  /\ At(w, "resolve")
  /\ \E id \in run[w].seen :
       /\ run[w].seen = {id}
       /\ TryMove(run[w].snap.token, {"transmitting"}, "completed",
                  [Moved(row, "completed", run[w].at) EXCEPT !.messageId = id])
       /\ IF row'.status = "completed" THEN Goto(w, "repair") ELSE Return(w, FALSE)
  /\ UNCHANGED <<clock, marker, events, provider, history>>

\* completeFromEvidence up to the marker.
ResolveProof(w) ==
  /\ At(w, "resolve")
  /\ \E id \in run[w].seen :
       /\ run[w].seen = {id}
       /\ TryMove(run[w].snap.token, {"transmitting", "ambiguous"}, "completed",
                  [Moved(row, "completed", run[w].at) EXCEPT !.messageId = id])
       /\ IF row'.status = "completed" THEN Goto(w, "repair") ELSE Return(w, FALSE)
  /\ UNCHANGED <<clock, marker, events, provider, history>>

\* Storage or the file system throws inside reconcile: a run goes on to claim.
ReconcileThrows(w) ==
  /\ run[w].pc \in {"reconcile", "evidence", "resolve"}
  /\ Return(w, FALSE)
  /\ UNCHANGED <<clock, row, marker, events, provider, history>>

\* The marker is written to a temporary file and renamed, or not at all.
Repair(w) ==
  /\ At(w, "repair")
  /\ marker' \in {marker} \cup run[w].seen
  /\ Finish(w)
  /\ UNCHANGED <<clock, row, events, provider, history>>

-----------------------------------------------------------------------------
(* The claimed run.                                                        *)

Claim(w) ==
  /\ At(w, "claim") /\ row.attempts < MaxAttempts
  /\ Claimable(row, run[w].at - Stale, run[w].at)
  /\ row' = Claimed(row, run[w].at)
  /\ run' = [run EXCEPT ![w].pc = IF row.envelope = "none" THEN "build" ELSE "verify",
                        ![w].token = NextToken(row)]
  /\ UNCHANGED <<clock, marker, events, provider, history>>

ClaimDenied(w) ==
  /\ At(w, "claim")
  /\ ~Claimable(row, run[w].at - Stale, run[w].at) \/ row.attempts = MaxAttempts
  /\ Finish(w)
  /\ UNCHANGED <<clock, row, marker, events, provider, history>>

\* The digest is built and the envelope stored under the claim.
Build(w) ==
  /\ At(w, "build")
  /\ TryMove(run[w].token, {"pending"}, "pending",
             WithEnvelope(Moved(row, "pending", run[w].at), "valid"))
  /\ IF MayMove(row, run[w].token, {"pending"}, "pending") THEN Goto(w, "verify") ELSE Finish(w)
  /\ UNCHANGED <<clock, marker, events, provider, history>>

\* Building throws: the row stays pending until it is stale.
BuildThrows(w) ==
  /\ At(w, "build") /\ Finish(w)
  /\ UNCHANGED <<clock, row, marker, events, provider, history>>

\* An owner's copy of the envelope is the row's; one that lost the row is denied
\* whatever its copy.
Cross(w) ==
  /\ At(w, "verify") /\ row.envelope = "valid"
  /\ TryMove(run[w].token, {"pending"}, "transmitting",
             [Moved(row, "transmitting", run[w].at) EXCEPT !.boundaryAt = run[w].at])
  /\ IF MayMove(row, run[w].token, {"pending"}, "transmitting")
     THEN Goto(w, "send") /\ crossedAt' = now
     ELSE Finish(w) /\ crossedAt' = crossedAt
  /\ UNCHANGED <<clock, marker, events, provider, failedAt>>

RejectEnvelope(w) ==
  /\ At(w, "verify") /\ row.envelope = "invalid"
  /\ TryMove(run[w].token, {"pending"}, "failed", Moved(row, "failed", run[w].at))
  /\ Finish(w)
  /\ UNCHANGED <<clock, marker, events, provider, history>>

Send(w) ==
  /\ At(w, "send")
  /\ requests' = requests \cup {run[w].token}
  /\ Goto(w, "await")
  /\ UNCHANGED <<clock, row, marker, events, mail, refused, history>>

\* No recipient or no provider key: refused before anything leaves the process.
SendRefusedLocally(w) ==
  /\ At(w, "send")
  /\ refused' = refused \cup {run[w].token}
  /\ Goto(w, "refused")
  /\ UNCHANGED <<clock, row, marker, events, requests, mail, history>>

HearAccepted(w) ==
  /\ At(w, "await") /\ run[w].token \in MailIds
  /\ Goto(w, "marker")
  /\ UNCHANGED <<clock, row, marker, events, provider, history>>

HearRefused(w) ==
  /\ At(w, "await") /\ run[w].token \in refused
  /\ Goto(w, "refused")
  /\ UNCHANGED <<clock, row, marker, events, provider, history>>

\* Mutants of HearNothing: silence is taken for a refusal, or for an acceptance.
SilenceIsRefusal(w) ==
  /\ At(w, "await") /\ Goto(w, "refused")
  /\ UNCHANGED <<clock, row, marker, events, provider, history>>
SilenceIsAcceptance(w) ==
  /\ At(w, "await") /\ Goto(w, "marker")
  /\ UNCHANGED <<clock, row, marker, events, provider, history>>

\* Timeout, connection reset, 408, 409, 5xx or an unusable acceptance body,
\* whatever the provider did or will still do with the request.
HearNothing(w) ==
  /\ At(w, "await")
  /\ run' = [run EXCEPT ![w] = [Reconciling("after") EXCEPT !.at = run[w].at]]
  /\ UNCHANGED <<clock, row, marker, events, provider, history>>

\* Mutant of Fail: the refusal is dated by the start of the run.
FailAtRunTime(w) ==
  /\ At(w, "refused")
  /\ TryMove(run[w].token, {"transmitting"}, "failed", Moved(row, "failed", run[w].at))
  /\ failedAt' = IF row' = row THEN failedAt ELSE now
  /\ Finish(w)
  /\ UNCHANGED <<clock, marker, events, provider, crossedAt>>

\* The only transition that is given the current time, not the run's.
Fail(w) ==
  /\ At(w, "refused")
  /\ TryMove(run[w].token, {"transmitting"}, "failed", Moved(row, "failed", now))
  /\ failedAt' = IF row' = row THEN failedAt ELSE now
  /\ Finish(w)
  /\ UNCHANGED <<clock, marker, events, provider, crossedAt>>

WriteMarker(w) ==
  /\ At(w, "marker")
  /\ marker' \in {marker, run[w].token}
  /\ Goto(w, "complete")
  /\ UNCHANGED <<clock, row, events, provider, history>>

Complete(w) ==
  /\ At(w, "complete")
  /\ TryMove(run[w].token, {"transmitting"}, "completed",
             [Moved(row, "completed", run[w].at) EXCEPT !.messageId = run[w].token])
  /\ Goto(w, "record")
  /\ UNCHANGED <<clock, marker, events, provider, history>>

\* The completing transition throws and is swallowed.
CompleteThrows(w) ==
  /\ At(w, "complete") /\ Goto(w, "record")
  /\ UNCHANGED <<clock, row, marker, events, provider, history>>

Record(w) ==
  /\ At(w, "record")
  /\ localEvents' \in {localEvents, localEvents \cup {run[w].token}}
  /\ Finish(w)
  /\ UNCHANGED <<clock, row, marker, webhookEvents, provider, history>>

-----------------------------------------------------------------------------
(* The provider, the clock and the process.                                *)

Accept(t) ==
  /\ t \in requests
  /\ requests' = requests \ {t}
  /\ mail' = mail \cup {[id |-> t, at |-> now]}
  /\ UNCHANGED <<clock, row, marker, events, refused, run, history>>

Refuse(t) ==
  /\ t \in requests
  /\ requests' = requests \ {t}
  /\ refused' = refused \cup {t}
  /\ UNCHANGED <<clock, row, marker, events, mail, run, history>>

\* The same envelope reaches the provider from elsewhere.
Stray(s) ==
  /\ row.envelope = "valid" /\ s \notin MailIds
  /\ mail' = mail \cup {[id |-> s, at |-> now]}
  /\ UNCHANGED <<clock, row, marker, events, requests, refused, run, history>>

\* The process dies and restarts; with Upgrades the new build may no longer
\* verify the envelope the old one stored.
Crash ==
  /\ crashes < MaxCrashes
  /\ crashes' = crashes + 1
  /\ run' = [w \in Workers |-> Idle]
  /\ \/ row' = row
     \/ Upgrades /\ row.envelope = "valid" /\ row' = [row EXCEPT !.envelope = "invalid"]
  /\ UNCHANGED <<now, marker, events, provider, history>>

Tick ==
  /\ now < MaxTime /\ now' = now + 1
  /\ UNCHANGED <<crashes, row, marker, events, provider, run, history>>

Reconcile(w) ==
  \/ ReconcileNothing(w) \/ ReconcileCompleted(w) \/ ReconcileUnsettled(w)
  \/ ReadEvidence(w) \/ Lookup(w)
  \/ ResolveConflict(w) \/ ResolveNoProof(w) \/ ResolveProof(w) \/ Repair(w)
ClaimedRun(w) ==
  \/ Claim(w) \/ ClaimDenied(w) \/ Build(w) \/ Cross(w) \/ RejectEnvelope(w)
  \/ Send(w) \/ SendRefusedLocally(w)
  \/ HearAccepted(w) \/ HearRefused(w) \/ HearNothing(w)
  \/ Fail(w) \/ WriteMarker(w) \/ Complete(w) \/ Record(w)
Throws(w) == ReconcileThrows(w) \/ BuildThrows(w) \/ CompleteThrows(w)
Environment ==
  \/ \E t \in Tokens : Accept(t) \/ Refuse(t)
  \/ \E s \in Strays : Stray(s)
  \/ Crash \/ Tick

Next ==
  \/ \E w \in Workers : Begin(w) \/ Hook(w) \/ Reconcile(w) \/ ClaimedRun(w) \/ Throws(w)
  \/ Environment

Spec == Init /\ [][Next]_vars

-----------------------------------------------------------------------------
(* Safety.                                                                 *)

\* The provider accepts the date's e-mail at most once, whoever runs, retries,
\* stalls or crashes, and without the help of its idempotency keys.
AtMostOneAcceptance == \A m, n \in OwnMail : m = n

\* A row that some later run may claim and send from (absent, pending, failed)
\* means that the provider holds nothing of the date: no accepted message and
\* no request that may still be accepted.
ClaimableMeansUnsent ==
  row.status \in {"none", "pending", "failed"} => OwnMail = {} /\ requests = {}

\* Why it holds.  A worker that holds a claim has its own token, one past the
\* boundary has the row's, and only the row's attempt can be at the provider,
\* in one place at a time.
PastBoundary == {"send", "await", "refused", "marker", "complete", "record"}
Holding == {"build", "verify"} \cup PastBoundary
TokenInv ==
  /\ row.token = row.attempts
  /\ \A w \in Workers : run[w].pc \in Holding => run[w].token \in 1 .. row.attempts
  /\ \A v, w \in Workers :
       run[v].pc \in Holding /\ run[w].pc \in Holding /\ run[v].token = run[w].token => v = w
  /\ \A w \in Workers : run[w].pc \in PastBoundary =>
       run[w].token = row.token /\ row.status \in {"transmitting", "ambiguous", "completed"}
ProviderInv ==
  /\ requests \subseteq {row.token} /\ (\A m \in OwnMail : m.id = row.token)
  /\ refused \subseteq 0 .. row.attempts
  /\ refused \cap requests = {} /\ refused \cap MailIds = {} /\ requests \cap MailIds = {}
  /\ row.status = "pending" => row.token \notin refused
  /\ \A w \in Workers : run[w].pc = "send" => run[w].token \notin requests \cup MailIds \cup refused
  /\ \A w \in Workers : run[w].pc = "refused" => run[w].token \in refused
DeliveryInv == TokenInv /\ ProviderInv /\ ClaimableMeansUnsent /\ AtMostOneAcceptance

\* Whatever the marker or a completed row says was accepted was accepted.
RecordedMeansAccepted ==
  /\ marker \in MailIds \cup {NoId}
  /\ row.status = "completed" => row.messageId \in MailIds

\* Once the boundary was crossed, a row leaves transmitting or ambiguous for
\* failed (and so for another send) only when the provider definitively refused.
NoRetryWithoutRefusal ==
  [][row.status \in {"transmitting", "ambiguous"}
     => \/ row'.status \in {"transmitting", "ambiguous", "completed"}
        \/ row'.status = "failed" /\ row.token \in refused]_vars

\* A refused attempt is not followed by another before the retry delay has
\* passed since the refusal was recorded, however old the clock reading of the
\* run that was refused or of the run that retries.
RetryWaits ==
  [][row.status = "failed" /\ row'.status = "pending" /\ row.token \in refused
     => now >= failedAt + RetryDelay]_vars

\* The implementation of DailyBriefing: what is delivered is what the provider
\* accepted from us, and the record is the completed row.
Briefing == INSTANCE DailyBriefing WITH
  Messages <- Tokens, Foreign <- Strays, Nothing <- NoId,
  delivered <- {m.id : m \in OwnMail},
  recorded <- IF row.status = "completed" THEN row.messageId ELSE NoId

\* Every step of the runs, webhooks, provider and restarts is a step of
\* DailyBriefing or leaves what it speaks of alone: the record of the date is
\* written once, after the delivery, and with its id.
ImplementsBriefingSafety == Briefing!Safety

-----------------------------------------------------------------------------
(* Liveness, while the date is still today's.  The scheduler calls again   *)
(* as long as the date is not known to be sent (Begin), the event loop     *)
(* resumes every suspended call, time passes, and restarts end.  Storage,  *)
(* the provider's listing and the digest's sources may fail any number of  *)
(* times but not every time.                                               *)

Fairness ==
  /\ WF_vars(Tick)
  /\ \A w \in Workers :
       /\ SF_vars(Begin(w)) /\ WF_vars(Reconcile(w)) /\ WF_vars(ClaimedRun(w))
       /\ SF_vars(ReconcileUnsettled(w)) /\ SF_vars(ReadEvidence(w))
       /\ SF_vars(LookupReturns(w, Listed(w))) /\ SF_vars(ResolveProof(w))
       /\ SF_vars(Build(w))

FairSpec == Spec /\ Fairness

\* A delivered e-mail is eventually recorded as completed, although its reply,
\* its marker, its event or the completing transition may have been lost.
AcceptedIsRecorded == OwnMail # {} ~> row.status = "completed"

\* A claim whose owner died or threw before the boundary is taken over and
\* carried across it, unless the instance runs out of attempts or of the time
\* in which the claim goes stale.
BoundReached == row.attempts = MaxAttempts \/ row.updatedAt + Stale > MaxTime
PendingIsResolved == row.status = "pending" ~> row.status # "pending" \/ BoundReached

-----------------------------------------------------------------------------
(* A claim of the documentation that the code does not keep.               *)

\* docs/backend-setup.md:88 has a crossed boundary without proof remain
\* unresolved for the one-hour window; the code measures the window from the
\* start of the run that crossed it, before its digest was even built.
UnresolvedForWholeWindow ==
  [][row.status = "transmitting" /\ row'.status = "ambiguous" => now >= crossedAt + Window]_vars
=============================================================================
