# Verification of the Uckele Group server

The repository is one Node process (`server/`) with a React client. It screens businesses for
sale ("Deal Hunter"), keeps a CRM, sends e-mail through a provider (Resend) and through Gmail,
receives signed webhooks and replies, and keeps everything in one SQLite file on one volume
(`fly.toml` runs a single machine). This directory models the parts whose correctness depends on
the *order* of things: jobs and e-mails that must happen once although several callers, a slow
provider, lost replies and restarts are involved; files and rows that must agree; decisions that
must be made on facts that still hold.

Run a check with `tlc -workers 2 -config Office.cfg MCOffice.tla`, the proofs with
`tlapm SecureDocumentsProofs.tla` (a `...Proofs` module each). `PROJECT.json` lists the runs, the source lines behind every
definition, the hazards and the theorems.

## 1. The system

| component | state | operations | what makes it correct | module |
|---|---|---|---|---|
| Scheduled job rows (`storage/sqlite.js`) | `scheduled_job_runs`: status, claim token, attempts, `updated_at`, envelope, boundary and retry dates | `claimScheduledJob`, `transitionScheduledJob` | one owner at a time; a displaced owner no longer moves the row; only legal transitions | `ScheduledJobRow` |
| Daily e-mail (`dealHunterScheduler.js`, `delivery.js`) and its reconciliation (`dailyDealHunterReconciliation.js`) | the row and the marker file of a date | scheduler tick, button, cron route, webhook | the date's e-mail is accepted at most once; only real acceptances are recorded | `DailyDigest`, `DailyBriefing` |
| Pursue CIM transmission and replies (`pursueCimSender.js`, `pursueCimSqliteTransitions.js`, `pursueCimInbound.js`, `pursueCimReplyPoller.js`) | cadence, touches, prepared transmissions, authorizations, capability activations, suppression | claim, prepare, authorize, enter the provider seam, finalize, reconcile, release, withdraw, recover, apply a reply | each touch is mailed once; a reply or stop empties the queue; an unsure send is never retried; records are true | `CimTransmission` |
| Pursue CIM final gate (`pursueCimFinalGate.js`, `cimCampaignSafety.js`) | evidence revisions, authorizations | read the context, judge, issue, authorize | nothing is handed over on facts that changed meanwhile; an authorization is spent once | `FinalGate` |
| Pursue CIM enrollment (`pursueCimEnrollment.js`, `autoPursue.js`, `pursueCimPursueIntent.js`) | owner decisions, enrollments, campaigns | decide, pursue automatically, orchestrate, allocate, re-evaluate | a campaign belongs to a wanted deal, on facts that hold; one each; caps | `PursueEnrollment` |
| CIM requests (`dealHunter.js`) | opportunity and recipient claims, request rows | claim, send, record, reconcile, events | one first contact per opportunity, one system per opportunity, touch cap | `CimRequests` |
| Automatic and manual follow-ups of a request (`dealHunter.js`, `dealHunterManualFollowUps.js`) | the request's follow-up columns | list, claim, persist, hand over, finalize, reconcile; start, prepare, approve, stop | a touch is mailed once, counted once, and never after an answer | `FollowUpRunner`, `ManualFollowUps` |
| CRM follow-up outbox (`followUpEmail.js`) | `crm_email_outbox`, claims with leases | preview, confirm, claim, review, send, finish | one mail per confirmation, one unresolved command per record, daily cap | `FollowUpOutbox`, implementing `ConfirmedMail` |
| Secure documents (`submissions.js`, `documentVault.js`, `secureDocumentCleanupState.js`) | document rows, files, trash, cleanup jobs, sidecars | upload, SIM upload, delete, delete a record, reconcile | rows and files agree at rest, whatever failed | `SecureDocuments` |
| Admin authentication (`auth.js`), tours (`adminOnboarding.js`) | magic links, sessions, progress rows | request, consume, verify, revoke, clean up | a link opens one session, with the role of that moment | `AdminLinks`, `OnboardingProgress` |
| HTTP limits (`app.js`, `auth.js`, `analytics.js`) | rate events, upload slots | admit, count, release | a bucket admits no more than its limit; slots are those of open responses | `HttpLimits` |
| Backups (`backups.js`) | bundles, job rows, verification records | create, verify, publish, prune, restore | retention keeps what is needed; a restored database stands with its documents; records are about the files | `Backups`, `BackupRestore`, `BackupRecords` |
| Opportunity identity and merge (`cimOpportunityIdentity.js`, `repairs/canonicalOpportunityMerge.js`) | opportunities, aliases, exceptions, merges | resolve, decide, plan, apply | listings known by one alias resolve to one opportunity; a merge lasts and can be undone | `OpportunityIdentity`, `CanonicalMerge` |
| CRM supersession (`repairs/crmDuplicateConsolidation*.js`, triggers of `sqlite.js`) | supersession rows, records | handlers, pass, repair, reversal | a superseded record is left alone; all or nothing | `CrmSupersession` |

**Interaction.** The HTTP routes, interval timers and webhooks call the services concurrently on
one event loop: between two `await`s a call runs alone, at each `await` any other call may
run. Every storage operation is one immediate SQLite transaction, hence one step. Awaits on the SQLite
adapter only yield to microtasks, so code that awaits nothing but storage is also one step unless
the module says otherwise (the CRM outbox and the requests are split at every await, which also
covers the networked Supabase adapter). The provider and the
mailbox are outside: a request may be accepted, refused, answered late or never; a webhook may
come late, twice or before the reply. The process may exit at any `await` (a deploy) and
comes back with the database and the files, without any in-memory call. Command line tools
(backups, repairs, the CIM sender) are processes of their own beside the server.

The components meet in few places: the digest, the sheet sync and the backups share the job rows; the
sender, the gate, the requests and the enrollment share ownership, suppression and capacity; the follow-up
runner, the manual follow-ups and the webhooks write the same request row; identity, merge
and supersession change what a listing or record means to all of them. Where two components race
about the same row, one module holds both sides (`CimRequests` has the Pursue system beside it,
`FollowUpRunner` the webhooks, `CanonicalMerge` the passes of `OpportunityIdentity`).

**What is hard.** Interleavings of two holders of one job; crashes between a durable step and
its external effect; unknown outcomes of a send; decisions made with a row, a token or a clock
reading taken before an `await`; partial failure of the steps after an acceptance; leases that
expire while their owner is slow; rows and files that no transaction spans. `PROJECT.json` lists them under `hazards`, at their lines.

## 2. The modules

An operator marked "Mutant of" in a comment is a wrong version of the definition after it. It is
part of no specification; it documents which mistake a property catches.

An *actor* of a module is one call of the code (a request, a run, a pass, a command line
process). Its `pc` names the await it is suspended at, and what it read before is kept with it.
An action is the code between two awaits that another actor could tell apart, and a storage
operation is one transaction. Compare-and-set on `updated_at` is a `fresh` flag in the call that
every other write of the row clears, or a revision counter.

### 2.1 `ScheduledJobRow`, `DailyDigest`, `DailyBriefing`

A *worker* is one call of `runClaimedDailyDealHunterEmail` (scheduler tick, button, cron) or of
the webhook handler. `run[w].snap` is the row it read, `run[w].at` the clock reading it took when it started, `run[w].token` its claim
token (modelled by the attempt number: both are fresh with each claim).

- `Begin`/`Hook`, then `Reconcile*`, `ReadEvidence`, `LookupReturns`, `Resolve*`: the
  reconciliation of an unsettled row. The marker file and the events table are read in one step
  (`ReadEvidence`), because the reads are adjacent and only grow.
- `Claim`, `Build`, `Cross`, `Send`, then `HearAccepted`, `HearRefused` or `HearNothing`, then
  `WriteMarker`, `Complete`, `Record`, or `Fail`: the run itself. Every one of these may
  throw and then leaves the rest of the call undone.
- `Accept`, `Refuse`, `Stray`: the provider. It may accept a request long after the call timed
  out. `Stray` is a message with the same envelope that another installation sent. Idempotency
  keys are *not* assumed to work: the safety properties must follow from the row alone.
- `Crash` ends all calls at once. Requests under way stay under
  way. With `Upgrades` the new process may find a stored envelope it cannot read.

Abstractions: time is in abstract units (retry delay 1, stale claim 2, evidence window 2); the
five-minute tolerance of the provider lookup is `m.at <= run.at`; an invalid envelope dates its
retry by the row instead of the start of the run; a completed row is looked at only when it
names a message. The content of the digest, the due time and the change of date are left out,
so the liveness properties hold "while the date is still today's".

### 2.2 `CimTransmission`

One broker conversation with its campaigns. `touch[c]` is the latest touch of campaign `c`;
`tx[<<c, n>>]` is the `n`-th transmission prepared for it; `chain` is the capability chain that
Live sending records and withdraws; `reply` is the record of a Gmail reply; `gmail[x]` counts
what became of the provider calls of a transmission. A *worker* is one sender run; its
transactions are actions in the order of `pursueCimSender.js`:

1. `ReleaseUnentered`, `StartLookup` and its three ends: what earlier runs left behind;
2. `BeginSending`: the held replies and the chain are read, once per run;
3. per touch `Claim` (or `Renew`), `Prepare`, `Issue`, `ReadGateContext`, `Authorize`,
   `EnterSeam`, `Call`, then `HearAccepted`, `HearFailure`, `HearQuota` or `HearNothing`, the
   search in the Sent mail (`SearchFound`, `SearchFails`), and `Record` or `ReleaseRefused`.

Row versions and terminal revisions are counters in
the rows, and a run carries what it read in `run[w].snap`. `Refused` ends any step before the
call: pause, readiness, contact rule, suppression, send window and capacity can only refuse, so
they are covered by a refusal that is always possible. `Ended`, `RecordReply`, `ApplyReply`,
`SettleReply`, `ChainOff`, `FreePrepared` and `ChainOn` are the other writers. `Crash` ends one
run, since a sender run may also be a command line process; its call stays under way.

Abstractions: leases, authorization lifetimes and the ten-minute grace have no clock and may
lapse at any time, which allows more than the code does; so does a follow-up, which may become
due within the run that sent the touch before it. Lists are merged with the transaction that
rechecks each row. All links of the chain change in one step. Batching, the daily quota mark, an owner's review that reopens a conversation
and the re-preparation of a changed payload are left out. The final gate's own reply check reads inbound communications of the CRM, which the
Gmail poller does not write, so `Authorize` has no guard on `reply`.

### 2.3 `FinalGate`

The gate of 2.2 looked at from the evidence. A fact about a mail (sources, documents, owner,
suppression, ...) is a name: changing an `Own` fact advances the revision of its opportunity, a
`Shared` one the global revision (the triggers of `sqlite.js`), an `InPlace` one nothing,
because the transaction reads it itself. `ReadContext`, `Judge`, `Issue`, `Authorize` are the
awaits of `authorizePreparedCimTransmission`; `Change`, `Switch`, `Stop`, `Lapse`, `Release` and
`EndCampaign` go on in between. The evidence of a member is read in one step. Batching
is off (one member per mail); controlled-mailbox profiles and payload versions are left out.

### 2.4 `PursueEnrollment`

The facts of a deal are its source revision, its contact, a reason to stop, its CRM link, the
contact rule and an outage; the row version of an enrollment is its state. The activation chain
is left to the standing rule, which has the same shape; the warm-up, the criteria and
fingerprints of automatic Pursue, score eligibility and restoring a Pass are left out. `Replayed` is the decision whose key is there already:
it is answered as it was, before anything is refused. What the
model makes visible: a crash between the recording of a Pursue and its orchestration
leaves an enrollment `queued` that nothing revisits; a crash in an automatic run leaves its key
in progress for the day; a second Pursue after Watch never gets a campaign.

### 2.5 `CimRequests`

A call is one of `sendCimRequestForScoredDeal` (approved proposal, signed queue entry, corrected
retry). `Opps`, `Rcpts` and `Kinds` say which; `Stops` what may interfere (suppression, archive,
pause, the Pursue system). The provider remembers idempotency keys. The cap's window does not
pass. Dismissal, readiness at the last check, overrides, Stage-2 authorization and the CRM link are
left out. Known weakness, kept in the model: a call refused by the in-memory deal lock deletes
the lock of the call that holds it (`acquireLock`); the durable claims still protect (that they do is proved). The touch cap is checked with
`Reports` {sent, failed} and no restart: it counts rows, and a mail whose outcome is unknown, or whose acceptance a crash keeps from its row, is not counted.

### 2.6 `ManualFollowUps`, `FollowUpRunner`

The two ways a request is followed up. Manual: blockers are nondeterministic; `over` stands for
reply, materials, pass or suppression stored before the row is updated; the due time is none,
later or now; the check of the conversation's owner in the finalization is left out. Automatic:
a run lists its rows and handles *copies*, of which some updates write back whole; no run lasts
until the next is due, calls are shorter than the 30 minutes after which a claim is taken over;
the window, readiness and CRM matching are left out.

### 2.7 `FollowUpOutbox`, `ConfirmedMail`

A request is one call of confirm or of the runner; its `pc` is the await it is at. `Preview` and
`Create` are the two transactions between which the record may change, `Claim`, `Review`,
`Cancel`, `Call`, `Finish` and `Record` those of `processCrmEmailOutbox`. A command is named by the
request that created it, and a token is the confirmation. `ConfirmedMail` is what an administrator may rely
on, with neither requests nor claims nor rows: a confirmation is delivered once, decided once, accepted only if
delivered, and accepted and unsure ones stay below a limit. Under `ImplementsConfirmedMail` the delivered
confirmations are the tokens of `mailed`, the decided ones the tokens of commands in a final state; previews,
claims, lapses, retries and restarts stutter.

One address per record; recipient and touch caps are one `Cap`; the provider remembers
idempotency keys within their day; claims lapse under a running call only with `SlowCalls`;
lifting a suppression and the send window are left out. `StopIsHeard` is about stops older than the
claim. One that comes between the review and the call is not heard by the code either: the two are different awaits, and the provider is called on the review.

### 2.8 `SecureDocuments`

Rows live in the database, files on the volume. Every operation first writes a cleanup job (a row, or a
sidecar file when that fails). The rows of an upload come with an activity whose id is a primary key,
so a commit that is applied late and one that is tried again make one (`landed`). Faults hit any database call or rename (`MaxFaults`); with
`LostReplies` a commit may be applied without an answer, or later; `WindowPasses` says that the
reconciler's window is longer than a call. The instances choose which operations meet, because all
at once are beyond TLC.

### 2.9 `AdminLinks`, `OnboardingProgress`, `HttpLimits`

Links are stored before their mail is sent and consumed before their session is stored; the
configuration of allowed addresses changes at a restart. The progress of a tour is merged in one statement. A
request passes several buckets; storage may fail between counting and adding.

### 2.10 `Backups`, `BackupRestore`, `BackupRecords`

The scheduler and the command line are the only concurrent makers of bundles. The checks
of a manifest are one verdict, and the database of a bundle is not damaged in the moment between a retention's look at it and its removals. Reuse of a process id could keep a leftover marker "active"
and is left out, as is the read-only status page. The bundles are two parts of `MCOffice` (with and
without documents), the restore and the verification records two more, and what is proved of them applies there. A restore puts back what it
moved when an operation fails; if one fails on the way back too, the restored database can be left without
its documents, which `TheyGoTogether` allows (nothing is lost: the old files are beside it). Times of `BackupRecords` are
ticks, and a file system rounds mtimes down to `Granule` ticks. Retention counts degraded
bundles, so a lasting vault mismatch pushes out the last fully valid one: `OneRemains` is about
a good bundle being left, not the best.

### 2.11 `OpportunityIdentity`, `CanonicalMerge`

How alike two listings are is a constant. A merge's checksum covers the state it was planned from, so it *is*
that state; dependents are one count; "outreach" is outreach claimed while unpaused. The merge
runs as a process of its own. A look at the pause and the hand-over that follows are one step of `Send`, and `Comp` reads the list there is:
the code also takes a list of candidates its caller has loaded (`cimOpportunityIdentity.js:501`), which is older, as is the list of a pass that waits between its comparison and its write.

### 2.12 `CrmSupersession`

The listing evidence is the descriptor's pairs; the reference inventory is left out. The reversal
has guards and no caller. An apply that would converge a live campaign of a loser touches protected tables and is
refused by the postcondition. `settle` stands for closing a recommendation or a mail.

### 2.13 The sums

TLC runs are few and each is large, so components are run beside each other: in `MCOffice`, `MCPipeline`
and `MCServicesLive` a behaviour belongs to one `part`, chosen at the start; a part is an
`INSTANCE` of a component with the constants that matter for one question, and since a behaviour is of one part, the parts share their
variables (`x1`, `x2`, ...). A property of a sum is a conjunction "in this part, that property
of the component". `MCOffice` instantiates the modules that hold the proofs, so that their theorems
can be cited for its parts; `AccessProofs` holds those of the links and, through its instances `Http` and `Final`, those of the limits and of the final gate.
`MCFollowUpOutbox` is one component alone, whose behaviours are divided by the trouble they meet.

## 3. What the runs show

| run | question | bounds |
|---|---|---|
| `digest_safety` | Is the e-mail of a date accepted at most once, are records true, is a retry preceded by a refusal and the delay? | 2 calls, 3 attempts, 3 clock units, 1 restart |
| `digest_strays` | Does the detailed run implement `DailyBriefing` when another system sends the same envelope and a restart brings another envelope format? | 2 calls, 2 attempts, 1 clock unit, 1 restart |
| `digest_live` | Does an accepted e-mail end up recorded, and an abandoned claim get taken over? | 1 call at a time, 3 attempts, 3 clock units, 1 restart |
| `digest_window` | *Violated:* is the evidence window counted from the crossing of the boundary, as documented? | 1 attempt |
| `cim_senders` | With two overlapping runs: is a transmission called once, a touch mailed once, and is the record of a send never false? | 1 campaign, 2 runs, 2 transmissions, 2 activations, 1 crash |
| `cim_queues` | Does the sequence advance on acceptance only, stop at an unsure send, and stay ended? Does a reply or stop empty the queue of both campaigns of a conversation? | 2 campaigns: one sends a touch and its follow-up (3 transmissions, 1 crash), or both send beside each other (first touch, 3 claims, no crash) |
| `cim_live` | Is every pending send settled, and does every reply take effect unless the conversation is ambiguous? | 2 touches, 2 transmissions, 1 crash |
| `cim_answered` | *Violated:* is a broker whose reply is recorded never sent another follow-up? | 2 touches |
| `follow_ups` | Is a confirmation mailed once, is an acceptance real, do stops and caps hold, and does the outbox implement `ConfirmedMail`, though claims lapse under slow calls? | 4 requests for 3 confirmations on 2 records, cap 2; per behaviour one restart, one change of a record or one communication that is not updated |
| `office` | Files and rows agree; links, authorizations and limits are used once; a copy remains; nothing is done on stale facts (vault, sign-in, tour, limits, final gate, backups, restore, records of verifications) | 14 parts: 2 actors each, 1–2 faults, 1 crash, 2 changes of facts |
| `pipeline` | One mail, enrollment, owner each; what is written down is so; decisions are heard; nothing is undone (a confirmed follow-up of unknown outcome, CIM contacts, systems and touches, manual and automatic follow-ups, pursuits, identity, merge, supersession) | 18 parts: 2 actors each, 1 restart or fault |
| `services_live` | What the services owe ends (cleanup jobs, sessions, commands, requests, follow-ups, pursuits, daily backups) | 9 parts, 1 crash or fault each |

**Why the bounds are enough.** Every hazard here is a race of two parties about one row: a
third call adds no new kind of interleaving because all but one of the holders are displaced. The fourth request of `follow_ups` is there for the cap:
with a cap of two a third mail needs three confirmations, one of them sent twice.
Three attempts are the first sent, its retry, and one more that must not happen. Three clock units reach
a stale claim, a lapsed window and an elapsed delay one after another. `MaxVersion` 6 lets a touch be
claimed, prepared, authorized, released and claimed again. Two transmissions are the first generation and
its retry; three add the follow-up. Faults and crashes come once or twice per behaviour: every place
they can hit is explored, and a second one hits the recovery of the first (vault). Where a part
leaves out an operation, another part of the same component has it. `CHECK_DEADLOCK FALSE` is set where the system may stop: a
conversation that was answered, a command that was settled, a tour that is complete has nothing left to do.

**Fairness.** Timers keep firing and every started call continues (weak fairness of each
run's steps; strong fairness of `Begin`, since a call may be refused by another in the
meantime). Storage, provider listing and digest sources may fail any number of times but not
every time (strong fairness of the step that succeeds). The sender keeps
being started and finds itself ready (strong fairness of `Recover` and `Resolve`: it looks every
stuck send up again); the poller keeps applying what it recorded. Nothing is assumed of the provider: it need never answer, and messages may stay
under way. `PendingIsResolved` excuses instances that have run out of attempts or of clock. In `services_live` the
hourly reconciliation, the owner who presses the button again, the re-evaluation after each sync
and the daily tick come again and again (strong fairness where another may hold the row); a run
of the follow-ups is not skipped by a closed window or held back by a pause, which the owner may do
for ever.

## 4. Divergences from the documentation

Two are findings with a run of their own, because each needs a counterexample to believe:
`digest_window` and `cim_answered`. The others are written as properties of the modules that the
model violates; each is reproduced by checking the named property on the instance described in
its comment.

| property | module | what happens |
|---|---|---|
| `UnresolvedForWholeWindow` | `DailyDigest` | `providerBoundaryAt` is the start of the run, so the one-hour window of `docs/backend-setup.md:88` is shortened by the time the digest took to build |
| `AnsweredGetsNoFollowUp` | `CimTransmission` | a reply recorded after a run has read the held replies, and not applied yet, does not stop that run's follow-up (`pursueCimReplyPoller.js:20`) |
| `HeldRepliesAreApplied` | `CimTransmission` | a reply recorded while its conversation is provider-ambiguous is never applied: only pending transmissions are reconciled (`pursueCimSender.js:340`); a suppression is still written at once for a stop word |
| `DeletionRemovesFiles` | `SecureDocuments` | a document stored by an upload that is under way while its record is deleted can stay in the vault, with no row and no record (`test/documentVault.test.js:324` says the files go) |
| `CancelledIsUnsent`, `CadenceHolds` | `FollowUpOutbox` | a command cancelled by a check before transmission may have been handed over by a slow earlier claimer (`followUpEmail.js:592`, `:609`); a record can get a second mail before the cadence of the first elapsed (`test/followUpEmail.test.js:694`) |
| `ClaimKept`, `CapHolds` with ambiguous outcomes | `CimRequests` | the claim behind a mailed contact can be released by a late call (`dealHunter.js:10142`; the comment at `sqlite.js:15106`); with ambiguous outcomes, or a crash between an acceptance and its row, the touch cap is exceeded (`docs/backend-setup.md:145`) |
| `ApprovedIsSent` | `ManualFollowUps` | an approved second follow-up is refused for ever (`dealHunter.js:6902`; `docs/superpowers/specs/2026-09-01-human-approved-follow-up-workflow-v1-design.md:13`) |
| `UnsureIsLeftAlone` | `FollowUpRunner` | an ambiguous answer followed by a crash is handed over again after 30 minutes (`dealHunter.js:7749`) |
| `MergeResolves` | `CanonicalMerge` | a pass that read a conflict before the merge reopens the merged exception (`upsertDealHunterIdentityException` overwrites the status) |

## 5. What is proved

Theorems hold for every value of the constants that satisfies the module's assumption: any number
of workers, calls, uploads, reconcilers, documents, campaigns, touches, requests, confirmations, bundles, listings,
records, deals, and any bound.

| theorem | statement |
|---|---|
| `DailyDigestProofs!TypeCorrect`, `DeliveryInvariant` | type correctness and the inductive invariant of the digest |
| `AcceptedOnce`, `ClaimsAreSafe` | at most one acceptance of a date; a claimable row has nothing accepted or under way |
| `RecordsAreTrue`, `RetryNeedsRefusal` | marker and completed row name accepted messages; a crossed row fails only after a refusal |
| `BriefingImplemented` | `Spec => Briefing!Safety`: the detailed run implements the abstract briefing |
| `CimTransmissionProofs!TypeCorrect` | type correctness of conversation, campaigns, runs and mailbox |
| `CalledOnce`, `MailedOnce` | a transmission is handed over once, a touch has one accepted mail |
| `RecordsTrue` | accepted means accepted, not sent means not called, the touch agrees with its transmissions |
| `FollowUpsInOrder`, `UnsureLast` | a touch follows the acceptance of the one before; nothing follows an unsure send |
| `StopsReach`, `UnsureHolds` | a stop leaves no pending work of any campaign; an unsure send holds the whole conversation |
| `EndsStay` | no step revives what ended |
| `SecureDocumentsProofs!TypeCorrect` | type correctness of the vault |
| `TrashAlwaysCovered`, `DocumentsAlwaysKept` | a file in the trash has an unfinished job; a document with a row has its file |
| `UploadsLeaveNoOrphans` | uploads alone, when at rest, leave no file without a row |
| `RevokedForGood` | no step reopens a revoked link |
| `FollowUpOutboxProofs!OutboxTypes` | type correctness of the outbox |
| `OneMail`, `OneOpenCommand` | a confirmation is mailed at most once; a record has at most one unresolved command |
| `AcceptedMailIsSent`, `StopsAreHeard`, `CapIsKept` | what is recorded as accepted has left; nothing is handed over under a claim taken after a suppression or the closing of the record; no more commands than the cap are accepted or unsure |
| `UnsureIsFinal` | when no call outlasts its claim, what is unsure is never handed over again |
| `OutboxKeepsPromise` | `Spec => ImplementsConfirmedMail`: the outbox implements `ConfirmedMail` |
| `RequestsTypeCorrect`, `RecordIsTrueAlways`, `CompletedStaysAlways` | type correctness of the first contact; a row "sent" or with a delivery issue has an accepted e-mail; what is complete stays so |
| `OneFirstContactAlways`, `OneSystemAlways` | of one opportunity no two first e-mails are out at once; none was accepted while the Pursue system's is on record |
| `ManualTypeCorrect`, `OneMailAlways`, `CountIsAlwaysTrue`, `AlwaysGoesOn`, `NeverResumesAlways` | a manual follow-up is handed over at most once more than it was refused; the count is of accepted ones; a sequence that goes on is due, one that ended stays ended |
| `RunnerTypeCorrect`, `RowsCountTruly`, `AnsweredIsQuietAlways` | an automatic follow-up that is counted was taken; of an answered row only the run that held its lock then hands one over |
| `RunnerNeverResumes`, `OldestAlwaysFirst` | where every row is linked: a stopped sequence gets no due time; a younger request waits for the older |
| `OpportunityProofs!IdentityTypeCorrect`, `DealsAreAlwaysFound`, `ListingsStayTogether`, `DecisionsAgree` | current opportunities own an alias and aliases lead to current ones; a resolved listing stays together; its decision and its aliases agree |
| `MergeTypeCorrect`, `MergedForGood`, `MergeIsReversible`, `MergedDealsAreFound` | a merge lasts, its manifest's backup is what it found, and the two properties before hold around it |
| `SupersessionTypeCorrect`, `SurvivorsStandAlways`, `AllOrNothingAlways`, `RepairIsReversible`, `LeftAloneAlways` | the audit finds nothing; all pairs with one receipt or none; the backup named is what was repaired and reviewed; a superseded record is left alone |
| `EnrollmentTypeCorrect`, `CampaignIsAlwaysWanted`, `OneEnrollmentAlways`, `AlwaysAllocatedOnFacts` | a pending campaign belongs to the last decision, a Pursue, was allocated on facts that held, and is of the one enrollment |
| `AutoIsAlwaysFirst`, `CapAlwaysHolds`, `OffIsAlwaysHeard` | automatic decisions are first ones, stay within the day's cap, and stop when switched off, but for one |
| `BackupsProofs!TypeCorrect`, `WorkIsAlwaysKept` | type correctness of the backups; the working directory of a run is its own |
| `NewestAreAlwaysKept`, `OneAlwaysRemains` | no retention removes one of the newest sound bundles; once a backup was made there is one to restore |
| `RestoreTypeCorrect`, `RestoredTogether`, `RestoreLosesNothing` | a restored database stands with its documents, a failed restore leaves what was there; nothing of the old is ever lost |
| `RecordsTypeCorrect`, `TrustedRecordsAreTrue`, `OneVerifiesAtATime` | a record that is trusted tells how the bundle is; one verification at a time, one waiting for each find |
| `AccessProofs!LimitsTypeCorrect`, `SlotsAreCounted`, `LimitsAreKept` | slots are those of open responses; no bucket exceeds its limit |
| `AccessProofs!TypeCorrect`, `UsedByOne`, `WithdrawnOpensNothing`, `RoleIsGranted` | one session per link, none of a withdrawn one, with a role its address has then |
| `GateTypeCorrect`, `AuthorizationsAreSpentOnce`, `UnknownIsSaidOnce`, `HandedOverOnFactsAlways` | an authorization is spent once, and only on facts, rules and activations that hold |
| `MCOfficeProofs!TypeCorrect`, `VaultAlwaysWhole`, `UsedOnceAlways`, `LimitsAlwaysHold`, `CopiesAlwaysRemain`, `NothingIsEverStale` | every property of the run `office`, from the theorems of its components |

**The digest.** "At most one acceptance" is not inductive: nothing in it stops a displaced call from
sending. `DeliveryInv` adds `TokenInv` and `ProviderInv`. `TokenInv`: a call past its
claim holds a token of its own, no larger than the row's; past the boundary it is the row's token,
and the row is transmitting, ambiguous or completed. `ProviderInv`: what is under way or accepted
carries the row's token, and the sets of requests, acceptances and refusals are disjoint. A claim
mints a new token only from a claimable row, which by `ClaimableMeansUnsent` has nothing under way or accepted;
the durable crossing needs the row's token, so a displaced call never reaches the provider. The refinement follows from `DeliveryInv`
and truth of the records: `Accept` maps to `Deliver`, completing transitions to `Record`, all else stutters.

**The sender.** `CimInv` joins `TypeInv`, `QueueInv` (a pending touch has its last transmission
unsettled, the earlier touches accepted, and no unsure send beside it), `ClaimInv` (a run that holds a claim agrees with the
touch's version, or will find that it does not) and `CallInv` (what Gmail knows of a transmission
against its record). A displaced run is harmless because every transaction compares the
version it read; a call is made only after the seam was entered, which one run does once.

**The vault.** That a file in the trash has an unfinished job is not inductive, since a call and a
reconciler may work on the same files. `VaultInv` says, per operation `o`, what its call works on (`CallInv`),
who may have its job (`JobInv`: while `o` is `Shielded`, moving files by itself, its job is registered,
unsettled and not finished; a reconciler only ever has a job of a `Free` operation, whose call has decided),
which files it holds (`HeldInv`: each with an unfinished job, and, towards the end of a call, with the files still to be handled or a
failure noted), where its trash can be filled (`TrashInv`), and that an upload which may still be recorded has its files
(`FreshInv`). `RunInv` says the same of a reconciliation run. The proof looks at a step only where it acts: by
`StepKeeps`, a step that stays within the `Frame` of one operation keeps everything about the others, because documents of one
operation are never those another upload may still bring (`Apart`). `NoOrphans` is proved for
uploads alone (`Plain`): with deletions beside them TLC shows that it fails, when an answer is lost and the process
restarts while the reconciler puts back a file whose row goes meanwhile.

**The outbox.** "One mail" needs to know what a request works on: `OutboxOnce` says that it handles an existing
command of its own token (`HandleTheirOwn`) and that a token has one command (`OneCommand`), since `Create` looks the
token up in the transaction that inserts. Claims are of no use here, since they lapse under a slow call; that two calls for one command
are one mail is the provider's part (its idempotency key). `OutboxTrue` adds that an answer "sent" a request carries is of a mail that left;
`OutboxHears` that a stop that stood at a claim still stands at the review. `OutboxOpen`: while a record has the version that was previewed
it has no open command, so the compare in `Create` never makes a second. The cap is not inductive as a count
of final states: `WithinCap` bounds `Committed`, the settled commands and those that a request
which holds them has reviewed and may still settle. Only a review enlarges this set, and a review has counted a set that
contains it. `UnsureIsLast` adds `ClaimsKept`. For the refinement each step is shown to
be a step of `ConfirmedMail` or a stutter (`Call` to `Deliver`, `Finish` to `Accept`, `LeaveUnsure` or `Drop`, `Cancel` to `Drop`),
a delivered or decided token being identified with its one command.

**The first contact.** `ContactInv` joins the types with `Honest` (a row, a message or a call that speaks of an acceptance or a bounce
knows of one: mail that is out stays out or bounces, so late knowledge is still true), `Alone` (calls inside the critical section
hold their recipients' locks and have different recipients), `Owned` (a request whose mail is out owns the claim of its opportunity,
and so does a call from its claim to its hand-over, unless the request bounced) and `Apart` (once the Pursue system has mailed, no call of that opportunity is
past its look at the ownership). The in-memory lock of the deal takes no part, as the code deletes it too early; that of the recipient does: a claim is
given up only by the one call of a request without a row. `Owned` gives one contact, since a claim has one owner.

**The manual follow-ups.** That a number is handed over once more than it was refused follows from `Tally`, which counts for a call at each
of its awaits, and from `Opened`: a number handed over and not refused is counted, or the row is ambiguous, or it is claimed; so no call can claim it again.

**The automatic follow-ups.** Runs write rows they read long before, so `RunnerInv` speaks of every copy: each counts only what was taken (`RemCounted`), and
copies of a due row still to be handled count what the row counts (`Matched`). `Heeds` is the answer that came in between. The two theorems about
linked rows need `LinkedInv`: no row and no copy is both stopped and due, a run that holds a claim finds the row due, and the older rows have ended.

**The identity and the merge.** `SureOfOne`: a listing somebody is sure of, or whose doubt is resolved, has all its aliases at one opportunity.
No linking moves an alias that has an owner (`LinkedOnly`), and the merge moves all of a pair together. Which opportunity it is
(`SureOfTheirs`) holds only without a merge, so it is proved of `IdentitySpec` alone. For the merge, `BundlesTell`: a backup made in the pause of this moment
tells what was sent so far; a call merges from one it has verified in that pause (`VerifiedFirst`).

**The supersession.** `Upright` is what the triggers keep, more than the audit looks for: the relation's records exist, the survivor is the primary of its
opportunity, and nothing leads to the loser. `Verified`: who has verified the file that is there knows what it holds, which is how a receipt's
backup is the database the repair changed.

**The enrollment.** `RecordFits`: only the last decision has a live enrollment, and it is a Pursue; a campaign is that of its enrollment; an automatic
decision is the first. `WorkFits` carries that through an orchestration: who is at work has an enrollment, which may be superseded meanwhile, and each
write compares. The cap is a cardinality: a recording adds one to a set that was counted in the same transaction, and no set ever
grows otherwise (`AutoStays`).

**The backups.** Bundles are ordered by their place (`seq`), and a later place is never of an earlier day (`InOrder`).
Retention reads a list and then removes one bundle at a time, while another run does the same, so what counted for keeping
a bundle may go before it. `ListsAreJustified` therefore speaks of each removal still to come: a sound bundle on a list is
too old or has `Keep` sound newer ones *now*. When a bundle that counted goes, it had `Keep` newer ones
of its own, and those are newer than the listed one too. `OneIsNewest` is the same argument
for existence, where it must cover bundles that do not verify: a run past its rename knows of a published bundle at least as new
as its own, and each bundle it will remove has a newer one. `ListsAreOver` keeps the
working directories of runs off all lists.

**The restore.** `TheyGoTogether` is about a call that has answered, so the invariant says where things are at every step on the way
there (`PutInPlace`) and on the way back (`PutBack`, which counts on nothing else failing), and that what was moved aside is
not in its place as well (`AsideIsAway`). That nothing is lost needs only the last, for any number of faults.

**The records of verifications.** The record is written long after the bundle was fingerprinted, and files may be written in between with an
mtime that does not tell. The invariant is about calm finds (`Calm`): the files have the mtimes that were found, and all are
older than the reading by more than the margin. Who writes a file leaves an mtime within a granule of the clock (`GranuleRounds`), and the
clock is past every reading (`TimesPassed`), so a written file makes every find uncalm. While a find is calm, a pass knows how the
files it read *are* (`PassTells`), and so does the record (`RecordTells`). `Racy` rejects what is not calm. The
proof is where `Margin >= Granule` is needed.

**Links, limits, gate.** A session names the link it came from and holds it alone; a limit counts
requests that were admitted, one step being the window between count and add; an authorization that may be used
is the latest of its mail's present form, and what it was judged on is still at the revisions it carries.

**The sum.** A behaviour of `MCOffice` stays in its part (`PartStays`), and is then a behaviour of that
component with that part's constants (`UploadsPart`, `GatePart`, ...), so the component's theorem applies. The tour, whose
merge is small, is proved there (`TourStep`).

*Assumptions.* `DigestAssumption`: delays are natural numbers, the first two positive, and foreign
ids are not attempt numbers. `LimitsAssumption`: requests are finite (a bucket is counted). `LinksAssumption`:
"none" is no address, link or visit. `OutboxAssumption`: requests are finite (the cap is
a count), the cap is positive. `BackupsAssumption`: a run is scheduled or by hand and not both, runs are finite, `Keep` is
positive. `RestoreAssumption`: bounds are natural numbers. `RecordsAssumption`: mtimes have a step, the margin is at least as long
(`racyTimestampMarginMs`, two seconds), and the clock reaches the moment at which `Init` begins. `UnsureIsFinal` has one more hypothesis, `~SlowCalls`: a call to the provider ends before the five minutes of its claim are over
(`followUpEmail.js`); without it TLC finds an earlier, slow claimer that calls after a later one recorded the outcome as unsure. `FinalGateAssumption`,
`CimAssumption`: bounds are natural numbers. `CimRequestsAssumption`: the cap is positive, an opportunity is no address. `ManualAssumption`, `RunnerAssumption`: at least one
follow-up, and at least one row, named by its age. `IdentityAssumption`: a listing has an alias, and opportunities known before have no alias in common. `MergeAssumption`: `Shared` is a listing
with aliases of both opportunities and of no other (the conflict the merge is planned from, `sqlite.js:2860`). `SupersessionAssumption`: no survivor is a loser, each loser is of one pair
(the checks of the plan). `EnrollmentAssumption`: owners, runs and re-evaluations are different processes, and the cap is at least one. `VaultAssumption`: calls are distinct, and an upload's document ids are fresh, as
`crypto.randomUUID` makes them (`documentVault.js`). TLC evaluates each on the runs.

*What the proofs changed.* The assumptions about `Shared` and about `Rows` were missing. An automatic decision first replays its own key (`Replayed`), which the guard `Refused` left out. A restore with two failing operations breaks what `TheyGoTogether` first said, so it now says for how many it holds. Two
more attempts failed because the model was wrong, not the invariant: transmissions of a touch are
prepared by the touch's id, so a run whose snapshot is of an earlier touch prepares nothing for a later one
(`pursueCimSqliteTransitions.js:2151`); and a finalization of an upload can be applied only once
(`sqlite.js:8459`), where the model let a late commit and its retry both count.

**Only model-checked.** All liveness, since ENABLED and fairness are out of the prover's reach; `RetryWaits` of the digest; the properties
of the run `pipeline` as they stand, for its components are proved one by one and not yet joined as `office` is: the theorems above give what they say of every part except the
touch cap of the recipients; `NoOrphans` with deletions; `DeletionRemovesFiles` and the other properties of section 4, which the code violates.

## 6. Plan

1. `MCPipelineProofs`: the touch cap of a recipient as a theorem of `CimRequests` where no outcome is unknown and the process does not end, and then
   the properties of `pipeline` from the theorems of its components, as for `office`.
2. `FollowUpCapacity`: the reservations of the sender's follow-ups and their caps.
3. `SourceFreshness`: snapshot generations and the scores readers combine with them.
4. Inbound communications, CIM stage 2, follow-up recommendations.

## 7. Not modelled

Triage and scoring are large pure functions of text. The remaining identity
repairs are one-off operator tools. The Supabase adapter is a second implementation that
production does not run. HTTP routing, configuration and the web client hold no durable state;
the calls they make concurrently appear as the starting actions of the modules.
