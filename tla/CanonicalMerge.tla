---------------------------- MODULE CanonicalMerge ----------------------------
(***************************************************************************)
(* The reviewed merge of two opportunities that share a listing            *)
(* (runCanonicalOpportunityMergeRepair, a process of its own beside the    *)
(* server): a dry run plans it from a stable copy of the database, a       *)
(* backup is made while outreach is paused, and the apply, which names the *)
(* plan's checksum and the backup, moves every alias of the superseded     *)
(* opportunity to the survivor in one transaction - if the state is still  *)
(* the one that was reviewed and the backup holds it.                      *)
(*                                                                         *)
(* A plan's checksum covers the state it was made from, so it is that      *)
(* state; the files of a backup, its schema and the wording of the         *)
(* approval are left out.  Meanwhile the server resolves listings and      *)
(* decides exceptions (OpportunityIdentity), starts outreach while it is   *)
(* not paused, and the authority to send may be switched on.               *)
(***************************************************************************)
EXTENDS OpportunityIdentity

CONSTANTS
  Survivor, Loser,   \* the approved pair
  Shared,            \* the listing both have aliases of: its exception is approved
  Applies,           \* calls of the repair that apply
  MaxBackups,        \* bound on the backups
  MaxPauses,         \* bound on the changes of the pause
  MaxSends           \* bound on the outreach that is started

MergeAssumption ==
  /\ IdentityAssumption
  /\ {Survivor, Loser} \subseteq DOMAIN Known /\ Survivor # Loser
  /\ Shared \in Listings
  /\ \A o \in {Survivor, Loser} : AliasesOf[Shared] \cap AliasesOf[Known[o]] # {}
  /\ AliasesOf[Shared] \subseteq AliasesOf[Known[Survivor]] \cup AliasesOf[Known[Loser]]
  /\ {MaxBackups, MaxPauses, MaxSends} \subseteq Nat

VARIABLES
  outreach,   \* [paused, epoch, sent, pair]: the pause and what was started since
  granting,   \* an authority that can send mail is on
  plan,       \* the reviewed plan, or None
  backups,    \* what the verified bundles hold
  manifest,   \* the repair's manifest, or None
  apply       \* the calls that apply

mergeVars == <<outreach, granting, plan, backups, manifest, apply>>
vars == <<identityVars, mergeVars>>

NotStarted == [pc |-> "idle", plan |-> None, backup |-> None, epoch |-> 0]

MergeInit ==
  /\ IdentityInit
  /\ outreach = [paused |-> FALSE, epoch |-> 0, sent |-> 0, pair |-> 0]
  /\ granting = FALSE
  /\ plan = None
  /\ backups = {}
  /\ manifest = None
  /\ apply = [c \in Applies |-> NotStarted]

-----------------------------------------------------------------------------
(* The plan                                                                 *)

\* Requests, campaigns, CRM records and mail that refer to the pair
Dependents == outreach.pair
\* What a plan is made from, and its checksum covers
Pair == [aliases |-> [a \in {b \in Aliases : owner[b] \in {Survivor, Loser}} |-> owner[a]],
         survivor |-> opp[Survivor], loser |-> opp[Loser],
         doubt |-> doubt[Shared], dependents |-> Dependents]

\* The approval is checked in: which aliases the two own
Approved == [a \in AliasesOf[Known[Survivor]] \cup AliasesOf[Known[Loser]] |->
               IF a \in AliasesOf[Known[Survivor]] THEN Survivor ELSE Loser]

DealsAsApproved == Active(Survivor) /\ Active(Loser)
ExceptionAsApproved == doubt[Shared].state = "open"
AliasesAsApproved == Pair.aliases = Approved
DependentsAsApproved == Dependents = 0
NothingGrants == ~granting
NoManifest == manifest = None

(* The plan is made, or refused                                             *)
Plannable ==
  /\ DealsAsApproved
  /\ ExceptionAsApproved
  /\ AliasesAsApproved
  /\ DependentsAsApproved
  /\ NothingGrants
  /\ NoManifest

\* Planned from a copy of the database, taken when no write moved its files
DryRun ==
  /\ Plannable
  /\ plan' = Pair
  /\ UNCHANGED <<identityVars, outreach, granting, backups, manifest, apply>>

\* A verified bundle: a copy of the database
Backup ==
  /\ Cardinality(backups) < MaxBackups
  /\ backups' = backups \cup
       {[plannable |-> Plannable, pair |-> Pair, paused |-> outreach.paused,
         epoch |-> outreach.epoch, sent |-> outreach.sent]}
  /\ UNCHANGED <<identityVars, outreach, granting, plan, manifest, apply>>

-----------------------------------------------------------------------------
(* The apply                                                                *)

\* A verified bundle is named and the pause is read
Start(c) ==
  /\ apply[c].pc = "idle"
  /\ plan # None
  /\ outreach.paused
  /\ \E b \in backups :
       apply' = [apply EXCEPT ![c] =
                   [pc |-> "verify", plan |-> plan, backup |-> b, epoch |-> outreach.epoch]]
  /\ UNCHANGED <<identityVars, outreach, granting, plan, backups, manifest>>

(* Mutant of Reproduces: the pause of the backup may be an earlier one      *)
ReproducesPaused(b, p, epoch) == b.plannable /\ b.paused /\ b.pair = p
(* The database in the bundle gives the reviewed plan, in this very pause   *)
Reproduces(b, p, epoch) ==
  /\ b.plannable /\ b.paused
  /\ b.pair = p
  /\ b.epoch = epoch

Verify(c) ==
  /\ apply[c].pc = "verify"
  /\ apply' = [apply EXCEPT ![c].pc =
       IF Reproduces(apply[c].backup, apply[c].plan, apply[c].epoch) THEN "merge" ELSE "refused"]
  /\ UNCHANGED <<identityVars, outreach, granting, plan, backups, manifest>>

\* Read again inside the transaction
StillPaused(c) == outreach.paused /\ outreach.epoch = apply[c].epoch
(* Mutant of StillAsReviewed: the plan that was verified is trusted         *)
StillAsReviewedBefore(c) == manifest = None
(* The state of this moment gives the very plan                             *)
StillAsReviewed(c) == Plannable /\ Pair = apply[c].plan

\* Every alias of the superseded opportunity, and every approved one
AliasesMoved == [a \in Aliases |-> IF owner[a] = Loser THEN Survivor ELSE owner[a]]
\* What the transaction checks before it ends: also for a replay
AliasesSettled(own) ==
  /\ {a \in Aliases : own[a] \in {Survivor, Loser}} = DOMAIN Approved
  /\ \A a \in DOMAIN Approved : own[a] = Survivor
FinalState(c) ==
  /\ manifest # None
  /\ manifest.plan = apply[c].plan
  /\ AliasesSettled(owner)
  /\ Active(Survivor)
  /\ doubt[Shared].state = "resolved" /\ doubt[Shared].by = "merge"
  /\ Dependents = 0

Merge(c) ==
  /\ apply[c].pc = "merge"
  /\ StillPaused(c) /\ manifest = None /\ StillAsReviewed(c)
  /\ AliasesSettled(AliasesMoved)
  /\ owner' = AliasesMoved
  /\ opp' = [opp EXCEPT ![Loser].status = "superseded", ![Loser].rev = @ + 1]
  /\ doubt' = Resolved(Shared, "merge", Survivor)
  /\ manifest' = [plan |-> apply[c].plan, before |-> Pair, backup |-> apply[c].backup,
                  sent |-> outreach.sent]
  /\ apply' = [apply EXCEPT ![c].pc = "applied"]
  /\ UNCHANGED <<proc, outreach, granting, plan, backups>>

\* The manifest is there: nothing is written
Replay(c) ==
  /\ apply[c].pc = "merge"
  /\ StillPaused(c) /\ manifest # None /\ FinalState(c)
  /\ apply' = [apply EXCEPT ![c].pc = "already"]
  /\ UNCHANGED <<identityVars, outreach, granting, plan, backups, manifest>>

Refuse(c) ==
  /\ apply[c].pc = "merge"
  /\ \/ ~StillPaused(c)
     \/ manifest # None /\ ~FinalState(c)
     \/ manifest = None /\ ~(StillAsReviewed(c) /\ AliasesSettled(AliasesMoved))
  /\ apply' = [apply EXCEPT ![c].pc = "refused"]
  /\ UNCHANGED <<identityVars, outreach, granting, plan, backups, manifest>>

-----------------------------------------------------------------------------
(* The server meanwhile                                                     *)

\* Every change of the pause is a new epoch
SetPause(on) ==
  /\ outreach.epoch < MaxPauses
  /\ outreach' = [outreach EXCEPT !.paused = on, !.epoch = @ + 1]
  /\ UNCHANGED <<identityVars, granting, plan, backups, manifest, apply>>

\* Outreach for the pair, or for another opportunity
Send(mine) ==
  /\ ~outreach.paused /\ outreach.sent < MaxSends
  /\ outreach' = [outreach EXCEPT !.sent = @ + 1, !.pair = IF mine THEN @ + 1 ELSE @]
  /\ UNCHANGED <<identityVars, granting, plan, backups, manifest, apply>>

Grant(on) ==
  /\ granting # on
  /\ granting' = on
  /\ UNCHANGED <<identityVars, outreach, plan, backups, manifest, apply>>

ApplyStep(c) == Start(c) \/ Verify(c) \/ Merge(c) \/ Replay(c) \/ Refuse(c)

MergeNext ==
  \/ IdentityNext /\ UNCHANGED mergeVars
  \/ DryRun
  \/ Backup
  \/ \E c \in Applies : ApplyStep(c)
  \/ \E on \in BOOLEAN : SetPause(on) \/ Grant(on)
  \/ \E mine \in BOOLEAN : Send(mine)

MergeSpec == MergeInit /\ [][MergeNext]_vars

-----------------------------------------------------------------------------
(* Properties                                                               *)

MergeTypeOK ==
  /\ IdentityTypeOK
  /\ outreach \in [paused : BOOLEAN, epoch : 0..MaxPauses, sent : 0..MaxSends, pair : 0..MaxSends]
  /\ granting \in BOOLEAN
  /\ Cardinality(backups) <= MaxBackups
  /\ \A c \in Applies :
       apply[c].pc \in {"idle", "verify", "merge", "applied", "already", "refused"}

(* A merge can be undone: the backup its manifest names holds the very      *)
(* state of the pair the merge found, and no outreach, for whichever deal,  *)
(* was started between that backup and the merge, so that restoring it      *)
(* forgets no mail - whatever the server, a second apply and changes of the *)
(* pause did between the dry run, the backup, its verification and the      *)
(* transaction (verifyDealHunterCanonicalOpportunityMergeBackupPlan,        *)
(* applyDealHunterCanonicalOpportunityMerge).                               *)
MergeCanBeUndone ==
  manifest # None =>
    /\ manifest.before = manifest.backup.pair
    /\ manifest.sent = manifest.backup.sent

(* A merge is for good: the superseded opportunity never owns an alias or   *)
(* becomes current again, and every alias of the pair leads to the          *)
(* survivor, though passes and decisions that began before it go on         *)
(* (validateCanonicalMergeFinalState, upsertDealHunterOpportunity).         *)
MergeLasts ==
  manifest # None =>
    /\ opp[Loser].status = "superseded" /\ Active(Survivor)
    /\ \A a \in DOMAIN Approved : owner[a] = Survivor
    /\ \A a \in Aliases : owner[a] # Loser

(* Once resolved by the merge, the exception stays resolved.                *)
MergeResolves ==
  [][doubt[Shared].by = "merge" => doubt'[Shared] = doubt[Shared]]_vars
=============================================================================
