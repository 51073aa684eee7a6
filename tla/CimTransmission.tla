--------------------------- MODULE CimTransmission ---------------------------
(***************************************************************************)
(* The e-mails of one broker conversation, from a due touch to a recorded  *)
(* provider outcome.  Every storage operation is one immediate SQLite      *)
(* transaction, so it is one action; between two of them a sender run      *)
(* awaits, and replies, stops, the expiry sweep, the Live sending switch,  *)
(* another sender or a crash come in between.  Leases, authorizations and  *)
(* grace periods have no clock here: they may lapse at any moment.         *)
(***************************************************************************)
EXTENDS Naturals, FiniteSets

CONSTANTS
  Campaigns,    \* the campaigns of the conversation, one touch under way each
  Workers,      \* sender runs that may be suspended at the same time
  LastTouch,    \* ordinal of the last touch the cadence schedules
  MaxTx, MaxAuths, MaxVersion, MaxRevision, MaxActivations, MaxCrashes   \* bounds

ASSUME CimAssumption ==
  /\ LastTouch \in Nat /\ MaxTx \in Nat \ {0} /\ MaxAuths \in Nat /\ MaxVersion \in Nat \ {0}
  /\ MaxRevision \in Nat \ {0} /\ MaxActivations \in Nat \ {0} /\ MaxCrashes \in Nat

VARIABLES
  camp,      \* the campaigns' rows: state, terminal_revision, row_version
  conv,      \* the conversation's row
  touch,     \* each campaign's latest touch; earlier ones were accepted
  tx,        \* the transmissions, <<campaign, n>> being the campaign's n-th
  chain,     \* Live sending: whether the activation chain is current, and its number
  reply,     \* the Gmail reply record: none, recorded (still pending) or applied, and the
             \* conversation state its classification calls for
  gmail,     \* what became of the provider calls of each transmission
  run,       \* the sender runs
  crashes

vars == <<camp, conv, touch, tx, chain, reply, gmail, run, crashes>>
outside == <<chain, reply, crashes>>

Txs == Campaigns \X (1 .. MaxTx)
Owner(x) == x[1]
Revisions == 0 .. MaxRevision + 2

Live == {"initial-pending", "active-follow-up"}
Terminal == {"responded", "materials-received", "stopped", "expired"}
Outcomes == {"accepted", "definitive-failure", "ambiguous"}
CampaignStates == Live \cup Terminal \cup {"action-required", "provider-ambiguous"}
ConversationStates == {"open", "reply-review-required", "responded", "stopped",
                       "provider-ambiguous"}
TouchStates == {"scheduled", "claimed", "provider-pending", "cancelled-before-provider"}
                 \cup Outcomes
TxStates == {"none", "prepared", "provider-pending", "cancelled-before-provider"} \cup Outcomes

\* Where a terminal event may take a campaign, and where a reply may take the conversation.
CampaignLegal ==
  [s \in CampaignStates |->
     CASE s = "initial-pending" -> {"action-required", "responded", "materials-received", "stopped"}
       [] s = "active-follow-up" -> Terminal \cup {"action-required"}
       [] s = "action-required" -> {"action-required", "responded", "materials-received", "stopped"}
       [] s = "provider-ambiguous" -> {"action-required", "responded", "materials-received", "stopped"}
       [] OTHER -> {}]
\* Mutant of ReplyLegal: a conversation under review takes no reply.
ReplyLegalWhenOpen ==
  [s \in ConversationStates |->
     IF s = "open" THEN {"responded", "stopped", "reply-review-required"} ELSE {}]
ReplyLegal ==
  [s \in ConversationStates |->
     CASE s = "open" -> {"responded", "stopped", "reply-review-required"}
       [] s = "reply-review-required" -> {"responded", "stopped"}
       [] OTHER -> {}]

FreshTouch(k) == [ordinal |-> k, state |-> "scheduled", token |-> 0, lapsed |-> FALSE,
                  tx |-> 0, rv |-> 1]
NoTx == [state |-> "none", ordinal |-> 0, rv |-> 0, entered |-> FALSE, crev |-> 0,
         auth |-> 0, act |-> 0]
NoSnap == [crev |-> 0, crv |-> 0, vrev |-> 0, vrv |-> 0, trv |-> 0, ordinal |-> 0, token |-> 0,
           rv |-> 0]
Nothing == <<>>
Idle == [pc |-> "idle", x |-> Nothing, act |-> 0, auth |-> 0, outcome |-> "none",
         snap |-> NoSnap]

Snaps == [crev : Nat, crv : Nat, vrev : Nat, vrv : Nat, trv : Nat, ordinal : 0 .. LastTouch,
          token : Nat, rv : Nat]
Runs == [pc : {"idle", "ready", "claimed", "prepared", "issued", "gate", "boundary", "send",
               "await", "search", "record", "release", "lookup"},
         x : Txs \cup {Nothing}, act : 0 .. MaxActivations, auth : 0 .. MaxAuths,
         outcome : Outcomes \cup {"none"}, snap : Snaps]
CampaignRows == [state : CampaignStates, rev : Revisions, rv : Nat]
TouchRows == [ordinal : 0 .. LastTouch, state : TouchStates, token : Nat, lapsed : BOOLEAN,
              tx : 0 .. MaxTx, rv : Nat]
TxRows == [state : TxStates, ordinal : 0 .. LastTouch, rv : Nat, entered : BOOLEAN,
           crev : Revisions, auth : 0 .. MaxAuths, act : 0 .. MaxActivations]

TypeOK ==
  /\ camp \in [Campaigns -> CampaignRows]
  /\ conv \in [state : ConversationStates, rev : Nat, rv : Nat]
  /\ touch \in [Campaigns -> TouchRows] /\ tx \in [Txs -> TxRows]
  /\ chain \in [on : BOOLEAN, no : 1 .. MaxActivations]
  /\ reply \in [state : {"none", "recorded", "applied"}, calls : ConversationStates]
  /\ gmail \in [Txs -> [asked : Nat, mailed : Nat, refused : Nat]]
  /\ run \in [Workers -> Runs] /\ crashes \in 0 .. MaxCrashes

Init ==
  /\ camp = [c \in Campaigns |-> [state |-> "initial-pending", rev |-> 0, rv |-> 1]]
  /\ conv = [state |-> "open", rev |-> 0, rv |-> 1]
  /\ touch = [c \in Campaigns |-> FreshTouch(0)]
  /\ tx = [x \in Txs |-> NoTx]
  /\ chain = [on |-> TRUE, no |-> 1] /\ crashes = 0
  /\ reply = [state |-> "none", calls |-> "open"]
  /\ gmail = [x \in Txs |-> [asked |-> 0, mailed |-> 0, refused |-> 0]]
  /\ run = [w \in Workers |-> Idle]

At(w, pc) == run[w].pc = pc
Goto(w, pc) == run' = [run EXCEPT ![w].pc = pc]
\* The next touch of the same run, or the end of the run when nothing else may be sent.
LeaveTouch(w) == \E pc \in {"ready", "idle"} : run' = [run EXCEPT ![w] = [Idle EXCEPT !.pc = pc,
                                          !.act = IF pc = "ready" THEN run[w].act ELSE 0]]
Rest(w) == run' = [run EXCEPT ![w] = Idle]

-----------------------------------------------------------------------------
(* What the storage transactions do to the rows. *)

NextGeneration(c) == 1 + Cardinality({n \in 1 .. MaxTx : tx[<<c, n>>].state # "none"})
ReadyState(k) == IF k = 0 THEN "initial-pending" ELSE "active-follow-up"
Holds(c, x) == touch[c].tx # 0 /\ x = <<c, touch[c].tx>>

\* finalizeCimTransmission and reconcileCimTransmission: the outcome is always recorded, the
\* campaign moves only when no terminal event came in since the final gate.
\* Mutant of Advances: the terminal revision is not compared.
AdvancesUnfenced(x, from) == tx[x].state # "none"
Advances(x, from) == LET c == camp[Owner(x)] IN c.rev = tx[x].crev /\ c.state \in from
\* Mutants of Settle: one touch too many is scheduled; a failed touch is followed up like an
\* accepted one.
SettleOneTouchMore(x, outcome, from) == LET c == Owner(x) moves == Advances(x, from) IN
  /\ tx' = [tx EXCEPT ![x].state = outcome, ![x].rv = @ + 1]
  /\ camp' = IF moves /\ outcome = "accepted"
             THEN [camp EXCEPT ![c].state = "active-follow-up", ![c].rv = @ + 1] ELSE camp
  /\ touch' = IF moves /\ outcome = "accepted" /\ touch[c].ordinal <= LastTouch
              THEN [touch EXCEPT ![c] = FreshTouch(touch[c].ordinal + 1)]
              ELSE [touch EXCEPT ![c].state = outcome, ![c].rv = @ + 1]
SettleFollowsUpFailure(x, outcome, from) == LET c == Owner(x) moves == Advances(x, from) IN
  /\ tx' = [tx EXCEPT ![x].state = outcome, ![x].rv = @ + 1]
  /\ camp' = IF moves THEN [camp EXCEPT ![c].state = "active-follow-up", ![c].rv = @ + 1] ELSE camp
  /\ touch' = IF moves /\ touch[c].ordinal < LastTouch
              THEN [touch EXCEPT ![c] = FreshTouch(touch[c].ordinal + 1)]
              ELSE [touch EXCEPT ![c].state = outcome, ![c].rv = @ + 1]
Settle(x, outcome, from) ==
  LET c == Owner(x) moves == Advances(x, from) IN
  /\ tx' = [tx EXCEPT ![x].state = outcome, ![x].rv = @ + 1]
  /\ camp' = IF ~moves THEN camp
             ELSE [camp EXCEPT ![c].state = CASE outcome = "accepted" -> "active-follow-up"
                                              [] outcome = "ambiguous" -> "provider-ambiguous"
                                              [] OTHER -> "action-required",
                               ![c].rv = @ + 1]
  /\ touch' = IF moves /\ outcome = "accepted" /\ touch[c].ordinal < LastTouch
              THEN [touch EXCEPT ![c] = FreshTouch(touch[c].ordinal + 1)]
              ELSE [touch EXCEPT ![c].state = outcome, ![c].rv = @ + 1]
ConversationMoves(state) ==
  conv' = [conv EXCEPT !.state = state, !.rev = @ + 1, !.rv = @ + 1]

Finalizable(x, rv) == tx[x].state = "provider-pending" /\ tx[x].rv = rv /\ tx[x].entered
\* Mutant of Finalize: the touch of an unsure send is scheduled again.
FinalizeRequeues(x, outcome) ==
  IF outcome = "ambiguous"
  THEN /\ tx' = [tx EXCEPT ![x].state = outcome, ![x].rv = @ + 1]
       /\ touch' = [touch EXCEPT ![Owner(x)] = FreshTouch(touch[Owner(x)].ordinal)]
       /\ UNCHANGED <<camp, conv>>
  ELSE Settle(x, outcome, Live) /\ UNCHANGED conv
Finalize(x, outcome) ==
  /\ Settle(x, outcome, Live)
  /\ IF outcome = "ambiguous" /\ conv.state = "open"
     THEN ConversationMoves("provider-ambiguous") ELSE UNCHANGED conv

Unresolved(x) == {y \in Txs \ {x} : tx[y].state \in {"provider-pending", "ambiguous"}}
Reconcilable(x, rv) == tx[x].state \in {"provider-pending", "ambiguous"} /\ tx[x].rv = rv
\* Mutant of ReconcileAccepted: other unsure sends of the conversation are forgotten.
ReconcileReopens(x) ==
  /\ Settle(x, "accepted", Live \cup {"provider-ambiguous"})
  /\ IF conv.state = "provider-ambiguous" THEN ConversationMoves("open") ELSE UNCHANGED conv
ReconcileAccepted(x) ==
  /\ Settle(x, "accepted", Live \cup {"provider-ambiguous"})
  /\ IF conv.state = "provider-ambiguous" /\ Unresolved(x) = {}
     THEN ConversationMoves("open") ELSE UNCHANGED conv

\* The touch of a released transmission may be claimed again, under the next generation.
Unclaimed(c) == [touch[c] EXCEPT !.state = "scheduled", !.token = 0, !.lapsed = FALSE,
                                 !.tx = 0, !.rv = @ + 1]
ReleaseUnsent(x) ==
  /\ tx' = [tx EXCEPT ![x].state = "cancelled-before-provider", ![x].rv = @ + 1]
  /\ touch' = [touch EXCEPT ![Owner(x)] = Unclaimed(Owner(x))]
Prepared == {x \in Txs : tx[x].state = "prepared"}
ReleasePrepared ==
  LET freed == {x \in Prepared : touch[Owner(x)].state = "claimed" /\ Holds(Owner(x), x)} IN
  /\ tx' = [x \in Txs |-> IF x \notin freed THEN tx[x]
              ELSE [tx[x] EXCEPT !.state = "cancelled-before-provider", !.rv = @ + 1]]
  /\ touch' = [c \in Campaigns |-> IF \E x \in freed : Owner(x) = c THEN Unclaimed(c) ELSE touch[c]]

\* A terminal event cancels what has not reached the provider; a pending send is left alone.
\* Mutant of CancelWorkOf: only touches without a transmission are cancelled.
CancelUnprepared(S) ==
  /\ touch' = [c \in Campaigns |->
       IF c \in S /\ touch[c].state \in {"scheduled", "claimed"} /\ touch[c].tx = 0
       THEN [touch[c] EXCEPT !.state = "cancelled-before-provider", !.rv = @ + 1] ELSE touch[c]]
  /\ UNCHANGED tx
CancelWorkOf(S) ==
  LET cancelled == {x \in Prepared : Owner(x) \in S}
      ended == {c \in S : \/ \E x \in cancelled : Holds(c, x)
                          \/ touch[c].state \in {"scheduled", "claimed"} /\ touch[c].tx = 0}
  IN /\ tx' = [x \in Txs |-> IF x \notin cancelled THEN tx[x]
                 ELSE [tx[x] EXCEPT !.state = "cancelled-before-provider", !.rv = @ + 1]]
     /\ touch' = [c \in Campaigns |-> IF c \notin ended THEN touch[c]
                    ELSE [touch[c] EXCEPT !.state = "cancelled-before-provider", !.tx = 0,
                                          !.rv = @ + 1]]
EndCampaign(c, next) ==
  /\ next \in CampaignLegal[camp[c].state] /\ camp[c].rev < MaxRevision
  /\ CancelWorkOf({c})
  /\ camp' = [camp EXCEPT ![c].state = next, ![c].rev = @ + 1, ![c].rv = @ + 1]

\* What a conversation's terminal event makes of a campaign that has not ended.
Projected(state, next) ==
  LET desired == CASE next = "responded" -> "responded"
                   [] next = "reply-review-required" -> "action-required"
                   [] OTHER -> "stopped"
  IN IF desired \in CampaignLegal[state] THEN desired
     ELSE IF "action-required" \in CampaignLegal[state] THEN "action-required" ELSE state
EndConversation(next) ==
  LET S == {c \in Campaigns : camp[c].state \notin Terminal} IN
  /\ next \in ReplyLegal[conv.state]
  /\ CancelWorkOf(S)
  /\ camp' = [c \in Campaigns |-> IF c \notin S THEN camp[c]
                ELSE [state |-> Projected(camp[c].state, next), rev |-> camp[c].rev + 1,
                      rv |-> camp[c].rv + 1]]
  /\ ConversationMoves(next)
-----------------------------------------------------------------------------
(* A sender run, after readiness: first what earlier runs left behind. *)

\* A pending send whose seam was never entered cannot have reached Gmail.
\* Mutant of ReleaseUnentered: the entry into the seam is not looked at.
ReleasePending(w, x) ==
  /\ At(w, "idle") /\ tx[x].state = "provider-pending"
  /\ ReleaseUnsent(x) /\ UNCHANGED <<camp, conv, gmail, run, outside>>
ReleaseUnentered(w, x) ==
  /\ At(w, "idle") /\ tx[x].state = "provider-pending" /\ ~tx[x].entered
  /\ ReleaseUnsent(x) /\ UNCHANGED <<camp, conv, gmail, run, outside>>

\* One that entered it and recorded nothing is looked up in the owner's Sent mail.
StartLookup(w, x) ==
  /\ At(w, "idle") /\ tx[x].state = "provider-pending" /\ tx[x].entered
  /\ run' = [run EXCEPT ![w] = [Idle EXCEPT !.pc = "lookup", !.x = x, !.snap.rv = tx[x].rv]]
  /\ UNCHANGED <<camp, conv, touch, tx, gmail, outside>>
LookupFound(w) ==
  LET x == run[w].x IN
  /\ At(w, "lookup") /\ gmail[x].mailed > 0
  /\ IF Reconcilable(x, run[w].snap.rv) THEN ReconcileAccepted(x)
     ELSE UNCHANGED <<camp, conv, touch, tx>>
  /\ Rest(w) /\ UNCHANGED <<gmail, outside>>
\* Not found (the search may also miss a mail that is there): the owner decides.
\* Mutant of LookupMissing: what is not found is left for the next run.
LookupMissingWaits(w) ==
  /\ At(w, "lookup") /\ Rest(w) /\ UNCHANGED <<camp, conv, touch, tx, gmail, outside>>
LookupMissing(w) ==
  LET x == run[w].x IN
  /\ At(w, "lookup")
  /\ IF Finalizable(x, run[w].snap.rv) THEN Finalize(x, "ambiguous")
     ELSE UNCHANGED <<camp, conv, touch, tx>>
  /\ Rest(w) /\ UNCHANGED <<gmail, outside>>
LookupFails(w) ==
  /\ At(w, "lookup") /\ Rest(w) /\ UNCHANGED <<camp, conv, touch, tx, gmail, outside>>

\* Then the pending replies are read, once: a conversation that still has one gets nothing
\* this run.  The activation chain is read here too.
Held == reply.state = "recorded"
BeginSending(w) ==
  /\ At(w, "idle") /\ chain.on /\ ~Held
  /\ run' = [run EXCEPT ![w] = [Idle EXCEPT !.pc = "ready", !.act = chain.no]]
  /\ UNCHANGED <<camp, conv, touch, tx, gmail, outside>>
EndRun(w) ==
  /\ At(w, "ready") /\ Rest(w) /\ UNCHANGED <<camp, conv, touch, tx, gmail, outside>>

\* A due touch, or one whose claimer died before preparing.
Claim(w, c) ==
  LET t == touch[c] IN
  /\ At(w, "ready") /\ chain.on
  /\ t.tx = 0 /\ (t.state = "scheduled" \/ (t.state = "claimed" /\ t.lapsed))
  /\ camp[c].state = ReadyState(t.ordinal) /\ conv.state = "open"
  /\ t.rv < MaxVersion /\ NextGeneration(c) \in 1 .. MaxTx
  /\ touch' = [touch EXCEPT ![c].state = "claimed", ![c].token = t.rv + 1, ![c].lapsed = FALSE,
                            ![c].rv = @ + 1]
  /\ run' = [run EXCEPT ![w].pc = "claimed", ![w].x = <<c, NextGeneration(c)>>,
                        ![w].snap = [NoSnap EXCEPT !.crev = camp[c].rev, !.vrev = conv.rev,
                                                   !.ordinal = t.ordinal, !.token = t.rv + 1]]
  /\ UNCHANGED <<camp, conv, tx, gmail, outside>>
ClaimLapses(c) ==
  /\ touch[c].state = "claimed" /\ ~touch[c].lapsed
  /\ touch' = [touch EXCEPT ![c].lapsed = TRUE]
  /\ UNCHANGED <<camp, conv, tx, gmail, run, outside>>
Mine(w, c) ==
  touch[c].state = "claimed" /\ touch[c].token = run[w].snap.token /\ ~touch[c].lapsed

Prepare(w) ==
  LET x == run[w].x c == Owner(x) s == run[w].snap IN
  /\ At(w, "claimed") /\ chain.on
  /\ conv.state = "open" /\ conv.rev = s.vrev
  /\ camp[c].rev = s.crev /\ camp[c].state \in Live
  /\ touch[c].ordinal = 0 => camp[c].state = "initial-pending"
  /\ touch[c].ordinal = s.ordinal /\ Mine(w, c) /\ touch[c].tx = 0
  /\ tx' = [tx EXCEPT ![x] = [NoTx EXCEPT !.state = "prepared", !.rv = 1,
                                          !.ordinal = touch[c].ordinal]]
  /\ touch' = [touch EXCEPT ![c].tx = x[2], ![c].rv = @ + 1]
  /\ run' = [run EXCEPT ![w].pc = "prepared", ![w].snap = NoSnap]
  /\ UNCHANGED <<camp, conv, gmail, outside>>

\* A lapsed claim that holds a prepared transmission is renewed, and the transmission kept.
Renew(w, c) ==
  LET t == touch[c] IN
  /\ At(w, "ready") /\ chain.on
  /\ t.state = "claimed" /\ t.lapsed /\ t.tx # 0 /\ tx[<<c, t.tx>>].state = "prepared"
  /\ camp[c].state = ReadyState(t.ordinal) /\ conv.state = "open" /\ t.rv < MaxVersion
  /\ touch' = [touch EXCEPT ![c].token = t.rv + 1, ![c].lapsed = FALSE, ![c].rv = @ + 1]
  /\ run' = [run EXCEPT ![w].pc = "prepared", ![w].x = <<c, t.tx>>, ![w].snap = NoSnap]
  /\ UNCHANGED <<camp, conv, tx, gmail, outside>>

\* A one-time authorization bound to the run's activation; a usable one is taken again, an
\* expired one replaced.
Issue(w) ==
  LET x == run[w].x a == tx[x].auth IN
  /\ At(w, "prepared") /\ tx[x].state = "prepared" /\ chain.on /\ chain.no = run[w].act
  /\ \/ /\ a < MaxAuths
        /\ tx' = [tx EXCEPT ![x].auth = a + 1, ![x].act = run[w].act]
        /\ run' = [run EXCEPT ![w].pc = "issued", ![w].auth = a + 1]
     \/ /\ a > 0 /\ tx[x].act = run[w].act
        /\ run' = [run EXCEPT ![w].pc = "issued", ![w].auth = a] /\ UNCHANGED tx
  /\ UNCHANGED <<camp, conv, touch, gmail, outside>>

\* The final gate reads every authority, awaits, and hands in what it read as expectations.
ReadGateContext(w) ==
  LET x == run[w].x c == Owner(x) IN
  /\ At(w, "issued")
  /\ run' = [run EXCEPT ![w].pc = "gate",
       ![w].snap = [crev |-> camp[c].rev, crv |-> camp[c].rv, vrev |-> conv.rev, vrv |-> conv.rv,
                    trv |-> touch[c].rv, ordinal |-> touch[c].ordinal,
                    token |-> touch[c].token, rv |-> tx[x].rv]]
  /\ UNCHANGED <<camp, conv, touch, tx, gmail, outside>>
Authorize(w) ==
  LET x == run[w].x c == Owner(x) s == run[w].snap IN
  /\ At(w, "gate") /\ tx[x].state = "prepared" /\ tx[x].rv = s.rv
  /\ tx[x].auth = run[w].auth /\ chain.on /\ chain.no = tx[x].act
  /\ conv.state = "open" /\ conv.rev = s.vrev /\ conv.rv = s.vrv
  /\ camp[c].state = ReadyState(touch[c].ordinal) /\ camp[c].rev = s.crev /\ camp[c].rv = s.crv
  /\ Mine(w, c) /\ Holds(c, x) /\ touch[c].rv = s.trv
  /\ tx' = [tx EXCEPT ![x].state = "provider-pending", ![x].crev = s.crev, ![x].rv = @ + 1]
  /\ touch' = [touch EXCEPT ![c].state = "provider-pending", ![c].rv = @ + 1]
  /\ run' = [run EXCEPT ![w].pc = "boundary", ![w].snap = [NoSnap EXCEPT !.rv = s.rv + 1]]
  /\ UNCHANGED <<camp, conv, gmail, outside>>

\* The provider seam: entered at most once, and never left.
EnterSeam(w) ==
  LET x == run[w].x IN
  /\ At(w, "boundary") /\ tx[x].state = "provider-pending" /\ ~tx[x].entered
  /\ chain.on /\ chain.no = tx[x].act /\ tx[x].rv = run[w].snap.rv
  /\ tx' = [tx EXCEPT ![x].entered = TRUE, ![x].rv = @ + 1]
  /\ run' = [run EXCEPT ![w].pc = "send", ![w].snap = [NoSnap EXCEPT !.rv = run[w].snap.rv + 1]]
  /\ UNCHANGED <<camp, conv, touch, gmail, outside>>

\* Any step before the call may be refused or throw; its rows stay for a later run.  Pause,
\* readiness, contact rule, suppressions, send window and expired leases all end here.
Refused(w) ==
  /\ run[w].pc \in {"claimed", "prepared", "issued", "gate", "boundary", "send"}
  /\ LeaveTouch(w) /\ UNCHANGED <<camp, conv, touch, tx, gmail, outside>>

Call(w) ==
  /\ At(w, "send")
  /\ gmail' = [gmail EXCEPT ![run[w].x].asked = @ + 1]
  /\ Goto(w, "await") /\ UNCHANGED <<camp, conv, touch, tx, outside>>
\* Nothing reached Gmail: no connection, no access token.
NotReached(w) ==
  /\ At(w, "send") /\ Goto(w, "release")
  /\ UNCHANGED <<camp, conv, touch, tx, gmail, outside>>

Hears(w, outcome) == run' = [run EXCEPT ![w].pc = "record", ![w].outcome = outcome]
HearAccepted(w) ==
  /\ At(w, "await") /\ gmail[run[w].x].mailed > 0 /\ Hears(w, "accepted")
  /\ UNCHANGED <<camp, conv, touch, tx, gmail, outside>>
HearFailure(w) ==
  /\ At(w, "await") /\ gmail[run[w].x].refused > 0 /\ Hears(w, "definitive-failure")
  /\ UNCHANGED <<camp, conv, touch, tx, gmail, outside>>
HearQuota(w) ==
  /\ At(w, "await") /\ gmail[run[w].x].refused > 0 /\ Goto(w, "release")
  /\ UNCHANGED <<camp, conv, touch, tx, gmail, outside>>
\* A timeout, a 5xx or a lost answer; the call may still be under way.
\* Mutants of HearNothing: the call is repeated; silence is taken for a refusal.
HearNothingRetries(w) ==
  /\ At(w, "await") /\ Goto(w, "send") /\ UNCHANGED <<camp, conv, touch, tx, gmail, outside>>
SilenceIsRefusal(w) ==
  /\ At(w, "await") /\ Goto(w, "release") /\ UNCHANGED <<camp, conv, touch, tx, gmail, outside>>
HearNothing(w) ==
  /\ At(w, "await") /\ Goto(w, "search")
  /\ UNCHANGED <<camp, conv, touch, tx, gmail, outside>>

\* An unsure send is searched for before it is recorded as ambiguous.
SearchFound(w) ==
  LET x == run[w].x IN
  /\ At(w, "search") /\ gmail[x].mailed > 0 /\ tx[x].state = "provider-pending"
  /\ ReconcileAccepted(x) /\ LeaveTouch(w) /\ UNCHANGED <<gmail, outside>>
SearchFails(w) ==
  /\ At(w, "search") /\ Hears(w, "ambiguous")
  /\ UNCHANGED <<camp, conv, touch, tx, gmail, outside>>
Record(w) ==
  LET x == run[w].x IN
  /\ At(w, "record")
  /\ IF Finalizable(x, run[w].snap.rv) THEN Finalize(x, run[w].outcome)
     ELSE UNCHANGED <<camp, conv, touch, tx>>
  /\ LeaveTouch(w) /\ UNCHANGED <<gmail, outside>>
ReleaseRefused(w) ==
  LET x == run[w].x IN
  /\ At(w, "release")
  /\ IF Finalizable(x, run[w].snap.rv) THEN ReleaseUnsent(x) ELSE UNCHANGED <<touch, tx>>
  /\ Rest(w) /\ UNCHANGED <<camp, conv, gmail, outside>>
RecordFails(w) ==
  /\ run[w].pc \in {"record", "release"} /\ LeaveTouch(w)
  /\ UNCHANGED <<camp, conv, touch, tx, gmail, outside>>
-----------------------------------------------------------------------------
(* Everything else. *)

\* The day-28 sweep, the owner or another writer of stops, materials, an unknown policy.
Expire(c) == camp[c].state = "active-follow-up" /\ EndCampaign(c, "expired")
Stop(c) == EndCampaign(c, "stopped")
ReceiveMaterials(c) == EndCampaign(c, "materials-received")
DemandAction(c) == EndCampaign(c, "action-required")
Ended(c) ==
  /\ Expire(c) \/ Stop(c) \/ ReceiveMaterials(c) \/ DemandAction(c)
  /\ UNCHANGED <<conv, gmail, run, outside>>

\* The reply poller: a message of the conversation's Gmail thread is recorded as pending, its
\* effect applied, the record settled.  A provider-ambiguous conversation defers the effect.
Replied == {"responded", "stopped"}
Contained(calls) ==
  IF calls \in Replied THEN Replied ELSE Replied \cup {"reply-review-required"}
RecordReply ==
  /\ ~Held /\ conv.state \in {"open", "reply-review-required", "provider-ambiguous"}
  /\ \E x \in Txs : tx[x].state = "accepted"
  /\ \E calls \in Contained("reply-review-required") : reply' = [state |-> "recorded", calls |-> calls]
  /\ UNCHANGED <<camp, conv, touch, tx, chain, gmail, run, crashes>>
ApplyReply ==
  /\ Held /\ EndConversation(reply.calls) /\ UNCHANGED <<gmail, run, outside>>
SettleReply ==
  /\ Held /\ conv.state \in Contained(reply.calls)
  /\ reply' = [reply EXCEPT !.state = "applied"]
  /\ UNCHANGED <<camp, conv, touch, tx, chain, gmail, run, crashes>>

\* Live sending off: the chain is withdrawn, then what is prepared under it released; the
\* release is repeated before the chain is recorded again.
ChainOff ==
  /\ chain.on /\ chain' = [chain EXCEPT !.on = FALSE]
  /\ UNCHANGED <<camp, conv, touch, tx, reply, gmail, run, crashes>>
FreePrepared ==
  /\ ~chain.on /\ Prepared # {} /\ ReleasePrepared
  /\ UNCHANGED <<camp, conv, gmail, run, outside>>
ChainOn ==
  /\ ~chain.on /\ chain.no < MaxActivations /\ ReleasePrepared
  /\ chain' = [on |-> TRUE, no |-> chain.no + 1]
  /\ UNCHANGED <<camp, conv, reply, gmail, run, crashes>>

Unanswered(x) == gmail[x].asked > gmail[x].mailed + gmail[x].refused
Accept(x) ==
  /\ Unanswered(x) /\ gmail' = [gmail EXCEPT ![x].mailed = @ + 1]
  /\ UNCHANGED <<camp, conv, touch, tx, run, outside>>
Refuse(x) ==
  /\ Unanswered(x) /\ gmail' = [gmail EXCEPT ![x].refused = @ + 1]
  /\ UNCHANGED <<camp, conv, touch, tx, run, outside>>

Crash(w) ==
  /\ ~At(w, "idle") /\ crashes < MaxCrashes /\ crashes' = crashes + 1
  /\ Rest(w) /\ UNCHANGED <<camp, conv, touch, tx, chain, reply, gmail>>

Resolve(w) == LookupFound(w) \/ LookupMissing(w)
Send(w) ==
  \/ Prepare(w) \/ Issue(w) \/ ReadGateContext(w) \/ Authorize(w) \/ EnterSeam(w)
  \/ Refused(w) \/ Call(w) \/ NotReached(w)
  \/ HearAccepted(w) \/ HearFailure(w) \/ HearQuota(w) \/ HearNothing(w)
  \/ SearchFound(w) \/ SearchFails(w) \/ Record(w) \/ ReleaseRefused(w) \/ RecordFails(w)
  \/ EndRun(w) \/ \E c \in Campaigns : Claim(w, c) \/ Renew(w, c)
Recover(w) == \E x \in Txs : ReleaseUnentered(w, x) \/ StartLookup(w, x)
Run(w) == Send(w) \/ Recover(w) \/ Resolve(w) \/ LookupFails(w) \/ BeginSending(w)
Replies == RecordReply \/ ApplyReply \/ SettleReply
Switch == ChainOff \/ FreePrepared \/ ChainOn

Next ==
  \/ \E w \in Workers : Run(w) \/ Crash(w)
  \/ \E c \in Campaigns : Ended(c) \/ ClaimLapses(c)
  \/ \E x \in Txs : Accept(x) \/ Refuse(x)
  \/ Replies \/ Switch

Spec == Init /\ [][Next]_vars

\* The runs keep being scheduled and do not fail every time they look a send up; the poller
\* applies what it recorded.
Fairness ==
  /\ \A w \in Workers : WF_vars(Send(w)) /\ SF_vars(Recover(w)) /\ SF_vars(Resolve(w))
  /\ WF_vars(ApplyReply) /\ WF_vars(SettleReply)
FairSpec == Spec /\ Fairness
-----------------------------------------------------------------------------
(* Properties. *)

\* A transmission is handed to Gmail at most once, whatever crashes, lapses or is retried.
OneCall == \A x \in Txs : gmail[x].asked <= 1

\* The record never says more than what happened: accepted means mailed, and a failed,
\* released or cancelled transmission is neither in the mailbox nor on its way there.
RecordsAreTrue == \A x \in Txs :
  /\ tx[x].state = "accepted" => gmail[x].mailed = 1
  /\ tx[x].state \in {"definitive-failure", "cancelled-before-provider", "prepared", "none"} =>
       gmail[x].mailed = 0 /\ ~Unanswered(x)

\* A broker gets each touch of a campaign at most once, across the generations it may take to
\* send it: a second transmission is called only when Gmail is known to have refused the first.
OneMailPerTouch == \A x, y \in Txs :
  x # y /\ Owner(x) = Owner(y) /\ tx[x].ordinal = tx[y].ordinal
    /\ gmail[x].asked > 0 /\ gmail[y].asked > 0
  => gmail[x].refused > 0 \/ gmail[y].refused > 0

\* A follow-up exists only after the touch before it was accepted.
FollowUpsFollow == \A x \in Txs : tx[x].state # "none" /\ tx[x].ordinal > 0 =>
  \E y \in Txs : /\ Owner(y) = Owner(x) /\ tx[y].ordinal = tx[x].ordinal - 1
                 /\ tx[y].state = "accepted"

\* An unsure send is never retried: a campaign whose transmission is ambiguous prepares no other.
UnsureIsLast == \A x, y \in Txs :
  Owner(x) = Owner(y) /\ tx[x].state = "ambiguous" /\ y[2] > x[2] => tx[y].state = "none"

\* One unsure send holds the whole conversation: while any of its transmissions is ambiguous
\* the conversation is not open, even when another campaign's send is found and reconciled.
UnsureHoldsConversation ==
  (\E x \in Txs : tx[x].state = "ambiguous") => conv.state # "open"

\* Once a campaign has ended or waits for the owner it holds nothing that could be authorized,
\* and its conversation, once replied to, holds no prepared transmission at all.
StopsReachTheQueue ==
  /\ \A x \in Prepared : camp[Owner(x)].state \in Live
  /\ conv.state \in {"responded", "stopped", "reply-review-required"} => Prepared = {}

\* An ended campaign stays as it ended: a late acceptance is recorded, but revives nothing.
EndsAreFinal == [][\A c \in Campaigns : camp[c].state \in Terminal =>
                     camp'[c].state = camp[c].state /\ touch'[c].ordinal = touch[c].ordinal]_vars

\* A send that reached the provider seam, or died before it, does not stay undecided.
PendingIsSettled == \A x \in Txs :
  tx[x].state = "provider-pending" ~> tx[x].state # "provider-pending"

\* A recorded reply takes effect, unless an unsure send has made the conversation ambiguous.
RepliesTakeEffect ==
  Held ~> reply.state = "applied" \/ conv.state = "provider-ambiguous"

\* What the sender and the poller say of replies held while a conversation is ambiguous: they
\* are applied, once step 3 of a run has reopened it.
HeldRepliesAreApplied == Held ~> reply.state = "applied"

\* What the poller says of a broker who answered: no follow-up is sent to him.
AnsweredGetsNoFollowUp ==
  [][\A x \in Txs : tx[x].state = "prepared" /\ tx'[x].state = "provider-pending"
                      /\ tx[x].ordinal > 0 => ~Held]_vars
=============================================================================
