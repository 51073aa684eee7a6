------------------------------- MODULE FinalGate -------------------------------
(***************************************************************************)
(* The final gate before a prepared mail of a CIM campaign is handed to    *)
(* the provider (src/server/services/pursueCimFinalGate.js; the storage    *)
(* transactions in storage/pursueCimSqliteTransitions.js).  The gate reads *)
(* a context, awaits the provider's readiness and the authority of every   *)
(* member, and asks storage to authorize what it saw.  One transaction     *)
(* checks the mail again: some facts it reads itself, the others it knows  *)
(* only by the revision the triggers advance when they change.             *)
(***************************************************************************)
EXTENDS Integers, FiniteSets

CONSTANTS Mails,        \* campaigns of one member each, with one mail under way
          FollowUps,    \* those that are follow-ups; the others are initial mails
          ByRule,       \* campaigns whose permission is the standing contact rule
          Unknown,      \* campaigns of a policy this version does not know
          Own,          \* facts whose change advances the opportunity's revision
          Shared,       \* facts whose change advances the global revision
          InPlace,      \* facts that the transaction reads itself
          Gates,        \* calls of the gate
          MaxAuths, MaxChanges, MaxSwitches, MaxGens,
          None

VARIABLES facts,        \* facts[m]: the facts in favour of m that hold
          own,          \* own[m]: revision of the opportunity's evidence
          global,       \* revision of the evidence all opportunities share
          controls,     \* [paused, rule, initial, follow, next]: ids of activations, 0 none
          camp,         \* the campaigns: [state, rev, events]
          mail,         \* the transmissions: [state, gen, by]
          auths,        \* authorizations: [id, mail, gen, act, state, lapsed]
          gates,        \* calls: [pc, mail, auth, ctx, seen]
          spent         \* [changes, switches]

gateVars == <<facts, own, global, controls, camp, mail, auths, gates, spent>>

AllFacts == Own \cup Shared \cup InPlace

FinalGateAssumption ==
  /\ FollowUps \subseteq Mails /\ ByRule \subseteq Mails /\ Unknown \subseteq Mails
  /\ Own \cap Shared = {} /\ Own \cap InPlace = {} /\ Shared \cap InPlace = {}
  /\ {MaxAuths, MaxChanges, MaxSwitches, MaxGens} \subseteq Nat

Auth(n) == CHOOSE a \in auths : a.id = n

(* The activation of a capability is current while its predecessors' are:  *)
(* a follow-up's names the activation of initial mails it was made under.   *)
(* Mutant of Chain: predecessors are not looked at *)
ChainAlone(m) == IF m \in FollowUps THEN controls.follow.id ELSE controls.initial
Chain(m) ==
  IF m \notin FollowUps THEN controls.initial
  ELSE IF controls.initial # 0 /\ controls.follow.under = controls.initial
       THEN controls.follow.id ELSE 0

RuleOn == controls.rule

FinalGateInit ==
  /\ facts = [m \in Mails |-> AllFacts]
  /\ own = [m \in Mails |-> 1] /\ global = 1
  /\ controls = [paused |-> FALSE, rule |-> TRUE, initial |-> 1, follow |-> [id |-> 2, under |-> 1], next |-> 3]
  /\ camp = [m \in Mails |-> [state |-> "live", rev |-> 1, events |-> 0]]
  /\ mail = [m \in Mails |-> [state |-> "claimed", gen |-> 0, by |-> None]]
  /\ auths = {}
  /\ gates = [g \in Gates |-> [pc |-> "idle", mail |-> None, auth |-> None, ctx |-> None, seen |-> None]]
  /\ spent = [changes |-> 0, switches |-> 0]

(***************************************************************************)
(* The world around the gate                                               *)
(***************************************************************************)
(* A fact of one opportunity or of all turns; the triggers advance a       *)
(* revision in the same transaction.                                        *)
(* Mutant of OwnMoves: the trigger does not see a removed row *)
OwnMovesUp(m, f) == IF f \in Own /\ f \notin facts[m] THEN [own EXCEPT ![m] = @ + 1] ELSE own
OwnMoves(m, f) == IF f \in Own THEN [own EXCEPT ![m] = @ + 1] ELSE own
GlobalMoves(f) == IF f \in Shared THEN global + 1 ELSE global

Turn(m, f) == [facts EXCEPT ![m] = IF f \in @ THEN @ \ {f} ELSE @ \cup {f}]

Change ==
  /\ spent.changes < MaxChanges
  /\ \E m \in Mails, f \in AllFacts :
       facts' = Turn(m, f) /\ own' = OwnMoves(m, f) /\ global' = GlobalMoves(f)
  /\ spent' = [spent EXCEPT !.changes = @ + 1]
  /\ UNCHANGED <<controls, camp, mail, auths, gates>>

(* The owner pauses, switches the rule, withdraws or records an activation *)
Switch ==
  /\ spent.switches < MaxSwitches
  /\ \/ controls' = [controls EXCEPT !.paused = ~@]
     \/ controls' = [controls EXCEPT !.rule = ~@]
     \/ controls.initial # 0 /\ controls' = [controls EXCEPT !.initial = 0]
     \/ controls' = [controls EXCEPT !.initial = controls.next, !.next = @ + 1]
     \/ /\ controls.initial # 0
        /\ controls' = [controls EXCEPT !.follow = [id |-> controls.next, under |-> controls.initial],
                                        !.next = @ + 1]
  /\ spent' = [spent EXCEPT !.switches = @ + 1]
  /\ UNCHANGED <<facts, own, global, camp, mail, auths, gates>>

(* Authorizations that may still be used *)
Open(m) == {a \in auths : a.mail = m /\ a.state = "issued"}
WithdrawOf(m) == {IF a \in Open(m) THEN [a EXCEPT !.state = "withdrawn"] ELSE a : a \in auths}

(* The touch is released or its campaign ends: a prepared mail is          *)
(* cancelled and its authorizations withdrawn with it.                      *)
(* Mutant of Cancelled: the authorization outlives its mail *)
CancelledAlone(m) == mail[m].state = "prepared" /\ auths' = auths
Cancelled(m) == mail[m].state = "prepared" /\ auths' = WithdrawOf(m)

(* The operator withdraws an authorization: its mail is cancelled *)
WithdrawAuthorization ==
  /\ \E a \in auths :
       /\ a.state = "issued" /\ Cancelled(a.mail)
       /\ mail' = [mail EXCEPT ![a.mail].state = "cancelled"]
  /\ UNCHANGED <<facts, own, global, controls, camp, gates, spent>>

(* A stop, a reply, materials: the campaign's end takes the mail with it   *)
EndCampaign(m, state) ==
  /\ camp' = [camp EXCEPT ![m].state = state, ![m].rev = @ + 1,
                          ![m].events = IF state = "action-required" THEN @ + 1 ELSE @]
  /\ IF mail[m].state = "prepared"
     THEN Cancelled(m) /\ mail' = [mail EXCEPT ![m].state = "cancelled"]
     ELSE /\ mail' = [mail EXCEPT ![m].state = IF @ = "claimed" THEN "cancelled" ELSE @]
          /\ UNCHANGED auths

Stop ==
  /\ \E m \in Mails : camp[m].state # "stopped" /\ EndCampaign(m, "stopped")
  /\ UNCHANGED <<facts, own, global, controls, gates, spent>>

(* A sender prepares the mail, anew when a release gave the touch back     *)
Prepare ==
  /\ \E m \in Mails :
       /\ mail[m].state = "claimed" /\ mail[m].gen < MaxGens /\ camp[m].state = "live"
       /\ mail' = [mail EXCEPT ![m] = [state |-> "prepared", gen |-> mail[m].gen + 1, by |-> None]]
  /\ UNCHANGED <<facts, own, global, controls, camp, auths, gates, spent>>

Release ==
  /\ \E m \in Mails :
       /\ Cancelled(m) /\ camp[m].state = "live"
       /\ mail' = [mail EXCEPT ![m].state = "claimed"]
  /\ UNCHANGED <<facts, own, global, controls, camp, gates, spent>>

(***************************************************************************)
(* Authorizations                                                          *)
(***************************************************************************)
(* Of an unexpired one a second is refused; an expired one is withdrawn.   *)
MayIssue(m) ==
  /\ {a \in Open(m) : ~a.lapsed} = {}
  /\ Chain(m) # 0
  /\ mail[m].state = "prepared"

Issued(m) == [id |-> Cardinality(auths) + 1, mail |-> m, gen |-> mail[m].gen,
              act |-> Chain(m), state |-> "issued", lapsed |-> FALSE]
Issue ==
  /\ Cardinality(auths) < MaxAuths
  /\ \E m \in Mails : MayIssue(m) /\ auths' = WithdrawOf(m) \cup {Issued(m)}
  /\ UNCHANGED <<facts, own, global, controls, camp, mail, gates, spent>>

Lapse ==
  /\ \E a \in auths :
       /\ a.state = "issued" /\ ~a.lapsed
       /\ auths' = (auths \ {a}) \cup {[a EXCEPT !.lapsed = TRUE]}
  /\ UNCHANGED <<facts, own, global, controls, camp, mail, gates, spent>>

(***************************************************************************)
(* The gate                                                                *)
(***************************************************************************)
Go(g, pc) == gates' = [gates EXCEPT ![g].pc = pc]
End(g) == gates' = [gates EXCEPT ![g] = [pc |-> "idle", mail |-> None, auth |-> None, ctx |-> None, seen |-> None]]

Context(m) == [gen |-> mail[m].gen, state |-> mail[m].state, rev |-> camp[m].rev, global |-> global, act |-> Chain(m)]

(* The context: rows and the global revision, in one read *)
ReadContext(g) ==
  /\ gates[g].pc = "idle"
  /\ \E a \in auths :
       /\ mail[a.mail].state = "prepared" /\ a.gen = mail[a.mail].gen
       /\ gates' = [gates EXCEPT ![g] = [pc |-> "read", mail |-> a.mail, auth |-> a.id,
                                         ctx |-> Context(a.mail), seen |-> None]]
  /\ UNCHANGED <<facts, own, global, controls, camp, mail, auths, spent>>

(* A policy it does not know: the campaign needs attention, once.  The     *)
(* event is for the revision that was read; a second try reads it again.    *)
UnknownPolicy(m) == m \in Unknown
(* Mutant of Projected: the event is appended whatever the revision *)
ProjectedAnyway(g, m) == camp[m].state \in {"live", "action-required"}
Projected(g, m) == camp[m].rev = gates[g].ctx.rev /\ camp[m].state \in {"live", "action-required"}

DemandAction(g) ==
  LET m == gates[g].mail IN
  /\ gates[g].pc = "read" /\ UnknownPolicy(m)
  /\ Projected(g, m)
  /\ EndCampaign(m, "action-required")
  /\ End(g)
  /\ UNCHANGED <<facts, own, global, controls, spent>>

(* The event was refused: what was meant has happened, or it is tried for  *)
(* the revision of now.                                                     *)
TryAgain(g) ==
  LET m == gates[g].mail IN
  /\ gates[g].pc = "read" /\ UnknownPolicy(m) /\ camp[m].rev # gates[g].ctx.rev
  /\ IF camp[m].state # "live" THEN End(g)
     ELSE gates' = [gates EXCEPT ![g].ctx.rev = camp[m].rev]
  /\ UNCHANGED <<facts, own, global, controls, camp, mail, auths, spent>>

(* What the sources and the broker's materials say of a member; the rest   *)
(* is for the transaction to read.                                          *)
Favour(m) == facts[m] \ InPlace
(* As evidence: with the revision of the opportunity it was read at *)
Evidence(m, ready) == [facts |-> Favour(m), own |-> own[m], ready |-> ready]
(* The provider is ready or not, and only for a while *)
Readiness == BOOLEAN

Judge(g) ==
  LET m == gates[g].mail IN
  /\ gates[g].pc = "read" /\ ~UnknownPolicy(m)
  /\ \E ready \in Readiness :
       gates' = [gates EXCEPT ![g].pc = "judged", ![g].seen = Evidence(m, ready)]
  /\ UNCHANGED <<facts, own, global, controls, camp, mail, auths, spent>>

(***************************************************************************)
(* authorizeCimProviderPending, in the order of its checks                 *)
(***************************************************************************)
StillPrepared(g) ==
  LET m == gates[g].mail IN
  /\ mail[m].state = "prepared" /\ gates[g].ctx.gen = mail[m].gen /\ gates[g].ctx.state = "prepared"

(* The revisions are those of the evidence *)
(* Mutant of Fresh: the revision all opportunities share is not compared *)
FreshByOwn(g) == own[gates[g].mail] = gates[g].seen.own
Fresh(g) == global = gates[g].ctx.global /\ own[gates[g].mail] = gates[g].seen.own

(* Mutant of AuthorizationStands: a withdrawn authorization is not noticed *)
AuthorizationIsThere(g) == Auth(gates[g].auth).gen = mail[gates[g].mail].gen
AuthorizationStands(g) ==
  LET a == Auth(gates[g].auth) IN
  /\ a.state = "issued" /\ ~a.lapsed /\ a.gen = mail[a.mail].gen
  /\ Chain(a.mail) # 0 /\ Chain(a.mail) = a.act /\ gates[g].ctx.act = a.act

CampaignStands(g) == LET m == gates[g].mail IN camp[m].state = "live" /\ camp[m].rev = gates[g].ctx.rev

(* Off pauses a campaign of the rule, without an event *)
Permitted(g) == gates[g].mail \in ByRule => RuleOn

EvidenceStands(g) ==
  /\ gates[g].seen.facts = AllFacts \ InPlace
  /\ InPlace \subseteq facts[gates[g].mail]

Authorizable(g) ==
  /\ StillPrepared(g) /\ gates[g].seen.ready /\ Fresh(g) /\ ~controls.paused
  /\ AuthorizationStands(g) /\ CampaignStands(g) /\ Permitted(g) /\ EvidenceStands(g)

Authorize(g) ==
  LET m == gates[g].mail a == Auth(gates[g].auth) IN
  /\ gates[g].pc = "judged" /\ Authorizable(g)
  /\ mail' = [mail EXCEPT ![m].state = "pending", ![m].by = a.id]
  /\ auths' = (auths \ {a}) \cup {[a EXCEPT !.state = "consumed"]}
  /\ End(g)
  /\ UNCHANGED <<facts, own, global, controls, camp, spent>>

(* Blocked, or the answer is lost: nothing changes, an audit row apart *)
Blocked(g) ==
  /\ gates[g].pc \in {"read", "judged"}
  /\ gates[g].pc = "judged" => ~Authorizable(g)
  /\ End(g)
  /\ UNCHANGED <<facts, own, global, controls, camp, mail, auths, spent>>

FinalGateNext ==
  \/ Change \/ Switch \/ WithdrawAuthorization \/ Stop \/ Prepare \/ Release \/ Issue \/ Lapse
  \/ \E g \in Gates :
       \/ ReadContext(g) \/ DemandAction(g) \/ TryAgain(g)
       \/ Judge(g) \/ Authorize(g) \/ Blocked(g)

FinalGateSpec == FinalGateInit /\ [][FinalGateNext]_gateVars

(***************************************************************************)
(* Properties                                                              *)
(***************************************************************************)
(* Every variable has its type. *)
FinalGateTypeOK ==
  /\ facts \in [Mails -> SUBSET AllFacts]
  /\ own \in [Mails -> 1..MaxChanges + 1] /\ global \in 1..MaxChanges + 1
  /\ \A m \in Mails : /\ camp[m].state \in {"live", "action-required", "stopped"}
                      /\ mail[m].state \in {"claimed", "prepared", "cancelled", "pending"}
                      /\ mail[m].gen \in 0..MaxGens
  /\ \A a \in auths : a.mail \in Mails /\ a.state \in {"issued", "withdrawn", "consumed"}
  /\ \A g \in Gates : gates[g].pc \in {"idle", "read", "judged"}

(* One authorization, one call: a mail handed over used the one            *)
(* authorization made for its present form, no other is ever used, and a   *)
(* mail has one that may be used at most (maximum_calls = 1,               *)
(* issueCimLiveProviderAuthorization, authorizeCimProviderPending).         *)
SpentOnce ==
  \A m \in Mails :
    /\ {a.id : a \in {b \in auths : b.mail = m /\ b.state = "consumed"}}
         = IF mail[m].state = "pending" THEN {mail[m].by} ELSE {}
    /\ mail[m].state = "pending" => Auth(mail[m].by).gen = mail[m].gen
    /\ Cardinality(Open(m)) <= 1
    /\ mail[m].state # "prepared" => Open(m) = {}

(* A policy nobody knows sends nothing, and says so once *)
(* (unknown_policy_version in authorizePreparedCimTransmission).            *)
SaidOnce == \A m \in Mails :
  camp[m].events <= 1 /\ (m \in Unknown => mail[m].state # "pending")

(* A mail is handed over only while everything in its favour holds: the    *)
(* evidence that was read before the awaits is that of now, nothing is     *)
(* paused, the activations stand in a chain and the campaign is live        *)
(* (authorizeCimProviderPending).                                           *)
HandedOver(m) == mail[m].state # "pending" /\ mail'[m].state = "pending"
OnFactsStep ==
  \A m \in Mails : HandedOver(m) =>
    /\ facts[m] = AllFacts /\ ~controls.paused /\ camp[m].state = "live"
    /\ m \in ByRule => controls.rule
    /\ controls.initial # 0
    /\ m \in FollowUps => controls.follow.under = controls.initial
HandedOverOnFacts == [][OnFactsStep]_gateVars
================================================================================
