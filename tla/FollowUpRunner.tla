----------------------------- MODULE FollowUpRunner -----------------------------
(***************************************************************************)
(* The automatic follow-ups of CIM requests: runDealHunterCimFollowUps and   *)
(* processLegacyCimFollowUpRequest (dealHunter.js) beside the provider's     *)
(* reports and replies (emailEvents.js, communications.js).  A run lists the *)
(* due rows and then handles its copies one by one; several of its updates   *)
(* write the copy back whole, the others compare updated_at ("fresh": the    *)
(* version the run holds still stands).  All rows are of one opportunity and *)
(* one recipient, the oldest first.                                          *)
(***************************************************************************)
EXTENDS Naturals, FiniteSets

CONSTANTS
  Rows,        \* requests of one opportunity, 1 the oldest
  Runs,        \* runs that may overlap (the scheduler's, an administrator's)
  Max,         \* DEAL_HUNTER_CIM_FOLLOW_UP_MAX_COUNT
  Verdicts,    \* the provider's answers among "sent", "failed", "ambiguous"
  Unlinked,    \* rows listed without a canonical opportunity
  Replies,     \* rows that may be replied to
  MaxFaults,   \* bound on updates that fail
  MaxRestarts, \* bound on restarts of the process
  None         \* nobody

RunnerAssumption ==
  /\ Rows \subseteq Nat \ {0} /\ Rows # {} /\ Max \in Nat \ {0} /\ Unlinked \subseteq Rows /\ Replies \subseteq Rows
  /\ Verdicts \subseteq {"sent", "failed", "ambiguous"}
  /\ MaxFaults \in Nat /\ MaxRestarts \in Nat /\ None \notin Runs

VARIABLES
  row,        \* the requests' rows
  message,    \* message[q][n]: the communication of follow-up n
  unsure,     \* unsure[q]: follow-ups handed again after an ambiguous answer
  taken,      \* taken[q]: follow-ups the provider has accepted
  lock,       \* cimFollowUpLocks
  broker,     \* the recipient's durable claim
  suppressed, \* the recipient's suppression
  event,      \* event[q]: the stored e-mail event that ends the sequence
  late,       \* late[q]: runs at work on q when its event was stored
  hook,       \* copies the reply's webhook has still to write
  run,        \* state of each run
  faults, restarts

vars == <<row, message, unsure, taken, lock, broker, suppressed, event, late, hook, run, faults, restarts>>
mail == <<message, unsure, taken>>
world == <<suppressed, event, late, hook, restarts>>

Numbers == 1..Max
RowType ==
  [status : {"sent", "pending", "failed", "ambiguous", "responded", "issue"},
   seq : {"scheduled", "failed", "stopped", "completed"}, due : {"none", "later", "now"},
   count : 0..(Max + 1), resp : BOOLEAN, linked : BOOLEAN, aged : BOOLEAN]
Blank == [status |-> "sent", seq |-> "stopped", due |-> "none", count |-> 0,
          resp |-> FALSE, linked |-> TRUE, aged |-> FALSE]
Steps == {"idle", "listed", "held", "checked", "looked", "claimed", "persisted", "renewed",
          "handed", "answered", "saved"}

TypeOK ==
  /\ row \in [Rows -> RowType]
  /\ message \in [Rows -> [Numbers -> {"none", "ready", "failed", "ambiguous", "accepted", "delivered", "bounced"}]]
  /\ unsure \in [Rows -> SUBSET Numbers]
  /\ taken \in [Rows -> SUBSET Numbers]
  /\ lock \in [Rows -> Runs \cup {None}] /\ broker \in Runs \cup {None} /\ suppressed \in BOOLEAN
  /\ event \in [Rows -> {"none", "reply", "bounce"}] /\ late \in [Rows -> SUBSET Runs]
  /\ hook.todo \subseteq Rows /\ hook.copies \in [Rows -> RowType]
  /\ run \in [Runs -> [pc : Steps, todo : SUBSET Rows, q : Rows, copies : [Rows -> RowType], n : 0..Max,
                       fresh : BOOLEAN, outcome : {"none", "sent", "failed", "ambiguous"}]]
  /\ faults \in 0..MaxFaults /\ restarts \in 0..MaxRestarts

Idle == [pc |-> "idle", todo |-> {}, q |-> CHOOSE q \in Rows : TRUE, copies |-> [q \in Rows |-> Blank],
         n |-> 0, fresh |-> FALSE, outcome |-> "none"]
NoHook == [todo |-> {}, copies |-> [q \in Rows |-> Blank]]

(* Accepted requests whose first follow-up is due *)
Init ==
  /\ row = [q \in Rows |-> [status |-> "sent", seq |-> "scheduled", due |-> "now", count |-> 0,
                            resp |-> FALSE, linked |-> q \notin Unlinked, aged |-> FALSE]]
  /\ message = [q \in Rows |-> [n \in Numbers |-> "none"]]
  /\ unsure = [q \in Rows |-> {}] /\ taken = [q \in Rows |-> {}]
  /\ lock = [q \in Rows |-> None] /\ broker = None /\ suppressed = FALSE
  /\ event = [q \in Rows |-> "none"] /\ late = [q \in Rows |-> {}] /\ hook = NoHook
  /\ run = [w \in Runs |-> Idle] /\ faults = 0 /\ restarts = 0

Active(r) == r.due # "none" \/ r.status = "pending"
Stopped(r) == [r EXCEPT !.seq = "stopped", !.due = "none"]

-----------------------------------------------------------------------------
(* What a run leaves behind *)

(* Rows are written: the versions the runs hold of them are gone *)
Aged(rows) == [v \in Runs |-> IF run[v].q \in rows THEN [run[v] EXCEPT !.fresh = FALSE] ELSE run[v]]

(* The row's turn ends: its lock and the recipient's claim are released, and the  *)
(* row it leaves is r                                                            *)
Leave(w, r) ==
  LET q == run[w].q  rest == run[w].todo \ {q} IN
  /\ row' = [row EXCEPT ![q] = r]
  /\ run' = [v \in Runs |->
               IF v = w THEN IF rest = {} THEN Idle
                             ELSE [Idle EXCEPT !.pc = "listed", !.todo = rest,
                                               !.copies = [run[w].copies EXCEPT ![q] = Blank]]
               ELSE IF run[v].q = q /\ r # row[q] THEN [run[v] EXCEPT !.fresh = FALSE] ELSE run[v]]
  /\ lock' = [lock EXCEPT ![q] = IF @ = w THEN None ELSE @]
  /\ broker' = IF broker = w THEN None ELSE broker

Goto(w, pc) == run' = [run EXCEPT ![w].pc = pc]
Copy(w) == run[w].copies[run[w].q]

(* Mutant of Held: finalization without the version of the claim *)
HeldByStatus(w) == row[run[w].q].status = "pending"

(* finalize_deal_hunter_cim_request_claim: the claim's version and status stand *)
Held(w) == run[w].fresh /\ row[run[w].q].status = "pending"

(* Release of a claim that may not send now: the sequence stays due *)
Deferred(w) == [Copy(w) EXCEPT !.status = "failed", !.seq = "scheduled", !.due = "now", !.aged = FALSE]
Defer(w) == Leave(w, IF Held(w) THEN Deferred(w) ELSE row[run[w].q])

(* Mutant of Updated: a follow-up is counted whether or not it was accepted *)
UpdatedAlways(r, outcome) ==
  [r EXCEPT !.status = IF outcome = "sent" THEN "sent" ELSE "failed", !.aged = FALSE,
     !.count = @ + 1, !.due = IF r.count + 1 < Max THEN "later" ELSE "none",
     !.seq = IF r.count + 1 < Max THEN "scheduled" ELSE "completed"]

(* buildCimFollowUpUpdate *)
Updated(r, outcome) ==
  CASE outcome = "sent" ->
       [r EXCEPT !.status = "sent", !.count = @ + 1, !.aged = FALSE,
          !.due = IF r.count + 1 < Max THEN "later" ELSE "none",
          !.seq = IF r.count + 1 < Max THEN "scheduled" ELSE "completed"]
    [] outcome = "ambiguous" -> [r EXCEPT !.status = "ambiguous", !.seq = "stopped", !.due = "none", !.aged = FALSE]
    [] OTHER -> [r EXCEPT !.status = "failed", !.seq = "failed", !.due = "later", !.aged = FALSE]

-----------------------------------------------------------------------------
(* The runs *)

(* runDealHunterCimFollowUps: the due rows, as they are now *)
List(w) ==
  LET due == {q \in Rows : row[q].due = "now" /\ row[q].status \notin {"responded", "issue"}} IN
  /\ run[w].pc = "idle" /\ due # {}
  /\ run' = [run EXCEPT ![w] = [run[w] EXCEPT !.pc = "listed", !.todo = due,
               !.copies = [q \in Rows |-> IF q \in due THEN row[q] ELSE Blank]]]
  /\ UNCHANGED <<row, mail, lock, broker, faults, world>>

(* The next copy *)
Take(w) ==
  /\ run[w].pc = "listed"
  /\ \E q \in run[w].todo :
       /\ lock[q] = None
       /\ lock' = [lock EXCEPT ![q] = w]
       /\ run' = [run EXCEPT ![w].pc = "held", ![w].q = q]
  /\ UNCHANGED <<row, mail, broker, faults, world>>

(* A copy is skipped: another run holds its lock, or outreach is paused *)
Skip(w) ==
  /\ run[w].pc = "listed"
  /\ \E q \in run[w].todo :
       run' = [run EXCEPT ![w] = IF run[w].todo = {q} THEN Idle
                                 ELSE [run[w] EXCEPT !.todo = @ \ {q}, !.copies[q] = Blank]]
  /\ UNCHANGED <<row, mail, lock, broker, faults, world>>

(* The recipient's cap or Pursue holds it back *)
HoldBack(w) ==
  /\ run[w].pc \in {"held", "checked"} /\ Copy(w).linked /\ ~suppressed
  /\ Leave(w, row[run[w].q])
  /\ UNCHANGED <<mail, faults, world>>

(* Another row of the opportunity controls this one *)
EndedSibling(q) == \E p \in Rows \ {q} : row[p].resp \/ (row[p].status = "issue" /\ suppressed)

(* Mutant of OlderActive: the youngest active sequence is kept *)
OlderActiveReversed(q) == \E p \in Rows : p > q /\ Active(row[p])
OlderActive(q) == \E p \in Rows : p < q /\ Active(row[p])

(* Suppression, identity and siblings: each writes the copy back *)
Check(w) ==
  LET q == run[w].q IN
  /\ run[w].pc = "held"
  /\ IF suppressed \/ (Copy(w).linked /\ (EndedSibling(q) \/ (OlderActive(q) /\ Active(row[q]))))
     THEN Leave(w, Stopped(Copy(w)))
     ELSE /\ IF Copy(w).linked
             THEN Goto(w, "checked") /\ UNCHANGED row
             ELSE /\ row' = [row EXCEPT ![q] = [Copy(w) EXCEPT !.linked = TRUE]]
                  /\ run' = [Aged({q}) EXCEPT ![w] = [run[w] EXCEPT !.copies[q].linked = TRUE]]
          /\ UNCHANGED <<lock, broker>>
  /\ UNCHANGED <<mail, faults, world>>

(* Mutant of Heard: the events of the request are not asked for *)
HeardNothing(q) == "none"
(* loadCimRequestEvents *)
Heard(q) == event[q]

(* The stored events and the maximum *)
Look(w) ==
  LET q == run[w].q IN
  /\ run[w].pc = "checked"
  /\ \/ /\ Heard(q) = "reply"
        /\ Leave(w, [Stopped(Copy(w)) EXCEPT !.status = "responded", !.resp = TRUE])
     \/ Heard(q) = "bounce" /\ Leave(w, [Stopped(Copy(w)) EXCEPT !.status = "issue"])
     \/ /\ Heard(q) = "none" /\ Copy(w).count >= Max
        /\ Leave(w, [Copy(w) EXCEPT !.seq = "completed", !.due = "none"])
     \/ Heard(q) = "none" /\ Copy(w).count < Max /\ Goto(w, "looked") /\ UNCHANGED <<row, lock, broker>>
  /\ UNCHANGED <<mail, faults, world>>

(* claimDealHunterCimFollowUpRequest: the row as it is, not the copy *)
Claimable(r) == r.due = "now" /\ (r.status \in {"sent", "failed"} \/ (r.status = "pending" /\ r.aged))

Claim(w) ==
  LET q == run[w].q  claimed == [row[q] EXCEPT !.status = "pending", !.aged = FALSE] IN
  /\ run[w].pc = "looked"
  /\ IF Claimable(row[q])
     THEN /\ row' = [row EXCEPT ![q] = claimed]
          /\ run' = [Aged({q}) EXCEPT ![w] = [run[w] EXCEPT !.pc = "claimed", !.n = Copy(w).count + 1,
                                               !.copies[q] = claimed, !.fresh = TRUE]]
          /\ UNCHANGED <<lock, broker>>
     ELSE Leave(w, row[q])
  /\ UNCHANGED <<mail, faults, world>>

(* acceptedCimCommunicationProof *)
Proof(state) == state \in {"accepted", "delivered", "bounced"}

(* reconcileAcceptedCimFollowUp: the saved communication is accepted already *)
Reconciled(w) == Proof(message[run[w].q][run[w].n])

(* The recipient's claim and the exact message; an accepted one is reconciled *)
Persist(w) ==
  LET q == run[w].q  n == run[w].n IN
  /\ run[w].pc = "claimed"
  /\ \/ broker # None /\ Defer(w) /\ UNCHANGED <<mail, faults>>
     \/ /\ broker = None /\ Reconciled(w)
        /\ Leave(w, IF ~Held(w) THEN row[q]
                    ELSE IF message[q][n] = "bounced" THEN [Stopped(Updated(Copy(w), "sent")) EXCEPT !.status = "issue"]
                    ELSE Updated(Copy(w), "sent"))
        /\ UNCHANGED <<mail, faults>>
     \/ /\ broker = None /\ ~Reconciled(w)
        /\ broker' = w /\ Goto(w, "persisted")
        /\ message' = [message EXCEPT ![q][n] = IF @ = "none" THEN "ready" ELSE @]
        /\ UNCHANGED <<row, lock, unsure, taken, faults>>
     \/ /\ broker = None /\ message[q][n] = "none" /\ faults < MaxFaults
        /\ faults' = faults + 1
        /\ Leave(w, IF Held(w) THEN Updated(Copy(w), "failed") ELSE row[q])
        /\ UNCHANGED mail
  /\ UNCHANGED world

(* renewDealHunterCimRequestClaim, and the pause and the cap once more *)
Renew(w) ==
  /\ run[w].pc = "persisted"
  /\ \/ ~Held(w) /\ Leave(w, row[run[w].q])
     \/ Held(w) /\ Defer(w)
     \/ Held(w) /\ Goto(w, "renewed") /\ UNCHANGED <<row, lock, broker>>
  /\ UNCHANGED <<mail, faults, world>>

Hand(w) ==
  LET q == run[w].q  n == run[w].n IN
  /\ run[w].pc = "renewed"
  /\ unsure' = IF message[q][n] = "ambiguous" THEN [unsure EXCEPT ![q] = @ \cup {n}] ELSE unsure
  /\ Goto(w, "handed")
  /\ UNCHANGED <<row, message, taken, lock, broker, faults, world>>

(* The provider knows a message it has by its idempotency key *)
Answer(w) ==
  LET q == run[w].q  n == run[w].n IN
  /\ run[w].pc = "handed"
  /\ \E outcome \in Verdicts :
       /\ n \in taken[q] => outcome # "failed"
       /\ run' = [run EXCEPT ![w].pc = "answered", ![w].outcome = outcome]
       /\ \E has \in IF outcome = "ambiguous" THEN BOOLEAN ELSE {outcome = "sent"} :
            taken' = IF has THEN [taken EXCEPT ![q] = @ \cup {n}] ELSE taken
  /\ UNCHANGED <<row, message, unsure, lock, broker, faults, world>>

(* updateCimCommunicationAfterSend: whatever the communication says by now *)
Save(w) ==
  LET q == run[w].q  n == run[w].n IN
  /\ run[w].pc = "answered" /\ Goto(w, "saved")
  /\ \/ /\ message' = [message EXCEPT ![q][n] = IF run[w].outcome = "sent" THEN "accepted" ELSE run[w].outcome]
        /\ UNCHANGED faults
     \/ faults < MaxFaults /\ faults' = faults + 1 /\ UNCHANGED message
  /\ UNCHANGED <<row, unsure, taken, lock, broker, world>>

Finalize(w) ==
  /\ run[w].pc = "saved"
  /\ Leave(w, IF Held(w) THEN Updated(Copy(w), run[w].outcome) ELSE row[run[w].q])
  /\ UNCHANGED <<mail, faults, world>>

-----------------------------------------------------------------------------
(* The provider's events, the clock and the process *)

(* The row after a delivery report (preserveStoppedOutreach); a stopped one stays *)
Reported(r, state) ==
  LET ended == r.resp \/ r.seq = "stopped" IN
  [r EXCEPT !.status = IF r.resp THEN "responded" ELSE IF ended THEN @
                       ELSE IF state = "bounced" THEN "issue" ELSE "sent",
            !.due = IF ended \/ state = "bounced" THEN "none" ELSE @, !.aged = FALSE]

(* applyEmailLifecycleToCommunication *)
Report(q, n) ==
  /\ n \in taken[q]
  /\ \E state \in {"accepted", "delivered", "bounced"} :
       /\ message[q][n] \in IF state = "accepted" THEN {"ready", "ambiguous"}
                            ELSE {"ready", "ambiguous", "accepted", "delivered"} \ {state}
       /\ message' = [message EXCEPT ![q][n] = state]
       /\ row' = [row EXCEPT ![q] = Reported(@, state)]
       /\ suppressed' = (suppressed \/ state = "bounced")
       /\ event' = IF state = "bounced" /\ event[q] = "none" THEN [event EXCEPT ![q] = "bounce"] ELSE event
       /\ late' = IF event' # event THEN [late EXCEPT ![q] = {w \in Runs : lock[q] = w}] ELSE late
  /\ run' = Aged({q})
  /\ UNCHANGED <<unsure, taken, lock, broker, hook, faults, restarts>>

(* A reply: the event is stored *)
Reply(q) ==
  /\ q \in Replies /\ event[q] = "none"
  /\ event' = [event EXCEPT ![q] = "reply"]
  /\ late' = [late EXCEPT ![q] = {w \in Runs : lock[q] = w}]
  /\ UNCHANGED <<row, mail, lock, broker, suppressed, hook, run, faults, restarts>>

(* stopCanonicalCimSequencesForReply: the rows are read, then written one by one  *)
HookRead ==
  LET open == {q \in Rows : row[q].due # "none" \/ row[q].seq \notin {"stopped", "completed"} \/ ~row[q].resp} IN
  /\ hook = NoHook /\ open # {} /\ \E q \in Rows : event[q] = "reply"
  /\ hook' = [todo |-> open, copies |-> [q \in Rows |-> IF q \in open THEN row[q] ELSE Blank]]
  /\ UNCHANGED <<row, mail, lock, broker, suppressed, event, late, run, faults, restarts>>

HookWrite(q) ==
  /\ q \in hook.todo
  /\ row' = [row EXCEPT ![q] = [Stopped(hook.copies[q]) EXCEPT !.resp = TRUE, !.aged = FALSE]]
  /\ hook' = [hook EXCEPT !.todo = @ \ {q}, !.copies[q] = Blank]
  /\ run' = Aged({q})
  /\ UNCHANGED <<mail, lock, broker, suppressed, event, late, faults, restarts>>

(* The next follow-up falls due; no run lasts until then *)
DueComes(q) ==
  /\ row[q].due = "later" /\ row' = [row EXCEPT ![q].due = "now"]
  /\ \A w \in Runs : q \notin run[w].todo
  /\ q \notin hook.todo
  /\ UNCHANGED <<mail, lock, broker, run, faults, world>>

(* Half an hour passes over a claim whose run is gone; calls are shorter *)
Age(q) ==
  /\ row[q].status = "pending" /\ ~row[q].aged /\ lock[q] = None
  /\ row' = [row EXCEPT ![q].aged = TRUE]
  /\ UNCHANGED <<mail, lock, broker, run, faults, world>>

(* Ten minutes pass over the recipient's claim of a run that is gone *)
Lapse ==
  /\ broker # None /\ run[broker].pc = "idle" /\ broker' = None
  /\ UNCHANGED <<row, mail, lock, run, faults, world>>

Restart ==
  /\ restarts < MaxRestarts /\ restarts' = restarts + 1
  /\ \E w \in Runs : run[w].pc \notin {"idle", "listed"}
  /\ run' = [w \in Runs |-> Idle] /\ lock' = [q \in Rows |-> None] /\ hook' = NoHook
  /\ UNCHANGED <<row, mail, broker, suppressed, event, late, faults>>

Step(w) ==
  \/ Take(w) \/ Skip(w) \/ HoldBack(w) \/ Check(w) \/ Look(w) \/ Claim(w) \/ Persist(w) \/ Renew(w)
  \/ Hand(w) \/ Answer(w) \/ Save(w) \/ Finalize(w)

Next ==
  \/ \E w \in Runs : List(w) \/ Step(w)
  \/ \E q \in Rows : Reply(q) \/ HookWrite(q) \/ DueComes(q) \/ Age(q)
  \/ \E q \in Rows, n \in Numbers : Report(q, n)
  \/ HookRead \/ Lapse \/ Restart

Spec == Init /\ [][Next]_vars

-----------------------------------------------------------------------------
(* Properties *)

(* A row never counts more follow-ups than the provider has taken of it, whatever  *)
(* runs, reports and stale copies do (buildCimFollowUpUpdate).                     *)
CountIsTrue == \A q \in Rows : 1..row[q].count \subseteq taken[q]

(* A younger request of the opportunity is written for only once the older ones   *)
(* have ended: two overlapping runs never work on two sequences of one broker.     *)
WhenOlderEnded ==
  \A w \in Runs : Hand(w) => \A p \in Rows : p < run[w].q => row[p].due = "none"
OldestFirst == [][WhenOlderEnded]_vars

(* A sequence that has stopped stays stopped: no copy, late answer or report       *)
(* gives it a due time again.                                                      *)
StaysStopped ==
  \A q \in Rows : row[q].seq = "stopped" => row'[q].due = "none"
NeverResumes == [][StaysStopped]_vars

(* Once a reply is stored, only the run that held the request's lock at that moment *)
(* may still hand a follow-up over; a failed webhook changes nothing of that.       *)
AlreadyAtWork ==
  \A w \in Runs : Hand(w) /\ event[run[w].q] # "none" => w \in late[run[w].q]
AnsweredIsQuiet == [][AlreadyAtWork]_vars

(* An ambiguous follow-up is not handed over again.                                *)
UnsureIsLeftAlone == \A q \in Rows : unsure[q] = {}

(* What a run has claimed is settled in the end, by it or by a run half an hour    *)
(* later, and a reply reaches its row.                                             *)
Claimed(q) == row[q].status = "pending" /\ row[q].due # "none"
ClaimsSettle == \A q \in Rows : Claimed(q) ~> ~Claimed(q)
Answered(q) == event[q] = "reply"
Quiet(q) == row[q].due = "none"
RepliesTakeEffect == \A q \in Rows : Answered(q) ~> Quiet(q)

FairSpec ==
  /\ Spec
  /\ \A w \in Runs : WF_vars(Step(w)) /\ SF_vars(List(w)) /\ SF_vars(Look(w))
  /\ \A w \in Runs, q \in Rows : SF_vars(Take(w) /\ run'[w].q = q) /\ SF_vars(Check(w) /\ run[w].q = q)
  /\ \A q \in Rows : WF_vars(HookWrite(q)) /\ SF_vars(Age(q))
  /\ WF_vars(HookRead) /\ WF_vars(Lapse)

=================================================================================
