---------------------------- MODULE ManualFollowUps ----------------------------
(***************************************************************************)
(* The follow-ups an administrator approves one by one for a CIM request    *)
(* (dealHunterManualFollowUps.js, processApprovedManualCimFollowUp of        *)
(* dealHunter.js, the transactions of sqlite.js): start, prepare, approve,   *)
(* claim, persist, hand to the provider, finalize, stop, and the status      *)
(* check that reconciles an accepted message.  A row's updated_at is a       *)
(* version; "fresh" says that the version a call has read still stands.      *)
(***************************************************************************)
EXTENDS Naturals, FiniteSets

CONSTANTS
  Calls,       \* approvals: one preparation and its approval
  Max,         \* MANUAL_FOLLOW_UP_MAXIMUM (five in the code)
  Greetings,   \* the greetings an administrator may type
  MaxFaults,   \* bound on updates of the communication that fail
  MaxRestarts, \* bound on restarts of the process
  None         \* no holder of the lock

ManualAssumption ==
  /\ Max \in Nat \ {0} /\ Greetings \subseteq Nat \ {0}
  /\ MaxFaults \in Nat /\ MaxRestarts \in Nat /\ None \notin Calls

VARIABLES
  row,      \* the request's row
  message,  \* message[n]: the communication of follow-up n
  stamped,  \* stamped[n]: it has firstProviderAcceptedAt
  greeting, \* greeting[n]: the text it was persisted with (0: not yet)
  handed,   \* handed[n]: times it was handed to the provider
  refused,  \* refused[n]: times the provider definitively refused it
  taken,    \* the numbers the provider has accepted
  lock,     \* cimFollowUpLocks
  over,     \* a reply, materials, a pass or a suppression is stored
  call,     \* state of each approval
  faults, restarts

vars == <<row, message, stamped, greeting, handed, refused, taken, lock, over, call, faults, restarts>>
mail == <<handed, refused, taken>>

Numbers == 1..Max
Ends == {"sent", "stale", "locked", "deferred", "stopped", "ambiguous", "failed", "lost"}
Steps == {"new", "prepared", "approved", "held", "claimed", "persisted", "cleared",
          "renewed", "handed", "answered", "saved"}

TypeOK ==
  /\ row \in [status : {"sent", "pending", "failed", "responded"},
              state : {"none", "scheduled", "failed", "ambiguous", "stopped", "completed"},
              due : {"none", "later", "now"}, count : 0..Max, marked : BOOLEAN, stopped : BOOLEAN,
              attempt : [n : 0..Max, outcome : {"none", "accepted", "failed", "ambiguous"}]]
  /\ message \in [Numbers -> {"none", "ready", "failed", "ambiguous", "accepted", "delivered"}]
  /\ stamped \in [Numbers -> BOOLEAN] /\ greeting \in [Numbers -> Greetings \cup {0}]
  /\ handed \in [Numbers -> Nat] /\ refused \in [Numbers -> Nat] /\ taken \subseteq Numbers
  /\ lock \in Calls \cup {None} /\ over \in BOOLEAN
  /\ call \in [Calls -> [pc : Steps \cup Ends, n : 0..Max, text : Greetings \cup {0},
                         fresh : BOOLEAN, outcome : {"none", "accepted", "failed", "ambiguous"}]]
  /\ faults \in 0..MaxFaults /\ restarts \in 0..MaxRestarts

(* An accepted request of the first phase, not enrolled *)
Init ==
  /\ row = [status |-> "sent", state |-> "none", due |-> "none", count |-> 0, marked |-> FALSE,
            stopped |-> FALSE, attempt |-> [n |-> 0, outcome |-> "none"]]
  /\ message = [n \in Numbers |-> "none"] /\ stamped = [n \in Numbers |-> FALSE]
  /\ greeting = [n \in Numbers |-> 0]
  /\ handed = [n \in Numbers |-> 0] /\ refused = [n \in Numbers |-> 0] /\ taken = {}
  /\ lock = None /\ over = FALSE
  /\ call = [c \in Calls |-> [pc |-> "new", n |-> 0, text |-> 0, fresh |-> FALSE, outcome |-> "none"]]
  /\ faults = 0 /\ restarts = 0

(* isManualFollowUpTerminal *)
Terminal(r) == r.status = "responded" \/ r.state \in {"stopped", "completed"} \/ r.stopped

(* manualFollowUpHasAmbiguity: the row's own state, or its next message's *)
Ambiguous == row.state = "ambiguous" \/ (row.count < Max /\ message[row.count + 1] = "ambiguous")

(* manualAcceptedCommunicationProof: webhooks set no firstProviderAcceptedAt *)
Proof(n) == message[n] = "accepted" \/ (message[n] = "delivered" /\ stamped[n])

(* The row is written: the version every call has read is gone *)
Aged == [d \in Calls |-> [call[d] EXCEPT !.fresh = FALSE]]

-----------------------------------------------------------------------------
(* Finalization (one transaction) *)

(* Mutant of Accepted: the count follows the message, not the transition *)
AcceptedAgain(n) ==
  [row EXCEPT !.count = @ + 1,
     !.due = IF Terminal(row) \/ n = Max THEN "none" ELSE "later",
     !.state = IF Terminal(row) THEN (IF @ = "completed" THEN @ ELSE "stopped")
               ELSE IF n = Max THEN "completed" ELSE "scheduled",
     !.status = IF @ = "responded" THEN @ ELSE "sent",
     !.attempt = [n |-> n, outcome |-> "accepted"]]

(* Mutant of Accepted: a stop that came meanwhile is overwritten *)
AcceptedAnyway(n) ==
  IF row.count # n - 1 \/ ~Proof(n) THEN row
  ELSE [row EXCEPT !.count = n, !.due = IF n = Max THEN "none" ELSE "later",
          !.state = IF n = Max THEN "completed" ELSE "scheduled",
          !.status = "sent", !.attempt = [n |-> n, outcome |-> "accepted"]]

(* The row after an accepted follow-up; a number counted already, or out of   *)
(* turn, changes nothing                                                      *)
Accepted(n) ==
  IF row.count # n - 1 \/ ~Proof(n) THEN row
  ELSE [row EXCEPT !.count = n,
          !.due = IF Terminal(row) \/ n = Max THEN "none" ELSE "later",
          !.state = IF Terminal(row) THEN (IF @ = "completed" THEN @ ELSE "stopped")
                    ELSE IF n = Max THEN "completed" ELSE "scheduled",
          !.status = IF @ = "responded" THEN @ ELSE "sent",
          !.attempt = [n |-> n, outcome |-> "accepted"]]

(* A definitive failure keeps the due time, an unsure outcome ends scheduling;  *)
(* both need the version of the claim                                          *)
Unaccepted(c, n, outcome) ==
  IF \/ ~call[c].fresh \/ row.status # "pending" \/ Terminal(row)
     \/ row.attempt.outcome = "ambiguous" \/ message[n] # outcome
  THEN row
  ELSE [row EXCEPT !.status = "failed", !.state = outcome,
          !.due = IF outcome = "ambiguous" THEN "none" ELSE @,
          !.attempt = [n |-> n, outcome |-> outcome]]

(* Mutant of Deferred: the claim is released without its due time *)
DeferredWithoutDue(terminal) ==
  [row EXCEPT !.status = "sent", !.state = IF terminal THEN "stopped" ELSE "scheduled", !.due = "none"]

(* deferApprovedManualClaim *)
Deferred(terminal) ==
  [row EXCEPT !.status = "sent", !.state = IF terminal THEN "stopped" ELSE "scheduled",
     !.due = IF terminal THEN "none" ELSE @]

(* A call ends: its answer, the lock, and the row it leaves *)
End(c, pc, r) ==
  /\ row' = r
  /\ call' = [d \in Calls |->
                IF d = c THEN [call[d] EXCEPT !.pc = pc, !.fresh = FALSE]
                ELSE [call[d] EXCEPT !.fresh = @ /\ r = row]]
  /\ lock' = IF lock = c THEN None ELSE lock

(* A claim is given back under its version, or left to whoever changed it *)
Defer(c, terminal) ==
  IF call[c].fresh /\ row.status = "pending"
  THEN End(c, IF terminal THEN "stopped" ELSE "deferred", Deferred(terminal))
  ELSE End(c, "locked", row)

Goto(c, pc) == call' = [call EXCEPT ![c].pc = pc]

-----------------------------------------------------------------------------
(* The administrator *)

Start ==
  /\ row.status = "sent" /\ row.state = "none" /\ ~row.marked /\ ~over
  /\ row' = [row EXCEPT !.state = "scheduled", !.due = "later", !.marked = TRUE]
  /\ call' = Aged
  /\ UNCHANGED <<message, stamped, greeting, mail, lock, over, faults, restarts>>

Stop ==
  /\ row.marked /\ ~Terminal(row) /\ row.count < Max
  /\ row' = [row EXCEPT !.state = "stopped", !.due = "none", !.stopped = TRUE]
  /\ call' = Aged
  /\ UNCHANGED <<message, stamped, greeting, mail, lock, over, faults, restarts>>

(* projectManualFollowUpState: what the administrator sees *)
Projected ==
  LET n == row.count + 1 IN
  CASE ~row.marked -> "not-enrolled"
    [] row.marked /\ (over \/ row.status = "responded") -> "closed"
    [] row.marked /\ ~over /\ row.status # "responded" ->
       IF row.state = "stopped" \/ row.stopped THEN "stopped"
       ELSE IF row.count = Max \/ row.state = "completed" THEN "completed"
       ELSE IF Ambiguous THEN "ambiguous"
       ELSE IF row.state = "failed" \/ row.status = "failed" \/ message[n] = "failed" THEN "retry"
       ELSE CASE row.due = "now" -> "due" [] row.due = "later" -> "scheduled" [] OTHER -> "stopped"

(* proposalForAuthority: the texts a proposal may have; a retry repeats the text  *)
(* of a failed message                                                           *)
Proposals(n) ==
  IF Projected = "retry" THEN IF message[n] = "failed" THEN {greeting[n]} ELSE {} ELSE Greetings

(* The signed preparation: the number, the text and the row's version *)
Prepare(c) ==
  /\ call[c].pc = "new" /\ row.due = "now" /\ Projected \in {"due", "retry"}
  /\ \E g \in Proposals(row.count + 1) :
       call' = [call EXCEPT ![c] = [@ EXCEPT !.pc = "prepared", !.n = row.count + 1, !.text = g, !.fresh = TRUE]]
  /\ UNCHANGED <<row, message, stamped, greeting, mail, lock, over, faults, restarts>>

(* Mutant of Reconcilable: the number that is due *)
ReconcilableDue == IF row.count < Max THEN row.count + 1 ELSE Max

(* reconcileDealHunterApprovedFollowUp looks at the last attempt's number first *)
Reconcilable ==
  IF row.attempt.n # 0 THEN row.attempt.n
  ELSE IF row.count < Max THEN row.count + 1 ELSE Max

(* Proof of the number looked at answers "sent" when the transaction applied or *)
(* had been applied                                                             *)
Reconciles(n) == Proof(n) /\ (row.count >= n \/ Accepted(n) # row)

(* The status check: the row follows an accepted message *)
Status ==
  /\ row.marked /\ Accepted(Reconcilable) # row
  /\ row' = Accepted(Reconcilable)
  /\ call' = Aged
  /\ UNCHANGED <<message, stamped, greeting, mail, lock, over, faults, restarts>>

(* approveDealHunterManualFollowUp: the approval stands when nothing it was     *)
(* shown has changed and nothing blocks sending                                 *)
Approve(c) ==
  /\ call[c].pc = "prepared"
  /\ \/ Reconciles(Reconcilable) /\ End(c, "sent", Accepted(Reconcilable))
     \/ /\ ~Reconciles(Reconcilable)
        /\ IF call[c].fresh /\ ~Proof(Reconcilable) /\ ~Ambiguous /\ ~over /\ ~Terminal(row)
           THEN Goto(c, "approved") /\ UNCHANGED <<row, lock>>
           ELSE End(c, "stale", row)
     \/ ~Reconciles(Reconcilable) /\ End(c, "stale", row)  \* paused, capped, not ready, held
  /\ UNCHANGED <<message, stamped, greeting, mail, over, faults, restarts>>

-----------------------------------------------------------------------------
(* The executor *)

Lock(c) ==
  /\ call[c].pc = "approved"
  /\ IF lock = None THEN lock' = c /\ Goto(c, "held") /\ UNCHANGED row ELSE End(c, "locked", row)
  /\ UNCHANGED <<message, stamped, greeting, mail, over, faults, restarts>>

(* Mutant of Claimable: a claim that stands is taken over *)
ClaimableAgain(c) ==
  /\ call[c].n = row.count + 1 /\ ~Terminal(row) /\ row.due = "now"

(* validApprovedManualFollowUpContext: the context is about the row as it is *)
ContextStands(c) == call[c].fresh /\ row.marked /\ call[c].n = row.count + 1

(* claimDealHunterApprovedFollowUpTransaction *)
Claimable(c) ==
  /\ ContextStands(c) /\ ~Terminal(row)
  /\ row.due = "now" /\ row.state \in {"scheduled", "failed"} /\ row.status \in {"sent", "failed"}

Claim(c) ==
  /\ call[c].pc = "held"
  /\ IF Claimable(c)
     THEN /\ row' = [row EXCEPT !.status = "pending"]
          /\ call' = [d \in Calls |-> IF d = c THEN [call[d] EXCEPT !.pc = "claimed"]
                                      ELSE [call[d] EXCEPT !.fresh = FALSE]]
          /\ UNCHANGED lock
     ELSE IF Proof(call[c].n) THEN End(c, "sent", Accepted(call[c].n))
     ELSE End(c, IF row.state = "ambiguous" THEN "ambiguous" ELSE "locked", row)
  /\ UNCHANGED <<message, stamped, greeting, mail, over, faults, restarts>>

(* manualCommunicationMatchesApprovedMessage *)
SameText(c) == greeting[call[c].n] = call[c].text

(* The recipient's claim and the communication; a message persisted before is   *)
(* kept, and one of another text stops the sequence                             *)
Persist(c) ==
  LET n == call[c].n IN
  /\ call[c].pc = "claimed"
  /\ \/ Defer(c, FALSE) /\ UNCHANGED <<message, greeting>>  \* the recipient is held, or saving fails
     \/ /\ message[n] = "none"
        /\ message' = [message EXCEPT ![n] = "ready"] /\ greeting' = [greeting EXCEPT ![n] = call[c].text]
        /\ Goto(c, "persisted") /\ UNCHANGED <<row, lock>>
     \/ /\ message[n] # "none"
        /\ IF ~SameText(c) THEN Defer(c, TRUE)
           ELSE IF Proof(n) THEN End(c, "sent", Accepted(n))
           ELSE IF message[n] = "ambiguous" THEN End(c, "ambiguous", row)
           ELSE Goto(c, "persisted") /\ UNCHANGED <<row, lock>>
        /\ UNCHANGED <<message, greeting>>
  /\ UNCHANGED <<stamped, mail, over, faults, restarts>>

(* loadApprovedManualTerminalAuthority *)
Authority(c) ==
  /\ call[c].pc = "persisted"
  /\ IF over THEN Defer(c, TRUE) ELSE Goto(c, "cleared") /\ UNCHANGED <<row, lock>>
  /\ UNCHANGED <<message, stamped, greeting, mail, over, faults, restarts>>

(* The row again, the pause, cap, readiness and window, and the renewed claim   *)
Renew(c) ==
  /\ call[c].pc = "cleared"
  /\ IF ~call[c].fresh \/ row.status # "pending" THEN End(c, "locked", row)
     ELSE Defer(c, FALSE) \/ (Goto(c, "renewed") /\ UNCHANGED <<row, lock>>)
  /\ UNCHANGED <<message, stamped, greeting, mail, over, faults, restarts>>

(* The last look at the conversation's owner, and the provider call *)
Hand(c) ==
  /\ call[c].pc = "renewed"
  /\ \/ /\ handed' = [handed EXCEPT ![call[c].n] = @ + 1]
        /\ Goto(c, "handed") /\ UNCHANGED <<row, lock>>
     \/ Defer(c, TRUE) /\ UNCHANGED handed
  /\ UNCHANGED <<message, stamped, greeting, refused, taken, over, faults, restarts>>

(* The provider answers, or nobody knows: it may or may not have the message *)
Answer(c) ==
  LET n == call[c].n IN
  /\ call[c].pc = "handed"
  /\ \E outcome \in {"accepted", "failed", "ambiguous"} :
       /\ n \in taken => outcome # "failed"
       /\ call' = [call EXCEPT ![c].pc = "answered", ![c].outcome = outcome]
       /\ refused' = IF outcome = "failed" THEN [refused EXCEPT ![n] = @ + 1] ELSE refused
       /\ taken' \in IF outcome = "accepted" THEN {taken \cup {n}}
                     ELSE IF outcome = "ambiguous" THEN {taken, taken \cup {n}} ELSE {taken}
  /\ UNCHANGED <<row, message, stamped, greeting, handed, lock, over, faults, restarts>>

(* updateCimCommunicationAfterSend; when it fails after an acceptance the call   *)
(* throws and the claim stands                                                  *)
Save(c) ==
  LET n == call[c].n IN
  /\ call[c].pc = "answered"
  /\ \/ /\ message' = [message EXCEPT ![n] = call[c].outcome]
        /\ stamped' = [stamped EXCEPT ![n] = @ \/ call[c].outcome = "accepted"]
        /\ Goto(c, "saved") /\ UNCHANGED <<row, lock, faults>>
     \/ /\ faults < MaxFaults /\ faults' = faults + 1
        /\ IF call[c].outcome = "accepted" THEN End(c, "lost", row)
           ELSE Goto(c, "saved") /\ UNCHANGED <<row, lock>>
        /\ UNCHANGED <<message, stamped>>
  /\ UNCHANGED <<greeting, mail, over, restarts>>

Finalize(c) ==
  LET n == call[c].n IN
  /\ call[c].pc = "saved"
  /\ CASE call[c].outcome = "accepted" -> End(c, IF row.count >= n \/ Accepted(n) # row THEN "sent" ELSE "lost", Accepted(n))
       [] call[c].outcome # "accepted" -> End(c, call[c].outcome, Unaccepted(c, n, call[c].outcome))
  /\ UNCHANGED <<message, stamped, greeting, mail, over, faults, restarts>>

-----------------------------------------------------------------------------
(* The world *)

DueComes ==
  /\ row.due = "later" /\ row' = [row EXCEPT !.due = "now"]
  /\ UNCHANGED <<message, stamped, greeting, mail, lock, over, call, faults, restarts>>

(* A reply or another end of the conversation is stored, then applied to the row *)
Over ==
  /\ ~over /\ over' = TRUE
  /\ UNCHANGED <<row, message, stamped, greeting, mail, lock, call, faults, restarts>>

Responded ==
  /\ over /\ row.status # "responded"
  /\ row' = [row EXCEPT !.status = "responded", !.state = "stopped", !.due = "none"]
  /\ call' = Aged
  /\ UNCHANGED <<message, stamped, greeting, mail, lock, over, faults, restarts>>

(* applyEmailLifecycleToCommunication: the provider reports what it has; the    *)
(* row's version changes with it                                               *)
Report(n) ==
  /\ n \in taken /\ message[n] # "delivered"
  /\ \E state \in {"accepted", "delivered"} \ {message[n]} :
       message' = [message EXCEPT ![n] = state]
  /\ call' = Aged
  /\ UNCHANGED <<row, stamped, greeting, mail, lock, over, faults, restarts>>

(* The process ends: locks, capabilities and answers are gone *)
Restart ==
  /\ restarts < MaxRestarts /\ restarts' = restarts + 1
  /\ \E c \in Calls : call[c].pc \notin Ends \cup {"new", "prepared"}
  /\ call' = [c \in Calls |-> IF call[c].pc \in Ends \cup {"new", "prepared"} THEN call[c]
                              ELSE [call[c] EXCEPT !.pc = "lost", !.fresh = FALSE]]
  /\ lock' = None
  /\ UNCHANGED <<row, message, stamped, greeting, mail, over, faults>>

Step(c) ==
  \/ Approve(c) \/ Lock(c) \/ Claim(c) \/ Persist(c) \/ Authority(c)
  \/ Renew(c) \/ Hand(c) \/ Answer(c) \/ Save(c) \/ Finalize(c)

Next ==
  \/ \E c \in Calls : Prepare(c) \/ Step(c)
  \/ Start \/ Stop \/ Status \/ DueComes \/ Over \/ Responded \/ Restart
  \/ \E n \in Numbers : Report(n)

Spec == Init /\ [][Next]_vars

-----------------------------------------------------------------------------
(* Properties *)

(* A follow-up is handed over again only after a definitive refusal: never while  *)
(* its outcome is open, accepted or unsure, whatever two approvals, a restart or  *)
(* a lost update do (claimDealHunterApprovedFollowUpTransaction and the            *)
(* deterministic communication).                                                  *)
OneMailPerFollowUp == \A n \in Numbers : handed[n] <= refused[n] + 1

(* follow_up_count counts the follow-ups the provider has accepted, each once and   *)
(* in order (finalizeDealHunterApprovedFollowUpTransaction).                        *)
CountIsTrue == 1..row.count \subseteq taken

(* A sequence that goes on has a due time: no deferral, failure or repair loses it  *)
(* (deferApprovedManualClaim), and an ended one has none.                           *)
GoesOn ==
  row.marked => (row.due # "none" <=> row.state \in {"scheduled", "failed"})

(* A stop or a reply is final: whatever is in flight, no later write reopens the    *)
(* sequence, and it counts at most the follow-up that was already claimed.          *)
StaysEnded ==
  Terminal(row) => Terminal(row') /\ row'.due = "none" /\ row'.count <= row.count + 1
NeverResumes == [][StaysEnded]_vars

(* An approval that answers "sent" is about the follow-up that was approved: the     *)
(* provider has it (approveDealHunterManualFollowUp).                                *)
ApprovedIsSent == \A c \in Calls : call[c].pc = "sent" => call[c].n \in taken

===============================================================================
