---------------------------- MODULE FollowUpOutbox ----------------------------
(***************************************************************************)
(* The outbox of CRM follow-up e-mail (followUpEmail.js and its statements  *)
(* in sqlite.js).  An administrator confirms a previewed e-mail with a      *)
(* token; the confirmation becomes one command, which is claimed, reviewed  *)
(* again, handed to the provider and finished by the request that holds its *)
(* claim.  Requests repeat a token, race with each other, with edits, stops *)
(* and suppressions, and with the end of the process.                       *)
(*                                                                         *)
(* One action is the code between two awaits at which another request may   *)
(* change what was read.                                                    *)
(***************************************************************************)
EXTENDS Naturals, FiniteSets

CONSTANTS
  Requests,   \* calls of sendCrmFollowUpEmail; a command is named after its creator
  Tokens,     \* the confirmations: client request tokens
  Records,    \* CRM records, each with one address of its own
  TokenOf,    \* TokenOf[q]: the confirmation request q carries
  RecordOf,   \* RecordOf[t]: the record confirmation t is about
  Takeovers,  \* the confirmations that take over a Deal Hunter sequence
  None,
  Cap,        \* dailyCap
  MaxEvents,  \* bound on edits, stops, suppressions, replies and passing time
  MaxCrashes, \* bound on restarts
  MaxFaults,  \* bound on updates of a communication that fail
  SlowCalls   \* whether a claim may lapse while its request still runs

OutboxAssumption ==
  /\ TokenOf \in [Requests -> Tokens] /\ RecordOf \in [Tokens -> Records]
  /\ Takeovers \subseteq Tokens /\ None \notin Requests /\ IsFiniteSet(Requests)
  /\ Cap \in Nat \ {0} /\ MaxEvents \in Nat /\ MaxCrashes \in Nat /\ MaxFaults \in Nat
  /\ SlowCalls \in BOOLEAN

VARIABLES
  record,      \* record[r]: version (updated_at), closed (archived or completed), the number
               \* of its messages, the command its latest message is of, its sequence
  suppressed,  \* the records whose address is suppressed
  command,     \* command[c]: the outbox row and the delivery state of its communication
  request,     \* the calls; "stopped", how its record was at the claim, is read by
               \* StopIsHeard alone
  mailed,      \* the commands whose e-mail the provider has accepted
  rested,      \* the commands since whose e-mail the cadence has elapsed
  events, crashes, faults

vars == <<record, suppressed, command, request, mailed, rested, events, crashes, faults>>

Unresolved == {"queued", "sending", "ambiguous", "retryable_failed"}
Terminal == {"accepted", "ambiguous", "permanent_failed", "cancelled"}
Answers == {"sent", "ambiguous", "retryable_failed", "permanent_failed"}
Deliveries == {"not-attempted", "accepted", "failed", "bounced"}
(* A conversation as it was reviewed: latest message and its delivery state *)
Empty == [talk |-> 0, latest |-> None, delivery |-> "not-attempted"]
NoCommand == [state |-> "none", claim |-> None, lapsed |-> FALSE, due |-> TRUE,
              version |-> 0, reviewed |-> Empty, delivery |-> "not-attempted"]
NewRequest == [pc |-> "new", cmd |-> None, version |-> 0, reviewed |-> Empty,
               answer |-> "none", stopped |-> FALSE]
Reviews == [talk : Nat, latest : Requests \cup {None}, delivery : Deliveries]

TypeOK ==
  /\ record \in [Records -> [version : Nat, closed : BOOLEAN, talk : Nat,
                             latest : Requests \cup {None}, sequence : {"idle", "sending", "manual_takeover"}]]
  /\ suppressed \subseteq Records /\ mailed \subseteq Requests /\ rested \subseteq mailed
  /\ command \in [Requests -> [state : Unresolved \cup Terminal \cup {"none"},
                               claim : Requests \cup {None}, lapsed : BOOLEAN, due : BOOLEAN,
                               version : Nat, reviewed : Reviews, delivery : Deliveries]]
  /\ request \in [Requests -> [pc : {"new", "create", "claim", "review", "call", "finish",
                                     "record", "cancel", "done"},
                               cmd : Requests \cup {None}, version : Nat, reviewed : Reviews,
                               answer : Answers \cup {"none"}, stopped : BOOLEAN]]
  /\ \A c \in Requests : (command[c].claim # None) <=> (command[c].state = "sending")
  /\ events \in 0..MaxEvents /\ crashes \in 0..MaxCrashes /\ faults \in 0..MaxFaults

Init ==
  /\ record = [r \in Records |-> [version |-> 0, closed |-> FALSE, talk |-> 0,
                               latest |-> None, sequence |-> "idle"]]
  /\ suppressed = {} /\ mailed = {} /\ rested = {}
  /\ command = [c \in Requests |-> NoCommand]
  /\ request = [q \in Requests |-> NewRequest]
  /\ events = 0 /\ crashes = 0 /\ faults = 0

Rec(q) == RecordOf[TokenOf[q]]
Exists(c) == command[c].state # "none"
Stopped(r) == record[r].closed \/ r \in suppressed
Delivery(m) == IF m = None THEN "not-attempted" ELSE command[m].delivery
Goto(q, pc) == request' = [request EXCEPT ![q].pc = pc]
Others == UNCHANGED <<suppressed, rested, events, crashes, faults>>

-----------------------------------------------------------------------------
(* The policy, at the preview and again under the claim *)

CommandsOf(r) == {c \in Requests : Exists(c) /\ Rec(c) = r}

(* listCrmEmailOutbox of the unresolved states *)
Open(r) == {c \in CommandsOf(r) : command[c].state \in Unresolved}

(* Mutant of Counted: what is not finished is not counted *)
CountedWhenAccepted == {c \in Requests : command[c].state = "accepted"}

(* countCrmFollowUpSends *)
Counted == {c \in Requests : Exists(c) /\ command[c].state \notin {"permanent_failed", "cancelled"}}

DeliveryRisk(r, self) == \E c \in CommandsOf(r) \ {self} : command[c].delivery \in {"failed", "bounced"}

(* The latest follow-up of the record by its communication, and its hours *)
Cadence(r, self) == \E c \in CommandsOf(r) \ {self} : command[c].delivery = "accepted" /\ c \notin rested

Previewable(q) ==
  LET r == Rec(q) IN
  /\ ~Stopped(r)
  /\ Open(r) = {}
  /\ ~DeliveryRisk(r, q) /\ ~Cadence(r, q)
  /\ Cardinality(Counted) < Cap

(* Mutant of StillAllowed: trust the preview *)
StillAllowedByPreview(c) == TRUE

(* revalidateClaimedOutbox *)
StillAllowed(c) ==
  LET r == Rec(c) IN
  /\ ~Stopped(r)
  /\ record[r].version = command[c].version
  /\ record[r].talk = command[c].reviewed.talk + 1    \* its own message
  /\ Delivery(command[c].reviewed.latest) = command[c].reviewed.delivery
  /\ Open(r) \subseteq {c}
  /\ ~DeliveryRisk(r, c) /\ ~Cadence(r, c)
  /\ Cardinality(Counted) <= Cap

-----------------------------------------------------------------------------
(* One request *)

(* Mutant of Existing: a finished command is not looked for *)
ExistingUnfinished(q) ==
  {c \in Requests : Exists(c) /\ TokenOf[c] = TokenOf[q] /\ command[c].state \notin Terminal}

(* The command of the token, if there is one: getCrmEmailOutboxByClientRequestKey *)
Existing(q) == {c \in Requests : Exists(c) /\ TokenOf[c] = TokenOf[q]}

(* A token that has its command replays or processes it *)
Repeat(q) ==
  /\ request[q].pc = "new"
  /\ \E c \in Existing(q) :
       request' = [request EXCEPT ![q].cmd = c,
                     ![q].pc = IF command[c].state \in Terminal THEN "done" ELSE "claim"]
  /\ UNCHANGED <<record, command, mailed>> /\ Others

(* previewCrmFollowUpEmail, and the comparison with the signed preview *)
Preview(q) ==
  /\ request[q].pc = "new" /\ Existing(q) = {}
  /\ request' = [request EXCEPT ![q].pc = IF Previewable(q) THEN "create" ELSE "done",
                                ![q].version = record[Rec(q)].version,
                                ![q].reviewed = [talk |-> record[Rec(q)].talk,
                                  latest |-> record[Rec(q)].latest,
                                  delivery |-> Delivery(record[Rec(q)].latest)]]
  /\ UNCHANGED <<record, command, mailed>> /\ Others

(* Mutant of Unchanged: the version is not compared *)
UnchangedUnread(q) == ~record[Rec(q)].closed

(* The record is as previewed, and its sequence is not sending *)
Unchanged(q) ==
  /\ ~record[Rec(q)].closed /\ record[Rec(q)].version = request[q].version
  /\ TokenOf[q] \in Takeovers => record[Rec(q)].sequence # "sending"

SameToken(q) == Existing(q)

(* createCrmEmailCommand, one transaction *)
Create(q) ==
  /\ request[q].pc = "create"
  /\ \/ /\ \E c \in SameToken(q) : request' = [request EXCEPT ![q].pc = "claim", ![q].cmd = c]
        /\ UNCHANGED <<record, command>>
     \/ /\ SameToken(q) = {} /\ ~Unchanged(q)
        /\ Goto(q, "done") /\ UNCHANGED <<record, command>>
     \/ /\ SameToken(q) = {} /\ Unchanged(q)
        /\ request' = [request EXCEPT ![q].pc = "claim", ![q].cmd = q]
        /\ command' = [command EXCEPT ![q] = [NoCommand EXCEPT !.state = "queued",
                         !.version = record[Rec(q)].version + 1, !.reviewed = request[q].reviewed]]
        /\ record' = [record EXCEPT ![Rec(q)].version = @ + 1, ![Rec(q)].talk = @ + 1,
                        ![Rec(q)].latest = q,
                        ![Rec(q)].sequence = IF TokenOf[q] \in Takeovers THEN "manual_takeover" ELSE @]
  /\ UNCHANGED mailed /\ Others

(* Mutant of Claimable: an ambiguous command is tried again *)
ClaimableWhenUnsure(c) ==
  \/ command[c].state \in {"queued", "ambiguous"}
  \/ command[c].state = "retryable_failed" /\ command[c].due
  \/ command[c].state = "sending" /\ command[c].lapsed

Claimable(c) ==
  \/ command[c].state = "queued"
  \/ command[c].state = "retryable_failed" /\ command[c].due
  \/ command[c].state = "sending" /\ command[c].lapsed

(* claimCrmEmailOutbox *)
Claim(q) ==
  /\ request[q].pc = "claim"
  /\ LET c == request[q].cmd IN
       IF Claimable(c)
       THEN /\ command' = [command EXCEPT ![c].state = "sending", ![c].claim = q, ![c].lapsed = FALSE]
            /\ request' = [request EXCEPT ![q].pc = "review", ![q].stopped = Stopped(Rec(q))]
       ELSE Goto(q, "done") /\ UNCHANGED command
  /\ UNCHANGED <<record, mailed>> /\ Others

Review(q) ==
  /\ request[q].pc = "review"
  /\ Goto(q, IF StillAllowed(request[q].cmd) THEN "call" ELSE "cancel")
  /\ UNCHANGED <<record, command, mailed>> /\ Others

(* Mutant of Holds: only a record nobody edited since is finished *)
HoldsWhileFresh(q) ==
  /\ command[request[q].cmd].state = "sending" /\ command[request[q].cmd].claim = q
  /\ record[Rec(q)].version = command[request[q].cmd].version

(* finishCrmEmailOutboxClaim: claim_token and state in the WHERE clause *)
Holds(q) == command[request[q].cmd].state = "sending" /\ command[request[q].cmd].claim = q

(* Mutant of Finished: the claim is left in the row *)
FinishedKeepingClaim(c, state, delivery) ==
  command' = [command EXCEPT ![c].state = state, ![c].delivery = delivery]

Finished(c, state, delivery) ==
  command' = [command EXCEPT ![c].state = state, ![c].claim = None, ![c].lapsed = FALSE,
                             ![c].due = (state # "retryable_failed"), ![c].delivery = delivery]

(* cancelClaimForPolicy *)
Cancel(q) ==
  /\ request[q].pc = "cancel"
  /\ LET c == request[q].cmd IN
       IF Holds(q) THEN Finished(c, "cancelled", command[c].delivery) ELSE UNCHANGED command
  /\ Goto(q, "done")
  /\ UNCHANGED <<record, mailed>> /\ Others

(* Mutant of Outcomes: a call that timed out is taken for accepted *)
OutcomesSilent(c) ==
  {<<"sent", TRUE>>, <<"sent", FALSE>>, <<"retryable_failed", FALSE>>, <<"permanent_failed", FALSE>>}

(* What the provider may answer, and whether it has the mail then: the key  *)
(* of a command it has already accepted is answered as accepted.  A command  *)
(* that takes over a sequence is refused before the network.                *)
Outcomes(c) ==
  IF TokenOf[c] \in Takeovers THEN {<<"permanent_failed", FALSE>>}
  ELSE IF c \in mailed THEN {<<"sent", TRUE>>, <<"ambiguous", TRUE>>, <<"retryable_failed", TRUE>>}
  ELSE {<<"sent", TRUE>>, <<"ambiguous", TRUE>>, <<"ambiguous", FALSE>>,
        <<"retryable_failed", TRUE>>, <<"retryable_failed", FALSE>>, <<"permanent_failed", FALSE>>}

(* sendPreparedMessage and classifyProviderFailure *)
Call(q) ==
  /\ request[q].pc = "call"
  /\ \E o \in Outcomes(request[q].cmd) :
       /\ request' = [request EXCEPT ![q].pc = "finish", ![q].answer = o[1]]
       /\ mailed' = IF o[2] THEN mailed \cup {request[q].cmd} ELSE mailed
  /\ UNCHANGED <<record, command>> /\ Others

(* The outbox row is finished under the claim; what follows a failure is one  *)
(* write of the communication                                               *)
Finish(q) ==
  /\ request[q].pc = "finish"
  /\ LET c == request[q].cmd  a == request[q].answer IN
       IF ~Holds(q) THEN Goto(q, "done") /\ UNCHANGED command
       ELSE IF a = "sent"
            THEN Finished(c, "accepted", command[c].delivery) /\ Goto(q, "record")
            ELSE /\ Finished(c, a, IF a = "ambiguous" THEN command[c].delivery ELSE "failed")
                 /\ Goto(q, "done")
  /\ UNCHANGED <<record, mailed>> /\ Others

(* updateCrmCommunication, whose failure is swallowed, and                   *)
(* updateSubmissionIfCurrent                                                *)
Record(q) ==
  /\ request[q].pc = "record"
  /\ LET c == request[q].cmd IN
       /\ \/ command' = [command EXCEPT ![c].delivery = "accepted"] /\ faults' = faults
          \/ faults < MaxFaults /\ faults' = faults + 1 /\ UNCHANGED command
       /\ record' = IF record[Rec(c)].version = command[c].version
                    THEN [record EXCEPT ![Rec(c)].version = @ + 1] ELSE record
  /\ Goto(q, "done")
  /\ UNCHANGED <<suppressed, mailed, rested, events, crashes>>

-----------------------------------------------------------------------------
(* Everything else *)

Event == events < MaxEvents /\ events' = events + 1
Rest == UNCHANGED <<request, mailed, crashes, faults>>

(* An administrator edits, archives or completes the record *)
Edit(r, closing) ==
  /\ Event
  /\ record' = [record EXCEPT ![r].version = @ + 1, ![r].closed = @ \/ closing]
  /\ UNCHANGED <<suppressed, command, rested>> /\ Rest

(* createAdminEmailSuppression; the version stays *)
Suppress(r) ==
  /\ Event /\ r \notin suppressed /\ suppressed' = suppressed \cup {r}
  /\ UNCHANGED <<record, command, rested>> /\ Rest

(* An inbound message of the record *)
Hear(r) ==
  /\ Event /\ record' = [record EXCEPT ![r].talk = @ + 1, ![r].latest = None]
  /\ UNCHANGED <<suppressed, command, rested>> /\ Rest

(* applyEmailLifecycleToCommunication: a bounce suppresses the address *)
Bounce(c) ==
  /\ Event /\ c \in mailed /\ command[c].delivery # "bounced"
  /\ command' = [command EXCEPT ![c].delivery = "bounced"]
  /\ suppressed' = suppressed \cup {Rec(c)}
  /\ UNCHANGED <<record, rested>> /\ Rest

(* The Deal Hunter sequence starts and ends a send of its own *)
Sequence(r) ==
  /\ \/ record[r].sequence = "idle" /\ record' = [record EXCEPT ![r].sequence = "sending"]
     \/ record[r].sequence = "sending" /\ record' = [record EXCEPT ![r].sequence = "idle"]
  /\ Event /\ UNCHANGED <<suppressed, command, rested>> /\ Rest

(* Five minutes of a claim, fifteen of a retry, the hours of the cadence *)
Lapse(c) ==
  /\ command[c].state = "sending" /\ ~command[c].lapsed
  /\ SlowCalls \/ request[command[c].claim].pc = "done"
  /\ command' = [command EXCEPT ![c].lapsed = TRUE]
  /\ UNCHANGED <<record, suppressed, rested, events>> /\ Rest

Due(c) ==
  /\ ~command[c].due /\ command' = [command EXCEPT ![c].due = TRUE]
  /\ UNCHANGED <<record, suppressed, rested, events>> /\ Rest

Elapse(c) ==
  /\ Event /\ c \in mailed \ rested
  /\ rested' = rested \cup {c}
  /\ UNCHANGED <<record, suppressed, command>> /\ Rest

(* The process ends: what the open requests knew is gone *)
Crash ==
  /\ crashes < MaxCrashes /\ crashes' = crashes + 1
  /\ request' = [q \in Requests |-> IF request[q].pc = "new" THEN request[q]
                                    ELSE [request[q] EXCEPT !.pc = "done"]]
  /\ UNCHANGED <<record, suppressed, command, mailed, rested, events, faults>>

Step(q) ==
  \/ Repeat(q) \/ Preview(q) \/ Create(q) \/ Claim(q) \/ Review(q) \/ Cancel(q)
  \/ Call(q) \/ Finish(q) \/ Record(q)

Next ==
  \/ \E q \in Requests : Step(q)
  \/ \E r \in Records : \/ \E closing \in BOOLEAN : Edit(r, closing)
                        \/ Suppress(r) \/ Hear(r) \/ Sequence(r)
  \/ \E c \in Requests : Bounce(c) \/ Lapse(c) \/ Due(c) \/ Elapse(c)
  \/ Crash

Spec == Init /\ [][Next]_vars

(* A request that is being served goes on *)
LiveSpec == Spec /\ \A q \in Requests : WF_vars(request[q].pc # "new" /\ Step(q))

-----------------------------------------------------------------------------
(* Properties *)

(* One confirmation is one e-mail, however often its token is sent again and *)
(* whatever the provider answered (createCrmEmailCommand, the duplicate key). *)
OneMailPerConfirmation ==
  \A c, d \in mailed : TokenOf[c] = TokenOf[d] => c = d

(* A record never has two commands that may still reach its recipient: the   *)
(* preview reads that there is none, the version it read is compared in the  *)
(* transaction that creates one.                                            *)
OneUnresolved == \A r \in Records : Cardinality(Open(r)) <= 1

(* What the outbox records as accepted the provider has, although a request   *)
(* whose claim lapsed answers late (finishCrmEmailOutboxClaim).              *)
AcceptedIsSent == \A c \in Requests : command[c].state = "accepted" => c \in mailed

(* An outcome nobody knows is final: no later request hands the e-mail over   *)
(* (terminalOutboxStates, the states claimCrmEmailOutbox takes).             *)
LeavesUnsureAlone ==
  \A c \in Requests : command[c].state = "ambiguous" =>
    command'[c].state = "ambiguous" /\ mailed' \cap {c} = mailed \cap {c}
UnsureIsLast == [][LeavesUnsureAlone]_vars

(* An address that is suppressed, or a record that is closed, before a claim   *)
(* is taken gets nothing from it, although command and preview are older      *)
(* (revalidateClaimedOutbox).                                               *)
StopIsHeard ==
  \A q \in Requests : request[q].pc \in {"call", "finish", "record"} => ~request[q].stopped

(* By the outbox's own account the daily cap is never exceeded, although      *)
(* requests for different records count before they create: too many commands *)
(* cancel each other in the review.                                         *)
CapHolds == Cardinality({c \in Requests : command[c].state \in {"accepted", "ambiguous"}}) <= Cap

(* What became of a confirmation, and of the cap: its mail leaves once, its   *)
(* outcome is decided once, accepted only if it left, and of those accepted   *)
(* or unsure there are never more than the cap (processCrmEmailOutbox).       *)
ConfirmedIn(state) == {TokenOf[c] : c \in {d \in Requests : command[d].state = state}}
Promise == INSTANCE ConfirmedMail WITH
  Confirmations <- Tokens, Limit <- Cap, delivered <- {TokenOf[c] : c \in mailed},
  accepted <- ConfirmedIn("accepted"), unsure <- ConfirmedIn("ambiguous"),
  dropped <- ConfirmedIn("permanent_failed") \cup ConfirmedIn("cancelled")
ImplementsConfirmedMail == Promise!Safety

(* A record gets no second e-mail before the cadence of the first elapsed.   *)
CadenceHolds ==
  [][\A c \in mailed' \ mailed : \A d \in mailed : Rec(d) = Rec(c) => d \in rested]_vars

(* A command that a pre-transmission check cancelled was not transmitted.    *)
CancelledIsUnsent == \A c \in Requests : command[c].state = "cancelled" => c \notin mailed

(* Without a restart every command that was claimed is settled.              *)
Claimed(c) == command[c].state = "sending"
ClaimsSettle == \A c \in Requests : Claimed(c) ~> ~Claimed(c)
===============================================================================
