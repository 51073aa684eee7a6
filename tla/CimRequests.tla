----------------------------- MODULE CimRequests -----------------------------
(***************************************************************************)
(* The first e-mail to a broker outside the Pursue system:                 *)
(* sendCimRequestForScoredDeal of dealHunter.js, called by an approved     *)
(* proposal, by a signed queue entry or by a retry to a corrected          *)
(* recipient, with the claims storage keeps for it, the provider, the      *)
(* delivery events, the Pursue system beside it and the end of the         *)
(* process.  One step is the code between two awaits that another call     *)
(* could tell apart.                                                       *)
(***************************************************************************)
EXTENDS Naturals, FiniteSets

CONSTANTS Opps,        \* canonical opportunities
          Rcpts,       \* broker addresses
          Calls,       \* calls that may run at the same time
          Cap,         \* accepted touches per recipient
          Kinds,       \* "approved", "signed", "retry"
          Reports,    \* what the provider call may report
          Stops,       \* which stops this instance lets happen
          MaxRestarts, \* bound: ends of the process
          SlowCalls    \* may ten minutes pass while a call is under way?

(* A request is identified by its opportunity and its recipient.           *)
Requests == Opps \X Rcpts
Opp(q) == q[1]
Rcpt(q) == q[2]
None == <<"none", "none">>

CimRequestsAssumption ==
  /\ Cap \in Nat \ {0} /\ MaxRestarts \in Nat /\ SlowCalls \in BOOLEAN
  /\ Kinds \subseteq {"approved", "signed", "retry"}
  /\ Reports \subseteq {"sent", "failed", "ambiguous"}
  /\ Stops \subseteq {"pause", "suppress", "archive", "pursue"}
  /\ Opps \cap Rcpts = {} /\ None \notin Requests

VARIABLES requests,       \* the request rows
          communications, \* delivery_state of each prepared message
          claims,         \* the request that owns an opportunity
          reserved,       \* the request a recipient is reserved for
          locks,          \* in memory: opportunities and recipients being sent
          mailed,         \* what the provider did with a request's message
          pursue,         \* the Pursue system's hold on an opportunity
          stops,          \* pause, suppressed addresses, archived records
          run,            \* the calls
          restarts

vars == <<requests, communications, claims, reserved, locks, mailed, pursue,
          stops, run, restarts>>

Absent == [status |-> "none", delivery |-> "none", closed |-> FALSE, stale |-> FALSE]
Idle == [pc |-> "idle", kind |-> "signed", q |-> None, from |-> None, target |-> None,
         fresh |-> FALSE, outcome |-> "none", found |-> FALSE, again |-> FALSE]

Init ==
  /\ requests = [q \in Requests |-> Absent]
  /\ communications = [q \in Requests |-> "none"]
  /\ claims = [o \in Opps |-> None]
  /\ reserved = [r \in Rcpts |-> [by |-> None, expired |-> FALSE]]
  /\ locks = {}
  /\ mailed = [q \in Requests |-> "no"]
  /\ pursue = [o \in Opps |-> "none"]
  /\ stops = {}
  /\ run = [w \in Calls |-> Idle]
  /\ restarts = 0
-----------------------------------------------------------------------------
(* Reading the rows.                                                       *)
Completed(q) == requests[q].status \in {"sent", "delivery_issue", "ambiguous"}
RecentPending(q) == requests[q].status = "pending" /\ ~requests[q].stale
(* Mutant of Proof: an unknown outcome counts as accepted. *)
ProofOptimistic(q) == communications[q] \in {"accepted", "bounced", "ambiguous"}
Proof(q) == communications[q] \in {"accepted", "bounced"}
Touched(q) == \/ requests[q].status \in {"sent", "delivery_issue"}
              \/ requests[q].delivery \in {"accepted", "bounced"}
Archived(o) == <<"archive", o>> \in stops
Suppressed(r) == <<"suppress", r>> \in stops
Paused == "pause" \in {s[1] : s \in stops}
PursueOwns(o) == pursue[o] # "none"

Touches(r) == Cardinality({q \in Requests : Rcpt(q) = r /\ Touched(q)})
(* Mutant of CapReached: one touch too many. *)
CapReachedAbove(r) == Touches(r) > Cap
CapReached(r) == Touches(r) >= Cap

(* The rows of an opportunity but the one being retried, and those among   *)
(* them that stop a first contact.                                         *)
Others(w) == {q \in Requests : Opp(q) = Opp(run[w].q) /\ q # run[w].from}
Blocking(w) == {q \in Others(w) : Completed(q) \/ RecentPending(q)}

(* Every write of a row moves its updated_at: the calls that compare it    *)
(* with what they read lose their hold.                                    *)
Stale(runs, q) == [v \in Calls |-> IF runs[v].target = q THEN [runs[v] EXCEPT !.fresh = FALSE]
                                                         ELSE runs[v]]
Write(w, q, row, next) ==
  /\ requests' = [requests EXCEPT ![q] = row]
  /\ run' = [Stale(run, q) EXCEPT ![w] = next]

Go(w, pc) == run' = [run EXCEPT ![w].pc = pc]
Quit(w) == run' = [run EXCEPT ![w] = Idle]
(* Leave through finally, with or without a request in the answer.         *)
Leave(w, found) == run' = [run EXCEPT ![w].pc = "release", ![w].found = found]
-----------------------------------------------------------------------------
(* Another accepted request forbids a corrected retry.                     *)
AcceptedElsewhere(q) ==
  \E p \in Requests : /\ Opp(p) = Opp(q) /\ p # q
                      /\ \/ requests[p].status = "sent" \/ requests[p].delivery = "accepted"
                         \/ (requests[p].status = "delivery_issue" /\ ~requests[p].closed)

Retryable(q) == requests[q].status = "delivery_issue" /\ requests[q].delivery = "bounced"

Start(w) ==
  /\ run[w].pc = "idle"
  /\ \E kind \in Kinds, q \in Requests, from \in Requests \cup {None} :
       /\ IF kind = "retry"
            THEN /\ from # None /\ Opp(from) = Opp(q) /\ from # q
                 /\ Retryable(from) /\ ~AcceptedElsewhere(from)
            ELSE from = None
       /\ run' = [run EXCEPT ![w] = [Idle EXCEPT !.pc = "check", !.kind = kind,
                                                 !.q = q, !.from = from]]
  /\ UNCHANGED <<requests, communications, claims, reserved, locks, mailed, pursue, stops, restarts>>

(* Mutant of Check: nobody asks the Pursue system first. *)
CheckUnowned(w) ==
  /\ run[w].pc = "check"
  /\ IF Paused THEN Quit(w) ELSE Go(w, "lock")
  /\ UNCHANGED <<requests, communications, claims, reserved, locks, mailed, pursue, stops, restarts>>

Check(w) ==
  /\ run[w].pc = "check"
  /\ IF Paused \/ PursueOwns(Opp(run[w].q)) THEN Quit(w) ELSE Go(w, "lock")
  /\ UNCHANGED <<requests, communications, claims, reserved, locks, mailed, pursue, stops, restarts>>

(* The deal's lock, then the recipient's.  Refused, the deal's lock is     *)
(* deleted, also when it is another call's.                                *)
Lock(w) ==
  LET o == Opp(run[w].q)
      r == Rcpt(run[w].q)
  IN /\ run[w].pc = "lock"
     /\ IF {o, r} \cap locks = {}
          THEN locks' = locks \cup {o, r} /\ Go(w, "read")
          ELSE locks' = locks \ {o} /\ Quit(w)
     /\ UNCHANGED <<requests, communications, claims, reserved, mailed, pursue, stops, restarts>>

(* The CRM record, the suppression list, the request history, the proof a  *)
(* persisted message may hold, the cap.                                    *)
Read(w) ==
  LET q == run[w].q
      proven == {p \in Blocking(w) \cup {q} : requests[p].status # "none" /\ Proof(p)}
      stopped == Archived(Opp(q)) \/ Suppressed(Rcpt(q))
      completed == \E p \in Blocking(w) : Completed(p)
  IN /\ run[w].pc = "read"
     /\ CASE stopped -> Leave(w, FALSE)
          [] ~stopped /\ completed -> Leave(w, TRUE)
          [] ~stopped /\ ~completed /\ proven # {} -> \E p \in proven : run' = [run EXCEPT ![w].pc = "reconcile",
                                                 ![w].target = p, ![w].fresh = TRUE]
          [] OTHER -> IF Blocking(w) # {} THEN Leave(w, TRUE)
                      ELSE IF CapReached(Rcpt(q)) THEN Leave(w, FALSE)
                      ELSE Go(w, "recipient")
     /\ UNCHANGED <<requests, communications, claims, reserved, locks, mailed, pursue, stops, restarts>>

(* Mutant of Held: the row is not compared with what was read. *)
HeldUncompared(w, statuses) == statuses # {} /\ ~Archived(Opp(run[w].target))

(* finalize_deal_hunter_cim_request_claim: the row is still the one read.  *)
Held(w, statuses) ==
  /\ run[w].fresh
  /\ requests[run[w].target].status \in statuses
  /\ ~Archived(Opp(run[w].target))

Left(w) == [run[w] EXCEPT !.pc = "release", !.found = TRUE]

Settled(row, status) ==
  CASE status = "sent" -> [row EXCEPT !.status = "sent", !.delivery = "accepted",
                                      !.closed = FALSE, !.stale = FALSE]
    [] status = "delivery_issue" -> [row EXCEPT !.status = "delivery_issue",
                               !.delivery = "bounced", !.closed = TRUE, !.stale = FALSE]
    [] OTHER -> [row EXCEPT !.status = status, !.delivery = status,
                            !.closed = TRUE, !.stale = FALSE]

Finalize(w, status, failure) ==
  LET q == run[w].target
  IN IF Held(w, {"pending", "failed"})
       THEN Write(w, q, Settled(requests[q], status), Left(w))
       ELSE run' = [run EXCEPT ![w] = failure] /\ UNCHANGED requests

(* A message the provider has accepted is entered without sending again.   *)
Proven(q) == IF communications[q] = "bounced" THEN "delivery_issue" ELSE "sent"

Reconcile(w) ==
  /\ run[w].pc = "reconcile"
  /\ Finalize(w, Proven(run[w].target), [run[w] EXCEPT !.pc = "release"])
  /\ UNCHANGED <<communications, claims, reserved, locks, mailed, pursue, stops, restarts>>

ClaimRecipient(w) ==
  LET q == run[w].q
      r == Rcpt(q)
  IN /\ run[w].pc = "recipient"
     /\ IF reserved[r].by \in {None, q} \/ reserved[r].expired
          THEN /\ reserved' = [reserved EXCEPT ![r] = [by |-> q, expired |-> FALSE]]
               /\ Go(w, "opportunity")
          ELSE Leave(w, FALSE) /\ UNCHANGED reserved
     /\ UNCHANGED <<requests, communications, claims, locks, mailed, pursue, stops, restarts>>

(* Mutant of MayOwn: a claim without an accepted request may be taken over. *)
MayOwnUnaccepted(w) ==
  LET owner == claims[Opp(run[w].q)]
  IN owner \in {None, run[w].q, run[w].from} \/ requests[owner].status # "sent"
MayOwn(w) == claims[Opp(run[w].q)] \in {None, run[w].q, run[w].from}

ClaimOpportunity(w) ==
  LET q == run[w].q
      o == Opp(q)
      owner == claims[o]
  IN /\ run[w].pc = "opportunity"
     /\ IF MayOwn(w)
          THEN claims' = [claims EXCEPT ![o] = q] /\ Go(w, "recheck")
          ELSE Leave(w, requests[owner].status # "none") /\ UNCHANGED claims
     /\ UNCHANGED <<requests, communications, reserved, locks, mailed, pursue, stops, restarts>>

(* Mutant of Recheck: the claim is enough, Pursue is not asked again. *)
RecheckClaimed(w) ==
  /\ run[w].pc = "recheck" /\ Go(w, "row")
  /\ UNCHANGED <<requests, communications, claims, reserved, locks, mailed, pursue, stops, restarts>>

Recheck(w) ==
  LET q == run[w].q
      o == Opp(q)
  IN /\ run[w].pc = "recheck"
     /\ IF PursueOwns(o)
          THEN /\ claims' = IF requests[q].status = "none" /\ claims[o] = q
                              THEN [claims EXCEPT ![o] = None] ELSE claims
               /\ Leave(w, FALSE)
          ELSE Go(w, "row") /\ UNCHANGED claims
     /\ UNCHANGED <<requests, communications, reserved, locks, mailed, pursue, stops, restarts>>

(* claimDealHunterCimRequest: a failed row or one pending for ten minutes  *)
(* is taken over, a new one is entered when no other row is in the way.    *)
(* Mutant of Takeable: a row left pending is never taken over. *)
TakeableFailed(q) == requests[q].status = "failed"
Takeable(q) == requests[q].status = "failed" \/ requests[q].stale
InTheWay(w) == \E p \in Others(w) : requests[p].status \in {"pending", "sent", "delivery_issue"}
                                    \/ requests[p].delivery \in {"accepted", "bounced"}
ClaimRequest(w) ==
  LET q == run[w].q
      free == IF requests[q].status = "none" THEN ~InTheWay(w) ELSE Takeable(q)
      parent == run[w].from = None \/ Retryable(run[w].from)
  IN /\ run[w].pc = "row"
     /\ IF ~Archived(Opp(q)) /\ parent /\ free
          THEN Write(w, q, [requests[q] EXCEPT !.status = "pending", !.stale = FALSE],
                     [run[w] EXCEPT !.pc = "prepare", !.target = q, !.fresh = TRUE])
          ELSE UNCHANGED requests
               /\ Leave(w, \E p \in Requests : Opp(p) = Opp(q) /\ requests[p].status # "none")
     /\ UNCHANGED <<communications, claims, reserved, locks, mailed, pursue, stops, restarts>>

(* The exact message is kept before it is sent; one that is there is       *)
(* reused, and its proof is honoured.                                      *)
Prepare(w) ==
  LET q == run[w].q
  IN /\ run[w].pc = "prepare"
     /\ \/ /\ communications[q] = "none"
           /\ communications' = [communications EXCEPT ![q] = "prepared"]
           /\ Go(w, "renew") /\ UNCHANGED requests
        \/ /\ communications[q] = "none"
           /\ UNCHANGED communications
           /\ Finalize(w, "failed", [run[w] EXCEPT !.pc = "release"])
        \/ /\ communications[q] # "none" /\ ~Proof(q)
           /\ Go(w, "renew") /\ UNCHANGED <<requests, communications>>
        \/ /\ Proof(q)
           /\ UNCHANGED communications
           /\ Finalize(w, Proven(q), [run[w] EXCEPT !.pc = "release"])
     /\ UNCHANGED <<claims, reserved, locks, mailed, pursue, stops, restarts>>

Renew(w) ==
  LET q == run[w].q
  IN /\ run[w].pc = "renew"
     /\ IF Held(w, {"pending"})
          THEN Write(w, q, [requests[q] EXCEPT !.stale = FALSE],
                     [run[w] EXCEPT !.pc = "final", !.fresh = TRUE])
          ELSE Leave(w, TRUE) /\ UNCHANGED requests
     /\ UNCHANGED <<communications, claims, reserved, locks, mailed, pursue, stops, restarts>>

(* The last look before the provider: pause, cap and, for an approved      *)
(* proposal, the suppression list.                                         *)
Refused(w) == \/ Paused
              \/ CapReached(Rcpt(run[w].q))
              \/ (run[w].kind = "approved" /\ Suppressed(Rcpt(run[w].q)))

Final(w) ==
  /\ run[w].pc = "final"
  /\ IF Refused(w) THEN Finalize(w, "failed", [run[w] EXCEPT !.pc = "release"])
                   ELSE Go(w, "send") /\ UNCHANGED requests
  /\ UNCHANGED <<communications, claims, reserved, locks, mailed, pursue, stops, restarts>>

(* The provider knows the request's key: a message it has is not sent      *)
(* again.  An ambiguous answer leaves open whether it took the message.    *)
Send(w) ==
  LET q == run[w].q
  IN /\ run[w].pc = "send"
     /\ \E outcome \in Reports :
          /\ outcome = "failed" => mailed[q] = "no"
          /\ run' = [run EXCEPT ![w].pc = "message", ![w].outcome = outcome]
          /\ \/ /\ outcome # "failed" /\ mailed[q] = "no"
                /\ mailed' = [mailed EXCEPT ![q] = "out"]
             \/ /\ outcome # "sent" \/ mailed[q] # "no"
                /\ UNCHANGED mailed
     /\ UNCHANGED <<requests, communications, claims, reserved, locks, pursue, stops, restarts>>

Answered(outcome) == IF outcome = "sent" THEN "accepted" ELSE outcome

(* The message's state is written after the call; an error is swallowed.   *)
SaveMessage(w) ==
  /\ run[w].pc = "message"
  /\ Go(w, "save")
  /\ \/ communications' = [communications EXCEPT ![run[w].q] = Answered(run[w].outcome)]
     \/ UNCHANGED communications
  /\ UNCHANGED <<requests, claims, reserved, locks, mailed, pursue, stops, restarts>>

(* The row is finalized while it is the one renewed.  An approved proposal *)
(* whose accepted message could not be entered is run once more.           *)
SaveRequest(w) ==
  LET q == run[w].q
      redo == run[w].kind = "approved" /\ run[w].outcome = "sent" /\ ~run[w].again
  IN /\ run[w].pc = "save"
     /\ IF Held(w, {"pending"})
          THEN Write(w, q, Settled(requests[q], run[w].outcome), Left(w))
          ELSE /\ run' = [run EXCEPT ![w].pc = "release", ![w].again = redo]
               /\ UNCHANGED requests
     /\ UNCHANGED <<communications, claims, reserved, locks, mailed, pursue, stops, restarts>>

(* finally: the recipient's reservation by this request and both locks.    *)
Release(w) ==
  LET q == run[w].q
      r == Rcpt(q)
  IN /\ run[w].pc = "release"
     /\ locks' = locks \ {Opp(q), r}
     /\ reserved' = IF reserved[r].by = q THEN [reserved EXCEPT ![r] = [by |-> None, expired |-> FALSE]]
                                          ELSE reserved
     /\ run' = [run EXCEPT ![w] =
                  IF run[w].kind = "retry" /\ run[w].found THEN [run[w] EXCEPT !.pc = "close"]
                  ELSE IF run[w].again /\ ~run[w].found /\ run[w].outcome = "sent"
                    THEN [run[w] EXCEPT !.pc = "check", !.outcome = "none", !.fresh = FALSE]
                  ELSE Idle]
     /\ UNCHANGED <<requests, communications, claims, mailed, pursue, stops, restarts>>

(* A retry that answered with a request closes the one it retried, as it   *)
(* was read at the start.                                                  *)
Close(w) ==
  LET from == run[w].from
  IN /\ run[w].pc = "close"
     /\ IF Archived(Opp(from)) THEN Quit(w) /\ UNCHANGED requests
        ELSE Write(w, from, [status |-> "delivery_issue", delivery |-> "bounced",
                             closed |-> TRUE, stale |-> FALSE], Idle)
     /\ UNCHANGED <<communications, claims, reserved, locks, mailed, pursue, stops, restarts>>
-----------------------------------------------------------------------------
(* Around the calls.                                                       *)

(* Mutant of Event: the event enters a status for a row it never read. *)
EventUnread(q, state, status) ==
  /\ communications' = [communications EXCEPT ![q] = state]
  /\ requests' = [requests EXCEPT ![q].delivery = state, ![q].status = status]
  /\ run' = Stale(run, q)
  /\ UNCHANGED <<claims, reserved, locks, pursue, restarts>>

(* A delivery event is applied to the message and to its request, which    *)
(* keeps its status once it was stopped.                                   *)
Event(q, state, status) ==
  /\ communications' = [communications EXCEPT ![q] = state]
  /\ requests' = [requests EXCEPT ![q].delivery = state, ![q].stale = FALSE,
                    ![q].status = IF requests[q].closed \/ Archived(Opp(q)) THEN @ ELSE status]
  /\ run' = Stale(run, q)
  /\ UNCHANGED <<claims, reserved, locks, pursue, restarts>>

Delivered(q) ==
  /\ mailed[q] = "out" /\ communications[q] \in {"prepared", "failed", "ambiguous", "accepted"}
  /\ requests[q].delivery # "accepted"
  /\ Event(q, "accepted", "sent")
  /\ UNCHANGED <<mailed, stops>>

Bounced(q) ==
  /\ mailed[q] = "out" /\ communications[q] # "none"
  /\ mailed' = [mailed EXCEPT ![q] = "bounced"]
  /\ stops' = stops \cup {<<"suppress", Rcpt(q)>>}
  /\ Event(q, "bounced", "delivery_issue")

Stop(kind, what) ==
  /\ kind \in Stops /\ <<kind, what>> \notin stops
  /\ stops' = stops \cup {<<kind, what>>}
  /\ UNCHANGED <<requests, communications, claims, reserved, locks, mailed, pursue, run, restarts>>

(* The owner's decision, then the other system's own send, which refuses   *)
(* when a request or a claim of this one exists.                           *)
Decide(o) ==
  /\ "pursue" \in Stops /\ pursue[o] = "none"
  /\ pursue' = [pursue EXCEPT ![o] = "decided"]
  /\ UNCHANGED <<requests, communications, claims, reserved, locks, mailed, stops, run, restarts>>

(* Mutant of PursueMay: only the requests are looked at. *)
PursueMayUnclaimed(o) == \A q \in Requests : Opp(q) = o => requests[q].status = "none"
PursueMay(o) ==
  claims[o] = None /\ \A q \in Requests : Opp(q) = o => requests[q].status = "none"

PursueMails(o) ==
  /\ pursue[o] = "decided" /\ PursueMay(o)
  /\ pursue' = [pursue EXCEPT ![o] = "mailed"]
  /\ UNCHANGED <<requests, communications, claims, reserved, locks, mailed, stops, run, restarts>>

(* Ten minutes pass for a row, or for a reservation.                       *)
AtWork(q) == \E w \in Calls : run[w].pc # "idle" /\ run[w].q = q
Age(q) ==
  /\ RecentPending(q) /\ (SlowCalls \/ ~AtWork(q))
  /\ requests' = [requests EXCEPT ![q].stale = TRUE]
  /\ UNCHANGED <<communications, claims, reserved, locks, mailed, pursue, stops, run, restarts>>
Expire(r) ==
  /\ reserved[r].by # None /\ ~reserved[r].expired /\ (SlowCalls \/ ~AtWork(reserved[r].by))
  /\ reserved' = [reserved EXCEPT ![r].expired = TRUE]
  /\ UNCHANGED <<requests, communications, claims, locks, mailed, pursue, stops, run, restarts>>

(* The process ends: the calls and the locks are gone.                     *)
Crash ==
  /\ restarts < MaxRestarts
  /\ restarts' = restarts + 1
  /\ run' = [w \in Calls |-> Idle]
  /\ locks' = {}
  /\ UNCHANGED <<requests, communications, claims, reserved, mailed, pursue, stops>>

Step(w) == \/ Check(w) \/ Lock(w) \/ Read(w) \/ Reconcile(w) \/ ClaimRecipient(w)
           \/ ClaimOpportunity(w) \/ Recheck(w) \/ ClaimRequest(w) \/ Prepare(w) \/ Renew(w)
           \/ Final(w) \/ Send(w) \/ SaveMessage(w) \/ SaveRequest(w) \/ Release(w) \/ Close(w)
Next == \/ \E w \in Calls : Start(w) \/ Step(w)
        \/ \E q \in Requests : Delivered(q) \/ Bounced(q) \/ Age(q)
        \/ \E o \in Opps : Decide(o) \/ PursueMails(o) \/ Stop("archive", o)
        \/ \E r \in Rcpts : Stop("suppress", r) \/ Expire(r)
        \/ Stop("pause", "all")
        \/ Crash
Spec == Init /\ [][Next]_vars

-----------------------------------------------------------------------------
(* Properties *)

(* Every variable keeps its type: a row without a status has no delivery   *)
(* and is never pending for ten minutes (deal_hunter_cim_requests).        *)
TypeOK ==
  /\ \A q \in Requests :
       /\ requests[q].status \in {"none", "pending", "sent", "failed", "ambiguous", "delivery_issue"}
       /\ requests[q].delivery \in {"none", "accepted", "failed", "ambiguous", "bounced"}
       /\ requests[q].status = "none" => requests[q] = Absent
       /\ requests[q].stale => requests[q].status = "pending"
  /\ communications \in [Requests -> {"none", "prepared", "accepted", "failed", "ambiguous", "bounced"}]
  /\ claims \in [Opps -> Requests \cup {None}]
  /\ mailed \in [Requests -> {"no", "out", "bounced"}]
  /\ locks \subseteq Opps \cup Rcpts

(* No two brokers are written to about one opportunity, unless the first   *)
(* e-mail bounced: the lifetime claim, the request row and the parent of a *)
(* retry together, whatever the in-memory locks let through.               *)
OneFirstContact ==
  \A p, q \in Requests : Opp(p) = Opp(q) /\ p # q => ~(mailed[p] = "out" /\ mailed[q] = "out")

(* A row that says its e-mail was accepted tells the truth (finalize,      *)
(* reconcile and the delivery events).                                     *)
RecordIsTrue ==
  \A q \in Requests : requests[q].status \in {"sent", "delivery_issue"} => mailed[q] # "no"

(* A contact that is complete is never opened again by a call that is late *)
(* (the comparisons with updated_at and with the status).                  *)
StaysComplete ==
  \A q \in Requests : Completed(q) => requests'[q].status \in {"sent", "delivery_issue", "ambiguous"}
CompletedStays == [][StaysComplete]_vars

(* One e-mail system per deal: the opportunity the Pursue system has       *)
(* written about gets no first e-mail from here, nor the other way round   *)
(* (readPursueOwnership after the claim; prior requests and claims there). *)
OneSystem ==
  \A o \in Opps : pursue[o] = "mailed" => \A q \in Requests : Opp(q) = o => mailed[q] = "no"

(* A claim that backs a contact stays in place                             *)
(* (releaseDealHunterCimOpportunityClaim).                                 *)
ClaimKept == \A q \in Requests : mailed[q] # "no" => claims[Opp(q)] # None

(* The accepted touches of a recipient stay within its cap, over all       *)
(* opportunities (evaluateCimRecipientPolicy, twice).                      *)
CapHolds == \A r \in Rcpts : Cardinality({q \in Requests : Rcpt(q) = r /\ Touched(q)}) <= Cap

(* A row left pending, by a crash or by a lost comparison, is settled in   *)
(* the end by the owner's next call, unless its recipient is suppressed.   *)
Waiting(q) == requests[q].status = "pending" /\ ~Suppressed(Rcpt(q))
PendingSettles == \A q \in Requests : Waiting(q) ~> ~Waiting(q)

(* Calls take their steps, time passes, the owner asks again.              *)
LiveSpec ==
  /\ Spec
  /\ \A w \in Calls : WF_vars(Step(w))
  /\ \A q \in Requests : WF_vars(Age(q))
  /\ \A w \in Calls : SF_vars(Start(w))
=============================================================================
