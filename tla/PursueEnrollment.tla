--------------------------- MODULE PursueEnrollment ---------------------------
(***************************************************************************)
(* From an owner's decision to a campaign: the owner's Pursue, Watch and   *)
(* Pass (recordAcquisitionOwnerCommand, recordOwnerDecision), automatic    *)
(* Pursue (runAutoPursue), the re-evaluation of waiting enrollments after  *)
(* a Sheet sync, and the orchestration all three run, which reads the      *)
(* deal's authority over many awaits and allocates the one campaign in a   *)
(* transaction that checks everything again                                *)
(* (orchestratePursuitEnrollment, materializePursuitCampaign).             *)
(*                                                                         *)
(* An action is what happens between two awaits.  A deal's facts are kept  *)
(* as far as the code tells them apart: the revision of its sources, its   *)
(* one contact (0: none, or several), a reason against writing (a          *)
(* suppression, a reply, materials, an earlier request), its CRM record,   *)
(* and for all deals the standing contact rule and whether the sources can *)
(* be read.  An enrollment's row version changes with its state only, so   *)
(* comparing the versions is comparing the states.                         *)
(***************************************************************************)
EXTENDS Naturals, Sequences, FiniteSets

CONSTANTS
  Deals,        \* opportunities
  Owners,       \* commands an owner sends
  KeyOf,        \* their idempotency keys: one sent twice has the key of the first
  Choices,      \* what an owner may decide: some of "pursue", "watch", "pass"
  Runs,         \* runs of automatic Pursue
  Reevals,      \* re-evaluations after a Sheet sync
  Cap,          \* the cap of the mode "active"
  Changes,      \* what may change around a deal
  MaxChanges,   \* bound on these changes
  MaxModes,     \* bound on the changes of the mode
  MaxDays,      \* bound on the business dates
  MaxRestarts   \* bound on restarts of the process

Procs == Owners \cup Runs \cup Reevals

EnrollmentAssumption ==
  /\ Owners \cap Runs = {} /\ Owners \cap Reevals = {} /\ Runs \cap Reevals = {}
  /\ Owners \subseteq DOMAIN KeyOf
  /\ Choices \subseteq {"pursue", "watch", "pass"}
  /\ {Cap, MaxDays} \subseteq Nat \ {0}  \* the code takes at least one a day
  /\ {MaxChanges, MaxModes, MaxRestarts} \subseteq Nat

Changeable == {"sources", "contact", "stop", "rule", "down", "archive"}

VARIABLES
  fact,       \* [Deals -> [rev, contact, stop, crm]]
  rule,       \* the standing contact rule is on (deal_hunter_pursue_send_controls)
  down,       \* the sources cannot be read
  history,    \* [Deals -> Seq(decisions)], each with the state of its enrollment
  campaign,   \* [Deals -> the one campaign, or [of |-> 0]]
  mode,       \* the current activation: [kind, id]
  day,        \* the owner's business date
  rows,       \* deal_hunter_auto_pursue_runs
  proc,       \* the orchestration a command, run or re-evaluation is in
  run,        \* what a run or a re-evaluation has in hand
  counters,   \* [changes, restarts]: for the bounds
  late        \* [Runs -> decisions recorded after its activation was replaced]

vars == <<fact, rule, down, history, campaign, mode, day, rows, proc, run, counters, late>>
world == <<fact, rule, down, mode, day, counters>>

Waiting == {"queued", "waiting"}
EnrollmentStates == Waiting \cup {"campaign", "action", "superseded", "none"}
NoCampaign == [of |-> 0, state |-> "none", contact |-> 0, rev |-> 0]
Idle == [pc |-> "idle", deal |-> "none", idx |-> 0, st |-> "none", ref |-> 0,
         rev |-> 0, contact |-> 0, next |-> "none"]
NoRun == [pc |-> "idle", kind |-> "off", id |-> 0, day |-> 0, seq |-> 0, earlier |-> {},
          todo |-> {}, revs |-> [d \in Deals |-> 0], contacts |-> [d \in Deals |-> 0],
          blocked |-> {}]

Init ==
  /\ fact = [d \in Deals |-> [rev |-> 1, contact |-> 1, stop |-> FALSE, crm |-> "none"]]
  /\ rule = TRUE
  /\ down = FALSE
  /\ history = [d \in Deals |-> <<>>]
  /\ campaign = [d \in Deals |-> NoCampaign]
  /\ mode = [kind |-> "active", id |-> 1]
  /\ day = 1
  /\ rows = {}
  /\ proc = [p \in Procs |-> Idle]
  /\ run = [p \in Runs \cup Reevals |-> NoRun]
  /\ counters = [changes |-> 0, restarts |-> 0]
  /\ late = [r \in Runs |-> 0]

-----------------------------------------------------------------------------
(* What is recorded                                                         *)

Last(d) == IF history[d] = <<>> THEN "none" ELSE history[d][Len(history[d])].action
\* The enrollment that is not superseded, or 0
Current(d) ==
  LET here == {i \in DOMAIN history[d] : history[d][i].state \notin {"none", "superseded"}}
  IN IF here = {} THEN 0 ELSE CHOOSE i \in here : TRUE
Passed(d) == \E i \in DOMAIN history[d] : history[d][i].action = "pass"
AutoToday(n) ==
  Cardinality({x \in {<<d, i>> : d \in Deals, i \in 1..(Cardinality(Procs) + 1)} :
                 /\ x[2] \in DOMAIN history[x[1]]
                 /\ history[x[1]][x[2]].auto /\ history[x[1]][x[2]].day = n})

\* An enrollment that a Pursue of its own contact starts anew
RetryChoice(d, i, ref) ==
  \/ history[d][i].state = "action"
  \/ history[d][i].state \in Waiting /\ ref # 0 /\ ref # history[d][i].chosen

Superseded(seq, i) == IF i = 0 THEN seq ELSE [seq EXCEPT ![i].state = "superseded"]

(* Mutant of StoppedBy: Watch and Pass leave the campaign alone             *)
StoppedByNothing(c, action) == c
(* A Watch or a Pass stops the campaign in the transaction that records it  *)
StoppedBy(c, action) ==
  IF action # "pursue" /\ c.of # 0 THEN [c EXCEPT !.state = "stopped"] ELSE c

Decision(action, key, auto, ref) ==
  [action |-> action, key |-> key, auto |-> auto, chosen |-> ref, day |-> day,
   state |-> IF action = "pursue" THEN "queued" ELSE "none"]

\* The writer of decisions: a replay, a conflict, the current enrollment, or a new decision
RecordOwner(p, d, action, key, expected, ref, auto) ==
  LET same == {i \in DOMAIN history[d] : history[d][i].key = key}
      i == Current(d)
      old == CHOOSE j \in same : TRUE
      Use(j) == /\ proc' = [proc EXCEPT ![p] =
                     [@ EXCEPT !.pc = IF action = "pursue" /\ history[d][j].state \in Waiting
                                        THEN "load" ELSE "end",
                               !.deal = d, !.idx = j, !.st = history[d][j].state, !.ref = ref]]
                /\ UNCHANGED <<history, campaign>>
      Refuse == /\ proc' = [proc EXCEPT ![p] = [Idle EXCEPT !.pc = "end", !.deal = d]]
                /\ UNCHANGED <<history, campaign>>
      Append1 == Append(Superseded(history[d], i), Decision(action, key, auto, ref))
  IN CASE same # {} -> IF history[d][old].action = action /\ history[d][old].chosen = ref
                         THEN Use(old) ELSE Refuse
       [] same = {} /\ (fact[d].rev # expected \/ Passed(d)) -> Refuse
       [] same = {} /\ fact[d].rev = expected /\ ~Passed(d)
            /\ action = "pursue" /\ i # 0 /\ ~RetryChoice(d, i, ref) -> Use(i)
       [] OTHER ->
            /\ history' = [history EXCEPT ![d] = Append1]
            /\ campaign' = [campaign EXCEPT ![d] = StoppedBy(@, action)]
            /\ proc' = [proc EXCEPT ![p] =
                 [@ EXCEPT !.pc = IF action = "pursue" THEN "load" ELSE "end",
                           !.deal = d, !.idx = Len(Append1), !.st = "queued", !.ref = ref]]

-----------------------------------------------------------------------------
(* The owner                                                                *)

\* The page shows the deal, with the revision the command will name
Show(c, d) ==
  /\ proc[c].pc = "idle"
  /\ proc' = [proc EXCEPT ![c] = [@ EXCEPT !.pc = "shown", !.deal = d, !.rev = fact[d].rev]]
  /\ UNCHANGED <<world, history, campaign, rows, run, late>>

\* The command: refused while the sources are down, else recorded (a Pursue may name the contact)
Command(c, action, ref) ==
  /\ proc[c].pc = "shown"
  /\ IF down
       THEN /\ proc' = [proc EXCEPT ![c] = [Idle EXCEPT !.pc = "end"]]
            /\ UNCHANGED <<history, campaign>>
       ELSE RecordOwner(c, proc[c].deal, action, <<0, KeyOf[c]>>, proc[c].rev,
                        IF action = "pursue" THEN ref ELSE 0, FALSE)
  /\ UNCHANGED <<world, rows, run, late>>

-----------------------------------------------------------------------------
(* The orchestration of an enrollment                                       *)

Go(p, pc) == proc' = [proc EXCEPT ![p].pc = pc]
Settle(p, next) == proc' = [proc EXCEPT ![p] = [@ EXCEPT !.pc = "settle", !.next = next]]
Steady == UNCHANGED <<world, history, campaign, rows, run, late>>

\* The decision's contact is the one the caller names, and the deal's
RecipientChosen(p) ==
  LET d == proc[p].deal
      chosen == history[d][proc[p].idx].chosen
  IN /\ fact[d].contact # 0
     /\ proc[p].ref \in {0, fact[d].contact}
     /\ chosen # 0 => proc[p].ref = chosen

\* What ends an attempt: a reason against writing, or another decision since
Against(d) == fact[d].stop \/ fact[d].crm = "closed" \/ Last(d) # "pursue"

Load(p) ==
  LET d == proc[p].deal IN
  /\ proc[p].pc = "load"
  /\ CASE down -> Settle(p, "waiting")
       [] ~down /\ ~(RecipientChosen(p) /\ ~Against(d)) -> Settle(p, "action")
       [] OTHER -> proc' = [proc EXCEPT ![p] = [@ EXCEPT !.pc = "basis",
                             !.rev = fact[d].rev, !.contact = fact[d].contact]]
  /\ Steady

\* The permission: the standing rule; without it the enrollment waits
Basis(p) ==
  LET d == proc[p].deal IN
  /\ proc[p].pc = "basis"
  /\ CASE fact[d].stop -> Settle(p, "action")
       [] ~fact[d].stop /\ ~rule -> Settle(p, "waiting")
       [] OTHER -> Go(p, "link")
  /\ Steady

\* The CRM record is found or made
Link(p) ==
  LET d == proc[p].deal IN
  /\ proc[p].pc = "link"
  /\ IF fact[d].crm = "closed" THEN Settle(p, "action") /\ UNCHANGED fact
     ELSE /\ fact' = [fact EXCEPT ![d].crm = "linked"]
          /\ Go(p, "reload")
  /\ UNCHANGED <<rule, down, mode, day, counters, history, campaign, rows, run, late>>

\* Everything is read again and compared with the first reading
Reload(p) ==
  LET d == proc[p].deal IN
  /\ proc[p].pc = "reload"
  /\ CASE fact[d].contact # proc[p].contact \/ fact[d].stop -> Settle(p, "action")
       [] fact[d].contact = proc[p].contact /\ ~fact[d].stop
            /\ (down \/ fact[d].rev # proc[p].rev \/ fact[d].crm # "linked") -> Settle(p, "waiting")
       [] OTHER -> Go(p, "allocate")
  /\ Steady

(* Mutant of StillCurrent: the transaction trusts what was read before it   *)
StillCurrentAsRead(p) == TRUE
\* The transaction's own check of what the orchestration read
StillCurrent(p) ==
  LET d == proc[p].deal IN
  /\ rule /\ ~down
  /\ fact[d].rev = proc[p].rev /\ fact[d].contact = proc[p].contact
  /\ ~fact[d].stop /\ fact[d].crm = "linked"

(* Mutant of Allocatable: the state of the enrollment is not compared       *)
AllocatableOnce(p) == campaign[proc[p].deal].of = 0 /\ StillCurrent(p)
Allocatable(p) ==
  LET d == proc[p].deal IN
  /\ campaign[d].of = 0
  /\ StillCurrent(p)
  /\ history[d][proc[p].idx].state = proc[p].st /\ proc[p].st \in Waiting

\* The campaign, its first touch and the enrollment are written together; one that is there
\* already and is the same is taken for it
Allocate(p) ==
  LET d == proc[p].deal
      mine == campaign[d].of = proc[p].idx /\ campaign[d].rev = proc[p].rev
              /\ campaign[d].contact = proc[p].contact
              /\ history[d][proc[p].idx].state = "campaign"
  IN
  /\ proc[p].pc = "allocate"
  /\ \/ /\ Allocatable(p)
        /\ campaign' = [campaign EXCEPT ![d] =
             [of |-> proc[p].idx, state |-> "pending", contact |-> proc[p].contact,
              rev |-> proc[p].rev]]
        /\ history' = [history EXCEPT ![d][proc[p].idx].state = "campaign"]
        /\ Go(p, "end")
     \/ /\ ~Allocatable(p)
        /\ IF mine /\ StillCurrent(p) THEN Go(p, "end") ELSE Settle(p, "action")
        /\ UNCHANGED <<campaign, history>>
  /\ UNCHANGED <<world, rows, run, late>>

\* The enrollment takes the state the attempt ended in, if nobody moved it meanwhile
SettleEnrollment(p) ==
  LET d == proc[p].deal
      now == history[d][proc[p].idx].state
      free == now = proc[p].st /\ now \in Waiting /\ ~(now = "waiting" /\ proc[p].next = "waiting")
  IN
  /\ proc[p].pc = "settle"
  /\ history' = IF free THEN [history EXCEPT ![d][proc[p].idx].state = proc[p].next] ELSE history
  /\ Go(p, "end")
  /\ UNCHANGED <<world, campaign, rows, run, late>>

Orchestrate(p) ==
  Load(p) \/ Basis(p) \/ Link(p) \/ Reload(p) \/ Allocate(p) \/ SettleEnrollment(p)

-----------------------------------------------------------------------------
(* Re-evaluation after a Sheet sync                                         *)

(* Mutant of Listed: the enrollments nobody has looked at yet are listed    *)
ListedQueued(d) == Current(d) # 0 /\ history[d][Current(d)].state = "queued"
\* A waiting enrollment, unless the owner picked its contact
Listed(d) ==
  /\ Current(d) # 0
  /\ history[d][Current(d)].state = "waiting" /\ history[d][Current(d)].chosen = 0

ListWaiting(v) ==
  /\ run[v].pc = "idle" /\ proc[v].pc = "idle"
  /\ run' = [run EXCEPT ![v] = [@ EXCEPT !.pc = "loop",
       !.todo = {d \in Deals : Listed(d)},
       !.revs = [d \in Deals |-> Current(d)]]]
  /\ UNCHANGED <<world, history, campaign, rows, proc, late>>

\* The copy of the list is what the orchestration is given
Reevaluate(v, d) ==
  /\ run[v].pc = "loop" /\ d \in run[v].todo /\ proc[v].pc \in {"idle", "end"}
  /\ proc' = [proc EXCEPT ![v] = [Idle EXCEPT !.pc = "load", !.deal = d,
                                    !.idx = run[v].revs[d], !.st = "waiting"]]
  /\ run' = [run EXCEPT ![v].todo = @ \ {d}]
  /\ UNCHANGED <<world, history, campaign, rows, late>>

ReevaluationEnds(v) ==
  /\ run[v].pc = "loop" /\ run[v].todo = {} /\ proc[v].pc \in {"idle", "end"}
  /\ run' = [run EXCEPT ![v] = NoRun]
  /\ proc' = [proc EXCEPT ![v] = Idle]
  /\ UNCHANGED <<world, history, campaign, rows, late>>

-----------------------------------------------------------------------------
(* Automatic Pursue                                                         *)

CapOf(kind) == CASE kind = "canary" -> 1 [] kind = "active" -> Cap [] OTHER -> 0
Commands(kind) == kind \in {"canary", "active"}

\* The activation and the day's earlier runs
RunReads(r) ==
  /\ run[r].pc = "idle"
  /\ LET today == {x \in rows : x.day = day /\ x.done}
     IN run' = [run EXCEPT ![r] = [NoRun EXCEPT !.pc = "claim", !.kind = mode.kind,
                  !.id = mode.id, !.day = day, !.seq = Cardinality(today),
                  !.earlier = UNION {x.blocked : x \in today}]]
  /\ UNCHANGED <<world, history, campaign, rows, proc, late>>

\* One run of a key: the key counts the completed runs
RunClaims(r) ==
  LET mine == [day |-> run[r].day, kind |-> run[r].kind, seq |-> run[r].seq]
      taken == \E x \in rows : x.key = mine
  IN
  /\ run[r].pc = "claim"
  /\ rows' = IF taken THEN rows
             ELSE rows \cup {[key |-> mine, day |-> run[r].day, done |-> FALSE, blocked |-> {}]}
  /\ run' = [run EXCEPT ![r].pc = IF taken THEN "over" ELSE "list"]
  /\ UNCHANGED <<world, history, campaign, proc, late>>

\* The rows of the inbox, with their revisions
RunLists(r) ==
  /\ run[r].pc = "list"
  /\ run' = [run EXCEPT ![r] = [@ EXCEPT !.pc = "evaluate", !.todo = Deals,
                                  !.revs = [d \in Deals |-> fact[d].rev]]]
  /\ UNCHANGED <<world, history, campaign, rows, proc, late>>

Blocker(d) ==
  history[d] # <<>> \/ down \/ fact[d].contact = 0 \/ fact[d].stop \/ campaign[d].of # 0

RunEvaluates(r, d) ==
  /\ run[r].pc = "evaluate" /\ d \in run[r].todo /\ run[r].contacts[d] = 0
  /\ run' = [run EXCEPT ![r] =
       IF Blocker(d) THEN [run[r] EXCEPT !.todo = @ \ {d}, !.blocked = @ \cup {d}]
       ELSE IF d \in run[r].earlier THEN [run[r] EXCEPT !.todo = @ \ {d}]
       ELSE [run[r] EXCEPT !.contacts[d] = fact[d].contact]]
  /\ UNCHANGED <<world, history, campaign, rows, proc, late>>

RunEvaluated(r) ==
  /\ run[r].pc = "evaluate" /\ \A d \in run[r].todo : run[r].contacts[d] # 0
  /\ run' = [run EXCEPT ![r].pc = IF Commands(run[r].kind) THEN "check" ELSE "complete"]
  /\ UNCHANGED <<world, history, campaign, rows, proc, late>>

(* Mutant of MayGoOn: the activation is read once, at the start             *)
MayGoOnAsStarted(r) == day = run[r].day /\ AutoToday(run[r].day) < CapOf(run[r].kind)
\* Before each deal: the date, the day's count and the activation
MayGoOn(r) ==
  /\ day = run[r].day
  /\ AutoToday(run[r].day) < CapOf(run[r].kind)
  /\ mode.id = run[r].id

RunChecks(r) ==
  /\ run[r].pc = "check" /\ proc[r].pc \in {"idle", "end"}
  /\ run' = [run EXCEPT ![r].pc = IF run[r].todo # {} /\ MayGoOn(r) THEN "record" ELSE "complete"]
  /\ UNCHANGED <<world, history, campaign, rows, proc, late>>

\* The decision this run's key names is there: it is answered again
Replayed(r, d) == \E i \in DOMAIN history[d] : history[d][i].key = <<run[r].day, d>>
(* Mutant of Refused: the locked writer does not count again                *)
RefusedByDecision(r, d) == ~Replayed(r, d) /\ (history[d] # <<>> \/ day # run[r].day)
(* Mutant of Refused: an owner's decision is left to the blockers           *)
RefusedByCount(r, d) ==
  ~Replayed(r, d) /\ (day # run[r].day \/ AutoToday(run[r].day) >= CapOf(run[r].kind))
\* What else the locked writer of automatic decisions refuses
Refused(r, d) ==
  /\ ~Replayed(r, d)
  /\ \/ history[d] # <<>>
     \/ day # run[r].day
     \/ AutoToday(run[r].day) >= CapOf(run[r].kind)

RunRecords(r, d) ==
  /\ run[r].pc = "record" /\ d \in run[r].todo
  /\ \A e \in run[r].todo : run[r].contacts[e] # 0
  /\ run' = [run EXCEPT ![r] = [run[r] EXCEPT !.pc = "check", !.todo = @ \ {d}]]
  /\ IF down \/ Refused(r, d)
       THEN /\ proc' = [proc EXCEPT ![r] = Idle]
            /\ UNCHANGED <<history, campaign, late>>
       ELSE /\ RecordOwner(r, d, "pursue", <<run[r].day, d>>, run[r].revs[d], run[r].contacts[d],
                           TRUE)
            /\ late' = [late EXCEPT ![r] =
                 IF history' # history /\ mode.id # run[r].id THEN @ + 1 ELSE @]
  /\ UNCHANGED <<world, rows>>

RunCompletes(r) ==
  /\ run[r].pc = "complete"
  /\ rows' = {IF x.key = [day |-> run[r].day, kind |-> run[r].kind, seq |-> run[r].seq]
                THEN [x EXCEPT !.done = TRUE, !.blocked = run[r].blocked] ELSE x : x \in rows}
  /\ run' = [run EXCEPT ![r].pc = "over"]
  /\ UNCHANGED <<world, history, campaign, proc, late>>

-----------------------------------------------------------------------------
(* The world                                                                *)

Changed == counters' = [counters EXCEPT !.changes = @ + 1]
MayChange(what) == what \in Changes /\ counters.changes < MaxChanges
OnlyFacts == UNCHANGED <<rule, down, mode, day, history, campaign, rows, proc, run, late>>

SourcesChange(d) ==
  MayChange("sources") /\ fact' = [fact EXCEPT ![d].rev = @ + 1] /\ Changed /\ OnlyFacts
ContactChanges(d, k) ==
  /\ MayChange("contact") /\ k # fact[d].contact
  /\ fact' = [fact EXCEPT ![d].contact = k] /\ Changed /\ OnlyFacts
StopComes(d) ==
  /\ MayChange("stop") /\ ~fact[d].stop
  /\ fact' = [fact EXCEPT ![d].stop = TRUE] /\ Changed /\ OnlyFacts
Archive(d) ==
  /\ MayChange("archive") /\ fact[d].crm = "linked"
  /\ fact' = [fact EXCEPT ![d].crm = "closed"] /\ Changed /\ OnlyFacts
RuleSwitches ==
  /\ MayChange("rule") /\ rule' = ~rule /\ Changed
  /\ UNCHANGED <<fact, down, mode, day, history, campaign, rows, proc, run, late>>
SourcesFail ==
  /\ MayChange("down") /\ down' = ~down /\ Changed
  /\ UNCHANGED <<fact, rule, mode, day, history, campaign, rows, proc, run, late>>

SetMode(kind) ==
  /\ mode.id < MaxModes + 1
  /\ mode' = [kind |-> kind, id |-> mode.id + 1]
  /\ UNCHANGED <<fact, rule, down, day, counters, history, campaign, rows, proc, run, late>>
NextDay ==
  /\ day < MaxDays
  /\ day' = day + 1
  /\ UNCHANGED <<fact, rule, down, mode, counters, history, campaign, rows, proc, run, late>>

\* The process ends: the rows stay, whoever was at work is gone
Restart ==
  /\ counters.restarts < MaxRestarts
  /\ counters' = [counters EXCEPT !.restarts = @ + 1]
  /\ proc' = [p \in Procs |-> IF proc[p].pc = "idle" THEN Idle
                               ELSE IF p \in Reevals THEN Idle ELSE [Idle EXCEPT !.pc = "end"]]
  /\ run' = [p \in Runs \cup Reevals |->
               IF p \in Reevals \/ run[p].pc = "idle" THEN NoRun ELSE [NoRun EXCEPT !.pc = "over"]]
  /\ UNCHANGED <<fact, rule, down, mode, day, history, campaign, rows, late>>

Next ==
  \/ \E c \in Owners : \/ \E d \in Deals : Show(c, d)
                       \/ \E action \in Choices, ref \in 0..2 : Command(c, action, ref)
  \/ \E p \in Procs : Orchestrate(p)
  \/ \E v \in Reevals : \/ ListWaiting(v) \/ ReevaluationEnds(v)
                        \/ \E d \in Deals : Reevaluate(v, d)
  \/ \E r \in Runs : \/ RunReads(r) \/ RunClaims(r) \/ RunLists(r) \/ RunEvaluated(r)
                     \/ RunChecks(r) \/ RunCompletes(r)
                     \/ \E d \in Deals : RunEvaluates(r, d) \/ RunRecords(r, d)
  \/ \E d \in Deals : \/ SourcesChange(d) \/ StopComes(d) \/ Archive(d)
                      \/ \E k \in 0..2 : ContactChanges(d, k)
  \/ RuleSwitches \/ SourcesFail \/ NextDay \/ Restart
  \/ \E kind \in {"off", "canary"} : SetMode(kind)

Spec == Init /\ [][Next]_vars

-----------------------------------------------------------------------------
(* The types of the variables                                               *)
TypeOK ==
  /\ \A d \in Deals :
       /\ fact[d].rev \in 1..(MaxChanges + 1) /\ fact[d].contact \in 0..2
       /\ fact[d].stop \in BOOLEAN /\ fact[d].crm \in {"none", "linked", "closed"}
       /\ \A i \in DOMAIN history[d] : history[d][i].state \in EnrollmentStates
       /\ campaign[d].of \in 0..Len(history[d])
       /\ campaign[d].state \in {"none", "pending", "stopped"}
  /\ rule \in BOOLEAN /\ down \in BOOLEAN /\ day \in 1..MaxDays
  /\ mode.id \in 1..(MaxModes + 1)
  /\ \A p \in Procs : proc[p].pc \in {"idle", "shown", "load", "basis", "link", "reload",
                                       "allocate", "settle", "end"}

(* A campaign that may write belongs to the enrollment of the deal's last   *)
(* decision, and that is a Pursue: a Watch or a Pass in the middle of an    *)
(* orchestration leaves no campaign behind (recordOwnerDecisionSync,        *)
(* materializePursuitCampaign)                                              *)
CampaignIsWanted ==
  \A d \in Deals : campaign[d].state = "pending" =>
    /\ Last(d) = "pursue"
    /\ history[d][campaign[d].of].state = "campaign"
    /\ Current(d) = campaign[d].of

(* A deal has one enrollment that is not superseded (the index on           *)
(* deal_hunter_pursuit_enrollments), and one is said to have a campaign     *)
(* only if the campaign is there                                            *)
OneEnrollment ==
  \A d \in Deals :
    /\ Cardinality({i \in DOMAIN history[d] : history[d][i].state \notin {"none", "superseded"}}) <= 1
    /\ \A i \in DOMAIN history[d] : history[d][i].state = "campaign" => campaign[d].of = i

(* A campaign is allocated on facts that hold at that moment, whatever      *)
(* changed between the reads of the orchestration and its transaction, and  *)
(* for the contact the decision named (orchestratePursuitEnrollment)        *)
OnFacts ==
  \A d \in Deals : campaign[d].of = 0 /\ campaign'[d].of # 0 =>
       /\ rule /\ ~fact[d].stop /\ fact[d].crm = "linked"
       /\ campaign'[d].rev = fact[d].rev /\ campaign'[d].contact = fact[d].contact
       /\ history[d][campaign'[d].of].chosen \in {0, campaign'[d].contact}
AllocatedOnFacts == [][OnFacts]_vars

(* Automatic Pursue decides only what nobody decided before it              *)
(* (recordAutoPursueDecision), and no more than the day's cap               *)
AutoIsFirst == \A d \in Deals : \A i \in DOMAIN history[d] : history[d][i].auto => i = 1
CapHolds == \A n \in 1..MaxDays : AutoToday(n) <= Cap

(* The owner's change of the mode stops a run at the next deal: at most the *)
(* deal it had in hand is still recorded (runAutoPursue)                    *)
OffIsHeard == \A r \in Runs : late[r] <= 1

(* A waiting enrollment without a chosen contact is looked at again until   *)
(* it ends, when the sources can be read and the rule is on for good        *)
(* (reevaluateWaitingPursuitEnrollments)                                    *)
WaitingAt(d, i) == i \in DOMAIN history[d] /\ history[d][i].state = "waiting" /\ history[d][i].chosen = 0
Quiet == counters.changes = MaxChanges /\ rule /\ ~down
WaitingIsHeard ==
  \A d \in Deals : \A i \in 1..Cardinality(Owners) :
    (WaitingAt(d, i) /\ Quiet) ~> ~WaitingAt(d, i)

FairSpec ==
  /\ Spec
  /\ \A v \in Reevals :
       WF_vars(ListWaiting(v) \/ (\E d \in Deals : Reevaluate(v, d)) \/ ReevaluationEnds(v) \/ Orchestrate(v))
=============================================================================
