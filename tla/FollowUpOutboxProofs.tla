------------------------ MODULE FollowUpOutboxProofs ------------------------
(***************************************************************************)
(* Theorems about the e-mails that leave once: FollowUpOutbox for any       *)
(* requests, confirmations, records and daily cap, and, from the instance   *)
(* Cim on, CimRequests for any opportunities, recipients, senders and cap.  *)
(* Order for the outbox: types, one command per confirmation, what is       *)
(* accepted, stops, unresolved commands, the cap, claims that do not lapse, *)
(* and the promise of ConfirmedMail; for the first contact: types,          *)
(* completed rows, what each action does, and the contact's invariant; from *)
(* the instance Man on, ManualFollowUps: the follow-ups of one request for  *)
(* any number of approvals, follow-ups, failures and restarts; and from the *)
(* instance Rem on, FollowUpRunner: the automatic follow-ups of any rows of *)
(* one opportunity, by any runs, with any numbers of faults and restarts.   *)
(***************************************************************************)
EXTENDS FollowUpOutbox, FiniteSetTheorems, TLAPS

RecordRows == [version : Nat, closed : BOOLEAN, talk : Nat, latest : Requests \cup {None},
               sequence : {"idle", "sending", "manual_takeover"}]
CommandRows == [state : Unresolved \cup Terminal \cup {"none"}, claim : Requests \cup {None},
                lapsed : BOOLEAN, due : BOOLEAN, version : Nat, reviewed : Reviews,
                delivery : Deliveries]
Steps == {"new", "create", "claim", "review", "call", "finish", "record", "cancel", "done"}
RequestRows == [pc : Steps, cmd : Requests \cup {None}, version : Nat, reviewed : Reviews,
                answer : Answers \cup {"none"}, stopped : BOOLEAN]

-----------------------------------------------------------------------------
(* Types *)

(* A request that works on a command has one, and an answer to finish with. *)
Working == {"claim", "review", "call", "finish", "record", "cancel"}
WorksOnOne == \A q \in Requests :
  /\ request[q].pc \in Working => request[q].cmd \in Requests
  /\ request[q].pc = "finish" => request[q].answer \in Answers
Claims(row) == (row.claim # None) <=> (row.state = "sending")
OutboxTyped == TypeOK /\ WorksOnOne

LEMMA OutboxTypedAtFirst == ASSUME OutboxAssumption, Init PROVE OutboxTyped
  <1>1. Empty \in Reviews /\ Empty.delivery \in Deliveries
    BY DEF Empty, Reviews, Deliveries
  <1>2. NoCommand \in CommandRows /\ Claims(NoCommand)
    BY <1>1 DEF NoCommand, CommandRows, Deliveries, Claims
  <1>3. NewRequest \in RequestRows
    BY <1>1 DEF NewRequest, RequestRows, Steps
  <1>4. /\ record \in [Records -> RecordRows] /\ command \in [Requests -> CommandRows]
        /\ request \in [Requests -> RequestRows] /\ \A c \in Requests : Claims(command[c])
    BY <1>2, <1>3 DEF Init, RecordRows
  <1>5. suppressed \subseteq Records /\ mailed \subseteq Requests /\ rested \subseteq mailed
    BY DEF Init
  <1>6. events \in 0..MaxEvents /\ crashes \in 0..MaxCrashes /\ faults \in 0..MaxFaults
    BY DEF Init, OutboxAssumption
  <1>7. \A q \in Requests : request[q].pc = "new"
    BY DEF Init, NewRequest
  <1>8. WorksOnOne
    BY <1>7 DEF WorksOnOne, Working
  <1> QED BY <1>4, <1>5, <1>6, <1>8
          DEF OutboxTyped, TypeOK, RecordRows, CommandRows, RequestRows, Steps, Claims

(* A request's row with some of its fields written. *)
LEMMA RequestRow ==
  ASSUME NEW row \in RequestRows, NEW pc \in Steps, NEW c \in Requests, NEW n \in Nat,
         NEW seen \in Reviews, NEW a \in Answers, NEW b \in BOOLEAN
  PROVE  /\ [row EXCEPT !.cmd = c, !.pc = pc] \in RequestRows
         /\ [row EXCEPT !.pc = pc, !.cmd = c] \in RequestRows
         /\ [row EXCEPT !.pc = pc, !.version = n, !.reviewed = seen] \in RequestRows
         /\ [row EXCEPT !.pc = pc, !.stopped = b] \in RequestRows
         /\ [row EXCEPT !.pc = pc, !.answer = a] \in RequestRows
  <1>1. [row EXCEPT !.cmd = c, !.pc = pc] \in RequestRows
    BY DEF RequestRows
  <1>2. [row EXCEPT !.pc = pc, !.cmd = c] \in RequestRows
    BY DEF RequestRows
  <1>3. [row EXCEPT !.pc = pc, !.version = n, !.reviewed = seen] \in RequestRows
    BY DEF RequestRows
  <1>4. [row EXCEPT !.pc = pc, !.stopped = b] \in RequestRows
    BY DEF RequestRows
  <1>5. [row EXCEPT !.pc = pc, !.answer = a] \in RequestRows
    BY DEF RequestRows
  <1> QED BY <1>1, <1>2, <1>3, <1>4, <1>5

(* A claimed row, and a record with some of its fields written. *)
LEMMA CommandRow ==
  ASSUME None \notin Requests, NEW row \in CommandRows, NEW q \in Requests
  PROVE  LET taken == [row EXCEPT !.state = "sending", !.claim = q, !.lapsed = FALSE]
         IN  taken \in CommandRows /\ Claims(taken)
  <1> DEFINE taken == [row EXCEPT !.state = "sending", !.claim = q, !.lapsed = FALSE]
  <1>1. taken \in CommandRows
    BY DEF CommandRows, Unresolved
  <1>2. taken.state = "sending" /\ taken.claim = q
    BY DEF CommandRows
  <1>3. Claims(taken)
    BY <1>2 DEF Claims
  <1> QED BY <1>1, <1>3
LEMMA RecordRow ==
  ASSUME NEW row \in RecordRows, NEW n \in Nat, NEW k \in Nat, NEW c \in Requests \cup {None},
         NEW s \in {"idle", "sending", "manual_takeover"}, NEW b \in BOOLEAN
  PROVE  /\ [row EXCEPT !.version = n, !.talk = k, !.latest = c, !.sequence = s] \in RecordRows
         /\ [row EXCEPT !.talk = k, !.latest = c] \in RecordRows
         /\ [row EXCEPT !.version = n, !.closed = b] \in RecordRows
  <1>1. [row EXCEPT !.version = n, !.talk = k, !.latest = c, !.sequence = s] \in RecordRows
    BY DEF RecordRows
  <1>2. [row EXCEPT !.talk = k, !.latest = c] \in RecordRows
    BY DEF RecordRows
  <1>3. [row EXCEPT !.version = n, !.closed = b] \in RecordRows
    BY DEF RecordRows
  <1> QED BY <1>1, <1>2, <1>3

(* Every step keeps the types. *)
LEMMA OutboxTypedKept ==
  ASSUME OutboxAssumption, OutboxTyped, [Next]_vars PROVE OutboxTyped'
  <1> DEFINE Works(row) == /\ row.pc \in Working => row.cmd \in Requests
                           /\ row.pc = "finish" => row.answer \in Answers
             Rows(f) == f \in [Requests -> CommandRows] /\ \A c \in Requests : Claims(f[c])
             Calls(f) == f \in [Requests -> RequestRows] /\ \A q \in Requests : Works(f[q])
  <1>0. /\ record \in [Records -> RecordRows] /\ suppressed \subseteq Records
        /\ mailed \subseteq Requests /\ rested \subseteq mailed
        /\ Rows(command) /\ Calls(request)
        /\ events \in 0..MaxEvents /\ crashes \in 0..MaxCrashes /\ faults \in 0..MaxFaults
    BY DEF OutboxTyped, TypeOK, WorksOnOne, RecordRows, CommandRows, RequestRows, Steps, Claims
  <1>t. ASSUME record' \in [Records -> RecordRows], suppressed' \subseteq Records,
               mailed' \subseteq Requests, rested' \subseteq mailed', Rows(command'), Calls(request'),
               events' \in 0..MaxEvents, crashes' \in 0..MaxCrashes, faults' \in 0..MaxFaults
        PROVE  OutboxTyped'
    BY <1>t DEF OutboxTyped, TypeOK, WorksOnOne, RecordRows, CommandRows, RequestRows, Steps, Claims
  <1>n. ASSUME NEW k \in Nat, NEW n \in Nat, k < n PROVE k + 1 \in 0..n
    BY <1>n
  <1>b. MaxEvents \in Nat /\ MaxCrashes \in Nat /\ MaxFaults \in Nat
    BY DEF OutboxAssumption
  <1>r. ASSUME NEW q \in Requests PROVE Rec(q) \in Records /\ TokenOf[q] \in Tokens
    BY DEF Rec, OutboxAssumption
  <1>g. Empty \in Reviews /\ "sent" \in Answers /\ TRUE \in BOOLEAN /\ 0 \in Nat /\ None \in Requests \cup {None}
        /\ "idle" \in {"idle", "sending", "manual_takeover"}
    BY DEF Empty, Reviews, Deliveries, Answers
  (* The ways in which rows are written. *)
  <1>p. ASSUME NEW q \in Requests, NEW pc \in Steps, request' = [request EXCEPT ![q].pc = pc],
               Works([request[q] EXCEPT !.pc = pc])
        PROVE  Calls(request')
    <2>1. [request[q] EXCEPT !.pc = pc] \in RequestRows
      BY <1>0, <1>p DEF RequestRows
    <2>2. request' = [request EXCEPT ![q] = [request[q] EXCEPT !.pc = pc]]
      BY <1>p
    <2> HIDE DEF Works
    <2> QED BY <1>0, <1>p, <2>1, <2>2
  <1>d. ASSUME NEW q \in Requests, request' = [request EXCEPT ![q].pc = "done"]
        PROVE  Calls(request')
    <2>1. "done" \in Steps /\ "done" \notin Working /\ "done" # "finish"
      BY DEF Steps, Working
    <2>2. [request[q] EXCEPT !.pc = "done"].pc = "done"
      BY <1>0 DEF RequestRows
    <2>3. Works([request[q] EXCEPT !.pc = "done"])
      BY <2>1, <2>2
    <2> HIDE DEF Works, Calls
    <2> QED BY <1>p, <1>d, <2>1, <2>3
  <1>w. ASSUME NEW c \in Requests, NEW row, row \in CommandRows, Claims(row),
               command' = [command EXCEPT ![c] = row]
        PROVE  Rows(command')
    BY <1>0, <1>w
  <1>f. ASSUME NEW c \in Requests, NEW s \in (Unresolved \cup Terminal) \ {"sending"},
               NEW d \in Deliveries, Finished(c, s, d)
        PROVE  Rows(command')
    <2> DEFINE row == [command[c] EXCEPT !.state = s, !.claim = None, !.lapsed = FALSE,
                                         !.due = (s # "retryable_failed"), !.delivery = d]
    <2>1. row \in CommandRows /\ Claims(row)
      BY <1>0, <1>f DEF CommandRows, Claims
    <2>2. command' = [command EXCEPT ![c] = row]
      BY <1>f DEF Finished
    <2> HIDE DEF row, Rows
    <2> QED BY <1>w, <2>1, <2>2
  <1>v. ASSUME NEW c \in Requests, NEW d \in Deliveries,
               command' = [command EXCEPT ![c].delivery = d]
        PROVE  Rows(command')
    <2>1. [command[c] EXCEPT !.delivery = d] \in CommandRows
      BY <1>0 DEF CommandRows
    <2>2. Claims([command[c] EXCEPT !.delivery = d])
      BY <1>0 DEF CommandRows, Claims
    <2>3. command' = [command EXCEPT ![c] = [command[c] EXCEPT !.delivery = d]]
      BY <1>v
    <2> HIDE DEF Rows
    <2> QED BY <1>w, <2>1, <2>2, <2>3
  <1>e. ASSUME NEW r \in Records, NEW row \in RecordRows, record' = [record EXCEPT ![r] = row]
        PROVE  record' \in [Records -> RecordRows]
    BY <1>0, <1>e
  <1>m. ASSUME NEW m \in Requests \cup {None} PROVE Delivery(m) \in Deliveries
    <2>1. CASE m = None
      BY <2>1 DEF Delivery, Deliveries
    <2>2. CASE m # None
      BY <1>0, <2>2 DEF Delivery, CommandRows
    <2> QED BY <2>1, <2>2
  <1>1. ASSUME NEW q \in Requests, Repeat(q) PROVE OutboxTyped'
    <2>1. PICK c \in Existing(q) :
            request' = [request EXCEPT ![q].cmd = c,
                          ![q].pc = IF command[c].state \in Terminal THEN "done" ELSE "claim"]
      BY <1>1 DEF Repeat
    <2> DEFINE pc == IF command[c].state \in Terminal THEN "done" ELSE "claim"
               row == [request[q] EXCEPT !.cmd = c, !.pc = pc]
    <2>2. c \in Requests /\ pc \in {"claim", "done"}
      BY DEF Existing
    <2> HIDE DEF pc
    <2>3. row \in RequestRows
      <3>1. pc \in Steps /\ request[q] \in RequestRows
        BY <1>0, <2>2 DEF Steps
      <3> QED BY <1>g, <2>2, <3>1, RequestRow
    <2>4. row.cmd = c /\ row.pc = pc
      BY <1>0 DEF RequestRows
    <2>5. Works(row)
      BY <2>2, <2>4
    <2>6. request' = [request EXCEPT ![q] = row]
      BY <2>1 DEF pc
    <2> HIDE DEF row, Works
    <2>7. Calls(request')
      BY <1>0, <2>3, <2>5, <2>6
    <2> HIDE DEF Rows, Calls
    <2> QED BY <1>0, <1>1, <1>t, <2>7 DEF Repeat, Others
  <1>2. ASSUME NEW q \in Requests, Preview(q) PROVE OutboxTyped'
    <2> DEFINE r == Rec(q)
               pc == IF Previewable(q) THEN "create" ELSE "done"
               seen == [talk |-> record[r].talk, latest |-> record[r].latest,
                        delivery |-> Delivery(record[r].latest)]
               row == [request[q] EXCEPT !.pc = pc, !.version = record[r].version, !.reviewed = seen]
    <2>1. r \in Records
      BY <1>r
    <2> HIDE DEF r
    <2>2. /\ record[r].talk \in Nat /\ record[r].version \in Nat
          /\ record[r].latest \in Requests \cup {None}
      BY <1>0, <2>1 DEF RecordRows
    <2>3. Delivery(record[r].latest) \in Deliveries
      BY <1>m, <2>2
    <2>4. seen \in Reviews
      BY <2>2, <2>3 DEF Reviews
    <2>5. pc \in {"create", "done"}
      OBVIOUS
    <2>6. request' = [request EXCEPT ![q] = row]
      BY <1>2 DEF Preview, r
    <2> HIDE DEF seen, pc
    <2>7. row \in RequestRows /\ row.pc = pc
      <3>1. pc \in Steps /\ request[q] \in RequestRows
        BY <1>0, <2>5 DEF Steps
      <3>2. row \in RequestRows
        BY <1>g, <2>2, <2>4, <3>1, RequestRow
      <3> QED BY <1>0, <3>2 DEF RequestRows
    <2>8. Works(row)
      BY <2>5, <2>7 DEF Working
    <2> HIDE DEF row, Works
    <2>9. Calls(request')
      BY <1>0, <2>6, <2>7, <2>8
    <2> HIDE DEF Rows, Calls
    <2> QED BY <1>0, <1>2, <1>t, <2>9 DEF Preview, Others
  <1>3. ASSUME NEW q \in Requests, Create(q) PROVE OutboxTyped'
    <2>1. CASE /\ \E c \in SameToken(q) : request' = [request EXCEPT ![q].pc = "claim", ![q].cmd = c]
               /\ UNCHANGED <<record, command>>
      <3>1. PICK c \in SameToken(q) : request' = [request EXCEPT ![q].pc = "claim", ![q].cmd = c]
        BY <2>1
      <3> DEFINE row == [request[q] EXCEPT !.pc = "claim", !.cmd = c]
      <3>2. c \in Requests
        BY DEF SameToken, Existing
      <3>3. row \in RequestRows /\ row.pc = "claim" /\ row.cmd = c
        <4>1. "claim" \in Steps /\ request[q] \in RequestRows
          BY <1>0 DEF Steps
        <4>2. row \in RequestRows
          BY <1>g, <3>2, <4>1, RequestRow
        <4> QED BY <1>0, <4>2 DEF RequestRows
      <3>4. Works(row)
        BY <3>2, <3>3
      <3>5. request' = [request EXCEPT ![q] = row]
        BY <3>1
      <3> HIDE DEF row, Works
      <3>6. Calls(request')
        BY <1>0, <3>3, <3>4, <3>5
      <3> HIDE DEF Rows, Calls
      <3> QED BY <1>0, <1>3, <1>t, <2>1, <3>6 DEF Create, Others
    <2>2. CASE Goto(q, "done") /\ UNCHANGED <<record, command>>
      <3>1. Calls(request')
        BY <1>d, <2>2 DEF Goto
      <3> HIDE DEF Rows, Calls
      <3> QED BY <1>0, <1>3, <1>t, <2>2, <3>1 DEF Create, Others
    <2>3. CASE /\ request' = [request EXCEPT ![q].pc = "claim", ![q].cmd = q]
               /\ command' = [command EXCEPT ![q] = [NoCommand EXCEPT !.state = "queued",
                                !.version = record[Rec(q)].version + 1, !.reviewed = request[q].reviewed]]
               /\ record' = [record EXCEPT ![Rec(q)].version = @ + 1, ![Rec(q)].talk = @ + 1,
                               ![Rec(q)].latest = q,
                               ![Rec(q)].sequence = IF TokenOf[q] \in Takeovers THEN "manual_takeover" ELSE @]
      <3> DEFINE row == [request[q] EXCEPT !.pc = "claim", !.cmd = q]
                 new == [NoCommand EXCEPT !.state = "queued",
                           !.version = record[Rec(q)].version + 1, !.reviewed = request[q].reviewed]
                 s == IF TokenOf[q] \in Takeovers THEN "manual_takeover" ELSE record[Rec(q)].sequence
                 n == record[Rec(q)].version + 1
                 k == record[Rec(q)].talk + 1
                 next == [record[Rec(q)] EXCEPT !.version = n, !.talk = k, !.latest = q,
                                                !.sequence = s]
      <3>1. row \in RequestRows /\ row.pc = "claim" /\ row.cmd = q
        <4>1. "claim" \in Steps /\ request[q] \in RequestRows
          BY <1>0 DEF Steps
        <4>2. row \in RequestRows
          BY <1>g, <4>1, RequestRow
        <4> QED BY <1>0, <4>2 DEF RequestRows
      <3>2. Works(row)
        BY <3>1
      <3>3. request' = [request EXCEPT ![q] = row]
        BY <2>3
      <3>4. Rec(q) \in Records
        BY <1>r
      <3>5. record[Rec(q)] \in RecordRows
        BY <1>0, <3>4
      <3>6. record[Rec(q)].version + 1 \in Nat /\ k \in Nat
        BY <3>5 DEF RecordRows
      <3>7. request[q].reviewed \in Reviews
        BY <1>0 DEF RequestRows
      <3>8. new \in CommandRows /\ Claims(new)
        BY <3>6, <3>7 DEF CommandRows, NoCommand, Unresolved, Deliveries, Claims
      <3>9. command' = [command EXCEPT ![q] = new]
        BY <2>3
      <3>10. s \in {"idle", "sending", "manual_takeover"}
        BY <3>5 DEF RecordRows
      <3>11. record' = [record EXCEPT ![Rec(q)] = next]
        BY <1>0, <2>3, <3>4
      <3>12. n \in Nat
        BY <3>6
      <3> HIDE DEF s, k, n
      <3>16. next \in RecordRows
        BY <3>5, <3>6, <3>10, <3>12, RecordRow
      <3> HIDE DEF row, new, next, Works
      <3>13. record' \in [Records -> RecordRows]
        BY <1>e, <3>4, <3>11, <3>16
      <3>14. Calls(request')
        BY <1>0, <3>1, <3>2, <3>3
      <3>15. Rows(command')
        BY <1>w, <3>8, <3>9
      <3> HIDE DEF Rows, Calls
      <3> QED BY <1>0, <1>3, <1>t, <3>13, <3>14, <3>15 DEF Create, Others
    <2> QED BY <1>3, <2>1, <2>2, <2>3 DEF Create
  <1>4. ASSUME NEW q \in Requests, Claim(q) PROVE OutboxTyped'
    <2> DEFINE c == request[q].cmd
    <2>0. request[q].pc = "claim" /\ "claim" \in Working
      BY <1>4 DEF Claim, Working
    <2>1. c \in Requests
      BY <1>0, <2>0
    <2> HIDE DEF c
    <2>2. CASE Claimable(c)
      <3> DEFINE taken == [command[c] EXCEPT !.state = "sending", !.claim = q, !.lapsed = FALSE]
                 row == [request[q] EXCEPT !.pc = "review", !.stopped = Stopped(Rec(q))]
      <3>1. taken \in CommandRows /\ Claims(taken)
        BY <1>0, <2>1, CommandRow DEF OutboxAssumption
      <3>2. Stopped(Rec(q)) \in BOOLEAN
        BY <1>0, <1>r DEF Stopped, RecordRows
      <3>3. row \in RequestRows /\ row.pc = "review" /\ row.cmd = c
        <4>1. "review" \in Steps /\ request[q] \in RequestRows
          BY <1>0 DEF Steps
        <4>2. row \in RequestRows
          BY <1>g, <3>2, <4>1, RequestRow
        <4> QED BY <1>0, <4>2 DEF RequestRows, c
      <3>4. Works(row)
        BY <2>1, <3>3
      <3>5. command' = [command EXCEPT ![c] = taken] /\ request' = [request EXCEPT ![q] = row]
        BY <1>4, <2>2 DEF Claim, c
      <3> HIDE DEF taken, row, Works
      <3>6. Rows(command')
        BY <1>w, <2>1, <3>1, <3>5
      <3>7. Calls(request')
        BY <1>0, <3>3, <3>4, <3>5
      <3> HIDE DEF Rows, Calls
      <3> QED BY <1>0, <1>4, <1>t, <3>6, <3>7 DEF Claim, Others
    <2>3. CASE ~Claimable(c)
      <3>1. request' = [request EXCEPT ![q].pc = "done"] /\ command' = command
        BY <1>4, <2>3 DEF Claim, Goto, c
      <3>2. Calls(request')
        BY <1>d, <3>1
      <3> HIDE DEF Rows, Calls
      <3> QED BY <1>0, <1>4, <1>t, <3>1, <3>2 DEF Claim, Others
    <2> QED BY <2>2, <2>3
  <1>5. ASSUME NEW q \in Requests, Review(q) PROVE OutboxTyped'
    <2>0. PICK pc \in {"call", "cancel"} : request' = [request EXCEPT ![q].pc = pc]
      BY <1>5 DEF Review, Goto
    <2>1. request[q].pc = "review" /\ "review" \in Working
      BY <1>5 DEF Review, Working
    <2>2. request[q].cmd \in Requests /\ pc \in Steps
      BY <1>0, <2>1 DEF Steps
    <2>3. /\ [request[q] EXCEPT !.pc = pc].cmd = request[q].cmd
          /\ [request[q] EXCEPT !.pc = pc].pc = pc
      BY <1>0 DEF RequestRows
    <2>4. Works([request[q] EXCEPT !.pc = pc])
      BY <2>2, <2>3
    <2> HIDE DEF Works, Calls
    <2>5. Calls(request')
      BY <1>p, <2>0, <2>2, <2>4
    <2> HIDE DEF Rows
    <2> QED BY <1>0, <1>5, <1>t, <2>5 DEF Review, Others
  <1>6. ASSUME NEW q \in Requests, Cancel(q) PROVE OutboxTyped'
    <2> DEFINE c == request[q].cmd
    <2>0. request[q].pc = "cancel" /\ "cancel" \in Working
      BY <1>6 DEF Cancel, Working
    <2>1. c \in Requests
      BY <1>0, <2>0
    <2>2. Finished(c, "cancelled", command[c].delivery) \/ command' = command
      BY <1>6 DEF Cancel
    <2> HIDE DEF c
    <2>3. command[c].delivery \in Deliveries /\ "cancelled" \in (Unresolved \cup Terminal) \ {"sending"}
      BY <1>0, <2>1 DEF CommandRows, Terminal
    <2> HIDE DEF Rows, Calls
    <2>4. Rows(command')
      BY <1>0, <1>f, <2>1, <2>2, <2>3
    <2>5. Calls(request')
      BY <1>d, <1>6 DEF Cancel, Goto
    <2> QED BY <1>0, <1>6, <1>t, <2>4, <2>5 DEF Cancel, Others
  <1>7. ASSUME NEW q \in Requests, Call(q) PROVE OutboxTyped'
    <2> DEFINE c == request[q].cmd
    <2>0. request[q].pc = "call" /\ "call" \in Working
      BY <1>7 DEF Call, Working
    <2>1. c \in Requests
      BY <1>0, <2>0
    <2>2. PICK o \in Outcomes(c) :
            /\ request' = [request EXCEPT ![q].pc = "finish", ![q].answer = o[1]]
            /\ mailed' = IF o[2] THEN mailed \cup {c} ELSE mailed
      BY <1>7 DEF Call
    <2>3. o[1] \in Answers
      <3>1. /\ <<"sent", TRUE>>[1] \in Answers /\ <<"ambiguous", TRUE>>[1] \in Answers
            /\ <<"ambiguous", FALSE>>[1] \in Answers /\ <<"retryable_failed", TRUE>>[1] \in Answers
            /\ <<"retryable_failed", FALSE>>[1] \in Answers
            /\ <<"permanent_failed", FALSE>>[1] \in Answers
        BY DEF Answers
      <3>2. o \in {<<"sent", TRUE>>, <<"ambiguous", TRUE>>, <<"ambiguous", FALSE>>,
                   <<"retryable_failed", TRUE>>, <<"retryable_failed", FALSE>>,
                   <<"permanent_failed", FALSE>>}
        BY Zenon DEF Outcomes
      <3> QED BY <3>1, <3>2, Zenon
    <2> DEFINE row == [request[q] EXCEPT !.pc = "finish", !.answer = o[1]]
    <2>4. row \in RequestRows /\ row.pc = "finish" /\ row.answer = o[1] /\ row.cmd = c
      <3>1. "finish" \in Steps /\ request[q] \in RequestRows
        BY <1>0 DEF Steps
      <3>2. row \in RequestRows
        BY <1>g, <2>3, <3>1, RequestRow
      <3> QED BY <1>0, <3>2 DEF RequestRows
    <2>5. request' = [request EXCEPT ![q] = row]
      BY <2>2
    <2> HIDE DEF c
    <2>6. Works(row)
      BY <2>1, <2>3, <2>4
    <2> HIDE DEF row, Works
    <2>7. Calls(request')
      BY <1>0, <2>4, <2>5, <2>6
    <2>8. mailed' \subseteq Requests /\ mailed \subseteq mailed'
      BY <1>0, <2>1, <2>2
    <2> HIDE DEF Rows, Calls
    <2> QED BY <1>0, <1>7, <1>t, <2>7, <2>8 DEF Call, Others
  <1>8. ASSUME NEW q \in Requests, Finish(q) PROVE OutboxTyped'
    <2> DEFINE c == request[q].cmd
               a == request[q].answer
    <2>0. request[q].pc = "finish" /\ "finish" \in Working
      BY <1>8 DEF Finish, Working
    <2>1. c \in Requests /\ a \in Answers
      BY <1>0, <2>0
    <2>2. PICK pc \in {"record", "done"} : request' = [request EXCEPT ![q].pc = pc]
      BY <1>8 DEF Finish, Goto
    <2>3. /\ [request[q] EXCEPT !.pc = pc].cmd = c
          /\ [request[q] EXCEPT !.pc = pc].pc = pc
      BY <1>0 DEF RequestRows
    <2>4. \/ command' = command
          \/ Finished(c, "accepted", command[c].delivery)
          \/ a # "sent" /\ Finished(c, a, IF a = "ambiguous" THEN command[c].delivery ELSE "failed")
      BY <1>8 DEF Finish
    <2> HIDE DEF c, a
    <2>5. Works([request[q] EXCEPT !.pc = pc]) /\ pc \in Steps
      BY <2>1, <2>3 DEF Steps
    <2> HIDE DEF Works, Calls, Rows
    <2>6. Calls(request')
      BY <1>p, <2>2, <2>5
    <2>7. command[c].delivery \in Deliveries
      BY <1>0, <2>1 DEF CommandRows, Rows
    <2>8. /\ "accepted" \in (Unresolved \cup Terminal) \ {"sending"}
          /\ a # "sent" => a \in (Unresolved \cup Terminal) \ {"sending"}
          /\ "failed" \in Deliveries
      BY <2>1 DEF Answers, Unresolved, Terminal, Deliveries
    <2>9. Rows(command')
      BY <1>0, <1>f, <2>1, <2>4, <2>7, <2>8
    <2> QED BY <1>0, <1>8, <1>t, <2>6, <2>9 DEF Finish, Others
  <1>9. ASSUME NEW q \in Requests, Record(q) PROVE OutboxTyped'
    <2> DEFINE c == request[q].cmd
    <2>0. request[q].pc = "record" /\ "record" \in Working
      BY <1>9 DEF Record, Working
    <2>1. c \in Requests
      BY <1>0, <2>0
    <2>2. /\ command' = [command EXCEPT ![c].delivery = "accepted"] \/ command' = command
          /\ faults' = faults \/ (faults < MaxFaults /\ faults' = faults + 1)
          /\ \/ record' = record
             \/ record' = [record EXCEPT ![Rec(c)].version = @ + 1]
      BY <1>9 DEF Record
    <2> HIDE DEF c
    <2>3. Rec(c) \in Records
      BY <1>r, <2>1
    <2>4. [record[Rec(c)] EXCEPT !.version = @ + 1] \in RecordRows
      BY <1>0, <2>3 DEF RecordRows
    <2>5. record' \in [Records -> RecordRows]
      <3>1. CASE record' = record
        BY <1>0, <3>1
      <3>2. CASE record' = [record EXCEPT ![Rec(c)].version = @ + 1]
        BY <1>0, <2>3, <2>4, <3>2
      <3> QED BY <2>2, <3>1, <3>2
    <2>6. faults' \in 0..MaxFaults
      BY <1>0, <1>b, <2>2
    <2> HIDE DEF Rows, Calls
    <2>7. Rows(command')
      BY <1>0, <1>v, <2>1, <2>2 DEF Deliveries
    <2>8. Calls(request')
      BY <1>d, <1>9 DEF Record, Goto
    <2> QED BY <1>0, <1>9, <1>t, <2>5, <2>6, <2>7, <2>8 DEF Record
  <1>10. ASSUME NEW r \in Records, NEW closing \in BOOLEAN, Edit(r, closing) PROVE OutboxTyped'
    <2> DEFINE n == record[r].version + 1
               b == record[r].closed \/ closing
    <2>1. n \in Nat /\ b \in BOOLEAN
      BY <1>0 DEF RecordRows
    <2>2. record' = [record EXCEPT ![r] = [record[r] EXCEPT !.version = n, !.closed = b]]
      BY <1>10 DEF Edit
    <2> HIDE DEF n, b
    <2>3. [record[r] EXCEPT !.version = n, !.closed = b] \in RecordRows
      BY <1>0, <1>g, <2>1, RecordRow
    <2>4. record' \in [Records -> RecordRows]
      BY <1>e, <2>2, <2>3
    <2> HIDE DEF Rows, Calls
    <2> QED BY <1>0, <1>b, <1>10, <1>t, <2>4 DEF Edit, Event, Rest
  <1>11. ASSUME NEW r \in Records, Suppress(r) PROVE OutboxTyped'
    <2> HIDE DEF Rows, Calls
    <2> QED BY <1>0, <1>b, <1>11, <1>t DEF Suppress, Event, Rest
  <1>12. ASSUME NEW r \in Records, Hear(r) PROVE OutboxTyped'
    <2> DEFINE k == record[r].talk + 1
    <2>1. k \in Nat
      BY <1>0 DEF RecordRows
    <2>2. record' = [record EXCEPT ![r] = [record[r] EXCEPT !.talk = k, !.latest = None]]
      BY <1>12 DEF Hear
    <2> HIDE DEF k
    <2>3. [record[r] EXCEPT !.talk = k, !.latest = None] \in RecordRows
      BY <1>0, <1>g, <2>1, RecordRow
    <2>4. record' \in [Records -> RecordRows]
      BY <1>e, <2>2, <2>3
    <2> HIDE DEF Rows, Calls
    <2> QED BY <1>0, <1>b, <1>12, <1>t, <2>4 DEF Hear, Event, Rest
  <1>13. ASSUME NEW r \in Records, Sequence(r) PROVE OutboxTyped'
    <2>1. PICK s \in {"idle", "sending"} : record' = [record EXCEPT ![r].sequence = s]
      BY <1>13 DEF Sequence
    <2>2. [record[r] EXCEPT !.sequence = s] \in RecordRows
      BY <1>0 DEF RecordRows
    <2>3. record' \in [Records -> RecordRows]
      BY <1>0, <2>1, <2>2
    <2> HIDE DEF Rows, Calls
    <2> QED BY <1>0, <1>b, <1>13, <1>t, <2>3 DEF Sequence, Event, Rest
  <1>14. ASSUME NEW c \in Requests, Bounce(c) PROVE OutboxTyped'
    <2> HIDE DEF Rows, Calls
    <2>1. Rows(command')
      BY <1>v, <1>14 DEF Bounce, Deliveries
    <2>2. suppressed' \subseteq Records
      BY <1>0, <1>r, <1>14 DEF Bounce
    <2> QED BY <1>0, <1>b, <1>14, <1>t, <2>1, <2>2 DEF Bounce, Event, Rest
  <1>15. ASSUME NEW c \in Requests, Lapse(c) \/ Due(c) PROVE OutboxTyped'
    <2>1. \/ command' = [command EXCEPT ![c] = [command[c] EXCEPT !.lapsed = TRUE]]
          \/ command' = [command EXCEPT ![c] = [command[c] EXCEPT !.due = TRUE]]
      BY <1>15 DEF Lapse, Due
    <2>2. /\ [command[c] EXCEPT !.lapsed = TRUE] \in CommandRows
          /\ [command[c] EXCEPT !.due = TRUE] \in CommandRows
      BY <1>0 DEF CommandRows
    <2>3. Claims([command[c] EXCEPT !.lapsed = TRUE]) /\ Claims([command[c] EXCEPT !.due = TRUE])
      BY <1>0 DEF CommandRows, Claims
    <2> HIDE DEF Rows, Calls
    <2>4. Rows(command')
      BY <1>w, <2>1, <2>2, <2>3
    <2> QED BY <1>0, <1>15, <1>t, <2>4 DEF Lapse, Due, Rest
  <1>16. ASSUME NEW c \in Requests, Elapse(c) PROVE OutboxTyped'
    <2> HIDE DEF Rows, Calls
    <2> QED BY <1>0, <1>b, <1>16, <1>t DEF Elapse, Event, Rest
  <1>17. CASE Crash
    <2>1. ASSUME NEW q \in Requests PROVE request'[q] \in RequestRows /\ Works(request'[q])
      <3>1. /\ request'[q] = request[q] \/ request'[q] = [request[q] EXCEPT !.pc = "done"]
            /\ request[q] \in RequestRows /\ Works(request[q])
        BY <1>0, <1>17 DEF Crash
      <3>2. [request[q] EXCEPT !.pc = "done"] \in RequestRows
        BY <3>1 DEF RequestRows, Steps
      <3>3. Works([request[q] EXCEPT !.pc = "done"])
        BY <3>1 DEF RequestRows, Working
      <3> QED BY <3>1, <3>2, <3>3
    <2> HIDE DEF Works
    <2>2. Calls(request')
      BY <1>17, <2>1 DEF Crash
    <2>3. crashes' \in 0..MaxCrashes
      BY <1>0, <1>b, <1>17 DEF Crash
    <2> HIDE DEF Rows, Calls
    <2> QED BY <1>0, <1>17, <1>t, <2>2, <2>3 DEF Crash
  <1>18. CASE UNCHANGED vars
    <2> HIDE DEF Rows, Calls
    <2> QED BY <1>0, <1>18, <1>t DEF vars
  <1> HIDE DEF Rows, Calls
  <1> QED BY <1>1, <1>2, <1>3, <1>4, <1>5, <1>6, <1>7, <1>8, <1>9, <1>10, <1>11, <1>12, <1>13,
             <1>14, <1>15, <1>16, <1>17, <1>18 DEF Next, Step

(* Every variable keeps its type, and a row has a claim just while it is sending. *)
THEOREM OutboxTypes == ASSUME OutboxAssumption PROVE Spec => []TypeOK
  <1>1. Init => OutboxTyped
    BY OutboxTypedAtFirst
  <1>2. OutboxTyped /\ [Next]_vars => OutboxTyped'
    BY OutboxTypedKept
  <1>3. OutboxTyped => TypeOK
    BY DEF OutboxTyped
  <1> QED BY <1>1, <1>2, <1>3, PTL DEF Spec

-----------------------------------------------------------------------------
(* What each step does to the rows, in the terms the invariants need *)

(* The requests other than q stay as they are. *)
OnlyRequest(q) == \A p \in Requests \ {q} : request'[p] = request[p]
OnlyCommand(c) == \A d \in Requests \ {c} : command'[d] = command[d]
(* State and claim of every command stay. *)
StatesStay == \A c \in Requests :
  command'[c].state = command[c].state /\ command'[c].claim = command[c].claim
RecordsStay == record' = record /\ suppressed' = suppressed

LEMMA RepeatDoes ==
  ASSUME OutboxTyped, NEW q \in Requests, Repeat(q)
  PROVE  /\ OnlyRequest(q) /\ RecordsStay /\ UNCHANGED <<command, mailed>>
         /\ request'[q].pc \in {"claim", "done"} /\ request'[q].cmd \in Existing(q)
  <1>0. request \in [Requests -> RequestRows]
    BY DEF OutboxTyped, TypeOK, RequestRows, Steps
  <1>1. PICK c \in Existing(q) :
          request' = [request EXCEPT ![q].cmd = c,
                        ![q].pc = IF command[c].state \in Terminal THEN "done" ELSE "claim"]
    BY DEF Repeat
  <1>2. request'[q].cmd = c /\ request'[q].pc \in {"claim", "done"}
    BY <1>0, <1>1 DEF RequestRows
  <1>3. OnlyRequest(q)
    BY <1>0, <1>1 DEF OnlyRequest
  <1> QED BY <1>2, <1>3 DEF Repeat, Others, RecordsStay

LEMMA PreviewDoes ==
  ASSUME OutboxTyped, NEW q \in Requests, Preview(q)
  PROVE  /\ OnlyRequest(q) /\ RecordsStay /\ UNCHANGED <<command, mailed>>
         /\ request'[q].pc \in {"create", "done"}
         /\ request'[q].pc = "create" => Previewable(q)
         /\ request'[q].version = record[Rec(q)].version
  <1>0. request \in [Requests -> RequestRows]
    BY DEF OutboxTyped, TypeOK, RequestRows, Steps
  <1> DEFINE pc == IF Previewable(q) THEN "create" ELSE "done"
             seen == [talk |-> record[Rec(q)].talk, latest |-> record[Rec(q)].latest,
                      delivery |-> Delivery(record[Rec(q)].latest)]
             row == [request[q] EXCEPT !.pc = pc, !.version = record[Rec(q)].version, !.reviewed = seen]
  <1>1. request' = [request EXCEPT ![q] = row]
    BY DEF Preview
  <1>p. pc \in {"create", "done"} /\ (pc = "create" => Previewable(q))
    OBVIOUS
  <1> HIDE DEF pc, seen
  <1>2. row.pc = pc /\ row.version = record[Rec(q)].version
    BY <1>0 DEF RequestRows
  <1> HIDE DEF row
  <1>3. request'[q] = row /\ OnlyRequest(q)
    BY <1>0, <1>1 DEF OnlyRequest
  <1>4. RecordsStay /\ UNCHANGED <<command, mailed>>
    BY DEF Preview, Others, RecordsStay
  <1> QED BY <1>2, <1>3, <1>4, <1>p

(* A command is found, or the record has changed, or a command is created. *)
Found(q) == /\ UNCHANGED <<record, command>> /\ request'[q].pc = "claim"
            /\ request'[q].cmd \in Existing(q)
GivenUp(q) == UNCHANGED <<record, command>> /\ request'[q].pc = "done"
Created(q) ==
  /\ Existing(q) = {} /\ Unchanged(q) /\ OnlyCommand(q)
  /\ request'[q].pc = "claim" /\ request'[q].cmd = q
  /\ command'[q].state = "queued" /\ command'[q].claim = None /\ ~command'[q].lapsed
  /\ \A r \in Records \ {Rec(q)} : record'[r] = record[r]
  /\ record'[Rec(q)].version = record[Rec(q)].version + 1
  /\ record'[Rec(q)].closed = record[Rec(q)].closed

LEMMA CreateDoes ==
  ASSUME OutboxAssumption, OutboxTyped, NEW q \in Requests, Create(q)
  PROVE  /\ OnlyRequest(q) /\ suppressed' = suppressed /\ mailed' = mailed
         /\ request[q].pc = "create"
         /\ Found(q) \/ GivenUp(q) \/ Created(q)
  <1>0. /\ request \in [Requests -> RequestRows] /\ command \in [Requests -> CommandRows]
        /\ record \in [Records -> RecordRows]
    BY DEF OutboxTyped, TypeOK, RequestRows, Steps, CommandRows, RecordRows
  <1>k. suppressed' = suppressed /\ mailed' = mailed /\ request[q].pc = "create"
    BY DEF Create, Others
  <1>1. CASE /\ \E c \in SameToken(q) : request' = [request EXCEPT ![q].pc = "claim", ![q].cmd = c]
             /\ UNCHANGED <<record, command>>
    <2>1. PICK c \in SameToken(q) : request' = [request EXCEPT ![q].pc = "claim", ![q].cmd = c]
      BY <1>1
    <2>2. request'[q].pc = "claim" /\ request'[q].cmd = c /\ OnlyRequest(q)
      BY <1>0, <2>1 DEF RequestRows, OnlyRequest
    <2> QED BY <1>k, <1>1, <2>2 DEF Found, SameToken
  <1>2. CASE Goto(q, "done") /\ UNCHANGED <<record, command>>
    <2>1. request'[q].pc = "done" /\ OnlyRequest(q)
      BY <1>0, <1>2 DEF Goto, RequestRows, OnlyRequest
    <2> QED BY <1>k, <1>2, <2>1 DEF GivenUp
  <1>3. CASE /\ SameToken(q) = {} /\ Unchanged(q)
             /\ request' = [request EXCEPT ![q].pc = "claim", ![q].cmd = q]
             /\ command' = [command EXCEPT ![q] = [NoCommand EXCEPT !.state = "queued",
                              !.version = record[Rec(q)].version + 1, !.reviewed = request[q].reviewed]]
             /\ record' = [record EXCEPT ![Rec(q)].version = @ + 1, ![Rec(q)].talk = @ + 1,
                             ![Rec(q)].latest = q,
                             ![Rec(q)].sequence = IF TokenOf[q] \in Takeovers THEN "manual_takeover" ELSE @]
    <2> DEFINE s == IF TokenOf[q] \in Takeovers THEN "manual_takeover" ELSE record[Rec(q)].sequence
               n == record[Rec(q)].version + 1
               k == record[Rec(q)].talk + 1
               next == [record[Rec(q)] EXCEPT !.version = n, !.talk = k, !.latest = q, !.sequence = s]
               seen == request[q].reviewed
               new == [NoCommand EXCEPT !.state = "queued", !.version = n, !.reviewed = seen]
    <2>1. request'[q].pc = "claim" /\ request'[q].cmd = q /\ OnlyRequest(q)
      BY <1>0, <1>3 DEF RequestRows, OnlyRequest
    <2>2. Rec(q) \in Records
      BY DEF Rec, OutboxAssumption
    <2>3. record' = [record EXCEPT ![Rec(q)] = next] /\ command' = [command EXCEPT ![q] = new]
      BY <1>0, <1>3, <2>2
    <2>n. n = record[Rec(q)].version + 1
      OBVIOUS
    <2> HIDE DEF s, k, n, seen
    <2>4. next.version = n /\ next.closed = record[Rec(q)].closed
      BY <1>0, <2>2 DEF RecordRows
    <2>5. new.state = "queued" /\ new.claim = None /\ ~new.lapsed
      BY DEF NoCommand
    <2> HIDE DEF next, new
    <2>6. record'[Rec(q)] = next /\ \A r \in Records \ {Rec(q)} : record'[r] = record[r]
      BY <1>0, <2>2, <2>3
    <2>7. command'[q] = new /\ OnlyCommand(q)
      BY <1>0, <2>3 DEF OnlyCommand
    <2>8. Existing(q) = {} /\ Unchanged(q)
      BY <1>3 DEF SameToken
    <2>9. Created(q)
      BY <2>1, <2>4, <2>5, <2>6, <2>7, <2>8, <2>n DEF Created
    <2> QED BY <1>k, <2>1, <2>9
  <1> QED BY <1>1, <1>2, <1>3 DEF Create

LEMMA ClaimDoes ==
  ASSUME OutboxTyped, NEW q \in Requests, Claim(q)
  PROVE  /\ OnlyRequest(q) /\ RecordsStay /\ mailed' = mailed
         /\ request[q].pc = "claim" /\ request[q].cmd \in Requests
         /\ \/ /\ Claimable(request[q].cmd) /\ OnlyCommand(request[q].cmd)
               /\ command'[request[q].cmd].state = "sending" /\ command'[request[q].cmd].claim = q
               /\ ~command'[request[q].cmd].lapsed
               /\ request'[q].pc = "review" /\ request'[q].cmd = request[q].cmd
               /\ request'[q].stopped = Stopped(Rec(q))
            \/ request'[q].pc = "done" /\ command' = command
  <1> DEFINE c == request[q].cmd
  <1>0. /\ request \in [Requests -> RequestRows] /\ command \in [Requests -> CommandRows]
    BY DEF OutboxTyped, TypeOK, RequestRows, Steps, CommandRows
  <1>k. RecordsStay /\ mailed' = mailed /\ request[q].pc = "claim" /\ c \in Requests
    BY DEF Claim, Others, RecordsStay, OutboxTyped, WorksOnOne, Working
  <1>1. CASE Claimable(c)
    <2> DEFINE row == [request[q] EXCEPT !.pc = "review", !.stopped = Stopped(Rec(q))]
               taken == [command[c] EXCEPT !.state = "sending", !.claim = q, !.lapsed = FALSE]
    <2>1. request' = [request EXCEPT ![q] = row] /\ command' = [command EXCEPT ![c] = taken]
      BY <1>1 DEF Claim
    <2>2. row.pc = "review" /\ row.cmd = c
      BY <1>0 DEF RequestRows
    <2>3. row.stopped = Stopped(Rec(q))
      BY <1>0, Zenon DEF RequestRows
    <2> HIDE DEF c
    <2>4. taken.state = "sending" /\ taken.claim = q /\ ~taken.lapsed
      BY <1>0, <1>k DEF CommandRows
    <2> HIDE DEF row, taken
    <2>5. request'[q] = row /\ OnlyRequest(q)
      BY <1>0, <2>1 DEF OnlyRequest
    <2>6. command'[c] = taken /\ OnlyCommand(c)
      BY <1>0, <1>k, <2>1 DEF OnlyCommand
    <2>7. /\ command'[c].state = "sending" /\ command'[c].claim = q /\ ~command'[c].lapsed
          /\ request'[q].pc = "review" /\ request'[q].cmd = c
      BY <2>2, <2>4, <2>5, <2>6
    <2>8. request'[q].stopped = Stopped(Rec(q))
      BY <2>3, <2>5, Zenon
    <2> QED BY <1>k, <1>1, <2>5, <2>6, <2>7, <2>8, Zenon DEF c
  <1>2. CASE ~Claimable(c)
    <2>1. request' = [request EXCEPT ![q].pc = "done"] /\ command' = command
      BY <1>2 DEF Claim, Goto
    <2>2. request'[q].pc = "done" /\ OnlyRequest(q)
      BY <1>0, <2>1 DEF RequestRows, OnlyRequest
    <2> QED BY <1>k, <2>1, <2>2
  <1> QED BY <1>1, <1>2

LEMMA ReviewDoes ==
  ASSUME OutboxTyped, NEW q \in Requests, Review(q)
  PROVE  /\ OnlyRequest(q) /\ RecordsStay /\ UNCHANGED <<command, mailed>>
         /\ request[q].pc = "review" /\ request[q].cmd \in Requests
         /\ request'[q].pc = IF StillAllowed(request[q].cmd) THEN "call" ELSE "cancel"
         /\ request'[q].cmd = request[q].cmd /\ request'[q].stopped = request[q].stopped
  <1>0. request \in [Requests -> RequestRows]
    BY DEF OutboxTyped, TypeOK, RequestRows, Steps
  <1>k. RecordsStay /\ UNCHANGED <<command, mailed>> /\ request[q].pc = "review" /\ request[q].cmd \in Requests
    BY DEF Review, Others, RecordsStay, OutboxTyped, WorksOnOne, Working
  <1> DEFINE pc == IF StillAllowed(request[q].cmd) THEN "call" ELSE "cancel"
  <1>1. request' = [request EXCEPT ![q] = [request[q] EXCEPT !.pc = pc]]
    BY DEF Review, Goto
  <1> HIDE DEF pc
  <1>2. /\ [request[q] EXCEPT !.pc = pc].pc = pc
        /\ [request[q] EXCEPT !.pc = pc].cmd = request[q].cmd
    BY <1>0 DEF RequestRows
  <1>3. [request[q] EXCEPT !.pc = pc].stopped = request[q].stopped
    BY <1>0, Zenon DEF RequestRows
  <1>4. request'[q] = [request[q] EXCEPT !.pc = pc] /\ OnlyRequest(q)
    BY <1>0, <1>1 DEF OnlyRequest
  <1>5. request'[q].pc = pc /\ request'[q].cmd = request[q].cmd
    BY <1>2, <1>4
  <1>6. request'[q].stopped = request[q].stopped
    BY <1>3, <1>4, Zenon
  <1> QED BY <1>k, <1>4, <1>5, <1>6, Zenon DEF pc

(* The command is left in state s, without its claim. *)
LeftIn(c, s) == OnlyCommand(c) /\ command'[c].state = s /\ command'[c].claim = None

LEMMA FinishedDoes ==
  ASSUME OutboxTyped, NEW c \in Requests, NEW s, NEW d, Finished(c, s, d) PROVE LeftIn(c, s)
  <1>0. command \in [Requests -> CommandRows]
    BY DEF OutboxTyped, TypeOK, CommandRows
  <1> DEFINE b == s # "retryable_failed"
             row == [command[c] EXCEPT !.state = s, !.claim = None, !.lapsed = FALSE,
                                       !.due = b, !.delivery = d]
  <1>1. command' = [command EXCEPT ![c] = row]
    BY DEF Finished
  <1> HIDE DEF b
  <1>2. row.state = s /\ row.claim = None
    BY <1>0 DEF CommandRows
  <1> HIDE DEF row
  <1> QED BY <1>0, <1>1, <1>2 DEF LeftIn, OnlyCommand

LEMMA CancelDoes ==
  ASSUME OutboxTyped, NEW q \in Requests, Cancel(q)
  PROVE  /\ OnlyRequest(q) /\ RecordsStay /\ mailed' = mailed
         /\ request[q].pc = "cancel" /\ request[q].cmd \in Requests /\ request'[q].pc = "done"
         /\ (Holds(q) /\ LeftIn(request[q].cmd, "cancelled")) \/ command' = command
  <1>0. request \in [Requests -> RequestRows]
    BY DEF OutboxTyped, TypeOK, RequestRows, Steps
  <1>1. RecordsStay /\ mailed' = mailed /\ request[q].pc = "cancel" /\ request[q].cmd \in Requests
    BY DEF Cancel, Others, RecordsStay, OutboxTyped, WorksOnOne, Working
  <1>2. OnlyRequest(q) /\ request'[q].pc = "done"
    BY <1>0 DEF Cancel, Goto, OnlyRequest, RequestRows
  <1>3. \/ Holds(q) /\ Finished(request[q].cmd, "cancelled", command[request[q].cmd].delivery)
        \/ command' = command
    BY DEF Cancel
  <1>4. (Holds(q) /\ LeftIn(request[q].cmd, "cancelled")) \/ command' = command
    BY <1>1, <1>3, FinishedDoes
  <1> QED BY <1>1, <1>2, <1>4

LEMMA CallDoes ==
  ASSUME OutboxTyped, NEW q \in Requests, Call(q)
  PROVE  /\ OnlyRequest(q) /\ RecordsStay /\ command' = command
         /\ request[q].pc = "call" /\ request[q].cmd \in Requests
         /\ request'[q].pc = "finish" /\ request'[q].cmd = request[q].cmd
         /\ request'[q].stopped = request[q].stopped
         /\ mailed' \in {mailed, mailed \cup {request[q].cmd}}
         /\ request'[q].answer = "sent" => request[q].cmd \in mailed'
  <1>0. request \in [Requests -> RequestRows]
    BY DEF OutboxTyped, TypeOK, RequestRows, Steps
  <1>1. /\ RecordsStay /\ command' = command /\ request[q].pc = "call" /\ request[q].cmd \in Requests
    BY DEF Call, Others, RecordsStay, OutboxTyped, WorksOnOne, Working
  <1> DEFINE c == request[q].cmd
  <1>2. PICK o \in Outcomes(c) :
          /\ request' = [request EXCEPT ![q].pc = "finish", ![q].answer = o[1]]
          /\ mailed' = IF o[2] THEN mailed \cup {c} ELSE mailed
    BY DEF Call
  <1> HIDE DEF c
  <1>3. o[1] = "sent" => o[2]
    <2>1. o \in {<<"sent", TRUE>>, <<"ambiguous", TRUE>>, <<"ambiguous", FALSE>>,
                 <<"retryable_failed", TRUE>>, <<"retryable_failed", FALSE>>,
                 <<"permanent_failed", FALSE>>}
      BY Zenon DEF Outcomes
    <2>2. /\ <<"sent", TRUE>>[2] = TRUE /\ <<"ambiguous", TRUE>>[1] # "sent"
          /\ <<"ambiguous", FALSE>>[1] # "sent" /\ <<"retryable_failed", TRUE>>[1] # "sent"
          /\ <<"retryable_failed", FALSE>>[1] # "sent" /\ <<"permanent_failed", FALSE>>[1] # "sent"
      OBVIOUS
    <2> QED BY <2>1, <2>2, Zenon
  <1> DEFINE a == o[1]
             row == [request[q] EXCEPT !.pc = "finish", !.answer = a]
  <1>4. request' = [request EXCEPT ![q] = row]
    BY <1>2
  <1>5. row.pc = "finish" /\ row.cmd = request[q].cmd /\ row.answer = o[1]
    BY <1>0 DEF RequestRows
  <1> HIDE DEF a
  <1>6. row.stopped = request[q].stopped
    BY <1>0, Zenon DEF RequestRows
  <1> HIDE DEF row
  <1>7. request'[q] = row /\ OnlyRequest(q)
    BY <1>0, <1>4 DEF OnlyRequest
  <1>8. /\ request'[q].pc = "finish" /\ request'[q].cmd = request[q].cmd
        /\ request'[q].answer = o[1]
    BY <1>5, <1>7
  <1>9. request'[q].stopped = request[q].stopped
    BY <1>6, <1>7, Zenon
  <1>10. mailed' \in {mailed, mailed \cup {c}} /\ (o[1] = "sent" => c \in mailed')
    BY <1>2, <1>3, Zenon
  <1> QED BY <1>1, <1>7, <1>8, <1>9, <1>10, Zenon DEF c

LEMMA FinishDoes ==
  ASSUME OutboxTyped, NEW q \in Requests, Finish(q)
  PROVE  /\ OnlyRequest(q) /\ RecordsStay /\ mailed' = mailed
         /\ request[q].pc = "finish" /\ request[q].cmd \in Requests /\ request[q].answer \in Answers
         /\ request'[q].pc \in {"record", "done"}
         /\ request'[q].cmd = request[q].cmd /\ request'[q].stopped = request[q].stopped
         /\ \/ command' = command
            \/ Holds(q) /\ request[q].answer = "sent" /\ LeftIn(request[q].cmd, "accepted")
            \/ Holds(q) /\ request[q].answer # "sent" /\ LeftIn(request[q].cmd, request[q].answer)
  <1>0. request \in [Requests -> RequestRows]
    BY DEF OutboxTyped, TypeOK, RequestRows, Steps
  <1>1. /\ RecordsStay /\ mailed' = mailed /\ request[q].pc = "finish" /\ request[q].cmd \in Requests
        /\ request[q].answer \in Answers
    BY DEF Finish, Others, RecordsStay, OutboxTyped, WorksOnOne, Working
  <1>2. PICK pc \in {"record", "done"} : request' = [request EXCEPT ![q].pc = pc]
    BY DEF Finish, Goto
  <1>3. /\ [request[q] EXCEPT !.pc = pc].pc = pc
        /\ [request[q] EXCEPT !.pc = pc].cmd = request[q].cmd
    BY <1>0 DEF RequestRows
  <1>4. [request[q] EXCEPT !.pc = pc].stopped = request[q].stopped
    BY <1>0, Zenon DEF RequestRows
  <1>5. request'[q] = [request[q] EXCEPT !.pc = pc] /\ OnlyRequest(q)
    BY <1>0, <1>2 DEF OnlyRequest
  <1>6. request'[q].pc \in {"record", "done"} /\ request'[q].cmd = request[q].cmd
    BY <1>3, <1>5
  <1>7. request'[q].stopped = request[q].stopped
    BY <1>4, <1>5, Zenon
  <1>8. \/ command' = command
        \/ /\ Holds(q) /\ request[q].answer = "sent"
           /\ Finished(request[q].cmd, "accepted", command[request[q].cmd].delivery)
        \/ /\ Holds(q) /\ request[q].answer # "sent"
           /\ Finished(request[q].cmd, request[q].answer, IF request[q].answer = "ambiguous"
                                        THEN command[request[q].cmd].delivery ELSE "failed")
    BY DEF Finish
  <1>9. \/ command' = command
        \/ Holds(q) /\ request[q].answer = "sent" /\ LeftIn(request[q].cmd, "accepted")
        \/ Holds(q) /\ request[q].answer # "sent" /\ LeftIn(request[q].cmd, request[q].answer)
    BY <1>1, <1>8, FinishedDoes
  <1> QED BY <1>1, <1>5, <1>6, <1>7, <1>9, Zenon

LEMMA RecordDoes ==
  ASSUME OutboxAssumption, OutboxTyped, NEW q \in Requests, Record(q)
  PROVE  /\ OnlyRequest(q) /\ StatesStay /\ mailed' = mailed /\ suppressed' = suppressed
         /\ request[q].pc = "record" /\ request'[q].pc = "done"
         /\ \A r \in Records : /\ record'[r].version >= record[r].version
                               /\ record'[r].closed = record[r].closed
         /\ \A c \in Requests : command'[c].lapsed = command[c].lapsed
  <1>0. /\ request \in [Requests -> RequestRows] /\ command \in [Requests -> CommandRows]
        /\ record \in [Records -> RecordRows]
    BY DEF OutboxTyped, TypeOK, RequestRows, Steps, CommandRows, RecordRows
  <1>1. /\ mailed' = mailed /\ suppressed' = suppressed /\ request[q].pc = "record" /\ request[q].cmd \in Requests
    BY DEF Record, OutboxTyped, WorksOnOne, Working
  <1> DEFINE c == request[q].cmd
  <1>2. OnlyRequest(q) /\ request'[q].pc = "done"
    BY <1>0 DEF Record, Goto, OnlyRequest, RequestRows
  <1>3. command' = [command EXCEPT ![c].delivery = "accepted"] \/ command' = command
    BY DEF Record
  <1>4. record' = [record EXCEPT ![Rec(c)].version = @ + 1] \/ record' = record
    BY DEF Record
  <1> HIDE DEF c
  <1>5. \A r \in Records : /\ record'[r].version >= record[r].version
                          /\ record'[r].closed = record[r].closed
    BY <1>0, <1>4 DEF RecordRows
  <1>6. StatesStay
    BY <1>0, <1>3 DEF CommandRows, StatesStay
  <1>7. \A d \in Requests : command'[d].lapsed = command[d].lapsed
    BY <1>0, <1>3 DEF CommandRows
  <1> QED BY <1>1, <1>2, <1>5, <1>6, <1>7

(* What is not a step of a request: edits, stops, replies, bounces and time. *)
Outside ==
  \/ \E r \in Records : \/ \E closing \in BOOLEAN : Edit(r, closing)
                        \/ Suppress(r) \/ Hear(r) \/ Sequence(r)
  \/ \E c \in Requests : Bounce(c) \/ Lapse(c) \/ Due(c) \/ Elapse(c)
  \/ UNCHANGED vars

LEMMA OutsideDoes ==
  ASSUME OutboxAssumption, OutboxTyped, Outside
  PROVE  /\ request' = request /\ mailed' = mailed /\ StatesStay /\ suppressed \subseteq suppressed'
         /\ \A r \in Records : /\ record'[r].version >= record[r].version
                               /\ record[r].closed => record'[r].closed
  <1>0. /\ request \in [Requests -> RequestRows] /\ command \in [Requests -> CommandRows]
        /\ record \in [Records -> RecordRows]
    BY DEF OutboxTyped, TypeOK, RequestRows, Steps, CommandRows, RecordRows
  <1>1. request' = request /\ mailed' = mailed
    BY DEF Outside, Edit, Suppress, Hear, Sequence, Bounce, Lapse, Due, Elapse, Rest, vars
  <1>2. suppressed \subseteq suppressed'
    BY DEF Outside, Edit, Suppress, Hear, Sequence, Bounce, Lapse, Due, Elapse, vars
  <1>3. StatesStay
    <2>1. \/ command' = command
          \/ \E c \in Requests : \/ command' = [command EXCEPT ![c].delivery = "bounced"]
                                \/ command' = [command EXCEPT ![c].lapsed = TRUE]
                                \/ command' = [command EXCEPT ![c].due = TRUE]
      BY DEF Outside, Edit, Suppress, Hear, Sequence, Bounce, Lapse, Due, Elapse, vars
    <2> QED BY <1>0, <2>1 DEF CommandRows, StatesStay
  <1>4. \A r \in Records : record'[r].version >= record[r].version /\ (record[r].closed => record'[r].closed)
    <2>1. \/ record' = record
          \/ \E r \in Records, b \in BOOLEAN :
               record' = [record EXCEPT ![r].version = @ + 1, ![r].closed = @ \/ b]
          \/ \E r \in Records : record' = [record EXCEPT ![r].talk = @ + 1, ![r].latest = None]
          \/ \E r \in Records, s \in {"idle", "sending"} : record' = [record EXCEPT ![r].sequence = s]
      BY DEF Outside, Edit, Suppress, Hear, Sequence, Bounce, Lapse, Due, Elapse, vars
    <2>2. CASE record' = record
      BY <1>0, <2>2 DEF RecordRows
    <2>3. ASSUME NEW r \in Records, NEW b \in BOOLEAN,
                 record' = [record EXCEPT ![r].version = @ + 1, ![r].closed = @ \/ b]
          PROVE  \A x \in Records : record'[x].version >= record[x].version /\ (record[x].closed => record'[x].closed)
      <3> DEFINE n == record[r].version + 1
                 closed == record[r].closed \/ b
                 row == [record[r] EXCEPT !.version = n, !.closed = closed]
      <3>1. record' = [record EXCEPT ![r] = row]
        BY <2>3
      <3>2. n >= record[r].version /\ record[r].version \in Nat /\ (record[r].closed => closed)
        BY <1>0 DEF RecordRows
      <3> HIDE DEF n, closed
      <3>3. row.version = n /\ row.closed = closed
        BY <1>0 DEF RecordRows
      <3> HIDE DEF row
      <3> QED BY <1>0, <3>1, <3>2, <3>3 DEF RecordRows
    <2>4. CASE \E r \in Records : record' = [record EXCEPT ![r].talk = @ + 1, ![r].latest = None]
      BY <1>0, <2>4 DEF RecordRows
    <2>5. CASE \E r \in Records, s \in {"idle", "sending"} : record' = [record EXCEPT ![r].sequence = s]
      BY <1>0, <2>5 DEF RecordRows
    <2> QED BY <2>1, <2>2, <2>3, <2>4, <2>5
  <1> QED BY <1>1, <1>2, <1>3, <1>4

LEMMA CrashDoes ==
  ASSUME OutboxTyped, Crash
  PROVE  /\ RecordsStay /\ UNCHANGED <<command, mailed>>
         /\ \A q \in Requests : request'[q].pc \in {"new", "done"}
  <1>0. request \in [Requests -> RequestRows]
    BY DEF OutboxTyped, TypeOK, RequestRows, Steps
  <1> QED BY <1>0 DEF Crash, RequestRows, RecordsStay

(* A step is one of these. *)
LEMMA OutboxSteps ==
  ASSUME [Next]_vars
  PROVE  Outside \/ Crash \/ (\E q \in Requests : Step(q))
  BY DEF Next, Outside

-----------------------------------------------------------------------------
(* One command per confirmation *)

HandlesItsOwn(q) ==
  /\ request[q].cmd \in Requests /\ Exists(request[q].cmd)
  /\ TokenOf[request[q].cmd] = TokenOf[q]
HandleTheirOwn == \A q \in Requests : request[q].pc \in Working => HandlesItsOwn(q)
OneCommand == \A c, d \in Requests : Exists(c) /\ Exists(d) /\ TokenOf[c] = TokenOf[d] => c = d
OutboxOnce == HandleTheirOwn /\ OneCommand /\ \A c \in mailed : Exists(c)

LEMMA OnceAtFirst == ASSUME OutboxAssumption, Init PROVE OutboxOnce
  <1>1. \A c \in Requests : ~Exists(c)
    BY DEF Init, NoCommand, Exists
  <1>2. \A q \in Requests : request[q].pc \notin Working
    BY DEF Init, NewRequest, Working
  <1>3. mailed = {}
    BY DEF Init
  <1> QED BY <1>1, <1>2, <1>3 DEF OutboxOnce, HandleTheirOwn, OneCommand

LEMMA OnceKept ==
  ASSUME OutboxAssumption, OutboxTyped, OutboxOnce, [Next]_vars PROVE OutboxOnce'
  <1>m. mailed \subseteq Requests
    BY DEF OutboxTyped, TypeOK
  (* Unless a command is created the same commands exist. *)
  <1>s. ASSUME \A c \in Requests : Exists(c)' <=> Exists(c), HandleTheirOwn',
               mailed' \subseteq mailed \cup {c \in Requests : Exists(c)}
        PROVE  OutboxOnce'
    <2>1. OneCommand'
      BY <1>s DEF OutboxOnce, OneCommand
    <2>2. \A c \in mailed' : Exists(c)'
      BY <1>m, <1>s DEF OutboxOnce
    <2> QED BY <1>s, <2>1, <2>2 DEF OutboxOnce
  <1>h. ASSUME NEW q \in Requests, OnlyRequest(q), \A c \in Requests : Exists(c) => Exists(c)',
               request'[q].pc \in Working => HandlesItsOwn(q)'
        PROVE  HandleTheirOwn'
    BY <1>h DEF OutboxOnce, HandleTheirOwn, HandlesItsOwn, OnlyRequest
  <1>e. ASSUME StatesStay \/ command' = command PROVE \A c \in Requests : Exists(c)' <=> Exists(c)
    BY <1>e DEF StatesStay, Exists
  <1>1. ASSUME NEW q \in Requests, Repeat(q) PROVE OutboxOnce'
    <2>1. /\ OnlyRequest(q) /\ UNCHANGED <<command, mailed>> /\ request'[q].cmd \in Existing(q)
      BY <1>1, RepeatDoes
    <2>2. HandlesItsOwn(q)'
      BY <2>1 DEF HandlesItsOwn, Existing, Exists
    <2> QED BY <1>e, <1>h, <1>s, <2>1, <2>2
  <1>2. ASSUME NEW q \in Requests, Preview(q) PROVE OutboxOnce'
    <2>1. OnlyRequest(q) /\ UNCHANGED <<command, mailed>> /\ request'[q].pc \notin Working
      BY <1>2, PreviewDoes DEF Working
    <2> QED BY <1>e, <1>h, <1>s, <2>1
  <1>3. ASSUME NEW q \in Requests, Create(q) PROVE OutboxOnce'
    <2>0. /\ OnlyRequest(q) /\ mailed' = mailed
          /\ Found(q) \/ GivenUp(q) \/ Created(q)
      BY <1>3, CreateDoes
    <2>1. CASE Found(q)
      <3>1. HandlesItsOwn(q)'
        BY <2>1 DEF Found, HandlesItsOwn, Existing, Exists
      <3>2. command' = command
        BY <2>1 DEF Found
      <3> QED BY <1>e, <1>h, <1>s, <2>0, <3>1, <3>2
    <2>2. CASE GivenUp(q)
      <3>1. command' = command /\ request'[q].pc \notin Working
        BY <2>2 DEF GivenUp, Working
      <3> QED BY <1>e, <1>h, <1>s, <2>0, <3>1
    <2>3. CASE Created(q)
      <3>1. /\ Existing(q) = {} /\ Exists(q)' /\ request'[q].cmd = q
            /\ \A c \in Requests : c # q => (Exists(c)' <=> Exists(c))
        BY <2>3 DEF Created, OnlyCommand, Exists
      <3>2. \A c \in Requests : Exists(c) => TokenOf[c] # TokenOf[q]
        BY <3>1 DEF Existing
      <3>3. HandlesItsOwn(q)'
        BY <3>1 DEF HandlesItsOwn, Exists
      <3>4. \A c \in Requests : Exists(c) => Exists(c)'
        BY <3>1
      <3>5. OneCommand'
        BY <3>1, <3>2 DEF OutboxOnce, OneCommand
      <3>6. HandleTheirOwn'
        BY <1>h, <2>0, <3>3, <3>4
      <3>7. \A c \in mailed' : Exists(c)'
        BY <1>m, <2>0, <3>4 DEF OutboxOnce
      <3> QED BY <3>5, <3>6, <3>7 DEF OutboxOnce
    <2> QED BY <2>0, <2>1, <2>2, <2>3
  <1>4. ASSUME NEW q \in Requests, Claim(q) PROVE OutboxOnce'
    <2>1. /\ OnlyRequest(q) /\ mailed' = mailed /\ request[q].pc = "claim" /\ request[q].cmd \in Requests
      BY <1>4, ClaimDoes
    <2>2. HandlesItsOwn(q)
      BY <2>1 DEF OutboxOnce, HandleTheirOwn, Working
    <2>3. /\ \A c \in Requests : Exists(c)' <=> Exists(c)
          /\ request'[q].pc = "done" \/ request'[q].cmd = request[q].cmd
      BY <1>4, <2>1, <2>2, ClaimDoes DEF OnlyCommand, Exists, HandlesItsOwn
    <2>4. request'[q].pc \in Working => HandlesItsOwn(q)'
      BY <2>1, <2>2, <2>3 DEF HandlesItsOwn, Working, Exists
    <2> QED BY <1>h, <1>s, <2>1, <2>3, <2>4
  <1>5. ASSUME NEW q \in Requests, Review(q) PROVE OutboxOnce'
    <2>1. /\ OnlyRequest(q) /\ UNCHANGED <<command, mailed>> /\ request[q].pc = "review"
          /\ request'[q].cmd = request[q].cmd
      BY <1>5, ReviewDoes
    <2>2. HandlesItsOwn(q)'
      BY <2>1 DEF OutboxOnce, HandleTheirOwn, HandlesItsOwn, Working, Exists
    <2> QED BY <1>e, <1>h, <1>s, <2>1, <2>2
  <1>6. ASSUME NEW q \in Requests, Cancel(q) PROVE OutboxOnce'
    <2>1. /\ OnlyRequest(q) /\ mailed' = mailed /\ request'[q].pc \notin Working /\ request[q].cmd \in Requests
          /\ (Holds(q) /\ LeftIn(request[q].cmd, "cancelled")) \/ command' = command
      BY <1>6, CancelDoes DEF Working
    <2>2. \A c \in Requests : Exists(c)' <=> Exists(c)
      BY <2>1 DEF LeftIn, OnlyCommand, Holds, Exists
    <2> QED BY <1>h, <1>s, <2>1, <2>2
  <1>7. ASSUME NEW q \in Requests, Call(q) PROVE OutboxOnce'
    <2>1. /\ OnlyRequest(q) /\ command' = command /\ request[q].pc = "call"
          /\ request'[q].cmd = request[q].cmd /\ mailed' \subseteq mailed \cup {request[q].cmd}
      BY <1>7, CallDoes
    <2>2. HandlesItsOwn(q)
      BY <2>1 DEF OutboxOnce, HandleTheirOwn, Working
    <2>3. HandlesItsOwn(q)'
      BY <2>1, <2>2 DEF HandlesItsOwn, Exists
    <2>4. mailed' \subseteq mailed \cup {c \in Requests : Exists(c)}
      BY <2>1, <2>2 DEF HandlesItsOwn
    <2> QED BY <1>e, <1>h, <1>s, <2>1, <2>3, <2>4
  <1>8. ASSUME NEW q \in Requests, Finish(q) PROVE OutboxOnce'
    <2>1. /\ OnlyRequest(q) /\ mailed' = mailed /\ request[q].pc = "finish" /\ request[q].cmd \in Requests
          /\ request'[q].cmd = request[q].cmd /\ request[q].answer \in Answers
          /\ \/ command' = command
             \/ Holds(q) /\ LeftIn(request[q].cmd, "accepted")
             \/ Holds(q) /\ LeftIn(request[q].cmd, request[q].answer)
      BY <1>8, FinishDoes
    <2>2. \A c \in Requests : Exists(c)' <=> Exists(c)
      BY <2>1 DEF LeftIn, OnlyCommand, Holds, Exists, Answers
    <2>3. HandlesItsOwn(q)
      BY <2>1 DEF OutboxOnce, HandleTheirOwn, Working
    <2>4. HandlesItsOwn(q)'
      BY <2>1, <2>2, <2>3 DEF HandlesItsOwn, Exists
    <2> QED BY <1>h, <1>s, <2>1, <2>2, <2>4
  <1>9. ASSUME NEW q \in Requests, Record(q) PROVE OutboxOnce'
    <2>1. OnlyRequest(q) /\ StatesStay /\ mailed' = mailed /\ request'[q].pc \notin Working
      BY <1>9, RecordDoes DEF Working
    <2> QED BY <1>e, <1>h, <1>s, <2>1
  <1>10. CASE Outside
    <2>1. request' = request /\ mailed' = mailed /\ StatesStay
      BY <1>10, OutsideDoes
    <2>2. HandleTheirOwn'
      BY <1>e, <2>1 DEF OutboxOnce, HandleTheirOwn, HandlesItsOwn
    <2> QED BY <1>e, <1>s, <2>1, <2>2
  <1>11. CASE Crash
    <2>1. UNCHANGED <<command, mailed>> /\ HandleTheirOwn'
      BY <1>11, CrashDoes DEF HandleTheirOwn, Working
    <2> QED BY <1>e, <1>s, <2>1
  <1> QED BY <1>1, <1>2, <1>3, <1>4, <1>5, <1>6, <1>7, <1>8, <1>9, <1>10, <1>11, OutboxSteps DEF Step

(* One confirmation is one e-mail, however often its token is sent again and  *)
(* whatever the provider answered.                                          *)
THEOREM OneMail == ASSUME OutboxAssumption PROVE Spec => []OneMailPerConfirmation
  <1>1. Init => OutboxTyped /\ OutboxOnce
    BY OutboxTypedAtFirst, OnceAtFirst
  <1>2. (OutboxTyped /\ OutboxOnce) /\ [Next]_vars => (OutboxTyped /\ OutboxOnce)'
    BY OutboxTypedKept, OnceKept
  <1>3. OutboxTyped /\ OutboxOnce => OneMailPerConfirmation
    BY DEF OutboxTyped, TypeOK, OutboxOnce, OneCommand, OneMailPerConfirmation
  <1> QED BY <1>1, <1>2, <1>3, PTL DEF Spec

-----------------------------------------------------------------------------
(* What the outbox records as accepted *)

AnswersAreTrue == \A q \in Requests :
  request[q].pc = "finish" /\ request[q].answer = "sent" => request[q].cmd \in mailed
OutboxTrue == AcceptedIsSent /\ AnswersAreTrue

LEMMA TrueKept ==
  ASSUME OutboxAssumption, OutboxTyped, OutboxTrue, [Next]_vars PROVE OutboxTrue'
  <1>s. ASSUME \A c \in Requests : command'[c].state = "accepted" => command[c].state = "accepted",
               mailed \subseteq mailed'
        PROVE  AcceptedIsSent'
    BY <1>s DEF OutboxTrue, AcceptedIsSent
  <1>a. ASSUME NEW q \in Requests, OnlyRequest(q), mailed \subseteq mailed',
               request'[q].pc = "finish" /\ request'[q].answer = "sent" => request'[q].cmd \in mailed'
        PROVE  AnswersAreTrue'
    BY <1>a DEF OutboxTrue, AnswersAreTrue, OnlyRequest
  <1>1. ASSUME NEW q \in Requests, Repeat(q) PROVE OutboxTrue'
    <2>1. OnlyRequest(q) /\ UNCHANGED <<command, mailed>> /\ request'[q].pc # "finish"
      BY <1>1, RepeatDoes
    <2> QED BY <1>a, <1>s, <2>1 DEF OutboxTrue
  <1>2. ASSUME NEW q \in Requests, Preview(q) PROVE OutboxTrue'
    <2>1. OnlyRequest(q) /\ UNCHANGED <<command, mailed>> /\ request'[q].pc # "finish"
      BY <1>2, PreviewDoes
    <2> QED BY <1>a, <1>s, <2>1 DEF OutboxTrue
  <1>3. ASSUME NEW q \in Requests, Create(q) PROVE OutboxTrue'
    <2>1. /\ OnlyRequest(q) /\ mailed' = mailed /\ request'[q].pc # "finish"
          /\ command' = command \/ (OnlyCommand(q) /\ command'[q].state = "queued")
      BY <1>3, CreateDoes DEF Found, GivenUp, Created
    <2>2. AcceptedIsSent'
      BY <1>s, <2>1 DEF OnlyCommand
    <2> QED BY <1>a, <2>1, <2>2 DEF OutboxTrue
  <1>4. ASSUME NEW q \in Requests, Claim(q) PROVE OutboxTrue'
    <2>1. OnlyRequest(q) /\ mailed' = mailed /\ request'[q].pc # "finish"
      BY <1>4, ClaimDoes
    <2>2. \/ command' = command
          \/ OnlyCommand(request[q].cmd) /\ command'[request[q].cmd].state = "sending"
      BY <1>4, ClaimDoes
    <2>3. AcceptedIsSent'
      BY <1>s, <2>1, <2>2 DEF OnlyCommand
    <2> QED BY <1>a, <2>1, <2>3 DEF OutboxTrue
  <1>5. ASSUME NEW q \in Requests, Review(q) PROVE OutboxTrue'
    <2>1. OnlyRequest(q) /\ UNCHANGED <<command, mailed>> /\ request'[q].pc # "finish"
      BY <1>5, ReviewDoes
    <2> QED BY <1>a, <1>s, <2>1 DEF OutboxTrue
  <1>6. ASSUME NEW q \in Requests, Cancel(q) PROVE OutboxTrue'
    <2>1. OnlyRequest(q) /\ mailed' = mailed /\ request'[q].pc # "finish"
      BY <1>6, CancelDoes
    <2>2. LeftIn(request[q].cmd, "cancelled") \/ command' = command
      BY <1>6, CancelDoes
    <2>3. AcceptedIsSent'
      BY <1>s, <2>1, <2>2 DEF LeftIn, OnlyCommand
    <2> QED BY <1>a, <2>1, <2>3 DEF OutboxTrue
  <1>7. ASSUME NEW q \in Requests, Call(q) PROVE OutboxTrue'
    <2>1. /\ OnlyRequest(q) /\ command' = command /\ mailed \subseteq mailed'
          /\ request'[q].answer = "sent" => request'[q].cmd \in mailed'
      BY <1>7, CallDoes
    <2> QED BY <1>a, <1>s, <2>1 DEF OutboxTrue
  <1>8. ASSUME NEW q \in Requests, Finish(q) PROVE OutboxTrue'
    <2>1. OnlyRequest(q) /\ mailed' = mailed /\ request'[q].pc # "finish" /\ request[q].pc = "finish"
      BY <1>8, FinishDoes
    <2>2. \/ command' = command
          \/ request[q].answer = "sent" /\ LeftIn(request[q].cmd, "accepted")
          \/ request[q].answer \in Answers \ {"sent"} /\ LeftIn(request[q].cmd, request[q].answer)
      BY <1>8, FinishDoes
    <2>3. CASE command' = command
      BY <1>a, <1>s, <2>1, <2>3 DEF OutboxTrue
    <2>4. CASE request[q].answer = "sent" /\ LeftIn(request[q].cmd, "accepted")
      <3>1. request[q].cmd \in mailed
        BY <2>1, <2>4 DEF OutboxTrue, AnswersAreTrue
      <3>2. AcceptedIsSent'
        BY <2>1, <2>4, <3>1 DEF OutboxTrue, AcceptedIsSent, LeftIn, OnlyCommand
      <3> QED BY <1>a, <2>1, <3>2 DEF OutboxTrue
    <2>5. CASE request[q].answer \in Answers \ {"sent"} /\ LeftIn(request[q].cmd, request[q].answer)
      <3>1. AcceptedIsSent'
        BY <1>s, <2>1, <2>5 DEF LeftIn, OnlyCommand, Answers
      <3> QED BY <1>a, <2>1, <3>1 DEF OutboxTrue
    <2> QED BY <2>2, <2>3, <2>4, <2>5
  <1>9. ASSUME NEW q \in Requests, Record(q) PROVE OutboxTrue'
    <2>1. OnlyRequest(q) /\ StatesStay /\ mailed' = mailed /\ request'[q].pc # "finish"
      BY <1>9, RecordDoes
    <2> QED BY <1>a, <1>s, <2>1 DEF OutboxTrue, StatesStay
  <1>10. CASE Outside
    <2>1. request' = request /\ mailed' = mailed /\ StatesStay
      BY <1>10, OutsideDoes
    <2> QED BY <1>s, <2>1 DEF OutboxTrue, AnswersAreTrue, StatesStay
  <1>11. CASE Crash
    BY <1>11, <1>s, CrashDoes DEF OutboxTrue, AnswersAreTrue
  <1> QED BY <1>1, <1>2, <1>3, <1>4, <1>5, <1>6, <1>7, <1>8, <1>9, <1>10, <1>11, OutboxSteps DEF Step

LEMMA TrueAtFirst == ASSUME Init PROVE OutboxTrue
  BY DEF Init, NoCommand, NewRequest, OutboxTrue, AcceptedIsSent, AnswersAreTrue

(* What the outbox records as accepted the provider has. *)
THEOREM AcceptedMailIsSent == ASSUME OutboxAssumption PROVE Spec => []AcceptedIsSent
  <1>1. Init => OutboxTyped /\ OutboxTrue
    BY OutboxTypedAtFirst, TrueAtFirst
  <1>2. (OutboxTyped /\ OutboxTrue) /\ [Next]_vars => (OutboxTyped /\ OutboxTrue)'
    BY OutboxTypedKept, TrueKept
  <1>3. OutboxTyped /\ OutboxTrue => AcceptedIsSent
    BY DEF OutboxTrue
  <1> QED BY <1>1, <1>2, <1>3, PTL DEF Spec

-----------------------------------------------------------------------------
(* Stops *)

StopLasts == \A q \in Requests : request[q].pc = "review" /\ request[q].stopped => Stopped(Rec(q))
OutboxHears == StopIsHeard /\ StopLasts

LEMMA HearsAtFirst == ASSUME Init PROVE OutboxHears
  BY DEF Init, NewRequest, OutboxHears, StopIsHeard, StopLasts

LEMMA HearsKept ==
  ASSUME OutboxAssumption, OutboxTyped, OutboxOnce, OutboxHears, [Next]_vars PROVE OutboxHears'
  <1>r. ASSUME NEW q \in Requests PROVE Rec(q) \in Records
    BY DEF Rec, OutboxAssumption
  (* A stop is not taken back. *)
  <1>m. ASSUME suppressed \subseteq suppressed', \A r \in Records : record[r].closed => record'[r].closed
        PROVE  \A q \in Requests : Stopped(Rec(q)) => Stopped(Rec(q))'
    BY <1>m, <1>r DEF Stopped, Rec
  <1>q. ASSUME NEW q \in Requests, OnlyRequest(q),
               \A p \in Requests : Stopped(Rec(p)) => Stopped(Rec(p))',
               request'[q].pc \in {"call", "finish", "record"} => ~request'[q].stopped,
               request'[q].pc = "review" /\ request'[q].stopped => Stopped(Rec(q))'
        PROVE  OutboxHears'
    <2>1. StopIsHeard'
      BY <1>q DEF OutboxHears, StopIsHeard, OnlyRequest
    <2>2. StopLasts'
      BY <1>q DEF OutboxHears, StopLasts, OnlyRequest
    <2> QED BY <2>1, <2>2 DEF OutboxHears
  <1>k. ASSUME RecordsStay PROVE \A q \in Requests : Stopped(Rec(q)) => Stopped(Rec(q))'
    BY <1>k DEF RecordsStay, Stopped, Rec
  <1>1. ASSUME NEW q \in Requests, Repeat(q) PROVE OutboxHears'
    <2>1. OnlyRequest(q) /\ RecordsStay /\ request'[q].pc \in {"claim", "done"}
      BY <1>1, RepeatDoes
    <2> QED BY <1>k, <1>q, <2>1
  <1>2. ASSUME NEW q \in Requests, Preview(q) PROVE OutboxHears'
    <2>1. OnlyRequest(q) /\ RecordsStay /\ request'[q].pc \in {"create", "done"}
      BY <1>2, PreviewDoes
    <2> QED BY <1>k, <1>q, <2>1
  <1>3. ASSUME NEW q \in Requests, Create(q) PROVE OutboxHears'
    <2>1. /\ OnlyRequest(q) /\ suppressed' = suppressed /\ request'[q].pc \in {"claim", "done"}
      BY <1>3, CreateDoes DEF Found, GivenUp, Created
    <2>2. \A r \in Records : record[r].closed => record'[r].closed
      BY <1>3, <1>r, CreateDoes DEF Found, GivenUp, Created
    <2> QED BY <1>m, <1>q, <2>1, <2>2
  <1>4. ASSUME NEW q \in Requests, Claim(q) PROVE OutboxHears'
    <2>1. /\ OnlyRequest(q) /\ RecordsStay /\ request'[q].pc \in {"review", "done"}
          /\ request'[q].pc = "review" => request'[q].stopped = Stopped(Rec(q))
      BY <1>4, ClaimDoes
    <2>2. request'[q].pc = "review" /\ request'[q].stopped => Stopped(Rec(q))'
      BY <1>k, <2>1
    <2> QED BY <1>k, <1>q, <2>1, <2>2
  <1>5. ASSUME NEW q \in Requests, Review(q) PROVE OutboxHears'
    <2>1. /\ OnlyRequest(q) /\ RecordsStay /\ request[q].pc = "review"
          /\ request'[q].pc = IF StillAllowed(request[q].cmd) THEN "call" ELSE "cancel"
          /\ request'[q].stopped = request[q].stopped
      BY <1>5, ReviewDoes
    <2>2. Rec(request[q].cmd) = Rec(q)
      BY <2>1 DEF OutboxOnce, HandleTheirOwn, HandlesItsOwn, Working, Rec
    <2>3. StillAllowed(request[q].cmd) => ~Stopped(Rec(q))
      BY <2>2 DEF StillAllowed
    <2>4. StillAllowed(request[q].cmd) => ~request[q].stopped
      BY <2>1, <2>3 DEF OutboxHears, StopLasts
    <2> QED BY <1>k, <1>q, <2>1, <2>4
  <1>6. ASSUME NEW q \in Requests, Cancel(q) PROVE OutboxHears'
    <2>1. OnlyRequest(q) /\ RecordsStay /\ request'[q].pc = "done"
      BY <1>6, CancelDoes
    <2> QED BY <1>k, <1>q, <2>1
  <1>7. ASSUME NEW q \in Requests, Call(q) PROVE OutboxHears'
    <2>1. /\ OnlyRequest(q) /\ RecordsStay /\ request[q].pc = "call" /\ request'[q].pc = "finish"
          /\ request'[q].stopped = request[q].stopped
      BY <1>7, CallDoes
    <2>2. ~request[q].stopped
      BY <2>1 DEF OutboxHears, StopIsHeard
    <2> QED BY <1>k, <1>q, <2>1, <2>2
  <1>8. ASSUME NEW q \in Requests, Finish(q) PROVE OutboxHears'
    <2>1. /\ OnlyRequest(q) /\ RecordsStay /\ request[q].pc = "finish"
          /\ request'[q].pc \in {"record", "done"} /\ request'[q].stopped = request[q].stopped
      BY <1>8, FinishDoes
    <2>2. ~request[q].stopped
      BY <2>1 DEF OutboxHears, StopIsHeard
    <2> QED BY <1>k, <1>q, <2>1, <2>2
  <1>9. ASSUME NEW q \in Requests, Record(q) PROVE OutboxHears'
    <2>1. /\ OnlyRequest(q) /\ suppressed' = suppressed /\ request'[q].pc = "done"
          /\ \A r \in Records : record'[r].closed = record[r].closed
      BY <1>9, RecordDoes
    <2> QED BY <1>m, <1>q, <2>1
  <1>10. CASE Outside
    <2>1. /\ request' = request /\ suppressed \subseteq suppressed'
          /\ \A r \in Records : record[r].closed => record'[r].closed
      BY <1>10, OutsideDoes
    <2>2. StopIsHeard'
      BY <2>1 DEF OutboxHears, StopIsHeard
    <2>3. StopLasts'
      BY <1>m, <2>1 DEF OutboxHears, StopLasts
    <2> QED BY <2>2, <2>3 DEF OutboxHears
  <1>11. CASE Crash
    <2>1. \A q \in Requests : request'[q].pc \in {"new", "done"}
      BY <1>11, CrashDoes
    <2> QED BY <2>1 DEF OutboxHears, StopIsHeard, StopLasts
  <1> QED BY <1>1, <1>2, <1>3, <1>4, <1>5, <1>6, <1>7, <1>8, <1>9, <1>10, <1>11, OutboxSteps DEF Step

(* An address suppressed, or a record closed, before a claim is taken gets    *)
(* nothing from it, although command and preview are older.                 *)
THEOREM StopsAreHeard == ASSUME OutboxAssumption PROVE Spec => []StopIsHeard
  <1> DEFINE Inv == OutboxTyped /\ OutboxOnce /\ OutboxHears
  <1>1. Init => Inv
    BY OutboxTypedAtFirst, OnceAtFirst, HearsAtFirst
  <1>2. Inv /\ [Next]_vars => Inv'
    BY OutboxTypedKept, OnceKept, HearsKept
  <1>3. Inv => StopIsHeard
    BY DEF OutboxHears
  <1> QED BY <1>1, <1>2, <1>3, PTL DEF Spec

-----------------------------------------------------------------------------
(* Commands that may still reach their recipient *)

IsOpen(c) == command[c].state \in Unresolved
OneOpen == \A c, d \in Requests : IsOpen(c) /\ IsOpen(d) /\ Rec(c) = Rec(d) => c = d
(* While the record is as it was previewed it has no open command. *)
PreviewStands(q) ==
  /\ request[q].version <= record[Rec(q)].version
  /\ request[q].version = record[Rec(q)].version => \A c \in Requests : Rec(c) = Rec(q) => ~IsOpen(c)
PreviewsStand == \A q \in Requests : request[q].pc = "create" => PreviewStands(q)
OutboxOpen == OneOpen /\ PreviewsStand

LEMMA OpenAtFirst == ASSUME Init PROVE OutboxOpen
  BY DEF Init, NoCommand, NewRequest, OutboxOpen, OneOpen, PreviewsStand, IsOpen, Unresolved

LEMMA OpenKept ==
  ASSUME OutboxAssumption, OutboxTyped, OutboxOpen, [Next]_vars PROVE OutboxOpen'
  <1>r. ASSUME NEW q \in Requests
        PROVE  /\ Rec(q) \in Records /\ record[Rec(q)].version \in Nat
               /\ request[q].version \in Nat
    BY DEF Rec, OutboxAssumption, OutboxTyped, TypeOK
  <1>v. ASSUME [Next]_vars PROVE \A r \in Records : record'[r].version \in Nat
    <2>1. OutboxTyped'
      BY OutboxTypedKept
    <2> QED BY <2>1 DEF OutboxTyped, TypeOK
  (* No step but the creation of a command opens one. *)
  <1>s. ASSUME \A c \in Requests : IsOpen(c)' => IsOpen(c) PROVE OneOpen'
    BY <1>s DEF OutboxOpen, OneOpen, Rec
  <1>p. ASSUME NEW q \in Requests, request[q].pc = "create", request'[q] = request[q],
               \A c \in Requests : IsOpen(c)' => IsOpen(c),
               \A r \in Records : record'[r].version >= record[r].version
        PROVE  PreviewStands(q)'
    <2>1. PreviewStands(q)
      BY <1>p DEF OutboxOpen, PreviewsStand
    <2>2. /\ Rec(q) \in Records /\ record[Rec(q)].version \in Nat /\ request[q].version \in Nat
          /\ record'[Rec(q)].version \in Nat /\ record'[Rec(q)].version >= record[Rec(q)].version
      BY <1>p, <1>r, <1>v
    <2>3. Rec(q)' = Rec(q) /\ \A c \in Requests : Rec(c)' = Rec(c)
      BY DEF Rec
    <2>4. (request[q].version <= record[Rec(q)].version)'
      BY <1>p, <2>1, <2>2, <2>3 DEF PreviewStands
    <2>5. ASSUME (request[q].version = record[Rec(q)].version)', NEW c \in Requests, Rec(c) = Rec(q)
          PROVE  ~IsOpen(c)'
      <3>1. request[q].version = record[Rec(q)].version
        BY <1>p, <2>1, <2>2, <2>3, <2>5 DEF PreviewStands
      <3>2. ~IsOpen(c)
        BY <2>1, <2>5, <3>1 DEF PreviewStands
      <3> QED BY <1>p, <3>2
    <2> QED BY <2>3, <2>4, <2>5 DEF PreviewStands
  <1>q. ASSUME NEW q \in Requests, OnlyRequest(q), request'[q].pc # "create",
               \A c \in Requests : IsOpen(c)' => IsOpen(c),
               \A r \in Records : record'[r].version >= record[r].version
        PROVE  OutboxOpen'
    <2>1. ASSUME NEW p \in Requests, request'[p].pc = "create" PROVE PreviewStands(p)'
      <3>1. p # q /\ request'[p] = request[p]
        BY <1>q, <2>1 DEF OnlyRequest
      <3> QED BY <1>p, <1>q, <2>1, <3>1
    <2> QED BY <1>q, <1>s, <2>1 DEF OutboxOpen, PreviewsStand
  <1>k. ASSUME RecordsStay PROVE \A r \in Records : record'[r].version >= record[r].version
    BY <1>k DEF RecordsStay, OutboxTyped, TypeOK
  <1>1. ASSUME NEW q \in Requests, Repeat(q) PROVE OutboxOpen'
    <2>1. OnlyRequest(q) /\ RecordsStay /\ command' = command /\ request'[q].pc # "create"
      BY <1>1, RepeatDoes
    <2> QED BY <1>k, <1>q, <2>1 DEF IsOpen
  <1>2. ASSUME NEW q \in Requests, Preview(q) PROVE OutboxOpen'
    <2>1. /\ OnlyRequest(q) /\ RecordsStay /\ command' = command
          /\ request'[q].pc = "create" => Previewable(q)
          /\ request'[q].version = record[Rec(q)].version
      BY <1>2, PreviewDoes
    <2>2. \A c \in Requests : IsOpen(c)' => IsOpen(c)
      BY <2>1 DEF IsOpen
    <2>3. ASSUME NEW p \in Requests, request'[p].pc = "create" PROVE PreviewStands(p)'
      <3>1. CASE p # q
        <4>1. request'[p] = request[p]
          BY <2>1, <3>1 DEF OnlyRequest
        <4> QED BY <1>k, <1>p, <2>1, <2>2, <2>3, <4>1
      <3>2. CASE p = q
        <4>1. Open(Rec(q)) = {}
          BY <2>1, <2>3, <3>2 DEF Previewable
        <4>2. \A c \in Requests : Rec(c) = Rec(q) => ~IsOpen(c)
          BY <4>1 DEF Open, CommandsOf, Exists, IsOpen, Unresolved
        <4>3. record' = record
          BY <2>1 DEF RecordsStay
        <4>4. (request[q].version = record[Rec(q)].version)' /\ record[Rec(q)].version \in Nat
          BY <1>r, <2>1, <4>3 DEF Rec
        <4>5. \A c \in Requests : Rec(c)' = Rec(q)' => ~IsOpen(c)'
          BY <2>2, <4>2 DEF Rec
        <4>6. (request[q].version <= record[Rec(q)].version)'
          BY <4>3, <4>4 DEF Rec
        <4> QED BY <3>2, <4>5, <4>6 DEF PreviewStands
      <3> QED BY <3>1, <3>2
    <2> QED BY <1>s, <2>2, <2>3 DEF OutboxOpen, PreviewsStand
  <1>3. ASSUME NEW q \in Requests, Create(q) PROVE OutboxOpen'
    <2>0. /\ OnlyRequest(q) /\ request[q].pc = "create"
          /\ Found(q) \/ GivenUp(q) \/ Created(q)
      BY <1>3, CreateDoes
    <2>1. CASE Found(q) \/ GivenUp(q)
      <3>1. record' = record /\ command' = command /\ request'[q].pc # "create"
        BY <2>1 DEF Found, GivenUp
      <3>2. \A r \in Records : record'[r].version >= record[r].version
        BY <3>1 DEF OutboxTyped, TypeOK
      <3> QED BY <1>q, <2>0, <3>1, <3>2 DEF IsOpen
    <2>2. CASE Created(q)
      <3>1. /\ OnlyCommand(q) /\ request'[q].pc # "create"
            /\ request[q].version = record[Rec(q)].version
            /\ \A r \in Records \ {Rec(q)} : record'[r] = record[r]
            /\ record'[Rec(q)].version = record[Rec(q)].version + 1
        BY <2>2 DEF Created, Unchanged
      <3>2. \A c \in Requests : Rec(c) = Rec(q) => ~IsOpen(c)
        BY <2>0, <3>1 DEF OutboxOpen, PreviewsStand, PreviewStands
      <3>3. \A c \in Requests : c # q => (IsOpen(c)' <=> IsOpen(c))
        BY <3>1 DEF OnlyCommand, IsOpen
      <3>4. OneOpen'
        BY <3>2, <3>3 DEF OutboxOpen, OneOpen, Rec
      <3>5. ASSUME NEW p \in Requests, request'[p].pc = "create" PROVE PreviewStands(p)'
        <4>1. p # q /\ request'[p] = request[p] /\ request[p].pc = "create"
          BY <2>0, <3>1, <3>5 DEF OnlyRequest
        <4>2. PreviewStands(p)
          BY <4>1 DEF OutboxOpen, PreviewsStand
        <4>3. CASE Rec(p) = Rec(q)
          <5>1. /\ request[p].version <= record[Rec(p)].version
                /\ record'[Rec(p)].version = record[Rec(p)].version + 1
            BY <3>1, <4>2, <4>3 DEF PreviewStands
          <5>2. request[p].version < record'[Rec(p)].version
            BY <1>r, <5>1
          <5>3. request[p].version \in Nat /\ record'[Rec(p)].version \in Nat
            BY <1>r, <1>v
          <5>4. /\ request'[p].version <= record'[Rec(p)].version
                /\ request'[p].version # record'[Rec(p)].version
            BY <4>1, <5>2, <5>3
          <5> QED BY <5>4 DEF PreviewStands, Rec
        <4>4. CASE Rec(p) # Rec(q)
          <5>1. record'[Rec(p)] = record[Rec(p)]
            BY <1>r, <3>1, <4>4
          <5>2. \A c \in Requests : Rec(c) = Rec(p) => (IsOpen(c)' <=> IsOpen(c))
            BY <3>3, <4>4
          <5> QED BY <4>1, <4>2, <5>1, <5>2 DEF PreviewStands, Rec
        <4> QED BY <4>3, <4>4
      <3> QED BY <3>4, <3>5 DEF OutboxOpen, PreviewsStand
    <2> QED BY <2>0, <2>1, <2>2
  <1>4. ASSUME NEW q \in Requests, Claim(q) PROVE OutboxOpen'
    <2>1. OnlyRequest(q) /\ RecordsStay /\ request'[q].pc # "create"
      BY <1>4, ClaimDoes
    <2>2. \A c \in Requests : IsOpen(c)' => IsOpen(c)
      BY <1>4, ClaimDoes DEF OnlyCommand, IsOpen, Claimable, Unresolved
    <2> QED BY <1>k, <1>q, <2>1, <2>2
  <1>5. ASSUME NEW q \in Requests, Review(q) PROVE OutboxOpen'
    <2>1. OnlyRequest(q) /\ RecordsStay /\ command' = command /\ request'[q].pc # "create"
      BY <1>5, ReviewDoes
    <2> QED BY <1>k, <1>q, <2>1 DEF IsOpen
  <1>6. ASSUME NEW q \in Requests, Cancel(q) PROVE OutboxOpen'
    <2>1. OnlyRequest(q) /\ RecordsStay /\ request'[q].pc # "create"
      BY <1>6, CancelDoes
    <2>2. \A c \in Requests : IsOpen(c)' => IsOpen(c)
      BY <1>6, CancelDoes DEF LeftIn, OnlyCommand, IsOpen, Unresolved
    <2> QED BY <1>k, <1>q, <2>1, <2>2
  <1>7. ASSUME NEW q \in Requests, Call(q) PROVE OutboxOpen'
    <2>1. OnlyRequest(q) /\ RecordsStay /\ command' = command /\ request'[q].pc # "create"
      BY <1>7, CallDoes
    <2> QED BY <1>k, <1>q, <2>1 DEF IsOpen
  <1>8. ASSUME NEW q \in Requests, Finish(q) PROVE OutboxOpen'
    <2>1. OnlyRequest(q) /\ RecordsStay /\ request'[q].pc # "create"
      BY <1>8, FinishDoes
    <2>2. \/ command' = command
          \/ Holds(q) /\ OnlyCommand(request[q].cmd)
      BY <1>8, FinishDoes DEF LeftIn
    <2>3. \A c \in Requests : IsOpen(c)' => IsOpen(c)
      BY <2>2 DEF OnlyCommand, Holds, IsOpen, Unresolved
    <2> QED BY <1>k, <1>q, <2>1, <2>3
  <1>9. ASSUME NEW q \in Requests, Record(q) PROVE OutboxOpen'
    <2>1. /\ OnlyRequest(q) /\ StatesStay /\ request'[q].pc # "create"
          /\ \A r \in Records : record'[r].version >= record[r].version
      BY <1>9, RecordDoes
    <2> QED BY <1>q, <2>1 DEF IsOpen, StatesStay
  <1>10. CASE Outside
    <2>1. /\ request' = request /\ StatesStay
          /\ \A r \in Records : record'[r].version >= record[r].version
      BY <1>10, OutsideDoes
    <2>2. \A c \in Requests : IsOpen(c)' => IsOpen(c)
      BY <2>1 DEF StatesStay, IsOpen
    <2>3. ASSUME NEW p \in Requests, request'[p].pc = "create" PROVE PreviewStands(p)'
      BY <1>p, <2>1, <2>2, <2>3
    <2> QED BY <1>s, <2>2, <2>3 DEF OutboxOpen, PreviewsStand
  <1>11. CASE Crash
    <2>1. command' = command /\ \A q \in Requests : request'[q].pc \in {"new", "done"}
      BY <1>11, CrashDoes
    <2>2. PreviewsStand'
      BY <2>1 DEF PreviewsStand
    <2> QED BY <1>s, <2>1, <2>2 DEF OutboxOpen, IsOpen
  <1> QED BY <1>1, <1>2, <1>3, <1>4, <1>5, <1>6, <1>7, <1>8, <1>9, <1>10, <1>11, OutboxSteps DEF Step

(* A record never has two commands that may still reach its recipient. *)
THEOREM OneOpenCommand == ASSUME OutboxAssumption PROVE Spec => []OneUnresolved
  <1>1. Init => OutboxTyped /\ OutboxOpen
    BY OutboxTypedAtFirst, OpenAtFirst
  <1>2. (OutboxTyped /\ OutboxOpen) /\ [Next]_vars => (OutboxTyped /\ OutboxOpen)'
    BY OutboxTypedKept, OpenKept
  <1>3. OutboxOpen => OneUnresolved
    <2> SUFFICES ASSUME OutboxOpen, NEW r \in Records PROVE Cardinality(Open(r)) <= 1
      BY DEF OneUnresolved
    <2>1. \A c, d \in Open(r) : c = d
      BY DEF OutboxOpen, OneOpen, IsOpen, Open, CommandsOf
    <2>2. CASE Open(r) = {}
      BY <2>2, FS_EmptySet
    <2>3. CASE Open(r) # {}
      <3>1. PICK c \in Open(r) : TRUE
        BY <2>3
      <3>2. Open(r) = {c}
        BY <2>1, <3>1
      <3> QED BY <3>2, FS_Singleton
    <2> QED BY <2>2, <2>3
  <1> QED BY <1>1, <1>2, <1>3, PTL DEF Spec

-----------------------------------------------------------------------------
(* The daily cap *)

(* A command counts from the review that lets it be called, while its request  *)
(* holds it, and for good once it is accepted or its outcome is unknown: this  *)
(* set only grows by a review, which has counted more than it.               *)
Reaches(q, c) == request[q].pc \in {"call", "finish"} /\ request[q].cmd = c /\ Holds(q)
Settled(c) == command[c].state \in {"accepted", "ambiguous"}
Committed == {c \in Requests : Settled(c) \/ \E q \in Requests : Reaches(q, c)}
WithinCap == Cardinality(Committed) <= Cap

LEMMA FewerCommands ==
  ASSUME OutboxAssumption, NEW S \in SUBSET Requests, NEW T \in SUBSET S
  PROVE  /\ IsFiniteSet(S) /\ IsFiniteSet(T) /\ Cardinality(S) \in Nat /\ Cardinality(T) \in Nat
         /\ Cardinality(T) <= Cardinality(S)
  <1>1. IsFiniteSet(S)
    BY FS_Subset DEF OutboxAssumption
  <1> QED BY <1>1, FS_Subset, FS_CardinalityType

LEMMA CapAtFirst == ASSUME OutboxAssumption, Init PROVE WithinCap
  <1>1. Committed = {}
    BY DEF Init, NoCommand, NewRequest, Committed, Settled, Reaches
  <1> QED BY <1>1, FS_EmptySet DEF WithinCap, OutboxAssumption

LEMMA CapKept ==
  ASSUME OutboxAssumption, OutboxTyped, OutboxOnce, WithinCap, [Next]_vars PROVE WithinCap'
  <1>0. Cap \in Nat
    BY DEF OutboxAssumption
  <1>s. ASSUME \A c \in Requests : Settled(c)' => c \in Committed,
               \A q, c \in Requests : Reaches(q, c)' => c \in Committed
        PROVE  WithinCap'
    <2>1. Committed' \in SUBSET Committed /\ Committed \in SUBSET Requests
      BY <1>s DEF Committed
    <2>2. /\ Cardinality(Committed') <= Cardinality(Committed)
          /\ Cardinality(Committed') \in Nat /\ Cardinality(Committed) \in Nat
      BY <2>1, FewerCommands
    <2> QED BY <1>0, <2>2 DEF WithinCap
  <1>c. ASSUME NEW q \in Requests, NEW c \in Requests, Reaches(q, c) \/ Settled(c) PROVE c \in Committed
    BY <1>c DEF Committed
  (* A step that leaves states and claims, and after which q does not reach. *)
  <1>q. ASSUME NEW q \in Requests, OnlyRequest(q), StatesStay,
               \/ request'[q].pc \notin {"call", "finish"}
               \/ /\ request[q].pc \in {"call", "finish"} /\ request[q].cmd \in Requests
                  /\ request'[q].cmd = request[q].cmd
        PROVE  WithinCap'
    <2>1. \A p, c \in Requests : Reaches(p, c)' => Reaches(p, c)
      BY <1>q DEF Reaches, Holds, OnlyRequest, StatesStay
    <2>2. \A c \in Requests : Settled(c)' => Settled(c)
      BY <1>q DEF Settled, StatesStay
    <2> QED BY <1>c, <1>s, <2>1, <2>2
  <1>u. ASSUME command' = command PROVE StatesStay
    BY <1>u DEF StatesStay
  (* A step that writes one command and after which q does not reach. *)
  <1>w. ASSUME NEW q \in Requests, NEW d \in Requests, OnlyRequest(q), OnlyCommand(d),
               request'[q].pc \notin {"call", "finish"},
               command'[d].state # "sending" \/ command'[d].claim = q,
               Settled(d)' => d \in Committed
        PROVE  WithinCap'
    <2>1. ASSUME NEW p \in Requests, NEW c \in Requests, Reaches(p, c)' PROVE c \in Committed
      <3>1. p # q /\ request'[p] = request[p]
        BY <1>w, <2>1 DEF Reaches, OnlyRequest
      <3>2. c # d
        BY <1>w, <2>1, <3>1 DEF Reaches, Holds
      <3>3. Reaches(p, c)
        BY <1>w, <2>1, <3>1, <3>2 DEF Reaches, Holds, OnlyCommand
      <3> QED BY <1>c, <3>3
    <2>2. ASSUME NEW c \in Requests, Settled(c)' PROVE c \in Committed
      <3>1. CASE c # d
        BY <1>c, <1>w, <2>2, <3>1 DEF Settled, OnlyCommand
      <3> QED BY <1>w, <2>2, <3>1
    <2> QED BY <1>s, <2>1, <2>2
  <1>1. ASSUME NEW q \in Requests, Repeat(q) PROVE WithinCap'
    <2>1. OnlyRequest(q) /\ command' = command /\ request'[q].pc \notin {"call", "finish"}
      BY <1>1, RepeatDoes
    <2> QED BY <1>q, <1>u, <2>1
  <1>2. ASSUME NEW q \in Requests, Preview(q) PROVE WithinCap'
    <2>1. OnlyRequest(q) /\ command' = command /\ request'[q].pc \notin {"call", "finish"}
      BY <1>2, PreviewDoes
    <2> QED BY <1>q, <1>u, <2>1
  <1>3. ASSUME NEW q \in Requests, Create(q) PROVE WithinCap'
    <2>1. /\ OnlyRequest(q) /\ request'[q].pc \notin {"call", "finish"}
          /\ command' = command \/ (OnlyCommand(q) /\ command'[q].state = "queued")
      BY <1>3, CreateDoes DEF Found, GivenUp, Created
    <2>2. CASE command' = command
      BY <1>q, <1>u, <2>1, <2>2
    <2>3. CASE OnlyCommand(q) /\ command'[q].state = "queued"
      BY <1>w, <2>1, <2>3 DEF Settled
    <2> QED BY <2>1, <2>2, <2>3
  <1>4. ASSUME NEW q \in Requests, Claim(q) PROVE WithinCap'
    <2>1. /\ OnlyRequest(q) /\ request'[q].pc \notin {"call", "finish"} /\ request[q].cmd \in Requests
          /\ \/ command' = command
             \/ /\ OnlyCommand(request[q].cmd) /\ command'[request[q].cmd].state = "sending"
                /\ command'[request[q].cmd].claim = q
      BY <1>4, ClaimDoes
    <2>2. CASE command' = command
      BY <1>q, <1>u, <2>1, <2>2
    <2>3. CASE /\ OnlyCommand(request[q].cmd) /\ command'[request[q].cmd].state = "sending"
               /\ command'[request[q].cmd].claim = q
      BY <1>w, <2>1, <2>3 DEF Settled
    <2> QED BY <2>1, <2>2, <2>3
  <1>5. ASSUME NEW q \in Requests, Review(q) PROVE WithinCap'
    <2>1. /\ OnlyRequest(q) /\ command' = command
          /\ request'[q].pc = IF StillAllowed(request[q].cmd) THEN "call" ELSE "cancel"
      BY <1>5, ReviewDoes
    <2>2. CASE StillAllowed(request[q].cmd)
      <3>1. Cardinality(Counted) <= Cap
        BY <2>2 DEF StillAllowed
      <3>2. Committed' \in SUBSET Counted
        <4>1. ASSUME NEW c \in Requests, Settled(c)' PROVE c \in Counted
          BY <2>1, <4>1 DEF Settled, Counted, Exists
        <4>2. ASSUME NEW p \in Requests, NEW c \in Requests, Reaches(p, c)' PROVE c \in Counted
          BY <2>1, <4>2 DEF Reaches, Holds, Counted, Exists
        <4> QED BY <4>1, <4>2 DEF Committed
      <3>3. Counted \in SUBSET Requests
        BY DEF Counted
      <3>4. /\ Cardinality(Committed') <= Cardinality(Counted)
            /\ Cardinality(Committed') \in Nat /\ Cardinality(Counted) \in Nat
        BY <3>2, <3>3, FewerCommands
      <3> QED BY <1>0, <3>1, <3>4 DEF WithinCap
    <2>3. CASE ~StillAllowed(request[q].cmd)
      BY <1>q, <1>u, <2>1, <2>3
    <2> QED BY <2>2, <2>3
  <1>6. ASSUME NEW q \in Requests, Cancel(q) PROVE WithinCap'
    <2>1. /\ OnlyRequest(q) /\ request'[q].pc \notin {"call", "finish"} /\ request[q].cmd \in Requests
          /\ LeftIn(request[q].cmd, "cancelled") \/ command' = command
      BY <1>6, CancelDoes
    <2>2. CASE command' = command
      BY <1>q, <1>u, <2>1, <2>2
    <2>3. CASE LeftIn(request[q].cmd, "cancelled")
      BY <1>w, <2>1, <2>3 DEF Settled, LeftIn
    <2> QED BY <2>1, <2>2, <2>3
  <1>7. ASSUME NEW q \in Requests, Call(q) PROVE WithinCap'
    <2>1. /\ OnlyRequest(q) /\ command' = command /\ request[q].pc = "call"
          /\ request'[q].cmd = request[q].cmd /\ request[q].cmd \in Requests
      BY <1>7, CallDoes
    <2> QED BY <1>q, <1>u, <2>1
  <1>8. ASSUME NEW q \in Requests, Finish(q) PROVE WithinCap'
    <2>1. /\ OnlyRequest(q) /\ request[q].pc = "finish" /\ request[q].cmd \in Requests
          /\ request'[q].pc \notin {"call", "finish"} /\ request[q].answer \in Answers
          /\ \/ command' = command
             \/ Holds(q) /\ LeftIn(request[q].cmd, "accepted")
             \/ Holds(q) /\ LeftIn(request[q].cmd, request[q].answer)
      BY <1>8, FinishDoes
    <2>2. CASE command' = command
      BY <1>q, <1>u, <2>1, <2>2
    <2>3. CASE Holds(q) /\ (LeftIn(request[q].cmd, "accepted") \/ LeftIn(request[q].cmd, request[q].answer))
      <3>1. request[q].cmd \in Committed
        BY <1>c, <2>1, <2>3 DEF Reaches
      <3>2. OnlyCommand(request[q].cmd) /\ command'[request[q].cmd].state # "sending"
        BY <2>1, <2>3 DEF LeftIn, Answers
      <3> QED BY <1>w, <2>1, <3>1, <3>2
    <2> QED BY <2>1, <2>2, <2>3
  <1>9. ASSUME NEW q \in Requests, Record(q) PROVE WithinCap'
    <2>1. OnlyRequest(q) /\ StatesStay /\ request'[q].pc \notin {"call", "finish"}
      BY <1>9, RecordDoes
    <2> QED BY <1>q, <2>1
  <1>10. CASE Outside
    <2>1. request' = request /\ StatesStay
      BY <1>10, OutsideDoes
    <2>2. \A p, c \in Requests : Reaches(p, c)' => Reaches(p, c)
      BY <2>1 DEF Reaches, Holds, StatesStay
    <2>3. \A c \in Requests : Settled(c)' => Settled(c)
      BY <2>1 DEF Settled, StatesStay
    <2> QED BY <1>c, <1>s, <2>2, <2>3
  <1>11. CASE Crash
    <2>1. command' = command /\ \A q \in Requests : request'[q].pc \in {"new", "done"}
      BY <1>11, CrashDoes
    <2>2. \A p, c \in Requests : ~Reaches(p, c)'
      BY <2>1 DEF Reaches
    <2>3. \A c \in Requests : Settled(c)' => Settled(c)
      BY <2>1 DEF Settled
    <2> QED BY <1>c, <1>s, <2>2, <2>3
  <1> QED BY <1>1, <1>2, <1>3, <1>4, <1>5, <1>6, <1>7, <1>8, <1>9, <1>10, <1>11, OutboxSteps DEF Step

(* By the outbox's own account the daily cap is never exceeded, although        *)
(* requests for different records count before they create.                   *)
THEOREM CapIsKept == ASSUME OutboxAssumption PROVE Spec => []CapHolds
  <1> DEFINE Inv == OutboxTyped /\ OutboxOnce /\ WithinCap
  <1>1. Init => Inv
    BY OutboxTypedAtFirst, OnceAtFirst, CapAtFirst
  <1>2. Inv /\ [Next]_vars => Inv'
    BY OutboxTypedKept, OnceKept, CapKept
  <1>3. Inv => CapHolds
    <2> SUFFICES ASSUME WithinCap PROVE CapHolds
      OBVIOUS
    <2> DEFINE S == {c \in Requests : command[c].state \in {"accepted", "ambiguous"}}
    <2>1. S \in SUBSET Committed /\ Committed \in SUBSET Requests
      BY DEF Committed, Settled
    <2> HIDE DEF S
    <2>2. /\ Cardinality(S) <= Cardinality(Committed)
          /\ Cardinality(S) \in Nat /\ Cardinality(Committed) \in Nat
      BY <2>1, FewerCommands
    <2>3. Cardinality(S) <= Cap
      BY <2>2 DEF WithinCap, OutboxAssumption
    <2> QED BY <2>3 DEF S, CapHolds
  <1> QED BY <1>1, <1>2, <1>3, PTL DEF Spec

-----------------------------------------------------------------------------
(* Claims that do not lapse under their request *)

(* A request between its claim and its last write still holds its command. *)
KeepsClaim(q) == Holds(q) /\ ~command[request[q].cmd].lapsed
Holding == {"review", "call", "finish", "cancel"}
ClaimsKept == \A q \in Requests : request[q].pc \in Holding => KeepsClaim(q)

LEMMA ClaimsAtFirst == ASSUME Init PROVE ClaimsKept
  BY DEF Init, NewRequest, ClaimsKept, Holding

(* Time does not run out for a claim whose request is still served. *)
LEMMA OnlyIdleClaimsLapse ==
  ASSUME ~SlowCalls, OutboxTyped, Outside, NEW c \in Requests, ~command[c].lapsed, command'[c].lapsed
  PROVE  request[command[c].claim].pc = "done"
  <1>0. command \in [Requests -> CommandRows]
    BY DEF OutboxTyped, TypeOK, CommandRows
  <1>1. \/ command' = command
        \/ \E d \in Requests : \/ command' = [command EXCEPT ![d].delivery = "bounced"]
                              \/ command' = [command EXCEPT ![d].due = TRUE]
                              \/ Lapse(d)
    BY DEF Outside, Edit, Suppress, Hear, Sequence, Bounce, Due, Elapse, vars
  <1>2. PICK d \in Requests : Lapse(d)
    BY <1>0, <1>1 DEF CommandRows
  <1>3. d = c
    BY <1>0, <1>2 DEF Lapse, CommandRows
  <1> QED BY <1>2, <1>3 DEF Lapse

LEMMA ClaimsStay ==
  ASSUME OutboxAssumption, ~SlowCalls, OutboxTyped, ClaimsKept, [Next]_vars PROVE ClaimsKept'
  <1>w. ASSUME NEW q \in Requests, request[q].pc \in Holding PROVE request[q].cmd \in Requests
    BY <1>w DEF OutboxTyped, WorksOnOne, Working, Holding
  (* A step that writes no command a request keeps. *)
  <1>q. ASSUME NEW q \in Requests, OnlyRequest(q),
               \A p \in Requests \ {q} : request[p].pc \in Holding =>
                 command'[request[p].cmd] = command[request[p].cmd],
               request'[q].pc \in Holding => KeepsClaim(q)'
        PROVE  ClaimsKept'
    BY <1>q DEF ClaimsKept, KeepsClaim, Holds, OnlyRequest
  (* A command that is not held by another request than q. *)
  <1>o. ASSUME NEW q \in Requests, OnlyRequest(q), NEW d \in Requests, OnlyCommand(d),
               \A p \in Requests \ {q} : request[p].pc \in Holding => request[p].cmd # d,
               request'[q].pc \in Holding => KeepsClaim(q)'
        PROVE  ClaimsKept'
    BY <1>o, <1>q, <1>w DEF OnlyCommand
  <1>1. ASSUME NEW q \in Requests, Repeat(q) PROVE ClaimsKept'
    <2>1. OnlyRequest(q) /\ command' = command /\ request'[q].pc \notin Holding
      BY <1>1, RepeatDoes DEF Holding
    <2> QED BY <1>q, <2>1
  <1>2. ASSUME NEW q \in Requests, Preview(q) PROVE ClaimsKept'
    <2>1. OnlyRequest(q) /\ command' = command /\ request'[q].pc \notin Holding
      BY <1>2, PreviewDoes DEF Holding
    <2> QED BY <1>q, <2>1
  <1>3. ASSUME NEW q \in Requests, Create(q) PROVE ClaimsKept'
    <2>1. /\ OnlyRequest(q) /\ request'[q].pc \notin Holding
          /\ command' = command \/ (OnlyCommand(q) /\ Existing(q) = {})
      BY <1>3, CreateDoes DEF Found, GivenUp, Created, Holding
    <2>2. CASE command' = command
      BY <1>q, <2>1, <2>2
    <2>3. CASE OnlyCommand(q) /\ Existing(q) = {}
      <3>1. command[q].state = "none"
        BY <2>3 DEF Existing, Exists
      <3>2. \A p \in Requests : request[p].pc \in Holding => request[p].cmd # q
        BY <3>1 DEF ClaimsKept, KeepsClaim, Holds
      <3> QED BY <1>o, <2>1, <2>3, <3>2
    <2> QED BY <2>1, <2>2, <2>3
  <1>4. ASSUME NEW q \in Requests, Claim(q) PROVE ClaimsKept'
    <2>1. OnlyRequest(q) /\ request[q].cmd \in Requests
      BY <1>4, ClaimDoes
    <2>2. CASE request'[q].pc = "done" /\ command' = command
      BY <1>q, <2>1, <2>2 DEF Holding
    <2>3. CASE /\ Claimable(request[q].cmd) /\ OnlyCommand(request[q].cmd)
               /\ command'[request[q].cmd].state = "sending" /\ command'[request[q].cmd].claim = q
               /\ ~command'[request[q].cmd].lapsed
               /\ request'[q].pc = "review" /\ request'[q].cmd = request[q].cmd
      <3>1. \A p \in Requests : request[p].pc \in Holding => request[p].cmd # request[q].cmd
        BY <2>3 DEF Claimable, ClaimsKept, KeepsClaim, Holds
      <3>2. KeepsClaim(q)'
        BY <2>3 DEF KeepsClaim, Holds
      <3> QED BY <1>o, <2>1, <2>3, <3>1, <3>2
    <2> QED BY <1>4, <2>2, <2>3, ClaimDoes
  <1>5. ASSUME NEW q \in Requests, Review(q) PROVE ClaimsKept'
    <2>1. /\ OnlyRequest(q) /\ command' = command /\ request[q].pc = "review"
          /\ request'[q].cmd = request[q].cmd
      BY <1>5, ReviewDoes
    <2>2. KeepsClaim(q)'
      BY <2>1 DEF ClaimsKept, KeepsClaim, Holds, Holding
    <2> QED BY <1>q, <2>1, <2>2
  <1>6. ASSUME NEW q \in Requests, Cancel(q) \/ Finish(q) PROVE ClaimsKept'
    <2>1. /\ OnlyRequest(q) /\ request[q].cmd \in Requests /\ request'[q].pc \notin Holding
          /\ command' = command \/ (Holds(q) /\ OnlyCommand(request[q].cmd))
      BY <1>6, CancelDoes, FinishDoes DEF Holding, LeftIn
    <2>2. CASE command' = command
      BY <1>q, <2>1, <2>2
    <2>3. CASE Holds(q) /\ OnlyCommand(request[q].cmd)
      <3>1. \A p \in Requests \ {q} : request[p].pc \in Holding => request[p].cmd # request[q].cmd
        BY <2>3 DEF ClaimsKept, KeepsClaim, Holds
      <3> QED BY <1>o, <2>1, <2>3, <3>1
    <2> QED BY <2>1, <2>2, <2>3
  <1>7. ASSUME NEW q \in Requests, Call(q) PROVE ClaimsKept'
    <2>1. /\ OnlyRequest(q) /\ command' = command /\ request[q].pc = "call"
          /\ request'[q].cmd = request[q].cmd
      BY <1>7, CallDoes
    <2>2. KeepsClaim(q)'
      BY <2>1 DEF ClaimsKept, KeepsClaim, Holds, Holding
    <2> QED BY <1>q, <2>1, <2>2
  <1>8. ASSUME NEW q \in Requests, Record(q) PROVE ClaimsKept'
    <2>1. /\ OnlyRequest(q) /\ StatesStay /\ request'[q].pc \notin Holding
          /\ \A c \in Requests : command'[c].lapsed = command[c].lapsed
      BY <1>8, RecordDoes DEF Holding
    <2> QED BY <1>w, <2>1 DEF ClaimsKept, KeepsClaim, Holds, OnlyRequest, StatesStay
  <1>9. CASE Outside
    <2>1. request' = request /\ StatesStay
      BY <1>9, OutsideDoes
    <2>2. ASSUME NEW q \in Requests, request[q].pc \in Holding PROVE KeepsClaim(q)'
      <3>1. KeepsClaim(q) /\ request[q].cmd \in Requests
        BY <1>w, <2>2 DEF ClaimsKept
      <3>2. Holds(q)'
        BY <2>1, <3>1 DEF KeepsClaim, Holds, StatesStay
      <3>3. request[command[request[q].cmd].claim].pc # "done"
        BY <2>2, <3>1 DEF KeepsClaim, Holds, Holding
      <3>4. ~command'[request[q].cmd].lapsed
        BY <1>9, <3>1, <3>3, OnlyIdleClaimsLapse DEF KeepsClaim
      <3> QED BY <2>1, <3>2, <3>4 DEF KeepsClaim
    <2> QED BY <2>1, <2>2 DEF ClaimsKept
  <1>10. CASE Crash
    BY <1>10, CrashDoes DEF ClaimsKept, Holding
  <1> QED BY <1>1, <1>2, <1>3, <1>4, <1>5, <1>6, <1>7, <1>8, <1>9, <1>10, OutboxSteps DEF Step

(* While no claim lapses under a request that is still served, an outcome       *)
(* nobody knows is final: no later request hands the e-mail over.             *)
THEOREM UnsureIsFinal == ASSUME OutboxAssumption, ~SlowCalls PROVE Spec => UnsureIsLast
  <1> DEFINE Inv == OutboxTyped /\ ClaimsKept
  <1>1. Init => Inv
    BY OutboxTypedAtFirst, ClaimsAtFirst
  <1>2. Inv /\ [Next]_vars => Inv'
    BY OutboxTypedKept, ClaimsStay
  <1>3. Inv /\ [Next]_vars => [LeavesUnsureAlone]_vars
    <2> SUFFICES ASSUME Inv, [Next]_vars PROVE LeavesUnsureAlone
      OBVIOUS
    <2> DEFINE Alone == \A c \in Requests : command[c].state = "ambiguous" => command'[c].state = "ambiguous"
    <2>s. ASSUME Alone, \A c \in Requests : c \in mailed' /\ c \notin mailed => command[c].state # "ambiguous",
                 mailed \subseteq mailed'
          PROVE  LeavesUnsureAlone
      BY <2>s DEF LeavesUnsureAlone
    <2>1. ASSUME NEW q \in Requests, Repeat(q) \/ Preview(q) \/ Review(q) PROVE LeavesUnsureAlone
      <3>1. UNCHANGED <<command, mailed>>
        BY <2>1, RepeatDoes, PreviewDoes, ReviewDoes
      <3> QED BY <2>s, <3>1
    <2>2. ASSUME NEW q \in Requests, Create(q) PROVE LeavesUnsureAlone
      <3>1. /\ mailed' = mailed
            /\ command' = command \/ (OnlyCommand(q) /\ Existing(q) = {})
        BY <2>2, CreateDoes DEF Found, GivenUp, Created
      <3>2. Alone
        BY <3>1 DEF OnlyCommand, Existing, Exists
      <3> QED BY <2>s, <3>1, <3>2
    <2>3. ASSUME NEW q \in Requests, Claim(q) PROVE LeavesUnsureAlone
      <3>1. /\ mailed' = mailed
            /\ command' = command \/ (OnlyCommand(request[q].cmd) /\ Claimable(request[q].cmd))
        BY <2>3, ClaimDoes
      <3>2. Alone
        BY <3>1 DEF OnlyCommand, Claimable
      <3> QED BY <2>s, <3>1, <3>2
    <2>4. ASSUME NEW q \in Requests, Cancel(q) \/ Finish(q) PROVE LeavesUnsureAlone
      <3>1. /\ mailed' = mailed
            /\ command' = command \/ (OnlyCommand(request[q].cmd) /\ Holds(q))
        BY <2>4, CancelDoes, FinishDoes DEF LeftIn
      <3>2. Alone
        BY <3>1 DEF OnlyCommand, Holds
      <3> QED BY <2>s, <3>1, <3>2
    <2>5. ASSUME NEW q \in Requests, Call(q) PROVE LeavesUnsureAlone
      <3>1. /\ command' = command /\ mailed \subseteq mailed'
            /\ mailed' \subseteq mailed \cup {request[q].cmd} /\ request[q].pc = "call"
        BY <2>5, CallDoes
      <3>2. command[request[q].cmd].state = "sending"
        BY <3>1 DEF ClaimsKept, KeepsClaim, Holds, Holding
      <3> QED BY <2>s, <3>1, <3>2
    <2>6. ASSUME NEW q \in Requests, Record(q) PROVE LeavesUnsureAlone
      <3>1. StatesStay /\ mailed' = mailed
        BY <2>6, RecordDoes
      <3> QED BY <2>s, <3>1 DEF StatesStay
    <2>7. CASE Outside
      <3>1. StatesStay /\ mailed' = mailed
        BY <2>7, OutsideDoes
      <3> QED BY <2>s, <3>1 DEF StatesStay
    <2>8. CASE Crash
      <3>1. UNCHANGED <<command, mailed>>
        BY <2>8, CrashDoes
      <3> QED BY <2>s, <3>1
    <2> QED BY <2>1, <2>2, <2>3, <2>4, <2>5, <2>6, <2>7, <2>8, OutboxSteps DEF Step
  <1> QED BY <1>1, <1>2, <1>3, PTL DEF Spec, UnsureIsLast

-----------------------------------------------------------------------------
(* The promise of ConfirmedMail *)

Decisions == {"accepted", "ambiguous", "permanent_failed", "cancelled"}

(* While no decision and no delivery is added, nothing changes for the promise. *)
LEMMA PromiseRests ==
  ASSUME mailed' = mailed,
         \A c \in Requests : \A s \in Decisions : command'[c].state = s <=> command[c].state = s
  PROVE  UNCHANGED Promise!vars
  <1>1. \A s \in Decisions : ConfirmedIn(s)' = ConfirmedIn(s)
    BY DEF ConfirmedIn
  <1> QED BY <1>1 DEF Promise!vars, Promise!outcomes, Decisions

(* The confirmations decided in a way, when one more command is. *)
LEMMA OneMoreDecided ==
  ASSUME NEW c \in Requests, NEW s \in Decisions, LeftIn(c, s), command[c].state = "sending"
  PROVE  /\ ConfirmedIn(s)' = ConfirmedIn(s) \cup {TokenOf[c]}
         /\ \A x \in Decisions \ {s} : ConfirmedIn(x)' = ConfirmedIn(x)
  <1>1. command'[c].state = s /\ \A d \in Requests \ {c} : command'[d] = command[d]
    BY DEF LeftIn, OnlyCommand
  <1>2. ConfirmedIn(s)' = ConfirmedIn(s) \cup {TokenOf[c]}
    BY <1>1 DEF ConfirmedIn, Decisions
  <1>3. ASSUME NEW x \in Decisions \ {s} PROVE ConfirmedIn(x)' = ConfirmedIn(x)
    BY <1>1, <1>3 DEF ConfirmedIn, Decisions
  <1> QED BY <1>2, <1>3

(* A confirmation whose command is sending is not decided. *)
LEMMA SendingIsUndecided ==
  ASSUME OutboxOnce, NEW c \in Requests, command[c].state = "sending"
  PROVE  Promise!Undecided(TokenOf[c])
  <1>1. \A d \in Requests : Exists(d) /\ TokenOf[d] = TokenOf[c] => command[d].state = "sending"
    BY DEF OutboxOnce, OneCommand, Exists
  <1>2. \A s \in Decisions : TokenOf[c] \notin ConfirmedIn(s)
    BY <1>1 DEF ConfirmedIn, Exists, Decisions
  <1> QED BY <1>2 DEF Promise!Undecided, Decisions

(* The promise counts with the Cardinality of its own instance of FiniteSets. *)
LEMMA SameCount == ASSUME NEW S PROVE Promise!Cardinality(S) = Cardinality(S)
  BY Zenon DEF Promise!Cardinality, Cardinality

(* Of the commands the cap is about, the one that is called leaves room. *)
LEMMA CalledHasRoom ==
  ASSUME OutboxAssumption, WithinCap, NEW c \in Requests, c \in Committed, command[c].state = "sending"
  PROVE  Promise!Room
  <1> DEFINE S == {d \in Requests : Settled(d)}
             T == ConfirmedIn("accepted") \cup ConfirmedIn("ambiguous")
             f == [d \in S |-> TokenOf[d]]
  <1>1. c \notin S /\ S \in SUBSET Requests
    BY DEF Settled
  <1>2. S \cup {c} \in SUBSET Committed /\ Committed \in SUBSET Requests
    BY DEF Committed
  <1>3. f \in Surjection(S, T)
    <2>1. \A d \in S : TokenOf[d] \in T
      BY DEF ConfirmedIn, Settled
    <2>2. \A t \in T : \E d \in S : f[d] = t
      BY DEF ConfirmedIn, Settled
    <2> QED BY <2>1, <2>2 DEF Surjection
  <1> HIDE DEF S, T, f
  <1>4. IsFiniteSet(S)
    BY <1>1, FewerCommands
  <1>5. IsFiniteSet(T) /\ Cardinality(T) <= Cardinality(S)
    BY <1>3, <1>4, FS_Surjection
  <1>6. Cardinality(S \cup {c}) = Cardinality(S) + 1
    BY <1>1, <1>4, FS_AddElement
  <1>7. Cardinality(S \cup {c}) <= Cardinality(Committed) /\ Cardinality(Committed) \in Nat
    BY <1>2, FewerCommands
  <1>8. Cardinality(S) \in Nat /\ Cardinality(T) \in Nat /\ Cap \in Nat
    BY <1>4, <1>5, FS_CardinalityType DEF OutboxAssumption
  <1>9. Cardinality(T) < Cap
    BY <1>5, <1>6, <1>7, <1>8 DEF WithinCap
  <1>10. Promise!Cardinality(T) = Cardinality(T)
    BY SameCount
  <1>11. Promise!Cardinality(T) < Cap
    BY <1>9, <1>10
  <1> QED BY <1>11 DEF Promise!Room, T

(* Every step of the outbox delivers a confirmation, decides one, or is none of *)
(* the promise's business.                                                    *)
LEMMA PromiseKept ==
  ASSUME OutboxAssumption, OutboxTyped, OutboxOnce, OutboxTrue, WithinCap, [Next]_vars
  PROVE  [Promise!Next]_(Promise!vars)
  <1>t. ASSUME NEW c \in Requests PROVE TokenOf[c] \in Tokens
    BY DEF OutboxAssumption
  <1>u. ASSUME mailed' = mailed, StatesStay \/ command' = command PROVE UNCHANGED Promise!vars
    BY <1>u, PromiseRests DEF StatesStay
  (* One command was decided. *)
  <1>d. ASSUME NEW c \in Requests, NEW s \in Decisions, LeftIn(c, s), command[c].state = "sending",
               mailed' = mailed, s \in {"accepted", "ambiguous"} => c \in Committed,
               s = "accepted" => c \in mailed
        PROVE  Promise!Next
    <2>1. /\ ConfirmedIn(s)' = ConfirmedIn(s) \cup {TokenOf[c]}
          /\ \A x \in Decisions \ {s} : ConfirmedIn(x)' = ConfirmedIn(x)
      BY <1>d, OneMoreDecided
    <2>2. Promise!Undecided(TokenOf[c])
      BY <1>d, SendingIsUndecided
    <2>3. CASE s = "accepted"
      <3>1. Promise!Room
        BY <1>d, <2>3, CalledHasRoom
      <3>2. TokenOf[c] \in {TokenOf[d] : d \in mailed}
        BY <1>d, <2>3
      <3>3. /\ ConfirmedIn("accepted")' = ConfirmedIn("accepted") \cup {TokenOf[c]}
            /\ ConfirmedIn("ambiguous")' = ConfirmedIn("ambiguous")
            /\ ConfirmedIn("permanent_failed")' = ConfirmedIn("permanent_failed")
            /\ ConfirmedIn("cancelled")' = ConfirmedIn("cancelled")
        BY <2>1, <2>3 DEF Decisions
      <3>4. Promise!Accept(TokenOf[c])
        BY <1>d, <2>2, <3>1, <3>2, <3>3 DEF Promise!Accept
      <3> QED BY <1>t, <3>4 DEF Promise!Next
    <2>4. CASE s = "ambiguous"
      <3>1. Promise!Room
        BY <1>d, <2>4, CalledHasRoom
      <3>3. /\ ConfirmedIn("accepted")' = ConfirmedIn("accepted")
            /\ ConfirmedIn("ambiguous")' = ConfirmedIn("ambiguous") \cup {TokenOf[c]}
            /\ ConfirmedIn("permanent_failed")' = ConfirmedIn("permanent_failed")
            /\ ConfirmedIn("cancelled")' = ConfirmedIn("cancelled")
        BY <2>1, <2>4 DEF Decisions
      <3>4. Promise!LeaveUnsure(TokenOf[c])
        BY <1>d, <2>2, <3>1, <3>3 DEF Promise!LeaveUnsure
      <3> QED BY <1>t, <3>4 DEF Promise!Next
    <2>5. CASE s \in {"permanent_failed", "cancelled"}
      <3>1. /\ ConfirmedIn("accepted")' = ConfirmedIn("accepted")
            /\ ConfirmedIn("ambiguous")' = ConfirmedIn("ambiguous")
            /\ (ConfirmedIn("permanent_failed") \cup ConfirmedIn("cancelled"))'
                 = (ConfirmedIn("permanent_failed") \cup ConfirmedIn("cancelled")) \cup {TokenOf[c]}
        BY <2>1, <2>5 DEF Decisions
      <3>2. Promise!Drop(TokenOf[c])
        BY <1>d, <2>2, <3>1 DEF Promise!Drop
      <3> QED BY <1>t, <3>2 DEF Promise!Next
    <2> QED BY <2>3, <2>4, <2>5 DEF Decisions
  <1>1. ASSUME NEW q \in Requests, Repeat(q) \/ Preview(q) \/ Review(q) PROVE UNCHANGED Promise!vars
    BY <1>1, <1>u, RepeatDoes, PreviewDoes, ReviewDoes
  <1>2. ASSUME NEW q \in Requests, Create(q) PROVE UNCHANGED Promise!vars
    <2>1. /\ mailed' = mailed
          /\ \/ command' = command
             \/ OnlyCommand(q) /\ Existing(q) = {} /\ command'[q].state = "queued"
      BY <1>2, CreateDoes DEF Found, GivenUp, Created
    <2>2. CASE command' = command
      BY <1>u, <2>1, <2>2
    <2>3. CASE OnlyCommand(q) /\ Existing(q) = {} /\ command'[q].state = "queued"
      <3>1. command[q].state = "none"
        BY <2>3 DEF Existing, Exists
      <3> QED BY <2>1, <2>3, <3>1, PromiseRests DEF OnlyCommand, Decisions
    <2> QED BY <2>1, <2>2, <2>3
  <1>3. ASSUME NEW q \in Requests, Claim(q) PROVE UNCHANGED Promise!vars
    <2>1. mailed' = mailed /\ request[q].pc = "claim" /\ request[q].cmd \in Requests
      BY <1>3, ClaimDoes
    <2>2. CASE command' = command
      BY <1>u, <2>1, <2>2
    <2>3. CASE /\ Claimable(request[q].cmd) /\ OnlyCommand(request[q].cmd)
               /\ command'[request[q].cmd].state = "sending"
      <3>1. command[request[q].cmd].state \notin Decisions
        BY <2>3 DEF Claimable, Decisions
      <3>2. ASSUME NEW d \in Requests, NEW s \in Decisions
            PROVE  command'[d].state = s <=> command[d].state = s
        BY <2>3, <3>1 DEF OnlyCommand, Decisions
      <3> QED BY <2>1, <3>2, PromiseRests
    <2> QED BY <1>3, <2>2, <2>3, ClaimDoes
  <1>4. ASSUME NEW q \in Requests, Cancel(q) PROVE [Promise!Next]_(Promise!vars)
    <2>1. /\ mailed' = mailed /\ request[q].cmd \in Requests
          /\ (Holds(q) /\ LeftIn(request[q].cmd, "cancelled")) \/ command' = command
      BY <1>4, CancelDoes
    <2>2. CASE Holds(q) /\ LeftIn(request[q].cmd, "cancelled")
      BY <1>d, <2>1, <2>2 DEF Holds, Decisions
    <2>3. CASE command' = command
      BY <1>u, <2>1, <2>3
    <2> QED BY <2>1, <2>2, <2>3
  <1>5. ASSUME NEW q \in Requests, Call(q) PROVE [Promise!Next]_(Promise!vars)
    <2>1. /\ command' = command /\ request[q].pc = "call" /\ request[q].cmd \in Requests
          /\ mailed' \in {mailed, mailed \cup {request[q].cmd}}
      BY <1>5, CallDoes
    <2>2. CASE mailed' = mailed
      BY <1>u, <2>1, <2>2
    <2>3. CASE mailed' = mailed \cup {request[q].cmd} /\ request[q].cmd \notin mailed
      <3>1. PICK c \in Requests : c = request[q].cmd
        BY <2>1
      <3>2. Exists(c)
        BY <2>1, <3>1 DEF OutboxOnce, HandleTheirOwn, HandlesItsOwn, Working
      <3>3. mailed \subseteq Requests /\ \A d \in mailed : Exists(d)
        BY DEF OutboxTyped, TypeOK, OutboxOnce
      <3>4. TokenOf[c] \notin {TokenOf[d] : d \in mailed}
        BY <2>3, <3>1, <3>2, <3>3 DEF OutboxOnce, OneCommand
      <3>5. {TokenOf[d] : d \in mailed}' = {TokenOf[d] : d \in mailed} \cup {TokenOf[c]}
        BY <2>3, <3>1
      <3>6. \A s : ConfirmedIn(s)' = ConfirmedIn(s)
        BY <2>1 DEF ConfirmedIn
      <3>7. Promise!Deliver(TokenOf[c])
        BY <3>4, <3>5, <3>6 DEF Promise!Deliver, Promise!outcomes
      <3>8. TokenOf[c] \in Tokens
        BY <1>t
      <3>9. Promise!Next
        BY <3>7, <3>8 DEF Promise!Next
      <3> QED BY <3>9
    <2> QED BY <2>1, <2>2, <2>3
  <1>6. ASSUME NEW q \in Requests, Finish(q) PROVE [Promise!Next]_(Promise!vars)
    <2>1. /\ mailed' = mailed /\ request[q].cmd \in Requests /\ request[q].pc = "finish"
          /\ request[q].answer \in Answers
          /\ \/ command' = command
             \/ Holds(q) /\ request[q].answer = "sent" /\ LeftIn(request[q].cmd, "accepted")
             \/ Holds(q) /\ request[q].answer # "sent" /\ LeftIn(request[q].cmd, request[q].answer)
      BY <1>6, FinishDoes
    <2>2. CASE command' = command
      BY <1>u, <2>1, <2>2
    <2>3. ASSUME Holds(q) PROVE request[q].cmd \in Committed /\ command[request[q].cmd].state = "sending"
      BY <2>1, <2>3 DEF Committed, Reaches, Holds
    <2>4. CASE Holds(q) /\ request[q].answer = "sent" /\ LeftIn(request[q].cmd, "accepted")
      <3>1. request[q].cmd \in mailed
        BY <2>1, <2>4 DEF OutboxTrue, AnswersAreTrue
      <3> QED BY <1>d, <2>1, <2>3, <2>4, <3>1 DEF Decisions
    <2>5. CASE /\ Holds(q) /\ request[q].answer # "sent" /\ LeftIn(request[q].cmd, request[q].answer)
      <3>1. CASE request[q].answer = "retryable_failed"
        <4>1. ASSUME NEW d \in Requests, NEW s \in Decisions
              PROVE  command'[d].state = s <=> command[d].state = s
          BY <2>1, <2>3, <2>5, <3>1 DEF LeftIn, OnlyCommand, Decisions
        <4> QED BY <2>1, <4>1, PromiseRests
      <3>2. CASE request[q].answer # "retryable_failed"
        <4>1. request[q].answer \in {"ambiguous", "permanent_failed"}
          BY <2>1, <2>5, <3>2 DEF Answers
        <4> QED BY <1>d, <2>1, <2>3, <2>5, <4>1 DEF Decisions
      <3> QED BY <3>1, <3>2
    <2> QED BY <2>1, <2>2, <2>4, <2>5
  <1>7. ASSUME NEW q \in Requests, Record(q) PROVE UNCHANGED Promise!vars
    BY <1>7, <1>u, RecordDoes
  <1>8. CASE Outside
    BY <1>8, <1>u, OutsideDoes
  <1>9. CASE Crash
    BY <1>9, <1>u, CrashDoes
  <1> QED BY <1>1, <1>2, <1>3, <1>4, <1>5, <1>6, <1>7, <1>8, <1>9, OutboxSteps DEF Step

(* What became of a confirmation, and of the cap: its mail leaves once, its       *)
(* outcome is decided once, accepted only if it left, and of those accepted or  *)
(* unsure there are never more than the cap.                                  *)
THEOREM OutboxKeepsPromise == ASSUME OutboxAssumption PROVE Spec => ImplementsConfirmedMail
  <1> DEFINE Inv == OutboxTyped /\ OutboxOnce /\ OutboxTrue /\ WithinCap
  <1>1. Init => Inv
    BY OutboxTypedAtFirst, OnceAtFirst, TrueAtFirst, CapAtFirst
  <1>2. Inv /\ [Next]_vars => Inv'
    BY OutboxTypedKept, OnceKept, TrueKept, CapKept
  <1>3. Init => Promise!Init
    BY DEF Init, NoCommand, ConfirmedIn, Promise!Init, Promise!outcomes
  <1>4. Inv /\ [Next]_vars => [Promise!Next]_(Promise!vars)
    BY PromiseKept
  <1> QED BY <1>1, <1>2, <1>3, <1>4, PTL DEF Spec, ImplementsConfirmedMail, Promise!Safety

-----------------------------------------------------------------------------
(* Of CimRequests: its constants and variables, Senders for its calls, TouchCap and *)
(* LongCalls for its cap and its slow calls, written for what became of a message   *)
CONSTANTS Opps, Rcpts, Senders, TouchCap, Kinds, Reports, Stops, MaxRestarts, LongCalls
VARIABLES requests, communications, claims, reserved, locks, written, pursue, stops, run,
          restarts

Cim == INSTANCE CimRequests WITH
  Calls <- Senders, Cap <- TouchCap, SlowCalls <- LongCalls, mailed <- written

-----------------------------------------------------------------------------
(* Rows and calls *)

Statuses == {"none", "pending", "sent", "failed", "ambiguous", "delivery_issue"}
Messages == {"none", "prepared", "accepted", "failed", "ambiguous", "bounced"}
(* Where a call is: past its last look at the other system, past its claim of    *)
(* the opportunity, past its row, between the locks and finally.                *)
Late == {"row", "prepare", "renew", "final", "send"}
Sending == {"recheck"} \cup Late
AtItsRow == {"prepare", "renew", "final", "send", "message", "save"}
Inside == {"read", "reconcile", "recipient", "opportunity", "release"} \cup Sending \cup AtItsRow
Pcs == {"idle", "check", "lock", "close"} \cup Inside
RowSet == [status : Statuses, delivery : {"none", "accepted", "failed", "ambiguous", "bounced"},
        closed : BOOLEAN, stale : BOOLEAN]
CallSet == [pc : Pcs, kind : {"approved", "signed", "retry"}, q : Cim!Requests \cup {Cim!None},
        from : Cim!Requests \cup {Cim!None}, target : Cim!Requests \cup {Cim!None}, fresh : BOOLEAN,
        outcome : {"none", "sent", "failed", "ambiguous"}, found : BOOLEAN, again : BOOLEAN]

(* A row that is absent is empty, and only a pending one is ten minutes old. A  *)
(* call has a request until it is over, a retry a request it retries, and once  *)
(* it has a row that row is what it finalizes.                                  *)
Consistent(row) == (row.status = "none" => row = Cim!Absent) /\ (row.stale => row.status = "pending")
Directed(c) ==
  /\ IF c.pc = "idle" THEN c.outcome = "none" ELSE c.q \in Cim!Requests
  /\ c.from \in Cim!Requests => Cim!Opp(c.from) = Cim!Opp(c.q)
  /\ c.kind = "retry" \/ c.pc = "close" => c.from \in Cim!Requests
  /\ c.pc \in AtItsRow => c.target = c.q
  /\ c.pc = "reconcile" => c.target \in Cim!Requests
  /\ c.pc \in {"message", "save"} => c.outcome # "none"
RowsTyped == requests \in [Cim!Requests -> RowSet] /\ \A q \in Cim!Requests : Consistent(requests[q])
CallsTyped == run \in [Senders -> CallSet] /\ \A w \in Senders : Directed(run[w])
RestTyped ==
  /\ communications \in [Cim!Requests -> Messages]
  /\ claims \in [Opps -> Cim!Requests \cup {Cim!None}]
  /\ written \in [Cim!Requests -> {"no", "out", "bounced"}]
  /\ pursue \in [Opps -> {"none", "decided", "mailed"}]
  /\ locks \subseteq Opps \cup Rcpts
(* What was mailed, and what a call prepares or sends, has a row. *)
Present ==
  /\ \A q \in Cim!Requests : written[q] # "no" => requests[q].status # "none"
  /\ \A w \in Senders : run[w].pc \in AtItsRow => requests[run[w].q].status # "none"
CimTyped == RowsTyped /\ CallsTyped /\ RestTyped /\ Present

-----------------------------------------------------------------------------
(* The calls *)

(* What a write of a row leaves a call: everything but its hold on the row. *)
Same(c, d) == /\ d.pc = c.pc /\ d.kind = c.kind /\ d.q = c.q /\ d.from = c.from
              /\ d.target = c.target /\ d.outcome = c.outcome
OthersSame(w) == \A v \in Senders \ {w} : Same(run[v], run'[v])
(* One call goes on, the others keep what they have. *)
Turned(w, pc) ==
  /\ run' \in [Senders -> CallSet] /\ OthersSame(w)
  /\ run'[w].pc = pc /\ run'[w].kind = run[w].kind /\ run'[w].q = run[w].q
  /\ run'[w].from = run[w].from

LEMMA OneCall ==
  ASSUME run \in [Senders -> CallSet], NEW w \in Senders, NEW d \in CallSet,
         run' = [run EXCEPT ![w] = d]
  PROVE  run' \in [Senders -> CallSet] /\ run'[w] = d /\ OthersSame(w)
  BY DEF OthersSame, Same

LEMMA StaleIs ==
  ASSUME run \in [Senders -> CallSet], NEW q
  PROVE  /\ Cim!Stale(run, q) \in [Senders -> CallSet]
         /\ \A v \in Senders : Same(run[v], Cim!Stale(run, q)[v])
  <1>1. ASSUME NEW v \in Senders
        PROVE  [run[v] EXCEPT !.fresh = FALSE] \in CallSet /\ Same(run[v], [run[v] EXCEPT !.fresh = FALSE])
    BY DEF CallSet, Same
  <1>2. ASSUME NEW v \in Senders PROVE Same(run[v], run[v])
    BY DEF Same
  <1> QED BY <1>1, <1>2 DEF Cim!Stale

LEMMA OneWrite ==
  ASSUME run \in [Senders -> CallSet], NEW w \in Senders, NEW d \in CallSet, NEW q, NEW row,
         Cim!Write(w, q, row, d)
  PROVE  /\ requests' = [requests EXCEPT ![q] = row]
         /\ run' \in [Senders -> CallSet] /\ run'[w] = d /\ OthersSame(w)
  BY StaleIs DEF Cim!Write, OthersSame

(* A call's record with some of its fields written. *)
LEMMA CallRow ==
  ASSUME NEW c \in CallSet, NEW pc \in Pcs, NEW b \in BOOLEAN, NEW t \in Cim!Requests \cup {Cim!None},
         NEW o \in {"none", "sent", "failed", "ambiguous"}
  PROVE  /\ [c EXCEPT !.pc = pc] \in CallSet
         /\ [c EXCEPT !.pc = pc, !.found = b] \in CallSet
         /\ [c EXCEPT !.pc = pc, !.fresh = b] \in CallSet
         /\ [c EXCEPT !.pc = pc, !.target = t, !.fresh = b] \in CallSet
         /\ [c EXCEPT !.pc = pc, !.outcome = o] \in CallSet
         /\ [c EXCEPT !.pc = pc, !.again = b] \in CallSet
         /\ [c EXCEPT !.pc = pc, !.outcome = o, !.fresh = b] \in CallSet
  <1>1. [c EXCEPT !.pc = pc] \in CallSet
    BY DEF CallSet
  <1>2. [c EXCEPT !.pc = pc, !.found = b] \in CallSet
    BY DEF CallSet
  <1>3. [c EXCEPT !.pc = pc, !.fresh = b] \in CallSet
    BY DEF CallSet
  <1>4. [c EXCEPT !.pc = pc, !.target = t, !.fresh = b] \in CallSet
    BY DEF CallSet
  <1>5. [c EXCEPT !.pc = pc, !.outcome = o] \in CallSet
    BY DEF CallSet
  <1>6. [c EXCEPT !.pc = pc, !.again = b] \in CallSet
    BY DEF CallSet
  <1>7. [c EXCEPT !.pc = pc, !.outcome = o, !.fresh = b] \in CallSet
    BY DEF CallSet
  <1> QED BY <1>1, <1>2, <1>3, <1>4, <1>5, <1>6, <1>7

LEMMA GoTurns ==
  ASSUME run \in [Senders -> CallSet], NEW w \in Senders, NEW pc \in Pcs, Cim!Go(w, pc)
  PROVE  Turned(w, pc) /\ run'[w].target = run[w].target /\ run'[w].outcome = run[w].outcome
  <1> DEFINE d == [run[w] EXCEPT !.pc = pc]
  <1>1. d \in CallSet
    BY CallRow
  <1>2. run' = [run EXCEPT ![w] = d]
    BY DEF Cim!Go
  <1>3. /\ d.pc = pc /\ d.kind = run[w].kind /\ d.q = run[w].q /\ d.from = run[w].from
        /\ d.target = run[w].target /\ d.outcome = run[w].outcome
    BY DEF CallSet
  <1> HIDE DEF d
  <1> QED BY <1>1, <1>2, <1>3, OneCall DEF Turned

LEMMA LeaveTurns ==
  ASSUME run \in [Senders -> CallSet], NEW w \in Senders, NEW b \in BOOLEAN, Cim!Leave(w, b)
  PROVE  Turned(w, "release") /\ run'[w].target = run[w].target /\ run'[w].outcome = run[w].outcome
  <1> DEFINE d == [run[w] EXCEPT !.pc = "release", !.found = b]
  <1>1. d \in CallSet
    BY CallRow DEF Pcs, Inside
  <1>2. run' = [run EXCEPT ![w] = d]
    BY DEF Cim!Leave
  <1>3. /\ d.pc = "release" /\ d.kind = run[w].kind /\ d.q = run[w].q /\ d.from = run[w].from
        /\ d.target = run[w].target /\ d.outcome = run[w].outcome
    BY DEF CallSet
  <1> HIDE DEF d
  <1> QED BY <1>1, <1>2, <1>3, OneCall DEF Turned

LEMMA IdleIs == /\ Cim!Idle \in CallSet /\ Cim!Idle.pc = "idle" /\ Cim!Idle.kind = "signed" /\ Cim!Idle.from = Cim!None
                /\ Cim!Idle.q = Cim!None /\ Cim!Idle.outcome = "none"
  BY DEF Cim!Idle, CallSet, Pcs

LEMMA QuitIs ==
  ASSUME run \in [Senders -> CallSet], NEW w \in Senders, Cim!Quit(w)
  PROVE  run' \in [Senders -> CallSet] /\ OthersSame(w) /\ run'[w] = Cim!Idle
  BY IdleIs, OneCall DEF Cim!Quit

(* A row that is written. *)
RowWritten(q, row) ==
  /\ requests' = [requests EXCEPT ![q] = row] /\ row \in RowSet /\ row.status # "none"
  /\ row.stale => row.status = "pending"
  /\ Cim!Completed(q) => row.status \in {"sent", "delivery_issue", "ambiguous"}

LEMMA SettledRow ==
  ASSUME NEW row \in RowSet, NEW s \in {"sent", "delivery_issue", "failed", "ambiguous"}
  PROVE  /\ Cim!Settled(row, s) \in RowSet /\ Cim!Settled(row, s).status = s
         /\ ~Cim!Settled(row, s).stale
         /\ Cim!Settled(row, s).delivery = "bounced" <=> s = "delivery_issue"
  BY DEF Cim!Settled, RowSet, Statuses

(* The row a call finalizes, while it is still the one it read. *)
LEMMA FinalizeDoes ==
  ASSUME RowsTyped, run \in [Senders -> CallSet], NEW w \in Senders, run[w].target \in Cim!Requests,
         NEW s \in {"sent", "delivery_issue", "failed", "ambiguous"},
         Cim!Finalize(w, s, [run[w] EXCEPT !.pc = "release"])
  PROVE  /\ Turned(w, "release") /\ run'[w].outcome = run[w].outcome
         /\ \/ UNCHANGED requests
            \/ RowWritten(run[w].target, Cim!Settled(requests[run[w].target], s))
  <1> DEFINE q == run[w].target
             row == Cim!Settled(requests[q], s)
             d == [run[w] EXCEPT !.pc = "release"]
  <1>0. d \in CallSet /\ Cim!Left(w) \in CallSet
    BY CallRow DEF Cim!Left, Pcs, Inside
  <1>1. /\ d.pc = "release" /\ d.kind = run[w].kind /\ d.q = run[w].q
        /\ d.from = run[w].from /\ d.outcome = run[w].outcome
    BY DEF CallSet
  <1>2. /\ Cim!Left(w).pc = "release" /\ Cim!Left(w).kind = run[w].kind
        /\ Cim!Left(w).q = run[w].q /\ Cim!Left(w).from = run[w].from /\ Cim!Left(w).outcome = run[w].outcome
    BY DEF Cim!Left, CallSet
  <1>3. CASE Cim!Held(w, {"pending", "failed"})
    <2>1. Cim!Write(w, q, row, Cim!Left(w))
      BY <1>3 DEF Cim!Finalize
    <2>2. /\ requests' = [requests EXCEPT ![q] = row]
          /\ run' \in [Senders -> CallSet] /\ run'[w] = Cim!Left(w) /\ OthersSame(w)
      BY <1>0, <2>1, OneWrite
    <2>3. requests[q].status \in {"pending", "failed"}
      BY <1>3 DEF Cim!Held
    <2>4. row \in RowSet /\ row.status = s /\ ~row.stale
      BY SettledRow DEF RowsTyped
    <2>5. RowWritten(q, row)
      BY <2>2, <2>3, <2>4 DEF RowWritten, Cim!Completed
    <2> QED BY <1>2, <2>2, <2>5 DEF Turned
  <1>4. CASE ~Cim!Held(w, {"pending", "failed"})
    <2>1. run' = [run EXCEPT ![w] = d] /\ UNCHANGED requests
      BY <1>4 DEF Cim!Finalize
    <2> HIDE DEF d
    <2>2. run' \in [Senders -> CallSet] /\ run'[w] = d /\ OthersSame(w)
      BY <1>0, <2>1, OneCall
    <2> QED BY <1>1, <2>1, <2>2 DEF Turned
  <1> QED BY <1>3, <1>4

-----------------------------------------------------------------------------
(* What a step of a call may do *)

(* To the calls: reconcile is for a request whose mail is proved. *)
CallStep(w) ==
  /\ run' \in [Senders -> CallSet] /\ OthersSame(w) /\ Directed(run'[w])
  /\ run'[w].pc # "idle" => run'[w].q = run[w].q
  /\ run'[w].from \in Cim!Requests => run'[w].from = run[w].from
  /\ run'[w].pc \in AtItsRow => run[w].pc \in AtItsRow \/ requests'[run[w].q].status # "none"
  /\ run'[w].pc = "reconcile" => Cim!Proof(run'[w].target)
(* To the rows: a bounce is entered where one is known, an acceptance where one  *)
(* is known, was reported to this call, or for the request that is retried.      *)
Accepted(s) == s \in {"sent", "delivery_issue"}
MayBounce(w, q) == \/ requests[q].delivery = "bounced" \/ communications[q] = "bounced"
                   \/ q = run[w].from
MaySay(w, q) ==
  \/ Accepted(requests[q].status) \/ Cim!Proof(q) \/ q = run[w].from
  \/ q = run[w].target /\ run[w].pc = "reconcile"
  \/ q = run[w].q /\ run[w].outcome = "sent"
RowsDo(w) ==
  /\ RowsTyped' /\ Cim!StaysComplete
  /\ \A q \in Cim!Requests :
       /\ requests[q].status # "none" => requests'[q].status # "none"
       /\ requests'[q].delivery = "bounced" => MayBounce(w, q)
       /\ Accepted(requests'[q].status) => MaySay(w, q)
(* To the mail: it leaves at the call of the provider, once. *)
MailDoes(w) ==
  /\ communications' \in [Cim!Requests -> Messages]
  /\ written' \in [Cim!Requests -> {"no", "out", "bounced"}]
  /\ \A q \in Cim!Requests :
       /\ communications'[q] = "bounced" => communications[q] = "bounced"
       /\ Cim!Proof(q)' => Cim!Proof(q) \/ (q = run[w].q /\ run[w].outcome = "sent")
       /\ \/ written'[q] = written[q]
          \/ /\ q = run[w].q /\ run[w].pc = "send" /\ written[q] = "no" /\ written'[q] = "out"
  /\ run'[w].outcome = "sent" => run[w].outcome = "sent" \/ written'[run'[w].q] # "no"
(* To the locks: a recipient is locked by the call that enters and unlocked by   *)
(* none but the one that leaves; the deal's lock anyone may delete.              *)
LocksDo(w) ==
  /\ locks' \subseteq Opps \cup Rcpts
  /\ run'[w].pc \in Inside /\ run[w].pc \notin Inside
       => Cim!Rcpt(run[w].q) \notin locks /\ Cim!Rcpt(run[w].q) \in locks'
  /\ \A r \in Rcpts : r \in locks => r \in locks' \/ (/\ r = Cim!Rcpt(run[w].q) /\ run[w].pc \in Inside
                                                    /\ run'[w].pc \notin Inside)
(* To the claims: they are taken from nobody, from oneself or from the request   *)
(* that is retried, and given up while there is no row; the other system is      *)
(* asked once more after that.                                                   *)
Gives(w, o) == run[w].pc = "recheck" /\ run'[w].pc = "release" /\ claims[o] = run[w].q
               /\ requests[run[w].q].status = "none" /\ claims'[o] = Cim!None
ClaimsDo(w) ==
  /\ claims' \in [Opps -> Cim!Requests \cup {Cim!None}] /\ pursue' = pursue
  /\ \A o \in Opps : \/ claims'[o] = claims[o]
                     \/ o = Cim!Opp(run[w].q) /\ claims'[o] = run[w].q /\ Cim!MayOwn(w)
                     \/ o = Cim!Opp(run[w].q) /\ Gives(w, o)
  /\ run'[w].pc \in Sending => run[w].pc \in Sending \/ claims'[Cim!Opp(run[w].q)] = run[w].q
  /\ run'[w].pc \in Late => run[w].pc \in Late \/ pursue[Cim!Opp(run[w].q)] = "none"
Does(w) == CallStep(w) /\ RowsDo(w) /\ MailDoes(w) /\ LocksDo(w) /\ ClaimsDo(w)

LEMMA Parts == ASSUME NEW q \in Cim!Requests PROVE Cim!Opp(q) \in Opps /\ Cim!Rcpt(q) \in Rcpts
  BY DEF Cim!Requests, Cim!Opp, Cim!Rcpt

LEMMA RowsRest == ASSUME CimTyped, NEW w \in Senders, UNCHANGED requests PROVE RowsDo(w)
  BY DEF RowsDo, CimTyped, RowsTyped, Cim!StaysComplete, Cim!Completed, MayBounce, MaySay, Consistent
LEMMA RowsWrittenDo ==
  ASSUME CimTyped, NEW w \in Senders, NEW q \in Cim!Requests, NEW row, RowWritten(q, row),
         row.delivery = "bounced" => MayBounce(w, q), Accepted(row.status) => MaySay(w, q)
  PROVE  RowsDo(w)
  <1>1. /\ requests' \in [Cim!Requests -> RowSet] /\ requests'[q] = row
        /\ \A p \in Cim!Requests : p # q => requests'[p] = requests[p]
    BY DEF RowWritten, CimTyped, RowsTyped
  <1>2. /\ row.status # "none" /\ Consistent(row)
        /\ Cim!Completed(q) => row.status \in {"sent", "delivery_issue", "ambiguous"}
    BY DEF RowWritten, Consistent
  <1>3. RowsTyped'
    BY <1>1, <1>2 DEF CimTyped, RowsTyped, Consistent, Cim!Absent
  <1>4. Cim!StaysComplete
    BY <1>1, <1>2 DEF Cim!StaysComplete, Cim!Completed
  <1>5. \A p \in Cim!Requests :
          /\ requests[p].status # "none" => requests'[p].status # "none"
          /\ requests'[p].delivery = "bounced" => MayBounce(w, p)
          /\ Accepted(requests'[p].status) => MaySay(w, p)
    BY <1>1, <1>2 DEF MayBounce, MaySay
  <1> QED BY <1>3, <1>4, <1>5 DEF RowsDo
LEMMA MailRests ==
  ASSUME CimTyped, NEW w \in Senders, UNCHANGED <<communications, written>>,
         run'[w].outcome \in {run[w].outcome, "none"}
  PROVE  MailDoes(w)
  BY DEF MailDoes, CimTyped, RestTyped, Cim!Proof
LEMMA LocksRest ==
  ASSUME CimTyped, NEW w \in Senders, UNCHANGED locks, run'[w].pc \in Inside => run[w].pc \in Inside
  PROVE  LocksDo(w)
  BY DEF LocksDo, CimTyped, RestTyped
LEMMA ClaimsRest ==
  ASSUME CimTyped, NEW w \in Senders, UNCHANGED <<claims, pursue>>,
         run'[w].pc \in Sending => run[w].pc \in Sending, run'[w].pc \in Late => run[w].pc \in Late
  PROVE  ClaimsDo(w)
  BY DEF ClaimsDo, CimTyped, RestTyped
LEMMA TurnDoes ==
  ASSUME Cim!CimRequestsAssumption, CimTyped, NEW w \in Senders, NEW pc, Turned(w, pc), run[w].pc # "idle", pc \notin {"idle", "reconcile"},
         pc \in AtItsRow => run[w].pc \in AtItsRow /\ run'[w].target = run[w].target,
         pc \in {"message", "save"} => run'[w].outcome # "none", pc = "close" => run[w].kind = "retry"
  PROVE  CallStep(w)
  <1>1. Directed(run[w]) /\ run[w].q \in Cim!Requests
    BY DEF CimTyped, CallsTyped, Directed
  <1>2. Directed(run'[w])
    BY <1>1 DEF Turned, Directed
  <1> QED BY <1>2 DEF Turned, CallStep
LEMMA QuitDoes ==
  ASSUME Cim!CimRequestsAssumption, CimTyped, NEW w \in Senders, run' \in [Senders -> CallSet], OthersSame(w), run'[w] = Cim!Idle
  PROVE  CallStep(w) /\ run'[w].pc = "idle" /\ run'[w].outcome = "none"
  <1>1. Directed(Cim!Idle)
    BY IdleIs DEF Directed, AtItsRow, Cim!CimRequestsAssumption
  <1> QED BY <1>1, IdleIs DEF CallStep, AtItsRow, Cim!CimRequestsAssumption

LEMMA CheckDoes == ASSUME Cim!CimRequestsAssumption, CimTyped, NEW w \in Senders, Cim!Check(w) PROVE Does(w)
  <1>0. run \in [Senders -> CallSet] /\ run[w].pc = "check" /\ "lock" \in Pcs
    BY DEF CimTyped, CallsTyped, Cim!Check, Pcs
  <1>1. CallStep(w) /\ run'[w].pc \in {"idle", "lock"} /\ run'[w].outcome \in {run[w].outcome, "none"}
    <2>1. CASE Cim!Quit(w)
      BY <1>0, <2>1, QuitIs, QuitDoes
    <2>2. CASE Cim!Go(w, "lock")
      BY <1>0, <2>2, GoTurns, TurnDoes DEF AtItsRow, Turned
    <2> QED BY <2>1, <2>2 DEF Cim!Check
  <1>2. RowsDo(w) /\ MailDoes(w)
    BY <1>1, RowsRest, MailRests DEF Cim!Check
  <1>3. LocksDo(w)
    BY <1>1, LocksRest DEF Cim!Check, Inside, Sending, Late, AtItsRow
  <1>4. ClaimsDo(w)
    BY <1>1, ClaimsRest DEF Cim!Check, Sending, Late
  <1> QED BY <1>1, <1>2, <1>3, <1>4 DEF Does

LEMMA LockDoes == ASSUME Cim!CimRequestsAssumption, CimTyped, NEW w \in Senders, Cim!Lock(w) PROVE Does(w)
  <1>0. /\ run \in [Senders -> CallSet] /\ run[w].pc = "lock" /\ "read" \in Pcs /\ run[w].q \in Cim!Requests
        /\ locks \subseteq Opps \cup Rcpts
    BY DEF CimTyped, CallsTyped, RestTyped, Directed, Cim!Lock, Pcs, Inside
  <1> DEFINE o == Cim!Opp(run[w].q)
             r == Cim!Rcpt(run[w].q)
  <1>1. o \in Opps /\ r \in Rcpts /\ o \notin Rcpts
    BY <1>0, Parts DEF Cim!CimRequestsAssumption
  <1>2. /\ CallStep(w) /\ run'[w].pc \in {"idle", "read"} /\ run'[w].outcome \in {run[w].outcome, "none"}
        /\ \/ run'[w].pc = "read" /\ r \notin locks /\ locks' = locks \cup {o, r}
           \/ run'[w].pc = "idle" /\ locks' = locks \ {o}
    <2>1. CASE Cim!Quit(w) /\ locks' = locks \ {o}
      BY <1>0, <2>1, QuitIs, QuitDoes
    <2>2. CASE Cim!Go(w, "read") /\ r \notin locks /\ locks' = locks \cup {o, r}
      <3>1. Turned(w, "read") /\ run'[w].outcome = run[w].outcome
        BY <1>0, <2>2, GoTurns
      <3>2. CallStep(w)
        BY <1>0, <3>1, TurnDoes DEF AtItsRow
      <3> QED BY <2>2, <3>1, <3>2 DEF Turned
    <2> QED BY <2>1, <2>2 DEF Cim!Lock
  <1>3. RowsDo(w) /\ MailDoes(w)
    BY <1>2, RowsRest, MailRests DEF Cim!Lock
  <1>4. LocksDo(w)
    BY <1>0, <1>1, <1>2 DEF LocksDo, Inside, Sending, Late, AtItsRow
  <1>5. ClaimsDo(w)
    BY <1>2, ClaimsRest DEF Cim!Lock, Sending, Late
  <1> QED BY <1>2, <1>3, <1>4, <1>5 DEF Does

LEMMA GoDoes ==
  ASSUME Cim!CimRequestsAssumption, CimTyped, NEW w \in Senders, NEW pc \in Pcs \ {"reconcile", "idle", "close"}, Cim!Go(w, pc),
         run[w].pc # "idle", pc \in AtItsRow => run[w].pc \in AtItsRow,
         pc \in {"message", "save"} => run[w].outcome # "none"
  PROVE  CallStep(w) /\ run'[w].pc = pc /\ run'[w].outcome = run[w].outcome
  <1>1. Turned(w, pc) /\ run'[w].target = run[w].target /\ run'[w].outcome = run[w].outcome
    BY GoTurns DEF CimTyped, CallsTyped
  <1> QED BY <1>1, TurnDoes DEF Turned
LEMMA LeaveDoes ==
  ASSUME Cim!CimRequestsAssumption, CimTyped, NEW w \in Senders, NEW b \in BOOLEAN, Cim!Leave(w, b), run[w].pc # "idle"
  PROVE  CallStep(w) /\ run'[w].pc = "release" /\ run'[w].outcome = run[w].outcome
  <1>1. Turned(w, "release") /\ run'[w].outcome = run[w].outcome
    BY LeaveTurns DEF CimTyped, CallsTyped
  <1> QED BY <1>1, TurnDoes DEF Turned, AtItsRow
(* Steps between the locks that leave everything but the call and the rows. *)
LEMMA OnlyRowsDo ==
  ASSUME Cim!CimRequestsAssumption, CimTyped, NEW w \in Senders, CallStep(w), RowsDo(w), run[w].pc \in Inside,
         UNCHANGED <<communications, claims, locks, written, pursue>>,
         run'[w].outcome \in {run[w].outcome, "none"},
         run'[w].pc \in Sending => run[w].pc \in Sending, run'[w].pc \in Late => run[w].pc \in Late
  PROVE  Does(w)
  BY MailRests, LocksRest, ClaimsRest DEF Does

LEMMA ReadDoes == ASSUME Cim!CimRequestsAssumption, CimTyped, NEW w \in Senders, Cim!Read(w) PROVE Does(w)
  <1>0. run \in [Senders -> CallSet] /\ run[w].pc = "read" /\ run[w].q \in Cim!Requests
    BY DEF CimTyped, CallsTyped, Directed, Cim!Read
  <1>1. CallStep(w) /\ run'[w].pc \in {"release", "reconcile", "recipient"} /\ run'[w].outcome = run[w].outcome
    <2>1. CASE Cim!Leave(w, TRUE) \/ Cim!Leave(w, FALSE)
      BY <1>0, <2>1, LeaveDoes
    <2>2. CASE Cim!Go(w, "recipient")
      BY <1>0, <2>2, GoDoes DEF Pcs, Inside, Sending, Late, AtItsRow
    <2>3. ASSUME NEW p \in Cim!Blocking(w) \cup {run[w].q}, Cim!Proof(p),
                 run' = [run EXCEPT ![w].pc = "reconcile", ![w].target = p, ![w].fresh = TRUE]
          PROVE  CallStep(w) /\ run'[w].pc = "reconcile" /\ run'[w].outcome = run[w].outcome
      <3> DEFINE d == [run[w] EXCEPT !.pc = "reconcile", !.target = p, !.fresh = TRUE]
      <3>1. p \in Cim!Requests
        BY <1>0 DEF Cim!Blocking, Cim!Others
      <3>2. d \in CallSet
        BY <1>0, <3>1, CallRow DEF Pcs, Inside
      <3>3. /\ d.pc = "reconcile" /\ d.kind = run[w].kind /\ d.q = run[w].q /\ d.from = run[w].from
            /\ d.target = p /\ d.outcome = run[w].outcome
        BY <1>0 DEF CallSet
      <3>4. run' = [run EXCEPT ![w] = d]
        BY <2>3
      <3> HIDE DEF d
      <3>5. run' \in [Senders -> CallSet] /\ run'[w] = d /\ OthersSame(w)
        BY <1>0, <3>2, <3>4, OneCall
      <3>6. Directed(run[w])
        BY DEF CimTyped, CallsTyped
      <3>7. Directed(d)
        BY <1>0, <3>1, <3>3, <3>6 DEF Directed, AtItsRow
      <3> QED BY <1>0, <2>3, <3>3, <3>5, <3>7 DEF CallStep, AtItsRow
    <2> QED BY <2>1, <2>2, <2>3 DEF Cim!Read
  <1>2. RowsDo(w)
    BY RowsRest DEF Cim!Read
  <1> QED BY <1>0, <1>1, <1>2, OnlyRowsDo DEF Cim!Read, Inside, Sending, Late

LEMMA FinalizedDoes ==
  ASSUME Cim!CimRequestsAssumption, CimTyped, NEW w \in Senders, run[w].pc \in Inside, run[w].target \in Cim!Requests,
         NEW s \in {"sent", "delivery_issue", "failed", "ambiguous"},
         Cim!Finalize(w, s, [run[w] EXCEPT !.pc = "release"]),
         s = "delivery_issue" => MayBounce(w, run[w].target),
         Accepted(s) => MaySay(w, run[w].target)
  PROVE  CallStep(w) /\ RowsDo(w) /\ run'[w].pc = "release" /\ run'[w].outcome = run[w].outcome
  <1> DEFINE q == run[w].target
             row == Cim!Settled(requests[q], s)
  <1>1. RowsTyped /\ run \in [Senders -> CallSet] /\ requests[q] \in RowSet
    BY DEF CimTyped, CallsTyped, RowsTyped
  <1>2. /\ Turned(w, "release") /\ run'[w].outcome = run[w].outcome
        /\ UNCHANGED requests \/ RowWritten(q, row)
    BY <1>1, FinalizeDoes
  <1>3. row.status = s /\ (row.delivery = "bounced" <=> s = "delivery_issue")
    BY <1>1, SettledRow
  <1>4. run[w].pc # "idle"
    BY DEF Inside, Sending, Late, AtItsRow
  <1>5. CallStep(w)
    BY <1>2, <1>4, TurnDoes DEF AtItsRow
  <1> HIDE DEF row
  <1>6. RowsDo(w)
    BY <1>2, <1>3, RowsRest, RowsWrittenDo
  <1> QED BY <1>2, <1>5, <1>6 DEF Turned

LEMMA ReconcileDoes == ASSUME Cim!CimRequestsAssumption, CimTyped, NEW w \in Senders, Cim!Reconcile(w) PROVE Does(w)
  <1> DEFINE q == run[w].target
  <1>1. run[w].pc = "reconcile" /\ q \in Cim!Requests /\ run[w].pc \in Inside
    BY DEF CimTyped, CallsTyped, Directed, Cim!Reconcile, Inside
  <1>2. /\ Cim!Proven(q) \in {"sent", "delivery_issue"}
        /\ Cim!Proven(q) = "delivery_issue" => MayBounce(w, q)
        /\ MaySay(w, q)
    BY <1>1 DEF Cim!Proven, MayBounce, MaySay
  <1>3. CallStep(w) /\ RowsDo(w) /\ run'[w].pc = "release" /\ run'[w].outcome = run[w].outcome
    BY <1>1, <1>2, FinalizedDoes DEF Cim!Reconcile
  <1> QED BY <1>1, <1>3, OnlyRowsDo DEF Cim!Reconcile, Sending, Late

LEMMA ClaimRecipientDoes ==
  ASSUME Cim!CimRequestsAssumption, CimTyped, NEW w \in Senders, Cim!ClaimRecipient(w) PROVE Does(w)
  <1>1. run[w].pc = "recipient" /\ run[w].pc \in Inside /\ run[w].pc # "idle"
    BY DEF Cim!ClaimRecipient, Inside
  <1>2. CallStep(w) /\ run'[w].pc \in {"release", "opportunity"} /\ run'[w].outcome = run[w].outcome
    <2>1. CASE Cim!Leave(w, FALSE)
      BY <1>1, <2>1, LeaveDoes
    <2>2. CASE Cim!Go(w, "opportunity")
      BY <1>1, <2>2, GoDoes DEF Pcs, Inside, Sending, Late, AtItsRow
    <2> QED BY <2>1, <2>2 DEF Cim!ClaimRecipient
  <1>3. RowsDo(w)
    BY RowsRest DEF Cim!ClaimRecipient
  <1> QED BY <1>1, <1>2, <1>3, OnlyRowsDo DEF Cim!ClaimRecipient, Sending, Late

LEMMA ClaimOpportunityDoes ==
  ASSUME Cim!CimRequestsAssumption, CimTyped, NEW w \in Senders, Cim!ClaimOpportunity(w) PROVE Does(w)
  <1> DEFINE q == run[w].q
             o == Cim!Opp(q)
  <1>1. /\ run[w].pc = "opportunity" /\ run[w].pc \in Inside /\ run[w].pc # "idle" /\ q \in Cim!Requests
        /\ claims \in [Opps -> Cim!Requests \cup {Cim!None}]
    BY DEF Cim!ClaimOpportunity, Inside, CimTyped, CallsTyped, RestTyped, Directed
  <1>2. o \in Opps
    BY <1>1, Parts
  <1>3. /\ CallStep(w) /\ run'[w].pc \in {"release", "recheck"} /\ run'[w].outcome = run[w].outcome
        /\ \/ run'[w].pc = "release" /\ claims' = claims
           \/ Cim!MayOwn(w) /\ claims' = [claims EXCEPT ![o] = q]
    <2>1. CASE ~Cim!MayOwn(w)
      <3>1. PICK b \in BOOLEAN : Cim!Leave(w, b)
        BY <2>1 DEF Cim!ClaimOpportunity
      <3> QED BY <1>1, <2>1, <3>1, LeaveDoes DEF Cim!ClaimOpportunity
    <2>2. CASE Cim!MayOwn(w)
      <3>1. "recheck" \in Pcs /\ "recheck" \notin AtItsRow /\ "recheck" \notin {"message", "save", "reconcile", "idle"}
        BY DEF Pcs, Inside, Sending, Late, AtItsRow
      <3>2. Cim!Go(w, "recheck")
        BY <2>2 DEF Cim!ClaimOpportunity
      <3> QED BY <1>1, <2>2, <3>1, <3>2, GoDoes DEF Cim!ClaimOpportunity
    <2> QED BY <2>1, <2>2
  <1>4. RowsDo(w) /\ MailDoes(w)
    BY <1>3, RowsRest, MailRests DEF Cim!ClaimOpportunity
  <1>5. LocksDo(w)
    BY <1>1, LocksRest DEF Cim!ClaimOpportunity
  <1>6. ClaimsDo(w)
    BY <1>1, <1>2, <1>3 DEF ClaimsDo, Cim!ClaimOpportunity, Sending, Late
  <1> QED BY <1>3, <1>4, <1>5, <1>6 DEF Does

LEMMA RecheckDoes == ASSUME Cim!CimRequestsAssumption, CimTyped, NEW w \in Senders, Cim!Recheck(w) PROVE Does(w)
  <1> DEFINE q == run[w].q
             o == Cim!Opp(q)
  <1>1. /\ run[w].pc = "recheck" /\ run[w].pc \in Inside /\ run[w].pc # "idle" /\ q \in Cim!Requests
        /\ claims \in [Opps -> Cim!Requests \cup {Cim!None}] /\ pursue \in [Opps -> {"none", "decided", "mailed"}]
    BY DEF Cim!Recheck, Inside, Sending, CimTyped, CallsTyped, RestTyped, Directed
  <1>2. o \in Opps
    BY <1>1, Parts
  <1>3. /\ CallStep(w) /\ run'[w].pc \in {"release", "row"} /\ run'[w].outcome = run[w].outcome
        /\ \/ run'[w].pc = "row" /\ claims' = claims /\ pursue[o] = "none"
           \/ run'[w].pc = "release" /\ claims' = claims
           \/ /\ run'[w].pc = "release" /\ claims' = [claims EXCEPT ![o] = Cim!None]
              /\ requests[q].status = "none" /\ claims[o] = q
    <2>1. CASE Cim!PursueOwns(o)
      <3>1. Cim!Leave(w, FALSE)
        BY <2>1 DEF Cim!Recheck
      <3> QED BY <1>1, <2>1, <3>1, LeaveDoes DEF Cim!Recheck
    <2>2. CASE ~Cim!PursueOwns(o)
      <3>1. "row" \in Pcs /\ "row" \notin AtItsRow /\ "row" \notin {"message", "save", "reconcile", "idle"}
        BY DEF Pcs, Inside, Sending, Late, AtItsRow
      <3>2. Cim!Go(w, "row")
        BY <2>2 DEF Cim!Recheck
      <3> QED BY <1>1, <2>2, <3>1, <3>2, GoDoes DEF Cim!Recheck, Cim!PursueOwns
    <2> QED BY <2>1, <2>2
  <1>4. RowsDo(w) /\ MailDoes(w)
    BY <1>3, RowsRest, MailRests DEF Cim!Recheck
  <1>5. LocksDo(w)
    BY <1>1, LocksRest DEF Cim!Recheck
  <1>6. ClaimsDo(w)
    BY <1>1, <1>2, <1>3 DEF ClaimsDo, Gives, Cim!Recheck, Sending, Late
  <1> QED BY <1>3, <1>4, <1>5, <1>6 DEF Does

(* A call that writes a row and goes on. *)
LEMMA WriteDoes ==
  ASSUME Cim!CimRequestsAssumption, CimTyped, NEW w \in Senders, NEW d \in CallSet, NEW row,
         Cim!Write(w, run[w].q, row, d), run[w].pc # "idle", row \in RowSet, row.status # "none",
         row.stale => row.status = "pending",
         Cim!Completed(run[w].q) => row.status \in {"sent", "delivery_issue", "ambiguous"},
         row.delivery = "bounced" => MayBounce(w, run[w].q),
         Accepted(row.status) => MaySay(w, run[w].q),
         d.pc \in Pcs \ {"idle", "reconcile", "message", "save", "close"}, d.kind = run[w].kind, d.q = run[w].q,
         d.from = run[w].from, d.target = run[w].q, d.outcome = run[w].outcome
  PROVE  CallStep(w) /\ RowsDo(w) /\ run'[w].pc = d.pc /\ run'[w].outcome = run[w].outcome
  <1> DEFINE q == run[w].q
  <1>1. run \in [Senders -> CallSet] /\ requests \in [Cim!Requests -> RowSet] /\ Directed(run[w]) /\ q \in Cim!Requests
    BY DEF CimTyped, CallsTyped, RowsTyped, Directed
  <1>2. /\ requests' = [requests EXCEPT ![q] = row]
        /\ run' \in [Senders -> CallSet] /\ run'[w] = d /\ OthersSame(w)
    BY <1>1, OneWrite
  <1>3. requests'[q].status # "none"
    BY <1>1, <1>2
  <1>4. Directed(d)
    BY <1>1 DEF Directed
  <1>5. CallStep(w)
    BY <1>2, <1>3, <1>4 DEF CallStep
  <1>6. RowWritten(q, row)
    BY <1>2 DEF RowWritten
  <1>7. RowsDo(w)
    BY <1>1, <1>6, RowsWrittenDo
  <1> QED BY <1>2, <1>5, <1>7

LEMMA ClaimRequestDoes ==
  ASSUME Cim!CimRequestsAssumption, CimTyped, NEW w \in Senders, Cim!ClaimRequest(w) PROVE Does(w)
  <1> DEFINE q == run[w].q
             row == [requests[q] EXCEPT !.status = "pending", !.stale = FALSE]
             d == [run[w] EXCEPT !.pc = "prepare", !.target = q, !.fresh = TRUE]
             free == IF requests[q].status = "none" THEN ~Cim!InTheWay(w) ELSE Cim!Takeable(q)
             parent == run[w].from = Cim!None \/ Cim!Retryable(run[w].from)
  <1>1. /\ run \in [Senders -> CallSet] /\ requests[q] \in RowSet /\ Consistent(requests[q]) /\ q \in Cim!Requests
        /\ run[w].pc = "row" /\ run[w].pc \in Inside /\ run[w].pc # "idle"
    BY DEF CimTyped, CallsTyped, RowsTyped, Directed, Cim!ClaimRequest, Inside, Sending, Late
  <1>2. CallStep(w) /\ RowsDo(w) /\ run'[w].pc \in {"release", "prepare"} /\ run'[w].outcome = run[w].outcome
    <2>1. CASE ~Cim!Archived(Cim!Opp(q)) /\ parent /\ free
      <3>1. Cim!Write(w, q, row, d)
        BY <2>1 DEF Cim!ClaimRequest
      <3>2. /\ row \in RowSet /\ row.status = "pending" /\ ~row.stale
            /\ row.delivery = requests[q].delivery
        BY <1>1 DEF RowSet, Statuses
      <3>3. ~Cim!Completed(q)
        BY <1>1, <2>1 DEF Cim!Takeable, Cim!Completed, Consistent
      <3>4. d \in CallSet
        BY <1>1, CallRow DEF Pcs, Inside, Sending, Late
      <3>5. /\ d.pc = "prepare" /\ d.kind = run[w].kind /\ d.q = q /\ d.from = run[w].from
            /\ d.target = q /\ d.outcome = run[w].outcome
        BY <1>1 DEF CallSet
      <3>6. "prepare" \in Pcs
        BY DEF Pcs, Inside, Sending, Late
      <3> HIDE DEF row, d
      <3> QED BY <1>1, <3>1, <3>2, <3>3, <3>4, <3>5, <3>6, WriteDoes DEF MayBounce, Accepted
    <2>2. CASE ~(~Cim!Archived(Cim!Opp(q)) /\ parent /\ free)
      <3>1. UNCHANGED requests /\ \E b \in BOOLEAN : Cim!Leave(w, b)
        BY <2>2 DEF Cim!ClaimRequest
      <3> QED BY <1>1, <3>1, LeaveDoes, RowsRest
    <2> QED BY <2>1, <2>2
  <1> QED BY <1>1, <1>2, OnlyRowsDo DEF Cim!ClaimRequest, Sending, Late

LEMMA PrepareDoes ==
  ASSUME Cim!CimRequestsAssumption, CimTyped, NEW w \in Senders, Cim!Prepare(w) PROVE Does(w)
  <1> DEFINE q == run[w].q
  <1>1. /\ run[w].pc = "prepare" /\ run[w].pc \in Inside /\ run[w].pc # "idle" /\ run[w].pc \in AtItsRow
        /\ q \in Cim!Requests /\ run[w].target = q /\ communications \in [Cim!Requests -> Messages]
    BY DEF CimTyped, CallsTyped, RestTyped, Directed, Cim!Prepare, Inside, Sending, Late, AtItsRow
  <1>2. ASSUME Cim!Go(w, "renew")
        PROVE  CallStep(w) /\ run'[w].pc = "renew" /\ run'[w].outcome = run[w].outcome
    BY <1>1, <1>2, GoDoes DEF Pcs, Inside, Sending, Late
  <1>3. ASSUME Cim!Finalize(w, "failed", [run[w] EXCEPT !.pc = "release"])
        PROVE  CallStep(w) /\ RowsDo(w) /\ run'[w].pc = "release" /\ run'[w].outcome = run[w].outcome
    BY <1>1, <1>3, FinalizedDoes DEF Accepted
  <1>4. ASSUME Cim!Proof(q), Cim!Finalize(w, Cim!Proven(q), [run[w] EXCEPT !.pc = "release"])
        PROVE  CallStep(w) /\ RowsDo(w) /\ run'[w].pc = "release" /\ run'[w].outcome = run[w].outcome
    <2>1. /\ Cim!Proven(q) \in {"sent", "delivery_issue"} /\ MaySay(w, q)
          /\ Cim!Proven(q) = "delivery_issue" => MayBounce(w, q)
      BY <1>4 DEF Cim!Proven, MayBounce, MaySay
    <2> QED BY <1>1, <1>4, <2>1, FinalizedDoes
  <1>5. /\ CallStep(w) /\ RowsDo(w) /\ run'[w].pc \in {"renew", "release"}
        /\ run'[w].outcome = run[w].outcome
    BY <1>2, <1>3, <1>4, RowsRest DEF Cim!Prepare
  <1>6. \/ communications' = communications
        \/ communications[q] = "none" /\ communications' = [communications EXCEPT ![q] = "prepared"]
    BY DEF Cim!Prepare
  <1>7. MailDoes(w)
    BY <1>1, <1>5, <1>6 DEF MailDoes, Cim!Prepare, CimTyped, RestTyped, Messages, Cim!Proof
  <1>8. LocksDo(w) /\ ClaimsDo(w)
    BY <1>1, <1>5, LocksRest, ClaimsRest DEF Cim!Prepare, Sending, Late
  <1> QED BY <1>5, <1>7, <1>8 DEF Does

LEMMA RenewDoes == ASSUME Cim!CimRequestsAssumption, CimTyped, NEW w \in Senders, Cim!Renew(w) PROVE Does(w)
  <1> DEFINE q == run[w].q
             row == [requests[q] EXCEPT !.stale = FALSE]
             d == [run[w] EXCEPT !.pc = "final", !.fresh = TRUE]
  <1>1. /\ run \in [Senders -> CallSet] /\ requests[q] \in RowSet /\ q \in Cim!Requests
        /\ run[w].pc = "renew" /\ run[w].pc \in Inside /\ run[w].pc # "idle" /\ run[w].target = q
    BY DEF CimTyped, CallsTyped, RowsTyped, Directed, Cim!Renew, Inside, Sending, Late, AtItsRow
  <1>2. CallStep(w) /\ RowsDo(w) /\ run'[w].pc \in {"release", "final"} /\ run'[w].outcome = run[w].outcome
    <2>1. CASE Cim!Held(w, {"pending"})
      <3>1. Cim!Write(w, q, row, d)
        BY <2>1 DEF Cim!Renew
      <3>2. /\ row \in RowSet /\ row.status = "pending" /\ ~row.stale
            /\ row.delivery = requests[q].delivery
        BY <1>1, <2>1 DEF RowSet, Cim!Held
      <3>3. ~Cim!Completed(q)
        BY <1>1, <2>1 DEF Cim!Held, Cim!Completed
      <3>4. d \in CallSet
        BY <1>1, CallRow DEF Pcs, Inside, Sending, Late
      <3>5. /\ d.pc = "final" /\ d.kind = run[w].kind /\ d.q = q /\ d.from = run[w].from
            /\ d.target = q /\ d.outcome = run[w].outcome
        BY <1>1 DEF CallSet
      <3>6. "final" \in Pcs
        BY DEF Pcs, Inside, Sending, Late
      <3> HIDE DEF row, d
      <3> QED BY <1>1, <3>1, <3>2, <3>3, <3>4, <3>5, <3>6, WriteDoes DEF MayBounce, Accepted
    <2>2. CASE ~Cim!Held(w, {"pending"})
      BY <1>1, <2>2, LeaveDoes, RowsRest DEF Cim!Renew
    <2> QED BY <2>1, <2>2
  <1> QED BY <1>1, <1>2, OnlyRowsDo DEF Cim!Renew, Sending, Late

LEMMA FinalDoes == ASSUME Cim!CimRequestsAssumption, CimTyped, NEW w \in Senders, Cim!Final(w) PROVE Does(w)
  <1>1. /\ run[w].pc = "final" /\ run[w].pc \in Inside /\ run[w].pc # "idle" /\ run[w].pc \in AtItsRow
        /\ run[w].target = run[w].q /\ run[w].q \in Cim!Requests
    BY DEF CimTyped, CallsTyped, Directed, Cim!Final, Inside, Sending, Late, AtItsRow
  <1>2. ASSUME Cim!Go(w, "send")
        PROVE  CallStep(w) /\ run'[w].pc = "send" /\ run'[w].outcome = run[w].outcome
    BY <1>1, <1>2, GoDoes DEF Pcs, Inside, Sending, Late
  <1>3. ASSUME Cim!Finalize(w, "failed", [run[w] EXCEPT !.pc = "release"])
        PROVE  CallStep(w) /\ RowsDo(w) /\ run'[w].pc = "release" /\ run'[w].outcome = run[w].outcome
    BY <1>1, <1>3, FinalizedDoes DEF Accepted
  <1>4. /\ CallStep(w) /\ RowsDo(w) /\ run'[w].pc \in {"send", "release"}
        /\ run'[w].outcome = run[w].outcome
    BY <1>2, <1>3, RowsRest DEF Cim!Final
  <1> QED BY <1>1, <1>4, OnlyRowsDo DEF Cim!Final, Sending, Late

LEMMA SendDoes == ASSUME Cim!CimRequestsAssumption, CimTyped, NEW w \in Senders, Cim!Send(w) PROVE Does(w)
  <1> DEFINE q == run[w].q
  <1>1. /\ run \in [Senders -> CallSet] /\ run[w].pc = "send" /\ run[w].pc \in Inside /\ run[w].pc \in AtItsRow
        /\ run[w].target = q /\ q \in Cim!Requests /\ written \in [Cim!Requests -> {"no", "out", "bounced"}]
    BY DEF CimTyped, CallsTyped, RestTyped, Directed, Cim!Send, Inside, Sending, Late, AtItsRow
  <1>2. PICK outcome \in Reports :
          /\ run' = [run EXCEPT ![w].pc = "message", ![w].outcome = outcome]
          /\ \/ /\ outcome # "failed" /\ written[q] = "no"
                /\ written' = [written EXCEPT ![q] = "out"]
             \/ /\ outcome # "sent" \/ written[q] # "no"
                /\ written' = written
    BY DEF Cim!Send
  <1> DEFINE d == [run[w] EXCEPT !.pc = "message", !.outcome = outcome]
  <1>3. d \in CallSet /\ outcome \in {"sent", "failed", "ambiguous"}
    BY <1>1, CallRow DEF Cim!CimRequestsAssumption, Pcs, Inside, AtItsRow
  <1>4. /\ d.pc = "message" /\ d.kind = run[w].kind /\ d.q = q /\ d.from = run[w].from
        /\ d.target = q /\ d.outcome = outcome
    BY <1>1 DEF CallSet
  <1>5. run' = [run EXCEPT ![w] = d]
    BY <1>2
  <1> HIDE DEF d
  <1>6. run' \in [Senders -> CallSet] /\ run'[w] = d /\ OthersSame(w)
    BY <1>1, <1>3, <1>5, OneCall
  <1>7. Turned(w, "message") /\ run'[w].target = q /\ run'[w].outcome = outcome
    BY <1>4, <1>6 DEF Turned
  <1>8. CallStep(w)
    BY <1>1, <1>3, <1>7, TurnDoes
  <1>9. RowsDo(w)
    BY RowsRest DEF Cim!Send
  <1>10. MailDoes(w)
    <2>1. written' \in [Cim!Requests -> {"no", "out", "bounced"}]
      BY <1>1, <1>2
    <2>2. \A p \in Cim!Requests : \/ written'[p] = written[p]
                                  \/ p = q /\ written[p] = "no" /\ written'[p] = "out"
      BY <1>1, <1>2
    <2>3. outcome = "sent" => written'[q] # "no"
      BY <1>1, <1>2
    <2>4. communications' = communications /\ communications \in [Cim!Requests -> Messages]
      BY DEF Cim!Send, CimTyped, RestTyped
    <2> QED BY <1>1, <1>7, <2>1, <2>2, <2>3, <2>4 DEF MailDoes, Cim!Proof, Turned
  <1>11. LocksDo(w) /\ ClaimsDo(w)
    BY <1>1, <1>7, LocksRest, ClaimsRest DEF Cim!Send, Turned, Sending, Late
  <1> QED BY <1>8, <1>9, <1>10, <1>11 DEF Does

LEMMA SaveMessageDoes ==
  ASSUME Cim!CimRequestsAssumption, CimTyped, NEW w \in Senders, Cim!SaveMessage(w) PROVE Does(w)
  <1> DEFINE q == run[w].q
             answer == Cim!Answered(run[w].outcome)
  <1>1. /\ run[w].pc = "message" /\ run[w].pc \in Inside /\ run[w].pc \in AtItsRow
        /\ q \in Cim!Requests /\ run[w].outcome \in {"sent", "failed", "ambiguous"}
        /\ communications \in [Cim!Requests -> Messages]
    BY DEF CimTyped, CallsTyped, RestTyped, Directed, Cim!SaveMessage, Inside, Sending, Late, AtItsRow, CallSet
  <1>2. CallStep(w) /\ run'[w].pc = "save" /\ run'[w].outcome = run[w].outcome
    <2>1. "save" \in Pcs \ {"reconcile", "idle", "close"} /\ run[w].pc # "idle"
      BY DEF Pcs, Inside, AtItsRow, Cim!SaveMessage
    <2> QED BY <1>1, <2>1, GoDoes DEF Cim!SaveMessage
  <1>3. RowsDo(w)
    BY RowsRest DEF Cim!SaveMessage
  <1>4. /\ answer \in {"accepted", "failed", "ambiguous"}
        /\ answer = "accepted" => run[w].outcome = "sent"
    BY <1>1 DEF Cim!Answered
  <1>5. communications' \in {communications, [communications EXCEPT ![q] = answer]}
    BY DEF Cim!SaveMessage
  <1> HIDE DEF answer
  <1>6. MailDoes(w)
    <2>1. communications' \in [Cim!Requests -> Messages]
      BY <1>1, <1>4, <1>5 DEF Messages
    <2>2. \A p \in Cim!Requests : \/ communications'[p] = communications[p]
                                  \/ p = q /\ communications'[p] = answer
      BY <1>1, <1>5
    <2>3. written' = written /\ written \in [Cim!Requests -> {"no", "out", "bounced"}]
      BY DEF Cim!SaveMessage, CimTyped, RestTyped
    <2> QED BY <1>2, <1>4, <2>1, <2>2, <2>3 DEF MailDoes, Cim!Proof
  <1>7. LocksDo(w) /\ ClaimsDo(w)
    BY <1>1, <1>2, LocksRest, ClaimsRest DEF Cim!SaveMessage, Sending, Late
  <1> QED BY <1>2, <1>3, <1>6, <1>7 DEF Does

LEMMA SaveRequestDoes ==
  ASSUME Cim!CimRequestsAssumption, CimTyped, NEW w \in Senders, Cim!SaveRequest(w) PROVE Does(w)
  <1> DEFINE q == run[w].q
             row == Cim!Settled(requests[q], run[w].outcome)
             d == [run[w] EXCEPT !.pc = "release",
                                 !.again = run[w].kind = "approved" /\ run[w].outcome = "sent" /\ ~run[w].again]
  <1>1. /\ run \in [Senders -> CallSet] /\ requests[q] \in RowSet /\ q \in Cim!Requests
        /\ run[w].pc = "save" /\ run[w].pc \in Inside /\ run[w].pc # "idle" /\ run[w].target = q
        /\ run[w].outcome \in {"sent", "failed", "ambiguous"}
    BY DEF CimTyped, CallsTyped, RowsTyped, Directed, Cim!SaveRequest, Inside, Sending, Late, AtItsRow, CallSet
  <1>2. CallStep(w) /\ RowsDo(w) /\ run'[w].pc = "release" /\ run'[w].outcome = run[w].outcome
    <2>1. CASE Cim!Held(w, {"pending"})
      <3>1. Cim!Write(w, q, row, Cim!Left(w))
        BY <2>1 DEF Cim!SaveRequest
      <3>2. /\ row \in RowSet /\ row.status = run[w].outcome /\ ~row.stale
            /\ row.delivery # "bounced"
        BY <1>1, SettledRow
      <3>3. ~Cim!Completed(q)
        BY <1>1, <2>1 DEF Cim!Held, Cim!Completed
      <3>4. Cim!Left(w) \in CallSet
        BY <1>1, CallRow DEF Cim!Left, Pcs, Inside, Sending, Late
      <3>5. /\ Cim!Left(w).pc = "release" /\ Cim!Left(w).kind = run[w].kind /\ Cim!Left(w).q = q
            /\ Cim!Left(w).from = run[w].from /\ Cim!Left(w).target = q /\ Cim!Left(w).outcome = run[w].outcome
        BY <1>1 DEF Cim!Left, CallSet
      <3>6. "release" \in Pcs \ {"idle", "reconcile", "message", "save", "close"}
        BY DEF Pcs, Inside, Sending, Late
      <3>7. Accepted(row.status) => MaySay(w, q)
        BY <1>1, <3>2 DEF Accepted, MaySay
      <3> HIDE DEF row
      <3> QED BY <1>1, <3>1, <3>2, <3>3, <3>4, <3>5, <3>6, <3>7, WriteDoes
    <2>2. CASE ~Cim!Held(w, {"pending"})
      <3>1. run' = [run EXCEPT ![w] = d] /\ UNCHANGED requests
        BY <2>2 DEF Cim!SaveRequest
      <3>2. d \in CallSet
        BY <1>1, CallRow DEF Pcs, Inside
      <3>3. /\ d.pc = "release" /\ d.kind = run[w].kind /\ d.q = q /\ d.from = run[w].from
            /\ d.outcome = run[w].outcome
        BY <1>1 DEF CallSet
      <3> HIDE DEF d
      <3>4. Turned(w, "release") /\ run'[w].outcome = run[w].outcome
        BY <1>1, <3>1, <3>2, <3>3, OneCall DEF Turned
      <3>5. CallStep(w)
        BY <1>1, <3>4, TurnDoes DEF AtItsRow
      <3> QED BY <3>1, <3>4, <3>5, RowsRest DEF Turned
    <2> QED BY <2>1, <2>2
  <1> QED BY <1>1, <1>2, OnlyRowsDo DEF Cim!SaveRequest, Sending, Late

LEMMA ReleaseDoes == ASSUME Cim!CimRequestsAssumption, CimTyped, NEW w \in Senders, Cim!Release(w) PROVE Does(w)
  <1> DEFINE q == run[w].q
             closing == [run[w] EXCEPT !.pc = "close"]
             again == [run[w] EXCEPT !.pc = "check", !.outcome = "none", !.fresh = FALSE]
  <1>1. /\ run \in [Senders -> CallSet] /\ q \in Cim!Requests /\ locks \subseteq Opps \cup Rcpts
        /\ run[w].pc = "release" /\ run[w].pc \in Inside /\ run[w].pc # "idle"
    BY DEF CimTyped, CallsTyped, RestTyped, Directed, Cim!Release, Inside
  <1>2. Cim!Opp(q) \notin Rcpts /\ locks' = locks \ {Cim!Opp(q), Cim!Rcpt(q)}
    BY <1>1, Parts DEF Cim!CimRequestsAssumption, Cim!Release
  <1>3. closing \in CallSet /\ again \in CallSet
    BY <1>1, CallRow DEF Pcs
  <1>4. /\ closing.pc = "close" /\ closing.kind = run[w].kind /\ closing.q = q
        /\ closing.from = run[w].from /\ closing.outcome = run[w].outcome
        /\ again.pc = "check" /\ again.kind = run[w].kind /\ again.q = q
        /\ again.from = run[w].from /\ again.outcome = "none"
    BY <1>1 DEF CallSet
  <1>5. \/ run[w].kind = "retry" /\ run' = [run EXCEPT ![w] = closing]
        \/ run' = [run EXCEPT ![w] = again]
        \/ run' = [run EXCEPT ![w] = Cim!Idle]
    BY DEF Cim!Release
  <1> HIDE DEF closing, again
  <1>6. /\ CallStep(w) /\ run'[w].pc \in {"close", "check", "idle"}
        /\ run'[w].outcome \in {run[w].outcome, "none"}
    <2>1. CASE run[w].kind = "retry" /\ run' = [run EXCEPT ![w] = closing]
      <3>1. Turned(w, "close") /\ run'[w].outcome = run[w].outcome
        BY <1>1, <1>3, <1>4, <2>1, OneCall DEF Turned
      <3> QED BY <1>1, <2>1, <3>1, TurnDoes DEF Turned, AtItsRow
    <2>2. CASE run' = [run EXCEPT ![w] = again]
      <3>1. Turned(w, "check") /\ run'[w].outcome = "none"
        BY <1>1, <1>3, <1>4, <2>2, OneCall DEF Turned
      <3> QED BY <1>1, <3>1, TurnDoes DEF Turned, AtItsRow
    <2>3. CASE run' = [run EXCEPT ![w] = Cim!Idle]
      BY <1>1, <2>3, IdleIs, OneCall, QuitDoes
    <2> QED BY <1>5, <2>1, <2>2, <2>3
  <1>7. RowsDo(w) /\ MailDoes(w)
    BY <1>6, RowsRest, MailRests DEF Cim!Release
  <1>8. LocksDo(w)
    BY <1>1, <1>2, <1>6 DEF LocksDo, Inside, Sending, Late, AtItsRow
  <1>9. ClaimsDo(w)
    BY <1>6, ClaimsRest DEF Cim!Release, Sending, Late
  <1> QED BY <1>6, <1>7, <1>8, <1>9 DEF Does

LEMMA CloseDoes == ASSUME Cim!CimRequestsAssumption, CimTyped, NEW w \in Senders, Cim!Close(w) PROVE Does(w)
  <1> DEFINE from == run[w].from
             row == [status |-> "delivery_issue", delivery |-> "bounced", closed |-> TRUE, stale |-> FALSE]
  <1>1. run \in [Senders -> CallSet] /\ from \in Cim!Requests /\ run[w].pc = "close"
    BY DEF CimTyped, CallsTyped, Directed, Cim!Close
  <1>2. CallStep(w) /\ run'[w].pc = "idle" /\ run'[w].outcome = "none" /\ RowsDo(w)
    <2>1. CASE Cim!Quit(w) /\ UNCHANGED requests
      BY <1>1, <2>1, QuitIs, QuitDoes, RowsRest
    <2>2. CASE Cim!Write(w, from, row, Cim!Idle)
      <3>1. /\ requests' = [requests EXCEPT ![from] = row]
            /\ run' \in [Senders -> CallSet] /\ run'[w] = Cim!Idle /\ OthersSame(w)
        BY <1>1, <2>2, IdleIs, OneWrite
      <3>2. RowWritten(from, row)
        BY <3>1 DEF RowWritten, RowSet, Statuses
      <3>3. RowsDo(w)
        BY <1>1, <3>2, RowsWrittenDo DEF MayBounce, MaySay
      <3> QED BY <3>1, <3>3, QuitDoes
    <2> QED BY <2>1, <2>2 DEF Cim!Close
  <1>3. MailDoes(w)
    BY <1>2, MailRests DEF Cim!Close
  <1>4. LocksDo(w) /\ ClaimsDo(w)
    BY <1>2, LocksRest, ClaimsRest DEF Cim!Close, Inside, Sending, Late, AtItsRow
  <1> QED BY <1>2, <1>3, <1>4 DEF Does

LEMMA StepDoes == ASSUME Cim!CimRequestsAssumption, CimTyped, NEW w \in Senders, Cim!Step(w) PROVE Does(w)
  BY CheckDoes, LockDoes, ReadDoes, ReconcileDoes, ClaimRecipientDoes, ClaimOpportunityDoes, RecheckDoes,
     ClaimRequestDoes, PrepareDoes, RenewDoes, FinalDoes, SendDoes, SaveMessageDoes, SaveRequestDoes,
     ReleaseDoes, CloseDoes DEF Cim!Step

-----------------------------------------------------------------------------
(* What everybody else may do: the events of delivery, the owner, the other      *)
(* system, time                                                                  *)
Around == \/ \E q \in Cim!Requests : Cim!Delivered(q) \/ Cim!Bounced(q) \/ Cim!Age(q)
          \/ \E o \in Opps : Cim!Decide(o) \/ Cim!PursueMails(o) \/ Cim!Stop("archive", o)
          \/ \E r \in Rcpts : Cim!Stop("suppress", r) \/ Cim!Expire(r)
          \/ Cim!Stop("pause", "all")
AroundDoes ==
  /\ run' \in [Senders -> CallSet] /\ \A v \in Senders : Same(run[v], run'[v])
  /\ RowsTyped' /\ Cim!StaysComplete
  /\ communications' \in [Cim!Requests -> Messages]
  /\ written' \in [Cim!Requests -> {"no", "out", "bounced"}]
  /\ pursue' \in [Opps -> {"none", "decided", "mailed"}]
  /\ claims' = claims /\ locks' = locks
  /\ \A q \in Cim!Requests :
       /\ requests[q].status # "none" => requests'[q].status # "none"
       /\ \/ written'[q] = written[q]
          \/ written[q] = "out" /\ written'[q] = "bounced"
       /\ requests'[q].delivery = "bounced" \/ communications'[q] = "bounced"
            => requests[q].delivery = "bounced" \/ communications[q] = "bounced" \/ written'[q] = "bounced"
       /\ Accepted(requests'[q].status) \/ Cim!Proof(q)'
            => Accepted(requests[q].status) \/ Cim!Proof(q) \/ written[q] # "no"
  /\ \A o \in Opps : pursue'[o] = "mailed" => pursue[o] = "mailed" \/ Cim!PursueMay(o)

LEMMA SameItself == ASSUME CimTyped, run' = run
                    PROVE run' \in [Senders -> CallSet] /\ \A v \in Senders : Same(run[v], run'[v])
  BY DEF CimTyped, CallsTyped, Same

LEMMA EventDoes ==
  ASSUME CimTyped, NEW q \in Cim!Requests, written[q] # "no", NEW state \in {"accepted", "bounced"},
         NEW status \in {"sent", "delivery_issue"}, Cim!Event(q, state, status)
  PROVE  /\ run' \in [Senders -> CallSet] /\ \A v \in Senders : Same(run[v], run'[v])
         /\ RowsTyped' /\ Cim!StaysComplete
         /\ communications' \in [Cim!Requests -> Messages]
         /\ claims' = claims /\ locks' = locks /\ pursue' = pursue
         /\ \A p \in Cim!Requests \ {q} : requests'[p] = requests[p] /\ communications'[p] = communications[p]
         /\ requests'[q].status # "none" /\ requests'[q].delivery = state /\ communications'[q] = state
  <1> DEFINE row == [requests[q] EXCEPT !.delivery = state, !.stale = FALSE,
                       !.status = IF requests[q].closed \/ Cim!Archived(Cim!Opp(q)) THEN requests[q].status ELSE status]
  <1>1. /\ requests \in [Cim!Requests -> RowSet] /\ requests[q].status # "none"
        /\ communications \in [Cim!Requests -> Messages] /\ run \in [Senders -> CallSet]
    BY DEF CimTyped, RowsTyped, RestTyped, Present, CallsTyped
  <1>2. run' \in [Senders -> CallSet] /\ \A v \in Senders : Same(run[v], run'[v])
    BY <1>1, StaleIs DEF Cim!Event
  <1>3. requests' = [requests EXCEPT ![q] = row]
    BY DEF Cim!Event
  <1>4. /\ row \in RowSet /\ row.delivery = state /\ ~row.stale /\ row.status # "none"
        /\ Cim!Completed(q) => row.status \in {"sent", "delivery_issue", "ambiguous"}
    BY <1>1 DEF RowSet, Statuses, Cim!Completed
  <1> HIDE DEF row
  <1>5. requests' \in [Cim!Requests -> RowSet] /\ requests'[q] = row
        /\ \A p \in Cim!Requests \ {q} : requests'[p] = requests[p]
    BY <1>1, <1>3, <1>4
  <1>6. RowsTyped'
    BY <1>4, <1>5 DEF CimTyped, RowsTyped, Consistent, Cim!Absent
  <1>7. Cim!StaysComplete
    BY <1>4, <1>5 DEF Cim!StaysComplete, Cim!Completed
  <1>8. /\ communications' \in [Cim!Requests -> Messages] /\ communications'[q] = state
        /\ \A p \in Cim!Requests \ {q} : communications'[p] = communications[p]
    BY <1>1 DEF Cim!Event, Messages
  <1> QED BY <1>2, <1>4, <1>5, <1>6, <1>7, <1>8 DEF Cim!Event

LEMMA AroundIs == ASSUME Cim!CimRequestsAssumption, CimTyped, Around PROVE AroundDoes
  <1>1. /\ communications \in [Cim!Requests -> Messages] /\ written \in [Cim!Requests -> {"no", "out", "bounced"}]
        /\ pursue \in [Opps -> {"none", "decided", "mailed"}] /\ RowsTyped
    BY DEF CimTyped, RestTyped
  <1>2. ASSUME NEW q \in Cim!Requests, Cim!Delivered(q) PROVE AroundDoes
    <2>1. written[q] = "out" /\ written' = written /\ Cim!Event(q, "accepted", "sent")
      BY <1>2 DEF Cim!Delivered
    <2>2. /\ run' \in [Senders -> CallSet] /\ \A v \in Senders : Same(run[v], run'[v])
          /\ RowsTyped' /\ Cim!StaysComplete
          /\ communications' \in [Cim!Requests -> Messages]
          /\ claims' = claims /\ locks' = locks /\ pursue' = pursue
          /\ \A p \in Cim!Requests \ {q} : requests'[p] = requests[p] /\ communications'[p] = communications[p]
          /\ requests'[q].status # "none" /\ requests'[q].delivery = "accepted" /\ communications'[q] = "accepted"
      BY <2>1, EventDoes
    <2> QED BY <1>1, <2>1, <2>2 DEF AroundDoes, Cim!Proof
  <1>3. ASSUME NEW q \in Cim!Requests, Cim!Bounced(q) PROVE AroundDoes
    <2>1. written[q] = "out" /\ written' = [written EXCEPT ![q] = "bounced"] /\ Cim!Event(q, "bounced", "delivery_issue")
      BY <1>3 DEF Cim!Bounced
    <2>2. /\ run' \in [Senders -> CallSet] /\ \A v \in Senders : Same(run[v], run'[v])
          /\ RowsTyped' /\ Cim!StaysComplete
          /\ communications' \in [Cim!Requests -> Messages]
          /\ claims' = claims /\ locks' = locks /\ pursue' = pursue
          /\ \A p \in Cim!Requests \ {q} : requests'[p] = requests[p] /\ communications'[p] = communications[p]
          /\ requests'[q].status # "none"
      BY <2>1, EventDoes
    <2>3. /\ written' \in [Cim!Requests -> {"no", "out", "bounced"}] /\ written'[q] = "bounced"
          /\ \A p \in Cim!Requests \ {q} : written'[p] = written[p]
      BY <1>1, <2>1
    <2> QED BY <1>1, <2>1, <2>2, <2>3 DEF AroundDoes, Cim!Proof
  <1>4. ASSUME NEW q \in Cim!Requests, Cim!Age(q) PROVE AroundDoes
    <2> DEFINE row == [requests[q] EXCEPT !.stale = TRUE]
    <2>1. requests' = [requests EXCEPT ![q] = row] /\ requests[q].status = "pending"
          /\ requests[q] \in RowSet
      BY <1>1, <1>4 DEF Cim!Age, Cim!RecentPending, RowsTyped
    <2>2. row \in RowSet /\ row.status = "pending" /\ row.delivery = requests[q].delivery
      BY <2>1 DEF RowSet
    <2> HIDE DEF row
    <2>3. /\ requests' \in [Cim!Requests -> RowSet] /\ requests'[q] = row
          /\ \A p \in Cim!Requests \ {q} : requests'[p] = requests[p]
      BY <1>1, <2>1, <2>2 DEF RowsTyped
    <2>4. RowsTyped' /\ Cim!StaysComplete
      BY <1>1, <2>1, <2>2, <2>3 DEF RowsTyped, Consistent, Cim!Absent, Cim!StaysComplete, Cim!Completed
    <2>5. /\ communications' = communications /\ claims' = claims /\ locks' = locks
          /\ written' = written /\ pursue' = pursue /\ run' = run
      BY <1>4 DEF Cim!Age
    <2> QED BY <1>1, <2>1, <2>2, <2>3, <2>4, <2>5, SameItself DEF AroundDoes, Cim!Proof, Accepted
  <1>5. ASSUME UNCHANGED <<requests, communications, claims, locks, written, run>>,
               pursue' \in [Opps -> {"none", "decided", "mailed"}],
               \A o \in Opps : pursue'[o] = "mailed" => pursue[o] = "mailed" \/ Cim!PursueMay(o)
        PROVE  AroundDoes
    BY <1>1, <1>5, SameItself DEF AroundDoes, Cim!Proof, RowsTyped, Cim!StaysComplete, Cim!Completed, Consistent
  <1>6. ASSUME NEW o \in Opps, Cim!Decide(o) PROVE AroundDoes
    <2>1. pursue' = [pursue EXCEPT ![o] = "decided"]
      BY <1>6 DEF Cim!Decide
    <2>2. /\ pursue' \in [Opps -> {"none", "decided", "mailed"}]
          /\ \A p \in Opps : pursue'[p] = "mailed" => pursue[p] = "mailed" \/ Cim!PursueMay(p)
      BY <1>1, <2>1
    <2> QED BY <1>5, <1>6, <2>2 DEF Cim!Decide
  <1>7. ASSUME NEW o \in Opps, Cim!PursueMails(o) PROVE AroundDoes
    <2>1. pursue' = [pursue EXCEPT ![o] = "mailed"] /\ Cim!PursueMay(o)
      BY <1>7 DEF Cim!PursueMails
    <2>2. /\ pursue' \in [Opps -> {"none", "decided", "mailed"}]
          /\ \A p \in Opps : pursue'[p] = "mailed" => pursue[p] = "mailed" \/ Cim!PursueMay(p)
      BY <1>1, <2>1
    <2> QED BY <1>5, <1>7, <2>2 DEF Cim!PursueMails
  <1>8. ASSUME NEW kind, NEW what, Cim!Stop(kind, what) PROVE AroundDoes
    BY <1>1, <1>5, <1>8 DEF Cim!Stop
  <1>9. ASSUME NEW r \in Rcpts, Cim!Expire(r) PROVE AroundDoes
    BY <1>1, <1>5, <1>9 DEF Cim!Expire
  <1> QED BY <1>2, <1>3, <1>4, <1>6, <1>7, <1>8, <1>9 DEF Around

(* A call that starts, and the end of the process. *)
Begun(w, from) ==
  /\ run' \in [Senders -> CallSet] /\ OthersSame(w) /\ Directed(run'[w])
  /\ run'[w].pc = "check" /\ run'[w].from = from /\ run'[w].outcome = "none"
  /\ from \in Cim!Requests => requests[from].delivery = "bounced"
  /\ UNCHANGED <<requests, communications, claims, locks, written, pursue>>
LEMMA StartIs ==
  ASSUME Cim!CimRequestsAssumption, CimTyped, NEW w \in Senders, Cim!Start(w)
  PROVE  \E from \in Cim!Requests \cup {Cim!None} : Begun(w, from)
  <1>1. PICK kind \in Kinds, q \in Cim!Requests, from \in Cim!Requests \cup {Cim!None} :
          /\ IF kind = "retry"
               THEN /\ from # Cim!None /\ Cim!Opp(from) = Cim!Opp(q) /\ from # q
                    /\ Cim!Retryable(from) /\ ~Cim!AcceptedElsewhere(from)
               ELSE from = Cim!None
          /\ run' = [run EXCEPT ![w] = [Cim!Idle EXCEPT !.pc = "check", !.kind = kind,
                                                    !.q = q, !.from = from]]
    BY DEF Cim!Start
  <1> DEFINE d == [Cim!Idle EXCEPT !.pc = "check", !.kind = kind, !.q = q, !.from = from]
  <1>2. kind \in {"approved", "signed", "retry"}
    BY DEF Cim!CimRequestsAssumption
  <1>3. d \in CallSet
    BY <1>2 DEF Cim!Idle, CallSet, Pcs
  <1>4. d.pc = "check" /\ d.kind = kind /\ d.q = q /\ d.from = from /\ d.outcome = "none"
    BY DEF Cim!Idle
  <1>5. run' = [run EXCEPT ![w] = d]
    BY <1>1
  <1> HIDE DEF d
  <1>6. run' \in [Senders -> CallSet] /\ run'[w] = d /\ OthersSame(w)
    BY <1>3, <1>5, OneCall DEF CimTyped, CallsTyped
  <1>7. Directed(d)
    BY <1>1, <1>4 DEF Directed, AtItsRow, Cim!CimRequestsAssumption
  <1>8. from \in Cim!Requests => requests[from].delivery = "bounced"
    BY <1>1 DEF Cim!CimRequestsAssumption, Cim!Retryable
  <1>9. Begun(w, from)
    BY <1>4, <1>6, <1>7, <1>8 DEF Begun, Cim!Start
  <1> QED BY <1>9

LEMMA CrashIs ==
  ASSUME Cim!Crash
  PROVE  /\ \A w \in Senders : run'[w] = Cim!Idle
         /\ run' \in [Senders -> CallSet] /\ locks' = {}
         /\ UNCHANGED <<requests, communications, claims, written, pursue>>
  BY IdleIs DEF Cim!Crash

LEMMA CimSteps == ASSUME [Cim!Next]_(Cim!vars)
                  PROVE  \/ \E w \in Senders : Cim!Start(w) \/ Cim!Step(w)
                         \/ Around \/ Cim!Crash \/ UNCHANGED Cim!vars
  BY DEF Cim!Next, Around

-----------------------------------------------------------------------------
(* Types *)

LEMMA SameDirected == ASSUME NEW c, NEW d, Same(c, d), Directed(c) PROVE Directed(d)
  BY DEF Same, Directed

LEMMA CimTypedAtFirst == ASSUME Cim!CimRequestsAssumption, Cim!Init PROVE CimTyped
  <1>1. RowsTyped
    BY DEF Cim!Init, RowsTyped, RowSet, Statuses, Cim!Absent, Consistent
  <1>2. CallsTyped
    BY IdleIs DEF Cim!Init, CallsTyped, Directed, AtItsRow, Cim!CimRequestsAssumption
  <1>3. RestTyped
    BY DEF Cim!Init, RestTyped, Messages
  <1>4. Present
    BY IdleIs DEF Cim!Init, Present, AtItsRow
  <1> QED BY <1>1, <1>2, <1>3, <1>4 DEF CimTyped

LEMMA CimTypedKept == ASSUME Cim!CimRequestsAssumption, CimTyped, [Cim!Next]_(Cim!vars) PROVE CimTyped'
  <1>0. RowsTyped /\ CallsTyped /\ RestTyped /\ Present
    BY DEF CimTyped
  <1>1. ASSUME NEW w \in Senders, Cim!Step(w) PROVE CimTyped'
    <2>1. Does(w)
      BY <1>1, StepDoes
    <2>2. RowsTyped'
      BY <2>1 DEF Does, RowsDo
    <2>3. CallsTyped'
      <3>1. \A v \in Senders \ {w} : Directed(run'[v])
        BY <1>0, <2>1, SameDirected DEF Does, CallStep, OthersSame, CallsTyped
      <3> QED BY <2>1, <3>1 DEF Does, CallStep, CallsTyped
    <2>4. RestTyped'
      BY <1>0, <2>1 DEF Does, MailDoes, LocksDo, ClaimsDo, RestTyped
    <2>5. ASSUME NEW q \in Cim!Requests, written'[q] # "no" PROVE requests'[q].status # "none"
      <3>1. requests[q].status # "none"
        BY <1>0, <2>1, <2>5 DEF Does, MailDoes, Present, AtItsRow
      <3> QED BY <2>1, <3>1 DEF Does, RowsDo
    <2>6. ASSUME NEW v \in Senders, run'[v].pc \in AtItsRow PROVE requests'[run'[v].q].status # "none"
      <3>1. CASE v = w
        <4>1. run'[w].q = run[w].q
          BY <2>1, <2>6, <3>1 DEF Does, CallStep, AtItsRow
        <4>2. CASE run[w].pc \in AtItsRow
          <5>1. requests[run[w].q].status # "none" /\ run[w].q \in Cim!Requests
            BY <1>0, <4>2 DEF Present, CallsTyped, Directed, AtItsRow
          <5> QED BY <2>1, <3>1, <4>1, <5>1 DEF Does, RowsDo
        <4> QED BY <2>1, <2>6, <3>1, <4>1, <4>2 DEF Does, CallStep
      <3>2. CASE v # w
        <4>1. Same(run[v], run'[v])
          BY <2>1, <3>2 DEF Does, CallStep, OthersSame
        <4>2. requests[run[v].q].status # "none" /\ run[v].q \in Cim!Requests
          BY <1>0, <2>6, <4>1 DEF Same, Present, CallsTyped, Directed, AtItsRow
        <4> QED BY <2>1, <4>1, <4>2 DEF Does, RowsDo, Same
      <3> QED BY <3>1, <3>2
    <2>7. Present'
      BY <2>5, <2>6 DEF Present
    <2> QED BY <2>2, <2>3, <2>4, <2>7 DEF CimTyped
  <1>2. ASSUME NEW w \in Senders, Cim!Start(w) PROVE CimTyped'
    <2>1. PICK from \in Cim!Requests \cup {Cim!None} : Begun(w, from)
      BY <1>2, StartIs
    <2>2. RowsTyped' /\ RestTyped'
      BY <1>0, <2>1 DEF Begun, RowsTyped, RestTyped
    <2>3. CallsTyped'
      <3>1. \A v \in Senders \ {w} : Directed(run'[v])
        BY <1>0, <2>1, SameDirected DEF Begun, OthersSame, CallsTyped
      <3> QED BY <2>1, <3>1 DEF Begun, CallsTyped
    <2>4. Present'
      BY <1>0, <2>1 DEF Begun, OthersSame, Same, Present, AtItsRow
    <2> QED BY <2>2, <2>3, <2>4 DEF CimTyped
  <1>3. CASE Around
    <2>1. AroundDoes
      BY <1>3, AroundIs
    <2>2. RowsTyped' /\ RestTyped'
      BY <1>0, <2>1 DEF AroundDoes, RestTyped
    <2>3. CallsTyped'
      BY <1>0, <2>1, SameDirected DEF AroundDoes, CallsTyped
    <2>4. \A q \in Cim!Requests : written'[q] # "no" => requests'[q].status # "none"
      BY <1>0, <2>1 DEF AroundDoes, Present
    <2>5. ASSUME NEW v \in Senders, run'[v].pc \in AtItsRow PROVE requests'[run'[v].q].status # "none"
      <3>1. run[v].q \in Cim!Requests /\ run[v].pc \in AtItsRow /\ run'[v].q = run[v].q
        BY <1>0, <2>1, <2>5 DEF AroundDoes, Same, CallsTyped, Directed, AtItsRow
      <3> QED BY <1>0, <2>1, <3>1 DEF AroundDoes, Present
    <2> QED BY <2>2, <2>3, <2>4, <2>5 DEF CimTyped, Present
  <1>4. CASE Cim!Crash
    <2>1. RowsTyped' /\ RestTyped'
      BY <1>0, <1>4, CrashIs DEF RowsTyped, RestTyped
    <2>2. CallsTyped' /\ Present'
      BY <1>0, <1>4, CrashIs, IdleIs DEF CallsTyped, Directed, Present, AtItsRow, Cim!CimRequestsAssumption
    <2> QED BY <2>1, <2>2 DEF CimTyped
  <1>5. CASE UNCHANGED Cim!vars
    BY <1>0, <1>5 DEF Cim!vars, CimTyped, RowsTyped, CallsTyped, RestTyped, Present
  <1> QED BY <1>1, <1>2, <1>3, <1>4, <1>5, CimSteps

(* Every variable keeps its type, a row without a status has no delivery, and only *)
(* a pending row waits for ten minutes (deal_hunter_cim_requests).                 *)
THEOREM RequestsTypeCorrect == ASSUME Cim!CimRequestsAssumption PROVE Cim!Spec => []Cim!TypeOK
  <1>1. Cim!Init => CimTyped
    BY CimTypedAtFirst
  <1>2. CimTyped /\ [Cim!Next]_(Cim!vars) => CimTyped'
    BY CimTypedKept
  <1>3. CimTyped => Cim!TypeOK
    BY DEF CimTyped, RowsTyped, RestTyped, RowSet, Statuses, Messages, Consistent, Cim!TypeOK
  <1> QED BY <1>1, <1>2, <1>3, PTL DEF Cim!Spec

(* A contact that is complete is never opened again by a call that is late: every  *)
(* write of finalize, renew and claim compares the status with what was read.      *)
THEOREM CompletedStaysAlways == ASSUME Cim!CimRequestsAssumption PROVE Cim!Spec => Cim!CompletedStays
  <1>1. Cim!Init => CimTyped
    BY CimTypedAtFirst
  <1>2. CimTyped /\ [Cim!Next]_(Cim!vars) => CimTyped'
    BY CimTypedKept
  <1>3. ASSUME CimTyped, [Cim!Next]_(Cim!vars) PROVE Cim!StaysComplete
    <2>1. ASSUME UNCHANGED requests PROVE Cim!StaysComplete
      BY <2>1 DEF Cim!StaysComplete, Cim!Completed
    <2>2. ASSUME NEW w \in Senders, Cim!Start(w) PROVE Cim!StaysComplete
      BY <2>1, <2>2 DEF Cim!Start
    <2>3. ASSUME NEW w \in Senders, Cim!Step(w) PROVE Cim!StaysComplete
      BY <1>3, <2>3, StepDoes DEF Does, RowsDo
    <2>4. CASE Around
      BY <1>3, <2>4, AroundIs DEF AroundDoes
    <2>5. CASE Cim!Crash \/ UNCHANGED Cim!vars
      BY <2>1, <2>5 DEF Cim!Crash, Cim!vars
    <2> QED BY <1>3, <2>2, <2>3, <2>4, <2>5, CimSteps
  <1>4. CimTyped /\ [Cim!Next]_(Cim!vars) => [Cim!StaysComplete]_(Cim!vars)
    BY <1>3
  <1> QED BY <1>1, <1>2, <1>4, PTL DEF Cim!Spec, Cim!CompletedStays

-----------------------------------------------------------------------------
(* What rows say *)

(* A row, a message or a call that speaks of a bounce or an acceptance knows of it: *)
(* mail that was out stays out or bounces, so late knowledge is still true.         *)
Known(q) ==
  /\ requests[q].delivery = "bounced" \/ communications[q] = "bounced" => written[q] = "bounced"
  /\ Accepted(requests[q].status) \/ Cim!Proof(q) => written[q] # "no"
Knows(w) ==
  /\ run[w].from \in Cim!Requests => written[run[w].from] = "bounced"
  /\ run[w].pc = "reconcile" => written[run[w].target] # "no"
  /\ run[w].outcome = "sent" => written[run[w].q] # "no"
Honest == (\A q \in Cim!Requests : Known(q)) /\ \A w \in Senders : Knows(w)

LEMMA HonestAtFirst == ASSUME Cim!CimRequestsAssumption, Cim!Init PROVE Honest
  BY IdleIs DEF Cim!Init, Honest, Known, Knows, Cim!Proof, Accepted, Cim!Absent, Cim!CimRequestsAssumption

(* Mail that is out, or bounced, stays so for the calls that know of it. *)
LEMMA KnowsOn ==
  ASSUME CimTyped, NEW v \in Senders, Knows(v), Same(run[v], run'[v]),
         \A q \in Cim!Requests : /\ written[q] # "no" => written'[q] # "no"
                                 /\ written[q] = "bounced" => written'[q] = "bounced"
  PROVE  Knows(v)'
  <1>1. Directed(run[v])
    BY DEF CimTyped, CallsTyped
  <1> QED BY <1>1 DEF Knows, Same, Directed

LEMMA HonestKept ==
  ASSUME Cim!CimRequestsAssumption, CimTyped, CimTyped', Honest, [Cim!Next]_(Cim!vars) PROVE Honest'
  <1>1. ASSUME NEW w \in Senders, Cim!Step(w) PROVE Honest'
    <2>1. Does(w)
      BY <1>1, StepDoes
    <2>2. Directed(run[w]) /\ Knows(w)
      BY DEF CimTyped, CallsTyped, Honest
    <2>3. \A q \in Cim!Requests : /\ written[q] # "no" => written'[q] # "no"
                                  /\ written[q] = "bounced" => written'[q] = "bounced"
      BY <2>1 DEF Does, MailDoes
    <2>4. ASSUME NEW q \in Cim!Requests PROVE Known(q)'
      <3>1. Known(q)
        BY DEF Honest
      <3>2. MayBounce(w, q) => written[q] = "bounced"
        BY <2>2, <3>1 DEF MayBounce, Known, Knows
      <3>3. MaySay(w, q) => written[q] # "no"
        BY <2>2, <3>1 DEF MaySay, Known, Knows
      <3>4. requests'[q].delivery = "bounced" \/ communications'[q] = "bounced" => written'[q] = "bounced"
        BY <2>1, <2>3, <3>1, <3>2 DEF Does, RowsDo, MailDoes, Known
      <3>5. Accepted(requests'[q].status) \/ Cim!Proof(q)' => written'[q] # "no"
        BY <2>1, <2>2, <2>3, <3>1, <3>3 DEF Does, RowsDo, MailDoes, Known, Knows
      <3> QED BY <3>4, <3>5 DEF Known
    <2>5. Knows(w)'
      <3>1. run'[w].from \in Cim!Requests => written'[run'[w].from] = "bounced"
        BY <2>1, <2>2, <2>3 DEF Does, CallStep, Knows
      <3>2. ASSUME run'[w].pc = "reconcile" PROVE written'[run'[w].target] # "no"
        <4>1. Cim!Proof(run'[w].target) /\ run'[w].target \in Cim!Requests
          BY <2>1, <3>2 DEF Does, CallStep, Directed
        <4>2. written[run'[w].target] # "no"
          BY <4>1 DEF Honest, Known
        <4> QED BY <2>3, <4>1, <4>2
      <3>3. ASSUME run'[w].outcome = "sent" PROVE written'[run'[w].q] # "no"
        <4>1. run'[w].pc # "idle"
          BY <2>1, <3>3 DEF Does, CallStep, Directed
        <4>2. run'[w].q = run[w].q /\ run'[w].q \in Cim!Requests
          BY <2>1, <4>1 DEF Does, CallStep, Directed
        <4>3. run[w].outcome = "sent" => written[run[w].q] # "no"
          BY <2>2 DEF Knows
        <4> QED BY <2>1, <2>3, <3>3, <4>1, <4>2, <4>3 DEF Does, MailDoes
      <3> QED BY <3>1, <3>2, <3>3 DEF Knows
    <2>6. ASSUME NEW v \in Senders \ {w} PROVE Knows(v)'
      BY <2>1, <2>3, KnowsOn DEF Honest, Does, CallStep, OthersSame
    <2> QED BY <2>4, <2>5, <2>6 DEF Honest
  <1>2. ASSUME NEW w \in Senders, Cim!Start(w) PROVE Honest'
    <2>1. PICK from \in Cim!Requests \cup {Cim!None} : Begun(w, from)
      BY <1>2, StartIs
    <2>2. \A q \in Cim!Requests : Known(q)'
      BY <2>1 DEF Begun, Honest, Known, Cim!Proof, Accepted
    <2>3. ASSUME NEW v \in Senders \ {w} PROVE Knows(v)'
      BY <2>1, KnowsOn DEF Begun, Honest, OthersSame
    <2>4. Knows(w)'
      BY <2>1 DEF Begun, Honest, Known, Knows
    <2> QED BY <2>2, <2>3, <2>4 DEF Honest
  <1>3. CASE Around
    <2>1. AroundDoes
      BY <1>3, AroundIs
    <2>2. \A q \in Cim!Requests : /\ written[q] # "no" => written'[q] # "no"
                                  /\ written[q] = "bounced" => written'[q] = "bounced"
      BY <2>1 DEF AroundDoes
    <2>3. ASSUME NEW q \in Cim!Requests PROVE Known(q)'
      <3>1. Known(q)
        BY DEF Honest
      <3> QED BY <2>1, <2>2, <3>1 DEF AroundDoes, Known
    <2>4. ASSUME NEW v \in Senders PROVE Knows(v)'
      BY <2>1, <2>2, KnowsOn DEF AroundDoes, Honest
    <2> QED BY <2>3, <2>4 DEF Honest
  <1>4. CASE Cim!Crash
    <2>1. \A q \in Cim!Requests : Known(q)'
      BY <1>4, CrashIs DEF Honest, Known, Cim!Proof, Accepted
    <2>2. \A w \in Senders : Knows(w)'
      BY <1>4, CrashIs, IdleIs DEF Knows, Cim!CimRequestsAssumption
    <2> QED BY <2>1, <2>2 DEF Honest
  <1>5. CASE UNCHANGED Cim!vars
    BY <1>5 DEF Cim!vars, Honest, Known, Knows, Cim!Proof, Accepted
  <1> QED BY <1>1, <1>2, <1>3, <1>4, <1>5, CimSteps

-----------------------------------------------------------------------------
(* Locks *)

(* One call per recipient: refused at the deal's lock, a call may delete it, but   *)
(* never the recipient's.                                                          *)
Alone ==
  /\ \A w \in Senders : run[w].pc \in Inside => Cim!Rcpt(run[w].q) \in locks
  /\ \A v, w \in Senders : v # w /\ run[v].pc \in Inside /\ run[w].pc \in Inside
                           => Cim!Rcpt(run[v].q) # Cim!Rcpt(run[w].q)

LEMMA AloneKept ==
  ASSUME Cim!CimRequestsAssumption, CimTyped, Alone, [Cim!Next]_(Cim!vars) PROVE Alone'
  <1>0. \A w \in Senders : run[w].pc \in Inside => Cim!Rcpt(run[w].q) \in Rcpts
    BY Parts DEF CimTyped, CallsTyped, Directed, Inside, Sending, Late, AtItsRow
  <1>1. ASSUME NEW w \in Senders, Cim!Step(w) PROVE Alone'
    <2>1. CallStep(w) /\ LocksDo(w)
      BY <1>1, StepDoes DEF Does
    <2>2. \A v \in Senders \ {w} : run'[v].pc = run[v].pc /\ run'[v].q = run[v].q
      BY <2>1 DEF CallStep, OthersSame, Same
    <2>3. run'[w].pc \in Inside => run'[w].q = run[w].q
      BY <2>1 DEF CallStep, Inside, Sending, Late, AtItsRow
    <2>4. ASSUME NEW v \in Senders \ {w}, run[v].pc \in Inside
          PROVE  /\ Cim!Rcpt(run[v].q) \in locks'
                 /\ run'[w].pc \in Inside => Cim!Rcpt(run[v].q) # Cim!Rcpt(run[w].q)
      BY <1>0, <2>1, <2>4 DEF LocksDo, Alone
    <2>5. run'[w].pc \in Inside => Cim!Rcpt(run[w].q) \in locks'
      BY <1>0, <2>1 DEF LocksDo, Alone
    <2>6. \A v \in Senders : run'[v].pc \in Inside => Cim!Rcpt(run'[v].q) \in locks'
      BY <2>2, <2>3, <2>4, <2>5
    <2>7. \A u, v \in Senders : u # v /\ run'[u].pc \in Inside /\ run'[v].pc \in Inside
                               => Cim!Rcpt(run'[u].q) # Cim!Rcpt(run'[v].q)
      BY <2>2, <2>3, <2>4 DEF Alone
    <2> QED BY <2>6, <2>7 DEF Alone
  <1>2. ASSUME NEW w \in Senders, Cim!Start(w) PROVE Alone'
    BY <1>2, StartIs DEF Begun, OthersSame, Same, Alone, Inside, Sending, Late, AtItsRow
  <1>3. CASE Around
    BY <1>3, AroundIs DEF AroundDoes, Same, Alone
  <1>4. CASE Cim!Crash
    BY <1>4, CrashIs, IdleIs DEF Alone, Inside, Sending, Late, AtItsRow
  <1>5. CASE UNCHANGED Cim!vars
    BY <1>5 DEF Cim!vars, Alone
  <1> QED BY <1>1, <1>2, <1>3, <1>4, <1>5, CimSteps

-----------------------------------------------------------------------------
(* Claims *)

(* The opportunity belongs to the request whose mail is out, and to the request a  *)
(* call is about to send unless it bounced already: it was claimed, and a claim    *)
(* changes hands only after a bounce.                                              *)
Owned ==
  /\ \A q \in Cim!Requests : written[q] = "out" => claims[Cim!Opp(q)] = q
  /\ \A w \in Senders : run[w].pc \in Sending /\ written[run[w].q] # "bounced"
                        => claims[Cim!Opp(run[w].q)] = run[w].q

LEMMA OwnedKept ==
  ASSUME Cim!CimRequestsAssumption, CimTyped, Honest, Alone, Owned, [Cim!Next]_(Cim!vars) PROVE Owned'
  <1>1. ASSUME NEW w \in Senders, Cim!Step(w) PROVE Owned'
    <2>1. Does(w)
      BY <1>1, StepDoes
    <2>2. Directed(run[w]) /\ Knows(w) /\ Cim!None \notin Cim!Requests
      BY DEF CimTyped, CallsTyped, Honest, Cim!CimRequestsAssumption
    (* A claim changes hands only away from a request that bounced, and is given up *)
    (* only by the one call of a request that has no row.                           *)
    <2>3. ASSUME NEW q \in Cim!Requests, claims[Cim!Opp(q)] = q, written[q] # "bounced", claims'[Cim!Opp(q)] # q
          PROVE  run[w].q = q /\ run[w].pc = "recheck" /\ run'[w].pc = "release"
                 /\ requests[q].status = "none"
      <3>1. Cim!Opp(q) \in Opps
        BY Parts
      <3>2. ~(claims'[Cim!Opp(q)] = run[w].q /\ Cim!MayOwn(w) /\ Cim!Opp(q) = Cim!Opp(run[w].q))
        BY <2>2, <2>3 DEF Cim!MayOwn, Knows
      <3> QED BY <2>1, <2>3, <3>1, <3>2 DEF Does, ClaimsDo, Gives
    <2>4. ASSUME NEW q \in Cim!Requests, written'[q] = "out" PROVE claims'[Cim!Opp(q)] = q
      <3>1. claims[Cim!Opp(q)] = q /\ written[q] # "bounced"
        BY <2>1, <2>4 DEF Does, MailDoes, Owned, Sending, Late
      <3>2. requests[q].status # "none" \/ run[w].pc = "send"
        BY <2>1, <2>4 DEF Does, MailDoes, CimTyped, Present
      <3> QED BY <2>3, <3>1, <3>2
    <2>5. ASSUME NEW v \in Senders, run'[v].pc \in Sending, written'[run'[v].q] # "bounced"
          PROVE  claims'[Cim!Opp(run'[v].q)] = run'[v].q
      <3>1. CASE v = w
        <4>1. run'[w].q = run[w].q /\ run[w].q \in Cim!Requests
          BY <2>1, <2>5, <3>1 DEF Does, CallStep, Directed, Sending, Late
        <4>2. written[run[w].q] # "bounced"
          BY <2>1, <2>5, <3>1, <4>1 DEF Does, MailDoes
        <4>3. run[w].pc \in Sending \/ claims'[Cim!Opp(run[w].q)] = run[w].q
          BY <2>1, <2>5, <3>1 DEF Does, ClaimsDo
        <4>4. run'[w].pc # "release"
          BY <2>5, <3>1 DEF Sending, Late
        <4> QED BY <2>3, <3>1, <4>1, <4>2, <4>3, <4>4 DEF Owned
      <3>2. CASE v # w
        <4>1. run'[v].q = run[v].q /\ run[v].pc \in Sending
          BY <2>1, <2>5, <3>2 DEF Does, CallStep, OthersSame, Same
        <4>2. run[v].q \in Cim!Requests
          BY <4>1 DEF CimTyped, CallsTyped, Directed, Sending, Late
        <4>3. written[run[v].q] # "bounced"
          BY <2>1, <2>5, <4>1, <4>2 DEF Does, MailDoes
        <4>4. claims[Cim!Opp(run[v].q)] = run[v].q
          BY <4>1, <4>3 DEF Owned
        <4>5. run[w].pc = "recheck" => run[w].q # run[v].q
          BY <3>2, <4>1 DEF Alone, Inside, Sending
        <4> QED BY <2>3, <4>1, <4>2, <4>3, <4>4, <4>5
      <3> QED BY <3>1, <3>2
    <2> QED BY <2>4, <2>5 DEF Owned
  <1>2. ASSUME NEW w \in Senders, Cim!Start(w) PROVE Owned'
    BY <1>2, StartIs DEF Begun, OthersSame, Same, Owned, Sending, Late
  <1>3. CASE Around
    <2>1. AroundDoes
      BY <1>3, AroundIs
    <2>2. \A v \in Senders : run[v].pc \in Sending => run[v].q \in Cim!Requests
      BY DEF CimTyped, CallsTyped, Directed, Sending, Late
    <2> QED BY <2>1, <2>2 DEF AroundDoes, Same, Owned
  <1>4. CASE Cim!Crash
    BY <1>4, CrashIs, IdleIs DEF Owned, Sending, Late
  <1>5. CASE UNCHANGED Cim!vars
    BY <1>5 DEF Cim!vars, Owned
  <1> QED BY <1>1, <1>2, <1>3, <1>4, <1>5, CimSteps

-----------------------------------------------------------------------------
(* The other system *)

(* It mails when there is neither a row nor a claim: then no call is past its last *)
(* look, since one that is has a claim, and nothing was mailed, since a mail has   *)
(* a row.                                                                          *)
Apart == \A o \in Opps : pursue[o] = "mailed" =>
  /\ \A q \in Cim!Requests : Cim!Opp(q) = o => written[q] = "no"
  /\ \A w \in Senders : run[w].pc \in Late => Cim!Opp(run[w].q) # o

LEMMA ApartKept ==
  ASSUME Cim!CimRequestsAssumption, CimTyped, Owned, Apart, [Cim!Next]_(Cim!vars) PROVE Apart'
  <1>1. ASSUME NEW w \in Senders, Cim!Step(w) PROVE Apart'
    <2>1. Does(w)
      BY <1>1, StepDoes
    <2>2. ASSUME NEW o \in Opps, pursue'[o] = "mailed"
          PROVE  /\ \A q \in Cim!Requests : Cim!Opp(q) = o => written'[q] = "no"
                 /\ \A v \in Senders : run'[v].pc \in Late => Cim!Opp(run'[v].q) # o
      <3>1. /\ pursue[o] = "mailed" /\ \A q \in Cim!Requests : Cim!Opp(q) = o => written[q] = "no"
            /\ \A v \in Senders : run[v].pc \in Late => Cim!Opp(run[v].q) # o
        BY <2>1, <2>2 DEF Does, ClaimsDo, Apart
      <3>2. \A q \in Cim!Requests : Cim!Opp(q) = o => written'[q] = "no"
        BY <2>1, <3>1 DEF Does, MailDoes, Late
      <3>3. run'[w].pc \in Late => Cim!Opp(run'[w].q) # o
        BY <2>1, <3>1 DEF Does, CallStep, ClaimsDo, Late
      <3>4. \A v \in Senders \ {w} : run'[v].pc \in Late => Cim!Opp(run'[v].q) # o
        BY <2>1, <3>1 DEF Does, CallStep, OthersSame, Same
      <3> QED BY <3>2, <3>3, <3>4
    <2> QED BY <2>2 DEF Apart
  <1>2. ASSUME NEW w \in Senders, Cim!Start(w) PROVE Apart'
    BY <1>2, StartIs DEF Begun, OthersSame, Same, Apart, Late
  <1>3. CASE Around
    <2>1. AroundDoes
      BY <1>3, AroundIs
    <2>2. ASSUME NEW o \in Opps, pursue'[o] = "mailed"
          PROVE  /\ \A q \in Cim!Requests : Cim!Opp(q) = o => written'[q] = "no"
                 /\ \A v \in Senders : run'[v].pc \in Late => Cim!Opp(run'[v].q) # o
      <3>1. CASE pursue[o] = "mailed"
        BY <2>1, <2>2, <3>1 DEF AroundDoes, Same, Apart
      <3>2. CASE Cim!PursueMay(o)
        <4>1. \A q \in Cim!Requests : Cim!Opp(q) = o => written[q] = "no"
          BY <3>2 DEF Cim!PursueMay, CimTyped, Present
        <4>2. \A v \in Senders : run[v].pc \in Late => Cim!Opp(run[v].q) # o
          <5>1. SUFFICES ASSUME NEW v \in Senders, run[v].pc \in Late, Cim!Opp(run[v].q) = o PROVE FALSE
            OBVIOUS
          <5>2. run[v].q \in Cim!Requests
            BY <5>1 DEF CimTyped, CallsTyped, Directed, Late
          <5>3. written[run[v].q] = "no"
            BY <4>1, <5>1, <5>2
          <5>4. claims[o] = run[v].q
            BY <5>1, <5>3 DEF Owned, Sending
          <5> QED BY <3>2, <5>2, <5>4 DEF Cim!PursueMay, Cim!CimRequestsAssumption
        <4> QED BY <2>1, <4>1, <4>2 DEF AroundDoes, Same
      <3> QED BY <2>1, <2>2, <3>1, <3>2 DEF AroundDoes
    <2> QED BY <2>2 DEF Apart
  <1>4. CASE Cim!Crash
    BY <1>4, CrashIs, IdleIs DEF Apart, Late
  <1>5. CASE UNCHANGED Cim!vars
    BY <1>5 DEF Cim!vars, Apart
  <1> QED BY <1>1, <1>2, <1>3, <1>4, <1>5, CimSteps

-----------------------------------------------------------------------------
(* What the first contact promises *)

ContactInv == CimTyped /\ Honest /\ Alone /\ Owned /\ Apart
LEMMA ContactInvHolds ==
  ASSUME Cim!CimRequestsAssumption
  PROVE  /\ Cim!Init => ContactInv
         /\ ContactInv /\ [Cim!Next]_(Cim!vars) => ContactInv'
  <1>1. Cim!Init => Alone /\ Owned /\ Apart
    BY IdleIs DEF Cim!Init, Alone, Owned, Apart, Inside, Sending, Late, AtItsRow
  <1>2. Cim!Init => ContactInv
    BY <1>1, CimTypedAtFirst, HonestAtFirst DEF ContactInv
  <1>3. ContactInv /\ [Cim!Next]_(Cim!vars) => ContactInv'
    BY CimTypedKept, HonestKept, AloneKept, OwnedKept, ApartKept DEF ContactInv
  <1> QED BY <1>2, <1>3

(* A row that says its e-mail was accepted tells the truth (finalize, reconcile    *)
(* and the delivery events).                                                       *)
THEOREM RecordIsTrueAlways == ASSUME Cim!CimRequestsAssumption PROVE Cim!Spec => []Cim!RecordIsTrue
  <1>1. ContactInv => Cim!RecordIsTrue
    BY DEF ContactInv, Honest, Known, Accepted, Cim!RecordIsTrue
  <1> QED BY <1>1, ContactInvHolds, PTL DEF Cim!Spec

(* No two brokers are written to about one opportunity unless the first e-mail     *)
(* bounced, whatever calls, retries, events and restarts come in between           *)
(* (claimDealHunterCimOpportunity, sendCimRequestForScoredDeal).                   *)
THEOREM OneFirstContactAlways == ASSUME Cim!CimRequestsAssumption PROVE Cim!Spec => []Cim!OneFirstContact
  <1>1. ContactInv => Cim!OneFirstContact
    BY DEF ContactInv, Owned, Cim!OneFirstContact
  <1> QED BY <1>1, ContactInvHolds, PTL DEF Cim!Spec

(* The opportunity the Pursue system has written about gets no first e-mail from   *)
(* here, nor the other way round (readPursueOwnership after the claim, prior       *)
(* requests and claims there).                                                     *)
THEOREM OneSystemAlways == ASSUME Cim!CimRequestsAssumption PROVE Cim!Spec => []Cim!OneSystem
  <1>1. ContactInv => Cim!OneSystem
    BY DEF ContactInv, Apart, Cim!OneSystem
  <1> QED BY <1>1, ContactInvHolds, PTL DEF Cim!Spec

-----------------------------------------------------------------------------
(* Manual follow-ups of one request                                          *)
CONSTANTS Approvals, Max, Greetings
VARIABLES row, message, stamped, greeting, handed, refused, taken, lock, over, call

Man == INSTANCE ManualFollowUps WITH Calls <- Approvals

Attempts == [n : 0..Max, outcome : {"none", "accepted", "failed", "ambiguous"}]
ManRows ==
  [status : {"sent", "pending", "failed", "responded"},
   state : {"none", "scheduled", "failed", "ambiguous", "stopped", "completed"},
   due : {"none", "later", "now"}, count : 0..Max, marked : BOOLEAN, stopped : BOOLEAN,
   attempt : Attempts]
CallRows == [pc : Man!Steps \cup Man!Ends, n : 0..Max, text : Greetings \cup {0},
             fresh : BOOLEAN, outcome : {"none", "accepted", "failed", "ambiguous"}]

(* Who has claimed the row and has not ended                                  *)
AtItPcs == {"claimed", "persisted", "cleared", "renewed", "handed", "answered", "saved"}
Before == {"claimed", "persisted", "cleared", "renewed"}

(* An ended sequence has nothing due.                                         *)
EndedIsQuiet == Man!Terminal(row) => row.due = "none" /\ row.state \in {"stopped", "completed"}
(* A call that was prepared has a number, and what is recorded as accepted or *)
(* delivered the provider has.                                                *)
Numbered == \A c \in Approvals : call[c].pc # "new" => call[c].n \in Man!Numbers
MessagesAreTrue ==
  /\ \A n \in Man!Numbers : message[n] \in {"accepted", "delivered"} => n \in taken
  /\ \A c \in Approvals : call[c].pc \in {"answered", "saved"} /\ call[c].outcome = "accepted" => call[c].n \in taken
(* The row of a claim: who works on a number that is not counted works on a   *)
(* pending row, unless it ended.                                              *)
ClaimedRow(r, n) == r.status = "pending" \/ Man!Terminal(r) \/ r.count >= n
DueRow(r, n) ==
  /\ r.status = "pending" /\ r.due = "now" /\ r.state \in {"scheduled", "failed"}
  /\ ~Man!Terminal(r) /\ n = r.count + 1
(* How often a call's number was handed over and refused                      *)
Tally(c) ==
  /\ call[c].pc \in Before => handed[call[c].n] = refused[call[c].n]
  /\ call[c].pc = "handed" => handed[call[c].n] = refused[call[c].n] + 1
  /\ call[c].pc \in {"answered", "saved"} =>
       handed[call[c].n] = refused[call[c].n] + (IF call[c].outcome = "failed" THEN 0 ELSE 1)
AtWork(c) ==
  call[c].pc \in AtItPcs =>
    /\ call[c].n <= row.count + 1 /\ ClaimedRow(row, call[c].n) /\ Tally(c)
    /\ call[c].fresh => DueRow(row, call[c].n)
    /\ call[c].pc \in {"answered", "saved"} => call[c].outcome # "none"
ManApart ==
  \A c, d \in Approvals : c # d /\ call[c].pc \in AtItPcs /\ call[d].pc \in AtItPcs => call[c].n # call[d].n
(* A number handed over and not refused is counted, or nothing can claim it.  *)
Opened ==
  \A n \in Man!Numbers : handed[n] # refused[n] =>
    /\ handed[n] = refused[n] + 1 /\ n <= row.count + 1
    /\ ClaimedRow(row, n) \/ row.state = "ambiguous"
ManualInv ==
  /\ Man!TypeOK /\ Numbered /\ MessagesAreTrue /\ Man!CountIsTrue /\ EndedIsQuiet /\ Man!GoesOn
  /\ \A c \in Approvals : AtWork(c)
  /\ ManApart /\ Opened

LEMMA Typed ==
  Man!TypeOK <=>
    /\ row \in ManRows
    /\ message \in [Man!Numbers -> {"none", "ready", "failed", "ambiguous", "accepted", "delivered"}]
    /\ stamped \in [Man!Numbers -> BOOLEAN] /\ greeting \in [Man!Numbers -> Greetings \cup {0}]
    /\ handed \in [Man!Numbers -> Nat] /\ refused \in [Man!Numbers -> Nat] /\ taken \subseteq Man!Numbers
    /\ lock \in Approvals \cup {None} /\ over \in BOOLEAN
    /\ call \in [Approvals -> CallRows]
    /\ faults \in 0..MaxFaults /\ restarts \in 0..MaxRestarts
  BY DEF Man!TypeOK, ManRows, Attempts, CallRows

LEMMA TypedAfter ==
  ASSUME row' \in ManRows,
         message' \in [Man!Numbers -> {"none", "ready", "failed", "ambiguous", "accepted", "delivered"}],
         stamped' \in [Man!Numbers -> BOOLEAN], greeting' \in [Man!Numbers -> Greetings \cup {0}],
         handed' \in [Man!Numbers -> Nat], refused' \in [Man!Numbers -> Nat], taken' \subseteq Man!Numbers,
         lock' \in Approvals \cup {None}, over' \in BOOLEAN, call' \in [Approvals -> CallRows],
         faults' \in 0..MaxFaults, restarts' \in 0..MaxRestarts
  PROVE  Man!TypeOK'
  BY DEF Man!TypeOK, ManRows, Attempts, CallRows

LEMMA NumbersAre ==
  ASSUME Man!ManualAssumption
  PROVE  Max \in Nat /\ Max > 0 /\ Man!Numbers \subseteq 0..Max /\ 0 \notin Man!Numbers /\ Max \in Man!Numbers
         /\ \A n \in 0..Max : n < Max => n + 1 \in Man!Numbers
  BY DEF Man!ManualAssumption, Man!Numbers

-----------------------------------------------------------------------------
(* Rows *)

(* A row written with its fields                                              *)
LEMMA RowIs ==
  ASSUME NEW r, NEW s \in ManRows,
         NEW status \in {"sent", "pending", "failed", "responded"},
         NEW state \in {"none", "scheduled", "failed", "ambiguous", "stopped", "completed"},
         NEW due \in {"none", "later", "now"}, NEW count \in 0..Max, NEW marked \in BOOLEAN,
         NEW stopped \in BOOLEAN, NEW attempt \in Attempts,
         r = [s EXCEPT !.status = status, !.state = state, !.due = due, !.count = count,
                       !.marked = marked, !.stopped = stopped, !.attempt = attempt]
  PROVE  r \in ManRows /\ r.status = status /\ r.state = state /\ r.due = due /\ r.count = count
         /\ r.marked = marked /\ r.stopped = stopped /\ r.attempt = attempt
  <1>1. r = [status |-> status, state |-> state, due |-> due, count |-> count, marked |-> marked,
             stopped |-> stopped, attempt |-> attempt]
    BY DEF ManRows
  <1> QED BY <1>1 DEF ManRows

(* What accepting a number does                                               *)
CountedRow(r) ==
  /\ r \in ManRows /\ r.count = row.count + 1 /\ r.count \in taken /\ r.marked = row.marked
  /\ r.due # "none" <=> r.state \in {"scheduled", "failed"}
  /\ Man!Terminal(row) => Man!Terminal(r)
  /\ Man!Terminal(r) => r.due = "none" /\ r.state \in {"stopped", "completed"}

LEMMA AcceptedDoes ==
  ASSUME Man!ManualAssumption, ManualInv, NEW n \in Man!Numbers
  PROVE  Man!Accepted(n) = row \/ CountedRow(Man!Accepted(n))
  <1> SUFFICES ASSUME row.count = n - 1, Man!Proof(n) PROVE CountedRow(Man!Accepted(n))
    BY DEF Man!Accepted
  <1>0. row \in ManRows /\ n \in 0..Max /\ n \in taken
    BY Typed, NumbersAre DEF ManualInv, MessagesAreTrue, Man!Proof
  <1> DEFINE due == IF Man!Terminal(row) \/ n = Max THEN "none" ELSE "later"
             state == IF Man!Terminal(row) THEN (IF row.state = "completed" THEN row.state ELSE "stopped")
                      ELSE IF n = Max THEN "completed" ELSE "scheduled"
             status == IF row.status = "responded" THEN row.status ELSE "sent"
             attempt == [n |-> n, outcome |-> "accepted"]
             r == Man!Accepted(n)
  <1>1. r = [row EXCEPT !.count = n, !.due = due, !.state = state, !.status = status, !.attempt = attempt]
    BY DEF Man!Accepted
  <1>2. /\ due \in {"none", "later"} /\ state \in {"stopped", "completed", "scheduled"}
        /\ status \in {"responded", "sent"} /\ attempt \in Attempts
    BY <1>0 DEF Attempts
  <1> HIDE DEF r
  <1>3. /\ r \in ManRows /\ r.count = n /\ r.due = due /\ r.state = state /\ r.status = status
        /\ r.marked = row.marked /\ r.stopped = row.stopped
    <2> HIDE DEF due, state, status, attempt
    <2>1. r = [status |-> status, state |-> state, due |-> due, count |-> n, marked |-> row.marked,
               stopped |-> row.stopped, attempt |-> attempt]
      BY <1>0, <1>1 DEF ManRows
    <2>2. row.marked \in BOOLEAN /\ row.stopped \in BOOLEAN
      BY <1>0 DEF ManRows
    <2> QED BY <1>0, <1>2, <2>1, <2>2 DEF ManRows
  <1>4. n = row.count + 1
    BY <1>0 DEF ManRows
  <1>5. r.due # "none" <=> r.state \in {"scheduled", "failed"}
    BY <1>3
  <1>6. Man!Terminal(row) => Man!Terminal(r)
    BY <1>3 DEF Man!Terminal
  <1>7. Man!Terminal(r) => r.due = "none" /\ r.state \in {"stopped", "completed"}
    BY <1>3 DEF Man!Terminal
  <1> QED BY <1>0, <1>3, <1>4, <1>5, <1>6, <1>7 DEF CountedRow, r

-----------------------------------------------------------------------------
(* Steps *)

(* What a step leaves of a call it is not of                                  *)
ManSame(d) ==
  /\ call'[d].pc = call[d].pc /\ call'[d].n = call[d].n /\ call'[d].outcome = call[d].outcome
  /\ call'[d].fresh => call[d].fresh /\ row' = row
(* What a step makes of the row                                               *)
RowFits ==
  /\ row' \in ManRows /\ row.count <= row'.count /\ row'.count <= row.count + 1
  /\ 1..row'.count \subseteq taken
  /\ Man!Terminal(row) => Man!Terminal(row')
  /\ Man!Terminal(row') => row'.due = "none" /\ row'.state \in {"stopped", "completed"}
  /\ row'.marked => (row'.due # "none" <=> row'.state \in {"scheduled", "failed"})
(* The row remains claimed for a number, or does not need to be               *)
NumberHolds(n) == row.status = "pending" => row'.status = "pending" \/ Man!Terminal(row') \/ row'.count >= n

(* The messages and bounds after a step                                       *)
RestFits ==
  /\ message' \in [Man!Numbers -> {"none", "ready", "failed", "ambiguous", "accepted", "delivered"}]
  /\ stamped' \in [Man!Numbers -> BOOLEAN] /\ greeting' \in [Man!Numbers -> Greetings \cup {0}]
  /\ over' \in BOOLEAN /\ faults' \in 0..MaxFaults /\ restarts' \in 0..MaxRestarts
  /\ taken \subseteq taken' /\ taken' \subseteq Man!Numbers
  /\ \A n \in Man!Numbers : message'[n] \in {"accepted", "delivered"} => n \in taken'

LEMMA NothingElse ==
  ASSUME ManualInv, UNCHANGED <<message, stamped, greeting, over, faults, restarts, taken>> PROVE RestFits
  BY Typed DEF ManualInv, RestFits, MessagesAreTrue

LEMMA StillAtWork ==
  ASSUME ManualInv, NEW d \in Approvals, ManSame(d), RowFits, call[d].pc \in AtItPcs => NumberHolds(call[d].n),
         call[d].pc \in AtItPcs => handed'[call[d].n] = handed[call[d].n] /\ refused'[call[d].n] = refused[call[d].n]
  PROVE  AtWork(d)'
  <1> SUFFICES ASSUME call[d].pc \in AtItPcs PROVE AtWork(d)'
    BY DEF AtWork, ManSame
  <1>1. /\ call[d].n <= row.count + 1 /\ ClaimedRow(row, call[d].n) /\ Tally(d)
        /\ call[d].fresh => DueRow(row, call[d].n)
        /\ call[d].pc \in {"answered", "saved"} => call[d].outcome # "none"
    BY DEF ManualInv, AtWork
  <1>2. row.count \in Nat /\ row'.count \in Nat /\ call[d].n \in Nat /\ row.count <= row'.count
    BY Typed DEF ManualInv, ManRows, CallRows, RowFits
  <1>3. call[d].n <= row'.count + 1
    BY <1>1, <1>2
  <1>4. ClaimedRow(row', call'[d].n)
    <2>1. row'.status = "pending" \/ Man!Terminal(row') \/ row'.count >= call[d].n
      BY <1>1, <1>2 DEF ClaimedRow, NumberHolds, RowFits
    <2>2. call'[d].n = call[d].n
      BY DEF ManSame
    <2> QED BY <2>1, <2>2 DEF ClaimedRow
  <1>5. Tally(d)'
    BY <1>1 DEF Tally, ManSame, AtItPcs, Before
  <1>6. call'[d].fresh => row' = row /\ DueRow(row, call[d].n)
    BY <1>1 DEF ManSame
  <1>7. call'[d].fresh => DueRow(row', call'[d].n)
    BY <1>6 DEF DueRow, ManSame
  <1> QED BY <1>1, <1>3, <1>4, <1>5, <1>7 DEF AtWork, ManSame, ClaimedRow

LEMMA StillApart ==
  ASSUME ManualInv,
         \A d \in Approvals : call'[d].pc \in AtItPcs => call[d].pc \in AtItPcs /\ call'[d].n = call[d].n
  PROVE  ManApart'
  BY DEF ManualInv, ManApart

LEMMA StillOpened ==
  ASSUME ManualInv, UNCHANGED <<handed, refused>>, RowFits,
         \A n \in Man!Numbers : handed[n] # refused[n] => NumberHolds(n) \/ row'.state = "ambiguous",
         row.state = "ambiguous" => row'.state = "ambiguous" \/ Man!Terminal(row') \/ row'.count = row.count + 1
  PROVE  Opened'
  <1> SUFFICES ASSUME NEW n \in Man!Numbers, handed[n] # refused[n]
               PROVE  /\ handed[n] = refused[n] + 1 /\ n <= row'.count + 1
                      /\ row'.status = "pending" \/ Man!Terminal(row') \/ row'.count >= n \/ row'.state = "ambiguous"
    BY DEF Opened, ClaimedRow
  <1>1. handed[n] = refused[n] + 1 /\ n <= row.count + 1 /\ (ClaimedRow(row, n) \/ row.state = "ambiguous")
    BY DEF ManualInv, Opened
  <1>2. row.count \in Nat /\ row'.count \in Nat /\ n \in Nat /\ row.count <= row'.count
    BY Typed DEF ManualInv, ManRows, RowFits, Man!Numbers
  <1>3. NumberHolds(n) \/ row'.state = "ambiguous"
    OBVIOUS
  <1>4. n <= row'.count + 1
    BY <1>1, <1>2
  <1>5. row'.status = "pending" \/ Man!Terminal(row') \/ row'.count >= n \/ row'.state = "ambiguous"
    <2>1. CASE row.state = "ambiguous"
      BY <1>1, <1>2, <2>1
    <2>2. CASE row.status = "pending"
      BY <1>3, <2>2 DEF NumberHolds
    <2>3. CASE Man!Terminal(row) \/ row.count >= n
      BY <1>2, <2>3 DEF RowFits
    <2> QED BY <1>1, <2>1, <2>2, <2>3 DEF ClaimedRow
  <1> QED BY <1>1, <1>4, <1>5

LEMMA SameRowFits == ASSUME ManualInv, row' = row PROVE RowFits /\ \A n : NumberHolds(n)
  <1>1. row \in ManRows
    BY Typed DEF ManualInv
  <1>2. row.count \in Nat
    BY <1>1 DEF ManRows
  <1> QED BY <1>1, <1>2 DEF ManualInv, RowFits, NumberHolds, Man!CountIsTrue, EndedIsQuiet, Man!GoesOn

LEMMA CountedFits ==
  ASSUME Man!ManualAssumption, ManualInv, CountedRow(row')
  PROVE  RowFits /\ \A n \in Nat : n <= row.count + 1 => NumberHolds(n)
  <1>1. row.count \in Nat /\ 1..row.count \subseteq taken /\ row'.count = row.count + 1 /\ row'.count \in taken
    BY Typed DEF ManualInv, ManRows, CountedRow, Man!CountIsTrue
  <1>2. 1..row'.count \subseteq taken
    BY <1>1
  <1> QED BY <1>1, <1>2 DEF CountedRow, RowFits, NumberHolds

(* A call that ends writes no row but a counted one.                          *)
LEMMA EndIs ==
  ASSUME ManualInv, NEW c \in Approvals, NEW pc \in Man!Ends, NEW r, Man!End(c, pc, r)
  PROVE  /\ row' = r /\ call' \in [Approvals -> CallRows] /\ lock' \in Approvals \cup {None}
         /\ call'[c].pc = pc /\ call'[c].n = call[c].n /\ call'[c].outcome = call[c].outcome
         /\ \A d \in Approvals \ {c} : ManSame(d)
  <1> DEFINE One(d) == [call[d] EXCEPT !.pc = pc, !.fresh = FALSE]
             Other(d) == [call[d] EXCEPT !.fresh = @ /\ r = row]
  <1>0. row' = r /\ call' = [d \in Approvals |-> IF d = c THEN One(d) ELSE Other(d)]
        /\ lock' = IF lock = c THEN None ELSE lock
    BY DEF Man!End
  <1>1. ASSUME NEW d \in Approvals
        PROVE  /\ One(d) \in CallRows /\ One(d).pc = pc /\ One(d).n = call[d].n /\ One(d).outcome = call[d].outcome
               /\ Other(d) \in CallRows /\ Other(d).pc = call[d].pc /\ Other(d).n = call[d].n
               /\ Other(d).outcome = call[d].outcome /\ Other(d).fresh = (call[d].fresh /\ r = row)
    <2>1. call[d] \in CallRows
      BY Typed DEF ManualInv
    <2> QED BY <2>1 DEF CallRows
  <1> HIDE DEF One, Other
  <1>2. call' \in [Approvals -> CallRows]
    BY <1>0, <1>1
  <1>3. lock' \in Approvals \cup {None}
    BY <1>0, Typed DEF ManualInv
  <1> QED BY <1>0, <1>1, <1>2, <1>3 DEF ManSame

LEMMA EndKeeps ==
  ASSUME Man!ManualAssumption, ManualInv, NEW c \in Approvals, NEW pc \in Man!Ends, NEW r, Man!End(c, pc, r),
         call[c].pc # "new", r = row \/ CountedRow(r),
         UNCHANGED <<handed, refused, taken>>, RestFits
  PROVE  ManualInv' /\ Man!StaysEnded
  <1>1. /\ row' = r /\ call' \in [Approvals -> CallRows] /\ lock' \in Approvals \cup {None}
        /\ call'[c].pc = pc /\ call'[c].n = call[c].n /\ call'[c].outcome = call[c].outcome
        /\ \A d \in Approvals \ {c} : ManSame(d)
    BY EndIs
  <1>2. RowFits /\ \A n \in Nat : n <= row.count + 1 => NumberHolds(n)
    BY <1>1, SameRowFits, CountedFits
  <1>3. pc \notin AtItPcs /\ pc \notin {"answered", "saved"}
    BY DEF Man!Ends, AtItPcs
  <1>4. \A d \in Approvals : call[d].n \in Nat /\ (call[d].pc \in AtItPcs => call[d].n <= row.count + 1)
    BY Typed DEF ManualInv, AtWork, CallRows
  <1>5. \A d \in Approvals : AtWork(d)'
    <2>1. ASSUME NEW d \in Approvals \ {c} PROVE AtWork(d)'
      BY <1>1, <1>2, <1>4, StillAtWork
    <2>2. AtWork(c)'
      BY <1>1, <1>3 DEF AtWork
    <2> QED BY <2>1, <2>2
  <1>6. ManApart'
    BY <1>1, <1>3, StillApart DEF ManSame
  <1>7. Opened'
    <2>1. \A n \in Man!Numbers : handed[n] # refused[n] => NumberHolds(n)
      <3>1. \A n \in Man!Numbers : n \in Nat /\ (handed[n] # refused[n] => n <= row.count + 1)
        BY DEF ManualInv, Opened, Man!Numbers
      <3> QED BY <1>2, <3>1
    <2>2. row' = row \/ row'.count = row.count + 1
      BY <1>1 DEF CountedRow
    <2> QED BY <1>2, <2>1, <2>2, StillOpened
  <1>8. Numbered' /\ MessagesAreTrue'
    <2>1. Numbered'
      BY <1>1 DEF ManualInv, Numbered, ManSame
    <2>2. MessagesAreTrue'
      BY <1>1, <1>3 DEF ManualInv, MessagesAreTrue, ManSame, RestFits
    <2> QED BY <2>1, <2>2
  <1>9. Man!TypeOK'
    <2>1. /\ row' \in ManRows /\ handed' \in [Man!Numbers -> Nat] /\ refused' \in [Man!Numbers -> Nat] /\ taken' \subseteq Man!Numbers
      BY <1>2, Typed DEF ManualInv, RowFits
    <2> QED BY <1>1, <2>1, TypedAfter DEF RestFits
  <1>10. Man!CountIsTrue' /\ EndedIsQuiet' /\ Man!GoesOn' /\ Man!StaysEnded
    BY <1>2 DEF RowFits, Man!CountIsTrue, EndedIsQuiet, Man!GoesOn, Man!StaysEnded
  <1> QED BY <1>5, <1>6, <1>7, <1>8, <1>9, <1>10 DEF ManualInv

(* A call moves on, and the row stays.                                        *)
LEMMA MoveKeeps ==
  ASSUME ManualInv, NEW c \in Approvals, NEW r \in CallRows, call' = [call EXCEPT ![c] = r], row' = row,
         lock' \in Approvals \cup {None}, RestFits,
         handed' \in [Man!Numbers -> Nat], refused' \in [Man!Numbers -> Nat],
         r.pc # "new" => r.n \in Man!Numbers,
         r.pc \in AtItPcs => call[c].pc \in AtItPcs /\ r.n = call[c].n,
         \A n \in Man!Numbers : \/ call[c].pc \in AtItPcs /\ n = call[c].n
                                \/ handed'[n] = handed[n] /\ refused'[n] = refused[n],
         AtWork(c)', Opened',
         r.pc \in {"answered", "saved"} /\ r.outcome = "accepted" => r.n \in taken'
  PROVE  ManualInv' /\ Man!StaysEnded
  <1>1. /\ call' \in [Approvals -> CallRows] /\ call'[c] = r /\ \A d \in Approvals \ {c} : call'[d] = call[d]
    BY Typed DEF ManualInv
  <1>2. RowFits /\ \A n : NumberHolds(n)
    BY SameRowFits
  <1>3. ASSUME NEW d \in Approvals \ {c} PROVE AtWork(d)'
    <2>1. ManSame(d)
      BY <1>1 DEF ManSame
    <2>2. ASSUME call[d].pc \in AtItPcs
          PROVE  handed'[call[d].n] = handed[call[d].n] /\ refused'[call[d].n] = refused[call[d].n]
      <3>1. call[d].n \in Man!Numbers
        BY <2>2 DEF ManualInv, Numbered, AtItPcs
      <3>2. call[c].pc \in AtItPcs => call[c].n # call[d].n
        BY <2>2 DEF ManualInv, ManApart
      <3> QED BY <3>1, <3>2
    <2> QED BY <1>2, <2>1, <2>2, StillAtWork
  <1>4. ManApart'
    BY <1>1, StillApart
  <1>5. Numbered' /\ MessagesAreTrue'
    BY <1>1 DEF ManualInv, Numbered, MessagesAreTrue, RestFits
  <1>6. Man!TypeOK'
    BY <1>1, <1>2, TypedAfter DEF RestFits, RowFits
  <1>7. Man!CountIsTrue' /\ EndedIsQuiet' /\ Man!GoesOn' /\ Man!StaysEnded
    <2>1. 1..row.count \subseteq taken /\ taken \subseteq taken'
      BY DEF ManualInv, Man!CountIsTrue, RestFits
    <2>2. row.count \in Nat
      BY Typed DEF ManualInv, ManRows
    <2> QED BY <2>1, <2>2 DEF ManualInv, Man!CountIsTrue, EndedIsQuiet, Man!GoesOn, Man!StaysEnded
  <1>8. \A d \in Approvals : AtWork(d)'
    BY <1>3
  <1> QED BY <1>4, <1>5, <1>6, <1>7, <1>8 DEF ManualInv

LEMMA OpenStays == ASSUME ManualInv, row' = row, UNCHANGED <<handed, refused>> PROVE Opened'
  BY DEF ManualInv, Opened

LEMMA RowsOfCalls ==
  ASSUME NEW r \in CallRows, NEW pc \in Man!Steps \cup Man!Ends
  PROVE  /\ [r EXCEPT !.pc = pc] \in CallRows /\ [r EXCEPT !.pc = pc].pc = pc
         /\ [r EXCEPT !.pc = pc].n = r.n /\ [r EXCEPT !.pc = pc].outcome = r.outcome
         /\ [r EXCEPT !.pc = pc].fresh = r.fresh
  BY DEF CallRows

LEMMA GotoKeeps ==
  ASSUME ManualInv, NEW c \in Approvals, NEW pc \in Man!Steps, Man!Goto(c, pc), call[c].pc # "new", pc # "new",
         \/ pc \notin AtItPcs
         \/ pc \in Before /\ call[c].pc \in Before
         \/ pc = "saved" /\ call[c].pc = "answered",
         row' = row, lock' \in Approvals \cup {None}, RestFits, UNCHANGED <<handed, refused>>
  PROVE  ManualInv' /\ Man!StaysEnded
  <1> DEFINE r == [call[c] EXCEPT !.pc = pc]
  <1>1. call[c] \in CallRows /\ handed \in [Man!Numbers -> Nat] /\ refused \in [Man!Numbers -> Nat] /\ c \in DOMAIN call
    BY Typed DEF ManualInv
  <1>2. r \in CallRows /\ r.pc = pc /\ r.n = call[c].n /\ r.outcome = call[c].outcome /\ r.fresh = call[c].fresh
    BY <1>1, RowsOfCalls
  <1>3. call' = [call EXCEPT ![c] = r]
    BY DEF Man!Goto
  <1> HIDE DEF r
  <1>4. call'[c] = r
    BY <1>1, <1>3
  <1>5. AtWork(c)'
    <2>1. CASE pc \notin AtItPcs
      BY <1>2, <1>4, <2>1 DEF AtWork
    <2>2. CASE pc \in AtItPcs
      <3>1. call[c].pc \in AtItPcs
        BY <2>2 DEF Before, AtItPcs
      <3>2. /\ call[c].n <= row.count + 1 /\ ClaimedRow(row, call[c].n) /\ Tally(c)
            /\ call[c].fresh => DueRow(row, call[c].n)
            /\ call[c].pc \in {"answered", "saved"} => call[c].outcome # "none"
        BY <3>1 DEF ManualInv, AtWork
      <3>3. Tally(c)'
        BY <1>2, <1>4, <2>2, <3>2 DEF Tally, Before
      <3>4. pc \in {"answered", "saved"} => call[c].outcome # "none"
        BY <2>2, <3>2 DEF Before
      <3> QED BY <1>2, <1>4, <3>2, <3>3, <3>4 DEF AtWork
    <2> QED BY <2>1, <2>2
  <1>6. r.n \in Man!Numbers
    BY <1>2 DEF ManualInv, Numbered
  <1>7. r.pc \in AtItPcs => call[c].pc \in AtItPcs
    BY <1>2 DEF Before, AtItPcs
  <1>8. r.pc \in {"answered", "saved"} /\ r.outcome = "accepted" => r.n \in taken'
    BY <1>2 DEF Before, AtItPcs, ManualInv, MessagesAreTrue, RestFits
  <1> QED BY <1>1, <1>2, <1>3, <1>5, <1>6, <1>7, <1>8, OpenStays, MoveKeeps

(* A claim is given back, or left to whoever changed the row.                 *)
LEMMA DeferKeeps ==
  ASSUME Man!ManualAssumption, ManualInv, NEW c \in Approvals, NEW terminal \in BOOLEAN, Man!Defer(c, terminal),
         call[c].pc \in Before, UNCHANGED <<handed, refused, taken>>, RestFits
  PROVE  ManualInv' /\ Man!StaysEnded
  <1>0. call[c].pc # "new" /\ call[c].pc \in AtItPcs
    BY DEF Before, AtItPcs
  <1>1. CASE ~(call[c].fresh /\ row.status = "pending")
    <2>1. Man!End(c, "locked", row) /\ "locked" \in Man!Ends
      BY <1>1 DEF Man!Defer, Man!Ends
    <2> QED BY <1>0, <2>1, EndKeeps
  <1>2. CASE call[c].fresh /\ row.status = "pending"
    <2> DEFINE pc == IF terminal THEN "stopped" ELSE "deferred"
               r == Man!Deferred(terminal)
    <2>1. Man!End(c, pc, r) /\ pc \in Man!Ends /\ pc \notin AtItPcs /\ pc \notin {"answered", "saved"}
      BY <1>2 DEF Man!Defer, Man!Ends, AtItPcs
    <2>2. DueRow(row, call[c].n) /\ Tally(c) /\ row \in ManRows /\ call[c].n \in Nat
      BY <1>0, <1>2, Typed DEF ManualInv, AtWork, CallRows
    <2>3. handed[call[c].n] = refused[call[c].n]
      BY <2>2 DEF Tally
    <2>4. /\ r \in ManRows /\ r.status = "sent" /\ r.state = (IF terminal THEN "stopped" ELSE "scheduled")
          /\ r.due = (IF terminal THEN "none" ELSE row.due) /\ r.count = row.count /\ r.marked = row.marked
          /\ r.stopped = row.stopped
      <3> DEFINE st == IF terminal THEN "stopped" ELSE "scheduled"
                 du == IF terminal THEN "none" ELSE row.due
      <3>1. r = [row EXCEPT !.status = "sent", !.state = st, !.due = du]
        BY DEF Man!Deferred
      <3>2. st \in {"stopped", "scheduled"} /\ du \in {"none", "later", "now"}
        BY <2>2 DEF ManRows
      <3> HIDE DEF st, du, r
      <3>3. r = [status |-> "sent", state |-> st, due |-> du, count |-> row.count, marked |-> row.marked,
                 stopped |-> row.stopped, attempt |-> row.attempt]
        BY <2>2, <3>1 DEF ManRows
      <3>4. /\ row.count \in 0..Max /\ row.marked \in BOOLEAN /\ row.stopped \in BOOLEAN /\ row.attempt \in Attempts
        BY <2>2 DEF ManRows
      <3> QED BY <3>2, <3>3, <3>4 DEF ManRows, st, du
    <2>5. /\ row' = r /\ call' \in [Approvals -> CallRows] /\ lock' \in Approvals \cup {None}
          /\ call'[c].pc = pc /\ call'[c].n = call[c].n /\ call'[c].outcome = call[c].outcome
          /\ \A d \in Approvals \ {c} : ManSame(d)
      BY <2>1, EndIs
    <2>6. ~row.stopped /\ row.status # "responded" /\ ~Man!Terminal(row) /\ row.due = "now" /\ row.count \in Nat
          /\ call[c].n = row.count + 1
      BY <2>2 DEF DueRow, Man!Terminal, ManRows
    <2> HIDE DEF r, pc
    <2>7. RowFits
      <3>1. Man!Terminal(r) => r.due = "none" /\ r.state = "stopped"
        BY <2>4, <2>6 DEF Man!Terminal
      <3>2. 1..r.count \subseteq taken
        BY <2>4 DEF ManualInv, Man!CountIsTrue
      <3> QED BY <2>4, <2>5, <2>6, <3>1, <3>2 DEF RowFits
    <2>8. \A n \in Nat : n <= row.count => NumberHolds(n)
      BY <2>4, <2>5 DEF NumberHolds
    <2>9. \A d \in Approvals : AtWork(d)'
      <3>1. ASSUME NEW d \in Approvals \ {c} PROVE AtWork(d)'
        <4>1. ASSUME call[d].pc \in AtItPcs PROVE NumberHolds(call[d].n)
          <5>1. call[d].n # call[c].n /\ call[d].n <= row.count + 1 /\ call[d].n \in Nat
            BY <1>0, <4>1, Typed DEF ManualInv, ManApart, AtWork, CallRows
          <5> QED BY <2>6, <2>8, <5>1
        <4> QED BY <2>5, <2>7, <4>1, StillAtWork
      <3>2. AtWork(c)'
        BY <2>1, <2>5 DEF AtWork
      <3> QED BY <3>1, <3>2
    <2>10. ManApart'
      BY <2>1, <2>5, StillApart DEF ManSame
    <2>11. Opened'
      <3>1. ASSUME NEW n \in Man!Numbers, handed[n] # refused[n] PROVE NumberHolds(n)
        <4>1. n # call[c].n /\ n <= row.count + 1 /\ n \in Nat
          BY <2>3, <3>1 DEF ManualInv, Opened, Man!Numbers
        <4> QED BY <2>6, <2>8, <4>1
      <3>2. row.state # "ambiguous"
        BY <2>2 DEF DueRow
      <3> QED BY <2>7, <3>1, <3>2, StillOpened
    <2>12. Numbered' /\ MessagesAreTrue'
      <3>1. Numbered'
        BY <1>0, <2>5 DEF ManualInv, Numbered, ManSame
      <3>2. MessagesAreTrue'
        BY <2>1, <2>5 DEF ManualInv, MessagesAreTrue, ManSame, RestFits
      <3> QED BY <3>1, <3>2
    <2>13. Man!TypeOK'
      <3>1. handed' \in [Man!Numbers -> Nat] /\ refused' \in [Man!Numbers -> Nat] /\ taken' \subseteq Man!Numbers
        BY Typed DEF ManualInv
      <3> QED BY <2>5, <2>7, <3>1, TypedAfter DEF RestFits, RowFits
    <2>14. Man!CountIsTrue' /\ EndedIsQuiet' /\ Man!GoesOn' /\ Man!StaysEnded
      BY <2>7 DEF RowFits, Man!CountIsTrue, EndedIsQuiet, Man!GoesOn, Man!StaysEnded
    <2> QED BY <2>9, <2>10, <2>11, <2>12, <2>13, <2>14 DEF ManualInv
  <1> QED BY <1>1, <1>2

-----------------------------------------------------------------------------
(* Writes by others *)

LEMMA AgedIs ==
  ASSUME ManualInv, call' = Man!Aged
  PROVE  /\ call' \in [Approvals -> CallRows] /\ \A d \in Approvals : ManSame(d)
  <1> DEFINE One(d) == [call[d] EXCEPT !.fresh = FALSE]
  <1>1. ASSUME NEW d \in Approvals
        PROVE  /\ One(d) \in CallRows /\ One(d).pc = call[d].pc /\ One(d).n = call[d].n
               /\ One(d).outcome = call[d].outcome /\ ~One(d).fresh
    <2>1. call[d] \in CallRows
      BY Typed DEF ManualInv
    <2> QED BY <2>1 DEF CallRows
  <1>2. call' = [d \in Approvals |-> One(d)]
    BY DEF Man!Aged
  <1> HIDE DEF One
  <1> QED BY <1>1, <1>2 DEF ManSame

(* The row or a message is written by somebody who is not at work on it.      *)
LEMMA OthersKeep ==
  ASSUME ManualInv, call' \in [Approvals -> CallRows], \A d \in Approvals : ManSame(d), lock' \in Approvals \cup {None},
         UNCHANGED <<handed, refused, taken>>, RestFits, RowFits,
         \A n \in Nat : n <= row.count + 1 => NumberHolds(n),
         row.state = "ambiguous" => row'.state = "ambiguous" \/ Man!Terminal(row') \/ row'.count = row.count + 1
  PROVE  ManualInv' /\ Man!StaysEnded
  <1>1. \A d \in Approvals : AtWork(d)'
    <2>1. ASSUME NEW d \in Approvals PROVE AtWork(d)'
      <3>1. call[d].pc \in AtItPcs => NumberHolds(call[d].n)
        BY Typed DEF ManualInv, AtWork, CallRows
      <3> QED BY <3>1, StillAtWork
    <2> QED BY <2>1
  <1>2. ManApart'
    BY StillApart DEF ManSame
  <1>3. Opened'
    <2>1. \A n \in Man!Numbers : handed[n] # refused[n] => NumberHolds(n)
      BY DEF ManualInv, Opened, Man!Numbers
    <2> QED BY <2>1, StillOpened
  <1>4. Numbered' /\ MessagesAreTrue'
    BY DEF ManualInv, Numbered, MessagesAreTrue, ManSame, RestFits
  <1>5. Man!TypeOK'
    <2>1. handed' \in [Man!Numbers -> Nat] /\ refused' \in [Man!Numbers -> Nat] /\ taken' \subseteq Man!Numbers
      BY Typed DEF ManualInv
    <2> QED BY <2>1, TypedAfter DEF RestFits, RowFits
  <1>6. Man!CountIsTrue' /\ EndedIsQuiet' /\ Man!GoesOn' /\ Man!StaysEnded
    BY DEF RowFits, Man!CountIsTrue, EndedIsQuiet, Man!GoesOn, Man!StaysEnded
  <1> QED BY <1>1, <1>2, <1>3, <1>4, <1>5, <1>6 DEF ManualInv

LEMMA AgedKeeps ==
  ASSUME ManualInv, call' = Man!Aged,
         UNCHANGED <<handed, refused, taken, lock>>, RestFits, RowFits,
         \A n \in Nat : n <= row.count + 1 => NumberHolds(n),
         row.state = "ambiguous" => row'.state = "ambiguous" \/ Man!Terminal(row') \/ row'.count = row.count + 1
  PROVE  ManualInv' /\ Man!StaysEnded
  <1>1. lock' \in Approvals \cup {None}
    BY Typed DEF ManualInv
  <1> QED BY <1>1, AgedIs, OthersKeep

LEMMA StartKeeps == ASSUME ManualInv, Man!Start PROVE ManualInv' /\ Man!StaysEnded
  <1>0. row \in ManRows
    BY Typed DEF ManualInv
  <1>1. /\ row' \in ManRows /\ row'.status = row.status /\ row'.state = "scheduled" /\ row'.due = "later"
        /\ row'.count = row.count /\ row'.marked /\ row'.stopped = row.stopped
    BY <1>0 DEF Man!Start, ManRows
  <1>2. row.status = "sent" /\ row.state = "none" /\ row.count \in Nat
    BY <1>0 DEF Man!Start, ManRows
  <1>3. Man!Terminal(row) => FALSE
    BY <1>2 DEF ManualInv, EndedIsQuiet
  <1>4. ~Man!Terminal(row')
    BY <1>1, <1>2, <1>3 DEF Man!Terminal
  <1>5. RowFits
    BY <1>1, <1>2, <1>3, <1>4 DEF RowFits, ManualInv, Man!CountIsTrue
  <1>6. \A n : NumberHolds(n)
    BY <1>2 DEF NumberHolds
  <1>7. RestFits
    BY NothingElse DEF Man!Start, Man!mail
  <1> QED BY <1>2, <1>5, <1>6, <1>7, AgedKeeps DEF Man!Start, Man!mail

LEMMA StopKeeps == ASSUME ManualInv, Man!Stop PROVE ManualInv' /\ Man!StaysEnded
  <1>0. row \in ManRows
    BY Typed DEF ManualInv
  <1>1. /\ row' \in ManRows /\ row'.state = "stopped" /\ row'.due = "none" /\ row'.count = row.count
    BY <1>0 DEF Man!Stop, ManRows
  <1>2. row.count \in Nat
    BY <1>0 DEF ManRows
  <1>4. Man!Terminal(row')
    BY <1>1 DEF Man!Terminal
  <1>5. RowFits
    BY <1>1, <1>2, <1>4 DEF RowFits, ManualInv, Man!CountIsTrue
  <1>6. \A n : NumberHolds(n)
    BY <1>4 DEF NumberHolds
  <1>7. RestFits
    BY NothingElse DEF Man!Stop, Man!mail
  <1> QED BY <1>4, <1>5, <1>6, <1>7, AgedKeeps DEF Man!Stop, Man!mail

LEMMA RespondedKeeps == ASSUME ManualInv, Man!Responded PROVE ManualInv' /\ Man!StaysEnded
  <1>0. row \in ManRows
    BY Typed DEF ManualInv
  <1>1. /\ row' \in ManRows /\ row'.state = "stopped" /\ row'.due = "none" /\ row'.count = row.count
    BY <1>0 DEF Man!Responded, ManRows
  <1>2. row.count \in Nat
    BY <1>0 DEF ManRows
  <1>4. Man!Terminal(row')
    BY <1>1 DEF Man!Terminal
  <1>5. RowFits
    BY <1>1, <1>2, <1>4 DEF RowFits, ManualInv, Man!CountIsTrue
  <1>6. \A n : NumberHolds(n)
    BY <1>4 DEF NumberHolds
  <1>7. RestFits
    BY NothingElse DEF Man!Responded, Man!mail
  <1> QED BY <1>4, <1>5, <1>6, <1>7, AgedKeeps DEF Man!Responded, Man!mail

LEMMA ReportKeeps == ASSUME ManualInv, NEW n \in Man!Numbers, Man!Report(n) PROVE ManualInv' /\ Man!StaysEnded
  <1>1. RowFits /\ \A k : NumberHolds(k)
    BY SameRowFits DEF Man!Report
  <1>2. RestFits
    BY Typed DEF Man!Report, Man!mail, RestFits, ManualInv, MessagesAreTrue
  <1>3. row' = row /\ call' = Man!Aged /\ UNCHANGED <<handed, refused, taken, lock>>
    BY DEF Man!Report, Man!mail
  <1> QED BY <1>1, <1>2, <1>3, AgedKeeps

LEMMA ReconcilableIs ==
  ASSUME Man!ManualAssumption, ManualInv PROVE Man!Reconcilable \in Man!Numbers
  <1>1. row.count \in 0..Max /\ row.attempt.n \in 0..Max
    BY Typed DEF ManualInv, ManRows, Attempts
  <1> QED BY <1>1 DEF Man!Reconcilable, Man!Numbers, Man!ManualAssumption

LEMMA StatusKeeps == ASSUME Man!ManualAssumption, ManualInv, Man!Status PROVE ManualInv' /\ Man!StaysEnded
  <1>1. CountedRow(row')
    BY ReconcilableIs, AcceptedDoes DEF Man!Status
  <1>2. RowFits /\ \A n \in Nat : n <= row.count + 1 => NumberHolds(n)
    BY <1>1, CountedFits
  <1>3. RestFits
    BY NothingElse DEF Man!Status, Man!mail
  <1>4. row'.count = row.count + 1
    BY <1>1 DEF CountedRow
  <1> HIDE DEF CountedRow
  <1> QED BY <1>2, <1>3, <1>4, AgedKeeps DEF Man!Status, Man!mail

LEMMA OverKeeps == ASSUME ManualInv, Man!Over PROVE ManualInv' /\ Man!StaysEnded
  <1>1. RowFits /\ \A k : NumberHolds(k)
    BY SameRowFits DEF Man!Over
  <1>2. RestFits
    BY Typed DEF Man!Over, Man!mail, RestFits, ManualInv, MessagesAreTrue
  <1>3. call' \in [Approvals -> CallRows] /\ (\A d \in Approvals : ManSame(d)) /\ lock' \in Approvals \cup {None}
    BY Typed DEF Man!Over, ManualInv, ManSame
  <1> QED BY <1>1, <1>2, <1>3, OthersKeep DEF Man!Over, Man!mail

(* The due time comes: no call that works on it can be fresh.                 *)
LEMMA DueComesKeeps == ASSUME ManualInv, Man!DueComes PROVE ManualInv' /\ Man!StaysEnded
  <1>0. row \in ManRows /\ row.due = "later"
    BY Typed DEF ManualInv, Man!DueComes
  <1>1. /\ row' \in ManRows /\ row'.status = row.status /\ row'.state = row.state /\ row'.due = "now"
        /\ row'.count = row.count /\ row'.marked = row.marked /\ row'.stopped = row.stopped
    BY <1>0 DEF Man!DueComes, ManRows
  <1>2. row.count \in Nat
    BY <1>0 DEF ManRows
  <1>3. ~Man!Terminal(row) /\ ~Man!Terminal(row')
    BY <1>0, <1>1 DEF ManualInv, EndedIsQuiet, Man!Terminal
  <1>4. RowFits
    BY <1>0, <1>1, <1>2, <1>3 DEF RowFits, ManualInv, Man!CountIsTrue, Man!GoesOn
  <1>5. \A n : NumberHolds(n)
    BY <1>1 DEF NumberHolds
  <1>6. RestFits
    BY NothingElse DEF Man!DueComes, Man!mail
  <1>7. UNCHANGED <<call, handed, refused, taken, lock>>
    BY DEF Man!DueComes, Man!mail
  <1>8. \A d \in Approvals : AtWork(d)'
    <2>1. ASSUME NEW d \in Approvals, call[d].pc \in AtItPcs PROVE AtWork(d)'
      <3>1. AtWork(d)
        BY DEF ManualInv
      <3>2. ~call[d].fresh
        BY <1>0, <2>1, <3>1 DEF AtWork, DueRow
      <3>3. ClaimedRow(row', call[d].n) /\ Tally(d)'
        BY <1>1, <1>3, <1>7, <2>1, <3>1 DEF AtWork, ClaimedRow, Tally
      <3> QED BY <1>1, <1>7, <2>1, <3>1, <3>2, <3>3 DEF AtWork
    <2> QED BY <1>7, <2>1 DEF AtWork
  <1>9. ManApart' /\ Numbered' /\ MessagesAreTrue'
    BY <1>6, <1>7 DEF ManualInv, ManApart, Numbered, MessagesAreTrue, RestFits
  <1>10. Opened'
    BY <1>1, <1>4, <1>5, <1>7, StillOpened
  <1>11. Man!TypeOK'
    <2>1. handed' \in [Man!Numbers -> Nat] /\ refused' \in [Man!Numbers -> Nat] /\ taken' \subseteq Man!Numbers
          /\ lock' \in Approvals \cup {None} /\ call' \in [Approvals -> CallRows]
      BY <1>7, Typed DEF ManualInv
    <2> QED BY <1>1, <1>6, <2>1, TypedAfter DEF RestFits
  <1>12. Man!CountIsTrue' /\ EndedIsQuiet' /\ Man!GoesOn' /\ Man!StaysEnded
    BY <1>3, <1>4, <1>7 DEF RowFits, Man!CountIsTrue, EndedIsQuiet, Man!GoesOn, Man!StaysEnded
  <1> QED BY <1>8, <1>9, <1>10, <1>11, <1>12 DEF ManualInv

-----------------------------------------------------------------------------
(* The call itself *)

LEMMA PrepareKeeps ==
  ASSUME Man!ManualAssumption, ManualInv, NEW c \in Approvals, Man!Prepare(c) PROVE ManualInv' /\ Man!StaysEnded
  <1>1. PICK g \in Man!Proposals(row.count + 1) :
          call' = [call EXCEPT ![c] = [@ EXCEPT !.pc = "prepared", !.n = row.count + 1, !.text = g, !.fresh = TRUE]]
    BY DEF Man!Prepare
  <1>2. call[c] \in CallRows /\ row \in ManRows /\ handed \in [Man!Numbers -> Nat] /\ refused \in [Man!Numbers -> Nat]
        /\ lock \in Approvals \cup {None} /\ greeting \in [Man!Numbers -> Greetings \cup {0}] /\ call \in [Approvals -> CallRows]
    BY Typed DEF ManualInv
  <1>3. row.count \in 0..Max /\ row.count < Max
    <2>1. row.count \in 0..Max
      BY <1>2 DEF ManRows
    <2>2. Man!Projected \in {"due", "retry"}
      BY DEF Man!Prepare
    <2>3. row.count # Max
      BY <2>2 DEF Man!Projected
    <2> QED BY <2>1, <2>3, NumbersAre
  <1>4. row.count + 1 \in Man!Numbers /\ row.count + 1 \in 0..Max
    BY <1>3, NumbersAre
  <1>5. g \in Greetings \cup {0}
    BY <1>1, <1>2, <1>4 DEF Man!Proposals
  <1> DEFINE r == [call[c] EXCEPT !.pc = "prepared", !.n = row.count + 1, !.text = g, !.fresh = TRUE]
  <1>6. r \in CallRows /\ r.pc = "prepared" /\ r.n = row.count + 1
    BY <1>2, <1>4, <1>5 DEF CallRows, Man!Steps
  <1>7. call' = [call EXCEPT ![c] = r]
    BY <1>1
  <1> HIDE DEF r
  <1>8. RestFits /\ row' = row /\ UNCHANGED <<handed, refused, lock>>
    BY NothingElse DEF Man!Prepare, Man!mail
  <1>9. AtWork(c)'
    BY <1>2, <1>6, <1>7 DEF AtWork, AtItPcs
  <1>10. r.pc \notin AtItPcs /\ r.pc \notin {"answered", "saved"}
    BY <1>6 DEF AtItPcs
  <1> QED BY <1>2, <1>4, <1>6, <1>7, <1>8, <1>9, <1>10, OpenStays, MoveKeeps

LEMMA EndsAre == {"sent", "stale", "locked", "deferred", "stopped", "ambiguous", "failed", "lost"} \subseteq Man!Ends
  BY DEF Man!Ends

LEMMA ApproveKeeps ==
  ASSUME Man!ManualAssumption, ManualInv, NEW c \in Approvals, Man!Approve(c) PROVE ManualInv' /\ Man!StaysEnded
  <1>1. RestFits /\ UNCHANGED <<handed, refused, taken>>
    BY NothingElse DEF Man!Approve, Man!mail
  <1>2. call[c].pc = "prepared"
    BY DEF Man!Approve
  <1>3. CASE Man!End(c, "sent", Man!Accepted(Man!Reconcilable))
    BY <1>1, <1>2, <1>3, ReconcilableIs, AcceptedDoes, EndKeeps, EndsAre
  <1>4. CASE Man!End(c, "stale", row)
    BY <1>1, <1>2, <1>4, EndKeeps, EndsAre
  <1>5. CASE Man!Goto(c, "approved") /\ UNCHANGED <<row, lock>>
    <2>1. "approved" \in Man!Steps /\ "approved" \notin AtItPcs
      BY DEF Man!Steps, AtItPcs
    <2>2. lock' \in Approvals \cup {None}
      BY <1>5, Typed DEF ManualInv
    <2> QED BY <1>1, <1>2, <1>5, <2>1, <2>2, GotoKeeps
  <1> QED BY <1>3, <1>4, <1>5 DEF Man!Approve

LEMMA LockKeeps ==
  ASSUME Man!ManualAssumption, ManualInv, NEW c \in Approvals, Man!Lock(c) PROVE ManualInv' /\ Man!StaysEnded
  <1>1. RestFits /\ UNCHANGED <<handed, refused, taken>>
    BY NothingElse DEF Man!Lock, Man!mail
  <1>2. call[c].pc = "approved"
    BY DEF Man!Lock
  <1>3. CASE Man!End(c, "locked", row)
    BY <1>1, <1>2, <1>3, EndKeeps, EndsAre
  <1>4. CASE lock' = c /\ Man!Goto(c, "held") /\ UNCHANGED row
    <2>1. "held" \in Man!Steps /\ "held" \notin AtItPcs
      BY DEF Man!Steps, AtItPcs
    <2> QED BY <1>1, <1>2, <1>4, <2>1, GotoKeeps
  <1> QED BY <1>3, <1>4 DEF Man!Lock

(* The claim: nobody else works on the number, and it has not been handed     *)
(* over more often than refused.                                              *)
LEMMA ClaimKeeps ==
  ASSUME Man!ManualAssumption, ManualInv, NEW c \in Approvals, Man!Claim(c) PROVE ManualInv' /\ Man!StaysEnded
  <1>1. RestFits /\ UNCHANGED <<handed, refused, taken>>
    BY NothingElse DEF Man!Claim, Man!mail
  <1>2. call[c].pc = "held" /\ call[c].n \in Man!Numbers
    BY DEF Man!Claim, ManualInv, Numbered
  <1>3. CASE Man!End(c, "sent", Man!Accepted(call[c].n))
    BY <1>1, <1>2, <1>3, AcceptedDoes, EndKeeps, EndsAre
  <1>4. CASE Man!End(c, IF row.state = "ambiguous" THEN "ambiguous" ELSE "locked", row)
    BY <1>1, <1>2, <1>4, EndKeeps, EndsAre
  <1>5. CASE /\ Man!Claimable(c) /\ row' = [row EXCEPT !.status = "pending"] /\ lock' = lock
             /\ call' = [d \in Approvals |-> IF d = c THEN [call[d] EXCEPT !.pc = "claimed"]
                                         ELSE [call[d] EXCEPT !.fresh = FALSE]]
    <2> DEFINE n == call[c].n
    <2>1. row \in ManRows /\ call \in [Approvals -> CallRows] /\ row.count \in Nat /\ n \in Nat
          /\ handed \in [Man!Numbers -> Nat] /\ refused \in [Man!Numbers -> Nat] /\ lock \in Approvals \cup {None}
      BY Typed DEF ManualInv, ManRows, CallRows
    <2>2. /\ call[c].fresh /\ row.marked /\ n = row.count + 1 /\ ~Man!Terminal(row)
          /\ row.due = "now" /\ row.state \in {"scheduled", "failed"} /\ row.status \in {"sent", "failed"}
      BY <1>5 DEF Man!Claimable, Man!ContextStands
    <2>3. /\ row' \in ManRows /\ row'.status = "pending" /\ row'.state = row.state /\ row'.due = row.due
          /\ row'.count = row.count /\ row'.marked = row.marked /\ row'.stopped = row.stopped
      BY <1>5, <2>1 DEF ManRows
    <2>4. ~Man!Terminal(row')
      BY <2>2, <2>3 DEF Man!Terminal
    <2>5. ~ClaimedRow(row, n) /\ row.state # "ambiguous"
      BY <2>1, <2>2 DEF ClaimedRow
    <2>6. handed[n] = refused[n]
      BY <1>2, <2>5 DEF ManualInv, Opened
    <2>7. \A d \in Approvals : call[d].pc \in AtItPcs => call[d].n # n
      BY <2>5 DEF ManualInv, AtWork
    <2> DEFINE One(d) == [call[d] EXCEPT !.pc = "claimed"]
               Other(d) == [call[d] EXCEPT !.fresh = FALSE]
    <2>8. ASSUME NEW d \in Approvals
          PROVE  /\ One(d) \in CallRows /\ One(d).pc = "claimed" /\ One(d).n = call[d].n
                 /\ One(d).outcome = call[d].outcome
                 /\ Other(d) \in CallRows /\ Other(d).pc = call[d].pc /\ Other(d).n = call[d].n
                 /\ Other(d).outcome = call[d].outcome /\ ~Other(d).fresh
      <3>1. call[d] \in CallRows
        BY <2>1
      <3> QED BY <3>1 DEF CallRows, Man!Steps
    <2>9. call' = [d \in Approvals |-> IF d = c THEN One(d) ELSE Other(d)]
      BY <1>5
    <2> HIDE DEF One, Other
    <2>10. call' \in [Approvals -> CallRows] /\ call'[c].pc = "claimed" /\ call'[c].n = n
      BY <2>8, <2>9
    <2>11. \A d \in Approvals \ {c} : ManSame(d)
      BY <2>8, <2>9 DEF ManSame
    <2>12. RowFits /\ \A k : NumberHolds(k)
      BY <2>1, <2>2, <2>3, <2>4 DEF RowFits, NumberHolds, ManualInv, Man!CountIsTrue
    <2>13. \A d \in Approvals : AtWork(d)'
      <3>1. ASSUME NEW d \in Approvals \ {c} PROVE AtWork(d)'
        BY <1>1, <2>11, <2>12, StillAtWork
      <3>2. AtWork(c)'
        <4>1. Tally(c)'
          BY <1>1, <2>6, <2>10 DEF Tally, Before
        <4>2. DueRow(row', n) /\ ClaimedRow(row', n) /\ n <= row'.count + 1
          BY <2>1, <2>2, <2>3, <2>4 DEF DueRow, ClaimedRow
        <4> HIDE DEF n
        <4> QED BY <2>10, <4>1, <4>2 DEF AtWork
      <3> QED BY <3>1, <3>2
    <2>14. ManApart'
      <3>1. \A d \in Approvals : d # c /\ call'[d].pc \in AtItPcs => call[d].pc \in AtItPcs /\ call'[d].n = call[d].n
        BY <2>11 DEF ManSame
      <3>2. \A d \in Approvals : d # c /\ call'[d].pc \in AtItPcs => call'[d].n # call'[c].n
        BY <2>7, <2>10, <3>1
      <3> QED BY <3>1, <3>2 DEF ManualInv, ManApart
    <2>15. Opened'
      BY <1>1, <2>2, <2>12, StillOpened
    <2>16. Numbered' /\ MessagesAreTrue'
      <3>1. Numbered'
        BY <1>2, <2>10, <2>11 DEF ManualInv, Numbered, ManSame
      <3>2. MessagesAreTrue'
        BY <1>1, <2>10, <2>11 DEF ManualInv, MessagesAreTrue, ManSame, RestFits
      <3> QED BY <3>1, <3>2
    <2>17. Man!TypeOK'
      <3>1. handed' \in [Man!Numbers -> Nat] /\ refused' \in [Man!Numbers -> Nat] /\ taken' \subseteq Man!Numbers
            /\ lock' \in Approvals \cup {None}
        BY <1>1, <1>5, Typed DEF ManualInv
      <3> QED BY <1>1, <2>3, <2>10, <3>1, TypedAfter DEF RestFits
    <2>18. Man!CountIsTrue' /\ EndedIsQuiet' /\ Man!GoesOn' /\ Man!StaysEnded
      BY <1>1, <2>12 DEF RowFits, Man!CountIsTrue, EndedIsQuiet, Man!GoesOn, Man!StaysEnded
    <2> QED BY <2>13, <2>14, <2>15, <2>16, <2>17, <2>18 DEF ManualInv
  <1> QED BY <1>3, <1>4, <1>5 DEF Man!Claim

LEMMA StepsAre == {"persisted", "cleared", "renewed"} \subseteq Man!Steps \cap Before
                  /\ "claimed" \in Before /\ Before \subseteq AtItPcs /\ {"handed", "answered", "saved"} \subseteq AtItPcs
  BY DEF Man!Steps, Before, AtItPcs

LEMMA OnwardKeeps ==
  ASSUME ManualInv, NEW c \in Approvals, NEW pc \in {"persisted", "cleared", "renewed"}, Man!Goto(c, pc),
         call[c].pc \in Before, RestFits, UNCHANGED <<handed, refused, row, lock>>
  PROVE  ManualInv' /\ Man!StaysEnded
  <1>1. call[c].pc # "new" /\ pc # "new" /\ pc \in Man!Steps /\ pc \in Before
    BY StepsAre DEF Before
  <1>2. lock' \in Approvals \cup {None}
    BY Typed DEF ManualInv
  <1> QED BY <1>1, <1>2, GotoKeeps

LEMMA PersistKeeps ==
  ASSUME Man!ManualAssumption, ManualInv, NEW c \in Approvals, Man!Persist(c) PROVE ManualInv' /\ Man!StaysEnded
  <1> DEFINE n == call[c].n
  <1>1. call[c].pc = "claimed" /\ call[c].pc \in Before /\ n \in Man!Numbers /\ UNCHANGED <<handed, refused, taken>>
    BY StepsAre DEF Man!Persist, Man!mail, ManualInv, Numbered
  <1>2. RestFits
    <2>1. /\ message \in [Man!Numbers -> {"none", "ready", "failed", "ambiguous", "accepted", "delivered"}]
          /\ stamped \in [Man!Numbers -> BOOLEAN] /\ greeting \in [Man!Numbers -> Greetings \cup {0}]
          /\ over \in BOOLEAN /\ faults \in 0..MaxFaults /\ restarts \in 0..MaxRestarts /\ taken \subseteq Man!Numbers
          /\ \A k \in Man!Numbers : message[k] \in {"accepted", "delivered"} => k \in taken
      BY Typed DEF ManualInv, MessagesAreTrue
    <2>2. UNCHANGED <<stamped, taken, over, faults, restarts>>
      BY DEF Man!Persist, Man!mail
    <2>3. CASE UNCHANGED <<message, greeting>>
      BY <2>1, <2>2, <2>3 DEF RestFits
    <2>4. CASE message' = [message EXCEPT ![n] = "ready"] /\ greeting' = [greeting EXCEPT ![n] = call[c].text]
      <3>1. call[c].text \in Greetings \cup {0}
        BY Typed DEF ManualInv, CallRows
      <3> HIDE DEF n
      <3>2. /\ message' \in [Man!Numbers -> {"none", "ready", "failed", "ambiguous", "accepted", "delivered"}]
            /\ greeting' \in [Man!Numbers -> Greetings \cup {0}]
            /\ \A k \in Man!Numbers : message'[k] \in {"accepted", "delivered"} => message[k] \in {"accepted", "delivered"}
        BY <2>1, <2>4, <3>1
      <3> QED BY <2>1, <2>2, <3>2 DEF RestFits
    <2> QED BY <2>3, <2>4 DEF Man!Persist
  <1>3. CASE Man!Defer(c, FALSE)
    BY <1>1, <1>2, <1>3, DeferKeeps
  <1>4. CASE Man!Defer(c, TRUE)
    BY <1>1, <1>2, <1>4, DeferKeeps
  <1>5. CASE Man!Goto(c, "persisted") /\ UNCHANGED <<row, lock>>
    BY <1>1, <1>2, <1>5, OnwardKeeps
  <1>6. CASE Man!End(c, "sent", Man!Accepted(n))
    BY <1>1, <1>2, <1>6, AcceptedDoes, EndKeeps, EndsAre
  <1>7. CASE Man!End(c, "ambiguous", row)
    BY <1>1, <1>2, <1>7, EndKeeps, EndsAre
  <1> QED BY <1>3, <1>4, <1>5, <1>6, <1>7 DEF Man!Persist

LEMMA AuthorityKeeps ==
  ASSUME Man!ManualAssumption, ManualInv, NEW c \in Approvals, Man!Authority(c) PROVE ManualInv' /\ Man!StaysEnded
  <1>1. call[c].pc \in Before /\ RestFits /\ UNCHANGED <<handed, refused, taken>>
    BY NothingElse DEF Man!Authority, Man!mail, Before
  <1>2. CASE Man!Defer(c, TRUE)
    BY <1>1, <1>2, DeferKeeps
  <1>3. CASE Man!Goto(c, "cleared") /\ UNCHANGED <<row, lock>>
    BY <1>1, <1>3, OnwardKeeps
  <1> QED BY <1>2, <1>3 DEF Man!Authority

LEMMA RenewKeeps ==
  ASSUME Man!ManualAssumption, ManualInv, NEW c \in Approvals, Man!Renew(c) PROVE ManualInv' /\ Man!StaysEnded
  <1>1. call[c].pc = "cleared" /\ call[c].pc \in Before /\ RestFits /\ UNCHANGED <<handed, refused, taken>>
    BY NothingElse DEF Man!Renew, Man!mail, Before
  <1>2. CASE Man!Defer(c, FALSE)
    BY <1>1, <1>2, DeferKeeps
  <1>3. CASE Man!Goto(c, "renewed") /\ UNCHANGED <<row, lock>>
    BY <1>1, <1>3, OnwardKeeps
  <1>4. CASE Man!End(c, "locked", row)
    BY <1>1, <1>4, EndKeeps, EndsAre
  <1> QED BY <1>2, <1>3, <1>4 DEF Man!Renew

(* The hand-over: the number is refused as often as it was handed over.       *)
LEMMA HandKeeps ==
  ASSUME Man!ManualAssumption, ManualInv, NEW c \in Approvals, Man!Hand(c) PROVE ManualInv' /\ Man!StaysEnded
  <1>1. call[c].pc = "renewed" /\ call[c].pc \in Before /\ call[c].pc \in AtItPcs
    BY DEF Man!Hand, Before, AtItPcs
  <1>2. RestFits
    <2>1. UNCHANGED <<message, stamped, greeting, taken, over, faults, restarts>>
      BY DEF Man!Hand
    <2> QED BY <2>1, NothingElse
  <1>3. CASE Man!Defer(c, TRUE) /\ UNCHANGED handed
    <2>1. UNCHANGED <<refused, taken>>
      BY DEF Man!Hand
    <2> QED BY <1>1, <1>2, <1>3, <2>1, DeferKeeps
  <1>4. CASE handed' = [handed EXCEPT ![call[c].n] = @ + 1] /\ Man!Goto(c, "handed") /\ UNCHANGED <<row, lock>>
    <2> DEFINE n == call[c].n
               r == [call[c] EXCEPT !.pc = "handed"]
    <2>1. /\ n \in Man!Numbers /\ call[c] \in CallRows /\ handed \in [Man!Numbers -> Nat] /\ refused \in [Man!Numbers -> Nat]
          /\ lock \in Approvals \cup {None} /\ call \in [Approvals -> CallRows]
      BY <1>1, Typed DEF ManualInv, Numbered
    <2>2. n <= row.count + 1 /\ ClaimedRow(row, n) /\ handed[n] = refused[n] /\ (call[c].fresh => DueRow(row, n))
      BY <1>1 DEF ManualInv, AtWork, Tally
    <2>3. r \in CallRows /\ r.pc = "handed" /\ r.n = n /\ r.outcome = call[c].outcome /\ r.fresh = call[c].fresh
      BY <2>1, RowsOfCalls DEF Man!Steps
    <2>4. call' = [call EXCEPT ![c] = r]
      BY <1>4 DEF Man!Goto
    <2> HIDE DEF r, n
    <2>5. handed' = [handed EXCEPT ![n] = @ + 1] /\ refused' = refused /\ row' = row /\ lock' = lock
      BY <1>4 DEF Man!Hand, n
    <2>6. /\ handed' \in [Man!Numbers -> Nat] /\ handed'[n] = refused[n] + 1
          /\ \A k \in Man!Numbers : k # n => handed'[k] = handed[k]
      BY <2>1, <2>2, <2>5
    <2>7. call'[c] = r
      BY <2>1, <2>4
    <2>8. AtWork(c)'
      <3>1. Tally(c)'
        BY <2>3, <2>5, <2>6, <2>7 DEF Tally, Before
      <3> QED BY <2>2, <2>3, <2>5, <2>7, <3>1 DEF AtWork
    <2>9. Opened'
      <3>1. ASSUME NEW k \in Man!Numbers, handed'[k] # refused'[k]
            PROVE  /\ handed'[k] = refused'[k] + 1 /\ k <= row'.count + 1
                   /\ ClaimedRow(row', k) \/ row'.state = "ambiguous"
        <4>1. CASE k = n
          BY <2>2, <2>5, <2>6, <4>1
        <4>2. CASE k # n
          BY <2>5, <2>6, <3>1, <4>2 DEF ManualInv, Opened
        <4> QED BY <4>1, <4>2
      <3> QED BY <3>1 DEF Opened
    <2>10. /\ lock' \in Approvals \cup {None} /\ refused' \in [Man!Numbers -> Nat] /\ r.n \in Man!Numbers
           /\ r.pc \notin {"answered", "saved"} /\ r.n = call[c].n
           /\ \A k \in Man!Numbers : \/ call[c].pc \in AtItPcs /\ k = call[c].n
                                     \/ handed'[k] = handed[k] /\ refused'[k] = refused[k]
      BY <1>1, <2>1, <2>3, <2>5, <2>6 DEF n
    <2> QED BY <1>1, <1>2, <2>3, <2>4, <2>5, <2>6, <2>8, <2>9, <2>10, MoveKeeps
  <1> QED BY <1>3, <1>4 DEF Man!Hand

(* The answer, or none                                                        *)
LEMMA AnswerKeeps ==
  ASSUME Man!ManualAssumption, ManualInv, NEW c \in Approvals, Man!Answer(c) PROVE ManualInv' /\ Man!StaysEnded
  <1> DEFINE n == call[c].n
  <1>1. PICK outcome \in {"accepted", "failed", "ambiguous"} :
          /\ call' = [call EXCEPT ![c].pc = "answered", ![c].outcome = outcome]
          /\ refused' = IF outcome = "failed" THEN [refused EXCEPT ![n] = @ + 1] ELSE refused
          /\ taken' \in IF outcome = "accepted" THEN {taken \cup {n}}
                        ELSE IF outcome = "ambiguous" THEN {taken, taken \cup {n}} ELSE {taken}
    BY DEF Man!Answer
  <1> DEFINE r == [call[c] EXCEPT !.pc = "answered", !.outcome = outcome]
  <1>2. call[c].pc = "handed" /\ call[c].pc \in AtItPcs /\ UNCHANGED <<row, message, stamped, greeting, handed, lock, over, faults, restarts>>
    BY DEF Man!Answer, AtItPcs
  <1>3. /\ n \in Man!Numbers /\ call[c] \in CallRows /\ handed \in [Man!Numbers -> Nat] /\ refused \in [Man!Numbers -> Nat]
        /\ lock \in Approvals \cup {None} /\ call \in [Approvals -> CallRows] /\ taken \subseteq Man!Numbers
    BY <1>2, Typed DEF ManualInv, Numbered
  <1>4. n <= row.count + 1 /\ ClaimedRow(row, n) /\ handed[n] = refused[n] + 1 /\ (call[c].fresh => DueRow(row, n))
    BY <1>2 DEF ManualInv, AtWork, Tally
  <1>5. r \in CallRows /\ r.pc = "answered" /\ r.n = n /\ r.outcome = outcome /\ r.fresh = call[c].fresh
    BY <1>3 DEF CallRows, Man!Steps
  <1>6. call' = [call EXCEPT ![c] = r]
    BY <1>1, <1>3
  <1> HIDE DEF r, n
  <1>7. taken \subseteq taken' /\ taken' \subseteq Man!Numbers /\ (outcome = "accepted" => n \in taken')
    BY <1>1, <1>3
  <1>8. /\ refused' \in [Man!Numbers -> Nat] /\ refused'[n] = refused[n] + (IF outcome = "failed" THEN 1 ELSE 0)
        /\ \A k \in Man!Numbers : k # n => refused'[k] = refused[k]
    BY <1>1, <1>3
  <1>9. call'[c] = r
    BY <1>3, <1>6
  <1>10. refused[n] \in Nat
    BY <1>3
  <1>11. handed'[n] = refused'[n] + (IF outcome = "failed" THEN 0 ELSE 1)
    BY <1>2, <1>4, <1>8, <1>10
  <1>12. AtWork(c)'
    <2>1. Tally(c)'
      BY <1>5, <1>9, <1>11 DEF Tally, Before
    <2> QED BY <1>2, <1>4, <1>5, <1>9, <2>1 DEF AtWork
  <1>13. Opened'
    <2>1. ASSUME NEW k \in Man!Numbers, handed'[k] # refused'[k]
          PROVE  /\ handed'[k] = refused'[k] + 1 /\ k <= row'.count + 1
                 /\ ClaimedRow(row', k) \/ row'.state = "ambiguous"
      <3>1. CASE k = n
        <4>1. outcome # "failed"
          BY <1>8, <1>10, <1>11, <2>1, <3>1
        <4> QED BY <1>2, <1>4, <1>11, <3>1, <4>1
      <3>2. CASE k # n
        BY <1>2, <1>8, <2>1, <3>2 DEF ManualInv, Opened
      <3> QED BY <3>1, <3>2
    <2> QED BY <2>1 DEF Opened
  <1>14. RestFits
    <2>1. /\ message \in [Man!Numbers -> {"none", "ready", "failed", "ambiguous", "accepted", "delivered"}]
          /\ stamped \in [Man!Numbers -> BOOLEAN] /\ greeting \in [Man!Numbers -> Greetings \cup {0}]
          /\ over \in BOOLEAN /\ faults \in 0..MaxFaults /\ restarts \in 0..MaxRestarts
          /\ \A k \in Man!Numbers : message[k] \in {"accepted", "delivered"} => k \in taken
      BY Typed DEF ManualInv, MessagesAreTrue
    <2> QED BY <1>2, <1>7, <2>1 DEF RestFits
  <1>15. /\ lock' \in Approvals \cup {None} /\ handed' \in [Man!Numbers -> Nat] /\ r.n \in Man!Numbers /\ r.n = call[c].n
         /\ (r.pc \in {"answered", "saved"} /\ r.outcome = "accepted" => r.n \in taken')
         /\ \A k \in Man!Numbers : \/ call[c].pc \in AtItPcs /\ k = call[c].n
                                   \/ handed'[k] = handed[k] /\ refused'[k] = refused[k]
    BY <1>2, <1>3, <1>5, <1>7, <1>8 DEF n
  <1> QED BY <1>2, <1>5, <1>6, <1>8, <1>12, <1>13, <1>14, <1>15, MoveKeeps

LEMMA SaveKeeps ==
  ASSUME Man!ManualAssumption, ManualInv, NEW c \in Approvals, Man!Save(c) PROVE ManualInv' /\ Man!StaysEnded
  <1> DEFINE n == call[c].n
             outcome == call[c].outcome
  <1>1. call[c].pc = "answered" /\ call[c].pc \in AtItPcs /\ UNCHANGED <<greeting, handed, refused, taken, over, restarts>>
    BY DEF Man!Save, Man!mail, AtItPcs
  <1>2. /\ n \in Man!Numbers /\ outcome \in {"accepted", "failed", "ambiguous"} /\ (outcome = "accepted" => n \in taken)
        /\ lock \in Approvals \cup {None}
    BY <1>1, Typed DEF ManualInv, Numbered, CallRows, AtWork, MessagesAreTrue
  <1>3. /\ message \in [Man!Numbers -> {"none", "ready", "failed", "ambiguous", "accepted", "delivered"}]
        /\ stamped \in [Man!Numbers -> BOOLEAN] /\ greeting \in [Man!Numbers -> Greetings \cup {0}]
        /\ over \in BOOLEAN /\ faults \in 0..MaxFaults /\ restarts \in 0..MaxRestarts /\ taken \subseteq Man!Numbers
        /\ MaxFaults \in Nat
        /\ \A k \in Man!Numbers : message[k] \in {"accepted", "delivered"} => k \in taken
    BY Typed DEF ManualInv, MessagesAreTrue, Man!ManualAssumption
  <1>4. CASE /\ message' = [message EXCEPT ![n] = outcome]
             /\ stamped' = [stamped EXCEPT ![n] = @ \/ outcome = "accepted"]
             /\ Man!Goto(c, "saved") /\ UNCHANGED <<row, lock, faults>>
    <2> HIDE DEF n, outcome
    <2>1. message' \in [Man!Numbers -> {"none", "ready", "failed", "ambiguous", "accepted", "delivered"}]
      BY <1>2, <1>3, <1>4
    <2>2. stamped' \in [Man!Numbers -> BOOLEAN]
      BY <1>2, <1>3, <1>4
    <2>3. \A k \in Man!Numbers : message'[k] \in {"accepted", "delivered"} => k \in taken
      BY <1>2, <1>3, <1>4
    <2>4. RestFits
      BY <1>1, <1>3, <1>4, <2>1, <2>2, <2>3 DEF RestFits
    <2>5. "saved" \in Man!Steps /\ lock' \in Approvals \cup {None}
      BY <1>2, <1>4 DEF Man!Steps
    <2> QED BY <1>1, <1>4, <2>4, <2>5, GotoKeeps
  <1>5. CASE faults < MaxFaults /\ faults' = faults + 1 /\ UNCHANGED <<message, stamped>>
    <2>1. RestFits
      BY <1>1, <1>3, <1>5 DEF RestFits
    <2>2. CASE Man!End(c, "lost", row)
      BY <1>1, <2>1, <2>2, EndKeeps, EndsAre
    <2>3. CASE Man!Goto(c, "saved") /\ UNCHANGED <<row, lock>>
      <3>1. "saved" \in Man!Steps /\ lock' \in Approvals \cup {None}
        BY <1>2, <2>3 DEF Man!Steps
      <3> QED BY <1>1, <2>1, <2>3, <3>1, GotoKeeps
    <2> QED BY <1>5, <2>2, <2>3 DEF Man!Save
  <1> QED BY <1>4, <1>5 DEF Man!Save

(* An unsure outcome leaves a row that nothing can claim.                     *)
LEMMA UnacceptedKeeps ==
  ASSUME Man!ManualAssumption, ManualInv, NEW c \in Approvals, call[c].pc = "saved", call[c].outcome \in {"failed", "ambiguous"},
         Man!End(c, call[c].outcome, Man!Unaccepted(c, call[c].n, call[c].outcome)),
         UNCHANGED <<handed, refused, taken>>, RestFits
  PROVE  ManualInv' /\ Man!StaysEnded
  <1> DEFINE n == call[c].n
             out == call[c].outcome
             r == Man!Unaccepted(c, n, out)
  <1>0. out \in Man!Ends /\ out \notin AtItPcs /\ out \notin {"answered", "saved"} /\ call[c].pc \in AtItPcs
    BY DEF Man!Ends, AtItPcs
  <1>1. CASE r = row
    BY <1>0, <1>1, EndKeeps
  <1>2. CASE r # row
    <2> DEFINE du == IF out = "ambiguous" THEN "none" ELSE row.due
               at == [n |-> n, outcome |-> out]
    <2>1. /\ call[c].fresh /\ row.status = "pending" /\ ~Man!Terminal(row)
          /\ r = [row EXCEPT !.status = "failed", !.state = out, !.due = du, !.attempt = at]
      BY <1>2 DEF Man!Unaccepted
    <2>2. /\ DueRow(row, n) /\ row \in ManRows /\ n \in Nat /\ n \in 0..Max /\ row.count \in Nat
          /\ handed[n] = refused[n] + (IF out = "failed" THEN 0 ELSE 1)
          /\ handed \in [Man!Numbers -> Nat] /\ refused \in [Man!Numbers -> Nat]
      BY <1>0, <2>1, Typed DEF ManualInv, AtWork, CallRows, ManRows, Tally
    <2>3. /\ r \in ManRows /\ r.status = "failed" /\ r.state = out /\ r.due = du
          /\ r.count = row.count /\ r.marked = row.marked /\ r.stopped = row.stopped
      <3>1. out \in {"failed", "ambiguous"} /\ du \in {"none", "later", "now"} /\ at \in Attempts
        BY <2>2 DEF ManRows, Attempts
      <3> HIDE DEF out, du, at, r
      <3>2. r = [status |-> "failed", state |-> out, due |-> du, count |-> row.count, marked |-> row.marked,
                 stopped |-> row.stopped, attempt |-> at]
        BY <2>1, <2>2 DEF ManRows
      <3>3. row.count \in 0..Max /\ row.marked \in BOOLEAN /\ row.stopped \in BOOLEAN
        BY <2>2 DEF ManRows
      <3> QED BY <3>1, <3>2, <3>3 DEF ManRows
    <2>4. /\ row' = r /\ call' \in [Approvals -> CallRows] /\ lock' \in Approvals \cup {None}
          /\ call'[c].pc = out /\ call'[c].n = n /\ call'[c].outcome = out
          /\ \A d \in Approvals \ {c} : ManSame(d)
      BY <1>0, EndIs
    <2>5. n = row.count + 1 /\ row.due = "now" /\ ~Man!Terminal(r) /\ row.state # "ambiguous" /\ ~Man!Terminal(row)
      <3>1. ~row.stopped
        BY <2>1 DEF Man!Terminal
      <3> QED BY <2>2, <2>3, <3>1 DEF DueRow, Man!Terminal
    <2>6. (out = "failed" /\ du = "now") \/ (out = "ambiguous" /\ du = "none")
      BY <2>5
    <2> HIDE DEF r, du, at, out
    <2>7. RowFits
      BY <2>2, <2>3, <2>4, <2>5, <2>6 DEF RowFits, ManualInv, Man!CountIsTrue
    <2>8. \A k \in Nat : k <= row.count => NumberHolds(k)
      BY <2>2, <2>3, <2>4 DEF NumberHolds
    <2>9. \A d \in Approvals : AtWork(d)'
      <3>1. ASSUME NEW d \in Approvals \ {c} PROVE AtWork(d)'
        <4>1. ASSUME call[d].pc \in AtItPcs PROVE NumberHolds(call[d].n)
          <5>1. call[d].n # n /\ call[d].n <= row.count + 1 /\ call[d].n \in Nat
            BY <1>0, <4>1, Typed DEF ManualInv, ManApart, AtWork, CallRows
          <5> QED BY <2>2, <2>5, <2>8, <5>1
        <4> QED BY <2>4, <2>7, <4>1, StillAtWork
      <3>2. AtWork(c)'
        BY <1>0, <2>4 DEF AtWork, out
      <3> QED BY <3>1, <3>2
    <2>10. ManApart'
      <3>1. \A d \in Approvals : call'[d].pc \in AtItPcs => call[d].pc \in AtItPcs /\ call'[d].n = call[d].n
        BY <1>0, <2>4 DEF ManSame, out
      <3> QED BY <3>1, StillApart
    <2>11. Opened'
      <3>1. ASSUME NEW k \in Man!Numbers, handed[k] # refused[k] PROVE NumberHolds(k) \/ row'.state = "ambiguous"
        <4>1. k <= row.count + 1 /\ k \in Nat
          BY <3>1 DEF ManualInv, Opened, Man!Numbers
        <4>2. CASE k = n
          BY <2>2, <2>3, <2>4, <2>6, <3>1, <4>2
        <4>3. CASE k # n
          BY <2>2, <2>5, <2>8, <4>1, <4>3
        <4> QED BY <4>2, <4>3
      <3> QED BY <2>5, <2>7, <3>1, StillOpened
    <2>12. Numbered' /\ MessagesAreTrue'
      <3>1. Numbered'
        BY <1>0, <2>4 DEF ManualInv, Numbered, ManSame, AtItPcs, n
      <3>2. MessagesAreTrue'
        BY <1>0, <2>4 DEF ManualInv, MessagesAreTrue, ManSame, RestFits, out
      <3> QED BY <3>1, <3>2
    <2>13. Man!TypeOK'
      <3>1. handed' \in [Man!Numbers -> Nat] /\ refused' \in [Man!Numbers -> Nat] /\ taken' \subseteq Man!Numbers
        BY Typed DEF ManualInv
      <3> QED BY <2>4, <2>7, <3>1, TypedAfter DEF RestFits, RowFits
    <2>14. Man!CountIsTrue' /\ EndedIsQuiet' /\ Man!GoesOn' /\ Man!StaysEnded
      BY <2>7 DEF RowFits, Man!CountIsTrue, EndedIsQuiet, Man!GoesOn, Man!StaysEnded
    <2> QED BY <2>9, <2>10, <2>11, <2>12, <2>13, <2>14 DEF ManualInv
  <1> QED BY <1>1, <1>2

LEMMA FinalizeKeeps ==
  ASSUME Man!ManualAssumption, ManualInv, NEW c \in Approvals, Man!Finalize(c) PROVE ManualInv' /\ Man!StaysEnded
  <1>1. call[c].pc = "saved" /\ RestFits /\ UNCHANGED <<handed, refused, taken>>
    BY NothingElse DEF Man!Finalize, Man!mail
  <1>2. call[c].n \in Man!Numbers /\ call[c].outcome \in {"accepted", "failed", "ambiguous"}
    BY <1>1, Typed DEF ManualInv, Numbered, AtWork, AtItPcs, CallRows
  <1>3. CASE call[c].outcome = "accepted"
    <2> DEFINE pc == IF row.count >= call[c].n \/ Man!Accepted(call[c].n) # row THEN "sent" ELSE "lost"
    <2>1. Man!End(c, pc, Man!Accepted(call[c].n))
      BY <1>3 DEF Man!Finalize
    <2>2. pc \in Man!Ends
      BY DEF Man!Ends
    <2> QED BY <1>1, <1>2, <2>1, <2>2, AcceptedDoes, EndKeeps
  <1>4. CASE call[c].outcome # "accepted"
    <2>1. Man!End(c, call[c].outcome, Man!Unaccepted(c, call[c].n, call[c].outcome))
      BY <1>4 DEF Man!Finalize
    <2> QED BY <1>1, <1>2, <1>4, <2>1, UnacceptedKeeps
  <1> QED BY <1>3, <1>4

LEMMA RestartKeeps == ASSUME Man!ManualAssumption, ManualInv, Man!Restart PROVE ManualInv' /\ Man!StaysEnded
  <1> DEFINE Still(d) == call[d].pc \in Man!Ends \cup {"new", "prepared"}
             Lost(d) == [call[d] EXCEPT !.pc = "lost", !.fresh = FALSE]
  <1>1. call' = [d \in Approvals |-> IF Still(d) THEN call[d] ELSE Lost(d)]
    BY DEF Man!Restart
  <1>2. ASSUME NEW d \in Approvals
        PROVE  /\ call[d] \in CallRows /\ Lost(d) \in CallRows /\ Lost(d).pc = "lost" /\ Lost(d).n = call[d].n
               /\ (Still(d) => call[d].pc \notin AtItPcs)
    <2>1. call[d] \in CallRows
      BY Typed DEF ManualInv
    <2>2. Still(d) => call[d].pc \notin AtItPcs
      BY DEF Man!Ends, AtItPcs
    <2> QED BY <2>1, <2>2 DEF CallRows, Man!Ends
  <1>3. \A d \in Approvals : ~Still(d) => call[d].pc # "new"
    OBVIOUS
  <1> HIDE DEF Lost, Still
  <1>4. call' \in [Approvals -> CallRows]
    BY <1>1, <1>2
  <1>5. \A d \in Approvals : call'[d].pc \notin AtItPcs /\ call'[d].n = call[d].n /\ (call'[d].pc # "new" => call[d].pc # "new")
    BY <1>1, <1>2, <1>3 DEF AtItPcs
  <1>6. UNCHANGED <<row, message, stamped, greeting, handed, refused, taken, over, faults>> /\ lock' = None
        /\ restarts < MaxRestarts /\ restarts' = restarts + 1
    BY DEF Man!Restart, Man!mail
  <1>7. restarts' \in 0..MaxRestarts
    BY <1>6, Typed DEF ManualInv, Man!ManualAssumption
  <1>8. Man!TypeOK'
    BY <1>4, <1>6, <1>7, Typed, TypedAfter DEF ManualInv
  <1>9. (\A d \in Approvals : AtWork(d)') /\ ManApart' /\ Numbered'
    BY <1>5 DEF AtWork, ManApart, Numbered, ManualInv
  <1>10. MessagesAreTrue'
    <2>1. \A d \in Approvals : call'[d].pc \notin {"answered", "saved"}
      BY <1>5 DEF AtItPcs
    <2> QED BY <1>6, <2>1 DEF ManualInv, MessagesAreTrue
  <1>11. Man!CountIsTrue' /\ EndedIsQuiet' /\ Man!GoesOn' /\ Opened'
    BY <1>6 DEF ManualInv, Man!CountIsTrue, EndedIsQuiet, Man!GoesOn, Opened
  <1>12. Man!StaysEnded
    <2>1. row.count \in Nat
      BY Typed DEF ManualInv, ManRows
    <2> QED BY <1>6, <2>1 DEF ManualInv, EndedIsQuiet, Man!StaysEnded
  <1> QED BY <1>8, <1>9, <1>10, <1>11, <1>12 DEF ManualInv

LEMMA ManualFirst == ASSUME Man!ManualAssumption, Man!Init PROVE ManualInv
  <1>1. row = [status |-> "sent", state |-> "none", due |-> "none", count |-> 0, marked |-> FALSE,
               stopped |-> FALSE, attempt |-> [n |-> 0, outcome |-> "none"]]
    BY DEF Man!Init
  <1>2. row \in ManRows
    BY <1>1, NumbersAre DEF ManRows, Attempts
  <1>3. call = [c \in Approvals |-> [pc |-> "new", n |-> 0, text |-> 0, fresh |-> FALSE, outcome |-> "none"]]
    BY DEF Man!Init
  <1>4. call \in [Approvals -> CallRows]
    BY <1>3, NumbersAre DEF CallRows, Man!Steps
  <1>5. Man!TypeOK
    <2>1. /\ message \in [Man!Numbers -> {"none", "ready", "failed", "ambiguous", "accepted", "delivered"}]
          /\ stamped \in [Man!Numbers -> BOOLEAN] /\ greeting \in [Man!Numbers -> Greetings \cup {0}]
          /\ handed \in [Man!Numbers -> Nat] /\ refused \in [Man!Numbers -> Nat] /\ taken \subseteq Man!Numbers
      BY DEF Man!Init
    <2>2. lock \in Approvals \cup {None} /\ over \in BOOLEAN /\ faults \in 0..MaxFaults /\ restarts \in 0..MaxRestarts
      <3>1. lock = None /\ over = FALSE /\ faults = 0 /\ restarts = 0
        BY DEF Man!Init
      <3>2. MaxFaults \in Nat /\ MaxRestarts \in Nat
        BY DEF Man!ManualAssumption
      <3>3. faults \in 0..MaxFaults /\ restarts \in 0..MaxRestarts
        BY <3>1, <3>2
      <3>4. lock \in Approvals \cup {None}
        BY <3>1
      <3>5. over \in BOOLEAN
        BY <3>1
      <3> QED BY <3>3, <3>4, <3>5
    <2> QED BY <1>2, <1>4, <2>1, <2>2, Typed
  <1>6. \A c \in Approvals : call[c].pc = "new"
    BY <1>3
  <1>7. Numbered /\ (\A c \in Approvals : AtWork(c)) /\ ManApart
    BY <1>6 DEF Numbered, AtWork, ManApart, AtItPcs
  <1>8. MessagesAreTrue
    BY <1>6 DEF Man!Init, MessagesAreTrue
  <1>9. Man!CountIsTrue /\ EndedIsQuiet /\ Man!GoesOn
    BY <1>1 DEF Man!CountIsTrue, EndedIsQuiet, Man!GoesOn, Man!Terminal
  <1>10. Opened
    BY DEF Man!Init, Opened
  <1> QED BY <1>5, <1>7, <1>8, <1>9, <1>10 DEF ManualInv

LEMMA ManualStays == ASSUME Man!ManualAssumption, ManualInv, [Man!Next]_(Man!vars) PROVE ManualInv' /\ Man!StaysEnded
  <1>1. CASE UNCHANGED Man!vars
    <2>1. UNCHANGED <<row, message, stamped, greeting, handed, refused, taken, lock, over, call, faults, restarts>>
      BY <1>1 DEF Man!vars
    <2>2. Man!TypeOK'
      BY <2>1, Typed, TypedAfter DEF ManualInv
    <2>3. RowFits
      BY <2>1, SameRowFits
    <2> QED BY <2>1, <2>2, <2>3
        DEF ManualInv, Numbered, MessagesAreTrue, Man!CountIsTrue, EndedIsQuiet, Man!GoesOn, AtWork, Tally, ManApart, Opened,
            Man!StaysEnded, RowFits
  <1>2. CASE \E c \in Approvals : Man!Prepare(c) \/ Man!Step(c)
    <2>1. PICK c \in Approvals : Man!Prepare(c) \/ Man!Step(c)
      BY <1>2
    <2> QED BY <2>1, PrepareKeeps, ApproveKeeps, LockKeeps, ClaimKeeps, PersistKeeps, AuthorityKeeps,
               RenewKeeps, HandKeeps, AnswerKeeps, SaveKeeps, FinalizeKeeps DEF Man!Step
  <1>3. CASE Man!Start \/ Man!Stop \/ Man!Status \/ Man!DueComes \/ Man!Over \/ Man!Responded \/ Man!Restart
    BY <1>3, StartKeeps, StopKeeps, StatusKeeps, DueComesKeeps, OverKeeps, RespondedKeeps, RestartKeeps
  <1>4. CASE \E n \in Man!Numbers : Man!Report(n)
    BY <1>4, ReportKeeps
  <1> QED BY <1>1, <1>2, <1>3, <1>4 DEF Man!Next

(* The inductive invariant of the approvals of one request.                  *)
THEOREM ManualAlways == ASSUME Man!ManualAssumption PROVE Man!Spec => []ManualInv /\ [][Man!StaysEnded]_(Man!vars)
  <1>1. Man!Init => ManualInv
    BY ManualFirst
  <1>2. ManualInv /\ [Man!Next]_(Man!vars) => ManualInv' /\ [Man!StaysEnded]_(Man!vars)
    BY ManualStays
  <1> QED BY <1>1, <1>2, PTL DEF Man!Spec

(* The row, the messages, the approvals and the counts keep their columns.   *)
THEOREM ManualTypeCorrect == ASSUME Man!ManualAssumption PROVE Man!Spec => []Man!TypeOK
  <1>1. ManualInv => Man!TypeOK
    BY DEF ManualInv
  <1> QED BY <1>1, ManualAlways, PTL

(* A follow-up is in the hands of the provider at most once unless the       *)
(* provider refused it definitively, however many administrators approve it, *)
(* whatever is lost and however often the process restarts                   *)
(* (approveCimManualFollowUp).                                               *)
THEOREM OneMailAlways == ASSUME Man!ManualAssumption PROVE Man!Spec => []Man!OneMailPerFollowUp
  <1>1. ManualInv => Man!OneMailPerFollowUp
    <2> SUFFICES ASSUME ManualInv, NEW n \in Man!Numbers PROVE handed[n] <= refused[n] + 1
      BY DEF Man!OneMailPerFollowUp
    <2>1. handed[n] \in Nat /\ refused[n] \in Nat
      BY Typed DEF ManualInv
    <2> QED BY <2>1 DEF ManualInv, Opened
  <1> QED BY <1>1, ManualAlways, PTL

(* The count of follow-ups is of e-mails that the provider accepted          *)
(* (finalizeManualFollowUp).                                                 *)
THEOREM CountIsAlwaysTrue == ASSUME Man!ManualAssumption PROVE Man!Spec => []Man!CountIsTrue
  <1>1. ManualInv => Man!CountIsTrue
    BY DEF ManualInv
  <1> QED BY <1>1, ManualAlways, PTL

(* No sequence is left pending with nobody at work, nothing recorded to      *)
(* reconcile and nothing due (reconcileManualFollowUp).                      *)
THEOREM AlwaysGoesOn == ASSUME Man!ManualAssumption PROVE Man!Spec => []Man!GoesOn
  <1>1. ManualInv => Man!GoesOn
    BY DEF ManualInv
  <1> QED BY <1>1, ManualAlways, PTL

(* A sequence that was stopped or completed never has a follow-up due again. *)
THEOREM NeverResumesAlways == ASSUME Man!ManualAssumption PROVE Man!Spec => Man!NeverResumes
  BY ManualAlways, PTL DEF Man!NeverResumes

-----------------------------------------------------------------------------
(* The automatic follow-ups *)
CONSTANTS Rows, Runs, MaxReminders, Verdicts, Unlinked, Replies, MaxLosses, MaxReboots
VARIABLES chain, reminder, unsure, reached, followed, broker, blocked, event, late, hook, worker,
          losses, reboots

Rem == INSTANCE FollowUpRunner WITH
  Max <- MaxReminders, MaxFaults <- MaxLosses, MaxRestarts <- MaxReboots,
  row <- chain, message <- reminder, taken <- reached, lock <- followed, suppressed <- blocked,
  run <- worker, faults <- losses, restarts <- reboots

MessageStates == {"none", "ready", "failed", "ambiguous", "accepted", "delivered", "bounced"}
RunRows == [pc : Rem!Steps, todo : SUBSET Rows, q : Rows, copies : [Rows -> Rem!RowType], n : 0..MaxReminders,
            fresh : BOOLEAN, outcome : {"none", "sent", "failed", "ambiguous"}]
Entered == {"claimed", "persisted", "renewed", "handed", "answered", "saved"}
RemWorking == {"held", "checked", "looked"} \cup Entered

(* A row or a copy of it counts what the provider has taken *)
True1(r, q) == r.count <= MaxReminders /\ 1..r.count \subseteq reached[q]
RemCounted ==
  /\ \A q \in Rows : True1(chain[q], q) /\ True1(hook.copies[q], q)
  /\ \A w \in Runs, q \in Rows : True1(worker[w].copies[q], q)
  /\ \A q \in Rows, n \in Rem!Numbers : Rem!Proof(reminder[q][n]) => n \in reached[q]
(* What a run at work has *)
AtIt(w) ==
  /\ worker[w].pc \in RemWorking => followed[worker[w].q] = w /\ worker[w].q \in worker[w].todo
  /\ worker[w].pc = "looked" => worker[w].copies[worker[w].q].count < MaxReminders
  /\ worker[w].pc \in Entered => worker[w].n \in Rem!Numbers /\ worker[w].n = worker[w].copies[worker[w].q].count + 1
  /\ worker[w].pc \in {"answered", "saved"} =>
       worker[w].outcome # "none" /\ (worker[w].outcome = "sent" => worker[w].n \in reached[worker[w].q])
RemAtWork == \A w \in Runs : AtIt(w)
(* Runs that got past the events *)
Heeding(w) ==
  worker[w].pc \in {"looked", "claimed", "persisted", "renewed"} /\ event[worker[w].q] # "none" => w \in late[worker[w].q]
Heeds == \A w \in Runs : Heeding(w)
(* Every copy of a due row that is still to be handled counts as the row does. *)
Matches(q) ==
  \A w \in Runs : q \in worker[w].todo =>
    /\ chain[q].due = "now" => chain[q].count = worker[w].copies[q].count
    /\ \A v \in Runs : q \in worker[v].todo => worker[v].copies[q].count = worker[w].copies[q].count
Matched == \A q \in Rows : Matches(q)
HookFits == hook \in [todo : SUBSET Rows, copies : [Rows -> Rem!RowType]]
RunnerInv == Rem!TypeOK /\ HookFits /\ RemCounted /\ RemAtWork /\ Heeds /\ Matched

(* Where every row has its opportunity *)
OneStops(r) == r.linked /\ (r.seq = "stopped" => r.due = "none")
StoppedRows ==
  /\ \A q \in Rows : OneStops(chain[q]) /\ OneStops(hook.copies[q])
  /\ \A w \in Runs, q \in Rows : OneStops(worker[w].copies[q])
RemHolds(w) == worker[w].pc \in Entered /\ Rem!Held(w) => chain[worker[w].q].due = "now"
RemHolding == \A w \in Runs : RemHolds(w)
Oldest(w) ==
  \A p \in Rows : p < worker[w].q =>
    /\ worker[w].pc \in {"checked", "looked"} => chain[p].due = "none" \/ chain[worker[w].q].due = "none"
    /\ worker[w].pc \in {"claimed", "persisted", "renewed"} => chain[p].due = "none"
OldestOnly == \A w \in Runs : Oldest(w)
LinkedInv == StoppedRows /\ RemHolding /\ OldestOnly

-----------------------------------------------------------------------------
(* Rows and runs that are left, newRow and walked on *)

LEMMA TypedIs ==
  Rem!TypeOK <=>
    /\ chain \in [Rows -> Rem!RowType] /\ reminder \in [Rows -> [Rem!Numbers -> MessageStates]]
    /\ unsure \in [Rows -> SUBSET Rem!Numbers] /\ reached \in [Rows -> SUBSET Rem!Numbers]
    /\ followed \in [Rows -> Runs \cup {None}] /\ broker \in Runs \cup {None} /\ blocked \in BOOLEAN
    /\ event \in [Rows -> {"none", "reply", "bounce"}] /\ late \in [Rows -> SUBSET Runs]
    /\ hook.todo \subseteq Rows /\ hook.copies \in [Rows -> Rem!RowType]
    /\ worker \in [Runs -> RunRows] /\ losses \in 0..MaxLosses /\ reboots \in 0..MaxReboots
  BY DEF Rem!TypeOK, MessageStates, RunRows

LEMMA BlankFits ==
  ASSUME Rem!RunnerAssumption
  PROVE  Rem!Blank \in Rem!RowType /\ OneStops(Rem!Blank) /\ Rem!Blank.count = 0 /\ \A q \in Rows : True1(Rem!Blank, q)
  BY DEF Rem!RunnerAssumption, Rem!Blank, Rem!RowType, OneStops, True1

LEMMA IdleFits ==
  ASSUME Rem!RunnerAssumption
  PROVE  /\ Rem!Idle \in RunRows /\ Rem!Idle.pc = "idle" /\ Rem!Idle.todo = {} /\ Rem!Idle.copies = [q \in Rows |-> Rem!Blank]
         /\ ~Rem!Idle.fresh
  <1>1. (CHOOSE q \in Rows : TRUE) \in Rows
    BY DEF Rem!RunnerAssumption
  <1> QED BY <1>1, BlankFits DEF Rem!Idle, RunRows, Rem!Steps, Rem!RunnerAssumption

(* A run that was not newRow for keeps what it has, but perhaps the version. *)
Kept(v) ==
  /\ worker'[v] \in RunRows
  /\ worker'[v].pc = worker[v].pc /\ worker'[v].todo = worker[v].todo /\ worker'[v].q = worker[v].q
  /\ worker'[v].copies = worker[v].copies /\ worker'[v].n = worker[v].n /\ worker'[v].outcome = worker[v].outcome
  /\ worker'[v].fresh => worker[v].fresh

LEMMA LostVersion ==
  ASSUME NEW r \in RunRows
  PROVE  LET s == [r EXCEPT !.fresh = FALSE]
         IN  /\ s \in RunRows /\ s.pc = r.pc /\ s.todo = r.todo /\ s.q = r.q /\ s.copies = r.copies
             /\ s.n = r.n /\ s.outcome = r.outcome /\ s.fresh = FALSE
  BY DEF RunRows

LEMMA AgedRuns ==
  ASSUME Rem!TypeOK, NEW rows, worker' = Rem!Aged(rows)
  PROVE  /\ worker' \in [Runs -> RunRows]
         /\ \A v \in Runs : Kept(v) /\ (worker[v].q \in rows => ~worker'[v].fresh)
  <1> SUFFICES ASSUME NEW v \in Runs
               PROVE  Kept(v) /\ (worker[v].q \in rows => ~worker'[v].fresh)
    BY DEF Rem!Aged, Kept
  <1>1. worker[v] \in RunRows
    BY TypedIs
  <1>2. worker'[v] = IF worker[v].q \in rows THEN [worker[v] EXCEPT !.fresh = FALSE] ELSE worker[v]
    BY DEF Rem!Aged
  <1> QED BY <1>1, <1>2, LostVersion DEF Kept

(* The turn of a row ends. *)
LEMMA Leaves ==
  ASSUME Rem!RunnerAssumption, Rem!TypeOK, NEW w \in Runs, NEW r \in Rem!RowType, Rem!Leave(w, r)
  PROVE  /\ chain' = [chain EXCEPT ![worker[w].q] = r] /\ worker' \in [Runs -> RunRows]
         /\ \A v \in Runs \ {w} : Kept(v)
         /\ \A v \in Runs \ {w} : worker[v].q = worker[w].q /\ r # chain[worker[w].q] => ~worker'[v].fresh
         /\ worker'[w].pc \in {"idle", "listed"}
         /\ \A p \in Rows : worker'[w].copies[p] \in {Rem!Blank, worker[w].copies[p]}
         /\ worker[w].q \notin worker'[w].todo
         /\ \A p \in worker'[w].todo : p \in worker[w].todo /\ worker'[w].copies[p] = worker[w].copies[p]
         /\ followed' = [followed EXCEPT ![worker[w].q] = IF @ = w THEN None ELSE @]
         /\ broker' \in {None, broker}
  <1> DEFINE q == worker[w].q
             rest == worker[w].todo \ {q}
             next == [Rem!Idle EXCEPT !.pc = "listed", !.todo = rest, !.copies = [worker[w].copies EXCEPT ![q] = Rem!Blank]]
  <1>0. worker[w] \in RunRows /\ q \in Rows /\ worker[w].copies \in [Rows -> Rem!RowType] /\ rest \subseteq Rows
    BY TypedIs DEF RunRows
  <1>1. [worker[w].copies EXCEPT ![q] = Rem!Blank] \in [Rows -> Rem!RowType]
    BY <1>0, BlankFits
  <1>2. /\ next \in RunRows /\ next.pc = "listed" /\ next.copies = [worker[w].copies EXCEPT ![q] = Rem!Blank]
        /\ next.todo = rest
    BY <1>0, <1>1, IdleFits DEF RunRows, Rem!Steps
  <1>3. worker'[w] \in {Rem!Idle, next}
    BY DEF Rem!Leave
  <1>4. /\ worker'[w] \in RunRows /\ worker'[w].pc \in {"idle", "listed"}
        /\ \A p \in Rows : worker'[w].copies[p] \in {Rem!Blank, worker[w].copies[p]}
        /\ q \notin worker'[w].todo
        /\ \A p \in worker'[w].todo : p \in worker[w].todo /\ worker'[w].copies[p] = worker[w].copies[p]
    <2> HIDE DEF next
    <2>1. CASE worker'[w] = Rem!Idle
      BY <2>1, IdleFits
    <2>2. CASE worker'[w] = next
      BY <2>2, <1>0, <1>2
    <2> QED BY <1>3, <2>1, <2>2
  <1>5. ASSUME NEW v \in Runs \ {w}
        PROVE  Kept(v) /\ (worker[v].q = q /\ r # chain[q] => ~worker'[v].fresh)
    <2>1. worker[v] \in RunRows
      BY TypedIs
    <2>2. worker'[v] = IF worker[v].q = q /\ r # chain[q] THEN [worker[v] EXCEPT !.fresh = FALSE] ELSE worker[v]
      BY DEF Rem!Leave
    <2> QED BY <2>1, <2>2, LostVersion DEF Kept
  <1>6. worker' = [v \in Runs |-> worker'[v]]
    BY DEF Rem!Leave
  <1>7. worker' \in [Runs -> RunRows]
    BY <1>4, <1>5, <1>6 DEF Kept
  <1>8. /\ chain' = [chain EXCEPT ![worker[w].q] = r]
        /\ followed' = [followed EXCEPT ![worker[w].q] = IF @ = w THEN None ELSE @]
        /\ broker' \in {None, broker}
    BY DEF Rem!Leave
  <1> HIDE DEF q, rest, next
  <1>9. q = worker[w].q
    BY DEF q
  <1> QED BY <1>4, <1>5, <1>7, <1>8, <1>9

(* Only the step of the run changes. *)
LEMMA Walks ==
  ASSUME Rem!TypeOK, NEW w \in Runs, NEW pc \in Rem!Steps, Rem!Goto(w, pc)
  PROVE  /\ worker' \in [Runs -> RunRows] /\ \A v \in Runs \ {w} : worker'[v] = worker[v]
         /\ worker'[w].pc = pc /\ worker'[w].todo = worker[w].todo /\ worker'[w].q = worker[w].q
         /\ worker'[w].copies = worker[w].copies /\ worker'[w].n = worker[w].n /\ worker'[w].outcome = worker[w].outcome
         /\ worker'[w].fresh = worker[w].fresh
  BY TypedIs DEF Rem!Goto, RunRows

(* Of runs that keep what they have. *)
LEMMA StillAtIt ==
  ASSUME NEW w \in Runs, AtIt(w), Kept(w), worker[w].q \in Rows,
         followed[worker[w].q] = w => followed'[worker[w].q] = w, \A q \in Rows : reached[q] \subseteq reached'[q]
  PROVE  AtIt(w)'
  BY DEF AtIt, Kept

LEMMA StillHeeding ==
  ASSUME NEW w \in Runs, AtIt(w), Heeding(w), Kept(w), worker[w].q \in Rows,
         \A p \in Rows : \/ event'[p] = event[p] /\ late'[p] = late[p]
                         \/ late'[p] = {v \in Runs : followed[p] = v}
  PROVE  Heeding(w)'
  BY DEF AtIt, Heeding, Kept, RemWorking, Entered

LEMMA StillHolds ==
  ASSUME NEW w \in Runs, RemHolds(w), Kept(w), worker[w].q \in Rows,
         \/ ~worker'[w].fresh
         \/ chain'[worker[w].q] = chain[worker[w].q]
         \/ chain'[worker[w].q].due = "now"
         \/ chain'[worker[w].q].status = chain[worker[w].q].status /\ chain'[worker[w].q].due = chain[worker[w].q].due
  PROVE  RemHolds(w)'
  BY DEF RemHolds, Rem!Held, Kept

LEMMA StillOldest ==
  ASSUME NEW w \in Runs, Oldest(w), Kept(w), worker[w].q \in Rows,
         \A p \in Rows : chain[p].due = "none" => chain'[p].due = "none"
  PROVE  Oldest(w)'
  BY DEF Oldest, Kept

LEMMA AtRest ==
  ASSUME NEW w \in Runs, worker'[w].pc \in {"idle", "listed"}
  PROVE  AtIt(w)' /\ Heeding(w)' /\ RemHolds(w)' /\ Oldest(w)'
  BY DEF AtIt, Heeding, RemHolds, Oldest, RemWorking, Entered

LEMMA StillMatches ==
  ASSUME NEW q \in Rows, Matches(q),
         \A v \in Runs : q \in worker'[v].todo => q \in worker[v].todo /\ worker'[v].copies[q].count = worker[v].copies[q].count,
         \A v \in Runs : q \in worker'[v].todo /\ chain'[q].due = "now" =>
            \/ chain[q].due = "now" /\ chain'[q].count = chain[q].count
            \/ chain'[q].count = worker[v].copies[q].count
  PROVE  Matches(q)'
  BY DEF Matches

(* A run that ends its turn with a true row breaks nothing. *)
LEMMA LeaveKeeps ==
  ASSUME Rem!RunnerAssumption, RunnerInv, NEW w \in Runs, NEW r \in Rem!RowType, True1(r, worker[w].q),
         worker[w].pc \in RemWorking, r.due = "now" => r = chain[worker[w].q] \/ r.count = Rem!Copy(w).count,
         Rem!Leave(w, r), losses' \in 0..MaxLosses, UNCHANGED <<Rem!mail, Rem!world>>
  PROVE  RunnerInv'
  <1> USE DEF Rem!mail, Rem!world
  <1>0. Rem!TypeOK /\ HookFits /\ worker[w].q \in Rows
    BY TypedIs DEF RunnerInv, RunRows
  <1>1. Rem!TypeOK' /\ HookFits'
    <2>1. chain' \in [Rows -> Rem!RowType] /\ followed' \in [Rows -> Runs \cup {None}] /\ broker' \in Runs \cup {None}
      <3>1. chain' = [chain EXCEPT ![worker[w].q] = r] /\ broker' \in {None, broker}
            /\ followed' = [followed EXCEPT ![worker[w].q] = IF @ = w THEN None ELSE @]
        BY <1>0, Leaves
      <3>2. chain \in [Rows -> Rem!RowType] /\ broker \in Runs \cup {None} /\ followed \in [Rows -> Runs \cup {None}]
        BY <1>0, TypedIs
      <3>3. chain' \in [Rows -> Rem!RowType]
        BY <3>1, <3>2
      <3>4. followed' \in [Rows -> Runs \cup {None}]
        BY <3>1, <3>2
      <3> QED BY <3>1, <3>2, <3>3, <3>4
    <2>2. worker' \in [Runs -> RunRows]
      BY <1>0, Leaves
    <2> QED BY <1>0, <2>1, <2>2, TypedIs DEF Rem!TypeOK, RunRows, MessageStates, HookFits
  <1>2. RemCounted'
    <2>1. \A p \in Rows : chain'[p] = chain[p] \/ (p = worker[w].q /\ chain'[p] = r)
      BY <1>0, Leaves, TypedIs
    <2>2. \A v \in Runs, p \in Rows : worker'[v].copies[p] \in {Rem!Blank, worker[v].copies[p]}
      BY <1>0, Leaves DEF Kept
    <2> QED BY <2>1, <2>2, BlankFits DEF RunnerInv, RemCounted, True1
  <1>3. \A v \in Runs : v # w => Kept(v)
    BY <1>0, Leaves
  <1>4. worker'[w].pc \in {"idle", "listed"}
    BY <1>0, Leaves
  <1>5. \A v \in Runs : worker[v].q \in Rows
    BY <1>0, TypedIs DEF RunRows
  <1>6. RemAtWork' /\ Heeds'
    <2>1. \A v \in Runs \ {w} : \A p \in Rows : followed[p] = v => followed'[p] = v
      BY <1>0, Leaves, TypedIs
    <2>2. ASSUME NEW v \in Runs PROVE AtIt(v)' /\ Heeding(v)'
      BY <1>3, <1>4, <1>5, <2>1, AtRest, StillAtIt, StillHeeding DEF RunnerInv, RemAtWork, Heeds
    <2> QED BY <2>2 DEF RemAtWork, Heeds
  <1>7. ASSUME NEW p \in Rows PROVE Matches(p)'
    <2>1. \A v \in Runs : p \in worker'[v].todo => p \in worker[v].todo /\ worker'[v].copies[p] = worker[v].copies[p]
      BY <1>0, <1>3, Leaves DEF Kept
    <2>2. chain'[p] = chain[p] \/ (p = worker[w].q /\ chain'[p] = r)
      BY <1>0, Leaves, TypedIs
    <2>3. worker[w].q \in worker[w].todo
      BY DEF RunnerInv, RemAtWork, AtIt
    <2>4. ASSUME p = worker[w].q, chain'[p] = r, r # chain[p], r.due = "now", NEW v \in Runs, p \in worker'[v].todo
          PROVE  chain'[p].count = worker[v].copies[p].count
      BY <2>1, <2>3, <2>4 DEF Rem!Copy, RunnerInv, Matched, Matches
    <2>5. Matches(p)
      BY DEF RunnerInv, Matched
    <2> QED BY <2>1, <2>2, <2>4, <2>5, StillMatches
  <1> QED BY <1>1, <1>2, <1>6, <1>7 DEF RunnerInv, Matched

LEMMA LeaveKeepsLinked ==
  ASSUME Rem!RunnerAssumption, RunnerInv, LinkedInv, NEW w \in Runs, NEW r \in Rem!RowType, OneStops(r),
         chain[worker[w].q].due = "none" => r.due = "none",
         Rem!Leave(w, r), UNCHANGED <<Rem!mail, Rem!world>>
  PROVE  LinkedInv' /\ Rem!StaysStopped
  <1> USE DEF Rem!mail, Rem!world
  <1>0. Rem!TypeOK /\ worker[w].q \in Rows
    BY TypedIs DEF RunnerInv, RunRows
  <1>1. \A p \in Rows : chain'[p] = chain[p] \/ (p = worker[w].q /\ chain'[p] = r)
    BY <1>0, Leaves, TypedIs
  <1>2. \A p \in Rows : chain[p].due = "none" => chain'[p].due = "none"
    BY <1>1
  <1>3. StoppedRows'
    <2>1. \A v \in Runs, p \in Rows : worker'[v].copies[p] \in {Rem!Blank, worker[v].copies[p]}
      BY <1>0, Leaves DEF Kept
    <2> QED BY <1>1, <2>1, BlankFits DEF LinkedInv, StoppedRows, OneStops
  <1>4. Rem!StaysStopped
    BY <1>2 DEF Rem!StaysStopped, LinkedInv, StoppedRows, OneStops
  <1>5. \A v \in Runs : v # w => Kept(v) /\ worker[v].q \in Rows
    BY <1>0, Leaves, TypedIs DEF RunRows
  <1>6. worker'[w].pc \in {"idle", "listed"}
    BY <1>0, Leaves
  <1>7. ASSUME NEW v \in Runs PROVE RemHolds(v)' /\ Oldest(v)'
    <2>1. CASE v = w
      BY <2>1, <1>6, AtRest
    <2>2. CASE v # w
      <3>1. ~worker'[v].fresh \/ chain'[worker[v].q] = chain[worker[v].q]
        BY <2>2, <1>0, <1>1, <1>5, Leaves DEF Kept
      <3> QED BY <2>2, <3>1, <1>2, <1>5, StillHolds, StillOldest DEF LinkedInv, RemHolding, OldestOnly
    <2> QED BY <2>1, <2>2
  <1> QED BY <1>3, <1>4, <1>7 DEF LinkedInv, RemHolding, OldestOnly

(* Somebody who is no run writes a row, or only time passes. *)
LEMMA WriteKeeps ==
  ASSUME RunnerInv, Rem!TypeOK', HookFits', RemCounted', Matched', \A v \in Runs : Kept(v), UNCHANGED <<reached, followed>>,
         \A p \in Rows : \/ event'[p] = event[p] /\ late'[p] = late[p]
                         \/ late'[p] = {v \in Runs : followed[p] = v}
  PROVE  RunnerInv'
  <1>1. \A v \in Runs : worker[v].q \in Rows
    BY TypedIs DEF RunnerInv, RunRows
  <1>2. ASSUME NEW v \in Runs PROVE AtIt(v)' /\ Heeding(v)'
    BY <1>1, StillAtIt, StillHeeding DEF RunnerInv, RemAtWork, Heeds
  <1> QED BY <1>2 DEF RunnerInv, RemAtWork, Heeds

LEMMA WriteKeepsLinked ==
  ASSUME RunnerInv, LinkedInv, StoppedRows', \A v \in Runs : Kept(v),
         \A p \in Rows : chain[p].due = "none" => chain'[p].due = "none",
         \A v \in Runs : LET q == worker[v].q IN
           \/ ~worker'[v].fresh
           \/ chain'[q] = chain[q]
           \/ chain'[q].due = "now"
           \/ chain'[q].status = chain[q].status /\ chain'[q].due = chain[q].due
  PROVE  LinkedInv' /\ Rem!StaysStopped
  <1>1. \A v \in Runs : worker[v].q \in Rows
    BY TypedIs DEF RunnerInv, RunRows
  <1>2. ASSUME NEW v \in Runs PROVE RemHolds(v)' /\ Oldest(v)'
    BY <1>1, StillHolds, StillOldest DEF LinkedInv, RemHolding, OldestOnly
  <1>3. Rem!StaysStopped
    BY DEF Rem!StaysStopped, LinkedInv, StoppedRows, OneStops
  <1> QED BY <1>2, <1>3 DEF LinkedInv, RemHolding, OldestOnly

(* Nobody lists, and no row falls due. *)
LEMMA MatchedStays ==
  ASSUME RunnerInv,
         \A v \in Runs, q \in Rows : q \in worker'[v].todo => q \in worker[v].todo /\ worker'[v].copies[q].count = worker[v].copies[q].count,
         \A v \in Runs, q \in Rows : q \in worker'[v].todo /\ chain'[q].due = "now" =>
            \/ chain[q].due = "now" /\ chain'[q].count = chain[q].count
            \/ chain'[q].count = worker[v].copies[q].count
  PROVE  Matched'
  <1>1. ASSUME NEW q \in Rows PROVE Matches(q)'
    <2>1. Matches(q)
      BY DEF RunnerInv, Matched
    <2> QED BY <2>1, StillMatches
  <1> QED BY <1>1 DEF Matched

(* A run takes a step of its own and writes nothing. *)
LEMMA StepKeeps ==
  ASSUME RunnerInv, NEW w \in Runs, Rem!TypeOK', HookFits', RemCounted', Matched', \A v \in Runs \ {w} : Kept(v),
         AtIt(w)', Heeding(w)', \A q \in Rows : reached[q] \subseteq reached'[q],
         \A v \in Runs \ {w}, q \in Rows : followed[q] = v => followed'[q] = v, UNCHANGED <<event, late>>
  PROVE  RunnerInv'
  <1>1. \A v \in Runs : worker[v].q \in Rows
    BY TypedIs DEF RunnerInv, RunRows
  <1>2. ASSUME NEW v \in Runs, v # w PROVE AtIt(v)' /\ Heeding(v)'
    BY <1>1, <1>2, StillAtIt, StillHeeding DEF RunnerInv, RemAtWork, Heeds
  <1> QED BY <1>2 DEF RunnerInv, RemAtWork, Heeds

LEMMA StepKeepsLinked ==
  ASSUME RunnerInv, LinkedInv, NEW w \in Runs, StoppedRows', \A v \in Runs \ {w} : Kept(v),
         RemHolds(w)', Oldest(w)',
         \A p \in Rows : chain[p].due = "none" => chain'[p].due = "none",
         \A v \in Runs \ {w} : ~worker'[v].fresh \/ chain'[worker[v].q] = chain[worker[v].q]
  PROVE  LinkedInv' /\ Rem!StaysStopped
  <1>1. \A v \in Runs : worker[v].q \in Rows
    BY TypedIs DEF RunnerInv, RunRows
  <1>2. ASSUME NEW v \in Runs, v # w PROVE RemHolds(v)' /\ Oldest(v)'
    BY <1>1, <1>2, StillHolds, StillOldest DEF LinkedInv, RemHolding, OldestOnly
  <1>3. Rem!StaysStopped
    BY DEF Rem!StaysStopped, LinkedInv, StoppedRows, OneStops
  <1> QED BY <1>2, <1>3 DEF LinkedInv, RemHolding, OldestOnly

-----------------------------------------------------------------------------
(* The rows a turn leaves *)

LEMMA CopyFits ==
  ASSUME RunnerInv, NEW w \in Runs
  PROVE  /\ worker[w] \in RunRows /\ worker[w].q \in Rows /\ worker[w].copies \in [Rows -> Rem!RowType]
         /\ Rem!Copy(w) = worker[w].copies[worker[w].q] /\ Rem!Copy(w) \in Rem!RowType /\ True1(Rem!Copy(w), worker[w].q)
         /\ chain[worker[w].q] \in Rem!RowType /\ True1(chain[worker[w].q], worker[w].q)
         /\ LinkedInv => OneStops(Rem!Copy(w)) /\ OneStops(chain[worker[w].q])
  BY TypedIs DEF RunnerInv, RunRows, Rem!Copy, RemCounted, LinkedInv, StoppedRows

(* What may become of a row whose sequence ends. *)
TurnsFit(c, q) == {r \in Rem!RowType : True1(r, q) /\ r.due = "none" /\ (c.linked => OneStops(r))}

LEMMA StoppedFits ==
  ASSUME NEW q \in Rows, NEW r \in Rem!RowType, True1(r, q), NEW s \in {"responded", "issue"}
  PROVE  LET t == [Rem!Stopped(r) EXCEPT !.status = s]
             u == [Rem!Stopped(r) EXCEPT !.status = "responded", !.resp = TRUE]
             o == [r EXCEPT !.seq = "completed", !.due = "none"]
             h == [Rem!Stopped(r) EXCEPT !.resp = TRUE, !.aged = FALSE]
         IN  /\ Rem!Stopped(r) \in Rem!RowType /\ True1(Rem!Stopped(r), q) /\ Rem!Stopped(r).due = "none"
             /\ r.linked => OneStops(Rem!Stopped(r))
             /\ t \in Rem!RowType /\ True1(t, q) /\ t.due = "none" /\ (r.linked => OneStops(t))
             /\ u \in Rem!RowType /\ True1(u, q) /\ u.due = "none" /\ (r.linked => OneStops(u))
             /\ o \in Rem!RowType /\ True1(o, q) /\ o.due = "none" /\ (r.linked => OneStops(o))
             /\ h \in Rem!RowType /\ True1(h, q) /\ h.due = "none" /\ (r.linked => OneStops(h))
  BY DEF Rem!RowType, Rem!Stopped, True1, OneStops

LEMMA UpdatedFits ==
  ASSUME Rem!RunnerAssumption, NEW q \in Rows, NEW r \in Rem!RowType, True1(r, q),
         NEW outcome \in {"sent", "failed", "ambiguous"},
         outcome = "sent" => r.count + 1 \in Rem!Numbers /\ r.count + 1 \in reached[q]
  PROVE  /\ Rem!Updated(r, outcome) \in Rem!RowType /\ True1(Rem!Updated(r, outcome), q)
         /\ r.linked => OneStops(Rem!Updated(r, outcome))
         /\ Rem!Updated(r, outcome).linked = r.linked /\ Rem!Updated(r, outcome).due # "now"
  <1>0. r.count \in Nat /\ MaxReminders \in Nat /\ Rem!Numbers = 1..MaxReminders
    BY DEF Rem!RowType, Rem!RunnerAssumption, Rem!Numbers
  <1>1. CASE outcome = "sent"
    <2>a. Rem!Updated(r, outcome) =
            [r EXCEPT !.status = "sent", !.count = r.count + 1, !.aged = FALSE,
                      !.due = IF r.count + 1 < MaxReminders THEN "later" ELSE "none",
                      !.seq = IF r.count + 1 < MaxReminders THEN "scheduled" ELSE "completed"]
      BY <1>1 DEF Rem!Updated
    <2>b. r.count + 1 \in 0..(MaxReminders + 1)
      BY <1>0, <1>1
    <2>1. /\ Rem!Updated(r, outcome) \in Rem!RowType /\ Rem!Updated(r, outcome).count = r.count + 1
          /\ r.linked => OneStops(Rem!Updated(r, outcome))
          /\ Rem!Updated(r, outcome).linked = r.linked /\ Rem!Updated(r, outcome).due # "now"
      <3>1. CASE r.count + 1 < MaxReminders
        BY <2>a, <2>b, <3>1 DEF Rem!RowType, OneStops
      <3>2. CASE ~(r.count + 1 < MaxReminders)
        BY <2>a, <2>b, <3>2 DEF Rem!RowType, OneStops
      <3> QED BY <3>1, <3>2
    <2>2. \A n \in 1..(r.count + 1) : n \in 1..r.count \/ n = r.count + 1
      BY <1>0
    <2>3. True1(Rem!Updated(r, outcome), q)
      BY <1>0, <1>1, <2>1, <2>2 DEF True1
    <2> QED BY <2>1, <2>3
  <1>2. CASE outcome = "ambiguous"
    BY <1>2 DEF Rem!Updated, Rem!RowType, OneStops, True1
  <1>3. CASE outcome = "failed"
    BY <1>3 DEF Rem!Updated, Rem!RowType, OneStops, True1
  <1> QED BY <1>1, <1>2, <1>3

LEMMA RemDeferKeeps ==
  ASSUME Rem!RunnerAssumption, RunnerInv, NEW w \in Runs, worker[w].pc \in Entered, Rem!Defer(w), losses' \in 0..MaxLosses,
         UNCHANGED <<Rem!mail, Rem!world>>
  PROVE  RunnerInv' /\ (LinkedInv => LinkedInv' /\ Rem!StaysStopped)
  <1> DEFINE r == IF Rem!Held(w) THEN Rem!Deferred(w) ELSE chain[worker[w].q]
  <1>1. r \in Rem!RowType /\ True1(r, worker[w].q)
    BY CopyFits DEF Rem!Deferred, Rem!RowType, True1
  <1>a. r.due = "now" => r = chain[worker[w].q] \/ r.count = Rem!Copy(w).count
    BY CopyFits DEF Rem!Deferred, Rem!RowType
  <1>2. LinkedInv => OneStops(r) /\ (chain[worker[w].q].due = "none" => r.due = "none")
    BY CopyFits DEF Rem!Deferred, Rem!RowType, OneStops, LinkedInv, RemHolding, RemHolds
  <1>3. Rem!Leave(w, r)
    BY DEF Rem!Defer
  <1> HIDE DEF r
  <1> QED BY <1>1, <1>a, <1>2, <1>3, LeaveKeeps, LeaveKeepsLinked DEF RemWorking

-----------------------------------------------------------------------------
(* What each step of a run does *)

LEMMA ListKeeps ==
  ASSUME Rem!RunnerAssumption, RunnerInv, NEW w \in Runs, Rem!List(w)
  PROVE  RunnerInv' /\ (LinkedInv => LinkedInv' /\ Rem!StaysStopped)
  <1> USE DEF Rem!mail, Rem!world
  <1> DEFINE due == {q \in Rows : chain[q].due = "now" /\ chain[q].status \notin {"responded", "issue"}}
             copies == [q \in Rows |-> IF q \in due THEN chain[q] ELSE Rem!Blank]
  <1>0. Rem!TypeOK /\ worker[w] \in RunRows
    BY CopyFits DEF RunnerInv
  <1>1. copies \in [Rows -> Rem!RowType] /\ due \subseteq Rows
    BY <1>0, TypedIs, BlankFits
  <1>2. worker' = [worker EXCEPT ![w] = [worker[w] EXCEPT !.pc = "listed", !.todo = due, !.copies = copies]]
    BY DEF Rem!List
  <1>a. \A q \in Rows : copies[q] \in {chain[q], Rem!Blank}
    OBVIOUS
  <1> HIDE DEF copies, due
  <1>3. /\ worker' \in [Runs -> RunRows] /\ worker'[w].pc = "listed" /\ worker'[w].copies = copies /\ worker'[w].todo = due
        /\ \A v \in Runs \ {w} : worker'[v] = worker[v]
    BY <1>0, <1>1, <1>2, TypedIs DEF RunRows, Rem!Steps
  <1>4. \A v \in Runs \ {w} : Kept(v)
    BY <1>0, <1>3, TypedIs DEF Kept
  <1>5. Rem!TypeOK' /\ HookFits'
    BY <1>0, <1>3, TypedIs DEF RunnerInv, Rem!TypeOK, RunRows, MessageStates, HookFits, Rem!List
  <1>6. RemCounted'
    BY <1>3, <1>a, BlankFits DEF RunnerInv, RemCounted, True1, Rem!List
  <1>7. AtIt(w)' /\ Heeding(w)' /\ RemHolds(w)' /\ Oldest(w)'
    BY <1>3, AtRest
  <1>b. Matched'
    <2>1. ASSUME NEW p \in Rows PROVE Matches(p)'
      <3>1. chain'[p] = chain[p] /\ Matches(p)
        BY DEF Rem!List, RunnerInv, Matched
      <3>2. \A v \in Runs : v # w => worker'[v].todo = worker[v].todo /\ worker'[v].copies = worker[v].copies
        BY <1>3
      <3>3. p \in due => chain[p].due = "now" /\ copies[p] = chain[p]
        BY DEF due, copies
      <3> QED BY <3>1, <3>2, <3>3, <1>3 DEF Matches
    <2> QED BY <2>1 DEF Matched
  <1>8. UNCHANGED <<chain, reached, followed, event, late>>
    BY DEF Rem!List
  <1>9. ASSUME LinkedInv PROVE StoppedRows'
    BY <1>9, <1>3, <1>a, BlankFits DEF LinkedInv, StoppedRows, OneStops, Rem!List
  <1> QED BY <1>4, <1>5, <1>6, <1>b, <1>7, <1>8, <1>9, StepKeeps, StepKeepsLinked

LEMMA TakeKeeps ==
  ASSUME Rem!RunnerAssumption, RunnerInv, NEW w \in Runs, Rem!Take(w)
  PROVE  RunnerInv' /\ (LinkedInv => LinkedInv' /\ Rem!StaysStopped)
  <1> USE DEF Rem!mail, Rem!world
  <1>0. Rem!TypeOK /\ worker[w] \in RunRows /\ worker \in [Runs -> RunRows]
    BY CopyFits, TypedIs DEF RunnerInv
  <1> PICK q \in worker[w].todo : followed[q] = None /\ followed' = [followed EXCEPT ![q] = w]
                                   /\ worker' = [worker EXCEPT ![w].pc = "held", ![w].q = q]
    BY DEF Rem!Take
  <1>1. q \in Rows
    BY <1>0 DEF RunRows
  <1>2. worker' = [worker EXCEPT ![w] = [worker[w] EXCEPT !.pc = "held", !.q = q]]
    BY <1>0 DEF RunRows
  <1>3. /\ worker' \in [Runs -> RunRows] /\ worker'[w].pc = "held" /\ worker'[w].copies = worker[w].copies
        /\ worker'[w].q = q /\ worker'[w].todo = worker[w].todo
        /\ \A v \in Runs \ {w} : worker'[v] = worker[v]
    BY <1>0, <1>1, <1>2 DEF RunRows, Rem!Steps
  <1>4. \A v \in Runs \ {w} : Kept(v)
    BY <1>0, <1>3 DEF Kept
  <1>5. followed' \in [Rows -> Runs \cup {None}]
    BY <1>0, TypedIs
  <1>6. Rem!TypeOK' /\ HookFits'
    BY <1>0, <1>3, <1>5, TypedIs DEF RunnerInv, Rem!TypeOK, RunRows, MessageStates, HookFits, Rem!Take
  <1>7. RemCounted'
    BY <1>3, <1>0 DEF RunnerInv, RemCounted, True1, Rem!Take
  <1>8. AtIt(w)' /\ Heeding(w)' /\ RemHolds(w)' /\ Oldest(w)'
    <2>1. followed'[q] = w
      BY <1>0, <1>1, TypedIs
    <2> QED BY <1>3, <2>1 DEF AtIt, Heeding, RemHolds, Oldest, RemWorking, Entered
  <1>9. \A v \in Runs \ {w}, p \in Rows : followed[p] = v => followed'[p] = v
    BY <1>0, <1>1, TypedIs DEF Rem!RunnerAssumption
  <1>10. UNCHANGED <<chain, reached, event, late>>
    BY DEF Rem!Take
  <1>11. ASSUME LinkedInv PROVE StoppedRows'
    BY <1>11, <1>3, <1>0 DEF LinkedInv, StoppedRows, OneStops, Rem!Take
  <1>12. Matched'
    BY <1>3, <1>10, MatchedStays
  <1> QED BY <1>4, <1>6, <1>7, <1>8, <1>9, <1>10, <1>11, <1>12, StepKeeps, StepKeepsLinked

LEMMA SkipKeeps ==
  ASSUME Rem!RunnerAssumption, RunnerInv, NEW w \in Runs, Rem!Skip(w)
  PROVE  RunnerInv' /\ (LinkedInv => LinkedInv' /\ Rem!StaysStopped)
  <1> USE DEF Rem!mail, Rem!world
  <1>0. Rem!TypeOK /\ worker[w] \in RunRows /\ worker \in [Runs -> RunRows]
    BY CopyFits, TypedIs DEF RunnerInv
  <1> PICK q \in worker[w].todo :
        worker' = [worker EXCEPT ![w] = IF worker[w].todo = {q} THEN Rem!Idle
                                      ELSE [worker[w] EXCEPT !.todo = @ \ {q}, !.copies[q] = Rem!Blank]]
    BY DEF Rem!Skip
  <1> DEFINE next == [worker[w] EXCEPT !.todo = @ \ {q}, !.copies[q] = Rem!Blank]
  <1>1. q \in Rows /\ worker[w].pc = "listed"
    BY <1>0 DEF RunRows, Rem!Skip
  <1>2. next \in RunRows /\ next.pc = "listed" /\ next.copies = [worker[w].copies EXCEPT ![q] = Rem!Blank]
        /\ next.todo = worker[w].todo \ {q}
    BY <1>0, <1>1, BlankFits DEF RunRows
  <1>3. worker'[w] \in {Rem!Idle, next} /\ (\A v \in Runs \ {w} : worker'[v] = worker[v]) /\ worker' = [v \in Runs |-> worker'[v]]
    BY <1>0
  <1> HIDE DEF next
  <1>4. /\ worker'[w] \in RunRows /\ worker'[w].pc \in {"idle", "listed"}
        /\ \A p \in Rows : worker'[w].copies[p] \in {Rem!Blank, worker[w].copies[p]}
        /\ \A p \in worker'[w].todo : p \in worker[w].todo /\ worker'[w].copies[p] = worker[w].copies[p]
    <2>1. CASE worker'[w] = Rem!Idle
      BY <2>1, IdleFits
    <2>2. CASE worker'[w] = next
      BY <2>2, <1>0, <1>1, <1>2 DEF RunRows
    <2> QED BY <1>3, <2>1, <2>2
  <1>5. worker' \in [Runs -> RunRows] /\ \A v \in Runs \ {w} : Kept(v)
    BY <1>0, <1>3, <1>4 DEF Kept
  <1>6. Rem!TypeOK' /\ HookFits'
    BY <1>0, <1>5, TypedIs DEF RunnerInv, Rem!TypeOK, RunRows, MessageStates, HookFits, Rem!Skip
  <1>7. \A v \in Runs, p \in Rows : worker'[v].copies[p] \in {Rem!Blank, worker[v].copies[p]}
    BY <1>3, <1>4
  <1>8. RemCounted'
    BY <1>7, BlankFits DEF RunnerInv, RemCounted, True1, Rem!Skip
  <1>9. AtIt(w)' /\ Heeding(w)' /\ RemHolds(w)' /\ Oldest(w)'
    BY <1>4, AtRest
  <1>10. UNCHANGED <<chain, reached, followed, event, late>>
    BY DEF Rem!Skip
  <1>11. ASSUME LinkedInv PROVE StoppedRows'
    BY <1>11, <1>7, BlankFits DEF LinkedInv, StoppedRows, OneStops, Rem!Skip
  <1>12. Matched'
    BY <1>3, <1>4, <1>10, MatchedStays
  <1> QED BY <1>5, <1>6, <1>8, <1>9, <1>10, <1>11, <1>12, StepKeeps, StepKeepsLinked

LEMMA HoldBackKeeps ==
  ASSUME Rem!RunnerAssumption, RunnerInv, NEW w \in Runs, Rem!HoldBack(w)
  PROVE  RunnerInv' /\ (LinkedInv => LinkedInv' /\ Rem!StaysStopped)
  <1>1. losses' \in 0..MaxLosses
    BY TypedIs DEF Rem!HoldBack, RunnerInv
  <1> QED BY <1>1, CopyFits, LeaveKeeps, LeaveKeepsLinked DEF Rem!HoldBack, RemWorking

LEMMA CheckKeeps ==
  ASSUME Rem!RunnerAssumption, RunnerInv, NEW w \in Runs, Rem!Check(w)
  PROVE  RunnerInv' /\ (LinkedInv => LinkedInv' /\ Rem!StaysStopped)
  <1> USE DEF Rem!mail, Rem!world
  <1> DEFINE q == worker[w].q
  <1>0. /\ Rem!TypeOK /\ worker[w] \in RunRows /\ worker \in [Runs -> RunRows] /\ q \in Rows /\ worker[w].pc = "held"
        /\ chain \in [Rows -> Rem!RowType] /\ losses' \in 0..MaxLosses
    BY CopyFits, TypedIs DEF RunnerInv, Rem!Check
  <1>1. CASE Rem!Leave(w, Rem!Stopped(Rem!Copy(w)))
    <2>1. Rem!Stopped(Rem!Copy(w)) \in Rem!RowType /\ True1(Rem!Stopped(Rem!Copy(w)), q) /\ Rem!Stopped(Rem!Copy(w)).due = "none"
          /\ (LinkedInv => OneStops(Rem!Stopped(Rem!Copy(w))))
      BY CopyFits, StoppedFits DEF OneStops
    <2> QED BY <1>0, <1>1, <2>1, LeaveKeeps, LeaveKeepsLinked DEF Rem!Check, RemWorking
  <1>2. CASE Rem!Copy(w).linked /\ Rem!Goto(w, "checked") /\ UNCHANGED <<chain, followed, broker>>
             /\ ~(blocked \/ Rem!EndedSibling(q) \/ (Rem!OlderActive(q) /\ Rem!Active(chain[q])))
    <2>1. /\ worker' \in [Runs -> RunRows] /\ \A v \in Runs \ {w} : worker'[v] = worker[v] /\ Kept(v)
          /\ worker'[w].pc = "checked" /\ worker'[w].q = q /\ worker'[w].todo = worker[w].todo /\ worker'[w].copies = worker[w].copies
      BY <1>0, <1>2, Walks DEF Rem!Steps, Kept
    <2>2. Rem!TypeOK' /\ HookFits'
      BY <1>0, <1>2, <2>1, TypedIs DEF RunnerInv, Rem!TypeOK, RunRows, MessageStates, HookFits, Rem!Check
    <2>3. RemCounted'
      BY <1>2, <2>1, <1>0 DEF RunnerInv, RemCounted, True1, Rem!Check
    <2>4. AtIt(w)' /\ Heeding(w)' /\ RemHolds(w)'
      BY <1>0, <1>2, <2>1 DEF AtIt, Heeding, RemHolds, RemWorking, Entered, RunnerInv, RemAtWork
    <2>5. Oldest(w)'
      BY <1>2, <2>1 DEF Oldest, Rem!OlderActive, Rem!Active
    <2>6. LinkedInv => StoppedRows'
      BY <1>2, <2>1, <1>0 DEF LinkedInv, StoppedRows, OneStops, Rem!Check
    <2>7. Matched'
      BY <1>2, <2>1, MatchedStays
    <2> QED BY <1>2, <2>1, <2>2, <2>3, <2>4, <2>5, <2>6, <2>7, StepKeeps, StepKeepsLinked DEF Rem!Check
  <1>3. CASE /\ ~Rem!Copy(w).linked /\ UNCHANGED <<followed, broker>>
             /\ chain' = [chain EXCEPT ![q] = [Rem!Copy(w) EXCEPT !.linked = TRUE]]
             /\ worker' = [Rem!Aged({q}) EXCEPT ![w] = [worker[w] EXCEPT !.copies[q].linked = TRUE]]
    <2> DEFINE c == [Rem!Copy(w) EXCEPT !.linked = TRUE]
               aged == [Rem!Aged({q}) EXCEPT ![w] = worker[w]]
    <2>1. c \in Rem!RowType /\ True1(c, q)
      BY CopyFits DEF Rem!RowType, True1
    <2>2. [worker[w] EXCEPT !.copies[q].linked = TRUE] = [worker[w] EXCEPT !.copies = [worker[w].copies EXCEPT ![q] = c]]
      BY CopyFits DEF RunRows
    <2> HIDE DEF c
    <2>3. [worker[w] EXCEPT !.copies = [worker[w].copies EXCEPT ![q] = c]] \in RunRows
      BY <2>1, <1>0 DEF RunRows
    <2>4. ASSUME NEW v \in Runs, v # w PROVE worker'[v] \in RunRows /\ Kept(v)
      <3>1. worker'[v] = IF worker[v].q \in {q} THEN [worker[v] EXCEPT !.fresh = FALSE] ELSE worker[v]
        BY <1>3, <2>4 DEF Rem!Aged
      <3> QED BY <3>1, <1>0, LostVersion DEF Kept
    <2>5. worker'[w] = [worker[w] EXCEPT !.copies = [worker[w].copies EXCEPT ![q] = c]]
      BY <1>3, <2>2 DEF Rem!Aged
    <2>6. worker' \in [Runs -> RunRows]
      <3>1. worker' = [v \in Runs |-> worker'[v]]
        BY <1>3 DEF Rem!Aged
      <3> QED BY <3>1, <2>3, <2>4, <2>5
    <2>7. /\ worker'[w].pc = "held" /\ worker'[w].q = q /\ worker'[w].todo = worker[w].todo
          /\ worker'[w].copies = [worker[w].copies EXCEPT ![q] = c]
      BY <1>0, <2>5 DEF RunRows
    <2>8. chain' \in [Rows -> Rem!RowType] /\ \A p \in Rows : chain'[p] = chain[p] \/ (p = q /\ chain'[p] = c)
      BY <1>0, <1>3, <2>1 DEF c
    <2>9. Rem!TypeOK' /\ HookFits'
      BY <1>0, <1>3, <2>6, <2>8, TypedIs DEF RunnerInv, Rem!TypeOK, RunRows, MessageStates, HookFits, Rem!Check
    <2>10. \A v \in Runs, p \in Rows : worker'[v].copies[p] = worker[v].copies[p] \/ (p = q /\ worker'[v].copies[p] = c)
      BY <1>0, <2>4, <2>7 DEF Kept, RunRows
    <2>11. RemCounted'
      BY <2>1, <2>8, <2>10 DEF RunnerInv, RemCounted, True1, Rem!Check
    <2>12. AtIt(w)' /\ Heeding(w)'
      BY <1>0, <1>3, <2>7 DEF AtIt, Heeding, RemWorking, Entered, RunnerInv, RemAtWork
    <2>13. ~LinkedInv
      BY <1>3, CopyFits DEF OneStops
    <2>14. Matched'
      <3>1. c.count = worker[w].copies[q].count
        BY CopyFits DEF c, Rem!RowType
      <3>2. \A v \in Runs : q \in worker'[v].todo => worker[v].copies[q].count = worker[w].copies[q].count
        BY <1>0, <2>4, <2>7 DEF Kept, RunnerInv, Matched, Matches, RemAtWork, AtIt, RemWorking
      <3>3. \A v \in Runs, p \in Rows : p \in worker'[v].todo => p \in worker[v].todo /\ worker'[v].copies[p].count = worker[v].copies[p].count
        BY <2>4, <2>7, <2>10, <3>1, <3>2 DEF Kept
      <3> QED BY <2>8, <3>1, <3>2, <3>3, MatchedStays
    <2> QED BY <1>3, <2>4, <2>9, <2>11, <2>12, <2>13, <2>14, StepKeeps DEF Rem!Check
  <1> QED BY <1>1, <1>2, <1>3 DEF Rem!Check, Rem!Copy

LEMMA LookKeeps ==
  ASSUME Rem!RunnerAssumption, RunnerInv, NEW w \in Runs, Rem!Look(w)
  PROVE  RunnerInv' /\ (LinkedInv => LinkedInv' /\ Rem!StaysStopped)
  <1> USE DEF Rem!mail, Rem!world
  <1> DEFINE q == worker[w].q
  <1>0. /\ Rem!TypeOK /\ worker[w] \in RunRows /\ worker \in [Runs -> RunRows] /\ q \in Rows /\ worker[w].pc = "checked"
        /\ chain \in [Rows -> Rem!RowType] /\ losses' \in 0..MaxLosses
    BY CopyFits, TypedIs DEF RunnerInv, Rem!Look
  <1>1. CASE \E r : Rem!Leave(w, r) /\ r \in {[Rem!Stopped(Rem!Copy(w)) EXCEPT !.status = "responded", !.resp = TRUE],
                                            [Rem!Stopped(Rem!Copy(w)) EXCEPT !.status = "issue"],
                                            [Rem!Copy(w) EXCEPT !.seq = "completed", !.due = "none"]}
    <2> PICK r : Rem!Leave(w, r) /\ r \in {[Rem!Stopped(Rem!Copy(w)) EXCEPT !.status = "responded", !.resp = TRUE],
                                            [Rem!Stopped(Rem!Copy(w)) EXCEPT !.status = "issue"],
                                            [Rem!Copy(w) EXCEPT !.seq = "completed", !.due = "none"]}
      BY <1>1
    <2> DEFINE c == Rem!Copy(w)
    <2>a. /\ c \in Rem!RowType /\ True1(c, q) /\ (LinkedInv => c.linked)
          /\ Rem!Leave(w, r)
          /\ r \in {[Rem!Stopped(c) EXCEPT !.status = "responded", !.resp = TRUE], [Rem!Stopped(c) EXCEPT !.status = "issue"],
                    [c EXCEPT !.seq = "completed", !.due = "none"]}
      BY CopyFits DEF OneStops
    <2> HIDE DEF c
    <2>b. /\ [Rem!Stopped(c) EXCEPT !.status = "responded", !.resp = TRUE] \in TurnsFit(c, q)
          /\ [Rem!Stopped(c) EXCEPT !.status = "issue"] \in TurnsFit(c, q)
          /\ [c EXCEPT !.seq = "completed", !.due = "none"] \in TurnsFit(c, q)
      BY <1>0, <2>a, StoppedFits DEF TurnsFit
    <2>1. r \in Rem!RowType /\ True1(r, q) /\ r.due = "none" /\ (LinkedInv => OneStops(r))
      BY <2>a, <2>b DEF TurnsFit
    <2> QED BY <1>0, <2>1, LeaveKeeps, LeaveKeepsLinked DEF Rem!Look, RemWorking
  <1>2. CASE Rem!Heard(q) = "none" /\ Rem!Copy(w).count < MaxReminders /\ Rem!Goto(w, "looked") /\ UNCHANGED <<chain, followed, broker>>
    <2>1. /\ worker' \in [Runs -> RunRows] /\ \A v \in Runs \ {w} : worker'[v] = worker[v] /\ Kept(v)
          /\ worker'[w].pc = "looked" /\ worker'[w].q = q /\ worker'[w].todo = worker[w].todo /\ worker'[w].copies = worker[w].copies
      BY <1>0, <1>2, Walks DEF Rem!Steps, Kept
    <2>2. Rem!TypeOK' /\ HookFits'
      BY <1>0, <1>2, <2>1, TypedIs DEF RunnerInv, Rem!TypeOK, RunRows, MessageStates, HookFits, Rem!Look
    <2>3. RemCounted'
      BY <1>2, <2>1, <1>0 DEF RunnerInv, RemCounted, True1, Rem!Look
    <2>4. AtIt(w)' /\ Heeding(w)' /\ RemHolds(w)'
      BY <1>0, <1>2, <2>1 DEF AtIt, Heeding, RemHolds, RemWorking, Entered, RunnerInv, RemAtWork, Rem!Heard, Rem!Copy, Rem!Look
    <2>5. LinkedInv => Oldest(w)'
      BY <1>0, <1>2, <2>1 DEF Oldest, LinkedInv, OldestOnly
    <2>6. LinkedInv => StoppedRows'
      BY <1>2, <2>1, <1>0 DEF LinkedInv, StoppedRows, OneStops, Rem!Look
    <2>7. Matched'
      BY <1>2, <2>1, MatchedStays
    <2> QED BY <1>2, <2>1, <2>2, <2>3, <2>4, <2>5, <2>6, <2>7, StepKeeps, StepKeepsLinked DEF Rem!Look
  <1> QED BY <1>1, <1>2 DEF Rem!Look

LEMMA RemClaimKeeps ==
  ASSUME Rem!RunnerAssumption, RunnerInv, NEW w \in Runs, Rem!Claim(w)
  PROVE  RunnerInv' /\ (LinkedInv => LinkedInv' /\ Rem!StaysStopped)
  <1> USE DEF Rem!mail, Rem!world
  <1> DEFINE q == worker[w].q
             claimed == [chain[q] EXCEPT !.status = "pending", !.aged = FALSE]
             next == [worker[w] EXCEPT !.pc = "claimed", !.n = Rem!Copy(w).count + 1, !.copies[q] = claimed, !.fresh = TRUE]
  <1>0. /\ Rem!TypeOK /\ worker[w] \in RunRows /\ worker \in [Runs -> RunRows] /\ q \in Rows /\ worker[w].pc = "looked"
        /\ chain \in [Rows -> Rem!RowType] /\ losses' \in 0..MaxLosses
    BY CopyFits, TypedIs DEF RunnerInv, Rem!Claim
  <1>1. CASE Rem!Leave(w, chain[q])
    BY <1>0, <1>1, CopyFits, LeaveKeeps, LeaveKeepsLinked DEF Rem!Claim, RemWorking
  <1>2. CASE /\ Rem!Claimable(chain[q]) /\ chain' = [chain EXCEPT ![q] = claimed]
             /\ worker' = [Rem!Aged({q}) EXCEPT ![w] = next] /\ UNCHANGED <<followed, broker>>
    <2> DEFINE n == worker[w].copies[q].count + 1
    <2>1. claimed \in Rem!RowType /\ claimed.due = "now" /\ claimed.count = chain[q].count /\ chain[q].due = "now"
          /\ claimed.linked = chain[q].linked /\ claimed.seq = chain[q].seq
      BY <1>0, <1>2 DEF Rem!RowType, Rem!Claimable
    <2>2. n \in Rem!Numbers /\ worker[w].copies[q].count \in Nat /\ n \in 0..MaxReminders
      <3>1. worker[w].copies[q].count \in Nat /\ worker[w].copies[q].count < MaxReminders
        BY <1>0 DEF RunnerInv, RemAtWork, AtIt, RunRows, Rem!RowType
      <3> QED BY <3>1 DEF Rem!Numbers, Rem!RunnerAssumption
    <2> HIDE DEF claimed, n
    <2>3. next \in RunRows /\ next.pc = "claimed" /\ next.n = n /\ next.q = q /\ next.todo = worker[w].todo
          /\ next.copies = [worker[w].copies EXCEPT ![q] = claimed]
      BY <1>0, <2>1, <2>2 DEF RunRows, Rem!Steps, Rem!Copy, n
    <2> HIDE DEF next
    <2>4. ASSUME NEW v \in Runs, v # w PROVE worker'[v] \in RunRows /\ Kept(v) /\ (worker[v].q = q => ~worker'[v].fresh)
      <3>1. worker'[v] = IF worker[v].q \in {q} THEN [worker[v] EXCEPT !.fresh = FALSE] ELSE worker[v]
        BY <1>2, <2>4 DEF Rem!Aged
      <3> QED BY <3>1, <1>0, LostVersion DEF Kept
    <2>5. worker'[w] = next /\ worker' = [v \in Runs |-> worker'[v]]
      BY <1>2 DEF Rem!Aged
    <2>6. worker' \in [Runs -> RunRows]
      BY <2>3, <2>4, <2>5
    <2>7. chain' \in [Rows -> Rem!RowType] /\ \A p \in Rows : chain'[p] = chain[p] \/ (p = q /\ chain'[p] = claimed)
      BY <1>0, <1>2, <2>1
    <2>8. Rem!TypeOK' /\ HookFits'
      BY <1>0, <1>2, <2>6, <2>7, TypedIs DEF RunnerInv, Rem!TypeOK, RunRows, MessageStates, HookFits, Rem!Claim
    <2>9. \A v \in Runs, p \in Rows : worker'[v].copies[p] = worker[v].copies[p] \/ (p = q /\ worker'[v].copies[p] = claimed)
      BY <1>0, <2>3, <2>4, <2>5 DEF Kept, RunRows
    <2>10. RemCounted'
      BY <1>0, <2>1, <2>7, <2>9 DEF RunnerInv, RemCounted, True1, Rem!Claim
    <2>11. worker[w].copies[q].count = claimed.count /\ q \in worker[w].todo
      BY <1>0, <2>1 DEF RunnerInv, Matched, Matches, RemAtWork, AtIt, RemWorking
    <2>12. worker'[w].copies[q] = claimed
      <3>1. worker[w].copies \in [Rows -> Rem!RowType]
        BY <1>0 DEF RunRows
      <3> QED BY <1>0, <2>3, <2>5, <3>1
    <2>13. Matched'
      <3>1. \A v \in Runs, p \in Rows : p \in worker'[v].todo => p \in worker[v].todo /\ worker'[v].copies[p].count = worker[v].copies[p].count
        <4>1. ASSUME NEW v \in Runs, NEW p \in Rows, p \in worker'[v].todo
              PROVE  p \in worker[v].todo
          BY <4>1, <2>3, <2>4, <2>5 DEF Kept
        <4>2. ASSUME NEW v \in Runs, NEW p \in Rows, p \in worker[v].todo, p = q
              PROVE  worker[v].copies[p].count = claimed.count
          BY <4>2, <2>1, <2>11 DEF RunnerInv, Matched, Matches
        <4> QED BY <2>9, <4>1, <4>2
      <3>2. \A p \in Rows : chain'[p].due = "now" => chain[p].due = "now" /\ chain'[p].count = chain[p].count
        BY <2>1, <2>7
      <3> QED BY <3>1, <3>2, MatchedStays
    <2>14. AtIt(w)' /\ Heeding(w)' /\ RemHolds(w)'
      <3>1. followed'[q] = w /\ q \in worker'[w].todo
        BY <1>0, <1>2, <2>3, <2>5 DEF RunnerInv, RemAtWork, AtIt, RemWorking
      <3>2. worker'[w].n = worker'[w].copies[q].count + 1 /\ worker'[w].n \in Rem!Numbers
        BY <2>2, <2>3, <2>5, <2>11, <2>12 DEF n
      <3>3. chain'[q].due = "now"
        BY <1>0, <1>2, <2>1
      <3> QED BY <1>0, <2>3, <2>5, <3>1, <3>2, <3>3 DEF AtIt, Heeding, RemHolds, RunnerInv, Heeds, Rem!Claim, RemWorking, Entered
    <2>15. LinkedInv => Oldest(w)'
      BY <1>0, <2>1, <2>3, <2>5, <2>7 DEF Oldest, LinkedInv, OldestOnly
    <2>16. LinkedInv => StoppedRows'
      BY <2>1, <2>7, <2>9, CopyFits DEF LinkedInv, StoppedRows, OneStops, Rem!Claim
    <2>17. \A p \in Rows : chain[p].due = "none" => chain'[p].due = "none"
      BY <2>1, <2>7
    <2>18. \A v \in Runs \ {w} : Kept(v) /\ (~worker'[v].fresh \/ chain'[worker[v].q] = chain[worker[v].q])
      BY <1>0, <2>4, <2>7 DEF RunRows
    <2>19. UNCHANGED <<reached, followed, event, late>>
      BY <1>2 DEF Rem!Claim
    <2> QED BY <2>8, <2>10, <2>13, <2>14, <2>15, <2>16, <2>17, <2>18, <2>19, StepKeeps, StepKeepsLinked
  <1> QED BY <1>1, <1>2 DEF Rem!Claim

(* A claim that is settled: the row is what the answer makes of the copy, or stays. *)
LEMMA FinishKeeps ==
  ASSUME Rem!RunnerAssumption, RunnerInv, NEW w \in Runs, worker[w].pc \in Entered,
         NEW s \in Rem!RowType, True1(s, worker[w].q), s.due # "now", Rem!Copy(w).linked => OneStops(s),
         Rem!Leave(w, IF Rem!Held(w) THEN s ELSE chain[worker[w].q]), losses' \in 0..MaxLosses, UNCHANGED <<Rem!mail, Rem!world>>
  PROVE  RunnerInv' /\ (LinkedInv => LinkedInv' /\ Rem!StaysStopped)
  <1> DEFINE r == IF Rem!Held(w) THEN s ELSE chain[worker[w].q]
  <1>1. /\ r \in Rem!RowType /\ True1(r, worker[w].q) /\ Rem!Leave(w, r)
        /\ r.due = "now" => r = chain[worker[w].q]
    BY CopyFits
  <1>2. ASSUME LinkedInv PROVE OneStops(r) /\ (chain[worker[w].q].due = "none" => r.due = "none")
    <2>1. Rem!Copy(w).linked /\ OneStops(chain[worker[w].q])
      BY <1>2, CopyFits DEF OneStops
    <2>2. Rem!Held(w) => chain[worker[w].q].due = "now"
      BY <1>2 DEF LinkedInv, RemHolding, RemHolds
    <2> QED BY <2>1, <2>2
  <1> HIDE DEF r
  <1> QED BY <1>1, <1>2, LeaveKeeps, LeaveKeepsLinked DEF RemWorking

(* A run goes on with its claim. *)
LEMMA WalkKeeps ==
  ASSUME Rem!RunnerAssumption, RunnerInv, NEW w \in Runs, worker[w].pc \in Entered,
         worker' \in [Runs -> RunRows], \A v \in Runs \ {w} : worker'[v] = worker[v],
         worker'[w].pc \in Entered, worker'[w].todo = worker[w].todo, worker'[w].q = worker[w].q,
         worker'[w].copies = worker[w].copies, worker'[w].n = worker[w].n, worker'[w].fresh = worker[w].fresh,
         worker'[w].pc \in {"claimed", "persisted", "renewed"} => worker[w].pc \in {"claimed", "persisted", "renewed"},
         worker'[w].pc \in {"answered", "saved"} =>
           worker'[w].outcome # "none" /\ (worker'[w].outcome = "sent" => worker[w].n \in reached'[worker[w].q]),
         reminder' \in [Rows -> [Rem!Numbers -> MessageStates]], unsure' \in [Rows -> SUBSET Rem!Numbers],
         reached' \in [Rows -> SUBSET Rem!Numbers], broker' \in Runs \cup {None}, losses' \in 0..MaxLosses,
         \A q \in Rows : reached[q] \subseteq reached'[q],
         \A q \in Rows, n \in Rem!Numbers : Rem!Proof(reminder'[q][n]) => n \in reached'[q],
         UNCHANGED <<chain, followed, Rem!world>>
  PROVE  RunnerInv' /\ (LinkedInv => LinkedInv' /\ Rem!StaysStopped)
  <1> USE DEF Rem!world
  <1>0. Rem!TypeOK /\ worker[w].q \in Rows
    BY CopyFits DEF RunnerInv
  <1>1. \A v \in Runs \ {w} : Kept(v)
    BY DEF Kept
  <1>2. Rem!TypeOK' /\ HookFits'
    BY <1>0, TypedIs DEF RunnerInv, Rem!TypeOK, RunRows, MessageStates, HookFits
  <1>3. \A v \in Runs : worker'[v].copies = worker[v].copies /\ worker'[v].todo = worker[v].todo
    OBVIOUS
  <1>4. RemCounted'
    BY <1>3 DEF RunnerInv, RemCounted, True1
  <1>5. Matched'
    BY <1>3, MatchedStays
  <1>6. AtIt(w)'
    BY <1>0 DEF AtIt, RemWorking, Entered, RunnerInv, RemAtWork
  <1>7. Heeding(w)'
    BY <1>0 DEF Heeding, Entered, RunnerInv, Heeds
  <1>8. LinkedInv => RemHolds(w)'
    BY <1>0 DEF RemHolds, Rem!Held, LinkedInv, RemHolding
  <1>9. LinkedInv => Oldest(w)'
    BY <1>0 DEF Oldest, Entered, LinkedInv, OldestOnly
  <1>10. LinkedInv => StoppedRows'
    BY <1>3 DEF LinkedInv, StoppedRows, OneStops
  <1> QED BY <1>1, <1>2, <1>4, <1>5, <1>6, <1>7, <1>8, <1>9, <1>10, StepKeeps, StepKeepsLinked

(* What a run with a claim has. *)
LEMMA RemClaims ==
  ASSUME Rem!RunnerAssumption, RunnerInv, NEW w \in Runs, worker[w].pc \in Entered
  PROVE  /\ worker[w].n \in Rem!Numbers /\ worker[w].n = Rem!Copy(w).count + 1 /\ worker[w].q \in Rows
         /\ Rem!Proof(reminder[worker[w].q][worker[w].n]) => worker[w].n \in reached[worker[w].q]
         /\ Rem!TypeOK
  BY CopyFits DEF RunnerInv, RemAtWork, AtIt, RemCounted

LEMMA RemPersistKeeps ==
  ASSUME Rem!RunnerAssumption, RunnerInv, NEW w \in Runs, Rem!Persist(w)
  PROVE  RunnerInv' /\ (LinkedInv => LinkedInv' /\ Rem!StaysStopped)
  <1> DEFINE q == worker[w].q
             n == worker[w].n
             c == Rem!Copy(w)
             sent == Rem!Updated(c, "sent")
  <1>0. worker[w].pc = "claimed" /\ worker[w].pc \in Entered /\ UNCHANGED Rem!world
    BY DEF Rem!Persist, Entered
  <1>1. Rem!TypeOK /\ q \in Rows /\ n \in Rem!Numbers /\ n = c.count + 1 /\ c \in Rem!RowType /\ True1(c, q)
    BY <1>0, RemClaims, CopyFits
  <1>2. losses \in 0..MaxLosses
    BY <1>1, TypedIs
  <1>3. CASE Rem!Defer(w) /\ UNCHANGED <<Rem!mail, losses>>
    BY <1>0, <1>2, <1>3, RemDeferKeeps
  <1>4. CASE /\ Rem!Reconciled(w) /\ UNCHANGED <<Rem!mail, losses>>
             /\ Rem!Leave(w, IF ~Rem!Held(w) THEN chain[q]
                         ELSE IF reminder[q][n] = "bounced" THEN [Rem!Stopped(sent) EXCEPT !.status = "issue"]
                         ELSE sent)
    <2>1. n \in reached[q]
      BY <1>0, <1>4, RemClaims DEF Rem!Reconciled
    <2>2. sent \in Rem!RowType /\ True1(sent, q) /\ (c.linked => OneStops(sent)) /\ sent.linked = c.linked /\ sent.due # "now"
      BY <1>1, <2>1, UpdatedFits
    <2> HIDE DEF sent
    <2> DEFINE s == IF reminder[q][n] = "bounced" THEN [Rem!Stopped(sent) EXCEPT !.status = "issue"] ELSE sent
    <2>3. s \in Rem!RowType /\ True1(s, q) /\ (c.linked => OneStops(s)) /\ s.due # "now"
      BY <1>1, <2>2, StoppedFits
    <2>4. Rem!Leave(w, IF Rem!Held(w) THEN s ELSE chain[q])
      <3>1. (IF ~Rem!Held(w) THEN chain[q] ELSE s) = (IF Rem!Held(w) THEN s ELSE chain[q])
        OBVIOUS
      <3> HIDE DEF s
      <3>2. Rem!Leave(w, IF ~Rem!Held(w) THEN chain[q] ELSE s)
        BY <1>4 DEF s
      <3> QED BY <3>1, <3>2
    <2> HIDE DEF s
    <2> QED BY <1>0, <1>2, <1>4, <2>3, <2>4, FinishKeeps
  <1>5. CASE /\ broker' = w /\ Rem!Goto(w, "persisted")
             /\ reminder' = [reminder EXCEPT ![q][n] = IF @ = "none" THEN "ready" ELSE @]
             /\ UNCHANGED <<chain, followed, unsure, reached, losses>>
    <2>1. /\ worker' \in [Runs -> RunRows] /\ \A v \in Runs \ {w} : worker'[v] = worker[v]
          /\ worker'[w].pc = "persisted" /\ worker'[w].todo = worker[w].todo /\ worker'[w].q = q
          /\ worker'[w].copies = worker[w].copies /\ worker'[w].n = n /\ worker'[w].fresh = worker[w].fresh
      BY <1>1, <1>5, Walks DEF Rem!Steps
    <2> DEFINE new == IF reminder[q][n] = "none" THEN "ready" ELSE reminder[q][n]
    <2>2. reminder \in [Rows -> [Rem!Numbers -> MessageStates]]
      BY <1>1, TypedIs
    <2>3. reminder' = [reminder EXCEPT ![q] = [reminder[q] EXCEPT ![n] = new]]
      BY <1>1, <1>5, <2>2
    <2>4. new \in MessageStates /\ (Rem!Proof(new) => Rem!Proof(reminder[q][n]))
      BY <1>1, <2>2 DEF MessageStates, Rem!Proof
    <2> HIDE DEF new
    <2>5. reminder' \in [Rows -> [Rem!Numbers -> MessageStates]]
      BY <1>1, <2>2, <2>3, <2>4
    <2>6. \A p \in Rows, m \in Rem!Numbers : Rem!Proof(reminder'[p][m]) => m \in reached'[p]
      BY <1>1, <1>5, <2>2, <2>3, <2>4 DEF RunnerInv, RemCounted
    <2>7. unsure' \in [Rows -> SUBSET Rem!Numbers] /\ reached' \in [Rows -> SUBSET Rem!Numbers] /\ reached' = reached
      BY <1>1, <1>5, TypedIs
    <2> QED BY <1>0, <1>2, <1>5, <2>1, <2>5, <2>6, <2>7, WalkKeeps DEF Entered
  <1>6. CASE /\ losses < MaxLosses /\ losses' = losses + 1 /\ UNCHANGED Rem!mail
             /\ Rem!Leave(w, IF Rem!Held(w) THEN Rem!Updated(c, "failed") ELSE chain[q])
    <2>1. /\ Rem!Updated(c, "failed") \in Rem!RowType /\ True1(Rem!Updated(c, "failed"), q)
          /\ c.linked => OneStops(Rem!Updated(c, "failed"))
          /\ Rem!Updated(c, "failed").due # "now"
      BY <1>1, UpdatedFits
    <2>2. losses' \in 0..MaxLosses
      BY <1>2, <1>6 DEF Rem!RunnerAssumption
    <2> QED BY <1>0, <1>6, <2>1, <2>2, FinishKeeps
  <1> QED BY <1>3, <1>4, <1>5, <1>6 DEF Rem!Persist

LEMMA RemRenewKeeps ==
  ASSUME Rem!RunnerAssumption, RunnerInv, NEW w \in Runs, Rem!Renew(w)
  PROVE  RunnerInv' /\ (LinkedInv => LinkedInv' /\ Rem!StaysStopped)
  <1>0. /\ worker[w].pc = "persisted" /\ worker[w].pc \in Entered /\ worker[w].pc \in RemWorking
        /\ UNCHANGED <<Rem!mail, losses, Rem!world>>
    BY DEF Rem!Renew, Entered, RemWorking
  <1>1. Rem!TypeOK /\ worker[w].q \in Rows
    BY <1>0, RemClaims
  <1>2. /\ losses' \in 0..MaxLosses /\ reminder' \in [Rows -> [Rem!Numbers -> MessageStates]] /\ reminder' = reminder
        /\ unsure' \in [Rows -> SUBSET Rem!Numbers] /\ reached' \in [Rows -> SUBSET Rem!Numbers] /\ reached' = reached
        /\ broker \in Runs \cup {None}
    BY <1>0, <1>1, TypedIs DEF Rem!mail
  <1>3. CASE Rem!Leave(w, chain[worker[w].q])
    BY <1>0, <1>2, <1>3, CopyFits, LeaveKeeps, LeaveKeepsLinked
  <1>4. CASE Rem!Defer(w)
    BY <1>0, <1>2, <1>4, RemDeferKeeps
  <1>5. CASE Rem!Goto(w, "renewed") /\ UNCHANGED <<chain, followed, broker>>
    <2>1. /\ worker' \in [Runs -> RunRows] /\ \A v \in Runs \ {w} : worker'[v] = worker[v]
          /\ worker'[w].pc = "renewed" /\ worker'[w].todo = worker[w].todo /\ worker'[w].q = worker[w].q
          /\ worker'[w].copies = worker[w].copies /\ worker'[w].n = worker[w].n /\ worker'[w].fresh = worker[w].fresh
      BY <1>1, <1>5, Walks DEF Rem!Steps
    <2>2. \A p \in Rows, m \in Rem!Numbers : Rem!Proof(reminder'[p][m]) => m \in reached'[p]
      BY <1>2 DEF RunnerInv, RemCounted
    <2> QED BY <1>0, <1>2, <1>5, <2>1, <2>2, WalkKeeps DEF Entered
  <1> QED BY <1>3, <1>4, <1>5 DEF Rem!Renew

LEMMA RemHandKeeps ==
  ASSUME Rem!RunnerAssumption, RunnerInv, NEW w \in Runs, Rem!Hand(w)
  PROVE  RunnerInv' /\ (LinkedInv => LinkedInv' /\ Rem!StaysStopped)
  <1>0. worker[w].pc = "renewed" /\ worker[w].pc \in Entered
    BY DEF Rem!Hand, Entered
  <1>1. Rem!TypeOK /\ worker[w].q \in Rows /\ worker[w].n \in Rem!Numbers
    BY <1>0, RemClaims
  <1>2. /\ losses' \in 0..MaxLosses /\ reminder' \in [Rows -> [Rem!Numbers -> MessageStates]] /\ reminder' = reminder
        /\ reached' \in [Rows -> SUBSET Rem!Numbers] /\ reached' = reached /\ broker' \in Runs \cup {None}
    BY <1>1, TypedIs DEF Rem!Hand
  <1>3. unsure' \in [Rows -> SUBSET Rem!Numbers]
    <2>1. unsure \in [Rows -> SUBSET Rem!Numbers]
      BY <1>1, TypedIs
    <2>2. [unsure EXCEPT ![worker[w].q] = @ \cup {worker[w].n}] \in [Rows -> SUBSET Rem!Numbers]
      BY <1>1, <2>1
    <2> QED BY <2>1, <2>2 DEF Rem!Hand
  <1>4. /\ worker' \in [Runs -> RunRows] /\ \A v \in Runs \ {w} : worker'[v] = worker[v]
        /\ worker'[w].pc = "handed" /\ worker'[w].todo = worker[w].todo /\ worker'[w].q = worker[w].q
        /\ worker'[w].copies = worker[w].copies /\ worker'[w].n = worker[w].n /\ worker'[w].fresh = worker[w].fresh
    BY <1>1, Walks DEF Rem!Steps, Rem!Hand
  <1>5. \A p \in Rows, m \in Rem!Numbers : Rem!Proof(reminder'[p][m]) => m \in reached'[p]
    BY <1>2 DEF RunnerInv, RemCounted
  <1>6. UNCHANGED <<chain, followed, Rem!world>>
    BY DEF Rem!Hand
  <1> QED BY <1>0, <1>2, <1>3, <1>4, <1>5, <1>6, WalkKeeps DEF Entered

(* Whoever hands a follow-up over got past the events, and past older requests. *)
LEMMA HandedOver ==
  ASSUME RunnerInv, NEW w \in Runs, Rem!Hand(w)
  PROVE  /\ event[worker[w].q] # "none" => w \in late[worker[w].q]
         /\ LinkedInv => \A p \in Rows : p < worker[w].q => chain[p].due = "none"
  BY DEF Rem!Hand, RunnerInv, Heeds, Heeding, LinkedInv, OldestOnly, Oldest

LEMMA RemAnswerKeeps ==
  ASSUME Rem!RunnerAssumption, RunnerInv, NEW w \in Runs, Rem!Answer(w)
  PROVE  RunnerInv' /\ (LinkedInv => LinkedInv' /\ Rem!StaysStopped)
  <1>0. worker[w].pc = "handed" /\ worker[w].pc \in Entered
    BY DEF Rem!Answer, Entered
  <1>1. Rem!TypeOK /\ worker[w].q \in Rows /\ worker[w].n \in Rem!Numbers /\ worker[w] \in RunRows /\ worker \in [Runs -> RunRows]
    BY <1>0, RemClaims, TypedIs
  <1>2. PICK outcome \in Verdicts :
          /\ worker' = [worker EXCEPT ![w].pc = "answered", ![w].outcome = outcome]
          /\ \E has \in IF outcome = "ambiguous" THEN BOOLEAN ELSE {outcome = "sent"} :
               reached' = IF has THEN [reached EXCEPT ![worker[w].q] = @ \cup {worker[w].n}] ELSE reached
    BY DEF Rem!Answer
  <1>3. outcome \in {"sent", "failed", "ambiguous"}
    BY DEF Rem!RunnerAssumption
  <1>4. /\ reached' \in [Rows -> SUBSET Rem!Numbers] /\ \A q \in Rows : reached[q] \subseteq reached'[q]
        /\ outcome = "sent" => worker[w].n \in reached'[worker[w].q]
    <2>1. reached \in [Rows -> SUBSET Rem!Numbers]
      BY <1>1, TypedIs
    <2> DEFINE more == [reached EXCEPT ![worker[w].q] = @ \cup {worker[w].n}]
    <2>2. more \in [Rows -> SUBSET Rem!Numbers] /\ (\A q \in Rows : reached[q] \subseteq more[q]) /\ worker[w].n \in more[worker[w].q]
      BY <1>1, <2>1
    <2>3. reached' \in {reached, more} /\ (outcome = "sent" => reached' = more)
      BY <1>2
    <2> HIDE DEF more
    <2> QED BY <2>1, <2>2, <2>3
  <1>5. worker' = [worker EXCEPT ![w] = [worker[w] EXCEPT !.pc = "answered", !.outcome = outcome]]
    BY <1>1, <1>2 DEF RunRows
  <1>6. /\ worker' \in [Runs -> RunRows] /\ \A v \in Runs \ {w} : worker'[v] = worker[v]
        /\ worker'[w].pc = "answered" /\ worker'[w].todo = worker[w].todo /\ worker'[w].q = worker[w].q
        /\ worker'[w].copies = worker[w].copies /\ worker'[w].n = worker[w].n /\ worker'[w].fresh = worker[w].fresh
        /\ worker'[w].outcome = outcome
    BY <1>1, <1>3, <1>5 DEF RunRows, Rem!Steps
  <1>7. /\ losses' \in 0..MaxLosses /\ reminder' \in [Rows -> [Rem!Numbers -> MessageStates]] /\ reminder' = reminder
        /\ unsure' \in [Rows -> SUBSET Rem!Numbers] /\ broker' \in Runs \cup {None}
    BY <1>1, TypedIs DEF Rem!Answer
  <1>8. \A p \in Rows, m \in Rem!Numbers : Rem!Proof(reminder'[p][m]) => m \in reached'[p]
    BY <1>4, <1>7 DEF RunnerInv, RemCounted
  <1>9. UNCHANGED <<chain, followed, Rem!world>>
    BY DEF Rem!Answer
  <1> QED BY <1>0, <1>3, <1>4, <1>6, <1>7, <1>8, <1>9, WalkKeeps DEF Entered

LEMMA RemSaveKeeps ==
  ASSUME Rem!RunnerAssumption, RunnerInv, NEW w \in Runs, Rem!Save(w)
  PROVE  RunnerInv' /\ (LinkedInv => LinkedInv' /\ Rem!StaysStopped)
  <1> DEFINE q == worker[w].q
             n == worker[w].n
             new == IF worker[w].outcome = "sent" THEN "accepted" ELSE worker[w].outcome
  <1>0. worker[w].pc = "answered" /\ worker[w].pc \in Entered /\ Rem!Goto(w, "saved")
    BY DEF Rem!Save, Entered
  <1>1. Rem!TypeOK /\ q \in Rows /\ n \in Rem!Numbers /\ worker[w] \in RunRows
    BY <1>0, RemClaims, TypedIs
  <1>2. worker[w].outcome # "none" /\ (worker[w].outcome = "sent" => n \in reached[q])
    BY <1>0 DEF RunnerInv, RemAtWork, AtIt
  <1>3. new \in MessageStates /\ (Rem!Proof(new) => n \in reached[q])
    BY <1>1, <1>2 DEF RunRows, MessageStates, Rem!Proof
  <1>4. /\ worker' \in [Runs -> RunRows] /\ \A v \in Runs \ {w} : worker'[v] = worker[v]
        /\ worker'[w].pc = "saved" /\ worker'[w].todo = worker[w].todo /\ worker'[w].q = worker[w].q
        /\ worker'[w].copies = worker[w].copies /\ worker'[w].n = worker[w].n /\ worker'[w].fresh = worker[w].fresh
        /\ worker'[w].outcome = worker[w].outcome
    BY <1>0, <1>1, Walks DEF Rem!Steps
  <1>5. /\ reached' \in [Rows -> SUBSET Rem!Numbers] /\ reached' = reached
        /\ unsure' \in [Rows -> SUBSET Rem!Numbers] /\ broker' \in Runs \cup {None}
        /\ reminder \in [Rows -> [Rem!Numbers -> MessageStates]] /\ losses \in 0..MaxLosses
    BY <1>1, TypedIs DEF Rem!Save
  <1>6. losses' \in 0..MaxLosses
    BY <1>5 DEF Rem!Save, Rem!RunnerAssumption
  <1>7. reminder' = reminder \/ reminder' = [reminder EXCEPT ![q] = [reminder[q] EXCEPT ![n] = new]]
    BY <1>1, <1>5 DEF Rem!Save
  <1> HIDE DEF new, q, n
  <1> DEFINE newRow == [reminder EXCEPT ![q] = [reminder[q] EXCEPT ![n] = new]]
  <1>a. \A p \in Rows, m \in Rem!Numbers : Rem!Proof(reminder[p][m]) => m \in reached[p]
    BY DEF RunnerInv, RemCounted
  <1>b. reminder[q] \in [Rem!Numbers -> MessageStates]
    BY <1>1, <1>5
  <1>c. [reminder[q] EXCEPT ![n] = new] \in [Rem!Numbers -> MessageStates]
    BY <1>b, <1>3
  <1>d. newRow \in [Rows -> [Rem!Numbers -> MessageStates]]
    BY <1>c, <1>5
  <1>e. \A p \in Rows, m \in Rem!Numbers : newRow[p][m] = reminder[p][m] \/ (p = q /\ m = n /\ newRow[p][m] = new)
    BY <1>1, <1>b, <1>5
  <1> HIDE DEF newRow
  <1>8. reminder' \in [Rows -> [Rem!Numbers -> MessageStates]]
    BY <1>5, <1>7, <1>d DEF newRow
  <1>9. \A p \in Rows, m \in Rem!Numbers : Rem!Proof(reminder'[p][m]) => m \in reached'[p]
    <2>1. reminder' = reminder \/ reminder' = newRow
      BY <1>7 DEF newRow
    <2> QED BY <1>3, <1>5, <1>a, <1>e, <2>1
  <1>10. UNCHANGED <<chain, followed, Rem!world>>
    BY DEF Rem!Save
  <1> QED BY <1>0, <1>2, <1>4, <1>5, <1>6, <1>8, <1>9, <1>10, WalkKeeps DEF Entered, q, n

LEMMA RemFinalizeKeeps ==
  ASSUME Rem!RunnerAssumption, RunnerInv, NEW w \in Runs, Rem!Finalize(w)
  PROVE  RunnerInv' /\ (LinkedInv => LinkedInv' /\ Rem!StaysStopped)
  <1> DEFINE s == Rem!Updated(Rem!Copy(w), worker[w].outcome)
  <1>0. worker[w].pc = "saved" /\ worker[w].pc \in Entered /\ UNCHANGED <<Rem!mail, Rem!world>>
    BY DEF Rem!Finalize, Entered
  <1>1. /\ Rem!TypeOK /\ worker[w].q \in Rows /\ worker[w].n \in Rem!Numbers /\ worker[w].n = Rem!Copy(w).count + 1
        /\ Rem!Copy(w) \in Rem!RowType /\ True1(Rem!Copy(w), worker[w].q) /\ worker[w] \in RunRows
    BY <1>0, RemClaims, CopyFits
  <1>2. worker[w].outcome \in {"sent", "failed", "ambiguous"} /\ (worker[w].outcome = "sent" => worker[w].n \in reached[worker[w].q])
    BY <1>0, <1>1 DEF RunnerInv, RemAtWork, AtIt, RunRows
  <1>3. s \in Rem!RowType /\ True1(s, worker[w].q) /\ (Rem!Copy(w).linked => OneStops(s)) /\ s.due # "now"
    BY <1>1, <1>2, UpdatedFits
  <1>4. Rem!Leave(w, IF Rem!Held(w) THEN s ELSE chain[worker[w].q]) /\ losses' \in 0..MaxLosses
    BY <1>1, TypedIs DEF Rem!Finalize
  <1> HIDE DEF s
  <1> QED BY <1>0, <1>3, <1>4, FinishKeeps

-----------------------------------------------------------------------------
(* The provider's events, the clock and the process *)

(* Runs that nobody touches. *)
LEMMA RunsKept == ASSUME RunnerInv, UNCHANGED worker PROVE \A v \in Runs : Kept(v) /\ worker[v].q \in Rows
  BY CopyFits DEF Kept

(* The rows but one stay, and no run's copy changes. *)
LEMMA OneRowMatched ==
  ASSUME RunnerInv, \A v \in Runs : worker'[v].todo = worker[v].todo /\ worker'[v].copies = worker[v].copies,
         NEW q \in Rows, \A p \in Rows \ {q} : chain'[p] = chain[p],
         chain'[q].due = "now" => chain'[q].count = chain[q].count /\ (chain[q].due = "now" \/ \A v \in Runs : q \notin worker[v].todo)
  PROVE  Matched'
  <1>1. \A v \in Runs, p \in Rows : p \in worker'[v].todo => p \in worker[v].todo /\ worker'[v].copies[p].count = worker[v].copies[p].count
    OBVIOUS
  <1>2. \A v \in Runs, p \in Rows : p \in worker'[v].todo /\ chain'[p].due = "now" =>
            chain[p].due = "now" /\ chain'[p].count = chain[p].count
    OBVIOUS
  <1> QED BY <1>1, <1>2, MatchedStays

LEMMA ReportedFits ==
  ASSUME NEW q \in Rows, NEW r \in Rem!RowType, True1(r, q), NEW state \in {"accepted", "delivered", "bounced"}
  PROVE  LET t == Rem!Reported(r, state)
         IN  /\ t \in Rem!RowType /\ True1(t, q) /\ t.count = r.count
             /\ OneStops(r) => OneStops(t)
             /\ t.due \in {"none", r.due}
  BY DEF Rem!RowType, Rem!Reported, True1, OneStops

LEMMA RemReportKeeps ==
  ASSUME Rem!RunnerAssumption, RunnerInv, NEW q \in Rows, NEW n \in Rem!Numbers, Rem!Report(q, n)
  PROVE  RunnerInv' /\ (LinkedInv => LinkedInv' /\ Rem!StaysStopped)
  <1> PICK state \in {"accepted", "delivered", "bounced"} :
        /\ reminder' = [reminder EXCEPT ![q][n] = state]
        /\ chain' = [chain EXCEPT ![q] = Rem!Reported(@, state)]
        /\ blocked' = (blocked \/ state = "bounced")
        /\ event' = IF state = "bounced" /\ event[q] = "none" THEN [event EXCEPT ![q] = "bounce"] ELSE event
        /\ late' = IF event' # event THEN [late EXCEPT ![q] = {w \in Runs : followed[q] = w}] ELSE late
    BY DEF Rem!Report
  <1>0. /\ Rem!TypeOK /\ chain \in [Rows -> Rem!RowType] /\ reminder \in [Rows -> [Rem!Numbers -> MessageStates]]
        /\ event \in [Rows -> {"none", "reply", "bounce"}] /\ late \in [Rows -> SUBSET Runs]
        /\ chain[q] \in Rem!RowType /\ True1(chain[q], q) /\ n \in reached[q]
    BY TypedIs DEF RunnerInv, RemCounted, Rem!Report
  <1>1. worker' = Rem!Aged({q})
    BY DEF Rem!Report
  <1>2. worker' \in [Runs -> RunRows] /\ \A v \in Runs : Kept(v) /\ (worker[v].q = q => ~worker'[v].fresh)
    BY <1>0, <1>1, AgedRuns
  <1>3. /\ chain' = [chain EXCEPT ![q] = Rem!Reported(chain[q], state)] /\ Rem!Reported(chain[q], state) \in Rem!RowType
        /\ True1(Rem!Reported(chain[q], state), q) /\ Rem!Reported(chain[q], state).count = chain[q].count
        /\ Rem!Reported(chain[q], state).due \in {"none", chain[q].due}
        /\ OneStops(chain[q]) => OneStops(Rem!Reported(chain[q], state))
    BY <1>0, ReportedFits
  <1>4. chain' \in [Rows -> Rem!RowType] /\ \A p \in Rows : chain'[p] = IF p = q THEN Rem!Reported(chain[q], state) ELSE chain[p]
    BY <1>0, <1>3
  <1>5. /\ reminder' \in [Rows -> [Rem!Numbers -> MessageStates]]
        /\ \A p \in Rows, m \in Rem!Numbers : reminder'[p][m] = reminder[p][m] \/ (p = q /\ m = n)
    <2>1. reminder' = [reminder EXCEPT ![q] = [reminder[q] EXCEPT ![n] = state]]
      BY <1>0
    <2>2. [reminder[q] EXCEPT ![n] = state] \in [Rem!Numbers -> MessageStates]
      BY <1>0 DEF MessageStates
    <2> QED BY <1>0, <2>1, <2>2
  <1>6. event' \in [Rows -> {"none", "reply", "bounce"}]
    BY <1>0
  <1>7. /\ late' \in [Rows -> SUBSET Runs]
        /\ \A p \in Rows : \/ event'[p] = event[p] /\ late'[p] = late[p]
                          \/ late'[p] = {v \in Runs : followed[p] = v}
    <2>1. CASE event' = event
      BY <1>0, <2>1
    <2>2. CASE event' # event
      <3>1. late' = [late EXCEPT ![q] = {v \in Runs : followed[q] = v}]
        BY <2>2
      <3>2. \A p \in Rows \ {q} : event'[p] = event[p]
        BY <1>0
      <3> QED BY <1>0, <3>1, <3>2
    <2> QED BY <2>1, <2>2
  <1>8. Rem!TypeOK' /\ HookFits'
    <2>1. blocked' \in BOOLEAN
      BY <1>0, TypedIs
    <2> QED BY <1>0, <1>2, <1>4, <1>5, <1>6, <1>7, <2>1, TypedIs DEF RunnerInv, Rem!TypeOK, RunRows, MessageStates, HookFits, Rem!Report
  <1> DEFINE r == Rem!Reported(chain[q], state)
  <1>a. r = Rem!Reported(chain[q], state) /\ UNCHANGED <<reached, followed, hook>>
    BY DEF Rem!Report
  <1> HIDE DEF r
  <1>b. \A v \in Runs : worker'[v].copies = worker[v].copies /\ worker'[v].todo = worker[v].todo
    BY <1>2 DEF Kept
  <1>c. True1(r, q) /\ (OneStops(chain[q]) => OneStops(r)) /\ \A p \in Rows : chain'[p] = IF p = q THEN r ELSE chain[p]
    BY <1>3, <1>4, <1>a
  <1>9. RemCounted'
    BY <1>0, <1>5, <1>a, <1>b, <1>c DEF RemCounted, RunnerInv, True1
  <1>10. Matched'
    BY <1>2, <1>3, <1>4, OneRowMatched DEF Kept
  <1>11. RunnerInv'
    BY <1>2, <1>7, <1>8, <1>9, <1>10, WriteKeeps DEF Rem!Report
  <1>12. ASSUME LinkedInv PROVE LinkedInv' /\ Rem!StaysStopped
    <2>1. StoppedRows'
      BY <1>a, <1>b, <1>c, <1>12 DEF StoppedRows, LinkedInv, OneStops
    <2> QED BY <1>2, <1>3, <1>4, <1>12, <2>1, CopyFits, WriteKeepsLinked
  <1> QED BY <1>11, <1>12

LEMMA ReplyKeeps ==
  ASSUME Rem!RunnerAssumption, RunnerInv, NEW q \in Rows, Rem!Reply(q)
  PROVE  RunnerInv' /\ (LinkedInv => LinkedInv' /\ Rem!StaysStopped)
  <1> USE DEF Rem!mail
  <1>0. /\ Rem!TypeOK /\ event \in [Rows -> {"none", "reply", "bounce"}] /\ late \in [Rows -> SUBSET Runs]
        /\ event' = [event EXCEPT ![q] = "reply"] /\ late' = [late EXCEPT ![q] = {v \in Runs : followed[q] = v}]
    BY TypedIs DEF RunnerInv, Rem!Reply
  <1>1. /\ event' \in [Rows -> {"none", "reply", "bounce"}] /\ late' \in [Rows -> SUBSET Runs]
        /\ \A p \in Rows : \/ event'[p] = event[p] /\ late'[p] = late[p]
                          \/ late'[p] = {v \in Runs : followed[p] = v}
    BY <1>0
  <1>2. Rem!TypeOK' /\ HookFits' /\ RemCounted'
    BY <1>0, <1>1, TypedIs DEF RunnerInv, Rem!TypeOK, HookFits, RemCounted, Rem!Reply, True1
  <1>3. (\A v \in Runs : Kept(v)) /\ UNCHANGED <<chain, worker, hook>>
    BY RunsKept DEF Rem!Reply
  <1>4. Matched'
    BY <1>3, OneRowMatched
  <1>5. RunnerInv'
    BY <1>1, <1>2, <1>3, <1>4, WriteKeeps DEF Rem!Reply
  <1>6. ASSUME LinkedInv PROVE LinkedInv' /\ Rem!StaysStopped
    <2>1. StoppedRows'
      BY <1>3, <1>6 DEF StoppedRows, LinkedInv, OneStops
    <2> QED BY <1>3, <1>6, <2>1, WriteKeepsLinked
  <1> QED BY <1>5, <1>6

LEMMA HookReadKeeps ==
  ASSUME Rem!RunnerAssumption, RunnerInv, Rem!HookRead
  PROVE  RunnerInv' /\ (LinkedInv => LinkedInv' /\ Rem!StaysStopped)
  <1> USE DEF Rem!mail
  <1> DEFINE open == {q \in Rows : chain[q].due # "none" \/ chain[q].seq \notin {"stopped", "completed"} \/ ~chain[q].resp}
             copies == [q \in Rows |-> IF q \in open THEN chain[q] ELSE Rem!Blank]
  <1>0. Rem!TypeOK /\ chain \in [Rows -> Rem!RowType] /\ hook' = [todo |-> open, copies |-> copies]
    BY TypedIs DEF RunnerInv, Rem!HookRead
  <1>1. copies \in [Rows -> Rem!RowType] /\ open \subseteq Rows /\ \A q \in Rows : copies[q] \in {chain[q], Rem!Blank}
    BY <1>0, BlankFits
  <1> HIDE DEF open, copies
  <1>2. hook'.copies = copies /\ hook'.todo = open /\ HookFits'
    BY <1>0, <1>1 DEF HookFits
  <1>3. Rem!TypeOK'
    BY <1>0, <1>1, <1>2, TypedIs DEF Rem!TypeOK, Rem!HookRead
  <1>4. RemCounted'
    BY <1>1, <1>2, BlankFits DEF RunnerInv, RemCounted, Rem!HookRead, True1
  <1>5. (\A v \in Runs : Kept(v)) /\ UNCHANGED <<chain, worker>>
    BY RunsKept DEF Rem!HookRead
  <1>6. Matched'
    BY <1>5, OneRowMatched DEF Rem!RunnerAssumption
  <1>7. RunnerInv'
    BY <1>2, <1>3, <1>4, <1>5, <1>6, WriteKeeps DEF Rem!HookRead
  <1>8. ASSUME LinkedInv PROVE LinkedInv' /\ Rem!StaysStopped
    <2>1. StoppedRows'
      BY <1>1, <1>2, <1>5, <1>8, BlankFits DEF StoppedRows, LinkedInv, OneStops
    <2> QED BY <1>5, <1>8, <2>1, WriteKeepsLinked
  <1> QED BY <1>7, <1>8

LEMMA HookWriteKeeps ==
  ASSUME Rem!RunnerAssumption, RunnerInv, NEW q \in Rows, Rem!HookWrite(q)
  PROVE  RunnerInv' /\ (LinkedInv => LinkedInv' /\ Rem!StaysStopped)
  <1> USE DEF Rem!mail
  <1> DEFINE c == hook.copies[q]
             r == [Rem!Stopped(c) EXCEPT !.resp = TRUE, !.aged = FALSE]
             copies == [hook.copies EXCEPT ![q] = Rem!Blank]
  <1>0. /\ Rem!TypeOK /\ chain \in [Rows -> Rem!RowType] /\ hook \in [todo : SUBSET Rows, copies : [Rows -> Rem!RowType]]
        /\ chain' = [chain EXCEPT ![q] = r] /\ hook' = [hook EXCEPT !.todo = @ \ {q}, !.copies[q] = Rem!Blank]
        /\ worker' = Rem!Aged({q})
    BY TypedIs DEF RunnerInv, HookFits, Rem!HookWrite
  <1>1. c \in Rem!RowType /\ True1(c, q) /\ (LinkedInv => c.linked)
    BY <1>0 DEF RunnerInv, RemCounted, LinkedInv, StoppedRows, OneStops
  <1> HIDE DEF c
  <1>2. r \in Rem!RowType /\ True1(r, q) /\ r.due = "none" /\ (LinkedInv => OneStops(r))
    BY <1>1, StoppedFits
  <1> HIDE DEF r
  <1>3. chain' \in [Rows -> Rem!RowType] /\ \A p \in Rows : chain'[p] = IF p = q THEN r ELSE chain[p]
    BY <1>0, <1>2
  <1>4. copies \in [Rows -> Rem!RowType] /\ \A p \in Rows : copies[p] \in {hook.copies[p], Rem!Blank}
    BY <1>0, BlankFits
  <1>5. hook' = [todo |-> hook.todo \ {q}, copies |-> copies]
    BY <1>0
  <1> HIDE DEF copies
  <1>6. hook'.copies = copies /\ hook'.todo = hook.todo \ {q} /\ HookFits'
    <2>1. hook.todo \ {q} \subseteq Rows
      BY <1>0
    <2>2. hook'.copies = copies /\ hook'.todo = hook.todo \ {q}
      BY <1>5
    <2>3. hook' \in [todo : SUBSET Rows, copies : [Rows -> Rem!RowType]]
      BY <1>4, <1>5, <2>1
    <2> QED BY <2>2, <2>3 DEF HookFits
  <1>7. worker' \in [Runs -> RunRows] /\ \A v \in Runs : Kept(v) /\ (worker[v].q = q => ~worker'[v].fresh)
    BY <1>0, AgedRuns
  <1>8. Rem!TypeOK'
    BY <1>0, <1>3, <1>4, <1>6, <1>7, TypedIs DEF Rem!TypeOK, RunRows, MessageStates, Rem!HookWrite
  <1>9. RemCounted'
    BY <1>2, <1>3, <1>4, <1>6, <1>7, BlankFits DEF RunnerInv, RemCounted, Rem!HookWrite, True1, Kept
  <1>10. Matched'
    BY <1>2, <1>3, <1>7, OneRowMatched DEF Kept
  <1>11. RunnerInv'
    BY <1>6, <1>7, <1>8, <1>9, <1>10, WriteKeeps DEF Rem!HookWrite
  <1>12. ASSUME LinkedInv PROVE LinkedInv' /\ Rem!StaysStopped
    <2>1. StoppedRows'
      BY <1>2, <1>3, <1>4, <1>6, <1>7, <1>12, BlankFits DEF StoppedRows, LinkedInv, OneStops, Kept
    <2> QED BY <1>2, <1>3, <1>7, <1>12, <2>1, CopyFits, WriteKeepsLinked
  <1> QED BY <1>11, <1>12

LEMMA RemDueComesKeeps ==
  ASSUME Rem!RunnerAssumption, RunnerInv, NEW q \in Rows, Rem!DueComes(q)
  PROVE  RunnerInv' /\ (LinkedInv => LinkedInv' /\ Rem!StaysStopped)
  <1> USE DEF Rem!mail, Rem!world
  <1> DEFINE r == [chain[q] EXCEPT !.due = "now"]
  <1>0. /\ Rem!TypeOK /\ chain \in [Rows -> Rem!RowType] /\ chain[q] \in Rem!RowType /\ chain[q].due = "later"
        /\ chain' = [chain EXCEPT ![q] = r] /\ True1(chain[q], q)
    BY TypedIs DEF RunnerInv, RemCounted, Rem!DueComes
  <1>1. r \in Rem!RowType /\ True1(r, q) /\ r.count = chain[q].count /\ (OneStops(chain[q]) => OneStops(r)) /\ r.due = "now"
    BY <1>0 DEF Rem!RowType, True1, OneStops
  <1> HIDE DEF r
  <1>2. chain' \in [Rows -> Rem!RowType] /\ \A p \in Rows : chain'[p] = IF p = q THEN r ELSE chain[p]
    BY <1>0, <1>1
  <1>3. (\A v \in Runs : Kept(v) /\ worker[v].q \in Rows) /\ UNCHANGED <<worker, hook>>
    BY RunsKept DEF Rem!DueComes
  <1>4. Rem!TypeOK' /\ HookFits'
    BY <1>0, <1>2, TypedIs DEF Rem!TypeOK, Rem!DueComes, RunnerInv, HookFits
  <1>5. RemCounted'
    BY <1>1, <1>2 DEF RunnerInv, RemCounted, Rem!DueComes, True1
  <1>6. Matched'
    BY <1>1, <1>2, <1>3, OneRowMatched DEF Rem!DueComes
  <1>7. RunnerInv'
    BY <1>3, <1>4, <1>5, <1>6, WriteKeeps DEF Rem!DueComes
  <1>8. ASSUME LinkedInv PROVE LinkedInv' /\ Rem!StaysStopped
    <2>1. StoppedRows'
      BY <1>1, <1>2, <1>3, <1>8 DEF StoppedRows, LinkedInv, OneStops
    <2>2. \A p \in Rows : chain[p].due = "none" => chain'[p].due = "none"
      BY <1>0, <1>2
    <2>3. \A v \in Runs : chain'[worker[v].q] = chain[worker[v].q] \/ chain'[worker[v].q].due = "now"
      BY <1>1, <1>2, <1>3
    <2> QED BY <1>3, <1>8, <2>1, <2>2, <2>3, WriteKeepsLinked
  <1> QED BY <1>7, <1>8

LEMMA AgeKeeps ==
  ASSUME Rem!RunnerAssumption, RunnerInv, NEW q \in Rows, Rem!Age(q)
  PROVE  RunnerInv' /\ (LinkedInv => LinkedInv' /\ Rem!StaysStopped)
  <1> USE DEF Rem!mail, Rem!world
  <1> DEFINE r == [chain[q] EXCEPT !.aged = TRUE]
  <1>0. /\ Rem!TypeOK /\ chain \in [Rows -> Rem!RowType] /\ chain[q] \in Rem!RowType
        /\ chain' = [chain EXCEPT ![q] = r] /\ True1(chain[q], q)
    BY TypedIs DEF RunnerInv, RemCounted, Rem!Age
  <1>1. r \in Rem!RowType /\ True1(r, q) /\ r.count = chain[q].count /\ (OneStops(chain[q]) => OneStops(r))
        /\ r.due = chain[q].due /\ r.status = chain[q].status
    BY <1>0 DEF Rem!RowType, True1, OneStops
  <1> HIDE DEF r
  <1>2. chain' \in [Rows -> Rem!RowType] /\ \A p \in Rows : chain'[p] = IF p = q THEN r ELSE chain[p]
    BY <1>0, <1>1
  <1>3. (\A v \in Runs : Kept(v) /\ worker[v].q \in Rows) /\ UNCHANGED <<worker, hook>>
    BY RunsKept DEF Rem!Age
  <1>4. Rem!TypeOK' /\ HookFits'
    BY <1>0, <1>2, TypedIs DEF Rem!TypeOK, Rem!Age, RunnerInv, HookFits
  <1>5. RemCounted'
    BY <1>1, <1>2 DEF RunnerInv, RemCounted, Rem!Age, True1
  <1>6. Matched'
    BY <1>1, <1>2, <1>3, OneRowMatched
  <1>7. RunnerInv'
    BY <1>3, <1>4, <1>5, <1>6, WriteKeeps DEF Rem!Age
  <1>8. ASSUME LinkedInv PROVE LinkedInv' /\ Rem!StaysStopped
    <2>1. StoppedRows'
      BY <1>1, <1>2, <1>3, <1>8 DEF StoppedRows, LinkedInv, OneStops
    <2>2. \A p \in Rows : chain'[p].due = chain[p].due /\ chain'[p].status = chain[p].status
      BY <1>1, <1>2
    <2> QED BY <1>3, <1>8, <2>1, <2>2, WriteKeepsLinked
  <1> QED BY <1>7, <1>8

LEMMA LapseKeeps ==
  ASSUME Rem!RunnerAssumption, RunnerInv, UNCHANGED <<chain, Rem!mail, followed, worker, Rem!world>>,
         broker' \in Runs \cup {None}, losses' \in 0..MaxLosses
  PROVE  RunnerInv' /\ (LinkedInv => LinkedInv' /\ Rem!StaysStopped)
  <1> USE DEF Rem!mail, Rem!world
  <1>1. (\A v \in Runs : Kept(v) /\ worker[v].q \in Rows)
    BY RunsKept
  <1>2. Rem!TypeOK' /\ HookFits'
    BY TypedIs DEF Rem!TypeOK, RunnerInv, HookFits
  <1>3. RemCounted'
    BY DEF RunnerInv, RemCounted, True1
  <1>4. Matched'
    BY OneRowMatched DEF Rem!RunnerAssumption
  <1>5. RunnerInv'
    BY <1>1, <1>2, <1>3, <1>4, WriteKeeps
  <1>6. ASSUME LinkedInv PROVE LinkedInv' /\ Rem!StaysStopped
    <2>1. StoppedRows'
      BY <1>6 DEF StoppedRows, LinkedInv, OneStops
    <2> QED BY <1>1, <1>6, <2>1, WriteKeepsLinked
  <1> QED BY <1>5, <1>6

LEMMA RemRestartKeeps ==
  ASSUME Rem!RunnerAssumption, RunnerInv, Rem!Restart
  PROVE  RunnerInv' /\ (LinkedInv => LinkedInv' /\ Rem!StaysStopped)
  <1> USE DEF Rem!mail
  <1>0. Rem!TypeOK /\ reboots \in 0..MaxReboots /\ reboots < MaxReboots /\ reboots' = reboots + 1
    BY TypedIs DEF RunnerInv, Rem!Restart
  <1>1. reboots' \in 0..MaxReboots
    BY <1>0 DEF Rem!RunnerAssumption
  <1>2. /\ worker' \in [Runs -> RunRows] /\ \A v \in Runs : worker'[v] = Rem!Idle
        /\ followed' \in [Rows -> Runs \cup {None}]
    BY IdleFits DEF Rem!Restart
  <1>3. hook'.todo = {} /\ hook'.copies = [q \in Rows |-> Rem!Blank] /\ HookFits'
    BY BlankFits DEF Rem!Restart, Rem!NoHook, HookFits
  <1>4. Rem!TypeOK'
    BY <1>0, <1>1, <1>2, <1>3, BlankFits, TypedIs DEF Rem!TypeOK, RunRows, MessageStates, Rem!Restart
  <1>5. RemCounted'
    BY <1>2, <1>3, IdleFits, BlankFits DEF RunnerInv, RemCounted, True1, Rem!Restart
  <1>6. \A v \in Runs : AtIt(v)' /\ Heeding(v)' /\ RemHolds(v)' /\ Oldest(v)'
    BY <1>2, IdleFits, AtRest
  <1>7. Matched'
    BY <1>2, IdleFits DEF Matched, Matches
  <1>8. RunnerInv'
    BY <1>3, <1>4, <1>5, <1>6, <1>7 DEF RunnerInv, RemAtWork, Heeds
  <1>9. ASSUME LinkedInv PROVE LinkedInv' /\ Rem!StaysStopped
    <2>1. StoppedRows' /\ Rem!StaysStopped
      BY <1>2, <1>3, <1>9, IdleFits, BlankFits DEF StoppedRows, LinkedInv, OneStops, Rem!Restart, Rem!StaysStopped
    <2> QED BY <1>6, <2>1 DEF LinkedInv, RemHolding, OldestOnly
  <1> QED BY <1>8, <1>9

-----------------------------------------------------------------------------
(* What is proved of the runner *)

(* Every step keeps both invariants, and what it promises. *)
LEMMA StepsKeep ==
  ASSUME Rem!RunnerAssumption, RunnerInv, [Rem!Next]_(Rem!vars)
  PROVE  /\ RunnerInv' /\ Rem!AlreadyAtWork
         /\ LinkedInv => LinkedInv' /\ Rem!StaysStopped /\ Rem!WhenOlderEnded
  <1>1. Rem!AlreadyAtWork /\ (LinkedInv => Rem!WhenOlderEnded)
    BY HandedOver DEF Rem!AlreadyAtWork, Rem!WhenOlderEnded
  <1>2. RunnerInv' /\ (LinkedInv => LinkedInv' /\ Rem!StaysStopped)
    <2>1. CASE \E w \in Runs : Rem!List(w) \/ Rem!Step(w)
      BY <2>1, ListKeeps, TakeKeeps, SkipKeeps, HoldBackKeeps, CheckKeeps, LookKeeps, RemClaimKeeps, RemPersistKeeps,
         RemRenewKeeps, RemHandKeeps, RemAnswerKeeps, RemSaveKeeps, RemFinalizeKeeps DEF Rem!Step
    <2>2. CASE \E q \in Rows : Rem!Reply(q) \/ Rem!HookWrite(q) \/ Rem!DueComes(q) \/ Rem!Age(q)
      BY <2>2, ReplyKeeps, HookWriteKeeps, RemDueComesKeeps, AgeKeeps
    <2>3. CASE \E q \in Rows, n \in Rem!Numbers : Rem!Report(q, n)
      BY <2>3, RemReportKeeps
    <2>4. CASE Rem!HookRead \/ Rem!Restart
      BY <2>4, HookReadKeeps, RemRestartKeeps
    <2>5. CASE Rem!Lapse \/ UNCHANGED Rem!vars
      <3>1. broker' \in Runs \cup {None} /\ losses' \in 0..MaxLosses
        BY <2>5, TypedIs DEF RunnerInv, Rem!Lapse, Rem!vars
      <3>2. UNCHANGED <<chain, Rem!mail, followed, worker, Rem!world>>
        BY <2>5 DEF Rem!Lapse, Rem!vars, Rem!mail, Rem!world
      <3> QED BY <3>1, <3>2, LapseKeeps
    <2> QED BY <2>1, <2>2, <2>3, <2>4, <2>5 DEF Rem!Next
  <1> QED BY <1>1, <1>2

LEMMA RunnerAtFirst ==
  ASSUME Rem!RunnerAssumption, Rem!Init PROVE RunnerInv /\ (Unlinked = {} => LinkedInv)
  <1> DEFINE first == [q \in Rows |-> [status |-> "sent", seq |-> "scheduled", due |-> "now", count |-> 0,
                                      resp |-> FALSE, linked |-> q \notin Unlinked, aged |-> FALSE]]
  <1>1. \A q \in Rows : first[q] \in Rem!RowType /\ first[q].count = 0 /\ first[q].seq = "scheduled"
                        /\ (Unlinked = {} => first[q].linked)
    <2>1. 0 \in 0..(MaxReminders + 1)
      BY DEF Rem!RunnerAssumption
    <2>2. ASSUME NEW q \in Rows PROVE first[q] \in Rem!RowType
      <3>1. (q \notin Unlinked) \in BOOLEAN
        OBVIOUS
      <3>2. \A b \in BOOLEAN : [status |-> "sent", seq |-> "scheduled", due |-> "now", count |-> 0,
                               resp |-> FALSE, linked |-> b, aged |-> FALSE] \in Rem!RowType
        <4> DEFINE upTo == 0..(MaxReminders + 1)
        <4>1. 0 \in upTo
          BY <2>1
        <4>2. Rem!RowType = [status : {"sent", "pending", "failed", "ambiguous", "responded", "issue"},
                         seq : {"scheduled", "failed", "stopped", "completed"}, due : {"none", "later", "now"},
                         count : upTo, resp : BOOLEAN, linked : BOOLEAN, aged : BOOLEAN]
          BY DEF Rem!RowType
        <4> HIDE DEF upTo
        <4> QED BY <4>1, <4>2
      <3> QED BY <3>1, <3>2
    <2> QED BY <2>2
  <1>2. chain = first /\ chain \in [Rows -> Rem!RowType]
    BY <1>1 DEF Rem!Init
  <1> HIDE DEF first
  <1>3. \A w \in Runs : worker[w] = Rem!Idle
    BY DEF Rem!Init
  <1>4. hook.todo = {} /\ hook.copies = [q \in Rows |-> Rem!Blank] /\ HookFits
    BY BlankFits DEF Rem!Init, Rem!NoHook, HookFits
  <1>5. Rem!TypeOK
    <2>1. reminder \in [Rows -> [Rem!Numbers -> MessageStates]]
      BY DEF Rem!Init, MessageStates
    <2>2. /\ unsure \in [Rows -> SUBSET Rem!Numbers] /\ reached \in [Rows -> SUBSET Rem!Numbers]
          /\ followed \in [Rows -> Runs \cup {None}] /\ broker \in Runs \cup {None} /\ blocked \in BOOLEAN
      BY DEF Rem!Init
    <2>3. event \in [Rows -> {"none", "reply", "bounce"}] /\ late \in [Rows -> SUBSET Runs]
      BY DEF Rem!Init
    <2>4. hook.todo \subseteq Rows /\ hook.copies \in [Rows -> Rem!RowType]
      BY <1>4, BlankFits
    <2>5. worker \in [Runs -> RunRows]
      BY IdleFits DEF Rem!Init
    <2>6. losses \in 0..MaxLosses /\ reboots \in 0..MaxReboots
      BY DEF Rem!Init, Rem!RunnerAssumption
    <2> QED BY <1>2, <2>1, <2>2, <2>3, <2>4, <2>5, <2>6, TypedIs
  <1>6. \A r \in Rem!RowType, q \in Rows : r.count = 0 => True1(r, q)
    BY DEF True1, Rem!RunnerAssumption
  <1>7. RemCounted
    <2>1. \A q \in Rows, n \in Rem!Numbers : ~Rem!Proof(reminder[q][n])
      BY DEF Rem!Init, Rem!Proof
    <2> QED BY <1>1, <1>2, <1>3, <1>4, <1>6, <2>1, IdleFits, BlankFits DEF RemCounted
  <1>8. RemAtWork /\ Heeds /\ RemHolding /\ OldestOnly /\ Matched
    BY <1>3, IdleFits DEF RemAtWork, AtIt, Heeds, Heeding, RemHolding, RemHolds, OldestOnly, Oldest, Matched, Matches,
       RemWorking, Entered
  <1>9. Unlinked = {} => StoppedRows
    BY <1>1, <1>2, <1>3, <1>4, IdleFits, BlankFits DEF StoppedRows, OneStops
  <1> QED BY <1>4, <1>5, <1>7, <1>8, <1>9 DEF RunnerInv, LinkedInv

LEMMA RunnerAlways == ASSUME Rem!RunnerAssumption PROVE Rem!Spec => []RunnerInv
  <1>1. Rem!Init => RunnerInv
    BY RunnerAtFirst
  <1>2. RunnerInv /\ [Rem!Next]_(Rem!vars) => RunnerInv'
    BY StepsKeep
  <1> QED BY <1>1, <1>2, PTL DEF Rem!Spec

LEMMA LinkedAlways == ASSUME Rem!RunnerAssumption, Unlinked = {} PROVE Rem!Spec => [](RunnerInv /\ LinkedInv)
  <1>1. Rem!Init => RunnerInv /\ LinkedInv
    BY RunnerAtFirst
  <1>2. RunnerInv /\ LinkedInv /\ [Rem!Next]_(Rem!vars) => RunnerInv' /\ LinkedInv'
    BY StepsKeep
  <1> QED BY <1>1, <1>2, PTL DEF Rem!Spec

(* Every variable of the automatic follow-ups keeps its type                  *)
(* (processLegacyCimFollowUpRequest).                                         *)
THEOREM RunnerTypeCorrect == ASSUME Rem!RunnerAssumption PROVE Rem!Spec => []Rem!TypeOK
  <1>1. RunnerInv => Rem!TypeOK
    BY DEF RunnerInv
  <1> QED BY <1>1, RunnerAlways, PTL

(* A row never counts more follow-ups than the provider has taken of it,      *)
(* whatever runs, reports and stale copies do (buildCimFollowUpUpdate).       *)
THEOREM RowsCountTruly == ASSUME Rem!RunnerAssumption PROVE Rem!Spec => []Rem!CountIsTrue
  <1>1. RunnerInv => Rem!CountIsTrue
    BY DEF RunnerInv, RemCounted, True1, Rem!CountIsTrue
  <1> QED BY <1>1, RunnerAlways, PTL

(* Once a reply or a bounce is stored, a follow-up is handed over only by a   *)
(* run that was at work on the request at that moment                         *)
(* (loadCimRequestEvents, processLegacyCimFollowUpRequest).                   *)
THEOREM AnsweredIsQuietAlways == ASSUME Rem!RunnerAssumption PROVE Rem!Spec => Rem!AnsweredIsQuiet
  <1>1. RunnerInv /\ [Rem!Next]_(Rem!vars) => Rem!AlreadyAtWork
    BY StepsKeep
  <1>2. RunnerInv /\ [Rem!Next]_(Rem!vars) => [Rem!AlreadyAtWork]_(Rem!vars)
    BY <1>1
  <1> QED BY <1>2, RunnerAlways, PTL DEF Rem!Spec, Rem!AnsweredIsQuiet

(* Where every row is linked to its opportunity, a sequence that has stopped  *)
(* stays stopped: no copy, late answer or report gives it a due time again    *)
(* (applyEmailLifecycleToCommunication, stopCanonicalCimSequencesForReply).   *)
THEOREM RunnerNeverResumes == ASSUME Rem!RunnerAssumption, Unlinked = {} PROVE Rem!Spec => Rem!NeverResumes
  <1>1. RunnerInv /\ LinkedInv /\ [Rem!Next]_(Rem!vars) => [Rem!StaysStopped]_(Rem!vars)
    BY StepsKeep
  <1> QED BY <1>1, LinkedAlways, PTL DEF Rem!Spec, Rem!NeverResumes

(* There, a younger request of the opportunity is newRow for only once the   *)
(* older ones have ended: two overlapping runs never work on two sequences of *)
(* one broker (processLegacyCimFollowUpRequest).                              *)
THEOREM OldestAlwaysFirst == ASSUME Rem!RunnerAssumption, Unlinked = {} PROVE Rem!Spec => Rem!OldestFirst
  <1>1. RunnerInv /\ LinkedInv /\ [Rem!Next]_(Rem!vars) => [Rem!WhenOlderEnded]_(Rem!vars)
    BY StepsKeep
  <1> QED BY <1>1, LinkedAlways, PTL DEF Rem!Spec, Rem!OldestFirst

=================================================================================
