------------------------ MODULE CimTransmissionProofs ------------------------
(***************************************************************************)
(* Theorems about CimTransmission for every set of campaigns and sender    *)
(* runs and every bound.  Order: the type invariant; the queue invariant,  *)
(* which ties a campaign's touch to its transmissions; the call invariant, *)
(* which ties the sender runs to what Gmail was asked; then what follows   *)
(* from the three.                                                         *)
(***************************************************************************)
EXTENDS CimTransmission, FiniteSetTheorems, TLAPS

\* How often the conversation has ended: each end raises its campaigns' terminal revisions.
ConversationEnds == CASE conv.state \in Replied -> 2
                      [] conv.state = "reply-review-required" -> 1
                      [] OTHER -> 0
\* The type invariant needs to know which transmission a run works on.
Placed == \A w \in Workers :
  /\ run[w].pc \notin {"idle", "ready"} => run[w].x \in Txs
  /\ run[w].pc = "record" => run[w].outcome \in Outcomes
RevisionsHold == \A c \in Campaigns : camp[c].rev <= MaxRevision + ConversationEnds
TypeInv == TypeOK /\ Placed /\ RevisionsHold

(* The idle records are of their types. *)
LEMMA IdleTypes ==
  NoTx \in TxRows /\ NoSnap \in Snaps /\ Idle \in Runs
  <1>1. /\ 0 \in 0 .. LastTouch /\ 0 \in Revisions /\ 0 \in 0 .. MaxAuths
        /\ 0 \in 0 .. MaxActivations
    BY CimAssumption DEF Revisions
  <1>2. NoSnap \in Snaps
    BY <1>1 DEF NoSnap, Snaps
  <1> QED BY <1>1, <1>2 DEF NoTx, TxRows, TxStates, Idle, Runs

(* What the moves of a sender run do to the types and places of the runs. *)
LEMMA RunTypes ==
  ASSUME TypeOK, Placed, NEW w \in Workers
  PROVE  /\ run[w] \in Runs /\ run \in [Workers -> Runs]
         /\ Rest(w) \/ LeaveTouch(w) => run' \in [Workers -> Runs] /\ Placed'
         /\ \A pc \in {"send", "await", "search", "release"} :
              run[w].pc \notin {"idle", "ready"} /\ Goto(w, pc)
                => run' \in [Workers -> Runs] /\ Placed'
         /\ \A outcome \in Outcomes :
              run[w].pc \notin {"idle", "ready"} /\ Hears(w, outcome)
                => run' \in [Workers -> Runs] /\ Placed'
  <1>1. run \in [Workers -> Runs] /\ run[w] \in Runs
    BY DEF TypeOK
  <1>2. ASSUME Rest(w) PROVE run' \in [Workers -> Runs] /\ Placed'
    <2>1. run' = [run EXCEPT ![w] = Idle] /\ Idle.pc = "idle"
      BY <1>2 DEF Rest, Idle
    <2> QED BY <1>1, <2>1, IdleTypes DEF Placed
  <1>3. ASSUME LeaveTouch(w) PROVE run' \in [Workers -> Runs] /\ Placed'
    <2>1. PICK r : /\ run' = [run EXCEPT ![w] = r]
                   /\ r \in Runs /\ r.pc \in {"idle", "ready"}
      <3>1. PICK pc \in {"ready", "idle"} :
              run' = [run EXCEPT ![w] = [Idle EXCEPT !.pc = pc,
                                           !.act = IF pc = "ready" THEN run[w].act ELSE 0]]
        BY <1>3 DEF LeaveTouch
      <3> DEFINE act == IF pc = "ready" THEN run[w].act ELSE 0
      <3>2. act \in 0 .. MaxActivations
        BY <1>1, CimAssumption DEF Runs
      <3> HIDE DEF act
      <3>3. [Idle EXCEPT !.pc = pc, !.act = act] \in Runs
        BY <3>2, IdleTypes DEF Runs
      <3>4. [Idle EXCEPT !.pc = pc, !.act = act].pc = pc
        BY DEF Idle
      <3> QED BY <3>1, <3>3, <3>4 DEF act
    <2> QED BY <1>1, <2>1 DEF Placed
  <1>4. ASSUME NEW pc \in {"send", "await", "search", "release"},
               run[w].pc \notin {"idle", "ready"}, Goto(w, pc)
        PROVE  run' \in [Workers -> Runs] /\ Placed'
    <2>1. [run[w] EXCEPT !.pc = pc] \in Runs
      BY <1>1 DEF Runs
    <2>2. run' = [run EXCEPT ![w] = [run[w] EXCEPT !.pc = pc]]
      BY <1>1, <1>4 DEF Goto
    <2>3. [run[w] EXCEPT !.pc = pc].x = run[w].x /\ [run[w] EXCEPT !.pc = pc].pc = pc
      BY <1>1 DEF Runs
    <2> QED BY <1>1, <1>4, <2>1, <2>2, <2>3 DEF Placed
  <1>5. ASSUME NEW outcome \in Outcomes, run[w].pc \notin {"idle", "ready"}, Hears(w, outcome)
        PROVE  run' \in [Workers -> Runs] /\ Placed'
    <2> DEFINE r == [run[w] EXCEPT !.pc = "record", !.outcome = outcome]
    <2>1. r \in Runs /\ r.x = run[w].x /\ r.outcome = outcome
      BY <1>1 DEF Runs
    <2>2. run' = [run EXCEPT ![w] = r]
      BY <1>1, <1>5 DEF Hears
    <2> HIDE DEF r
    <2> QED BY <1>1, <1>5, <2>1, <2>2 DEF Placed
  <1> QED BY <1>1, <1>2, <1>3, <1>4, <1>5


(* The transactions map rows to rows. *)
LEMMA RowTypes ==
  ASSUME TypeOK, NEW x \in Txs
  PROVE  /\ Owner(x) \in Campaigns /\ x[2] \in 1 .. MaxTx /\ x = <<Owner(x), x[2]>>
         /\ tx[x] \in TxRows /\ touch[Owner(x)] \in TouchRows /\ camp[Owner(x)] \in CampaignRows
         /\ \A c \in Campaigns, n \in 1 .. MaxTx : <<c, n>> \in Txs /\ Owner(<<c, n>>) = c
  BY DEF TypeOK, Txs, Owner

(* What a transaction writes into a row keeps it a row. *)
LEMMA TxUpdate ==
  ASSUME NEW r \in TxRows, NEW s \in TxStates
  PROVE  [r EXCEPT !.state = s, !.rv = r.rv + 1] \in TxRows
  <1>1. r.rv + 1 \in Nat
    BY DEF TxRows
  <1>2. \A n \in Nat : [r EXCEPT !.state = s, !.rv = n] \in TxRows
    BY DEF TxRows
  <1> QED BY <1>1, <1>2, Zenon

LEMMA TouchUpdate ==
  ASSUME NEW r \in TouchRows, NEW s \in TouchStates, NEW k \in 0 .. MaxTx
  PROVE  /\ [r EXCEPT !.state = s, !.rv = r.rv + 1] \in TouchRows
         /\ [r EXCEPT !.state = s, !.tx = k, !.rv = r.rv + 1] \in TouchRows
         /\ [r EXCEPT !.state = s, !.token = 0, !.lapsed = FALSE, !.tx = k, !.rv = r.rv + 1]
              \in TouchRows
  <1>1. r.rv + 1 \in Nat /\ 0 \in Nat
    BY DEF TouchRows
  <1>2. \A n \in Nat : [r EXCEPT !.state = s, !.rv = n] \in TouchRows
    BY DEF TouchRows
  <1>3. \A n \in Nat : [r EXCEPT !.state = s, !.tx = k, !.rv = n] \in TouchRows
    BY DEF TouchRows
  <1>4. \A m, n \in Nat :
          [r EXCEPT !.state = s, !.token = m, !.lapsed = FALSE, !.tx = k, !.rv = n] \in TouchRows
    BY DEF TouchRows
  <1> QED BY <1>1, <1>2, <1>3, <1>4, Zenon

LEMMA CampaignUpdate ==
  ASSUME NEW r \in CampaignRows, NEW s \in CampaignStates
  PROVE  [r EXCEPT !.state = s, !.rv = r.rv + 1] \in CampaignRows
  <1>1. r.rv + 1 \in Nat
    BY DEF CampaignRows
  <1>2. \A n \in Nat : [r EXCEPT !.state = s, !.rv = n] \in CampaignRows
    BY DEF CampaignRows
  <1> QED BY <1>1, <1>2, Zenon

LEMMA FreshTypes ==
  ASSUME TypeOK
  PROVE  /\ \A k \in 0 .. LastTouch : FreshTouch(k) \in TouchRows
         /\ \A c \in Campaigns : Unclaimed(c) \in TouchRows
  <1>1. 0 \in 0 .. MaxTx
    BY CimAssumption
  <1>2. \A k \in 0 .. LastTouch : FreshTouch(k) \in TouchRows
    BY <1>1 DEF FreshTouch, TouchRows, TouchStates
  <1>3. \A c \in Campaigns : touch[c] \in TouchRows
    BY DEF TypeOK
  <1>4. \A c \in Campaigns : Unclaimed(c) \in TouchRows
    BY <1>1, <1>3, TouchUpdate DEF Unclaimed, TouchStates
  <1> QED BY <1>2, <1>4

LEMMA SettleTypes ==
  ASSUME TypeOK, NEW x \in Txs, NEW outcome \in Outcomes, NEW from, Settle(x, outcome, from)
  PROVE  /\ tx' \in [Txs -> TxRows] /\ touch' \in [Campaigns -> TouchRows]
         /\ camp' \in [Campaigns -> CampaignRows]
         /\ \A c \in Campaigns : camp'[c].rev = camp[c].rev
  <1> DEFINE c == Owner(x)
  <1>0. /\ c \in Campaigns /\ tx[x] \in TxRows /\ touch[c] \in TouchRows
        /\ camp[c] \in CampaignRows
        /\ tx \in [Txs -> TxRows] /\ touch \in [Campaigns -> TouchRows]
        /\ camp \in [Campaigns -> CampaignRows]
    BY RowTypes DEF TypeOK
  <1>1. tx' = [tx EXCEPT ![x] = [tx[x] EXCEPT !.state = outcome, !.rv = tx[x].rv + 1]]
    BY <1>0 DEF Settle
  <1>2. [tx[x] EXCEPT !.state = outcome, !.rv = tx[x].rv + 1] \in TxRows
    BY <1>0, TxUpdate DEF TxStates
  <1>3. PICK s \in CampaignStates :
          camp' = camp \/ camp' = [camp EXCEPT ![c] = [camp[c] EXCEPT !.state = s,
                                                                     !.rv = camp[c].rv + 1]]
    <2> DEFINE s == CASE outcome = "accepted" -> "active-follow-up"
                      [] outcome = "ambiguous" -> "provider-ambiguous"
                      [] OTHER -> "action-required"
    <2>1. s \in CampaignStates
      BY DEF CampaignStates, Live, Terminal, Outcomes
    <2>2. camp' = camp \/ camp' = [camp EXCEPT ![c].state = s, ![c].rv = camp[c].rv + 1]
      BY DEF Settle
    <2> HIDE DEF s
    <2> QED BY <1>0, <2>1, <2>2
  <1>4. [camp[c] EXCEPT !.state = s, !.rv = camp[c].rv + 1] \in CampaignRows
    BY <1>0, <1>3, CampaignUpdate
  <1>5. camp' \in [Campaigns -> CampaignRows]
    BY <1>0, <1>3, <1>4
  <1>6. \A d \in Campaigns : camp'[d].rev = camp[d].rev
    BY <1>0, <1>3, <1>4 DEF CampaignRows
  <1>7. CASE Advances(x, from) /\ outcome = "accepted" /\ touch[c].ordinal < LastTouch
    <2>1. touch' = [touch EXCEPT ![c] = FreshTouch(touch[c].ordinal + 1)]
      BY <1>7 DEF Settle
    <2>2. touch[c].ordinal + 1 \in 0 .. LastTouch
      BY <1>0, <1>7, CimAssumption DEF TouchRows
    <2>3. FreshTouch(touch[c].ordinal + 1) \in TouchRows
      BY <2>2, FreshTypes
    <2> QED BY <1>0, <1>1, <1>2, <1>5, <1>6, <2>1, <2>3
  <1>8. CASE ~(Advances(x, from) /\ outcome = "accepted" /\ touch[c].ordinal < LastTouch)
    <2>1. touch' = [touch EXCEPT ![c] = [touch[c] EXCEPT !.state = outcome,
                                                        !.rv = touch[c].rv + 1]]
      BY <1>0, <1>8 DEF Settle
    <2>2. [touch[c] EXCEPT !.state = outcome, !.rv = touch[c].rv + 1] \in TouchRows
      <3>1. 0 \in 0 .. MaxTx
        BY CimAssumption
      <3> QED BY <1>0, <3>1, TouchUpdate DEF TouchStates
    <2> QED BY <1>0, <1>1, <1>2, <1>5, <1>6, <2>1, <2>2
  <1> QED BY <1>7, <1>8

LEMMA ReleaseTypes ==
  ASSUME TypeOK
  PROVE  /\ \A x \in Txs : ReleaseUnsent(x)
              => tx' \in [Txs -> TxRows] /\ touch' \in [Campaigns -> TouchRows]
         /\ ReleasePrepared => tx' \in [Txs -> TxRows] /\ touch' \in [Campaigns -> TouchRows]
         /\ \A S : CancelWorkOf(S)
              => tx' \in [Txs -> TxRows] /\ touch' \in [Campaigns -> TouchRows]
  <1>0. /\ tx \in [Txs -> TxRows] /\ touch \in [Campaigns -> TouchRows]
        /\ \A x \in Txs : tx[x] \in TxRows /\ Owner(x) \in Campaigns
        /\ \A c \in Campaigns : touch[c] \in TouchRows
    BY RowTypes DEF TypeOK
  <1>1. \A x \in Txs : [tx[x] EXCEPT !.state = "cancelled-before-provider", !.rv = tx[x].rv + 1]
                         \in TxRows
    BY <1>0, TxUpdate DEF TxStates
  <1>2. ASSUME NEW x \in Txs, ReleaseUnsent(x)
        PROVE  tx' \in [Txs -> TxRows] /\ touch' \in [Campaigns -> TouchRows]
    <2>1. tx' = [tx EXCEPT ![x] = [tx[x] EXCEPT !.state = "cancelled-before-provider",
                                                !.rv = tx[x].rv + 1]]
      BY <1>0, <1>2 DEF ReleaseUnsent
    <2>2. touch' = [touch EXCEPT ![Owner(x)] = Unclaimed(Owner(x))]
      BY <1>2 DEF ReleaseUnsent
    <2> QED BY <1>0, <1>1, <2>1, <2>2, FreshTypes
  <1>3. ASSUME ReleasePrepared
        PROVE  tx' \in [Txs -> TxRows] /\ touch' \in [Campaigns -> TouchRows]
    BY <1>0, <1>1, <1>3, FreshTypes DEF ReleasePrepared
  <1>4. 0 \in 0 .. MaxTx
    BY CimAssumption
  <1>5. \A c \in Campaigns : [touch[c] EXCEPT !.state = "cancelled-before-provider", !.tx = 0,
                                              !.rv = touch[c].rv + 1] \in TouchRows
    BY <1>0, <1>4, TouchUpdate DEF TouchStates
  <1>6. ASSUME NEW S, CancelWorkOf(S)
        PROVE  tx' \in [Txs -> TxRows] /\ touch' \in [Campaigns -> TouchRows]
    BY <1>0, <1>1, <1>5, <1>6 DEF CancelWorkOf
  <1> QED BY <1>2, <1>3, <1>6

(* Reconciling and finalizing move the conversation without ending it.     *)
LEMMA ConversationTypes ==
  ASSUME TypeOK, NEW s \in ConversationStates, ConversationMoves(s)
  PROVE  /\ conv' \in [state : ConversationStates, rev : Nat, rv : Nat]
         /\ conv'.state = s
  <1>1. conv \in [state : ConversationStates, rev : Nat, rv : Nat]
    BY DEF TypeOK
  <1>2. conv.rev + 1 \in Nat /\ conv.rv + 1 \in Nat
    BY <1>1
  <1>3. conv' = [conv EXCEPT !.state = s, !.rev = conv.rev + 1, !.rv = conv.rv + 1]
    BY DEF ConversationMoves
  <1>4. \A m, n \in Nat : /\ [conv EXCEPT !.state = s, !.rev = m, !.rv = n]
                               \in [state : ConversationStates, rev : Nat, rv : Nat]
                          /\ [conv EXCEPT !.state = s, !.rev = m, !.rv = n].state = s
    BY <1>1
  <1> QED BY <1>2, <1>3, <1>4, Zenon

LEMMA OutcomeTypes ==
  ASSUME TypeInv, NEW x \in Txs, NEW outcome \in Outcomes,
         Finalize(x, outcome) \/ (outcome = "accepted" /\ ReconcileAccepted(x))
  PROVE  /\ tx' \in [Txs -> TxRows] /\ touch' \in [Campaigns -> TouchRows]
         /\ camp' \in [Campaigns -> CampaignRows]
         /\ conv' \in [state : ConversationStates, rev : Nat, rv : Nat]
         /\ RevisionsHold'
  <1>1. PICK from : Settle(x, outcome, from)
    BY DEF Finalize, ReconcileAccepted
  <1>2. /\ tx' \in [Txs -> TxRows] /\ touch' \in [Campaigns -> TouchRows]
        /\ camp' \in [Campaigns -> CampaignRows]
        /\ \A c \in Campaigns : camp'[c].rev = camp[c].rev
    BY <1>1, SettleTypes DEF TypeInv
  <1>3. /\ conv' \in [state : ConversationStates, rev : Nat, rv : Nat]
        /\ \/ conv' = conv
           \/ conv.state \in {"open", "provider-ambiguous"}
              /\ conv'.state \in {"open", "provider-ambiguous"}
    <2>1. \/ UNCHANGED conv
          \/ /\ conv.state \in {"open", "provider-ambiguous"}
             /\ \E s \in {"open", "provider-ambiguous"} : ConversationMoves(s)
      BY DEF Finalize, ReconcileAccepted
    <2>2. {"open", "provider-ambiguous"} \subseteq ConversationStates
      BY DEF ConversationStates
    <2> QED BY <2>1, <2>2, ConversationTypes DEF TypeInv, TypeOK
  <1>4. ConversationEnds' = ConversationEnds
    BY <1>3 DEF ConversationEnds, Replied
  <1>5. RevisionsHold'
    BY <1>2, <1>4 DEF TypeInv, RevisionsHold
  <1> QED BY <1>2, <1>3, <1>5

LEMMA EndTypes ==
  ASSUME TypeInv, NEW next,
         EndConversation(next) \/ \E c \in Campaigns : EndCampaign(c, next) /\ UNCHANGED conv
  PROVE  /\ tx' \in [Txs -> TxRows] /\ touch' \in [Campaigns -> TouchRows]
         /\ camp' \in [Campaigns -> CampaignRows]
         /\ conv' \in [state : ConversationStates, rev : Nat, rv : Nat]
         /\ RevisionsHold'
  <1>0. /\ camp \in [Campaigns -> CampaignRows] /\ \A c \in Campaigns : camp[c] \in CampaignRows
        /\ conv \in [state : ConversationStates, rev : Nat, rv : Nat]
        /\ \A c \in Campaigns : camp[c].rev <= MaxRevision + ConversationEnds
    BY DEF TypeInv, TypeOK, RevisionsHold
  <1>1. tx' \in [Txs -> TxRows] /\ touch' \in [Campaigns -> TouchRows]
    BY ReleaseTypes DEF TypeInv, EndConversation, EndCampaign
  <1>2. \A r \in CampaignRows : r.state \in CampaignStates /\ r.rev \in Nat /\ r.rv + 1 \in Nat
    BY DEF CampaignRows, Revisions
  <1>3. CASE EndConversation(next)
    <2> DEFINE S == {c \in Campaigns : camp[c].state \notin Terminal}
    <2>1. next \in ReplyLegal[conv.state] /\ ConversationMoves(next)
      BY <1>3 DEF EndConversation
    <2>2. /\ conv.state \in {"open", "reply-review-required"}
          /\ next \in {"responded", "stopped", "reply-review-required"}
          /\ conv.state # "open" => next \in Replied
      BY <1>0, <2>1 DEF ReplyLegal, ConversationStates, Replied
    <2>3. conv' \in [state : ConversationStates, rev : Nat, rv : Nat] /\ conv'.state = next
      <3>1. next \in ConversationStates
        BY <2>2 DEF ConversationStates
      <3> QED BY <2>1, <3>1, ConversationTypes DEF TypeInv
    <2>4. ConversationEnds \in 0 .. 1 /\ ConversationEnds' \in 1 .. 2
          /\ ConversationEnds' >= ConversationEnds + 1
      BY <2>2, <2>3 DEF ConversationEnds, Replied
    <2>5. \A c \in Campaigns : camp[c].rev + 1 \in Revisions
      BY <1>0, <1>2, <2>4, CimAssumption DEF Revisions
    <2>6. \A s \in CampaignStates : Projected(s, next) \in CampaignStates
      BY DEF Projected, CampaignStates, Live, Terminal
    <2>7. camp' = [c \in Campaigns |-> IF c \notin S THEN camp[c]
              ELSE [state |-> Projected(camp[c].state, next), rev |-> camp[c].rev + 1,
                    rv |-> camp[c].rv + 1]]
      BY <1>3 DEF EndConversation
    <2> HIDE DEF S
    <2>8. \A c \in Campaigns : [state |-> Projected(camp[c].state, next),
                                rev |-> camp[c].rev + 1, rv |-> camp[c].rv + 1] \in CampaignRows
      BY <1>0, <1>2, <2>5, <2>6 DEF CampaignRows
    <2>9. camp' \in [Campaigns -> CampaignRows]
      BY <1>0, <2>7, <2>8
    <2>10. \A c \in Campaigns : camp'[c].rev \in {camp[c].rev, camp[c].rev + 1}
      BY <2>7
    <2>11. RevisionsHold'
      BY <1>0, <1>2, <2>4, <2>10, CimAssumption DEF RevisionsHold
    <2> QED BY <1>1, <2>3, <2>9, <2>11
  <1>4. CASE \E c \in Campaigns : EndCampaign(c, next) /\ UNCHANGED conv
    <2>1. PICK c \in Campaigns : EndCampaign(c, next) /\ UNCHANGED conv
      BY <1>4
    <2>2. next \in CampaignStates
      BY <1>0, <1>2, <2>1 DEF EndCampaign, CampaignLegal, CampaignStates, Live, Terminal
    <2>3. camp[c].rev + 1 \in 0 .. MaxRevision /\ camp[c].rev + 1 \in Revisions
      <3>1. camp[c].rev < MaxRevision /\ camp[c].rev \in Nat
        BY <1>0, <1>2, <2>1 DEF EndCampaign
      <3> QED BY <3>1, CimAssumption DEF Revisions
    <2>4. camp' = [camp EXCEPT ![c] = [camp[c] EXCEPT !.state = next, !.rev = camp[c].rev + 1,
                                                      !.rv = camp[c].rv + 1]]
      BY <1>0, <2>1 DEF EndCampaign
    <2>5. \A m \in Revisions, n \in Nat :
             /\ [camp[c] EXCEPT !.state = next, !.rev = m, !.rv = n] \in CampaignRows
             /\ [camp[c] EXCEPT !.state = next, !.rev = m, !.rv = n].rev = m
      BY <1>0, <2>2 DEF CampaignRows
    <2> DEFINE new == [camp[c] EXCEPT !.state = next, !.rev = camp[c].rev + 1,
                                      !.rv = camp[c].rv + 1]
    <2>6. new \in CampaignRows /\ new.rev = camp[c].rev + 1
      BY <1>0, <1>2, <2>3, <2>5, Zenon
    <2> HIDE DEF new
    <2>7. camp' \in [Campaigns -> CampaignRows] /\ camp'[c].rev = camp[c].rev + 1
          /\ \A d \in Campaigns \ {c} : camp'[d] = camp[d]
      BY <1>0, <2>4, <2>6 DEF new
    <2>8. ConversationEnds' = ConversationEnds /\ ConversationEnds \in 0 .. 2
      BY <2>1 DEF ConversationEnds
    <2>9. RevisionsHold'
      BY <1>0, <2>3, <2>7, <2>8, CimAssumption DEF RevisionsHold
    <2> QED BY <1>0, <1>1, <2>1, <2>7, <2>9
  <1> QED BY <1>3, <1>4

(* The type invariant: one step per action.                                *)
LEMMA TypeInit == Init => TypeInv
  <1> SUFFICES ASSUME Init PROVE TypeInv
    OBVIOUS
  <1>1. /\ FreshTouch(0) \in TouchRows
        /\ [state |-> "initial-pending", rev |-> 0, rv |-> 1] \in CampaignRows
    BY CimAssumption DEF FreshTouch, TouchRows, TouchStates, CampaignRows, CampaignStates, Live,
         Revisions
  <1>2. TypeOK
    BY <1>1, IdleTypes, CimAssumption DEF Init, TypeOK, ConversationStates
  <1>3. Placed
    BY DEF Init, Placed, Idle
  <1>4. RevisionsHold
    <2>1. \A c \in Campaigns : camp[c].rev = 0
      BY DEF Init
    <2>2. ConversationEnds = 0
      BY DEF Init, ConversationEnds, Replied
    <2> QED BY <2>1, <2>2, CimAssumption DEF RevisionsHold
  <1> QED BY <1>2, <1>3, <1>4 DEF TypeInv

LEMMA TypeClaim ==
  ASSUME TypeInv, NEW w \in Workers, NEW c \in Campaigns, Claim(w, c) \/ Renew(w, c)
  PROVE  TypeInv'
  <1>0. /\ touch \in [Campaigns -> TouchRows] /\ touch[c] \in TouchRows
        /\ run \in [Workers -> Runs] /\ run[w] \in Runs /\ camp[c] \in CampaignRows
        /\ conv \in [state : ConversationStates, rev : Nat, rv : Nat]
    BY DEF TypeInv, TypeOK
  <1>1. touch[c].rv + 1 \in Nat /\ camp[c].rev \in Nat /\ touch[c].ordinal \in 0 .. LastTouch
    BY <1>0 DEF TouchRows, CampaignRows, Revisions
  <1>2. touch' \in [Campaigns -> TouchRows]
    <2>1. \A n \in Nat : /\ [touch[c] EXCEPT !.state = "claimed", !.token = n, !.lapsed = FALSE,
                                             !.rv = n] \in TouchRows
                         /\ [touch[c] EXCEPT !.token = n, !.lapsed = FALSE, !.rv = n]
                              \in TouchRows
      BY <1>0 DEF TouchRows, TouchStates
    <2>2. \/ touch' = [touch EXCEPT ![c] = [touch[c] EXCEPT !.state = "claimed",
                                   !.token = touch[c].rv + 1, !.lapsed = FALSE,
                                   !.rv = touch[c].rv + 1]]
          \/ touch' = [touch EXCEPT ![c] = [touch[c] EXCEPT !.token = touch[c].rv + 1,
                                   !.lapsed = FALSE, !.rv = touch[c].rv + 1]]
      BY <1>0 DEF Claim, Renew
    <2>3. /\ [touch[c] EXCEPT !.state = "claimed", !.token = touch[c].rv + 1, !.lapsed = FALSE,
                              !.rv = touch[c].rv + 1] \in TouchRows
          /\ [touch[c] EXCEPT !.token = touch[c].rv + 1, !.lapsed = FALSE,
                              !.rv = touch[c].rv + 1] \in TouchRows
      BY <1>1, <2>1, Zenon
    <2> QED BY <1>0, <2>2, <2>3
  <1>3. run' \in [Workers -> Runs] /\ Placed'
    <2>2. \E s \in Snaps, x \in Txs, pc \in {"claimed", "prepared"} :
             run' = [run EXCEPT ![w] = [run[w] EXCEPT !.pc = pc, !.x = x, !.snap = s]]
      <3>1. CASE Claim(w, c)
        <4> DEFINE s == [NoSnap EXCEPT !.crev = camp[c].rev, !.vrev = conv.rev,
                             !.ordinal = touch[c].ordinal, !.token = touch[c].rv + 1]
                   x == <<c, NextGeneration(c)>>
        <4>1. \A m, n, r \in Nat, k \in 0 .. LastTouch :
                [NoSnap EXCEPT !.crev = m, !.vrev = n, !.ordinal = k, !.token = r] \in Snaps
          BY DEF NoSnap, Snaps
        <4>2. s \in Snaps
          BY <1>0, <1>1, <4>1, Zenon
        <4>3. x \in Txs
          BY <3>1 DEF Claim, Txs
        <4>4. run' = [run EXCEPT ![w] = [run[w] EXCEPT !.pc = "claimed", !.x = x, !.snap = s]]
          BY <1>0, <3>1 DEF Claim
        <4> HIDE DEF s, x
        <4> QED BY <4>2, <4>3, <4>4
      <3>2. CASE Renew(w, c)
        <4>1. touch[c].tx \in 1 .. MaxTx
          BY <1>0, <3>2 DEF Renew, TouchRows
        <4>2. <<c, touch[c].tx>> \in Txs
          BY <4>1 DEF Txs
        <4>3. run' = [run EXCEPT ![w] = [run[w] EXCEPT !.pc = "prepared", !.x = <<c, touch[c].tx>>,
                                                       !.snap = NoSnap]]
          BY <1>0, <3>2 DEF Renew
        <4> QED BY <4>2, <4>3, IdleTypes
      <3> QED BY <3>1, <3>2
    <2>3. PICK s \in Snaps, x \in Txs, pc \in {"claimed", "prepared"} :
             run' = [run EXCEPT ![w] = [run[w] EXCEPT !.pc = pc, !.x = x, !.snap = s]]
      BY <2>2
    <2> DEFINE new == [run[w] EXCEPT !.pc = pc, !.x = x, !.snap = s]
    <2>4. new \in Runs /\ new.x = x /\ new.pc = pc
      BY <1>0 DEF Runs
    <2>5. run' = [run EXCEPT ![w] = new]
      BY <2>3
    <2> HIDE DEF new
    <2> QED BY <1>0, <2>4, <2>5 DEF TypeInv, Placed
  <1>4. UNCHANGED <<camp, conv, tx, gmail, chain, reply, crashes>>
    BY DEF Claim, Renew, outside
  <1>5. RevisionsHold'
    BY <1>4 DEF TypeInv, RevisionsHold, ConversationEnds
  <1> QED BY <1>2, <1>3, <1>4, <1>5 DEF TypeInv, TypeOK

(* A step between claim and call leaves its run on the same transmission.  *)
LEMMA StepTypes ==
  ASSUME TypeInv, NEW w \in Workers, run[w].pc \notin {"idle", "ready"}, NEW r \in Runs,
         r.x = run[w].x, r.pc # "record", run' = [run EXCEPT ![w] = r]
  PROVE  run' \in [Workers -> Runs] /\ Placed'
  <1>1. run \in [Workers -> Runs]
    BY DEF TypeInv, TypeOK
  <1> QED BY <1>1 DEF TypeInv, Placed

LEMMA TypeSend ==
  ASSUME TypeInv, NEW w \in Workers,
         Prepare(w) \/ Issue(w) \/ ReadGateContext(w) \/ Authorize(w) \/ EnterSeam(w)
  PROVE  TypeInv'
  <1> DEFINE x == run[w].x
             c == Owner(x)
  <1>1. run[w].pc \notin {"idle", "ready"} /\ x \in Txs
    <2>1. run[w].pc \notin {"idle", "ready"}
      BY DEF Prepare, Issue, ReadGateContext, Authorize, EnterSeam, At
    <2> QED BY <2>1 DEF TypeInv, Placed
  <1>2. /\ c \in Campaigns /\ x[2] \in 1 .. MaxTx /\ tx[x] \in TxRows
        /\ touch[c] \in TouchRows /\ camp[c] \in CampaignRows
        /\ tx \in [Txs -> TxRows] /\ touch \in [Campaigns -> TouchRows]
        /\ run \in [Workers -> Runs] /\ run[w] \in Runs /\ run[w].snap \in Snaps
        /\ conv \in [state : ConversationStates, rev : Nat, rv : Nat]
    BY <1>1, RowTypes DEF TypeInv, TypeOK, Runs
  <1>3. UNCHANGED <<camp, conv, gmail, chain, reply, crashes>>
    BY DEF Prepare, Issue, ReadGateContext, Authorize, EnterSeam, outside
  <1>4. RevisionsHold'
    BY <1>3 DEF TypeInv, RevisionsHold, ConversationEnds
  <1>6. ASSUME NEW pc \in {"prepared", "gate", "boundary", "send"}, NEW s \in Snaps,
               run' = [run EXCEPT ![w] = [run[w] EXCEPT !.pc = pc, !.snap = s]]
        PROVE  run' \in [Workers -> Runs] /\ Placed'
    <2> DEFINE r == [run[w] EXCEPT !.pc = pc, !.snap = s]
    <2>1. r \in Runs /\ r.x = run[w].x /\ r.pc # "record"
      BY <1>2 DEF Runs
    <2>2. run' = [run EXCEPT ![w] = r]
      BY <1>6
    <2> HIDE DEF r
    <2> QED BY <1>1, <2>1, <2>2, StepTypes
  <1> SUFFICES tx' \in [Txs -> TxRows] /\ touch' \in [Campaigns -> TouchRows]
                 /\ run' \in [Workers -> Runs] /\ Placed'
    BY <1>3, <1>4 DEF TypeInv, TypeOK
  <1>7. touch[c].rv + 1 \in Nat /\ tx[x].rv + 1 \in Nat /\ run[w].snap.rv + 1 \in Nat
        /\ run[w].snap.crev \in Nat /\ touch[c].ordinal \in 0 .. LastTouch
    BY <1>2 DEF TouchRows, TxRows, Snaps
  <1>8. CASE Prepare(w)
    <2>1. \A k \in 0 .. LastTouch, n \in Nat :
            [NoTx EXCEPT !.state = "prepared", !.rv = n, !.ordinal = k] \in TxRows
      BY IdleTypes DEF TxRows, TxStates
    <2>2. tx' = [tx EXCEPT ![x] = [NoTx EXCEPT !.state = "prepared", !.rv = 1,
                                               !.ordinal = touch[c].ordinal]]
      BY <1>8 DEF Prepare
    <2>3. [NoTx EXCEPT !.state = "prepared", !.rv = 1, !.ordinal = touch[c].ordinal] \in TxRows
      BY <1>7, <2>1
    <2>4. touch' = [touch EXCEPT ![c] = [touch[c] EXCEPT !.tx = x[2], !.rv = touch[c].rv + 1]]
      BY <1>2, <1>8 DEF Prepare
    <2>5. \A k \in 0 .. MaxTx, n \in Nat : [touch[c] EXCEPT !.tx = k, !.rv = n] \in TouchRows
      BY <1>2 DEF TouchRows
    <2>6. x[2] \in 0 .. MaxTx
      BY <1>2, CimAssumption
    <2>7. [touch[c] EXCEPT !.tx = x[2], !.rv = touch[c].rv + 1] \in TouchRows
      BY <1>7, <2>5, <2>6, Zenon
    <2>8. run' = [run EXCEPT ![w] = [run[w] EXCEPT !.pc = "prepared", !.snap = NoSnap]]
      BY <1>2, <1>8 DEF Prepare
    <2> QED BY <1>2, <1>6, <2>2, <2>3, <2>4, <2>7, <2>8, IdleTypes
  <1>9. CASE Issue(w)
    <2>1. PICK a \in 1 .. MaxAuths :
            /\ \/ tx' = [tx EXCEPT ![x].auth = a, ![x].act = run[w].act]
               \/ tx' = tx
            /\ run' = [run EXCEPT ![w].pc = "issued", ![w].auth = a]
      <3>1. tx[x].auth \in 0 .. MaxAuths
        BY <1>2 DEF TxRows
      <3>2. CASE tx[x].auth < MaxAuths /\ tx' = [tx EXCEPT ![x].auth = tx[x].auth + 1,
                                                          ![x].act = run[w].act]
                   /\ run' = [run EXCEPT ![w].pc = "issued", ![w].auth = tx[x].auth + 1]
        <4>1. tx[x].auth + 1 \in 1 .. MaxAuths
          BY <3>1, <3>2, CimAssumption
        <4> QED BY <3>2, <4>1
      <3>3. CASE tx[x].auth > 0 /\ tx' = tx
                   /\ run' = [run EXCEPT ![w].pc = "issued", ![w].auth = tx[x].auth]
        <4>1. tx[x].auth \in 1 .. MaxAuths
          BY <3>1, <3>3, CimAssumption
        <4> QED BY <3>3, <4>1
      <3> QED BY <1>9, <3>2, <3>3 DEF Issue
    <2>2. run[w].act \in 0 .. MaxActivations /\ a \in 0 .. MaxAuths
      BY <1>2, CimAssumption DEF Runs
    <2>3. \A b \in 0 .. MaxActivations :
             [tx[x] EXCEPT !.auth = a, !.act = b] \in TxRows
      BY <1>2, <2>2 DEF TxRows
    <2>4. tx' = [tx EXCEPT ![x] = [tx[x] EXCEPT !.auth = a, !.act = run[w].act]] \/ tx' = tx
      BY <1>2, <2>1
    <2> DEFINE r == [run[w] EXCEPT !.pc = "issued", !.auth = a]
    <2>5. r \in Runs /\ r.x = run[w].x /\ r.pc # "record"
      BY <1>2, <2>2 DEF Runs
    <2>6. run' = [run EXCEPT ![w] = r]
      BY <1>2, <2>1
    <2> HIDE DEF r
    <2>7. UNCHANGED touch
      BY <1>9 DEF Issue
    <2> QED BY <1>1, <1>2, <2>2, <2>3, <2>4, <2>5, <2>6, <2>7, StepTypes
  <1>10. CASE ReadGateContext(w)
    <2> DEFINE s == [crev |-> camp[c].rev, crv |-> camp[c].rv, vrev |-> conv.rev,
                     vrv |-> conv.rv, trv |-> touch[c].rv, ordinal |-> touch[c].ordinal,
                     token |-> touch[c].token, rv |-> tx[x].rv]
    <2>1. s \in Snaps
      BY <1>2 DEF CampaignRows, TouchRows, TxRows, Snaps, Revisions
    <2>2. run' = [run EXCEPT ![w] = [run[w] EXCEPT !.pc = "gate", !.snap = s]]
      BY <1>2, <1>10 DEF ReadGateContext
    <2>3. UNCHANGED <<touch, tx>>
      BY <1>10 DEF ReadGateContext
    <2> HIDE DEF s
    <2> QED BY <1>2, <1>6, <2>1, <2>2, <2>3
  <1>11. CASE Authorize(w)
    <2>1. tx' = [tx EXCEPT ![x] = [tx[x] EXCEPT !.state = "provider-pending",
                                     !.crev = run[w].snap.crev, !.rv = tx[x].rv + 1]]
      BY <1>2, <1>11 DEF Authorize
    <2>2. run[w].snap.crev \in Revisions
      BY <1>2, <1>11 DEF Authorize, CampaignRows
    <2>3. \A k \in Revisions, n \in Nat :
            [tx[x] EXCEPT !.state = "provider-pending", !.crev = k, !.rv = n] \in TxRows
      BY <1>2 DEF TxRows, TxStates
    <2>4. [tx[x] EXCEPT !.state = "provider-pending", !.crev = run[w].snap.crev,
                        !.rv = tx[x].rv + 1] \in TxRows
      BY <1>7, <2>2, <2>3, Zenon
    <2>5. touch' = [touch EXCEPT ![c] = [touch[c] EXCEPT !.state = "provider-pending",
                                           !.rv = touch[c].rv + 1]]
      BY <1>2, <1>11 DEF Authorize
    <2>6. [touch[c] EXCEPT !.state = "provider-pending", !.rv = touch[c].rv + 1] \in TouchRows
      <3>1. 0 \in 0 .. MaxTx
        BY CimAssumption
      <3> QED BY <1>2, <3>1, TouchUpdate DEF TouchStates
    <2> DEFINE s == [NoSnap EXCEPT !.rv = run[w].snap.rv + 1]
    <2>7. s \in Snaps
      <3>1. \A n \in Nat : [NoSnap EXCEPT !.rv = n] \in Snaps
        BY IdleTypes DEF Snaps
      <3> QED BY <1>7, <3>1, Zenon
    <2>8. run' = [run EXCEPT ![w] = [run[w] EXCEPT !.pc = "boundary", !.snap = s]]
      BY <1>2, <1>11 DEF Authorize
    <2> HIDE DEF s
    <2> QED BY <1>2, <1>6, <2>1, <2>4, <2>5, <2>6, <2>7, <2>8
  <1>12. CASE EnterSeam(w)
    <2>1. tx' = [tx EXCEPT ![x] = [tx[x] EXCEPT !.entered = TRUE, !.rv = tx[x].rv + 1]]
      BY <1>2, <1>12 DEF EnterSeam
    <2>2. \A n \in Nat : [tx[x] EXCEPT !.entered = TRUE, !.rv = n] \in TxRows
      BY <1>2 DEF TxRows
    <2>3. [tx[x] EXCEPT !.entered = TRUE, !.rv = tx[x].rv + 1] \in TxRows
      BY <1>7, <2>2, Zenon
    <2> DEFINE s == [NoSnap EXCEPT !.rv = run[w].snap.rv + 1]
    <2>4. s \in Snaps
      <3>1. \A n \in Nat : [NoSnap EXCEPT !.rv = n] \in Snaps
        BY IdleTypes DEF Snaps
      <3> QED BY <1>7, <3>1, Zenon
    <2>5. run' = [run EXCEPT ![w] = [run[w] EXCEPT !.pc = "send", !.snap = s]]
      BY <1>2, <1>12 DEF EnterSeam
    <2>6. UNCHANGED touch
      BY <1>12 DEF EnterSeam
    <2> HIDE DEF s
    <2> QED BY <1>2, <1>6, <2>1, <2>3, <2>4, <2>5, <2>6
  <1> QED BY <1>8, <1>9, <1>10, <1>11, <1>12

\* The steps of a run that write no row.
QuietStep(w) ==
  \/ LookupFails(w) \/ BeginSending(w) \/ EndRun(w) \/ Refused(w) \/ Call(w) \/ NotReached(w)
  \/ HearAccepted(w) \/ HearFailure(w) \/ HearQuota(w) \/ HearNothing(w) \/ SearchFails(w)
  \/ RecordFails(w) \/ Crash(w) \/ \E x \in Txs : StartLookup(w, x)
\* The steps that record what became of a send.
OutcomeStep(w) ==
  \/ LookupFound(w) \/ LookupMissing(w) \/ SearchFound(w) \/ Record(w) \/ ReleaseRefused(w)
  \/ \E x \in Txs : ReleaseUnentered(w, x)

LEMMA TypeQuiet ==
  ASSUME TypeInv, NEW w \in Workers, QuietStep(w)
  PROVE  TypeInv'
  <1>0. run \in [Workers -> Runs] /\ run[w] \in Runs /\ gmail \in [Txs -> [asked : Nat, mailed : Nat, refused : Nat]]
    BY DEF TypeInv, TypeOK
  <1>1. UNCHANGED <<camp, conv, touch, tx, chain, reply>> /\ crashes' \in 0 .. MaxCrashes
    <2>1. UNCHANGED <<camp, conv, touch, tx, chain, reply>>
      BY DEF QuietStep, LookupFails, BeginSending, EndRun, Refused, Call, NotReached, HearAccepted,
         HearFailure, HearQuota, HearNothing, SearchFails, RecordFails, Crash, StartLookup, outside
    <2>2. CASE Crash(w)
      BY <2>1, <2>2, CimAssumption DEF Crash, TypeInv, TypeOK
    <2>3. CASE ~Crash(w)
      <3>1. UNCHANGED crashes
        BY <2>3 DEF QuietStep, LookupFails, BeginSending, EndRun, Refused, Call, NotReached,
           HearAccepted, HearFailure, HearQuota, HearNothing, SearchFails, RecordFails,
           StartLookup, outside
      <3> QED BY <2>1, <3>1 DEF TypeInv, TypeOK
    <2> QED BY <2>2, <2>3
  <1>2. gmail' \in [Txs -> [asked : Nat, mailed : Nat, refused : Nat]]
    <2>1. CASE Call(w)
      <3>1. run[w].x \in Txs
        BY <2>1 DEF Call, At, TypeInv, Placed
      <3>2. gmail' = [gmail EXCEPT ![run[w].x] = [gmail[run[w].x] EXCEPT
                                                    !.asked = gmail[run[w].x].asked + 1]]
        BY <1>0, <2>1, <3>1 DEF Call
      <3> QED BY <1>0, <3>1, <3>2
    <2>2. CASE ~Call(w)
      BY <1>0, <2>2 DEF QuietStep, LookupFails, BeginSending, EndRun, Refused, NotReached,
         HearAccepted, HearFailure, HearQuota, HearNothing, SearchFails, RecordFails, Crash,
         StartLookup, outside
    <2> QED BY <2>1, <2>2
  <1>3. RevisionsHold'
    BY <1>1 DEF TypeInv, RevisionsHold, ConversationEnds
  <1>4. run' \in [Workers -> Runs] /\ Placed'
    <2>1. CASE Rest(w) \/ LeaveTouch(w)
      BY <2>1, RunTypes DEF TypeInv
    <2>2. CASE run[w].pc \notin {"idle", "ready"}
                 /\ \E pc \in {"send", "await", "search", "release"} : Goto(w, pc)
      BY <2>2, RunTypes DEF TypeInv
    <2>3. CASE run[w].pc \notin {"idle", "ready"} /\ \E outcome \in Outcomes : Hears(w, outcome)
      BY <2>3, RunTypes DEF TypeInv
    <2>4. CASE BeginSending(w)
      <3> DEFINE r == [Idle EXCEPT !.pc = "ready", !.act = chain.no]
      <3>1. chain.no \in 0 .. MaxActivations
        BY CimAssumption DEF TypeInv, TypeOK
      <3>2. r \in Runs /\ r.pc = "ready"
        BY <3>1, IdleTypes DEF Idle, Runs
      <3>3. run' = [run EXCEPT ![w] = r]
        BY <2>4 DEF BeginSending
      <3> HIDE DEF r
      <3> QED BY <1>0, <3>2, <3>3 DEF TypeInv, Placed
    <2>5. CASE \E x \in Txs : StartLookup(w, x)
      <3>1. PICK x \in Txs : StartLookup(w, x)
        BY <2>5
      <3>2. tx[x].rv \in Nat
        BY DEF TypeInv, TypeOK, TxRows
      <3> DEFINE r == [Idle EXCEPT !.pc = "lookup", !.x = x,
                                   !.snap = [NoSnap EXCEPT !.rv = tx[x].rv]]
      <3>3. [NoSnap EXCEPT !.rv = tx[x].rv] \in Snaps
        BY <3>2, IdleTypes DEF Snaps
      <3>4. r \in Runs /\ r.x = x /\ r.pc = "lookup"
        BY <3>3, IdleTypes DEF Idle, Runs
      <3>5. run' = [run EXCEPT ![w] = r]
        BY <3>1 DEF StartLookup, Idle
      <3> HIDE DEF r
      <3> QED BY <1>0, <3>4, <3>5 DEF TypeInv, Placed
    <2>6. /\ LookupFails(w) \/ EndRun(w) \/ Refused(w) \/ RecordFails(w) \/ Crash(w)
               => Rest(w) \/ LeaveTouch(w)
          /\ Call(w) \/ NotReached(w) \/ HearQuota(w) \/ HearNothing(w)
               => /\ run[w].pc \notin {"idle", "ready"}
                  /\ \E pc \in {"send", "await", "search", "release"} : Goto(w, pc)
          /\ HearAccepted(w) \/ HearFailure(w) \/ SearchFails(w)
               => /\ run[w].pc \notin {"idle", "ready"}
                  /\ \E outcome \in Outcomes : Hears(w, outcome)
      BY DEF LookupFails, EndRun, Refused, RecordFails, Crash, Call, NotReached, HearQuota,
         HearNothing, HearAccepted, HearFailure, SearchFails, At, Outcomes
    <2> QED BY <2>1, <2>2, <2>3, <2>4, <2>5, <2>6 DEF QuietStep
  <1> QED BY <1>1, <1>2, <1>3, <1>4 DEF TypeInv, TypeOK

\* An outcome is recorded of a transmission that is under way or unsure.
Resolves(x, outcome) ==
  /\ tx[x].state \in {"provider-pending", "ambiguous"}
  /\ Finalize(x, outcome) \/ (outcome = "accepted" /\ ReconcileAccepted(x))

LEMMA OutcomeRows ==
  ASSUME TypeInv, NEW w \in Workers, OutcomeStep(w)
  PROVE  \/ UNCHANGED <<camp, conv, touch, tx>>
         \/ /\ UNCHANGED <<camp, conv>>
            /\ \E x \in Txs : tx[x].state = "provider-pending" /\ ReleaseUnsent(x)
         \/ \E x \in Txs, outcome \in Outcomes : Resolves(x, outcome)
  <1>1. run[w].pc \notin {"idle", "ready"} => run[w].x \in Txs
    BY DEF TypeInv, Placed
  <1>2. run[w].pc = "record" => run[w].outcome \in Outcomes
    BY DEF TypeInv, Placed
  <1>0. \A x, rv : Finalizable(x, rv) => tx[x].state = "provider-pending"
    BY DEF Finalizable
  <1>3. CASE LookupFound(w)
    <2>1. run[w].x \in Txs
      BY <1>1, <1>3 DEF LookupFound, At
    <2> QED BY <1>3, <2>1 DEF LookupFound, Resolves, Reconcilable, Outcomes
  <1>4. CASE LookupMissing(w)
    <2>1. run[w].x \in Txs
      BY <1>1, <1>4 DEF LookupMissing, At
    <2> QED BY <1>0, <1>4, <2>1 DEF LookupMissing, Resolves, Outcomes
  <1>5. CASE SearchFound(w)
    <2>1. run[w].x \in Txs
      BY <1>1, <1>5 DEF SearchFound, At
    <2> QED BY <1>5, <2>1 DEF SearchFound, Resolves, Outcomes
  <1>6. CASE Record(w)
    <2>1. run[w].x \in Txs /\ run[w].outcome \in Outcomes
      BY <1>1, <1>2, <1>6 DEF Record, At
    <2> QED BY <1>0, <1>6, <2>1 DEF Record, Resolves
  <1>7. CASE ReleaseRefused(w)
    <2>1. run[w].x \in Txs
      BY <1>1, <1>7 DEF ReleaseRefused, At
    <2> QED BY <1>0, <1>7, <2>1 DEF ReleaseRefused
  <1>8. CASE \E x \in Txs : ReleaseUnentered(w, x)
    BY <1>8 DEF ReleaseUnentered
  <1> QED BY <1>3, <1>4, <1>5, <1>6, <1>7, <1>8 DEF OutcomeStep

LEMMA TypeOutcome ==
  ASSUME TypeInv, NEW w \in Workers, OutcomeStep(w)
  PROVE  TypeInv'
  <1>1. UNCHANGED <<gmail, chain, reply, crashes>>
    BY DEF OutcomeStep, LookupFound, LookupMissing, SearchFound, Record, ReleaseRefused,
       ReleaseUnentered, outside
  <1>2. run' \in [Workers -> Runs] /\ Placed'
    <2>1. Rest(w) \/ LeaveTouch(w) \/ run' = run
      BY DEF OutcomeStep, LookupFound, LookupMissing, SearchFound, Record, ReleaseRefused,
         ReleaseUnentered
    <2>2. CASE run' = run
      BY <2>2 DEF TypeInv, TypeOK, Placed
    <2> QED BY <2>1, <2>2, RunTypes DEF TypeInv
  <1>3. \/ UNCHANGED <<camp, conv, touch, tx>>
        \/ UNCHANGED <<camp, conv>> /\ \E x \in Txs : ReleaseUnsent(x)
        \/ \E x \in Txs, outcome \in Outcomes : Resolves(x, outcome)
    BY OutcomeRows
  <1>4. /\ tx' \in [Txs -> TxRows] /\ touch' \in [Campaigns -> TouchRows]
        /\ camp' \in [Campaigns -> CampaignRows]
        /\ conv' \in [state : ConversationStates, rev : Nat, rv : Nat]
        /\ RevisionsHold'
    <2>1. CASE UNCHANGED <<camp, conv, touch, tx>>
      BY <2>1 DEF TypeInv, TypeOK, RevisionsHold, ConversationEnds
    <2>2. CASE UNCHANGED <<camp, conv>> /\ \E x \in Txs : ReleaseUnsent(x)
      BY <2>2, ReleaseTypes DEF TypeInv, TypeOK, RevisionsHold, ConversationEnds
    <2>3. CASE \E x \in Txs, outcome \in Outcomes : Resolves(x, outcome)
      BY <2>3, OutcomeTypes DEF Resolves
    <2> QED BY <1>3, <2>1, <2>2, <2>3
  <1> QED BY <1>1, <1>2, <1>4 DEF TypeInv, TypeOK

LEMMA TypeElsewhere ==
  ASSUME TypeInv,
         \/ \E c \in Campaigns : Ended(c) \/ ClaimLapses(c)
         \/ \E x \in Txs : Accept(x) \/ Refuse(x)
         \/ Replies \/ Switch
  PROVE  TypeInv'
  <1>1. CASE \E c \in Campaigns : Ended(c)
    <2>1. PICK c \in Campaigns : \E next : EndCampaign(c, next)
                                            /\ UNCHANGED <<conv, gmail, run, outside>>
      BY <1>1 DEF Ended, Expire, Stop, ReceiveMaterials, DemandAction
    <2> QED BY <2>1, EndTypes DEF TypeInv, TypeOK, Placed, outside
  <1>2. CASE \E c \in Campaigns : ClaimLapses(c)
    <2>1. PICK c \in Campaigns : ClaimLapses(c)
      BY <1>2
    <2>2. touch' = [touch EXCEPT ![c] = [touch[c] EXCEPT !.lapsed = TRUE]]
      BY <2>1 DEF ClaimLapses, TypeInv, TypeOK
    <2>3. [touch[c] EXCEPT !.lapsed = TRUE] \in TouchRows
      BY DEF TypeInv, TypeOK, TouchRows
    <2> QED BY <2>1, <2>2, <2>3 DEF ClaimLapses, outside, TypeInv, TypeOK, Placed, RevisionsHold,
            ConversationEnds
  <1>3. CASE \E x \in Txs : Accept(x) \/ Refuse(x)
    <2>1. PICK x \in Txs : Accept(x) \/ Refuse(x)
      BY <1>3
    <2>2. gmail' \in [Txs -> [asked : Nat, mailed : Nat, refused : Nat]]
      BY <2>1 DEF Accept, Refuse, TypeInv, TypeOK
    <2> QED BY <2>1, <2>2 DEF Accept, Refuse, outside, TypeInv, TypeOK, Placed, RevisionsHold,
            ConversationEnds
  <1>4. CASE Replies
    <2>1. CASE RecordReply
      <3>1. Contained("reply-review-required") \subseteq ConversationStates
        BY DEF Contained, Replied, ConversationStates
      <3> QED BY <2>1, <3>1 DEF RecordReply, TypeInv, TypeOK, Placed, RevisionsHold,
              ConversationEnds
    <2>2. CASE ApplyReply
      BY <2>2, EndTypes DEF ApplyReply, outside, TypeInv, TypeOK, Placed
    <2>3. CASE SettleReply
      BY <2>3 DEF SettleReply, TypeInv, TypeOK, Placed, RevisionsHold, ConversationEnds
    <2> QED BY <1>4, <2>1, <2>2, <2>3 DEF Replies
  <1>5. CASE Switch
    <2>1. chain' \in [on : BOOLEAN, no : 1 .. MaxActivations]
      <3>1. chain \in [on : BOOLEAN, no : 1 .. MaxActivations]
        BY DEF TypeInv, TypeOK
      <3>2. CASE ChainOn
        <4>1. chain.no + 1 \in 1 .. MaxActivations
          BY <3>1, <3>2, CimAssumption DEF ChainOn
        <4> QED BY <3>2, <4>1 DEF ChainOn
      <3> QED BY <1>5, <3>1, <3>2 DEF Switch, ChainOff, FreePrepared, outside
    <2>2. UNCHANGED <<camp, conv, gmail, run, reply, crashes>>
      BY <1>5 DEF Switch, ChainOff, FreePrepared, ChainOn, outside
    <2>3. tx' \in [Txs -> TxRows] /\ touch' \in [Campaigns -> TouchRows]
      <3>1. UNCHANGED <<touch, tx>> \/ ReleasePrepared
        BY <1>5 DEF Switch, ChainOff, FreePrepared, ChainOn
      <3> QED BY <3>1, ReleaseTypes DEF TypeInv, TypeOK
    <2> QED BY <2>1, <2>2, <2>3 DEF TypeInv, TypeOK, Placed, RevisionsHold, ConversationEnds
  <1> QED BY <1>1, <1>2, <1>3, <1>4, <1>5

(* Every step of the model is one of these. *)
LEMMA Steps ==
  ASSUME Next
  PROVE  \/ \E w \in Workers : QuietStep(w) \/ OutcomeStep(w)
         \/ \E w \in Workers : \/ Prepare(w) \/ Issue(w) \/ ReadGateContext(w) \/ Authorize(w)
                               \/ EnterSeam(w) \/ \E c \in Campaigns : Claim(w, c) \/ Renew(w, c)
         \/ \E c \in Campaigns : Ended(c) \/ ClaimLapses(c)
         \/ \E x \in Txs : Accept(x) \/ Refuse(x)
         \/ Replies \/ Switch
  BY DEF Next, Run, Send, Recover, Resolve, QuietStep, OutcomeStep

LEMMA TypeNext == TypeInv /\ [Next]_vars => TypeInv'
  <1> SUFFICES ASSUME TypeInv, [Next]_vars PROVE TypeInv'
    OBVIOUS
  <1>1. CASE UNCHANGED vars
    BY <1>1 DEF vars, TypeInv, TypeOK, Placed, RevisionsHold, ConversationEnds
  <1>2. CASE Next
    BY <1>2, Steps, TypeQuiet, TypeOutcome, TypeSend, TypeClaim, TypeElsewhere
  <1> QED BY <1>1, <1>2

(* Every state is well typed: a campaign's terminal revision stays within  *)
(* the ends it may meet, and a run that works on a transmission names one. *)
THEOREM TypeCorrect == Spec => []TypeOK
  <1>1. TypeInv => TypeOK
    BY DEF TypeInv
  <1> QED BY <1>1, TypeInit, TypeNext, PTL DEF Spec


(* What each step writes into the rows of its campaign, field by field.    *)
LEMMA ClaimWrites ==
  ASSUME TypeInv, NEW w \in Workers, NEW c \in Campaigns, Claim(w, c) \/ Renew(w, c)
  PROVE  \E r \in TouchRows :
           /\ touch' = [touch EXCEPT ![c] = r] /\ tx' = tx
           /\ r.state = "claimed" /\ r.tx = touch[c].tx /\ r.ordinal = touch[c].ordinal
           /\ r.token = touch[c].rv + 1 /\ r.rv = touch[c].rv + 1
  <1> DEFINE n == touch[c].rv + 1
             r == [touch[c] EXCEPT !.state = "claimed", !.token = n, !.lapsed = FALSE, !.rv = n]
  <1>0. touch \in [Campaigns -> TouchRows] /\ touch[c] \in TouchRows
    BY DEF TypeInv, TypeOK
  <1>1. n \in Nat
    BY <1>0 DEF TouchRows
  <1>2. tx' = tx
    BY DEF Claim, Renew
  <1>3. touch' = [touch EXCEPT ![c] = r]
    <2>1. CASE Claim(w, c)
      BY <1>0, <2>1 DEF Claim
    <2>2. CASE Renew(w, c)
      <3>1. touch' = [touch EXCEPT ![c] = [touch[c] EXCEPT !.token = n, !.lapsed = FALSE, !.rv = n]]
        BY <1>0, <2>2 DEF Renew
      <3>2. touch[c].state = "claimed"
        BY <2>2 DEF Renew
      <3> HIDE DEF n
      <3>3. [touch[c] EXCEPT !.token = n, !.lapsed = FALSE, !.rv = n] = r
        BY <1>0, <3>2 DEF TouchRows
      <3> QED BY <3>1, <3>3
    <2> QED BY <2>1, <2>2
  <1> HIDE DEF n
  <1>4. /\ r \in TouchRows /\ r.state = "claimed" /\ r.tx = touch[c].tx
        /\ r.ordinal = touch[c].ordinal /\ r.token = n /\ r.rv = n
    BY <1>0, <1>1 DEF TouchRows, TouchStates
  <1> HIDE DEF r
  <1> QED BY <1>2, <1>3, <1>4 DEF n

LEMMA LapseWrites ==
  ASSUME TypeInv, NEW c \in Campaigns, ClaimLapses(c)
  PROVE  \E r \in TouchRows :
           /\ touch' = [touch EXCEPT ![c] = r] /\ tx' = tx
           /\ r.state = touch[c].state /\ r.tx = touch[c].tx /\ r.ordinal = touch[c].ordinal
           /\ r.token = touch[c].token /\ r.rv = touch[c].rv
  <1> DEFINE r == [touch[c] EXCEPT !.lapsed = TRUE]
  <1>1. touch' = [touch EXCEPT ![c] = r] /\ tx' = tx
    BY DEF ClaimLapses, TypeInv, TypeOK
  <1>2. /\ r \in TouchRows /\ r.state = touch[c].state /\ r.tx = touch[c].tx
        /\ r.ordinal = touch[c].ordinal /\ r.token = touch[c].token /\ r.rv = touch[c].rv
    BY DEF TypeInv, TypeOK, TouchRows
  <1> HIDE DEF r
  <1> QED BY <1>1, <1>2

LEMMA PrepareWrites ==
  ASSUME TypeInv, NEW w \in Workers, Prepare(w)
  PROVE  LET x == run[w].x c == Owner(x) IN
         /\ x \in Txs /\ c \in Campaigns /\ x[2] \in 1 .. MaxTx
         /\ \E r \in TouchRows, q \in TxRows :
              /\ touch' = [touch EXCEPT ![c] = r] /\ tx' = [tx EXCEPT ![x] = q]
              /\ r.state = touch[c].state /\ r.tx = x[2] /\ r.ordinal = touch[c].ordinal
              /\ r.token = touch[c].token /\ r.rv = touch[c].rv + 1
              /\ q.state = "prepared" /\ q.ordinal = touch[c].ordinal /\ q.entered = FALSE
  <1> DEFINE x == run[w].x
             c == Owner(x)
             n == touch[c].rv + 1
             r == [touch[c] EXCEPT !.tx = x[2], !.rv = n]
             q == [NoTx EXCEPT !.state = "prepared", !.rv = 1, !.ordinal = touch[c].ordinal]
  <1>0. x \in Txs
    BY DEF Prepare, At, TypeInv, Placed
  <1>1. /\ c \in Campaigns /\ x[2] \in 1 .. MaxTx /\ x[2] \in 0 .. MaxTx
        /\ touch \in [Campaigns -> TouchRows] /\ touch[c] \in TouchRows
        /\ tx \in [Txs -> TxRows]
    BY <1>0, RowTypes, CimAssumption DEF TypeInv, TypeOK
  <1>2. n \in Nat /\ touch[c].ordinal \in 0 .. LastTouch
    BY <1>1 DEF TouchRows
  <1>3. touch' = [touch EXCEPT ![c] = r] /\ tx' = [tx EXCEPT ![x] = q]
    BY <1>1 DEF Prepare
  <1>4. q \in TxRows /\ q.state = "prepared" /\ q.ordinal = touch[c].ordinal /\ q.entered = FALSE
    <2>1. \A k \in 0 .. LastTouch, m \in Nat :
            LET z == [NoTx EXCEPT !.state = "prepared", !.rv = m, !.ordinal = k] IN
            z \in TxRows /\ z.state = "prepared" /\ z.ordinal = k /\ z.entered = FALSE
      BY IdleTypes DEF NoTx, TxRows, TxStates
    <2>2. 1 \in Nat
      OBVIOUS
    <2> QED BY <1>2, <2>1, <2>2
  <1> HIDE DEF n, q
  <1>5. /\ r \in TouchRows /\ r.state = touch[c].state /\ r.tx = x[2]
        /\ r.ordinal = touch[c].ordinal /\ r.token = touch[c].token /\ r.rv = n
    BY <1>1, <1>2 DEF TouchRows
  <1> HIDE DEF r
  <1> QED BY <1>0, <1>1, <1>3, <1>4, <1>5 DEF n

LEMMA IssueWrites ==
  ASSUME TypeInv, NEW w \in Workers, Issue(w)
  PROVE  LET x == run[w].x IN
         /\ x \in Txs /\ touch' = touch
         /\ \E q \in TxRows : /\ tx' = [tx EXCEPT ![x] = q] /\ q.state = tx[x].state
                              /\ q.ordinal = tx[x].ordinal /\ q.entered = tx[x].entered
  <1> DEFINE x == run[w].x
  <1>0. x \in Txs /\ touch' = touch
    BY DEF Issue, At, TypeInv, Placed
  <1>1. tx \in [Txs -> TxRows] /\ tx[x] \in TxRows
    BY <1>0 DEF TypeInv, TypeOK
  <1>2. tx' \in [Txs -> TxRows]
    BY TypeSend DEF TypeInv, TypeOK
  <1>3. tx' = tx \/ \E a, b : tx' = [tx EXCEPT ![x].auth = a, ![x].act = b]
    BY DEF Issue
  <1>4. CASE tx' = tx
    BY <1>0, <1>1, <1>4
  <1>5. CASE \E a, b : tx' = [tx EXCEPT ![x].auth = a, ![x].act = b]
    <2>1. PICK a, b : tx' = [tx EXCEPT ![x].auth = a, ![x].act = b]
      BY <1>5
    <2> DEFINE q == [tx[x] EXCEPT !.auth = a, !.act = b]
    <2>2. tx' = [tx EXCEPT ![x] = q]
      BY <1>0, <1>1, <2>1
    <2>3. q.state = tx[x].state /\ q.ordinal = tx[x].ordinal
      BY <1>1 DEF TxRows
    <2>4. q.entered = tx[x].entered
      BY <1>1 DEF TxRows
    <2>5. q = tx'[x]
      BY <1>0, <1>1, <2>2
    <2>6. q \in TxRows
      BY <1>0, <1>2, <2>5
    <2> HIDE DEF q
    <2> QED BY <1>0, <2>2, <2>3, <2>4, <2>6
  <1> QED BY <1>3, <1>4, <1>5

LEMMA AuthorizeWrites ==
  ASSUME TypeInv, NEW w \in Workers, Authorize(w)
  PROVE  LET x == run[w].x c == Owner(x) IN
         /\ x \in Txs /\ c \in Campaigns /\ x[2] \in 1 .. MaxTx
         /\ \E r \in TouchRows, q \in TxRows :
              /\ touch' = [touch EXCEPT ![c] = r] /\ tx' = [tx EXCEPT ![x] = q]
              /\ r.state = "provider-pending" /\ r.tx = touch[c].tx
              /\ r.ordinal = touch[c].ordinal
              /\ q.state = "provider-pending" /\ q.ordinal = tx[x].ordinal
              /\ q.entered = tx[x].entered
  <1> DEFINE x == run[w].x
             c == Owner(x)
             n == touch[c].rv + 1
             r == [touch[c] EXCEPT !.state = "provider-pending", !.rv = n]
             m == tx[x].rv + 1
             k == run[w].snap.crev
             q == [tx[x] EXCEPT !.state = "provider-pending", !.crev = k, !.rv = m]
  <1>0. x \in Txs
    BY DEF Authorize, At, TypeInv, Placed
  <1>1. /\ c \in Campaigns /\ x[2] \in 1 .. MaxTx
        /\ touch \in [Campaigns -> TouchRows] /\ touch[c] \in TouchRows
        /\ tx \in [Txs -> TxRows] /\ tx[x] \in TxRows /\ camp[c] \in CampaignRows
    BY <1>0, RowTypes DEF TypeInv, TypeOK
  <1>2. n \in Nat /\ m \in Nat
    BY <1>1 DEF TouchRows, TxRows
  <1>3. k \in Revisions
    BY <1>1 DEF Authorize, CampaignRows
  <1>4. touch' = [touch EXCEPT ![c] = r] /\ tx' = [tx EXCEPT ![x] = q]
    BY <1>0, <1>1 DEF Authorize
  <1> HIDE DEF n, m, k
  <1>5. /\ r \in TouchRows /\ r.state = "provider-pending" /\ r.tx = touch[c].tx
        /\ r.ordinal = touch[c].ordinal
    BY <1>1, <1>2 DEF TouchRows, TouchStates
  <1>6. q \in TxRows /\ q.state = "provider-pending" /\ q.ordinal = tx[x].ordinal
    BY <1>1, <1>2, <1>3 DEF TxRows, TxStates
  <1>7. q.entered = tx[x].entered
    BY <1>1 DEF TxRows
  <1> HIDE DEF r, q
  <1> QED BY <1>0, <1>1, <1>4, <1>5, <1>6, <1>7

LEMMA SeamWrites ==
  ASSUME TypeInv, NEW w \in Workers, EnterSeam(w)
  PROVE  LET x == run[w].x IN
         /\ x \in Txs /\ touch' = touch
         /\ \E q \in TxRows : /\ tx' = [tx EXCEPT ![x] = q] /\ q.state = tx[x].state
                              /\ q.ordinal = tx[x].ordinal /\ q.entered = TRUE
  <1> DEFINE x == run[w].x
             m == tx[x].rv + 1
             q == [tx[x] EXCEPT !.entered = TRUE, !.rv = m]
  <1>0. x \in Txs /\ touch' = touch
    BY DEF EnterSeam, At, TypeInv, Placed
  <1>1. tx \in [Txs -> TxRows] /\ tx[x] \in TxRows
    BY <1>0 DEF TypeInv, TypeOK
  <1>2. m \in Nat
    BY <1>1 DEF TxRows
  <1>3. tx' = [tx EXCEPT ![x] = q]
    BY <1>0, <1>1 DEF EnterSeam
  <1> HIDE DEF m
  <1>4. q \in TxRows /\ q.state = tx[x].state /\ q.ordinal = tx[x].ordinal
    BY <1>1, <1>2 DEF TxRows
  <1>5. q.entered = TRUE
    BY <1>1 DEF TxRows
  <1> HIDE DEF q
  <1> QED BY <1>0, <1>3, <1>4, <1>5

LEMMA ReleaseWrites ==
  ASSUME TypeInv, NEW x \in Txs, ReleaseUnsent(x)
  PROVE  LET c == Owner(x) IN
         \E r \in TouchRows, q \in TxRows :
           /\ touch' = [touch EXCEPT ![c] = r] /\ tx' = [tx EXCEPT ![x] = q]
           /\ r.state = "scheduled" /\ r.tx = 0 /\ r.ordinal = touch[c].ordinal /\ r.token = 0
           /\ r.rv = touch[c].rv + 1
           /\ q.state = "cancelled-before-provider" /\ q.ordinal = tx[x].ordinal
           /\ q.entered = tx[x].entered
  <1> DEFINE c == Owner(x)
             r == Unclaimed(c)
             q == [tx[x] EXCEPT !.state = "cancelled-before-provider", !.rv = tx[x].rv + 1]
  <1>1. /\ c \in Campaigns /\ touch \in [Campaigns -> TouchRows] /\ touch[c] \in TouchRows
        /\ tx \in [Txs -> TxRows] /\ tx[x] \in TxRows
    BY RowTypes DEF TypeInv, TypeOK
  <1>2. touch' = [touch EXCEPT ![c] = r] /\ tx' = [tx EXCEPT ![x] = q]
    BY <1>1 DEF ReleaseUnsent
  <1>3. q \in TxRows
    BY <1>1, TxUpdate DEF TxStates
  <1>4. q.state = "cancelled-before-provider" /\ q.ordinal = tx[x].ordinal
    BY <1>1 DEF TxRows
  <1>5. q.entered = tx[x].entered
    BY <1>1 DEF TxRows
  <1>6. r \in TouchRows
    BY <1>1, FreshTypes DEF TypeInv
  <1>7. /\ r.state = "scheduled" /\ r.tx = 0 /\ r.ordinal = touch[c].ordinal /\ r.token = 0
        /\ r.rv = touch[c].rv + 1
    BY <1>1 DEF Unclaimed, TouchRows
  <1> HIDE DEF r, q
  <1> QED BY <1>2, <1>3, <1>4, <1>5, <1>6, <1>7

LEMMA SettleWrites ==
  ASSUME TypeInv, NEW x \in Txs, NEW outcome \in Outcomes, NEW from, Settle(x, outcome, from)
  PROVE  LET c == Owner(x) IN
         \E r \in TouchRows, q \in TxRows :
           /\ touch' = [touch EXCEPT ![c] = r] /\ tx' = [tx EXCEPT ![x] = q]
           /\ q.state = outcome /\ q.ordinal = tx[x].ordinal /\ q.entered = tx[x].entered
           /\ \/ /\ r.state = outcome /\ r.tx = touch[c].tx /\ r.ordinal = touch[c].ordinal
                 /\ r.token = touch[c].token /\ r.rv = touch[c].rv + 1
              \/ /\ outcome = "accepted" /\ touch[c].ordinal < LastTouch
                 /\ r = FreshTouch(touch[c].ordinal + 1) /\ Advances(x, from)
  <1> DEFINE c == Owner(x)
             q == [tx[x] EXCEPT !.state = outcome, !.rv = tx[x].rv + 1]
             r == IF Advances(x, from) /\ outcome = "accepted" /\ touch[c].ordinal < LastTouch
                  THEN FreshTouch(touch[c].ordinal + 1)
                  ELSE [touch[c] EXCEPT !.state = outcome, !.rv = touch[c].rv + 1]
  <1>1. /\ c \in Campaigns /\ touch \in [Campaigns -> TouchRows] /\ touch[c] \in TouchRows
        /\ tx \in [Txs -> TxRows] /\ tx[x] \in TxRows
        /\ touch' \in [Campaigns -> TouchRows]
    BY RowTypes, SettleTypes DEF TypeInv, TypeOK
  <1>2. touch' = [touch EXCEPT ![c] = r] /\ tx' = [tx EXCEPT ![x] = q]
    BY <1>1 DEF Settle
  <1>3. q \in TxRows
    BY <1>1, TxUpdate DEF TxStates
  <1>4. q.state = outcome /\ q.ordinal = tx[x].ordinal
    BY <1>1 DEF TxRows
  <1>5. q.entered = tx[x].entered
    BY <1>1 DEF TxRows
  <1>6. r \in TouchRows
    <2>1. r = touch'[c]
      BY <1>1, <1>2
    <2> HIDE DEF r
    <2> QED BY <1>1, <2>1
  <1>7. \/ /\ r.state = outcome /\ r.tx = touch[c].tx /\ r.ordinal = touch[c].ordinal
           /\ r.token = touch[c].token /\ r.rv = touch[c].rv + 1
        \/ /\ outcome = "accepted" /\ touch[c].ordinal < LastTouch
           /\ r = FreshTouch(touch[c].ordinal + 1) /\ Advances(x, from)
    BY <1>1 DEF TouchRows
  <1> HIDE DEF r, q
  <1> QED BY <1>2, <1>3, <1>4, <1>5, <1>6, <1>7

(* An ended campaign stays as it ended: only Settle could move it, and the *)
(* states it moves from are not terminal (finalizeCimTransmission,         *)
(* reconcileCimTransmission, appendCimTerminalEvent).                      *)
LEMMA TerminalsStay ==
  ASSUME TypeInv, Next, NEW c \in Campaigns, camp[c].state \in Terminal
  PROVE  camp'[c].state = camp[c].state /\ touch'[c].ordinal = touch[c].ordinal
  <1>0. /\ camp \in [Campaigns -> CampaignRows] /\ touch \in [Campaigns -> TouchRows]
        /\ touch[c] \in TouchRows
    BY DEF TypeInv, TypeOK
  <1>1. ASSUME NEW x \in Txs, NEW outcome, NEW from, Settle(x, outcome, from),
               from \cap Terminal = {}
        PROVE  camp'[c].state = camp[c].state /\ touch'[c].ordinal = touch[c].ordinal
    <2>1. CASE Owner(x) = c
      <3>1. ~Advances(x, from)
        BY <1>1, <2>1 DEF Advances
      <3>2. camp' = camp /\ touch' = [touch EXCEPT ![c] = [touch[c] EXCEPT !.state = outcome,
                                                             !.rv = touch[c].rv + 1]]
        BY <1>0, <1>1, <2>1, <3>1 DEF Settle
      <3> QED BY <1>0, <3>2 DEF TouchRows
    <2>2. CASE Owner(x) # c
      <3>1. camp'[c] = camp[c] /\ touch'[c] = touch[c]
        BY <1>0, <1>1, <2>2 DEF Settle
      <3> QED BY <3>1
    <2> QED BY <2>1, <2>2
  <1>2. ASSUME NEW S, CancelWorkOf(S) PROVE touch'[c].ordinal = touch[c].ordinal
    BY <1>0, <1>2 DEF CancelWorkOf, TouchRows
  <1>3. \A d \in Campaigns : Unclaimed(d).ordinal = touch[d].ordinal
    BY DEF Unclaimed, TypeInv, TypeOK, TouchRows
  <1>4. ASSUME NEW next, NEW d \in Campaigns, EndCampaign(d, next)
        PROVE  camp'[c].state = camp[c].state /\ touch'[c].ordinal = touch[c].ordinal
    <2>1. c # d
      BY <1>4 DEF EndCampaign, CampaignLegal, CampaignStates, Terminal, Live
    <2> QED BY <1>0, <1>2, <1>4, <2>1 DEF EndCampaign
  <1>5. ASSUME NEW next, EndConversation(next)
        PROVE  camp'[c].state = camp[c].state /\ touch'[c].ordinal = touch[c].ordinal
    BY <1>0, <1>2, <1>5 DEF EndConversation
  <1>6. CASE \E w \in Workers : QuietStep(w)
    BY <1>6 DEF QuietStep, LookupFails, BeginSending, EndRun, Refused, Call, NotReached,
       HearAccepted, HearFailure, HearQuota, HearNothing, SearchFails, RecordFails, Crash,
       StartLookup
  <1>7. CASE \E w \in Workers : OutcomeStep(w)
    <2>1. Live \cap Terminal = {} /\ (Live \cup {"provider-ambiguous"}) \cap Terminal = {}
      BY DEF Live, Terminal
    <2>2. CASE \E x \in Txs, outcome \in Outcomes : Resolves(x, outcome)
      BY <1>1, <2>1, <2>2 DEF Resolves, Finalize, ReconcileAccepted
    <2>3. CASE UNCHANGED camp /\ \E x \in Txs : ReleaseUnsent(x)
      BY <1>0, <1>3, <2>3, RowTypes DEF ReleaseUnsent, TypeInv
    <2> QED BY <1>7, <2>2, <2>3, OutcomeRows
  <1>8. CASE \E w \in Workers : \/ Prepare(w) \/ Issue(w) \/ ReadGateContext(w) \/ Authorize(w)
                                \/ EnterSeam(w) \/ \E d \in Campaigns : Claim(w, d) \/ Renew(w, d)
    <2>1. UNCHANGED camp
      <3>1. CASE \E w \in Workers : Prepare(w) \/ Issue(w) \/ ReadGateContext(w)
        BY <3>1 DEF Prepare, Issue, ReadGateContext
      <3>2. CASE \E w \in Workers : Authorize(w) \/ EnterSeam(w)
        BY <3>2 DEF Authorize, EnterSeam
      <3>3. CASE \E w \in Workers, d \in Campaigns : Claim(w, d) \/ Renew(w, d)
        BY <3>3 DEF Claim, Renew
      <3> QED BY <1>8, <3>1, <3>2, <3>3
    <2>2. CASE \E w \in Workers : Prepare(w)
      BY <1>0, <2>1, <2>2, PrepareWrites
    <2>3. CASE \E w \in Workers : Authorize(w)
      BY <1>0, <2>1, <2>3, AuthorizeWrites
    <2>4. CASE \E w \in Workers, d \in Campaigns : Claim(w, d) \/ Renew(w, d)
      BY <1>0, <2>1, <2>4, ClaimWrites
    <2>5. CASE \E w \in Workers : Issue(w) \/ ReadGateContext(w) \/ EnterSeam(w)
      BY <2>5 DEF Issue, ReadGateContext, EnterSeam
    <2> QED BY <1>8, <2>1, <2>2, <2>3, <2>4, <2>5
  <1>9. CASE \E d \in Campaigns : Ended(d) \/ ClaimLapses(d)
    <2>1. CASE \E d \in Campaigns : Ended(d)
      BY <1>4, <2>1 DEF Ended, Expire, Stop, ReceiveMaterials, DemandAction
    <2>2. CASE \E d \in Campaigns : ClaimLapses(d)
      BY <1>0, <2>2 DEF ClaimLapses, TouchRows
    <2> QED BY <1>9, <2>1, <2>2
  <1>10. CASE \E x \in Txs : Accept(x) \/ Refuse(x)
    BY <1>10 DEF Accept, Refuse
  <1>11. CASE Replies
    BY <1>5, <1>11 DEF Replies, RecordReply, ApplyReply, SettleReply
  <1>12. CASE Switch
    BY <1>0, <1>3, <1>12 DEF Switch, ChainOff, FreePrepared, ChainOn, ReleasePrepared
  <1> QED BY <1>6, <1>7, <1>8, <1>9, <1>10, <1>11, <1>12, Steps

(* No late acceptance revives a campaign that ended, whatever is under way *)
(* when it ends and whichever run hears of it.                             *)
THEOREM EndsStay == Spec => EndsAreFinal
  <1>1. ASSUME TypeInv, [Next]_vars
        PROVE  [\A c \in Campaigns : camp[c].state \in Terminal =>
                   camp'[c].state = camp[c].state /\ touch'[c].ordinal = touch[c].ordinal]_vars
    BY <1>1, TerminalsStay
  <1> QED BY <1>1, TypeInit, TypeNext, PTL DEF Spec, EndsAreFinal

-----------------------------------------------------------------------------
(* The queue invariant, of one campaign's touch t and its generations T.   *)

\* A touch holds no transmission, or one whose state it shares.
Agrees(t, T) ==
  IF t.tx = 0 THEN t.state \in {"scheduled", "claimed", "cancelled-before-provider"}
  ELSE /\ t.state \in {"claimed", "provider-pending"} \cup Outcomes
       /\ T[t.tx].state = IF t.state = "claimed" THEN "prepared" ELSE t.state
       /\ T[t.tx].ordinal = t.ordinal
\* Every other generation was cancelled, or accepted for an earlier touch.
Behind(t, q) ==
  \/ q.state = "cancelled-before-provider" /\ q.ordinal <= t.ordinal
  \/ q.state = "accepted" /\ q.ordinal < t.ordinal
\* Generations are used up one after another, and the touch holds the last.
InOrder(t, T) == \A n \in 1 .. MaxTx : T[n].state # "none" =>
  /\ n = t.tx \/ Behind(t, T[n])
  /\ t.tx # 0 => n <= t.tx
  /\ \A m \in 1 .. MaxTx : m < n => T[m].state # "none"
\* Each earlier touch was accepted, in one generation.
AcceptedOnce(T) == \A m, n \in 1 .. MaxTx :
  T[m].state = "accepted" /\ T[n].state = "accepted" /\ T[m].ordinal = T[n].ordinal => m = n
AcceptedBefore(t, T) == \A k \in Nat : k < t.ordinal =>
  \E n \in 1 .. MaxTx : T[n].state = "accepted" /\ T[n].ordinal = k
QueueOK(t, T) ==
  Agrees(t, T) /\ InOrder(t, T) /\ AcceptedOnce(T) /\ AcceptedBefore(t, T)

Generations == [1 .. MaxTx -> TxRows]

LEMMA QueueTypes ==
  ASSUME NEW t \in TouchRows, NEW T \in Generations
  PROVE  /\ t.tx = 0 \/ t.tx \in 1 .. MaxTx
         /\ t.ordinal \in Nat /\ \A n \in 1 .. MaxTx : T[n].ordinal \in Nat
  <1>1. t.tx = 0 \/ t.tx \in 1 .. MaxTx
    BY CimAssumption DEF TouchRows
  <1>2. t.ordinal \in Nat
    BY CimAssumption DEF TouchRows
  <1>3. \A n \in 1 .. MaxTx : T[n].ordinal \in Nat
    BY CimAssumption DEF Generations, TxRows
  <1> QED BY <1>1, <1>2, <1>3

(* Only the states, ordinals and the held generation matter. *)
LEMMA QueueSame ==
  ASSUME NEW t \in TouchRows, NEW T \in Generations, QueueOK(t, T),
         NEW t2 \in TouchRows, NEW T2 \in Generations,
         t2.tx = t.tx, t2.ordinal = t.ordinal,
         t2.state = t.state \/ (t.tx = 0
           /\ t2.state \in {"scheduled", "claimed", "cancelled-before-provider"}),
         \A n \in 1 .. MaxTx : T2[n].state = T[n].state /\ T2[n].ordinal = T[n].ordinal
  PROVE  QueueOK(t2, T2)
  <1>1. t.tx = 0 \/ t.tx \in 1 .. MaxTx
    BY QueueTypes
  <1>2. Agrees(t2, T2)
    BY <1>1 DEF QueueOK, Agrees
  <1>3. InOrder(t2, T2)
    BY DEF QueueOK, InOrder, Behind
  <1>4. AcceptedOnce(T2)
    BY DEF QueueOK, AcceptedOnce
  <1>5. AcceptedBefore(t2, T2)
    BY DEF QueueOK, AcceptedBefore
  <1> QED BY <1>2, <1>3, <1>4, <1>5 DEF QueueOK

(* The generation a touch holds moves together with it. *)
LEMMA QueueMove ==
  ASSUME NEW t \in TouchRows, NEW T \in Generations, QueueOK(t, T), t.tx # 0,
         T[t.tx].state # "accepted",
         NEW t2 \in TouchRows, NEW q \in TxRows,
         t2.tx = t.tx, t2.ordinal = t.ordinal, q.ordinal = T[t.tx].ordinal,
         q.state = t2.state, t2.state \in {"provider-pending"} \cup Outcomes
  PROVE  QueueOK(t2, [T EXCEPT ![t.tx] = q])
  <1> DEFINE T2 == [T EXCEPT ![t.tx] = q]
  <1>1. t.tx \in 1 .. MaxTx /\ t.ordinal \in Nat /\ \A n \in 1 .. MaxTx : T[n].ordinal \in Nat
    BY QueueTypes
  <1>2. T2[t.tx] = q /\ \A n \in 1 .. MaxTx : n # t.tx => T2[n] = T[n]
    BY <1>1 DEF Generations
  <1>3. q.ordinal = t.ordinal /\ q.state # "none"
    BY DEF QueueOK, Agrees, Outcomes
  <1>4. T[t.tx].state # "none"
    BY DEF QueueOK, Agrees, Outcomes
  <1> HIDE DEF T2
  <1>5. Agrees(t2, T2)
    BY <1>1, <1>2, <1>3 DEF Agrees, Outcomes
  <1>6. InOrder(t2, T2)
    BY <1>1, <1>2, <1>4 DEF QueueOK, InOrder, Behind
  <1>7. \A n \in 1 .. MaxTx : n # t.tx /\ T[n].state = "accepted" => T[n].ordinal < t.ordinal
    BY <1>1 DEF QueueOK, InOrder, Behind
  <1>8. AcceptedOnce(T2)
    BY <1>1, <1>2, <1>3, <1>7 DEF QueueOK, AcceptedOnce
  <1>9. AcceptedBefore(t2, T2)
    BY <1>1, <1>2 DEF QueueOK, AcceptedBefore
  <1> QED BY <1>5, <1>6, <1>8, <1>9 DEF QueueOK, T2

(* It is released or cancelled, and the touch holds nothing any more. *)
LEMMA QueueRelease ==
  ASSUME NEW t \in TouchRows, NEW T \in Generations, QueueOK(t, T), t.tx # 0,
         T[t.tx].state \in {"prepared", "provider-pending"},
         NEW t2 \in TouchRows, NEW q \in TxRows,
         t2.tx = 0, t2.ordinal = t.ordinal, q.ordinal = T[t.tx].ordinal,
         q.state = "cancelled-before-provider",
         t2.state \in {"scheduled", "cancelled-before-provider"}
  PROVE  QueueOK(t2, [T EXCEPT ![t.tx] = q])
  <1> DEFINE T2 == [T EXCEPT ![t.tx] = q]
  <1>1. t.tx \in 1 .. MaxTx /\ t.ordinal \in Nat /\ \A n \in 1 .. MaxTx : T[n].ordinal \in Nat
    BY QueueTypes
  <1>2. T2[t.tx] = q /\ \A n \in 1 .. MaxTx : n # t.tx => T2[n] = T[n]
    BY <1>1 DEF Generations
  <1>3. q.ordinal = t.ordinal
    BY DEF QueueOK, Agrees
  <1> HIDE DEF T2
  <1>4. Agrees(t2, T2)
    BY DEF Agrees
  <1>5. InOrder(t2, T2)
    BY <1>1, <1>2, <1>3 DEF QueueOK, InOrder, Behind
  <1>6. AcceptedOnce(T2)
    BY <1>1, <1>2 DEF QueueOK, AcceptedOnce
  <1>7. AcceptedBefore(t2, T2)
    BY <1>1, <1>2 DEF QueueOK, AcceptedBefore
  <1> QED BY <1>4, <1>5, <1>6, <1>7 DEF QueueOK, T2

(* It is accepted, and the next touch is scheduled. *)
LEMMA QueueAdvance ==
  ASSUME NEW t \in TouchRows, NEW T \in Generations, QueueOK(t, T), t.tx # 0,
         T[t.tx].state \in {"provider-pending", "ambiguous"},
         NEW t2 \in TouchRows, NEW q \in TxRows,
         t2.tx = 0, t2.ordinal = t.ordinal + 1, t2.state = "scheduled",
         q.ordinal = T[t.tx].ordinal, q.state = "accepted"
  PROVE  QueueOK(t2, [T EXCEPT ![t.tx] = q])
  <1> DEFINE T2 == [T EXCEPT ![t.tx] = q]
  <1>1. t.tx \in 1 .. MaxTx /\ t.ordinal \in Nat /\ \A n \in 1 .. MaxTx : T[n].ordinal \in Nat
    BY QueueTypes
  <1>2. T2[t.tx] = q /\ \A n \in 1 .. MaxTx : n # t.tx => T2[n] = T[n]
    BY <1>1 DEF Generations
  <1>3. q.ordinal = t.ordinal
    BY DEF QueueOK, Agrees
  <1> HIDE DEF T2
  <1>4. Agrees(t2, T2)
    BY DEF Agrees
  <1>5. InOrder(t2, T2)
    BY <1>1, <1>2, <1>3 DEF QueueOK, InOrder, Behind
  <1>6. \A n \in 1 .. MaxTx : n # t.tx /\ T[n].state = "accepted" => T[n].ordinal < t.ordinal
    BY <1>1 DEF QueueOK, InOrder, Behind
  <1>7. AcceptedOnce(T2)
    BY <1>1, <1>2, <1>3, <1>6 DEF QueueOK, AcceptedOnce
  <1>8. AcceptedBefore(t2, T2)
    BY <1>1, <1>2, <1>3 DEF QueueOK, AcceptedBefore
  <1> QED BY <1>4, <1>5, <1>7, <1>8 DEF QueueOK, T2

(* A claimed touch takes the first unused generation. *)
LEMMA QueuePrepare ==
  ASSUME NEW t \in TouchRows, NEW T \in Generations, QueueOK(t, T), t.tx = 0,
         t.state = "claimed", NEW n \in 1 .. MaxTx, T[n].state = "none",
         \A m \in 1 .. MaxTx : m < n => T[m].state # "none",
         NEW t2 \in TouchRows, NEW q \in TxRows,
         t2.tx = n, t2.ordinal = t.ordinal, t2.state = "claimed",
         q.ordinal = t.ordinal, q.state = "prepared"
  PROVE  QueueOK(t2, [T EXCEPT ![n] = q])
  <1> DEFINE T2 == [T EXCEPT ![n] = q]
  <1>1. T2[n] = q /\ \A m \in 1 .. MaxTx : m # n => T2[m] = T[m]
    BY DEF Generations
  <1>2. n # 0 /\ n \in Nat /\ \A m \in 1 .. MaxTx : m \in Nat
    BY CimAssumption
  <1> HIDE DEF T2
  <1>3. Agrees(t2, T2)
    BY <1>1, <1>2 DEF Agrees
  <1>4. \A m \in 1 .. MaxTx : T[m].state # "none" => m < n
    BY <1>2 DEF QueueOK, InOrder
  <1>5. InOrder(t2, T2)
    <2> SUFFICES ASSUME NEW i \in 1 .. MaxTx, T2[i].state # "none"
                 PROVE  /\ i = n \/ Behind(t2, T2[i])
                        /\ i <= n
                        /\ \A m \in 1 .. MaxTx : m < i => T2[m].state # "none"
      BY DEF InOrder
    <2>1. CASE i = n
      BY <1>1, <1>2, <2>1
    <2>2. CASE i # n
      BY <1>1, <1>2, <1>4, <2>2 DEF QueueOK, InOrder, Behind
    <2> QED BY <2>1, <2>2
  <1>6. AcceptedOnce(T2)
    BY <1>1 DEF QueueOK, AcceptedOnce
  <1>7. AcceptedBefore(t2, T2)
    BY <1>1 DEF QueueOK, AcceptedBefore
  <1> QED BY <1>3, <1>5, <1>6, <1>7 DEF QueueOK, T2

\* A run that claimed the touch, and whose claim n it still is, has the first unused generation.
ClaimOK(s, n, t, T) ==
  /\ s.token > 0 /\ s.ordinal <= t.ordinal
  /\ s.ordinal = t.ordinal => s.token <= t.rv
  /\ t.ordinal = s.ordinal /\ t.token = s.token /\ t.state = "claimed" /\ t.tx = 0 =>
       T[n].state = "none" /\ \A m \in 1 .. MaxTx : m < n => T[m].state # "none"

(* A claim stays good while the touch is the same, and is lost for good    *)
(* when the touch is claimed again, prepared, released or advanced.        *)
LEMMA ClaimStays ==
  ASSUME NEW s \in Snaps, NEW n \in 1 .. MaxTx, NEW t \in TouchRows, NEW t2 \in TouchRows,
         NEW T, NEW T2, ClaimOK(s, n, t, T),
         t2.ordinal > t.ordinal \/ (t2.ordinal = t.ordinal /\ t2.rv >= t.rv),
         \/ t2.ordinal > t.ordinal \/ t2.tx # 0 \/ t2.token = 0
              \/ t2.state # "claimed" \/ t2.token = t.rv + 1
         \/ /\ t2.token = t.token /\ t2.state = t.state /\ t2.tx = t.tx
            /\ \A m \in 1 .. MaxTx : T2[m].state = "none" <=> T[m].state = "none"
  PROVE  ClaimOK(s, n, t2, T2)
  <1>1. /\ t.ordinal \in Nat /\ t2.ordinal \in Nat /\ t.rv \in Nat /\ t2.rv \in Nat
        /\ t.token \in Nat /\ t2.token \in Nat
    BY CimAssumption DEF TouchRows
  <1>2. s.token \in Nat /\ s.ordinal \in Nat
    BY CimAssumption DEF Snaps
  <1>3. /\ s.token > 0 /\ s.ordinal <= t2.ordinal
        /\ s.ordinal = t2.ordinal => s.token <= t2.rv
    BY <1>1, <1>2 DEF ClaimOK
  <1>4. ASSUME t2.ordinal = s.ordinal, t2.token = s.token, t2.state = "claimed", t2.tx = 0
        PROVE  T2[n].state = "none" /\ \A m \in 1 .. MaxTx : m < n => T2[m].state # "none"
    <2>1. t2.ordinal = t.ordinal /\ t2.token # t.rv + 1 /\ t2.token # 0
      BY <1>1, <1>2, <1>4 DEF ClaimOK
    <2>2. /\ t2.token = t.token /\ t2.state = t.state /\ t2.tx = t.tx
          /\ \A m \in 1 .. MaxTx : T2[m].state = "none" <=> T[m].state = "none"
      BY <1>1, <1>2, <1>4, <2>1
    <2>3. T[n].state = "none" /\ \A m \in 1 .. MaxTx : m < n => T[m].state # "none"
      BY <1>4, <2>1, <2>2 DEF ClaimOK
    <2> QED BY <2>2, <2>3
  <1> QED BY <1>3, <1>4 DEF ClaimOK

GenerationsOf(c) == [n \in 1 .. MaxTx |-> tx[<<c, n>>]]
QueueInv == \A c \in Campaigns : QueueOK(touch[c], GenerationsOf(c))
ClaimHolds(w) == LET c == Owner(run[w].x) IN
  ClaimOK(run[w].snap, run[w].x[2], touch[c], GenerationsOf(c))
ClaimInv == \A w \in Workers : run[w].pc = "claimed" => ClaimHolds(w)

(* A step that writes one transmission writes one generation. *)
LEMMA GenerationsOfTypes ==
  ASSUME TypeOK
  PROVE  /\ \A c \in Campaigns : GenerationsOf(c) \in Generations
         /\ \A x \in Txs : GenerationsOf(Owner(x))[x[2]] = tx[x]
         /\ tx' = tx => \A c \in Campaigns : GenerationsOf(c)' = GenerationsOf(c)
         /\ \A x \in Txs, q \in TxRows : tx' = [tx EXCEPT ![x] = q] =>
              /\ GenerationsOf(Owner(x))' = [GenerationsOf(Owner(x)) EXCEPT ![x[2]] = q]
              /\ \A c \in Campaigns : c # Owner(x) => GenerationsOf(c)' = GenerationsOf(c)
  <1>0. tx \in [Txs -> TxRows] /\ \A c \in Campaigns, n \in 1 .. MaxTx : <<c, n>> \in Txs
    BY RowTypes DEF TypeOK, Txs
  <1>1. \A c \in Campaigns : GenerationsOf(c) \in Generations
    BY <1>0 DEF GenerationsOf, Generations
  <1>2. \A x \in Txs : GenerationsOf(Owner(x))[x[2]] = tx[x]
    BY RowTypes DEF GenerationsOf
  <1>3. tx' = tx => \A c \in Campaigns : GenerationsOf(c)' = GenerationsOf(c)
    BY DEF GenerationsOf
  <1>4. ASSUME NEW x \in Txs, NEW q \in TxRows, tx' = [tx EXCEPT ![x] = q]
        PROVE  /\ GenerationsOf(Owner(x))' = [GenerationsOf(Owner(x)) EXCEPT ![x[2]] = q]
               /\ \A c \in Campaigns : c # Owner(x) => GenerationsOf(c)' = GenerationsOf(c)
    <2>1. x = <<Owner(x), x[2]>> /\ Owner(x) \in Campaigns /\ x[2] \in 1 .. MaxTx
      BY RowTypes
    <2> DEFINE o == Owner(x)
               k == x[2]
    <2> HIDE DEF o, k
    <2>2. \A c \in Campaigns, n \in 1 .. MaxTx :
            tx'[<<c, n>>] = IF c = o /\ n = k THEN q ELSE tx[<<c, n>>]
      <3> SUFFICES ASSUME NEW c \in Campaigns, NEW n \in 1 .. MaxTx
                   PROVE  tx'[<<c, n>>] = IF c = o /\ n = k THEN q ELSE tx[<<c, n>>]
        OBVIOUS
      <3>1. x = <<o, k>>
        BY <2>1 DEF o, k
      <3>2. <<c, n>> = x <=> c = o /\ n = k
        BY <3>1
      <3>3. <<c, n>> \in Txs
        BY <1>0
      <3> DEFINE y == <<c, n>>
      <3>4. tx'[y] = IF y = x THEN q ELSE tx[y]
        BY <1>0, <1>4, <3>3
      <3> QED BY <3>2, <3>4
    <2>3. GenerationsOf(o)' = [GenerationsOf(o) EXCEPT ![k] = q]
      BY <2>1, <2>2 DEF GenerationsOf, o, k
    <2>4. \A c \in Campaigns : c # o => GenerationsOf(c)' = GenerationsOf(c)
      BY <2>2 DEF GenerationsOf
    <2> QED BY <2>3, <2>4 DEF o, k
  <1> QED BY <1>1, <1>2, <1>3, <1>4

(* A transmission that is prepared, under way or decided against is held   *)
(* by its campaign's touch.                                                *)
LEMMA OpenIsHeld ==
  ASSUME TypeOK, QueueInv, NEW x \in Txs,
         tx[x].state \notin {"none", "cancelled-before-provider", "accepted"}
  PROVE  LET t == touch[Owner(x)] IN
         /\ t.tx = x[2] /\ t.tx # 0 /\ tx[x].ordinal = t.ordinal
         /\ tx[x].state = IF t.state = "claimed" THEN "prepared" ELSE t.state
  <1> DEFINE c == Owner(x)
             T == GenerationsOf(c)
  <1>1. c \in Campaigns /\ x[2] \in 1 .. MaxTx /\ T[x[2]] = tx[x] /\ QueueOK(touch[c], T)
    BY RowTypes, GenerationsOfTypes DEF QueueInv
  <1>2. x[2] # 0
    BY <1>1, CimAssumption
  <1> HIDE DEF T
  <1>3. touch[c].tx = x[2]
    BY <1>1 DEF QueueOK, InOrder, Behind
  <1> QED BY <1>1, <1>2, <1>3 DEF QueueOK, Agrees

(* Counting the used generations finds the first unused one.               *)
LEMMA NextIsFirstUnused ==
  ASSUME TypeOK, QueueInv, NEW c \in Campaigns, NextGeneration(c) \in 1 .. MaxTx
  PROVE  LET n == NextGeneration(c) T == GenerationsOf(c) IN
         T[n].state = "none" /\ \A m \in 1 .. MaxTx : m < n => T[m].state # "none"
  <1> DEFINE T == GenerationsOf(c)
             U == {n \in 1 .. MaxTx : T[n].state # "none"}
             g == NextGeneration(c)
  <1>1. U = {n \in 1 .. MaxTx : tx[<<c, n>>].state # "none"}
    BY DEF GenerationsOf
  <1>2. g = 1 + Cardinality(U)
    BY <1>1 DEF NextGeneration
  <1>3. \A n \in U, m \in 1 .. MaxTx : m < n => m \in U
    BY DEF QueueInv, QueueOK, InOrder
  <1>4. IsFiniteSet(1 .. MaxTx) /\ MaxTx \in Nat
    BY FS_Interval, CimAssumption
  <1>5. IsFiniteSet(U) /\ Cardinality(U) \in Nat
    BY <1>4, FS_Subset, FS_CardinalityType
  <1> HIDE DEF T, U, g
  <1>6. U \subseteq 1 .. MaxTx /\ g \in 1 .. MaxTx
    BY DEF U, g
  <1>7. g \notin U
    <2> SUFFICES ASSUME g \in U PROVE FALSE
      OBVIOUS
    <2>1. 1 .. g \subseteq U
      <3> SUFFICES ASSUME NEW k \in 1 .. g PROVE k \in U
        OBVIOUS
      <3>1. k = g \/ (k < g /\ k \in 1 .. MaxTx)
        BY <1>4, <1>6
      <3> QED BY <1>3, <3>1
    <2>2. Cardinality(1 .. g) = g
      <3>1. 1 \in Int /\ g \in Int /\ ~(1 > g)
        BY <1>6
      <3>2. Cardinality(1 .. g) = g - 1 + 1
        BY <3>1, FS_Interval
      <3> QED BY <3>1, <3>2
    <2>3. Cardinality(1 .. g) <= Cardinality(U)
      BY <1>5, <2>1, FS_Subset
    <2> QED BY <1>2, <1>5, <1>6, <2>2, <2>3
  <1>8. \A m \in 1 .. MaxTx : m < g => m \in U
    <2> SUFFICES ASSUME NEW m \in 1 .. MaxTx, m < g, m \notin U PROVE FALSE
      OBVIOUS
    <2>1. U \subseteq 1 .. m - 1
      BY <1>3, <1>6
    <2>2. IsFiniteSet(1 .. m - 1) /\ Cardinality(1 .. m - 1) = m - 1
      <3> DEFINE p == m - 1
      <3>1. 1 \in Int /\ p \in Nat
        OBVIOUS
      <3> HIDE DEF p
      <3>2. p \in Int
        BY <3>1
      <3>3. IsFiniteSet(1 .. p) /\ Cardinality(1 .. p) = IF 1 > p THEN 0 ELSE p - 1 + 1
        BY <3>1, <3>2, FS_Interval
      <3>4. IsFiniteSet(1 .. p) /\ Cardinality(1 .. p) = p
        BY <3>1, <3>3
      <3> QED BY <3>4 DEF p
    <2>3. Cardinality(U) <= m - 1
      BY <2>1, <2>2, FS_Subset
    <2> QED BY <1>2, <1>5, <1>6, <2>3
  <1>9. T[g].state = "none" /\ \A m \in 1 .. MaxTx : m < g => T[m].state # "none"
    BY <1>6, <1>7, <1>8 DEF U
  <1> QED BY <1>9 DEF T, g

(* What a step may do to the touch of a campaign as its claimers see it.   *)
TouchMoves(c) ==
  LET t == touch[c] t2 == touch'[c] IN
  /\ t2.ordinal > t.ordinal \/ (t2.ordinal = t.ordinal /\ t2.rv >= t.rv)
  /\ \/ t2.ordinal > t.ordinal \/ t2.tx # 0 \/ t2.token = 0
          \/ t2.state # "claimed" \/ t2.token = t.rv + 1
     \/ /\ t2.token = t.token /\ t2.state = t.state /\ t2.tx = t.tx
        /\ \A m \in 1 .. MaxTx :
             GenerationsOf(c)'[m].state = "none" <=> GenerationsOf(c)[m].state = "none"

LEMMA ClaimsStay ==
  ASSUME TypeInv, TypeInv', ClaimInv, \A c \in Campaigns : TouchMoves(c), NEW v \in Workers,
         run'[v] = run[v], run[v].pc = "claimed"
  PROVE  ClaimHolds(v)'
  <1> DEFINE c == Owner(run[v].x)
             n == run[v].x[2]
             s == run[v].snap
  <1>1. run[v].x \in Txs /\ run[v] \in Runs
    BY DEF TypeInv, TypeOK, Placed
  <1>2. c \in Campaigns /\ n \in 1 .. MaxTx /\ s \in Snaps
    BY <1>1, RowTypes DEF TypeInv, Runs
  <1>3. touch[c] \in TouchRows /\ touch'[c] \in TouchRows
    BY <1>2 DEF TypeInv, TypeOK
  <1>4. ClaimOK(s, n, touch[c], GenerationsOf(c)) /\ TouchMoves(c)
    BY <1>2 DEF ClaimInv, ClaimHolds
  <1> DEFINE t == touch[c]
             t2 == touch'[c]
             T == GenerationsOf(c)
             T2 == GenerationsOf(c)'
  <1>5. /\ t2.ordinal > t.ordinal \/ (t2.ordinal = t.ordinal /\ t2.rv >= t.rv)
        /\ \/ t2.ordinal > t.ordinal \/ t2.tx # 0 \/ t2.token = 0
                \/ t2.state # "claimed" \/ t2.token = t.rv + 1
           \/ /\ t2.token = t.token /\ t2.state = t.state /\ t2.tx = t.tx
              /\ \A m \in 1 .. MaxTx : T2[m].state = "none" <=> T[m].state = "none"
    BY <1>4 DEF TouchMoves
  <1>6. ClaimOK(s, n, t, T) /\ t \in TouchRows /\ t2 \in TouchRows
    BY <1>3, <1>4
  <1> HIDE DEF t, t2, T, T2, n, s
  <1>7. ClaimOK(s, n, t2, T2)
    BY <1>2, <1>5, <1>6, ClaimStays
  <1> QED BY <1>7 DEF t2, T2, n, s, ClaimHolds

QueueStep == QueueInv' /\ \A c \in Campaigns : TouchMoves(c)

LEMMA QueueUnchanged ==
  ASSUME TypeInv, QueueInv, NEW c \in Campaigns, touch'[c] = touch[c],
         \A n \in 1 .. MaxTx : /\ GenerationsOf(c)'[n] \in TxRows
                               /\ GenerationsOf(c)'[n].state = GenerationsOf(c)[n].state
                               /\ GenerationsOf(c)'[n].ordinal = GenerationsOf(c)[n].ordinal
  PROVE  QueueOK(touch'[c], GenerationsOf(c)') /\ TouchMoves(c)
  <1>1. touch[c] \in TouchRows /\ touch'[c] \in TouchRows /\ GenerationsOf(c) \in Generations
    BY GenerationsOfTypes DEF TypeInv, TypeOK
  <1> DEFINE t == touch[c]
             t2 == touch'[c]
             T == GenerationsOf(c)
             T2 == GenerationsOf(c)'
  <1>2. T2 \in Generations
    BY DEF GenerationsOf, Generations
  <1>3. /\ t \in TouchRows /\ t2 \in TouchRows /\ T \in Generations /\ t2 = t /\ QueueOK(t, T)
        /\ \A n \in 1 .. MaxTx : T2[n].state = T[n].state /\ T2[n].ordinal = T[n].ordinal
    BY <1>1 DEF QueueInv
  <1>4. TouchMoves(c)
    <2>1. touch[c].rv \in Nat /\ touch[c].ordinal \in Nat
      BY <1>1, CimAssumption DEF TouchRows
    <2> QED BY <2>1 DEF TouchMoves
  <1> HIDE DEF t, t2, T, T2
  <1>5. QueueOK(t2, T2)
    BY <1>2, <1>3, QueueSame
  <1> QED BY <1>4, <1>5 DEF t2, T2

(* A step that writes one campaign's rows. *)
LEMMA QueueOne ==
  ASSUME TypeInv, QueueInv, NEW c \in Campaigns, NEW r \in TouchRows,
         touch' = [touch EXCEPT ![c] = r],
         \A d \in Campaigns : d # c => GenerationsOf(d)' = GenerationsOf(d),
         QueueOK(r, GenerationsOf(c)'), TouchMoves(c)
  PROVE  QueueStep
  <1>1. touch \in [Campaigns -> TouchRows]
    BY DEF TypeInv, TypeOK
  <1>2. \A d \in Campaigns : GenerationsOf(d) \in Generations
    BY GenerationsOfTypes DEF TypeInv
  <1>3. touch'[c] = r /\ \A d \in Campaigns : d # c => touch'[d] = touch[d]
    BY <1>1
  <1>4. ASSUME NEW d \in Campaigns, d # c
        PROVE  QueueOK(touch'[d], GenerationsOf(d)') /\ TouchMoves(d)
    BY <1>2, <1>3, <1>4, QueueUnchanged DEF Generations
  <1> QED BY <1>3, <1>4 DEF QueueStep, QueueInv

(* The same for a step that writes one transmission of the campaign.       *)
LEMMA QueueBoth ==
  ASSUME TypeInv, QueueInv, NEW x \in Txs, NEW q \in TxRows, NEW r \in TouchRows,
         tx' = [tx EXCEPT ![x] = q], touch' = [touch EXCEPT ![Owner(x)] = r],
         QueueOK(r, [GenerationsOf(Owner(x)) EXCEPT ![x[2]] = q]), TouchMoves(Owner(x))
  PROVE  QueueStep
  <1>1. Owner(x) \in Campaigns
    BY RowTypes DEF TypeInv
  <1>2. /\ GenerationsOf(Owner(x))' = [GenerationsOf(Owner(x)) EXCEPT ![x[2]] = q]
        /\ \A c \in Campaigns : c # Owner(x) => GenerationsOf(c)' = GenerationsOf(c)
    BY GenerationsOfTypes DEF TypeInv
  <1> QED BY <1>1, <1>2, QueueOne

LEMMA QueueQuiet ==
  ASSUME TypeInv, QueueInv, touch' = touch,
         \/ tx' = tx
         \/ \E x \in Txs, q \in TxRows : /\ tx' = [tx EXCEPT ![x] = q] /\ q.state = tx[x].state
                                         /\ q.ordinal = tx[x].ordinal
  PROVE  QueueStep
  <1>0. tx \in [Txs -> TxRows] /\ \A c \in Campaigns, n \in 1 .. MaxTx : <<c, n>> \in Txs
    BY DEF TypeInv, TypeOK, Txs
  <1>1. \A y \in Txs : tx'[y] \in TxRows /\ tx'[y].state = tx[y].state
                        /\ tx'[y].ordinal = tx[y].ordinal
    BY <1>0
  <1>2. ASSUME NEW c \in Campaigns, NEW n \in 1 .. MaxTx
        PROVE  /\ GenerationsOf(c)'[n] \in TxRows
               /\ GenerationsOf(c)'[n].state = GenerationsOf(c)[n].state
               /\ GenerationsOf(c)'[n].ordinal = GenerationsOf(c)[n].ordinal
    BY <1>0, <1>1 DEF GenerationsOf
  <1> QED BY <1>2, QueueUnchanged DEF QueueStep, QueueInv

LEMMA QueueClaim ==
  ASSUME TypeInv, QueueInv, NEW c \in Campaigns,
         (\E w \in Workers : Claim(w, c) \/ Renew(w, c)) \/ ClaimLapses(c)
  PROVE  QueueStep
  <1>0. /\ touch[c] \in TouchRows /\ GenerationsOf(c) \in Generations
        /\ QueueOK(touch[c], GenerationsOf(c)) /\ touch \in [Campaigns -> TouchRows]
    BY GenerationsOfTypes DEF TypeInv, TypeOK, QueueInv
  <1>1. PICK r \in TouchRows :
          /\ touch' = [touch EXCEPT ![c] = r] /\ tx' = tx
          /\ r.tx = touch[c].tx /\ r.ordinal = touch[c].ordinal
          /\ r.state = touch[c].state \/ (touch[c].tx = 0 /\ r.state = "claimed")
          /\ \/ r.token = touch[c].rv + 1 /\ r.rv = touch[c].rv + 1
             \/ r.token = touch[c].token /\ r.rv = touch[c].rv /\ r.state = touch[c].state
    <2>1. CASE \E w \in Workers : Claim(w, c)
      <3>1. touch[c].tx = 0
        BY <2>1 DEF Claim
      <3> QED BY <2>1, <3>1, ClaimWrites
    <2>2. CASE \E w \in Workers : Renew(w, c)
      <3>1. touch[c].state = "claimed"
        BY <2>2 DEF Renew
      <3> QED BY <2>2, <3>1, ClaimWrites
    <2>3. CASE ClaimLapses(c)
      BY <2>3, LapseWrites
    <2> QED BY <2>1, <2>2, <2>3
  <1>2. \A d \in Campaigns : GenerationsOf(d)' = GenerationsOf(d)
    BY <1>1, GenerationsOfTypes DEF TypeInv
  <1>3. QueueOK(r, GenerationsOf(c))
    BY <1>0, <1>1, QueueSame
  <1>4. TouchMoves(c)
    <2>1. touch[c].rv \in Nat /\ touch[c].ordinal \in Nat /\ touch'[c] = r
      BY <1>0, <1>1, CimAssumption DEF TouchRows
    <2> QED BY <1>1, <1>2, <2>1 DEF TouchMoves
  <1> QED BY <1>1, <1>2, <1>3, <1>4, QueueOne

LEMMA QueuePrepares ==
  ASSUME TypeInv, QueueInv, ClaimInv, NEW w \in Workers, Prepare(w)
  PROVE  QueueStep
  <1> DEFINE x == run[w].x
             c == Owner(x)
             t == touch[c]
             T == GenerationsOf(c)
  <1>1. x \in Txs /\ c \in Campaigns /\ x[2] \in 1 .. MaxTx
    BY PrepareWrites
  <1>2. PICK r \in TouchRows, q \in TxRows :
          /\ touch' = [touch EXCEPT ![c] = r] /\ tx' = [tx EXCEPT ![x] = q]
          /\ r.state = touch[c].state /\ r.tx = x[2] /\ r.ordinal = touch[c].ordinal
          /\ r.token = touch[c].token /\ r.rv = touch[c].rv + 1
          /\ q.state = "prepared" /\ q.ordinal = touch[c].ordinal /\ q.entered = FALSE
    BY PrepareWrites
  <1>3. /\ run[w].pc = "claimed" /\ t.state = "claimed" /\ t.token = run[w].snap.token
        /\ t.ordinal = run[w].snap.ordinal /\ t.tx = 0
    BY DEF Prepare, At, Mine
  <1>4. T[x[2]].state = "none" /\ \A m \in 1 .. MaxTx : m < x[2] => T[m].state # "none"
    BY <1>3 DEF ClaimInv, ClaimHolds, ClaimOK
  <1>5. t \in TouchRows /\ T \in Generations /\ QueueOK(t, T) /\ touch \in [Campaigns -> TouchRows]
    BY <1>1, GenerationsOfTypes DEF TypeInv, TypeOK, QueueInv
  <1>6. QueueOK(r, [T EXCEPT ![x[2]] = q])
    <2> HIDE DEF T, t
    <2> DEFINE n == x[2]
    <2>1. /\ n \in 1 .. MaxTx /\ T[n].state = "none" /\ t.state = "claimed" /\ t.tx = 0
          /\ \A m \in 1 .. MaxTx : m < n => T[m].state # "none"
          /\ r.tx = n /\ r.ordinal = t.ordinal /\ r.state = "claimed"
          /\ q.ordinal = t.ordinal /\ q.state = "prepared"
      BY <1>1, <1>2, <1>3, <1>4 DEF t
    <2> HIDE DEF n
    <2>2. QueueOK(r, [T EXCEPT ![n] = q])
      BY <1>5, <2>1, QueuePrepare
    <2> QED BY <2>2 DEF n
  <1>7. TouchMoves(c)
    <2>1. touch[c].rv \in Nat /\ touch[c].ordinal \in Nat /\ touch'[c] = r /\ r.tx # 0
      BY <1>1, <1>2, <1>5, CimAssumption DEF TouchRows
    <2> QED BY <1>2, <2>1 DEF TouchMoves
  <1> QED BY <1>1, <1>2, <1>6, <1>7, QueueBoth

LEMMA QueueAuthorize ==
  ASSUME TypeInv, QueueInv, NEW w \in Workers, Authorize(w)
  PROVE  QueueStep
  <1> DEFINE x == run[w].x
             c == Owner(x)
             t == touch[c]
             T == GenerationsOf(c)
             n == t.tx
  <1>1. x \in Txs /\ c \in Campaigns /\ x[2] \in 1 .. MaxTx
    BY AuthorizeWrites
  <1>2. PICK r \in TouchRows, q \in TxRows :
          /\ touch' = [touch EXCEPT ![c] = r] /\ tx' = [tx EXCEPT ![x] = q]
          /\ r.state = "provider-pending" /\ r.tx = touch[c].tx
          /\ r.ordinal = touch[c].ordinal
          /\ q.state = "provider-pending" /\ q.ordinal = tx[x].ordinal
    BY AuthorizeWrites
  <1>3. /\ T \in Generations /\ QueueOK(t, T) /\ t \in TouchRows
        /\ touch \in [Campaigns -> TouchRows] /\ T[x[2]] = tx[x]
    BY <1>1, GenerationsOfTypes DEF TypeInv, TypeOK, QueueInv
  <1>4. tx[x].state = "prepared"
    BY DEF Authorize
  <1>5. n = x[2] /\ n # 0
    BY <1>1, <1>4, OpenIsHeld DEF TypeInv
  <1>6. TouchMoves(c)
    <2>1. touch[c].rv \in Nat /\ touch[c].ordinal \in Nat /\ touch'[c].tx # 0
          /\ touch'[c].ordinal = touch[c].ordinal
      BY <1>1, <1>2, <1>3, <1>5, CimAssumption DEF TouchRows
    <2>2. touch'[c].rv = touch[c].rv + 1
      BY <1>1, <1>3 DEF Authorize, TouchRows
    <2> QED BY <2>1, <2>2 DEF TouchMoves
  <1> HIDE DEF t, T
  <1>7. QueueOK(r, [T EXCEPT ![t.tx] = q])
    <2>1. T[t.tx].state # "accepted" /\ q.ordinal = T[t.tx].ordinal /\ t.tx # 0
          /\ r.tx = t.tx /\ r.ordinal = t.ordinal
      BY <1>2, <1>3, <1>4, <1>5 DEF t
    <2> QED BY <1>2, <1>3, <2>1, QueueMove
  <1>8. QueueOK(r, [GenerationsOf(Owner(x)) EXCEPT ![x[2]] = q])
    BY <1>5, <1>7 DEF T
  <1> QED BY <1>1, <1>2, <1>6, <1>8, QueueBoth

LEMMA QueueReleases ==
  ASSUME TypeInv, QueueInv, NEW x \in Txs, tx[x].state \in {"prepared", "provider-pending"},
         ReleaseUnsent(x)
  PROVE  QueueStep
  <1> DEFINE c == Owner(x)
             t == touch[c]
             T == GenerationsOf(c)
             n == t.tx
  <1>1. c \in Campaigns /\ x[2] \in 1 .. MaxTx
    BY RowTypes DEF TypeInv
  <1>2. PICK r \in TouchRows, q \in TxRows :
           /\ touch' = [touch EXCEPT ![c] = r] /\ tx' = [tx EXCEPT ![x] = q]
           /\ r.state = "scheduled" /\ r.tx = 0 /\ r.ordinal = touch[c].ordinal /\ r.token = 0
           /\ r.rv = touch[c].rv + 1
           /\ q.state = "cancelled-before-provider" /\ q.ordinal = tx[x].ordinal
    BY ReleaseWrites
  <1>3. /\ T \in Generations /\ QueueOK(t, T) /\ t \in TouchRows
        /\ touch \in [Campaigns -> TouchRows] /\ T[x[2]] = tx[x]
    BY <1>1, GenerationsOfTypes DEF TypeInv, TypeOK, QueueInv
  <1>4. n = x[2] /\ n # 0
    BY OpenIsHeld DEF TypeInv
  <1>5. TouchMoves(c)
    <2>1. touch[c].rv \in Nat /\ touch[c].ordinal \in Nat /\ touch'[c] = r
      BY <1>1, <1>2, <1>3, CimAssumption DEF TouchRows
    <2> QED BY <1>2, <2>1 DEF TouchMoves
  <1> HIDE DEF t, T
  <1>6. QueueOK(r, [T EXCEPT ![t.tx] = q])
    <2>1. T[t.tx].state \in {"prepared", "provider-pending"} /\ q.ordinal = T[t.tx].ordinal
          /\ t.tx # 0 /\ r.ordinal = t.ordinal
      BY <1>2, <1>3, <1>4 DEF t
    <2> QED BY <1>2, <1>3, <2>1, QueueRelease
  <1>7. QueueOK(r, [GenerationsOf(Owner(x)) EXCEPT ![x[2]] = q])
    BY <1>4, <1>6 DEF T
  <1> QED BY <1>1, <1>2, <1>5, <1>7, QueueBoth

LEMMA QueueSettles ==
  ASSUME TypeInv, QueueInv, NEW x \in Txs, NEW outcome \in Outcomes, NEW from,
         tx[x].state \in {"provider-pending", "ambiguous"}, Settle(x, outcome, from)
  PROVE  QueueStep
  <1> DEFINE c == Owner(x)
             t == touch[c]
             T == GenerationsOf(c)
             n == t.tx
  <1>1. c \in Campaigns /\ x[2] \in 1 .. MaxTx
    BY RowTypes DEF TypeInv
  <1>2. PICK r \in TouchRows, q \in TxRows :
           /\ touch' = [touch EXCEPT ![c] = r] /\ tx' = [tx EXCEPT ![x] = q]
           /\ q.state = outcome /\ q.ordinal = tx[x].ordinal
           /\ \/ /\ r.state = outcome /\ r.tx = touch[c].tx /\ r.ordinal = touch[c].ordinal
                 /\ r.rv = touch[c].rv + 1
              \/ /\ outcome = "accepted" /\ touch[c].ordinal < LastTouch
                 /\ r = FreshTouch(touch[c].ordinal + 1)
    BY SettleWrites
  <1>3. /\ T \in Generations /\ QueueOK(t, T) /\ t \in TouchRows
        /\ touch \in [Campaigns -> TouchRows] /\ T[x[2]] = tx[x]
    BY <1>1, GenerationsOfTypes DEF TypeInv, TypeOK, QueueInv
  <1>4. n = x[2] /\ n # 0
    BY OpenIsHeld DEF TypeInv
  <1>5. touch[c].rv \in Nat /\ touch[c].ordinal \in Nat /\ touch'[c] = r
    BY <1>1, <1>2, <1>3, CimAssumption DEF TouchRows
  <1>6. CASE r.state = outcome /\ r.tx = touch[c].tx /\ r.ordinal = touch[c].ordinal
               /\ r.rv = touch[c].rv + 1
    <2>1. TouchMoves(c)
      BY <1>4, <1>5, <1>6 DEF TouchMoves
    <2> HIDE DEF t, T
    <2>2. QueueOK(r, [T EXCEPT ![t.tx] = q])
      <3>1. T[t.tx].state # "accepted" /\ q.ordinal = T[t.tx].ordinal /\ t.tx # 0
            /\ r.tx = t.tx /\ r.ordinal = t.ordinal /\ r.state \in {"provider-pending"} \cup Outcomes
        BY <1>2, <1>3, <1>4, <1>6 DEF t
      <3> QED BY <1>2, <1>3, <1>6, <3>1, QueueMove
    <2>3. QueueOK(r, [GenerationsOf(Owner(x)) EXCEPT ![x[2]] = q])
      BY <1>4, <2>2 DEF T
    <2> QED BY <1>1, <1>2, <2>1, <2>3, QueueBoth
  <1>7. CASE outcome = "accepted" /\ r = FreshTouch(touch[c].ordinal + 1)
    <2>1. r.tx = 0 /\ r.ordinal = touch[c].ordinal + 1 /\ r.state = "scheduled"
      BY <1>7 DEF FreshTouch
    <2>2. TouchMoves(c)
      BY <1>5, <2>1 DEF TouchMoves
    <2> HIDE DEF t, T
    <2>3. QueueOK(r, [T EXCEPT ![t.tx] = q])
      <3>1. T[t.tx].state \in {"provider-pending", "ambiguous"} /\ q.ordinal = T[t.tx].ordinal
            /\ t.tx # 0 /\ r.tx = 0 /\ r.ordinal = t.ordinal + 1 /\ q.state = "accepted"
        BY <1>2, <1>3, <1>4, <1>7, <2>1 DEF t
      <3> QED BY <1>2, <1>3, <2>1, <3>1, QueueAdvance
    <2>4. QueueOK(r, [GenerationsOf(Owner(x)) EXCEPT ![x[2]] = q])
      BY <1>4, <2>3 DEF T
    <2> QED BY <1>1, <1>2, <2>2, <2>4, QueueBoth
  <1> QED BY <1>2, <1>6, <1>7

(* Cancelling and releasing prepared work, of any set of campaigns at once. *)
LEMMA QueueDrop ==
  ASSUME TypeInv, TypeOK', QueueInv, NEW c \in Campaigns, NEW dropped,
         \A x \in Txs : /\ tx'[x].ordinal = tx[x].ordinal
                        /\ tx'[x].state = IF x \in dropped THEN "cancelled-before-provider"
                                          ELSE tx[x].state,
         \A x \in dropped : x \in Txs /\ tx[x].state = "prepared",
         \/ touch'[c] = touch[c] /\ \A x \in dropped : Owner(x) # c
         \/ /\ touch'[c].tx = 0 /\ touch'[c].ordinal = touch[c].ordinal
            /\ touch'[c].rv = touch[c].rv + 1
            /\ \/ touch'[c].state = "cancelled-before-provider"
               \/ touch'[c].state = "scheduled" /\ touch'[c].token = 0
            /\ IF touch[c].tx = 0 THEN \A x \in dropped : Owner(x) # c
               ELSE <<c, touch[c].tx>> \in dropped
  PROVE  QueueOK(touch'[c], GenerationsOf(c)') /\ TouchMoves(c)
  <1> DEFINE t == touch[c]
             t2 == touch'[c]
             T == GenerationsOf(c)
             T2 == GenerationsOf(c)'
  <1>1. /\ t \in TouchRows /\ t2 \in TouchRows /\ T \in Generations /\ QueueOK(t, T)
        /\ \A n \in 1 .. MaxTx : <<c, n>> \in Txs /\ Owner(<<c, n>>) = c
        /\ \A n \in 1 .. MaxTx : T[n] = tx[<<c, n>>]
    <2>1. \A n \in 1 .. MaxTx : <<c, n>> \in Txs /\ Owner(<<c, n>>) = c
      BY DEF Txs, Owner
    <2> QED BY <2>1, GenerationsOfTypes DEF TypeInv, TypeOK, QueueInv, GenerationsOf
  <1>2. T2 \in Generations /\ \A n \in 1 .. MaxTx : T2[n] = tx'[<<c, n>>]
    BY <1>1 DEF GenerationsOf, Generations, TypeOK
  <1>3. t.rv \in Nat /\ t.ordinal \in Nat /\ (t.tx = 0 \/ t.tx \in 1 .. MaxTx)
    BY <1>1, CimAssumption DEF TouchRows
  <1>4. CASE touch'[c] = touch[c] /\ \A x \in dropped : Owner(x) # c
    <2>1. \A n \in 1 .. MaxTx : T2[n].state = T[n].state /\ T2[n].ordinal = T[n].ordinal
      BY <1>1, <1>2, <1>4
    <2> QED BY <1>2, <1>4, <2>1, QueueUnchanged DEF Generations
  <1>5. CASE /\ t2.tx = 0 /\ t2.ordinal = t.ordinal /\ t2.rv = t.rv + 1
             /\ \/ t2.state = "cancelled-before-provider"
                \/ t2.state = "scheduled" /\ t2.token = 0
             /\ IF t.tx = 0 THEN \A x \in dropped : Owner(x) # c
                ELSE <<c, t.tx>> \in dropped
    <2>1. TouchMoves(c)
      BY <1>3, <1>5 DEF TouchMoves
    <2>2. CASE t.tx = 0
      <3>1. \A n \in 1 .. MaxTx : T2[n].state = T[n].state /\ T2[n].ordinal = T[n].ordinal
        BY <1>1, <1>2, <1>5, <2>2
      <3> HIDE DEF t, t2, T, T2
      <3>2. QueueOK(t2, T2)
        BY <1>1, <1>2, <1>5, <2>2, <3>1, QueueSame
      <3> QED BY <2>1, <3>2 DEF t2, T2
    <2>3. CASE t.tx # 0
      <3> DEFINE n == t.tx
                 x == <<c, n>>
                 q == T2[n]
      <3>1. /\ n \in 1 .. MaxTx /\ x \in dropped /\ tx[x].state = "prepared" /\ q \in TxRows
            /\ q.state = "cancelled-before-provider" /\ q.ordinal = T[n].ordinal
            /\ T[n].state = "prepared"
        BY <1>1, <1>2, <1>3, <1>5, <2>3 DEF Generations
      <3>2. \A m \in 1 .. MaxTx : m # n => T2[m].state = T[m].state /\ T2[m].ordinal = T[m].ordinal
        <4> SUFFICES ASSUME NEW m \in 1 .. MaxTx, m # n
                     PROVE  T2[m].state = T[m].state /\ T2[m].ordinal = T[m].ordinal
          OBVIOUS
        <4>1. <<c, m>> \notin dropped
          <5> SUFFICES ASSUME <<c, m>> \in dropped PROVE FALSE
            OBVIOUS
          <5>1. tx[<<c, m>>].state = "prepared" /\ <<c, m>> \in Txs
            BY <1>1
          <5>2. touch[Owner(<<c, m>>)].tx = <<c, m>>[2]
            BY <5>1, OpenIsHeld DEF TypeInv
          <5> QED BY <1>1, <5>2
        <4> QED BY <1>1, <1>2, <4>1
      <3> HIDE DEF t, t2, T, T2, n, x, q
      <3>3. QueueOK(t2, [T EXCEPT ![t.tx] = q])
        <4>1. /\ T[t.tx].state \in {"prepared", "provider-pending"} /\ q.ordinal = T[t.tx].ordinal
              /\ q.state = "cancelled-before-provider" /\ q \in TxRows
          BY <3>1 DEF n
        <4>2. t2.state \in {"scheduled", "cancelled-before-provider"}
          BY <1>5
        <4> QED BY <1>1, <1>5, <2>3, <4>1, <4>2, QueueRelease
      <3>4. QueueOK(t2, T2)
        <4> DEFINE T3 == [T EXCEPT ![t.tx] = q]
        <4>1. T3 \in Generations /\ \A m \in 1 .. MaxTx : T2[m].state = T3[m].state
                                                         /\ T2[m].ordinal = T3[m].ordinal
          BY <1>1, <3>1, <3>2 DEF Generations, n, q
        <4> HIDE DEF T3
        <4>2. QueueOK(t2, T3)
          BY <3>3 DEF T3
        <4> QED BY <1>1, <1>2, <4>1, <4>2, QueueSame
      <3> QED BY <2>1, <3>4 DEF t2, T2
    <2> QED BY <2>2, <2>3
  <1> QED BY <1>4, <1>5

LEMMA PreparedIsHeld ==
  ASSUME TypeInv, QueueInv, NEW x \in Prepared
  PROVE  /\ x \in Txs /\ Owner(x) \in Campaigns /\ tx[x].state = "prepared"
         /\ Holds(Owner(x), x) /\ touch[Owner(x)].state = "claimed" /\ touch[Owner(x)].tx # 0
  <1>1. x \in Txs /\ tx[x].state = "prepared"
    BY DEF Prepared
  <1>2. x = <<Owner(x), x[2]>> /\ Owner(x) \in Campaigns
    BY <1>1, RowTypes DEF TypeInv
  <1>3. touch[Owner(x)].tx = x[2] /\ touch[Owner(x)].tx # 0
    BY <1>1, OpenIsHeld DEF TypeInv
  <1>4. touch[Owner(x)].state = "claimed"
    <2>1. tx[x].state = IF touch[Owner(x)].state = "claimed" THEN "prepared"
                        ELSE touch[Owner(x)].state
      BY <1>1, OpenIsHeld DEF TypeInv
    <2>2. QueueOK(touch[Owner(x)], GenerationsOf(Owner(x)))
      BY <1>2 DEF QueueInv
    <2> QED BY <1>1, <1>3, <2>1, <2>2 DEF QueueOK, Agrees, Outcomes
  <1> QED BY <1>1, <1>2, <1>3, <1>4 DEF Holds

LEMMA DroppedRows ==
  ASSUME TypeInv
  PROVE  /\ \A x \in Txs :
              LET q == [tx[x] EXCEPT !.state = "cancelled-before-provider", !.rv = tx[x].rv + 1] IN
              /\ q.state = "cancelled-before-provider" /\ q.ordinal = tx[x].ordinal
              /\ q.entered = tx[x].entered
         /\ \A c \in Campaigns :
              LET r == [touch[c] EXCEPT !.state = "cancelled-before-provider", !.tx = 0,
                                        !.rv = touch[c].rv + 1] IN
              /\ r.state = "cancelled-before-provider" /\ r.tx = 0 /\ r.rv = touch[c].rv + 1
              /\ r.ordinal = touch[c].ordinal
         /\ \A c \in Campaigns :
              /\ Unclaimed(c).state = "scheduled" /\ Unclaimed(c).tx = 0
              /\ Unclaimed(c).token = 0 /\ Unclaimed(c).rv = touch[c].rv + 1
              /\ Unclaimed(c).ordinal = touch[c].ordinal
  <1>0. (\A x \in Txs : tx[x] \in TxRows) /\ (\A c \in Campaigns : touch[c] \in TouchRows)
    BY DEF TypeInv, TypeOK
  <1>1. \A x \in Txs :
          LET q == [tx[x] EXCEPT !.state = "cancelled-before-provider", !.rv = tx[x].rv + 1] IN
          q.state = "cancelled-before-provider" /\ q.ordinal = tx[x].ordinal
    BY <1>0 DEF TxRows
  <1>2. \A x \in Txs :
          LET q == [tx[x] EXCEPT !.state = "cancelled-before-provider", !.rv = tx[x].rv + 1] IN
          q.entered = tx[x].entered
    BY <1>0 DEF TxRows
  <1>3. \A c \in Campaigns :
          LET r == [touch[c] EXCEPT !.state = "cancelled-before-provider", !.tx = 0,
                                    !.rv = touch[c].rv + 1] IN
          /\ r.state = "cancelled-before-provider" /\ r.tx = 0 /\ r.rv = touch[c].rv + 1
          /\ r.ordinal = touch[c].ordinal
    BY <1>0 DEF TouchRows
  <1>4. \A c \in Campaigns :
          /\ Unclaimed(c).state = "scheduled" /\ Unclaimed(c).tx = 0
          /\ Unclaimed(c).token = 0 /\ Unclaimed(c).rv = touch[c].rv + 1
          /\ Unclaimed(c).ordinal = touch[c].ordinal
    BY <1>0 DEF Unclaimed, TouchRows
  <1> QED BY <1>1, <1>2, <1>3, <1>4

LEMMA QueueCancels ==
  ASSUME TypeInv, TypeInv', QueueInv, NEW S, CancelWorkOf(S), S \subseteq Campaigns
  PROVE  QueueStep
  <1> DEFINE dropped == {x \in Prepared : Owner(x) \in S}
             ended == {c \in S : \/ \E x \in dropped : Holds(c, x)
                                 \/ touch[c].state \in {"scheduled", "claimed"} /\ touch[c].tx = 0}
  <1>1. /\ tx' = [x \in Txs |-> IF x \notin dropped THEN tx[x]
                  ELSE [tx[x] EXCEPT !.state = "cancelled-before-provider", !.rv = tx[x].rv + 1]]
        /\ touch' = [c \in Campaigns |-> IF c \notin ended THEN touch[c]
                  ELSE [touch[c] EXCEPT !.state = "cancelled-before-provider", !.tx = 0,
                                        !.rv = touch[c].rv + 1]]
    BY DEF CancelWorkOf
  <1>2. \A x \in dropped : /\ x \in Prepared /\ x \in Txs /\ tx[x].state = "prepared"
                           /\ Owner(x) \in S
    BY PreparedIsHeld
  <1>3. \A x \in dropped : /\ Holds(Owner(x), x) /\ touch[Owner(x)].tx # 0
                           /\ Owner(x) \in ended
    BY <1>2, PreparedIsHeld
  <1>4. \A c \in ended : c \in Campaigns /\ IF touch[c].tx = 0 THEN \A x \in dropped : Owner(x) # c
                                            ELSE <<c, touch[c].tx>> \in dropped
    BY <1>3 DEF Holds
  <1> HIDE DEF dropped, ended
  <1>5. \A x \in Txs : /\ tx'[x].ordinal = tx[x].ordinal
                       /\ tx'[x].state = IF x \in dropped THEN "cancelled-before-provider"
                                         ELSE tx[x].state
    BY <1>1, DroppedRows
  <1>6. ASSUME NEW c \in Campaigns
        PROVE  QueueOK(touch'[c], GenerationsOf(c)') /\ TouchMoves(c)
    <2>1. CASE c \notin ended
      <3>1. touch'[c] = touch[c] /\ \A x \in dropped : Owner(x) # c
        BY <1>1, <1>3, <2>1
      <3> QED BY <1>2, <1>5, <3>1, QueueDrop DEF TypeInv
    <2>2. CASE c \in ended
      <3>1. /\ touch'[c].tx = 0 /\ touch'[c].ordinal = touch[c].ordinal
            /\ touch'[c].rv = touch[c].rv + 1 /\ touch'[c].state = "cancelled-before-provider"
        BY <1>1, <2>2, DroppedRows
      <3>2. IF touch[c].tx = 0 THEN \A x \in dropped : Owner(x) # c
            ELSE <<c, touch[c].tx>> \in dropped
        BY <1>4, <2>2
      <3> QED BY <1>2, <1>5, <3>1, <3>2, QueueDrop DEF TypeInv
    <2> QED BY <2>1, <2>2
  <1> QED BY <1>6 DEF QueueStep, QueueInv

LEMMA QueueFrees ==
  ASSUME TypeInv, TypeInv', QueueInv, ReleasePrepared
  PROVE  QueueStep
  <1> DEFINE dropped == {x \in Prepared : touch[Owner(x)].state = "claimed" /\ Holds(Owner(x), x)}
             ended == {c \in Campaigns : \E x \in dropped : Owner(x) = c}
  <1>1. tx' = [x \in Txs |-> IF x \notin dropped THEN tx[x]
                  ELSE [tx[x] EXCEPT !.state = "cancelled-before-provider", !.rv = tx[x].rv + 1]]
    BY DEF ReleasePrepared
  <1>2. touch' = [c \in Campaigns |-> IF c \in ended THEN Unclaimed(c) ELSE touch[c]]
    BY DEF ReleasePrepared
  <1>3. \A x \in dropped : /\ x \in Txs /\ tx[x].state = "prepared" /\ Owner(x) \in ended
                           /\ touch[Owner(x)].tx # 0 /\ x = <<Owner(x), touch[Owner(x)].tx>>
    BY PreparedIsHeld DEF Holds
  <1>4. \A c \in ended : c \in Campaigns /\ IF touch[c].tx = 0 THEN \A x \in dropped : Owner(x) # c
                                            ELSE <<c, touch[c].tx>> \in dropped
    BY <1>3
  <1> HIDE DEF dropped, ended
  <1>5. \A x \in Txs : /\ tx'[x].ordinal = tx[x].ordinal
                       /\ tx'[x].state = IF x \in dropped THEN "cancelled-before-provider"
                                         ELSE tx[x].state
    BY <1>1, DroppedRows
  <1>6. ASSUME NEW c \in Campaigns
        PROVE  QueueOK(touch'[c], GenerationsOf(c)') /\ TouchMoves(c)
    <2>1. CASE c \notin ended
      <3>1. touch'[c] = touch[c] /\ \A x \in dropped : Owner(x) # c
        BY <1>2, <1>3, <2>1
      <3> QED BY <1>3, <1>5, <3>1, QueueDrop DEF TypeInv
    <2>2. CASE c \in ended
      <3>1. /\ touch'[c].tx = 0 /\ touch'[c].ordinal = touch[c].ordinal
            /\ touch'[c].rv = touch[c].rv + 1 /\ touch'[c].state = "scheduled"
            /\ touch'[c].token = 0
        BY <1>2, <2>2, DroppedRows
      <3>2. IF touch[c].tx = 0 THEN \A x \in dropped : Owner(x) # c
            ELSE <<c, touch[c].tx>> \in dropped
        BY <1>4, <2>2
      <3> QED BY <1>3, <1>5, <3>1, <3>2, QueueDrop DEF TypeInv
    <2> QED BY <2>1, <2>2
  <1> QED BY <1>6 DEF QueueStep, QueueInv

(* Only a claim brings a run to the step after it. *)
LEMMA ClaimedRuns ==
  ASSUME TypeInv, Next, NEW v \in Workers, run'[v].pc = "claimed"
  PROVE  run'[v] = run[v] \/ \E c \in Campaigns : Claim(v, c)
  <1>0. run \in [Workers -> Runs] /\ \A w \in Workers : run[w] \in Runs
    BY DEF TypeInv, TypeOK
  <1>1. ASSUME NEW w \in Workers, NEW r, r.pc # "claimed", run' = [run EXCEPT ![w] = r]
        PROVE  run'[v] = run[v]
    BY <1>0, <1>1
  <1>2. ASSUME NEW w \in Workers, Rest(w) \/ LeaveTouch(w) PROVE run'[v] = run[v]
    <2>1. Idle.pc # "claimed" /\ \A pc \in {"ready", "idle"} : \A act :
            [Idle EXCEPT !.pc = pc, !.act = act].pc # "claimed"
      BY DEF Idle
    <2> QED BY <1>1, <1>2, <2>1 DEF Rest, LeaveTouch
  <1>3. ASSUME NEW w \in Workers, NEW pc, NEW f,
               \/ run' = [run EXCEPT ![w].pc = pc]
               \/ run' = [run EXCEPT ![w].pc = pc, ![w].snap = f]
               \/ run' = [run EXCEPT ![w].pc = pc, ![w].auth = f]
               \/ run' = [run EXCEPT ![w].pc = pc, ![w].outcome = f],
               pc # "claimed"
        PROVE  run'[v] = run[v]
    <2>1. CASE v = w
      <3>1. run'[w].pc = pc
        BY <1>0, <1>3 DEF Runs
      <3> QED BY <1>3, <2>1, <3>1
    <2>2. CASE v # w
      BY <1>0, <1>3, <2>2
    <2> QED BY <2>1, <2>2
  <1>4. CASE \E w \in Workers : QuietStep(w)
    <2>1. PICK w \in Workers : QuietStep(w)
      BY <1>4
    <2>2. CASE BeginSending(w)
      <3>1. [Idle EXCEPT !.pc = "ready", !.act = chain.no].pc # "claimed"
        BY DEF Idle
      <3> QED BY <1>1, <2>2, <3>1 DEF BeginSending
    <2>3. CASE \E x \in Txs : StartLookup(w, x)
      <3>1. PICK x \in Txs :
              run' = [run EXCEPT ![w] = [Idle EXCEPT !.pc = "lookup", !.x = x,
                                                     !.snap.rv = tx[x].rv]]
        BY <2>3 DEF StartLookup
      <3>2. [Idle EXCEPT !.pc = "lookup", !.x = x, !.snap.rv = tx[x].rv].pc # "claimed"
        BY DEF Idle
      <3> QED BY <1>1, <3>1, <3>2
    <2>4. /\ LookupFails(w) \/ EndRun(w) \/ Refused(w) \/ RecordFails(w) \/ Crash(w)
               => Rest(w) \/ LeaveTouch(w)
          /\ Call(w) \/ NotReached(w) \/ HearQuota(w) \/ HearNothing(w)
               => \E pc \in {"send", "await", "search", "release"} : Goto(w, pc)
          /\ HearAccepted(w) \/ HearFailure(w) \/ SearchFails(w)
               => \E outcome \in Outcomes : Hears(w, outcome)
      BY DEF LookupFails, EndRun, Refused, RecordFails, Crash, Call, NotReached, HearQuota,
         HearNothing, HearAccepted, HearFailure, SearchFails, Outcomes
    <2>5. CASE \E pc \in {"send", "await", "search", "release"} : Goto(w, pc)
      BY <1>3, <2>5 DEF Goto
    <2>6. CASE \E outcome \in Outcomes : Hears(w, outcome)
      BY <1>3, <2>6 DEF Hears
    <2> QED BY <1>2, <2>1, <2>2, <2>3, <2>4, <2>5, <2>6 DEF QuietStep
  <1>5. CASE \E w \in Workers : OutcomeStep(w)
    <2>1. PICK w \in Workers : Rest(w) \/ LeaveTouch(w) \/ run' = run
      BY <1>5 DEF OutcomeStep, LookupFound, LookupMissing, SearchFound, Record, ReleaseRefused,
         ReleaseUnentered
    <2> QED BY <1>2, <2>1
  <1>6. CASE \E w \in Workers : Prepare(w) \/ ReadGateContext(w) \/ Authorize(w) \/ EnterSeam(w)
    <2>1. PICK w \in Workers : Prepare(w) \/ ReadGateContext(w) \/ Authorize(w) \/ EnterSeam(w)
      BY <1>6
    <2>2. CASE Prepare(w)
      <3>1. run' = [run EXCEPT ![w].pc = "prepared", ![w].snap = NoSnap]
        BY <2>2 DEF Prepare
      <3> QED BY <1>3, <3>1
    <2>3. CASE ReadGateContext(w)
      <3>1. PICK f : run' = [run EXCEPT ![w].pc = "gate", ![w].snap = f]
        BY <2>3 DEF ReadGateContext
      <3> QED BY <1>3, <3>1
    <2>4. CASE Authorize(w)
      <3>1. PICK f : run' = [run EXCEPT ![w].pc = "boundary", ![w].snap = f]
        BY <2>4 DEF Authorize
      <3> QED BY <1>3, <3>1
    <2>5. CASE EnterSeam(w)
      <3>1. PICK f : run' = [run EXCEPT ![w].pc = "send", ![w].snap = f]
        BY <2>5 DEF EnterSeam
      <3> QED BY <1>3, <3>1
    <2> QED BY <2>1, <2>2, <2>3, <2>4, <2>5
  <1>7. CASE \E w \in Workers : Issue(w)
    <2>1. \E w \in Workers : \E f : run' = [run EXCEPT ![w].pc = "issued", ![w].auth = f]
      BY <1>7 DEF Issue
    <2> QED BY <1>3, <2>1
  <1>8. CASE \E w \in Workers, c \in Campaigns : Renew(w, c)
    <2>1. PICK w \in Workers, c \in Campaigns : Renew(w, c)
      BY <1>8
    <2>2. run' = [run EXCEPT ![w] = [run[w] EXCEPT !.pc = "prepared", !.x = <<c, touch[c].tx>>,
                                                   !.snap = NoSnap]]
      BY <1>0, <2>1 DEF Renew
    <2>3. [run[w] EXCEPT !.pc = "prepared", !.x = <<c, touch[c].tx>>, !.snap = NoSnap].pc
            = "prepared"
      BY <1>0 DEF Runs
    <2> QED BY <1>1, <2>2, <2>3
  <1>9. CASE \E w \in Workers, c \in Campaigns : Claim(w, c)
    <2>1. PICK w \in Workers, c \in Campaigns : Claim(w, c)
      BY <1>9
    <2>2. CASE v = w
      BY <2>1, <2>2
    <2>3. CASE v # w
      BY <1>0, <2>1, <2>3 DEF Claim
    <2> QED BY <2>2, <2>3
  <1>10. CASE run' = run
    BY <1>10
  <1>11. /\ (\E c \in Campaigns : Ended(c) \/ ClaimLapses(c)) => run' = run
         /\ (\E x \in Txs : Accept(x) \/ Refuse(x)) => run' = run
         /\ Replies \/ Switch => run' = run
    <2>1. (\E c \in Campaigns : Ended(c) \/ ClaimLapses(c)) => run' = run
      BY DEF Ended, ClaimLapses
    <2>2. (\E x \in Txs : Accept(x) \/ Refuse(x)) => run' = run
      BY DEF Accept, Refuse
    <2>3. Replies \/ Switch => run' = run
      BY DEF Replies, RecordReply, ApplyReply, SettleReply, Switch, ChainOff, FreePrepared, ChainOn
    <2> QED BY <2>1, <2>2, <2>3
  <1> QED BY <1>4, <1>5, <1>6, <1>7, <1>8, <1>9, <1>10, <1>11, Steps

(* The queue invariant is kept: one step per action that writes rows.      *)
LEMMA QueueNext ==
  ASSUME TypeInv, TypeInv', QueueInv, ClaimInv, Next
  PROVE  QueueStep
  <1>1. CASE UNCHANGED <<touch, tx>>
    BY <1>1, QueueQuiet
  <1>2. CASE \E w \in Workers : QuietStep(w) \/ ReadGateContext(w)
    <2>1. UNCHANGED <<touch, tx>>
      BY <1>2 DEF QuietStep, LookupFails, BeginSending, EndRun, Refused, Call, NotReached,
         HearAccepted, HearFailure, HearQuota, HearNothing, SearchFails, RecordFails, Crash,
         StartLookup, ReadGateContext
    <2> QED BY <1>1, <2>1
  <1>3. CASE \E w \in Workers : OutcomeStep(w)
    <2>1. CASE \E x \in Txs : tx[x].state = "provider-pending" /\ ReleaseUnsent(x)
      BY <2>1, QueueReleases
    <2>2. CASE \E x \in Txs, outcome \in Outcomes : Resolves(x, outcome)
      <3>1. PICK x \in Txs, outcome \in Outcomes : Resolves(x, outcome)
        BY <2>2
      <3>2. \E from : Settle(x, outcome, from)
        BY <3>1 DEF Resolves, Finalize, ReconcileAccepted
      <3> QED BY <3>1, <3>2, QueueSettles DEF Resolves
    <2> QED BY <1>1, <1>3, <2>1, <2>2, OutcomeRows
  <1>4. CASE \E w \in Workers : Prepare(w)
    BY <1>4, QueuePrepares
  <1>5. CASE \E w \in Workers : Issue(w) \/ EnterSeam(w)
    BY <1>5, IssueWrites, SeamWrites, QueueQuiet
  <1>6. CASE \E w \in Workers : Authorize(w)
    BY <1>6, QueueAuthorize
  <1>7. CASE \E w \in Workers, c \in Campaigns : Claim(w, c) \/ Renew(w, c)
    BY <1>7, QueueClaim
  <1>8. CASE \E c \in Campaigns : ClaimLapses(c)
    BY <1>8, QueueClaim
  <1>9. CASE \E c \in Campaigns : Ended(c)
    <2>1. PICK c \in Campaigns : \E next : EndCampaign(c, next)
      BY <1>9 DEF Ended, Expire, Stop, ReceiveMaterials, DemandAction
    <2>2. CancelWorkOf({c}) /\ {c} \subseteq Campaigns
      BY <2>1 DEF EndCampaign
    <2> QED BY <2>2, QueueCancels
  <1>10. CASE \E x \in Txs : Accept(x) \/ Refuse(x)
    BY <1>1, <1>10 DEF Accept, Refuse
  <1>11. CASE Replies
    <2>1. CASE ApplyReply
      <3>1. CancelWorkOf({c \in Campaigns : camp[c].state \notin Terminal})
        BY <2>1 DEF ApplyReply, EndConversation
      <3> QED BY <3>1, QueueCancels
    <2> QED BY <1>1, <1>11, <2>1 DEF Replies, RecordReply, SettleReply
  <1>12. CASE Switch
    <2>1. UNCHANGED <<touch, tx>> \/ ReleasePrepared
      BY <1>12 DEF Switch, ChainOff, FreePrepared, ChainOn
    <2> QED BY <1>1, <2>1, QueueFrees
  <1> QED BY <1>2, <1>3, <1>4, <1>5, <1>6, <1>7, <1>8, <1>9, <1>10, <1>11, <1>12, Steps

LEMMA ClaimNext ==
  ASSUME TypeInv, TypeInv', QueueInv, ClaimInv, Next
  PROVE  ClaimInv'
  <1>1. QueueInv' /\ \A c \in Campaigns : TouchMoves(c)
    BY QueueNext DEF QueueStep
  <1> SUFFICES ASSUME NEW v \in Workers, run'[v].pc = "claimed"
               PROVE  ClaimHolds(v)'
    BY DEF ClaimInv
  <1>2. CASE run'[v] = run[v]
    BY <1>1, <1>2, ClaimsStay
  <1>3. CASE \E c \in Campaigns : Claim(v, c)
    <2>1. PICK c \in Campaigns : Claim(v, c)
      BY <1>3
    <2> DEFINE n == NextGeneration(c)
               T == GenerationsOf(c)
    <2>2. /\ run \in [Workers -> Runs] /\ run[v] \in Runs /\ touch[c] \in TouchRows
          /\ touch \in [Campaigns -> TouchRows] /\ n \in 1 .. MaxTx
      BY <2>1 DEF TypeInv, TypeOK, Claim
    <2>3. T[n].state = "none" /\ \A m \in 1 .. MaxTx : m < n => T[m].state # "none"
      BY <2>2, NextIsFirstUnused DEF TypeInv
    <2>4. PICK r \in TouchRows :
           /\ touch' = [touch EXCEPT ![c] = r] /\ tx' = tx
           /\ r.state = "claimed" /\ r.tx = touch[c].tx /\ r.ordinal = touch[c].ordinal
           /\ r.token = touch[c].rv + 1 /\ r.rv = touch[c].rv + 1
      BY <2>1, ClaimWrites
    <2>5. GenerationsOf(c)' = T
      BY <2>4, GenerationsOfTypes DEF TypeInv
    <2> DEFINE k == touch[c].rv + 1
               o == touch[c].ordinal
               e == camp[c].rev
               u == conv.rev
               s == [NoSnap EXCEPT !.crev = e, !.vrev = u, !.ordinal = o, !.token = k]
    <2>6. run' = [run EXCEPT ![v] = [run[v] EXCEPT !.pc = "claimed", !.x = <<c, n>>, !.snap = s]]
      BY <2>1, <2>2 DEF Claim
    <2>7. k \in Nat /\ k > 0 /\ o \in Nat
      BY <2>2, CimAssumption DEF TouchRows
    <2>8. s.token = k /\ s.ordinal = o
      <3> HIDE DEF k, o, e, u
      <3> QED BY DEF NoSnap
    <2> HIDE DEF s, k, o, e, u, n, T
    <2>9. run'[v].snap = s /\ run'[v].x = <<c, n>>
      BY <2>2, <2>6 DEF Runs
    <2>10. touch'[c] = r /\ r.rv = k /\ r.ordinal = o
      BY <2>2, <2>4 DEF k, o
    <2>11. Owner(<<c, n>>) = c /\ <<c, n>>[2] = n
      BY DEF Owner
    <2> QED BY <2>3, <2>5, <2>7, <2>8, <2>9, <2>10, <2>11 DEF ClaimOK, ClaimHolds
  <1> QED BY <1>2, <1>3, ClaimedRuns

(* At first every touch is scheduled and nothing is claimed.               *)
LEMMA QueueInit == Init => QueueInv /\ ClaimInv
  <1> SUFFICES ASSUME Init PROVE QueueInv /\ ClaimInv
    OBVIOUS
  <1>1. ASSUME NEW c \in Campaigns PROVE QueueOK(touch[c], GenerationsOf(c))
    <2>1. touch[c] = FreshTouch(0) /\ \A n \in 1 .. MaxTx : GenerationsOf(c)[n] = NoTx
      BY <1>1, RowTypes DEF Init, GenerationsOf, Txs
    <2>2. touch[c].tx = 0 /\ touch[c].state = "scheduled" /\ touch[c].ordinal = 0
      BY <2>1 DEF FreshTouch
    <2>3. \A n \in 1 .. MaxTx : GenerationsOf(c)[n].state = "none"
      BY <2>1 DEF NoTx
    <2> QED BY <2>2, <2>3 DEF QueueOK, Agrees, InOrder, AcceptedOnce, AcceptedBefore
  <1>2. \A w \in Workers : run[w].pc = "idle"
    BY DEF Init, Idle
  <1> QED BY <1>1, <1>2 DEF QueueInv, ClaimInv

-----------------------------------------------------------------------------
(* The call invariant, of a transmission's row q and what Gmail did, g. *)

Early == {"none", "prepared"}
Unsettled == {"provider-pending", "ambiguous"}
\* The steps of a run from the authorization of its transmission to its outcome.
Past == {"boundary", "send", "await", "search", "record", "release"}
CallOK(q, g) ==
  /\ g.mailed + g.refused <= g.asked /\ g.asked <= 1
  /\ ~q.entered => g.asked = 0
  /\ q.state \in Early => ~q.entered
  /\ q.state = "accepted" => g.mailed = 1
  /\ q.state \in {"definitive-failure", "cancelled-before-provider"} =>
       g.mailed = 0 /\ g.asked = g.refused
\* What a run may rely on while nobody else is past the authorization of x.
RunOK(r, q, g) ==
  /\ q.state \notin Early
  /\ r.pc # "boundary" => q.entered
  /\ r.pc = "send" => g.asked = 0 /\ q.state \in Unsettled
  /\ r.pc = "record" => /\ r.outcome = "accepted" => g.mailed > 0
                        /\ r.outcome = "definitive-failure" => g.refused > 0
  /\ r.pc = "release" => g.asked = 0 \/ g.refused > 0
IsPast(w) == run[w].pc \in Past
Alone == \A v, w \in Workers : v # w /\ IsPast(v) /\ IsPast(w) => run[v].x # run[w].x
RunHolds(w) == RunOK(run[w], tx[run[w].x], gmail[run[w].x])
CallInv ==
  /\ \A x \in Txs : CallOK(tx[x], gmail[x])
  /\ \A w \in Workers : IsPast(w) => RunHolds(w)
  /\ Alone

\* What others may do to a transmission without harm to the run that is past its authorization.
KeepsRow(q, g, q2, g2) ==
  /\ q.entered => q2.entered
  /\ q.state \notin Early => q2.state \notin Early
  /\ q.entered /\ g.asked = 0 /\ q.state \in Unsettled => q2.state \in Unsettled
  /\ g2.asked = g.asked /\ g2.mailed >= g.mailed /\ g2.refused >= g.refused
Keeps(x) == KeepsRow(tx[x], gmail[x], tx'[x], gmail'[x])

Calls == [asked : Nat, mailed : Nat, refused : Nat]

(* A run relies on nothing that others take away.                          *)
LEMMA RunStays ==
  ASSUME NEW r, NEW q, NEW q2, NEW g \in Calls, NEW g2 \in Calls,
         RunOK(r, q, g), KeepsRow(q, g, q2, g2)
  PROVE  RunOK(r, q2, g2)
  <1>1. g.mailed \in Nat /\ g2.mailed \in Nat /\ g.refused \in Nat /\ g2.refused \in Nat
    BY DEF Calls
  <1>2. q2.state \notin Early /\ (r.pc # "boundary" => q2.entered)
    BY DEF RunOK, KeepsRow
  <1>3. r.pc = "send" => q.entered /\ g.asked = 0 /\ q.state \in Unsettled
    BY DEF RunOK
  <1>4. r.pc = "send" => g2.asked = 0 /\ q2.state \in Unsettled
    BY <1>3 DEF KeepsRow
  <1>5. r.pc = "record" => /\ r.outcome = "accepted" => g2.mailed > 0
                           /\ r.outcome = "definitive-failure" => g2.refused > 0
    BY <1>1 DEF RunOK, KeepsRow
  <1>6. r.pc = "release" => g2.asked = 0 \/ g2.refused > 0
    BY <1>1 DEF RunOK, KeepsRow
  <1> QED BY <1>2, <1>4, <1>5, <1>6 DEF RunOK

(* Steps of one run w: what it changes is its own, or keeps what the       *)
(* others rely on.                                                         *)
LEMMA CallByRun ==
  ASSUME TypeInv, TypeInv', CallInv, NEW w \in Workers,
         \A v \in Workers : v # w => run'[v] = run[v],
         \A x \in Txs : CallOK(tx[x], gmail[x])',
         \A x \in Txs : Keeps(x) \/ (IsPast(w) /\ run[w].x = x),
         IsPast(w)' => /\ RunHolds(w)'
                       /\ \/ IsPast(w) /\ run'[w].x = run[w].x
                          \/ \A v \in Workers : v # w /\ IsPast(v) => run[v].x # run'[w].x
  PROVE  CallInv'
  <1>1. \A v \in Workers : v # w => (IsPast(v)' <=> IsPast(v))
    BY DEF IsPast
  <1>2. Alone'
    <2> SUFFICES ASSUME NEW u \in Workers, NEW v \in Workers, u # v, IsPast(u)', IsPast(v)'
                 PROVE  run'[u].x # run'[v].x
      BY DEF Alone
    <2>1. CASE u # w /\ v # w
      BY <1>1, <2>1 DEF CallInv, Alone
    <2>2. ASSUME NEW y \in Workers, y # w, IsPast(w)', IsPast(y)' PROVE run'[w].x # run'[y].x
      BY <1>1, <2>2 DEF CallInv, Alone
    <2> QED BY <2>1, <2>2
  <1>3. ASSUME NEW v \in Workers, v # w, IsPast(v)' PROVE RunHolds(v)'
    <2>1. IsPast(v) /\ run[v].x \in Txs /\ run'[v] = run[v]
      BY <1>1, <1>3 DEF IsPast, Past, TypeInv, Placed
    <2>2. RunHolds(v) /\ Keeps(run[v].x)
      BY <1>3, <2>1 DEF CallInv, Alone
    <2>3. gmail[run[v].x] \in Calls /\ gmail'[run[v].x] \in Calls
      BY <2>1 DEF TypeInv, TypeOK, Calls
    <2> QED BY <2>1, <2>2, <2>3, RunStays DEF RunHolds, Keeps
  <1> QED BY <1>2, <1>3 DEF CallInv

(* Steps of nobody's run.                                                  *)
LEMMA CallElsewhere ==
  ASSUME TypeInv, TypeInv', CallInv, run' = run,
         \A x \in Txs : CallOK(tx[x], gmail[x])',
         \A x \in Txs : Keeps(x)
  PROVE  CallInv'
  <1>1. ASSUME NEW v \in Workers, IsPast(v)' PROVE RunHolds(v)'
    <2>1. IsPast(v) /\ run[v].x \in Txs
      BY <1>1 DEF IsPast, Past, TypeInv, Placed
    <2>2. gmail[run[v].x] \in Calls /\ gmail'[run[v].x] \in Calls
      BY <2>1 DEF TypeInv, TypeOK, Calls
    <2> QED BY <2>1, <2>2, RunStays DEF RunHolds, Keeps, CallInv
  <1>2. Alone'
    BY DEF CallInv, Alone, IsPast
  <1> QED BY <1>1, <1>2 DEF CallInv

(* Rows that are not written keep what is relied on.                       *)
LEMMA KeptRows ==
  ASSUME TypeInv, CallInv, NEW x \in Txs, tx'[x] = tx[x], gmail'[x] = gmail[x]
  PROVE  CallOK(tx[x], gmail[x])' /\ Keeps(x)
  <1>1. /\ gmail[x].asked \in Nat /\ gmail[x].mailed \in Nat /\ gmail[x].refused \in Nat
    BY DEF TypeInv, TypeOK
  <1>2. Keeps(x)
    BY <1>1 DEF Keeps, KeepsRow
  <1> QED BY <1>2 DEF CallInv

(* A run that writes one row, of its own transmission or of another.       *)
LEMMA CallWithRow ==
  ASSUME TypeInv, TypeInv', CallInv, NEW w \in Workers, NEW x \in Txs, NEW q,
         \A v \in Workers : v # w => run'[v] = run[v],
         tx' = [tx EXCEPT ![x] = q], gmail' = gmail,
         CallOK(q, gmail[x]),
         KeepsRow(tx[x], gmail[x], q, gmail[x]) \/ (IsPast(w) /\ run[w].x = x),
         IsPast(w)' => /\ RunHolds(w)'
                       /\ \/ IsPast(w) /\ run'[w].x = run[w].x
                          \/ \A v \in Workers : v # w /\ IsPast(v) => run[v].x # run'[w].x
  PROVE  CallInv'
  <1>1. tx'[x] = q /\ \A y \in Txs : y # x => tx'[y] = tx[y]
    BY DEF TypeInv, TypeOK
  <1>2. CallOK(tx[x], gmail[x])' /\ (Keeps(x) \/ (IsPast(w) /\ run[w].x = x))
    BY <1>1 DEF Keeps
  <1>3. \A y \in Txs : y # x => CallOK(tx[y], gmail[y])' /\ Keeps(y)
    BY <1>1, KeptRows
  <1>4. \A y \in Txs : CallOK(tx[y], gmail[y])'
    BY <1>2, <1>3
  <1>5. \A y \in Txs : Keeps(y) \/ (IsPast(w) /\ run[w].x = y)
    BY <1>2, <1>3
  <1> QED BY <1>4, <1>5, CallByRun

(* What a step makes of a run.                                             *)
LEMMA RunMoves ==
  ASSUME TypeInv, NEW w \in Workers
  PROVE  /\ \A r : run' = [run EXCEPT ![w] = r] =>
              run'[w] = r /\ \A v \in Workers : v # w => run'[v] = run[v]
         /\ Rest(w) \/ LeaveTouch(w) =>
              ~IsPast(w)' /\ \A v \in Workers : v # w => run'[v] = run[v]
         /\ \A pc : Goto(w, pc) =>
              /\ run'[w] = [run[w] EXCEPT !.pc = pc] /\ run'[w].pc = pc /\ run'[w].x = run[w].x
              /\ \A v \in Workers : v # w => run'[v] = run[v]
         /\ \A outcome : Hears(w, outcome) =>
              /\ run'[w].pc = "record" /\ run'[w].outcome = outcome /\ run'[w].x = run[w].x
              /\ \A v \in Workers : v # w => run'[v] = run[v]
  <1>0. run \in [Workers -> Runs] /\ run[w] \in Runs
    BY DEF TypeInv, TypeOK
  <1>1. \A r : run' = [run EXCEPT ![w] = r] =>
          run'[w] = r /\ \A v \in Workers : v # w => run'[v] = run[v]
    BY <1>0
  <1>2. ASSUME Rest(w) \/ LeaveTouch(w)
        PROVE  ~IsPast(w)' /\ \A v \in Workers : v # w => run'[v] = run[v]
    <2>1. PICK r : run' = [run EXCEPT ![w] = r] /\ r.pc \in {"idle", "ready"}
      <3>1. Idle.pc = "idle" /\ \A pc \in {"ready", "idle"} : \A act :
              [Idle EXCEPT !.pc = pc, !.act = act].pc = pc
        BY DEF Idle
      <3>2. CASE Rest(w)
        BY <3>1, <3>2 DEF Rest
      <3>3. CASE LeaveTouch(w)
        <4>1. PICK pc \in {"ready", "idle"} : \E act :
                run' = [run EXCEPT ![w] = [Idle EXCEPT !.pc = pc, !.act = act]]
          BY <3>3 DEF LeaveTouch
        <4>2. PICK act : run' = [run EXCEPT ![w] = [Idle EXCEPT !.pc = pc, !.act = act]]
          BY <4>1
        <4> DEFINE r == [Idle EXCEPT !.pc = pc, !.act = act]
        <4>3. run' = [run EXCEPT ![w] = r] /\ r.pc \in {"idle", "ready"}
          BY <3>1, <4>2
        <4> HIDE DEF r
        <4> QED BY <4>3
      <3> QED BY <1>2, <3>2, <3>3
    <2> QED BY <1>1, <2>1 DEF IsPast, Past
  <1>3. ASSUME NEW pc, Goto(w, pc)
        PROVE  /\ run'[w] = [run[w] EXCEPT !.pc = pc] /\ run'[w].pc = pc /\ run'[w].x = run[w].x
               /\ \A v \in Workers : v # w => run'[v] = run[v]
    BY <1>0, <1>3 DEF Goto, Runs
  <1>4. ASSUME NEW outcome, Hears(w, outcome)
        PROVE  /\ run'[w].pc = "record" /\ run'[w].outcome = outcome /\ run'[w].x = run[w].x
               /\ \A v \in Workers : v # w => run'[v] = run[v]
    BY <1>0, <1>4 DEF Hears, Runs
  <1> QED BY <1>1, <1>2, <1>3, <1>4

(* A run that writes no row and asks nothing of Gmail.                     *)
LEMMA CallQuiet ==
  ASSUME TypeInv, TypeInv', CallInv, NEW w \in Workers, QuietStep(w), ~Call(w)
  PROVE  CallInv'
  <1>1. tx' = tx /\ gmail' = gmail
    BY DEF QuietStep, LookupFails, BeginSending, EndRun, Refused, NotReached, HearAccepted,
       HearFailure, HearQuota, HearNothing, SearchFails, RecordFails, Crash, StartLookup
  <1>2. \A x \in Txs : CallOK(tx[x], gmail[x])' /\ Keeps(x)
    BY <1>1, KeptRows
  <1>3. ASSUME IsPast(w), run'[w].x = run[w].x, RunHolds(w)',
               \A v \in Workers : v # w => run'[v] = run[v]
        PROVE  CallInv'
    BY <1>2, <1>3, CallByRun
  <1>4. ASSUME ~IsPast(w)', \A v \in Workers : v # w => run'[v] = run[v]
        PROVE  CallInv'
    BY <1>2, <1>4, CallByRun
  <1>5. IsPast(w) => RunHolds(w)
    BY DEF CallInv
  <1>6. CASE LookupFails(w) \/ EndRun(w) \/ Refused(w) \/ RecordFails(w) \/ Crash(w)
    <2>1. Rest(w) \/ LeaveTouch(w)
      BY <1>6 DEF LookupFails, EndRun, Refused, RecordFails, Crash
    <2> QED BY <1>4, <2>1, RunMoves
  <1>7. CASE BeginSending(w)
    <2>1. [Idle EXCEPT !.pc = "ready", !.act = chain.no].pc = "ready"
      BY DEF Idle
    <2>2. run' = [run EXCEPT ![w] = [Idle EXCEPT !.pc = "ready", !.act = chain.no]]
      BY <1>7 DEF BeginSending
    <2>3. run'[w].pc = "ready" /\ \A v \in Workers : v # w => run'[v] = run[v]
      BY <2>1, <2>2, RunMoves
    <2> QED BY <1>4, <2>3 DEF IsPast, Past
  <1>8. CASE \E x \in Txs : StartLookup(w, x)
    <2>1. PICK x \in Txs :
            run' = [run EXCEPT ![w] = [Idle EXCEPT !.pc = "lookup", !.x = x, !.snap.rv = tx[x].rv]]
      BY <1>8 DEF StartLookup
    <2>2. [Idle EXCEPT !.pc = "lookup", !.x = x, !.snap.rv = tx[x].rv].pc = "lookup"
      BY DEF Idle
    <2>3. run'[w].pc = "lookup" /\ \A v \in Workers : v # w => run'[v] = run[v]
      BY <2>1, <2>2, RunMoves
    <2> QED BY <1>4, <2>3 DEF IsPast, Past
  <1>9. CASE NotReached(w)
    <2>1. Goto(w, "release") /\ run[w].pc = "send"
      BY <1>9 DEF NotReached, At
    <2>2. /\ run'[w].pc = "release" /\ run'[w].x = run[w].x
          /\ \A v \in Workers : v # w => run'[v] = run[v]
      BY <2>1, RunMoves
    <2>3. IsPast(w) /\ RunHolds(w)
      BY <1>5, <2>1 DEF IsPast, Past
    <2>4. RunHolds(w)'
      BY <1>1, <2>1, <2>2, <2>3 DEF RunHolds, RunOK
    <2> QED BY <1>3, <2>2, <2>3, <2>4
  <1>10. CASE HearQuota(w)
    <2>1. Goto(w, "release") /\ run[w].pc = "await" /\ gmail[run[w].x].refused > 0
      BY <1>10 DEF HearQuota, At
    <2>2. /\ run'[w].pc = "release" /\ run'[w].x = run[w].x
          /\ \A v \in Workers : v # w => run'[v] = run[v]
      BY <2>1, RunMoves
    <2>3. IsPast(w) /\ RunHolds(w)
      BY <1>5, <2>1 DEF IsPast, Past
    <2>4. RunHolds(w)'
      BY <1>1, <2>1, <2>2, <2>3 DEF RunHolds, RunOK
    <2> QED BY <1>3, <2>2, <2>3, <2>4
  <1>11. CASE HearNothing(w)
    <2>1. Goto(w, "search") /\ run[w].pc = "await"
      BY <1>11 DEF HearNothing, At
    <2>2. /\ run'[w].pc = "search" /\ run'[w].x = run[w].x
          /\ \A v \in Workers : v # w => run'[v] = run[v]
      BY <2>1, RunMoves
    <2>3. IsPast(w) /\ RunHolds(w)
      BY <1>5, <2>1 DEF IsPast, Past
    <2>4. RunHolds(w)'
      BY <1>1, <2>1, <2>2, <2>3 DEF RunHolds, RunOK
    <2> QED BY <1>3, <2>2, <2>3, <2>4
  <1>12. CASE HearAccepted(w) \/ HearFailure(w) \/ SearchFails(w)
    <2>1. PICK outcome \in Outcomes :
            /\ Hears(w, outcome) /\ run[w].pc \in {"await", "search"}
            /\ outcome = "accepted" => gmail[run[w].x].mailed > 0
            /\ outcome = "definitive-failure" => gmail[run[w].x].refused > 0
      BY <1>12 DEF HearAccepted, HearFailure, SearchFails, At, Outcomes
    <2>2. /\ run'[w].pc = "record" /\ run'[w].x = run[w].x /\ run'[w].outcome = outcome
          /\ \A v \in Workers : v # w => run'[v] = run[v]
      BY <2>1, RunMoves
    <2>3. IsPast(w) /\ RunHolds(w)
      BY <1>5, <2>1 DEF IsPast, Past
    <2>4. RunHolds(w)'
      BY <1>1, <2>1, <2>2, <2>3 DEF RunHolds, RunOK
    <2> QED BY <1>3, <2>2, <2>3, <2>4
  <1> QED BY <1>6, <1>7, <1>8, <1>9, <1>10, <1>11, <1>12 DEF QuietStep

(* Gmail is asked once: the run that asks is alone with its transmission.  *)
LEMMA CallAsks ==
  ASSUME TypeInv, TypeInv', CallInv, NEW w \in Workers, Call(w)
  PROVE  CallInv'
  <1> DEFINE x == run[w].x
             g == gmail[x]
             g2 == [gmail[x] EXCEPT !.asked = gmail[x].asked + 1]
  <1>1. run[w].pc = "send" /\ Goto(w, "await") /\ tx' = tx
    BY DEF Call, At
  <1>2. x \in Txs /\ IsPast(w) /\ RunHolds(w)
    BY <1>1 DEF IsPast, Past, TypeInv, Placed, CallInv
  <1>3. gmail \in [Txs -> Calls] /\ g \in Calls
    BY <1>2 DEF TypeInv, TypeOK, Calls
  <1>4. gmail' = [gmail EXCEPT ![x] = g2]
    BY <1>2, <1>3 DEF Call
  <1>5. /\ g2.asked = g.asked + 1 /\ g2.mailed = g.mailed /\ g2.refused = g.refused
    BY <1>3 DEF Calls
  <1>6. g.asked = 0 /\ tx[x].state \in Unsettled /\ tx[x].entered
    BY <1>1, <1>2 DEF RunHolds, RunOK
  <1>7. CallOK(tx[x], g)
    BY <1>2 DEF CallInv
  <1> HIDE DEF g, g2
  <1>8. g.mailed \in Nat /\ g.refused \in Nat
    BY <1>3 DEF Calls
  <1>9. CallOK(tx[x], g2)
    BY <1>5, <1>6, <1>7, <1>8 DEF CallOK, Unsettled, Early
  <1>10. gmail'[x] = g2 /\ \A y \in Txs : y # x => gmail'[y] = gmail[y]
    BY <1>2, <1>3, <1>4
  <1>11. \A y \in Txs : y # x => CallOK(tx[y], gmail[y])' /\ Keeps(y)
    BY <1>1, <1>10, KeptRows
  <1>12. \A y \in Txs : CallOK(tx[y], gmail[y])'
    BY <1>1, <1>9, <1>10, <1>11
  <1>13. /\ run'[w].pc = "await" /\ run'[w].x = x
         /\ \A v \in Workers : v # w => run'[v] = run[v]
    BY <1>1, RunMoves
  <1>14. RunHolds(w)'
    BY <1>1, <1>6, <1>13 DEF RunHolds, RunOK, Unsettled, Early
  <1> QED BY <1>2, <1>11, <1>12, <1>13, <1>14, CallByRun

(* A run records what Gmail did, and nothing else: an accepted mail was    *)
(* mailed, a failed or released one is not on its way.                     *)
LEMMA CallRecords ==
  ASSUME TypeInv, TypeInv', CallInv, NEW w \in Workers, OutcomeStep(w)
  PROVE  CallInv'
  <1>1. gmail' = gmail
    BY DEF OutcomeStep, LookupFound, LookupMissing, SearchFound, Record, ReleaseRefused,
       ReleaseUnentered
  <1>2. (~IsPast(w)' /\ \A v \in Workers : v # w => run'[v] = run[v]) \/ run' = run
    <2>1. Rest(w) \/ LeaveTouch(w) \/ run' = run
      BY DEF OutcomeStep, LookupFound, LookupMissing, SearchFound, Record, ReleaseRefused,
         ReleaseUnentered
    <2> QED BY <2>1, RunMoves
  <1>3. CASE tx' = tx
    <2>1. \A x \in Txs : CallOK(tx[x], gmail[x])' /\ Keeps(x)
      BY <1>1, <1>3, KeptRows
    <2> QED BY <1>2, <2>1, CallByRun, CallElsewhere
  \* The row of x becomes q: what must hold of the two, and who may write it.
  <1>4. ASSUME NEW x \in Txs, NEW q, tx' = [tx EXCEPT ![x] = q],
               q.entered = tx[x].entered, q.state \notin Early, CallOK(q, gmail[x]),
               ~IsPast(w)' /\ \A v \in Workers : v # w => run'[v] = run[v],
               \/ IsPast(w) /\ run[w].x = x
               \/ q.state \in Unsettled \/ gmail[x].asked # 0 \/ ~tx[x].entered
        PROVE  CallInv'
    <2>1. /\ gmail[x].asked \in Nat /\ gmail[x].mailed \in Nat /\ gmail[x].refused \in Nat
      BY DEF TypeInv, TypeOK
    <2>2. KeepsRow(tx[x], gmail[x], q, gmail[x]) \/ (IsPast(w) /\ run[w].x = x)
      BY <1>4, <2>1 DEF KeepsRow
    <2> QED BY <1>1, <1>4, <2>2, CallWithRow
  \* The row that an outcome writes.
  <1>5. ASSUME NEW x \in Txs, NEW outcome \in Outcomes, Resolves(x, outcome),
               outcome = "accepted" => gmail[x].mailed > 0,
               outcome = "definitive-failure" => gmail[x].refused > 0,
               ~IsPast(w)' /\ \A v \in Workers : v # w => run'[v] = run[v],
               \/ IsPast(w) /\ run[w].x = x
               \/ outcome = "ambiguous" \/ gmail[x].asked # 0
        PROVE  CallInv'
    <2>1. \E from : Settle(x, outcome, from)
      BY <1>5 DEF Resolves, Finalize, ReconcileAccepted
    <2>2. PICK q \in TxRows : /\ tx' = [tx EXCEPT ![x] = q] /\ q.state = outcome
                              /\ q.entered = tx[x].entered
      BY <2>1, SettleWrites
    <2>3. q.state \notin Early /\ q.state # "cancelled-before-provider"
      BY <2>2 DEF Outcomes, Early
    <2>4. /\ gmail[x].asked \in Nat /\ gmail[x].mailed \in Nat /\ gmail[x].refused \in Nat
          /\ CallOK(tx[x], gmail[x])
      BY DEF TypeInv, TypeOK, CallInv
    <2>5. /\ gmail[x].mailed + gmail[x].refused <= gmail[x].asked /\ gmail[x].asked <= 1
          /\ ~q.entered => gmail[x].asked = 0
      BY <2>2, <2>4 DEF CallOK
    <2>6. /\ q.state = "accepted" => gmail[x].mailed = 1
          /\ q.state = "definitive-failure" => gmail[x].mailed = 0 /\ gmail[x].asked = gmail[x].refused
      BY <1>5, <2>2, <2>4, <2>5
    <2>7. CallOK(q, gmail[x])
      BY <2>3, <2>5, <2>6 DEF CallOK
    <2>8. q.state \in Unsettled \/ gmail[x].asked # 0 \/ (IsPast(w) /\ run[w].x = x)
      BY <1>5, <2>2 DEF Unsettled
    <2> QED BY <1>4, <1>5, <2>2, <2>3, <2>7, <2>8
  \* The row that a release writes.
  <1>6. ASSUME NEW x \in Txs, ReleaseUnsent(x), gmail[x].asked = 0 \/ gmail[x].refused > 0,
               ~IsPast(w)' /\ \A v \in Workers : v # w => run'[v] = run[v],
               (IsPast(w) /\ run[w].x = x) \/ ~tx[x].entered
        PROVE  CallInv'
    <2>2. PICK q \in TxRows : /\ tx' = [tx EXCEPT ![x] = q]
                              /\ q.state = "cancelled-before-provider"
                              /\ q.entered = tx[x].entered
      BY <1>6, ReleaseWrites
    <2>4. /\ gmail[x].asked \in Nat /\ gmail[x].mailed \in Nat /\ gmail[x].refused \in Nat
          /\ CallOK(tx[x], gmail[x])
      BY DEF TypeInv, TypeOK, CallInv
    <2>5. /\ gmail[x].mailed + gmail[x].refused <= gmail[x].asked /\ gmail[x].asked <= 1
          /\ ~q.entered => gmail[x].asked = 0
      BY <2>2, <2>4 DEF CallOK
    <2>6. gmail[x].mailed = 0 /\ gmail[x].asked = gmail[x].refused
      BY <1>6, <2>4, <2>5
    <2>7. CallOK(q, gmail[x]) /\ q.state \notin Early
      BY <2>2, <2>5, <2>6 DEF CallOK, Early
    <2> QED BY <1>4, <1>6, <2>2, <2>7
  <1>7. \A x \in Txs : gmail[x].mailed > 0 => gmail[x].asked # 0
    <2> SUFFICES ASSUME NEW x \in Txs PROVE gmail[x].mailed > 0 => gmail[x].asked # 0
      OBVIOUS
    <2>1. /\ gmail[x].asked \in Nat /\ gmail[x].mailed \in Nat /\ gmail[x].refused \in Nat
          /\ gmail[x].mailed + gmail[x].refused <= gmail[x].asked
      BY DEF TypeInv, TypeOK, CallInv, CallOK
    <2> QED BY <2>1
  <1> DEFINE x == run[w].x
  <1>8. run[w].pc \notin {"idle", "ready"} => x \in Txs
    BY DEF TypeInv, Placed
  <1>10. IsPast(w) => RunHolds(w)
    BY DEF CallInv
  <1>11. CASE LookupFound(w)
    <2>1. x \in Txs /\ gmail[x].mailed > 0 /\ run[w].pc = "lookup" /\ Rest(w)
      BY <1>8, <1>11 DEF LookupFound, At
    <2>2. tx' = tx \/ Resolves(x, "accepted")
      BY <1>11 DEF LookupFound, Resolves, Reconcilable
    <2>3. ~IsPast(w)' /\ \A v \in Workers : v # w => run'[v] = run[v]
      BY <2>1, RunMoves
    <2> QED BY <1>3, <1>5, <1>7, <2>1, <2>2, <2>3 DEF Outcomes
  <1>12. CASE LookupMissing(w)
    <2>1. x \in Txs /\ Rest(w)
      BY <1>8, <1>12 DEF LookupMissing, At
    <2>2. tx' = tx \/ Resolves(x, "ambiguous")
      BY <1>12 DEF LookupMissing, Resolves, Finalizable
    <2>3. ~IsPast(w)' /\ \A v \in Workers : v # w => run'[v] = run[v]
      BY <2>1, RunMoves
    <2> QED BY <1>3, <1>5, <2>1, <2>2, <2>3 DEF Outcomes
  <1>13. CASE SearchFound(w)
    <2>1. x \in Txs /\ gmail[x].mailed > 0 /\ LeaveTouch(w)
      BY <1>8, <1>13 DEF SearchFound, At
    <2>2. Resolves(x, "accepted")
      BY <1>13 DEF SearchFound, Resolves
    <2>3. ~IsPast(w)' /\ \A v \in Workers : v # w => run'[v] = run[v]
      BY <2>1, RunMoves
    <2> QED BY <1>5, <1>7, <2>1, <2>2, <2>3 DEF Outcomes
  <1>14. CASE Record(w)
    <2>1. x \in Txs /\ run[w].pc = "record" /\ IsPast(w) /\ LeaveTouch(w)
      BY <1>8, <1>14 DEF Record, At, IsPast, Past
    <2>2. tx' = tx \/ Resolves(x, run[w].outcome)
      BY <1>14 DEF Record, Resolves, Finalizable
    <2>3. ~IsPast(w)' /\ \A v \in Workers : v # w => run'[v] = run[v]
      BY <2>1, RunMoves
    <2>4. run[w].outcome \in Outcomes
      BY <2>1 DEF TypeInv, Placed
    <2>5. /\ run[w].outcome = "accepted" => gmail[x].mailed > 0
          /\ run[w].outcome = "definitive-failure" => gmail[x].refused > 0
      BY <1>10, <2>1 DEF RunHolds, RunOK
    <2> QED BY <1>3, <1>5, <2>1, <2>2, <2>3, <2>4, <2>5
  <1>15. CASE ReleaseRefused(w)
    <2>1. x \in Txs /\ run[w].pc = "release" /\ IsPast(w) /\ Rest(w)
      BY <1>8, <1>15 DEF ReleaseRefused, At, IsPast, Past
    <2>2. tx' = tx \/ ReleaseUnsent(x)
      BY <1>15 DEF ReleaseRefused
    <2>3. ~IsPast(w)' /\ \A v \in Workers : v # w => run'[v] = run[v]
      BY <2>1, RunMoves
    <2>4. gmail[x].asked = 0 \/ gmail[x].refused > 0
      BY <1>10, <2>1 DEF RunHolds, RunOK
    <2> QED BY <1>3, <1>6, <2>1, <2>2, <2>3, <2>4
  <1>16. CASE \E y \in Txs : ReleaseUnentered(w, y)
    <2>1. PICK y \in Txs : ReleaseUnentered(w, y)
      BY <1>16
    <2>2. ReleaseUnsent(y) /\ ~tx[y].entered /\ run' = run /\ run[w].pc = "idle"
      BY <2>1 DEF ReleaseUnentered, At
    <2>3. gmail[y].asked = 0
      BY <2>2 DEF CallInv, CallOK
    <2>4. ~IsPast(w)' /\ \A v \in Workers : v # w => run'[v] = run[v]
      BY <2>2 DEF IsPast, Past
    <2> QED BY <1>6, <2>2, <2>3, <2>4
  <1> QED BY <1>11, <1>12, <1>13, <1>14, <1>15, <1>16 DEF OutcomeStep

(* A run on its way to the seam: at the final gate it becomes the only one *)
(* past the authorization, and it enters the seam before anything is asked.*)
LEMMA CallSends ==
  ASSUME TypeInv, TypeInv', ClaimInv, QueueInv, CallInv, NEW w \in Workers,
         \/ Prepare(w) \/ Issue(w) \/ ReadGateContext(w) \/ Authorize(w) \/ EnterSeam(w)
         \/ \E c \in Campaigns : Claim(w, c) \/ Renew(w, c)
  PROVE  CallInv'
  <1> DEFINE x == run[w].x
  <1>1. gmail' = gmail /\ run \in [Workers -> Runs]
    BY DEF Prepare, Issue, ReadGateContext, Authorize, EnterSeam, Claim, Renew, TypeInv, TypeOK
  <1>2. ASSUME NEW y \in Txs
        PROVE  /\ gmail[y].asked \in Nat /\ gmail[y].mailed \in Nat /\ gmail[y].refused \in Nat
               /\ CallOK(tx[y], gmail[y])
    BY DEF TypeInv, TypeOK, CallInv
  <1>3. ASSUME tx' = tx, ~IsPast(w)', \A v \in Workers : v # w => run'[v] = run[v]
        PROVE  CallInv'
    <2>1. \A y \in Txs : CallOK(tx[y], gmail[y])' /\ Keeps(y)
      BY <1>1, <1>3, KeptRows
    <2> QED BY <1>3, <2>1, CallByRun
  <1>4. CASE \E c \in Campaigns : Claim(w, c) \/ Renew(w, c)
    <2>1. PICK c \in Campaigns : Claim(w, c) \/ Renew(w, c)
      BY <1>4
    <2>2. tx' = tx
      BY <2>1 DEF Claim, Renew
    <2>3. run'[w].pc \in {"claimed", "prepared"} /\ \A v \in Workers : v # w => run'[v] = run[v]
      <3>1. CASE Claim(w, c)
        BY <1>1, <3>1 DEF Claim, Runs
      <3>2. CASE Renew(w, c)
        <4>1. run' = [run EXCEPT ![w].pc = "prepared", ![w].x = <<c, touch[c].tx>>,
                                 ![w].snap = NoSnap]
          BY <3>2 DEF Renew
        <4> QED BY <1>1, <4>1 DEF Runs
      <3> QED BY <2>1, <3>1, <3>2
    <2> QED BY <1>3, <2>2, <2>3 DEF IsPast, Past
  <1>5. CASE ReadGateContext(w)
    <2>1. tx' = tx
      BY <1>5 DEF ReadGateContext
    <2>2. run'[w].pc = "gate" /\ \A v \in Workers : v # w => run'[v] = run[v]
      BY <1>1, <1>5 DEF ReadGateContext, Runs
    <2> QED BY <1>3, <2>1, <2>2 DEF IsPast, Past
  <1>6. CASE Issue(w)
    <2>1. run'[w].pc = "issued" /\ \A v \in Workers : v # w => run'[v] = run[v]
      BY <1>1, <1>6 DEF Issue, Runs
    <2>2. PICK q \in TxRows : /\ tx' = [tx EXCEPT ![x] = q] /\ q.state = tx[x].state
                              /\ q.entered = tx[x].entered
      BY <1>6, IssueWrites
    <2>3. x \in Txs
      BY <1>6, IssueWrites
    <2>4. CallOK(q, gmail[x])
      BY <1>2, <2>2, <2>3 DEF CallOK
    <2>5. KeepsRow(tx[x], gmail[x], q, gmail[x])
      BY <1>2, <2>2, <2>3 DEF KeepsRow
    <2> QED BY <1>1, <2>1, <2>2, <2>3, <2>4, <2>5, CallWithRow DEF IsPast, Past
  <1>7. CASE Prepare(w)
    <2>1. run'[w].pc = "prepared" /\ \A v \in Workers : v # w => run'[v] = run[v]
      BY <1>1, <1>7 DEF Prepare, Runs
    <2>2. PICK q \in TxRows : /\ tx' = [tx EXCEPT ![x] = q] /\ q.state = "prepared"
                              /\ q.entered = FALSE
      BY <1>7, PrepareWrites
    <2>3. x \in Txs
      BY <1>7, PrepareWrites
    <2>4. tx[x].state = "none"
      <3>1. /\ run[w].pc = "claimed" /\ touch[Owner(x)].state = "claimed"
            /\ touch[Owner(x)].token = run[w].snap.token
            /\ touch[Owner(x)].ordinal = run[w].snap.ordinal /\ touch[Owner(x)].tx = 0
        BY <1>7 DEF Prepare, At, Mine
      <3>2. GenerationsOf(Owner(x))[x[2]].state = "none"
        BY <3>1 DEF ClaimInv, ClaimHolds, ClaimOK
      <3> QED BY <2>3, <3>2, GenerationsOfTypes DEF TypeInv
    <2>5. ~tx[x].entered /\ gmail[x].asked = 0
      BY <1>2, <2>3, <2>4 DEF CallOK, Early
    <2>6. CallOK(q, gmail[x])
      BY <1>2, <2>2, <2>3, <2>5 DEF CallOK
    <2>7. KeepsRow(tx[x], gmail[x], q, gmail[x])
      BY <1>2, <2>3, <2>4, <2>5 DEF KeepsRow, Early
    <2> QED BY <1>1, <2>1, <2>2, <2>3, <2>6, <2>7, CallWithRow DEF IsPast, Past
  <1>8. CASE Authorize(w)
    <2>1. /\ run'[w].pc = "boundary" /\ run'[w].x = x
          /\ \A v \in Workers : v # w => run'[v] = run[v]
      BY <1>1, <1>8 DEF Authorize, Runs
    <2>2. PICK q \in TxRows : /\ tx' = [tx EXCEPT ![x] = q] /\ q.state = "provider-pending"
                              /\ q.entered = tx[x].entered
      BY <1>8, AuthorizeWrites
    <2>3. x \in Txs /\ tx[x].state = "prepared" /\ tx \in [Txs -> TxRows]
      BY <1>8, AuthorizeWrites DEF Authorize, TypeInv, TypeOK
    <2>4. ~tx[x].entered /\ gmail[x].asked = 0
      BY <1>2, <2>3 DEF CallOK, Early
    <2>5. CallOK(q, gmail[x])
      BY <1>2, <2>2, <2>3, <2>4 DEF CallOK, Early
    <2>6. KeepsRow(tx[x], gmail[x], q, gmail[x])
      BY <1>2, <2>2, <2>3, <2>4 DEF KeepsRow, Early
    <2>7. RunHolds(w)'
      <3>1. tx'[x].state = "provider-pending"
        BY <2>2, <2>3
      <3> QED BY <2>1, <3>1 DEF RunHolds, RunOK, Early
    <2>8. \A v \in Workers : v # w /\ IsPast(v) => run[v].x # x
      BY <2>3 DEF CallInv, RunHolds, RunOK, Early
    <2> HIDE DEF x
    <2> QED BY <1>1, <2>1, <2>2, <2>3, <2>5, <2>6, <2>7, <2>8, CallWithRow
  <1>9. CASE EnterSeam(w)
    <2>1. /\ run'[w].pc = "send" /\ run'[w].x = x
          /\ \A v \in Workers : v # w => run'[v] = run[v]
      BY <1>1, <1>9 DEF EnterSeam, Runs
    <2>2. PICK q \in TxRows : /\ tx' = [tx EXCEPT ![x] = q] /\ q.state = tx[x].state
                              /\ q.entered = TRUE
      BY <1>9, SeamWrites
    <2>3. /\ x \in Txs /\ tx[x].state = "provider-pending" /\ tx \in [Txs -> TxRows]
          /\ IsPast(w)
      BY <1>9, SeamWrites DEF EnterSeam, TypeInv, TypeOK, At, IsPast, Past
    <2>4. gmail[x].asked = 0
      <3>1. ~tx[x].entered
        BY <1>9 DEF EnterSeam
      <3> QED BY <1>2, <2>3, <3>1 DEF CallOK
    <2>5. CallOK(q, gmail[x])
      BY <1>2, <2>2, <2>3, <2>4 DEF CallOK, Early
    <2>6. RunHolds(w)'
      <3>1. tx'[x].state = "provider-pending" /\ tx'[x].entered
        BY <2>2, <2>3
      <3> QED BY <1>1, <2>1, <2>4, <3>1 DEF RunHolds, RunOK, Early, Unsettled
    <2> HIDE DEF x
    <2> QED BY <1>1, <2>1, <2>2, <2>3, <2>5, <2>6, CallWithRow DEF x
  <1> QED BY <1>4, <1>5, <1>6, <1>7, <1>8, <1>9

(* Cancelling and releasing reach only what is prepared.                   *)
LEMMA CallDrops ==
  ASSUME TypeInv, TypeInv', CallInv, run' = run, gmail' = gmail, NEW dropped,
         \A x \in dropped : x \in Txs /\ tx[x].state = "prepared",
         \A x \in Txs : x \notin dropped => tx'[x] = tx[x],
         \A x \in dropped : /\ tx'[x].state = "cancelled-before-provider"
                            /\ tx'[x].entered = tx[x].entered
  PROVE  CallInv'
  <1>1. ASSUME NEW x \in Txs, x \notin dropped PROVE CallOK(tx[x], gmail[x])' /\ Keeps(x)
    BY <1>1, KeptRows
  <1>2. ASSUME NEW x \in dropped PROVE CallOK(tx[x], gmail[x])' /\ Keeps(x)
    <2>1. x \in Txs /\ tx[x].state = "prepared"
      BY <1>2
    <2>2. tx'[x].state = "cancelled-before-provider" /\ tx'[x].entered = tx[x].entered
      BY <1>2
    <2>3. /\ gmail[x].asked \in Nat /\ gmail[x].mailed \in Nat /\ gmail[x].refused \in Nat
          /\ CallOK(tx[x], gmail[x])
      BY <2>1 DEF TypeInv, TypeOK, CallInv
    <2>4. ~tx[x].entered /\ gmail[x].asked = 0
      BY <2>1, <2>3 DEF CallOK, Early
    <2>5. CallOK(tx[x], gmail[x])'
      BY <2>2, <2>3, <2>4 DEF CallOK, Early
    <2>6. Keeps(x)
      BY <2>2, <2>3, <2>4 DEF Keeps, KeepsRow, Early
    <2> QED BY <2>5, <2>6
  <1>3. \A x \in Txs : CallOK(tx[x], gmail[x])' /\ Keeps(x)
    BY <1>1, <1>2
  <1> QED BY <1>3, CallElsewhere

(* Gmail answers only what it was asked.                                   *)
LEMMA CallAnswers ==
  ASSUME TypeInv, TypeInv', CallInv, NEW x \in Txs, Accept(x) \/ Refuse(x)
  PROVE  CallInv'
  <1> DEFINE g == gmail[x]
  <1>1. gmail \in [Txs -> Calls] /\ g \in Calls /\ CallOK(tx[x], g)
    BY DEF TypeInv, TypeOK, Calls, CallInv
  <1>2. tx' = tx /\ run' = run /\ g.asked > g.mailed + g.refused
    BY DEF Accept, Refuse, Unanswered
  <1>3. PICK g2 \in Calls : /\ gmail' = [gmail EXCEPT ![x] = g2] /\ g2.asked = g.asked
                            /\ \/ g2.mailed = g.mailed + 1 /\ g2.refused = g.refused
                               \/ g2.mailed = g.mailed /\ g2.refused = g.refused + 1
    <2>1. CASE Accept(x)
      <3> DEFINE n == g.mailed + 1
                 h == [g EXCEPT !.mailed = n]
      <3>1. gmail' = [gmail EXCEPT ![x] = h] /\ n \in Nat
        BY <1>1, <2>1 DEF Accept, Calls
      <3> HIDE DEF n
      <3>2. h \in Calls /\ h.asked = g.asked /\ h.mailed = n /\ h.refused = g.refused
        BY <1>1, <3>1 DEF Calls
      <3> HIDE DEF h
      <3> QED BY <3>1, <3>2 DEF n
    <2>2. CASE Refuse(x)
      <3> DEFINE n == g.refused + 1
                 h == [g EXCEPT !.refused = n]
      <3>1. gmail' = [gmail EXCEPT ![x] = h] /\ n \in Nat
        BY <1>1, <2>2 DEF Refuse, Calls
      <3> HIDE DEF n
      <3>2. h \in Calls /\ h.asked = g.asked /\ h.refused = n /\ h.mailed = g.mailed
        BY <1>1, <3>1 DEF Calls
      <3> HIDE DEF h
      <3> QED BY <3>1, <3>2 DEF n
    <2> QED BY <2>1, <2>2
  <1> HIDE DEF g
  <1>4. /\ g.asked \in Nat /\ g.mailed \in Nat /\ g.refused \in Nat
        /\ g.mailed + g.refused <= g.asked /\ g.asked <= 1
    BY <1>1 DEF Calls, CallOK
  <1>5. g.asked = 1 /\ g.mailed = 0 /\ g.refused = 0
    BY <1>2, <1>4
  <1>6. /\ tx[x].entered
        /\ tx[x].state \notin Early \cup {"accepted", "definitive-failure",
                                          "cancelled-before-provider"}
    BY <1>1, <1>5 DEF CallOK
  <1>7. CallOK(tx[x], g2)
    BY <1>3, <1>5, <1>6 DEF CallOK
  <1>8. KeepsRow(tx[x], g, tx[x], g2)
    BY <1>3, <1>5 DEF KeepsRow
  <1>9. gmail'[x] = g2 /\ \A y \in Txs : y # x => gmail'[y] = gmail[y]
    BY <1>1, <1>3
  <1>10. CallOK(tx[x], gmail[x])' /\ Keeps(x)
    BY <1>2, <1>7, <1>8, <1>9 DEF Keeps, g
  <1>11. \A y \in Txs : y # x => CallOK(tx[y], gmail[y])' /\ Keeps(y)
    BY <1>2, <1>9, KeptRows
  <1>12. \A y \in Txs : CallOK(tx[y], gmail[y])' /\ Keeps(y)
    BY <1>10, <1>11
  <1> QED BY <1>2, <1>12, CallElsewhere

LEMMA CallInit == Init => CallInv
  <1> SUFFICES ASSUME Init PROVE CallInv
    OBVIOUS
  <1>1. ASSUME NEW x \in Txs PROVE CallOK(tx[x], gmail[x])
    <2>1. tx[x].state = "none" /\ tx[x].entered = FALSE
      BY <1>1 DEF Init, NoTx
    <2>2. gmail[x].asked = 0 /\ gmail[x].mailed = 0 /\ gmail[x].refused = 0
      BY <1>1 DEF Init
    <2> QED BY <2>1, <2>2 DEF CallOK
  <1>2. \A w \in Workers : ~IsPast(w)
    BY DEF Init, Idle, IsPast, Past
  <1> QED BY <1>1, <1>2 DEF CallInv, Alone

LEMMA CallNext ==
  ASSUME TypeInv, TypeInv', QueueInv, ClaimInv, CallInv, Next
  PROVE  CallInv'
  <1>1. ASSUME UNCHANGED <<tx, gmail, run>> PROVE CallInv'
    <2>1. \A x \in Txs : CallOK(tx[x], gmail[x])' /\ Keeps(x)
      BY <1>1, KeptRows
    <2> QED BY <1>1, <2>1, CallElsewhere
  <1>2. CASE \E w \in Workers : QuietStep(w)
    BY <1>2, CallQuiet, CallAsks
  <1>3. CASE \E w \in Workers : OutcomeStep(w)
    BY <1>3, CallRecords
  <1>4. CASE \E w \in Workers : \/ Prepare(w) \/ Issue(w) \/ ReadGateContext(w) \/ Authorize(w)
                                \/ EnterSeam(w) \/ \E c \in Campaigns : Claim(w, c) \/ Renew(w, c)
    BY <1>4, CallSends
  <1>5. ASSUME NEW S, CancelWorkOf(S), UNCHANGED <<run, gmail>> PROVE CallInv'
    <2> DEFINE dropped == {x \in Prepared : Owner(x) \in S}
    <2>1. tx' = [x \in Txs |-> IF x \notin dropped THEN tx[x]
                  ELSE [tx[x] EXCEPT !.state = "cancelled-before-provider", !.rv = tx[x].rv + 1]]
      BY <1>5 DEF CancelWorkOf
    <2>2. \A x \in dropped : x \in Txs /\ tx[x].state = "prepared"
      BY DEF Prepared
    <2> HIDE DEF dropped
    <2>3. /\ \A x \in Txs : x \notin dropped => tx'[x] = tx[x]
          /\ \A x \in dropped : /\ tx'[x].state = "cancelled-before-provider"
                                 /\ tx'[x].entered = tx[x].entered
      BY <2>1, <2>2, DroppedRows
    <2> QED BY <1>5, <2>2, <2>3, CallDrops
  <1>6. ASSUME ReleasePrepared, UNCHANGED <<run, gmail>> PROVE CallInv'
    <2> DEFINE dropped == {x \in Prepared : /\ touch[Owner(x)].state = "claimed"
                                            /\ Holds(Owner(x), x)}
    <2>1. tx' = [x \in Txs |-> IF x \notin dropped THEN tx[x]
                  ELSE [tx[x] EXCEPT !.state = "cancelled-before-provider", !.rv = tx[x].rv + 1]]
      BY <1>6 DEF ReleasePrepared
    <2>2. \A x \in dropped : x \in Txs /\ tx[x].state = "prepared"
      BY DEF Prepared
    <2> HIDE DEF dropped
    <2>3. /\ \A x \in Txs : x \notin dropped => tx'[x] = tx[x]
          /\ \A x \in dropped : /\ tx'[x].state = "cancelled-before-provider"
                                 /\ tx'[x].entered = tx[x].entered
      BY <2>1, <2>2, DroppedRows
    <2> QED BY <1>6, <2>2, <2>3, CallDrops
  <1>7. CASE \E c \in Campaigns : Ended(c)
    <2>1. PICK c \in Campaigns : \E next : EndCampaign(c, next) /\ UNCHANGED <<gmail, run>>
      BY <1>7 DEF Ended, Expire, Stop, ReceiveMaterials, DemandAction
    <2> QED BY <1>5, <2>1 DEF EndCampaign
  <1>8. CASE \E c \in Campaigns : ClaimLapses(c)
    BY <1>1, <1>8 DEF ClaimLapses
  <1>9. CASE \E x \in Txs : Accept(x) \/ Refuse(x)
    BY <1>9, CallAnswers
  <1>10. CASE Replies
    <2>1. CASE ApplyReply
      BY <1>5, <2>1 DEF ApplyReply, EndConversation
    <2> QED BY <1>1, <1>10, <2>1 DEF Replies, RecordReply, SettleReply
  <1>11. CASE Switch
    <2>1. UNCHANGED <<tx, gmail, run>> \/ (ReleasePrepared /\ UNCHANGED <<run, gmail>>)
      BY <1>11 DEF Switch, ChainOff, FreePrepared, ChainOn
    <2> QED BY <1>1, <1>6, <2>1
  <1> QED BY <1>2, <1>3, <1>4, <1>7, <1>8, <1>9, <1>10, <1>11, Steps

-----------------------------------------------------------------------------
(* The invariant of the whole, and what the runs check of it. *)

CimInv == TypeInv /\ QueueInv /\ ClaimInv /\ CallInv

(* The invariant is inductive.                                             *)
LEMMA CimInductive == (Init => CimInv) /\ (CimInv /\ [Next]_vars => CimInv')
  <1>1. Init => CimInv
    BY TypeInit, QueueInit, CallInit DEF CimInv
  <1>2. ASSUME CimInv, Next PROVE CimInv'
    <2>1. TypeInv'
      BY <1>2, TypeNext DEF CimInv
    <2>2. QueueInv'
      BY <1>2, <2>1, QueueNext DEF CimInv, QueueStep
    <2> QED BY <1>2, <2>1, <2>2, ClaimNext, CallNext DEF CimInv
  <1>3. ASSUME CimInv, UNCHANGED vars PROVE CimInv'
    <2>1. TypeInv'
      BY <1>3, TypeNext DEF CimInv
    <2>2. QueueInv'
      BY <1>3 DEF CimInv, QueueInv, GenerationsOf, vars
    <2>3. ClaimInv'
      BY <1>3 DEF CimInv, ClaimInv, ClaimHolds, GenerationsOf, vars
    <2>4. CallInv'
      BY <1>3 DEF CimInv, CallInv, Alone, IsPast, RunHolds, vars
    <2> QED BY <2>1, <2>2, <2>3, <2>4 DEF CimInv
  <1> QED BY <1>1, <1>2, <1>3

(* Gmail is asked for a transmission at most once, however often its sender *)
(* runs crash, time out or meet another run (runCimSenderOnce, the provider *)
(* seam of pursueCimSender.js).                                             *)
THEOREM CalledOnce == Spec => []OneCall
  <1>1. CimInv => OneCall
    BY DEF CimInv, CallInv, CallOK, OneCall
  <1> QED BY <1>1, CimInductive, PTL DEF Spec

(* An accepted transmission was mailed; one that failed, was released or    *)
(* cancelled is neither in the mailbox nor on its way (finalizeCimTransmission, *)
(* reconcileCimTransmission, releaseUnsentCimTransmission).                 *)
THEOREM RecordsTrue == Spec => []RecordsAreTrue
  <1>1. ASSUME CimInv PROVE RecordsAreTrue
    <2> SUFFICES ASSUME NEW x \in Txs
                 PROVE  /\ tx[x].state = "accepted" => gmail[x].mailed = 1
                        /\ tx[x].state \in {"definitive-failure", "cancelled-before-provider",
                                            "prepared", "none"} =>
                             gmail[x].mailed = 0 /\ ~Unanswered(x)
      BY DEF RecordsAreTrue
    <2>1. /\ gmail[x].asked \in Nat /\ gmail[x].mailed \in Nat /\ gmail[x].refused \in Nat
          /\ CallOK(tx[x], gmail[x])
      BY <1>1 DEF CimInv, TypeInv, TypeOK, CallInv
    <2>2. tx[x].state \in Early => gmail[x].asked = 0
      BY <2>1 DEF CallOK
    <2> QED BY <2>1, <2>2 DEF CallOK, Unanswered, Early
  <1> QED BY <1>1, CimInductive, PTL DEF Spec

(* A broker gets each touch once: of two transmissions of one touch that    *)
(* were both called, Gmail refused one (prepareCimTransmission's            *)
(* generations).                                                            *)
THEOREM MailedOnce == Spec => []OneMailPerTouch
  <1>1. ASSUME CimInv PROVE OneMailPerTouch
    <2> SUFFICES ASSUME NEW x \in Txs, NEW y \in Txs, x # y, Owner(x) = Owner(y),
                        tx[x].ordinal = tx[y].ordinal, gmail[x].asked > 0, gmail[y].asked > 0
                 PROVE  gmail[x].refused > 0 \/ gmail[y].refused > 0
      BY DEF OneMailPerTouch
    <2> DEFINE c == Owner(x)
               t == touch[c]
               T == GenerationsOf(c)
    <2>1. /\ c \in Campaigns /\ x[2] \in 1 .. MaxTx /\ y[2] \in 1 .. MaxTx /\ x[2] # y[2]
      BY RowTypes, <1>1 DEF CimInv, TypeInv
    <2>2. T[x[2]] = tx[x] /\ T[y[2]] = tx[y] /\ QueueOK(t, T) /\ t \in TouchRows
          /\ tx[x] \in TxRows /\ tx[y] \in TxRows
      BY <1>1, <2>1, GenerationsOfTypes DEF CimInv, TypeInv, TypeOK, QueueInv
    <2>3. ASSUME NEW z \in Txs, gmail[z].asked > 0
          PROVE  tx[z].state # "none" /\ (tx[z].state = "cancelled-before-provider"
                                             => gmail[z].refused > 0)
      <3>1. /\ gmail[z].asked \in Nat /\ CallOK(tx[z], gmail[z])
        BY <1>1 DEF CimInv, TypeInv, TypeOK, CallInv
      <3> QED BY <2>3, <3>1 DEF CallOK, Early
    <2>4. t.ordinal \in Nat /\ tx[x].ordinal \in Nat /\ tx[y].ordinal \in Nat
      BY <2>2, CimAssumption DEF TouchRows, TxRows
    <2> HIDE DEF T, t, c
    <2>5. /\ x[2] = t.tx \/ Behind(t, tx[x])
          /\ y[2] = t.tx \/ Behind(t, tx[y])
      BY <2>1, <2>2, <2>3 DEF QueueOK, InOrder
    <2>6. ~(tx[x].state = "accepted" /\ tx[y].state = "accepted")
      BY <2>1, <2>2 DEF QueueOK, AcceptedOnce
    <2>7. /\ x[2] = t.tx => tx[x].ordinal = t.ordinal
          /\ y[2] = t.tx => tx[y].ordinal = t.ordinal
      BY <2>1, <2>2, CimAssumption DEF QueueOK, Agrees
    <2> QED BY <2>1, <2>3, <2>4, <2>5, <2>6, <2>7 DEF Behind
  <1> QED BY <1>1, CimInductive, PTL DEF Spec

(* A follow-up is prepared only after the touch before it was accepted      *)
(* (finalizeCimTransmission schedules the next touch).                      *)
THEOREM FollowUpsInOrder == Spec => []FollowUpsFollow
  <1>1. ASSUME CimInv PROVE FollowUpsFollow
    <2> SUFFICES ASSUME NEW x \in Txs, tx[x].state # "none", tx[x].ordinal > 0
                 PROVE  \E y \in Txs : /\ Owner(y) = Owner(x)
                                       /\ tx[y].ordinal = tx[x].ordinal - 1
                                       /\ tx[y].state = "accepted"
      BY DEF FollowUpsFollow
    <2> DEFINE c == Owner(x)
               t == touch[c]
               T == GenerationsOf(c)
    <2>1. c \in Campaigns /\ x[2] \in 1 .. MaxTx
      BY <1>1, RowTypes DEF CimInv, TypeInv
    <2>2. T[x[2]] = tx[x] /\ QueueOK(t, T) /\ t \in TouchRows /\ tx[x] \in TxRows
      BY <1>1, <2>1, GenerationsOfTypes DEF CimInv, TypeInv, TypeOK, QueueInv
    <2>3. t.ordinal \in Nat /\ tx[x].ordinal \in Nat
      BY <2>2, CimAssumption DEF TouchRows, TxRows
    <2>4. \A n \in 1 .. MaxTx : T[n] = tx[<<c, n>>] /\ <<c, n>> \in Txs /\ Owner(<<c, n>>) = c
      BY <2>1 DEF GenerationsOf, Txs, Owner
    <2> HIDE DEF T, t, c
    <2>5. x[2] = t.tx \/ Behind(t, tx[x])
      BY <2>1, <2>2 DEF QueueOK, InOrder
    <2>6. x[2] = t.tx => tx[x].ordinal = t.ordinal
      BY <2>1, <2>2, CimAssumption DEF QueueOK, Agrees
    <2>7. tx[x].ordinal - 1 \in Nat /\ tx[x].ordinal - 1 < t.ordinal
      BY <2>3, <2>5, <2>6 DEF Behind
    <2>8. PICK n \in 1 .. MaxTx : T[n].state = "accepted" /\ T[n].ordinal = tx[x].ordinal - 1
      BY <2>2, <2>7 DEF QueueOK, AcceptedBefore
    <2> QED BY <2>4, <2>8 DEF c
  <1> QED BY <1>1, CimInductive, PTL DEF Spec

(* An unsure send is the campaign's last: nothing is prepared after it      *)
(* until the owner or the mailbox decides it (claimDueCimTouches,           *)
(* prepareCimTransmission).                                                 *)
THEOREM UnsureLast == Spec => []UnsureIsLast
  <1>1. ASSUME CimInv PROVE UnsureIsLast
    <2> SUFFICES ASSUME NEW x \in Txs, NEW y \in Txs, Owner(x) = Owner(y),
                        tx[x].state = "ambiguous", y[2] > x[2], tx[y].state # "none"
                 PROVE  FALSE
      BY DEF UnsureIsLast
    <2> DEFINE c == Owner(x)
    <2>1. /\ c \in Campaigns /\ x[2] \in 1 .. MaxTx /\ y[2] \in 1 .. MaxTx
      BY <1>1, RowTypes DEF CimInv, TypeInv
    <2>2. touch[c].tx = x[2] /\ touch[c].tx # 0
      BY <1>1, OpenIsHeld DEF CimInv, TypeInv
    <2>3. GenerationsOf(c)[y[2]] = tx[y] /\ QueueOK(touch[c], GenerationsOf(c))
      BY <1>1, <2>1, GenerationsOfTypes DEF CimInv, TypeInv, QueueInv
    <2>4. y[2] <= x[2]
      BY <2>1, <2>2, <2>3 DEF QueueOK, InOrder
    <2> QED BY <2>1, <2>4
  <1> QED BY <1>1, CimInductive, PTL DEF Spec

-----------------------------------------------------------------------------
(* The conversation: what ends it empties the queue, what is unsure holds it. *)

Ends == {"responded", "stopped", "reply-review-required"}

(* What an outcome does to the transmissions and to the conversation.      *)
LEMMA OutcomeMoves ==
  ASSUME TypeInv, NEW x \in Txs, NEW outcome \in Outcomes, Resolves(x, outcome)
  PROVE  /\ tx'[x].state = outcome /\ \A y \in Txs : y # x => tx'[y] = tx[y]
         /\ \A d \in Campaigns : d # Owner(x) => camp'[d] = camp[d]
         /\ conv' = conv \/ conv'.state = "provider-ambiguous"
              \/ (conv'.state = "open" /\ outcome = "accepted" /\ Unresolved(x) = {})
         /\ outcome = "ambiguous" => conv.state # "open" \/ conv'.state # "open"
         /\ outcome = "ambiguous" => conv' = conv \/ conv'.state = "provider-ambiguous"
  <1>1. \E from : Settle(x, outcome, from)
    BY DEF Resolves, Finalize, ReconcileAccepted
  <1>2. PICK q \in TxRows : tx' = [tx EXCEPT ![x] = q] /\ q.state = outcome
    BY <1>1, SettleWrites
  <1>3. tx'[x].state = outcome /\ \A y \in Txs : y # x => tx'[y] = tx[y]
    BY <1>2 DEF TypeInv, TypeOK
  <1>4. \A d \in Campaigns : d # Owner(x) => camp'[d] = camp[d]
    BY <1>1 DEF Settle, TypeInv, TypeOK
  <1>5. \A s \in ConversationStates : ConversationMoves(s) => conv'.state = s
    BY ConversationTypes DEF TypeInv
  <1>6. "provider-ambiguous" \in ConversationStates /\ "open" \in ConversationStates
    BY DEF ConversationStates
  <1>7. CASE Finalize(x, outcome)
    <2>1. \/ conv' = conv /\ ~(outcome = "ambiguous" /\ conv.state = "open")
          \/ (outcome = "ambiguous" /\ ConversationMoves("provider-ambiguous"))
      BY <1>7 DEF Finalize
    <2> QED BY <1>3, <1>4, <1>5, <1>6, <2>1
  <1>8. CASE outcome = "accepted" /\ ReconcileAccepted(x)
    <2>1. conv' = conv \/ (Unresolved(x) = {} /\ ConversationMoves("open"))
      BY <1>8 DEF ReconcileAccepted
    <2> QED BY <1>3, <1>4, <1>5, <1>6, <1>8, <2>1
  <1> QED BY <1>7, <1>8 DEF Resolves

(* What an end of a campaign or of the conversation leaves prepared.       *)
LEMMA CancelMoves ==
  ASSUME TypeInv, NEW S, CancelWorkOf(S)
  PROVE  \A x \in Txs : /\ tx'[x].state = "prepared" => tx[x].state = "prepared" /\ Owner(x) \notin S
                        /\ tx'[x].state = "ambiguous" => tx[x].state = "ambiguous"
  <1> SUFFICES ASSUME NEW x \in Txs
               PROVE  /\ tx'[x].state = "prepared" => tx[x].state = "prepared" /\ Owner(x) \notin S
                      /\ tx'[x].state = "ambiguous" => tx[x].state = "ambiguous"
    OBVIOUS
  <1>1. tx'[x] = IF x \notin {y \in Prepared : Owner(y) \in S} THEN tx[x]
                 ELSE [tx[x] EXCEPT !.state = "cancelled-before-provider", !.rv = tx[x].rv + 1]
    BY DEF CancelWorkOf
  <1>2. [tx[x] EXCEPT !.state = "cancelled-before-provider", !.rv = tx[x].rv + 1].state
          = "cancelled-before-provider"
    BY DroppedRows
  <1> QED BY <1>1, <1>2 DEF Prepared

\* The steps that neither prepare nor decide anything, and move neither the campaigns nor the
\* conversation.
Plain == /\ camp' = camp /\ conv' = conv
         /\ \A x \in Txs : /\ tx'[x].state = "prepared" => tx[x].state = "prepared"
                           /\ tx'[x].state = "ambiguous" => tx[x].state = "ambiguous"

(* Every step is plain, prepares a transmission, records an outcome, or    *)
(* ends a campaign or the conversation.                                    *)
LEMMA PlainSteps ==
  ASSUME TypeInv, Next
  PROVE  \/ Plain
         \/ \E w \in Workers : Prepare(w)
         \/ \E x \in Txs, outcome \in Outcomes : Resolves(x, outcome)
         \/ conv' = conv /\ \E c \in Campaigns : \E next : EndCampaign(c, next)
         \/ \E next : EndConversation(next)
  <1>0. tx \in [Txs -> TxRows]
    BY DEF TypeInv, TypeOK
  <1>1. ASSUME UNCHANGED <<camp, conv, tx>> PROVE Plain
    BY <1>1 DEF Plain
  <1>2. ASSUME camp' = camp, conv' = conv, NEW x \in Txs, NEW q, tx' = [tx EXCEPT ![x] = q],
               q.state = tx[x].state \/ q.state \notin {"prepared", "ambiguous"}
        PROVE  Plain
    BY <1>0, <1>2 DEF Plain
  <1>3. CASE \E w \in Workers : QuietStep(w) \/ ReadGateContext(w)
    <2>1. UNCHANGED <<camp, conv, tx>>
      BY <1>3 DEF QuietStep, LookupFails, BeginSending, EndRun, Refused, Call, NotReached,
         HearAccepted, HearFailure, HearQuota, HearNothing, SearchFails, RecordFails, Crash,
         StartLookup, ReadGateContext
    <2> QED BY <1>1, <2>1
  <1>4. CASE \E w \in Workers : OutcomeStep(w)
    <2>1. CASE UNCHANGED <<camp, conv>> /\ \E x \in Txs : ReleaseUnsent(x)
      <3>1. PICK x \in Txs : ReleaseUnsent(x)
        BY <2>1
      <3>2. PICK q \in TxRows :
              tx' = [tx EXCEPT ![x] = q] /\ q.state = "cancelled-before-provider"
        BY <3>1, ReleaseWrites
      <3> QED BY <1>2, <2>1, <3>2
    <2> QED BY <1>1, <1>4, <2>1, OutcomeRows
  <1>5. CASE \E w \in Workers : Issue(w) \/ EnterSeam(w)
    <2>1. PICK w \in Workers : Issue(w) \/ EnterSeam(w)
      BY <1>5
    <2>2. PICK q \in TxRows : tx' = [tx EXCEPT ![run[w].x] = q] /\ q.state = tx[run[w].x].state
      BY <2>1, IssueWrites, SeamWrites
    <2>3. run[w].x \in Txs
      BY <2>1, IssueWrites, SeamWrites
    <2>4. camp' = camp /\ conv' = conv
      BY <2>1 DEF Issue, EnterSeam
    <2> QED BY <1>2, <2>2, <2>3, <2>4
  <1>6. CASE \E w \in Workers : Authorize(w)
    <2>1. PICK w \in Workers : Authorize(w)
      BY <1>6
    <2>2. PICK q \in TxRows : tx' = [tx EXCEPT ![run[w].x] = q] /\ q.state = "provider-pending"
      BY <2>1, AuthorizeWrites
    <2>3. run[w].x \in Txs
      BY <2>1, AuthorizeWrites
    <2>4. camp' = camp /\ conv' = conv
      BY <2>1 DEF Authorize
    <2> QED BY <1>2, <2>2, <2>3, <2>4
  <1>7. CASE \E w \in Workers, c \in Campaigns : Claim(w, c) \/ Renew(w, c)
    BY <1>1, <1>7 DEF Claim, Renew
  <1>8. CASE \E c \in Campaigns : Ended(c)
    BY <1>8 DEF Ended, Expire, Stop, ReceiveMaterials, DemandAction
  <1>9. CASE \E c \in Campaigns : ClaimLapses(c)
    BY <1>1, <1>9 DEF ClaimLapses
  <1>10. CASE \E x \in Txs : Accept(x) \/ Refuse(x)
    BY <1>1, <1>10 DEF Accept, Refuse
  <1>11. CASE Replies
    BY <1>1, <1>11 DEF Replies, RecordReply, ApplyReply, SettleReply
  <1>12. CASE Switch
    <2>1. UNCHANGED <<camp, conv>> /\ (tx' = tx \/ ReleasePrepared)
      BY <1>12 DEF Switch, ChainOff, FreePrepared, ChainOn
    <2>2. CASE ReleasePrepared
      <3>1. \A x \in Txs : tx'[x] = tx[x] \/ tx'[x] =
              [tx[x] EXCEPT !.state = "cancelled-before-provider", !.rv = tx[x].rv + 1]
        BY <2>2 DEF ReleasePrepared
      <3>2. \A x \in Txs : tx'[x].state = tx[x].state
                             \/ tx'[x].state = "cancelled-before-provider"
        BY <3>1, DroppedRows
      <3> QED BY <2>1, <3>2 DEF Plain
    <2> QED BY <1>1, <2>1, <2>2
  <1> QED BY <1>3, <1>4, <1>5, <1>6, <1>7, <1>8, <1>9, <1>10, <1>11, <1>12, Steps

(* Ending a campaign or the conversation leaves nothing prepared.          *)
LEMMA StopsNext ==
  ASSUME TypeInv, QueueInv, StopsReachTheQueue, Next
  PROVE  StopsReachTheQueue'
  <1>0. /\ camp \in [Campaigns -> CampaignRows] /\ tx \in [Txs -> TxRows]
        /\ \A x \in Txs : Owner(x) \in Campaigns /\ x = <<Owner(x), x[2]>>
    BY RowTypes DEF TypeInv, TypeOK
  <1>1. \A x \in Txs : tx[x].state = "prepared" => camp[Owner(x)].state \in Live
                                                     /\ conv.state \notin Ends
    BY DEF StopsReachTheQueue, Prepared, Ends
  <1> SUFFICES ASSUME NEW x \in Txs, tx'[x].state = "prepared"
               PROVE  camp'[Owner(x)].state \in Live /\ conv'.state \notin Ends
    BY DEF StopsReachTheQueue, Prepared, Ends
  <1>2. CASE Plain
    BY <1>1, <1>2 DEF Plain
  <1>3. CASE \E w \in Workers : Prepare(w)
    <2>1. PICK w \in Workers : Prepare(w)
      BY <1>3
    <2>2. /\ camp' = camp /\ conv' = conv /\ conv.state = "open"
          /\ camp[Owner(run[w].x)].state \in Live
      BY <2>1 DEF Prepare
    <2>3. x = run[w].x \/ tx'[x] = tx[x]
      BY <1>0, <2>1, PrepareWrites
    <2> QED BY <1>1, <2>2, <2>3 DEF Ends
  <1>4. CASE \E y \in Txs, outcome \in Outcomes : Resolves(y, outcome)
    <2>1. PICK y \in Txs, outcome \in Outcomes : Resolves(y, outcome)
      BY <1>4
    <2>2. x # y /\ tx[x].state = "prepared"
      BY <2>1, OutcomeMoves DEF Outcomes
    <2>3. tx[y].state \in {"provider-pending", "ambiguous"}
      BY <2>1 DEF Resolves
    <2>4. touch[Owner(x)].tx = x[2] /\ touch[Owner(y)].tx = y[2]
      BY <2>2, <2>3, OpenIsHeld DEF TypeInv
    <2>5. Owner(x) # Owner(y)
      BY <1>0, <2>2, <2>4
    <2>6. camp'[Owner(x)] = camp[Owner(x)] /\ (conv' = conv \/ conv'.state \notin Ends)
      BY <1>0, <2>1, <2>5, OutcomeMoves DEF Ends
    <2> QED BY <1>1, <2>2, <2>6
  <1>5. CASE conv' = conv /\ \E c \in Campaigns : \E next : EndCampaign(c, next)
    <2>1. PICK c \in Campaigns : \E next : EndCampaign(c, next)
      BY <1>5
    <2>2. tx[x].state = "prepared" /\ Owner(x) # c
      BY <2>1, CancelMoves DEF EndCampaign
    <2>3. camp'[Owner(x)] = camp[Owner(x)]
      BY <1>0, <2>1, <2>2 DEF EndCampaign
    <2> QED BY <1>1, <1>5, <2>2, <2>3
  <1>6. CASE \E next : EndConversation(next)
    <2>1. CancelWorkOf({c \in Campaigns : camp[c].state \notin Terminal})
      BY <1>6 DEF EndConversation
    <2>2. tx[x].state = "prepared" /\ camp[Owner(x)].state \in Terminal
      BY <1>0, <2>1, CancelMoves
    <2> QED BY <1>1, <2>2 DEF Live, Terminal
  <1> QED BY <1>2, <1>3, <1>4, <1>5, <1>6, PlainSteps

(* An unsure send makes an open conversation ambiguous, and it is opened   *)
(* again only when none is left.                                           *)
LEMMA UnsureNext ==
  ASSUME TypeInv, UnsureHoldsConversation, Next
  PROVE  UnsureHoldsConversation'
  <1> SUFFICES ASSUME NEW x \in Txs, tx'[x].state = "ambiguous" PROVE conv'.state # "open"
    BY DEF UnsureHoldsConversation
  <1>1. tx[x].state = "ambiguous" => conv.state # "open"
    BY DEF UnsureHoldsConversation
  <1>2. CASE Plain
    BY <1>1, <1>2 DEF Plain
  <1>3. CASE \E w \in Workers : Prepare(w)
    <2>1. PICK w \in Workers : Prepare(w)
      BY <1>3
    <2>2. PICK q \in TxRows : tx' = [tx EXCEPT ![run[w].x] = q] /\ q.state = "prepared"
      BY <2>1, PrepareWrites
    <2>3. tx'[x] = tx[x] /\ conv' = conv
      BY <2>1, <2>2 DEF Prepare, TypeInv, TypeOK
    <2> QED BY <1>1, <2>3
  <1>4. CASE \E y \in Txs, outcome \in Outcomes : Resolves(y, outcome)
    <2>1. PICK y \in Txs, outcome \in Outcomes : Resolves(y, outcome)
      BY <1>4
    <2>2. CASE x = y
      <3>1. outcome = "ambiguous"
        BY <2>1, <2>2, OutcomeMoves
      <3> QED BY <2>1, <3>1, OutcomeMoves
    <2>3. CASE x # y
      <3>1. tx[x].state = "ambiguous" /\ Unresolved(y) # {}
        BY <2>1, <2>3, OutcomeMoves DEF Unresolved
      <3> QED BY <1>1, <2>1, <3>1, OutcomeMoves
    <2> QED BY <2>2, <2>3
  <1>5. CASE conv' = conv /\ \E c \in Campaigns : \E next : EndCampaign(c, next)
    BY <1>1, <1>5, CancelMoves DEF EndCampaign
  <1>6. CASE \E next : EndConversation(next)
    <2>1. PICK next : next \in ReplyLegal[conv.state] /\ ConversationMoves(next)
      BY <1>6 DEF EndConversation
    <2>2. conv.state \in ConversationStates
      BY DEF TypeInv, TypeOK
    <2>3. next \in Ends /\ Ends \subseteq ConversationStates
      BY <2>1, <2>2 DEF ReplyLegal, Ends, ConversationStates
    <2>4. conv'.state = next
      BY <2>1, <2>3, ConversationTypes DEF TypeInv
    <2> QED BY <2>3, <2>4 DEF Ends
  <1> QED BY <1>2, <1>3, <1>4, <1>5, <1>6, PlainSteps

(* Both hold from the start and through every step.                        *)
LEMMA ConversationInductive ==
  /\ Init => StopsReachTheQueue /\ UnsureHoldsConversation
  /\ CimInv /\ StopsReachTheQueue /\ UnsureHoldsConversation /\ [Next]_vars
       => StopsReachTheQueue' /\ UnsureHoldsConversation'
  <1>1. Init => StopsReachTheQueue /\ UnsureHoldsConversation
    BY DEF Init, NoTx, StopsReachTheQueue, UnsureHoldsConversation, Prepared
  <1>2. ASSUME UNCHANGED vars, StopsReachTheQueue, UnsureHoldsConversation
        PROVE  StopsReachTheQueue' /\ UnsureHoldsConversation'
    BY <1>2 DEF vars, StopsReachTheQueue, UnsureHoldsConversation, Prepared
  <1>3. ASSUME CimInv, StopsReachTheQueue, UnsureHoldsConversation, Next
        PROVE  StopsReachTheQueue' /\ UnsureHoldsConversation'
    BY <1>3, StopsNext, UnsureNext DEF CimInv
  <1> QED BY <1>1, <1>2, <1>3

(* A reply, stop or expiry of the conversation leaves nothing in the queue *)
(* that a sender could still authorize (appendCimTerminalEvent).           *)
THEOREM StopsReach == Spec => []StopsReachTheQueue
  BY CimInductive, ConversationInductive, PTL DEF Spec

(* While any of its sends is unsure a conversation is not open, so the     *)
(* final gate authorizes nothing of it (finalizeCimTransmission,           *)
(* reconcileCimTransmission).                                              *)
THEOREM UnsureHolds == Spec => []UnsureHoldsConversation
  BY CimInductive, ConversationInductive, PTL DEF Spec
=============================================================================
