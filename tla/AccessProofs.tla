------------------------------ MODULE AccessProofs ------------------------------
(***************************************************************************)
(* Theorems about what is let through: AdminLinks for any addresses, links, *)
(* visits, sign-outs and restarts, HttpLimits (the instance Http) for any   *)
(* requests, buckets, limits, capacity and number of faults, and FinalGate  *)
(* (the instance Final) for any campaigns, policies, facts, calls and       *)
(* bounds.  Order: the links' types, the links that visits hold, what       *)
(* follows for sessions; what one request does to a count, the open         *)
(* responses, and the limits; then the authorizations of the gate as a set  *)
(* of distinct ids, their types, and three invariants on top of them:       *)
(* authorizations and mails agree, an unknown policy is reported once, and  *)
(* what a call has read is that of now as long as the revisions it read are. *)
(***************************************************************************)
EXTENDS AdminLinks, Integers, FiniteSets, FiniteSetTheorems, FunctionTheorems, TLAPS

(* Of HttpLimits: its constants, and its variables with asked for request *)
CONSTANTS Requests, Buckets, BucketsOf, Fallback, Uploads, Max, Capacity, MaxFaults
VARIABLES asked, stored, memory, slots, response, faults

Http == INSTANCE HttpLimits WITH request <- asked

LinkRows == [state : {"none", "open", "used", "gone"}, email : Emails \cup {None},
             role : Roles \cup {"none"}, expired : BOOLEAN]
SessionRows == [state : {"none", "live", "revoked", "gone"}, email : Emails \cup {None},
                role : Roles \cup {"none"}, from : Links \cup {None}, expired : BOOLEAN]
VisitRows == [pc : {"idle", "consumed", "done"}, link : Links \cup {None}]
SignOutRows == [pc : {"idle", "checked", "done"}, session : Visits \cup {None}, all : BOOLEAN]

-----------------------------------------------------------------------------
(* Types *)

(* A visit that consumed a link has it. *)
ConsumedALink == \A v \in Visits : visit[v].pc = "consumed" => visit[v].link \in Links
SignsOutOfOne == \A o \in SignOuts : signOut[o].pc = "checked" => signOut[o].session \in Visits
LinksTyped == TypeOK /\ ConsumedALink /\ SignsOutOfOne

LEMMA TypedAtFirst == ASSUME LinksAssumption, Init PROVE LinksTyped
  <1>1. NoLink \in LinkRows /\ NoSession \in SessionRows
    BY DEF NoLink, NoSession, LinkRows, SessionRows
  <1>2. NoVisit \in VisitRows /\ NoSignOut \in SignOutRows
    BY DEF NoVisit, NoSignOut, VisitRows, SignOutRows
  <1>3. /\ link \in [Links -> LinkRows] /\ session \in [Visits -> SessionRows]
        /\ visit \in [Visits -> VisitRows] /\ signOut \in [SignOuts -> SignOutRows]
    BY <1>1, <1>2 DEF Init
  <1>4. restarts \in 0..MaxRestarts
    BY DEF Init, LinksAssumption
  <1>5. /\ \A l \in Links : link[l].state = "none"
        /\ \A v \in Visits : visit[v].pc = "idle"
        /\ \A o \in SignOuts : signOut[o].pc = "idle"
    BY DEF Init, NoLink, NoVisit, NoSignOut
  <1>6. ConsumedALink /\ SignsOutOfOne
    BY <1>5 DEF ConsumedALink, SignsOutOfOne
  <1>7. /\ allowed \in Configurations /\ mailed \subseteq Links /\ withdrawn \subseteq Links
        /\ request \in [Links -> {"idle", "sending", "failed", "done"}]
    BY DEF Init
  <1> QED BY <1>3, <1>4, <1>5, <1>6, <1>7
          DEF TypeOK, LinksTyped, LinkRows, SessionRows, VisitRows, SignOutRows

(* Every step keeps the types. *)
LEMMA TypedKept ==
  ASSUME LinksAssumption, LinksTyped, [Next]_vars PROVE LinksTyped'
  <1> DEFINE RequestStates == {"idle", "sending", "failed", "done"}
             RoleGiven(row) == row.state # "none" => row.role \in Roles
  <1>0. /\ allowed \in Configurations
        /\ link \in [Links -> LinkRows] /\ \A l \in Links : RoleGiven(link[l])
        /\ request \in [Links -> RequestStates]
        /\ mailed \subseteq Links /\ withdrawn \subseteq Links
        /\ session \in [Visits -> SessionRows] /\ visit \in [Visits -> VisitRows]
        /\ signOut \in [SignOuts -> SignOutRows]
        /\ restarts \in 0..MaxRestarts
        /\ \A v \in Visits : visit[v].pc = "consumed" => visit[v].link \in Links
        /\ \A o \in SignOuts : signOut[o].pc = "checked" => signOut[o].session \in Visits
    BY DEF LinksTyped, TypeOK, LinkRows, SessionRows, VisitRows, SignOutRows, ConsumedALink,
           SignsOutOfOne
  <1>t. ASSUME allowed' \in Configurations,
               link' \in [Links -> LinkRows], \A l \in Links : RoleGiven(link'[l]),
               request' \in [Links -> RequestStates],
               mailed' \subseteq Links, withdrawn' \subseteq Links,
               session' \in [Visits -> SessionRows], visit' \in [Visits -> VisitRows],
               signOut' \in [SignOuts -> SignOutRows],
               restarts' \in 0..MaxRestarts,
               \A v \in Visits : visit'[v].pc = "consumed" => visit'[v].link \in Links,
               \A o \in SignOuts : signOut'[o].pc = "checked" => signOut'[o].session \in Visits
        PROVE  LinksTyped'
    BY <1>t DEF LinksTyped, TypeOK, LinkRows, SessionRows, VisitRows, SignOutRows, ConsumedALink,
                SignsOutOfOne
  <1>r. ASSUME NEW e \in Emails PROVE allowed[e] \in Roles \cup {"none"}
    BY <1>0 DEF Configurations
  <1>1. ASSUME NEW l \in Links, NEW e \in Emails, RequestLink(l, e) PROVE LinksTyped'
    <2>1. CASE allowed[e] = "none"
      BY <1>0, <1>1, <1>t, <2>1 DEF RequestLink
    <2>2. CASE allowed[e] # "none"
      <3> DEFINE row == [state |-> "open", email |-> e, role |-> allowed[e], expired |-> FALSE]
      <3>1. row \in LinkRows /\ RoleGiven(row)
        BY <1>r, <2>2 DEF LinkRows
      <3>2. link' = [link EXCEPT ![l] = row]
        BY <1>1, <2>2 DEF RequestLink
      <3> HIDE DEF row
      <3>3. link' \in [Links -> LinkRows] /\ \A k \in Links : RoleGiven(link'[k])
        BY <1>0, <3>1, <3>2
      <3> HIDE DEF RoleGiven
      <3> QED BY <1>0, <1>1, <1>t, <2>2, <3>3 DEF RequestLink
    <2> QED BY <2>1, <2>2
  <1>2. ASSUME NEW l \in Links, SendLink(l) PROVE LinksTyped'
    BY <1>0, <1>2, <1>t DEF SendLink
  <1>3. ASSUME NEW l \in Links, WithdrawLink(l) PROVE LinksTyped'
    <2>1. /\ link' \in [Links -> LinkRows] /\ \A k \in Links : RoleGiven(link'[k])
      BY <1>0, <1>3 DEF WithdrawLink, LinkRows, Consumable
    <2> HIDE DEF RoleGiven
    <2> QED BY <1>0, <1>3, <1>t, <2>1 DEF WithdrawLink
  <1>4. ASSUME NEW l \in Links, LinkExpires(l) PROVE LinksTyped'
    <2>1. /\ link' \in [Links -> LinkRows] /\ \A k \in Links : RoleGiven(link'[k])
      BY <1>0, <1>4 DEF LinkExpires, LinkRows
    <2> HIDE DEF RoleGiven
    <2> QED BY <1>0, <1>4, <1>t, <2>1 DEF LinkExpires
  <1>5. ASSUME NEW v \in Visits, NEW l \in Links, OpenLink(v, l) PROVE LinksTyped'
    <2>1. CASE StillAllowed(l) /\ Consumable(l)
      <3>1. [link[l] EXCEPT !.state = "used"] \in LinkRows
        BY <1>0 DEF LinkRows
      <3>2. RoleGiven([link[l] EXCEPT !.state = "used"])
        BY <1>0, <2>1 DEF LinkRows, Consumable
      <3>3. [pc |-> "consumed", link |-> l] \in VisitRows
        BY DEF VisitRows
      <3> HIDE DEF RoleGiven
      <3>4. link' \in [Links -> LinkRows] /\ \A k \in Links : RoleGiven(link'[k])
        BY <1>0, <1>5, <2>1, <3>1, <3>2 DEF OpenLink
      <3>5. /\ visit' \in [Visits -> VisitRows]
            /\ \A w \in Visits : visit'[w].pc = "consumed" => visit'[w].link \in Links
        BY <1>0, <1>5, <2>1, <3>3 DEF OpenLink
      <3> QED BY <1>0, <1>5, <1>t, <3>4, <3>5 DEF OpenLink
    <2>2. CASE ~(StillAllowed(l) /\ Consumable(l))
      <3>1. [visit[v] EXCEPT !.pc = "done"] \in VisitRows
        BY <1>0 DEF VisitRows
      <3>2. /\ visit' \in [Visits -> VisitRows]
            /\ \A w \in Visits : visit'[w].pc = "consumed" => visit'[w].link \in Links
        BY <1>0, <1>5, <2>2, <3>1 DEF OpenLink, VisitRows
      <3> QED BY <1>0, <1>5, <1>t, <2>2, <3>2 DEF OpenLink
    <2> QED BY <2>1, <2>2
  <1>6. ASSUME NEW v \in Visits, IssueSession(v) PROVE LinksTyped'
    <2>1. /\ visit' \in [Visits -> VisitRows]
          /\ \A w \in Visits : visit'[w].pc = "consumed" => visit'[w].link \in Links
      BY <1>0, <1>6 DEF IssueSession, VisitRows
    <2> DEFINE l == visit[v].link
               row == [state |-> "live", email |-> link[l].email, role |-> link[l].role,
                       from |-> l, expired |-> FALSE]
    <2>2. l \in Links
      BY <1>0, <1>6 DEF IssueSession
    <2>3. row \in SessionRows
      BY <1>0, <2>2 DEF SessionRows, LinkRows
    <2>4. session' = [session EXCEPT ![v] = row] \/ session' = session
      BY <1>6 DEF IssueSession
    <2> HIDE DEF row, l
    <2>5. session' \in [Visits -> SessionRows]
      BY <1>0, <2>3, <2>4
    <2> QED BY <1>0, <1>6, <1>t, <2>1, <2>5 DEF IssueSession
  <1>7. ASSUME NEW s \in Visits, SessionExpires(s) PROVE LinksTyped'
    <2>1. session' \in [Visits -> SessionRows]
      BY <1>0, <1>7 DEF SessionExpires, SessionRows
    <2> QED BY <1>0, <1>7, <1>t, <2>1 DEF SessionExpires
  <1>8. ASSUME NEW o \in SignOuts, NEW s \in Visits, ReadSession(o, s) PROVE LinksTyped'
    <2>1. /\ signOut' \in [SignOuts -> SignOutRows]
          /\ \A p \in SignOuts : signOut'[p].pc = "checked" => signOut'[p].session \in Visits
      BY <1>0, <1>8 DEF ReadSession, SignOutRows
    <2> QED BY <1>0, <1>8, <1>t, <2>1 DEF ReadSession
  <1>9. ASSUME NEW o \in SignOuts, Revoke(o) PROVE LinksTyped'
    <2>1. /\ signOut' \in [SignOuts -> SignOutRows]
          /\ \A p \in SignOuts : signOut'[p].pc = "checked" => signOut'[p].session \in Visits
      BY <1>0, <1>9 DEF Revoke, SignOutRows
    <2>2. \A t \in Visits : [session[t] EXCEPT !.state = "revoked"] \in SessionRows
      BY <1>0 DEF SessionRows
    <2>3. session' \in [Visits -> SessionRows]
      BY <1>0, <1>9, <2>2 DEF Revoke
    <2> QED BY <1>0, <1>9, <1>t, <2>1, <2>3 DEF Revoke
  <1>10. ASSUME Cleanup PROVE LinksTyped'
    <2>1. \A t \in Visits : [session[t] EXCEPT !.state = "gone"] \in SessionRows
      BY <1>0 DEF SessionRows
    <2>2. session' \in [Visits -> SessionRows]
      BY <1>0, <1>10, <2>1 DEF Cleanup
    <2>3. \A l \in Links : /\ [link[l] EXCEPT !.state = "gone"] \in LinkRows
                           /\ OldLink(l) => RoleGiven([link[l] EXCEPT !.state = "gone"])
      BY <1>0 DEF LinkRows, OldLink
    <2> HIDE DEF RoleGiven
    <2>4. /\ link' \in [Links -> LinkRows] /\ \A l \in Links : RoleGiven(link'[l])
      BY <1>0, <1>10, <2>3 DEF Cleanup
    <2> QED BY <1>0, <1>10, <1>t, <2>2, <2>4 DEF Cleanup
  <1>11. ASSUME Restart PROVE LinksTyped'
    <2>1. \A v \in Visits : [visit[v] EXCEPT !.pc = "done"] \in VisitRows
      BY <1>0 DEF VisitRows
    <2>2. /\ visit' \in [Visits -> VisitRows]
          /\ \A v \in Visits : visit'[v].pc = "consumed" => visit'[v].link \in Links
      BY <1>0, <1>11, <2>1 DEF Restart, VisitRows
    <2>3. \A o \in SignOuts : [signOut[o] EXCEPT !.pc = "done"] \in SignOutRows
      BY <1>0 DEF SignOutRows
    <2>4. /\ signOut' \in [SignOuts -> SignOutRows]
          /\ \A o \in SignOuts : signOut'[o].pc = "checked" => signOut'[o].session \in Visits
      BY <1>0, <1>11, <2>3 DEF Restart, SignOutRows
    <2>5. restarts' \in 0..MaxRestarts
      BY <1>0, <1>11 DEF Restart, LinksAssumption
    <2>6. request' \in [Links -> RequestStates]
      BY <1>11 DEF Restart
    <2> QED BY <1>0, <1>11, <1>t, <2>2, <2>4, <2>5, <2>6 DEF Restart
  <1>12. ASSUME UNCHANGED vars PROVE LinksTyped'
    BY <1>0, <1>12, <1>t DEF vars
  <1> QED BY <1>1, <1>2, <1>3, <1>4, <1>5, <1>6, <1>7, <1>8, <1>9, <1>10, <1>11, <1>12 DEF Next

(* The rows, the calls under way and the configuration keep their types;    *)
(* every stored link has a role.                                            *)
THEOREM TypeCorrect == ASSUME LinksAssumption PROVE Spec => []TypeOK
  <1>1. Init => LinksTyped
    BY TypedAtFirst
  <1>2. LinksTyped /\ [Next]_vars => LinksTyped'
    BY TypedKept
  <1>3. LinksTyped => TypeOK
    BY DEF LinksTyped
  <1> QED BY <1>1, <1>2, <1>3, PTL DEF Spec

-----------------------------------------------------------------------------
(* Links held by visits *)

(* A link a visit holds was consumed by that visit alone, and not withdrawn. *)
Spent(l) == link[l].state \in {"used", "gone"}
HoldsWhatItConsumed ==
  \A v \in Visits : /\ visit[v].pc = "idle" => visit[v].link = None
                    /\ visit[v].link # None => Spent(visit[v].link) /\ visit[v].link \notin withdrawn
HoldsItAlone ==
  \A v, w \in Visits : v # w /\ visit[v].link # None => visit[v].link # visit[w].link

(* What a request not yet made has no row of, and what withdrew a link spent it. *)
RowsOfRequests ==
  /\ \A l \in Links : request[l] = "idle" => link[l].state = "none"
  /\ \A l \in withdrawn : Spent(l)

(* A session is from the link its visit holds. *)
FromItsLink ==
  \A v \in Visits : session[v].state # "none" =>
    session[v].from = visit[v].link /\ visit[v].link # None

(* Between consuming a link and storing its session, the configuration that  *)
(* was looked at still applies: it changes with the process only.            *)
StillGranted ==
  \A v \in Visits : visit[v].pc = "consumed" =>
    allowed[link[visit[v].link].email] = link[visit[v].link].role

HoldsInv ==
  HoldsWhatItConsumed /\ HoldsItAlone /\ RowsOfRequests /\ FromItsLink /\ StillGranted

LEMMA HoldsAtFirst == ASSUME LinksAssumption, Init PROVE HoldsInv
  <1>1. /\ \A l \in Links : link[l].state = "none"
        /\ \A v \in Visits : /\ visit[v].pc = "idle" /\ visit[v].link = None
                             /\ session[v].state = "none"
        /\ withdrawn = {}
    BY DEF Init, NoLink, NoVisit, NoSession
  <1> QED BY <1>1 DEF HoldsInv, HoldsWhatItConsumed, HoldsItAlone, RowsOfRequests, FromItsLink,
                      StillGranted

(* A step that leaves the visits and what they hold alone keeps the invariant *)
(* about them.                                                                *)
LEMMA HoldsUndisturbed ==
  ASSUME LinksAssumption, LinksTyped, HoldsInv,
         allowed' = allowed, withdrawn' = withdrawn,
         \A v \in Visits : /\ visit'[v].link = visit[v].link
                           /\ (visit'[v].pc = visit[v].pc \/ visit'[v].pc = "done"),
         \A v \in Visits : /\ session'[v].from = session[v].from
                           /\ session'[v].state # "none" => session[v].state # "none",
         \A l \in Links : /\ request'[l] = "idle" => request[l] = "idle" /\ link'[l].state = "none"
                          /\ Spent(l) => link'[l].state \in {"used", "gone"}
                          /\ Spent(l) => /\ link'[l].email = link[l].email
                                         /\ link'[l].role = link[l].role
  PROVE  HoldsInv'
  <1>0. /\ withdrawn \subseteq Links
        /\ \A v \in Visits : visit[v].link # None => visit[v].link \in Links
        /\ \A v \in Visits : visit[v].pc = "consumed" => visit[v].link \in Links
        /\ None \notin Links
    BY DEF LinksTyped, TypeOK, LinksAssumption, ConsumedALink
  <1>1. HoldsWhatItConsumed'
    BY <1>0 DEF HoldsInv, HoldsWhatItConsumed, Spent
  <1>2. HoldsItAlone'
    BY DEF HoldsInv, HoldsItAlone
  <1>3. RowsOfRequests'
    BY <1>0 DEF HoldsInv, RowsOfRequests, Spent
  <1>4. FromItsLink'
    BY DEF HoldsInv, FromItsLink
  <1>5. StillGranted'
    <2> SUFFICES ASSUME NEW v \in Visits, visit'[v].pc = "consumed"
                 PROVE  allowed'[link'[visit'[v].link].email] = link'[visit'[v].link].role
      BY DEF StillGranted
    <2>1. visit[v].pc = "consumed" /\ visit[v].link \in Links /\ visit'[v].link = visit[v].link
      BY <1>0
    <2>2. Spent(visit[v].link)
      BY <1>0, <2>1 DEF HoldsInv, HoldsWhatItConsumed
    <2> QED BY <2>1, <2>2 DEF HoldsInv, StillGranted
  <1> QED BY <1>1, <1>2, <1>3, <1>4, <1>5 DEF HoldsInv

(* Every step keeps it: a link is opened or withdrawn only while open, so    *)
(* whoever consumes it is the first.                                         *)
LEMMA HoldsKept ==
  ASSUME LinksAssumption, LinksTyped, HoldsInv, [Next]_vars PROVE HoldsInv'
  <1>0. /\ link \in [Links -> LinkRows] /\ request \in [Links -> {"idle", "sending", "failed", "done"}]
        /\ session \in [Visits -> SessionRows] /\ visit \in [Visits -> VisitRows]
        /\ withdrawn \subseteq Links /\ mailed \subseteq Links
        /\ None \notin Links
        /\ \A v \in Visits : visit[v].pc = "consumed" => visit[v].link \in Links
    BY DEF LinksTyped, TypeOK, LinkRows, SessionRows, VisitRows, ConsumedALink, LinksAssumption
  <1>i. \A l \in Links : request[l] = "idle" => link[l].state = "none"
    BY DEF HoldsInv, RowsOfRequests
  <1>1. ASSUME NEW l \in Links, NEW e \in Emails, RequestLink(l, e) PROVE HoldsInv'
    <2>1. ~Spent(l)
      BY <1>1, <1>i DEF RequestLink, Spent
    <2>2. \A k \in Links : /\ k # l => link'[k] = link[k] /\ request'[k] = request[k]
                           /\ request'[l] # "idle"
      BY <1>0, <1>1 DEF RequestLink
    <2> QED BY <1>1, <1>i, <2>1, <2>2, HoldsUndisturbed DEF RequestLink, Spent
  <1>2. ASSUME NEW l \in Links, SendLink(l) PROVE HoldsInv'
    <2>1. \A k \in Links : request'[k] = "idle" => request[k] = "idle"
      BY <1>0, <1>2 DEF SendLink
    <2> QED BY <1>2, <1>i, <2>1, HoldsUndisturbed DEF SendLink, Spent
  <1>3. ASSUME NEW l \in Links, WithdrawLink(l) PROVE HoldsInv'
    <2>1. \A k \in Links : request'[k] = "idle" => request[k] = "idle" /\ k # l
      BY <1>0, <1>3 DEF WithdrawLink
    <2>2. CASE UNCHANGED <<link, withdrawn>>
      BY <1>3, <1>i, <2>1, <2>2, HoldsUndisturbed DEF WithdrawLink, Spent
    <2>3. CASE /\ Consumable(l)
               /\ link' = [link EXCEPT ![l].state = "used"]
               /\ withdrawn' = withdrawn \cup {l}
      <3>1. ~Spent(l)
        BY <2>3 DEF Consumable, Spent
      <3>2. /\ link'[l].state = "used"
            /\ \A k \in Links : k # l => link'[k] = link[k]
        BY <1>0, <2>3 DEF LinkRows
      <3>3. \A v \in Visits : visit[v].link # l
        BY <1>0, <3>1 DEF HoldsInv, HoldsWhatItConsumed
      <3>4. \A v \in Visits : visit[v].link # None => visit[v].link \in Links
        BY <1>0 DEF VisitRows
      <3>5. HoldsWhatItConsumed'
        BY <1>3, <2>3, <3>2, <3>3, <3>4 DEF HoldsInv, HoldsWhatItConsumed, Spent, WithdrawLink
      <3>6. HoldsItAlone' /\ FromItsLink'
        BY <1>3 DEF HoldsInv, HoldsItAlone, FromItsLink, WithdrawLink
      <3>7. RowsOfRequests'
        BY <1>0, <1>i, <2>1, <2>3, <3>2 DEF HoldsInv, RowsOfRequests, Spent
      <3>8. StillGranted'
        BY <1>0, <1>3, <3>2, <3>3 DEF HoldsInv, StillGranted, WithdrawLink
      <3> QED BY <3>5, <3>6, <3>7, <3>8 DEF HoldsInv
    <2> QED BY <1>3, <2>2, <2>3 DEF WithdrawLink
  <1>4. ASSUME NEW l \in Links, LinkExpires(l) PROVE HoldsInv'
    <2>1. \A k \in Links : /\ link'[k].state = link[k].state /\ link'[k].email = link[k].email
                           /\ link'[k].role = link[k].role
      BY <1>0, <1>4 DEF LinkExpires, LinkRows
    <2> QED BY <1>4, <1>i, <2>1, HoldsUndisturbed DEF LinkExpires, Spent
  <1>5. ASSUME NEW v \in Visits, NEW l \in Links, OpenLink(v, l) PROVE HoldsInv'
    <2>1. CASE StillAllowed(l) /\ Consumable(l)
      <3>1. ~Spent(l) /\ l \notin withdrawn
        BY <2>1 DEF Consumable, Spent, HoldsInv, RowsOfRequests
      <3>2. \A w \in Visits : visit[w].link # l
        BY <1>0, <3>1 DEF HoldsInv, HoldsWhatItConsumed
      <3>3. /\ link'[l].state = "used" /\ link'[l].email = link[l].email
            /\ link'[l].role = link[l].role
            /\ \A k \in Links : k # l => link'[k] = link[k]
        BY <1>0, <1>5, <2>1 DEF OpenLink, LinkRows
      <3>4. /\ visit'[v] = [pc |-> "consumed", link |-> l]
            /\ \A w \in Visits : w # v => visit'[w] = visit[w]
            /\ visit[v].link = None
        BY <1>0, <1>5, <2>1 DEF OpenLink, HoldsInv, HoldsWhatItConsumed
      <3>5. \A w \in Visits : visit[w].link # None => visit[w].link \in Links
        BY <1>0 DEF VisitRows
      <3>6. HoldsWhatItConsumed'
        BY <1>5, <3>1, <3>2, <3>3, <3>4, <3>5
           DEF HoldsInv, HoldsWhatItConsumed, Spent, OpenLink
      <3>7. HoldsItAlone'
        BY <3>2, <3>4 DEF HoldsInv, HoldsItAlone
      <3>8. RowsOfRequests'
        <4>1. \A k \in Links : request'[k] = "idle" => link'[k].state = "none"
          BY <1>5, <1>i, <2>1, <3>3 DEF OpenLink, Consumable
        <4>2. \A k \in withdrawn' : link'[k].state \in {"used", "gone"}
          BY <1>0, <1>5, <3>1, <3>3 DEF OpenLink, HoldsInv, RowsOfRequests, Spent
        <4> QED BY <4>1, <4>2 DEF RowsOfRequests, Spent
      <3>9. FromItsLink'
        BY <1>5, <3>4 DEF HoldsInv, FromItsLink, OpenLink
      <3>10. StillGranted'
        BY <1>0, <1>5, <2>1, <3>2, <3>3, <3>4 DEF HoldsInv, StillGranted, OpenLink, StillAllowed
      <3> QED BY <3>6, <3>7, <3>8, <3>9, <3>10 DEF HoldsInv
    <2>2. CASE ~(StillAllowed(l) /\ Consumable(l))
      <3>1. \A w \in Visits : /\ visit'[w].link = visit[w].link
                              /\ (visit'[w].pc = visit[w].pc \/ visit'[w].pc = "done")
        BY <1>0, <1>5, <2>2 DEF OpenLink, VisitRows
      <3>2. UNCHANGED <<allowed, link, request, withdrawn, session>>
        BY <1>5, <2>2 DEF OpenLink
      <3> QED BY <1>i, <3>1, <3>2, HoldsUndisturbed DEF Spent
    <2> QED BY <2>1, <2>2
  <1>6. ASSUME NEW v \in Visits, IssueSession(v) PROVE HoldsInv'
    <2>1. \A w \in Visits : /\ visit'[w].link = visit[w].link
                            /\ (visit'[w].pc = visit[w].pc \/ visit'[w].pc = "done")
      BY <1>0, <1>6 DEF IssueSession, VisitRows
    <2>2. CASE UNCHANGED session
      BY <1>6, <1>i, <2>1, <2>2, HoldsUndisturbed DEF IssueSession, Spent
    <2>3. CASE session' # session
      <3>1. /\ \A w \in Visits : w # v => session'[w] = session[w]
            /\ session'[v].from = visit[v].link
        BY <1>0, <1>6, <2>3 DEF IssueSession
      <3>2. visit[v].link # None
        BY <1>0, <1>6 DEF IssueSession
      <3>3. FromItsLink'
        BY <2>1, <3>1, <3>2 DEF HoldsInv, FromItsLink
      <3>4. HoldsWhatItConsumed' /\ HoldsItAlone'
        BY <1>6, <2>1 DEF HoldsInv, HoldsWhatItConsumed, HoldsItAlone, Spent, IssueSession
      <3>5. RowsOfRequests'
        BY <1>6 DEF HoldsInv, RowsOfRequests, Spent, IssueSession
      <3>6. StillGranted'
        BY <1>6, <2>1 DEF HoldsInv, StillGranted, IssueSession
      <3> QED BY <3>3, <3>4, <3>5, <3>6 DEF HoldsInv
    <2> QED BY <2>2, <2>3
  <1>7. ASSUME NEW s \in Visits, SessionExpires(s) PROVE HoldsInv'
    <2>1. \A w \in Visits : session'[w].from = session[w].from /\ session'[w].state = session[w].state
      BY <1>0, <1>7 DEF SessionExpires, SessionRows
    <2> QED BY <1>7, <1>i, <2>1, HoldsUndisturbed DEF SessionExpires, Spent
  <1>8. ASSUME NEW o \in SignOuts, NEW s \in Visits, ReadSession(o, s) PROVE HoldsInv'
    BY <1>8, <1>i, HoldsUndisturbed DEF ReadSession, Spent
  <1>9. ASSUME NEW o \in SignOuts, Revoke(o) PROVE HoldsInv'
    <2>1. \A w \in Visits : /\ session'[w].from = session[w].from
                            /\ session'[w].state # "none" => session[w].state # "none"
      BY <1>0, <1>9 DEF Revoke, SessionRows
    <2> QED BY <1>9, <1>i, <2>1, HoldsUndisturbed DEF Revoke, Spent
  <1>10. ASSUME Cleanup PROVE HoldsInv'
    <2>1. \A w \in Visits : /\ session'[w].from = session[w].from
                            /\ session'[w].state # "none" => session[w].state # "none"
      BY <1>0, <1>10 DEF Cleanup, SessionRows, OldSession
    <2>2. \A l \in Links : /\ link'[l].email = link[l].email /\ link'[l].role = link[l].role
                           /\ link[l].state = "none" => link'[l].state = "none"
                           /\ Spent(l) => link'[l].state \in {"used", "gone"}
      BY <1>0, <1>10 DEF Cleanup, LinkRows, OldLink, Spent
    <2> QED BY <1>10, <1>i, <2>1, <2>2, HoldsUndisturbed DEF Cleanup
  <1>11. ASSUME Restart PROVE HoldsInv'
    <2>1. \A v \in Visits : /\ visit'[v].link = visit[v].link /\ visit'[v].pc # "consumed"
                            /\ visit'[v].pc = "idle" => visit[v].pc = "idle"
      BY <1>0, <1>11 DEF Restart, VisitRows
    <2>2. \A l \in Links : request'[l] = "idle" => request[l] = "idle"
      BY <1>11 DEF Restart
    <2>3. HoldsWhatItConsumed' /\ HoldsItAlone' /\ StillGranted'
      BY <1>11, <2>1 DEF HoldsInv, HoldsWhatItConsumed, HoldsItAlone, StillGranted, Spent, Restart
    <2>4. RowsOfRequests' /\ FromItsLink'
      BY <1>11, <2>1, <2>2 DEF HoldsInv, RowsOfRequests, FromItsLink, Spent, Restart
    <2> QED BY <2>3, <2>4 DEF HoldsInv
  <1>12. ASSUME UNCHANGED vars PROVE HoldsInv'
    BY <1>12, <1>i, HoldsUndisturbed DEF vars, Spent
  <1> QED BY <1>1, <1>2, <1>3, <1>4, <1>5, <1>6, <1>7, <1>8, <1>9, <1>10, <1>11, <1>12 DEF Next

(* The invariant the theorems about sessions rest on. *)
LEMMA HoldsAlways == ASSUME LinksAssumption PROVE Spec => [](LinksTyped /\ HoldsInv)
  <1>1. Init => LinksTyped /\ HoldsInv
    BY TypedAtFirst, HoldsAtFirst
  <1>2. (LinksTyped /\ HoldsInv) /\ [Next]_vars => (LinksTyped /\ HoldsInv)'
    BY TypedKept, HoldsKept
  <1> QED BY <1>1, <1>2, PTL DEF Spec

(* A magic link opens at most one session, whoever races for it, whatever    *)
(* is cleaned up or restarted meanwhile (consumeAdminMagicLink).             *)
THEOREM UsedByOne == ASSUME LinksAssumption PROVE Spec => []SingleUse
  <1>1. HoldsInv => SingleUse
    BY DEF HoldsInv, FromItsLink, HoldsItAlone, SingleUse
  <1> QED BY <1>1, HoldsAlways, PTL

(* A link withdrawn after a failed delivery opens no session, even when its  *)
(* mail arrived (requestAdminMagicLink).                                     *)
THEOREM WithdrawnOpensNothing == ASSUME LinksAssumption PROVE Spec => []WithdrawnIsDead
  <1>1. HoldsInv => WithdrawnIsDead
    BY DEF HoldsInv, FromItsLink, HoldsWhatItConsumed, WithdrawnIsDead
  <1> QED BY <1>1, HoldsAlways, PTL

(* The role of a new session is the one the configuration gives its address  *)
(* at that moment, although it is looked up before an await                  *)
(* (verifyAdminMagicLink, issueAdminSession).                                *)
THEOREM RoleIsGranted == ASSUME LinksAssumption PROVE Spec => RoleStillGranted
  <1>1. ASSUME LinksTyped, HoldsInv, [Next]_vars PROVE GrantsCurrentRole
    <2> SUFFICES ASSUME NEW v \in Visits, session[v].state = "none", session'[v].state = "live"
                 PROVE  allowed[session'[v].email] = session'[v].role
      BY DEF GrantsCurrentRole
    <2>0. session \in [Visits -> SessionRows]
      BY <1>1 DEF LinksTyped, TypeOK, SessionRows
    <2>1. ASSUME NEW w \in Visits, IssueSession(w) PROVE allowed[session'[v].email] = session'[v].role
      <3>1. v = w
        BY <2>0, <2>1 DEF IssueSession
      <3>2. /\ session'[v].email = link[visit[v].link].email
            /\ session'[v].role = link[visit[v].link].role
            /\ visit[v].pc = "consumed"
        BY <2>0, <2>1, <3>1 DEF IssueSession
      <3> QED BY <1>1, <3>2 DEF HoldsInv, StillGranted
    <2>2. ASSUME NEW s \in Visits, SessionExpires(s) PROVE FALSE
      BY <2>0, <2>2 DEF SessionExpires, SessionRows
    <2>3. ASSUME NEW o \in SignOuts, Revoke(o) PROVE FALSE
      BY <2>0, <2>3 DEF Revoke, SessionRows
    <2>4. ASSUME Cleanup PROVE FALSE
      BY <2>0, <2>4 DEF Cleanup, SessionRows, OldSession
    <2>5. ASSUME UNCHANGED session PROVE FALSE
      BY <2>5
    <2> QED BY <1>1, <2>1, <2>2, <2>3, <2>4, <2>5
            DEF Next, vars, RequestLink, SendLink, WithdrawLink, LinkExpires, OpenLink,
                ReadSession, Restart
  <1>2. (LinksTyped /\ HoldsInv) /\ [Next]_vars => [GrantsCurrentRole]_vars
    BY <1>1
  <1> QED BY <1>2, HoldsAlways, PTL DEF RoleStillGranted, Spec

-----------------------------------------------------------------------------
(* The requests a limit lets in *)

Open == {r \in Requests : response[r] = "open"}

-----------------------------------------------------------------------------
(* Counting *)

Asks(log, b) == {q \in Requests : b \in log[q]}

(* HttpLimits counts with operators of its own, which say what these do. *)
LEMMA SameCounting ==
  \A S : Http!Cardinality(S) = Cardinality(S) /\ (Http!IsFiniteSet(S) <=> IsFiniteSet(S))
  <1>1. \A S : Http!IsFiniteSet(S) <=> IsFiniteSet(S)
    BY Zenon DEF Http!IsFiniteSet, IsFiniteSet
  <1>2. \A S : Http!Cardinality(S) = Cardinality(S)
    BY Zenon, <1>1 DEF Http!Cardinality, Cardinality
  <1> QED BY <1>1, <1>2

LEMMA LimitsOfFinitely == Http!LimitsAssumption => IsFiniteSet(Requests)
  BY SameCounting DEF Http!LimitsAssumption

LEMMA CountIs == \A log, b : Http!Count(log, b) = Cardinality(Asks(log, b))
  BY SameCounting DEF Http!Count, Asks

LEMMA SlotsAre == Http!SlotsCounted <=> slots = Cardinality(Open)
  BY SameCounting DEF Http!SlotsCounted, Open

(* A count is a number. *)
LEMMA CountIsNat ==
  ASSUME Http!LimitsAssumption, NEW log, NEW b
  PROVE  Http!Count(log, b) \in Nat
  <1>1. Asks(log, b) \in SUBSET Requests
    BY DEF Asks
  <1> QED BY <1>1, FS_Subset, FS_CardinalityType, LimitsOfFinitely, CountIs

(* An empty log is within every limit. *)
LEMMA EmptyLog ==
  ASSUME Http!LimitsAssumption, NEW log, \A q \in Requests : log[q] = {}, NEW b
  PROVE  Http!Count(log, b) <= Max
  <1>1. Asks(log, b) = {}
    BY DEF Asks
  <1>2. Http!Count(log, b) = 0
    BY <1>1, FS_EmptySet, CountIs
  <1> QED BY <1>2 DEF Http!LimitsAssumption

(* A log in which no request but r gained the bucket counts one more at most, *)
(* and not even that when r did not gain it either.                           *)
LEMMA CountOfOneMore ==
  ASSUME Http!LimitsAssumption, NEW log, NEW new, NEW b, NEW r \in Requests,
         \A q \in Requests \ {r} : b \in new[q] => b \in log[q]
  PROVE  /\ Http!Count(new, b) <= Http!Count(log, b) + 1
         /\ b \notin new[r] => Http!Count(new, b) <= Http!Count(log, b)
  <1> DEFINE S == Asks(log, b)
             T == Asks(new, b)
  <1>0. S \in SUBSET Requests /\ T \in SUBSET (S \cup {r}) /\ (b \notin new[r] => T \in SUBSET S)
    BY DEF Asks
  <1>1. IsFiniteSet(S) /\ IsFiniteSet(T)
    BY <1>0, FS_Subset, LimitsOfFinitely
  <1>2. Cardinality(S) \in Nat /\ Cardinality(T) \in Nat
    BY <1>1, FS_CardinalityType
  <1>3. IsFiniteSet(S \cup {r}) /\ Cardinality(S \cup {r}) <= Cardinality(S) + 1
    BY <1>1, <1>2, FS_AddElement, r \in S => S \cup {r} = S
  <1>4. Cardinality(T) <= Cardinality(S \cup {r}) /\ Cardinality(S \cup {r}) \in Nat
    BY <1>3, FS_Subset, FS_CardinalityType, <1>0
  <1>5. ASSUME b \notin new[r] PROVE Cardinality(T) <= Cardinality(S)
    BY <1>0, <1>1, <1>5, FS_Subset
  <1>6. Http!Count(log, b) = Cardinality(S) /\ Http!Count(new, b) = Cardinality(T)
    BY CountIs
  <1> QED BY <1>2, <1>3, <1>4, <1>5, <1>6

-----------------------------------------------------------------------------
(* Types and slots *)

(* The type invariant needs the count of open responses: a slot is returned *)
(* only when one is taken.                                                  *)
LimitsTyped == Http!TypeOK /\ Http!SlotsCounted

(* The open responses change by the one request that takes or returns a slot. *)
LEMMA OpenCounts ==
  ASSUME Http!LimitsAssumption
  PROVE  /\ IsFiniteSet(Open) /\ Cardinality(Open) \in Nat
         /\ \A r \in Requests :
              /\ IsFiniteSet(Open \cup {r})
              /\ r \notin Open => Cardinality(Open \cup {r}) = Cardinality(Open) + 1
              /\ r \in Open => Cardinality(Open \ {r}) = Cardinality(Open) - 1
              /\ r \in Open => Cardinality(Open) > 0
  <1>1. IsFiniteSet(Open) /\ Cardinality(Open) \in Nat
    <2>1. Open \in SUBSET Requests
      BY DEF Open
    <2> QED BY <2>1, FS_Subset, FS_CardinalityType, LimitsOfFinitely
  <1>2. ASSUME NEW r \in Requests
        PROVE  /\ IsFiniteSet(Open \cup {r})
               /\ r \notin Open => Cardinality(Open \cup {r}) = Cardinality(Open) + 1
               /\ r \in Open => Cardinality(Open \ {r}) = Cardinality(Open) - 1
               /\ r \in Open => Cardinality(Open) > 0
    <2>1. r \in Open => Cardinality(Open) # 0
      BY <1>1, FS_EmptySet
    <2> QED BY <1>1, <2>1, FS_AddElement, FS_RemoveElement
  <1> QED BY <1>1, <1>2

LEMMA LimitsTypedAtFirst == ASSUME Http!LimitsAssumption, Http!Init PROVE LimitsTyped
  <1>1. Http!TypeOK
    BY DEF Http!LimitsAssumption, Http!Init, Http!TypeOK
  <1>2. Open = {} /\ slots = 0
    BY DEF Http!Init, Open
  <1> QED BY <1>1, <1>2, FS_EmptySet, SlotsAre DEF LimitsTyped

(* Every step keeps the types, and the slots those of the open responses. *)
LEMMA LimitsTypedKept ==
  ASSUME Http!LimitsAssumption, LimitsTyped, [Http!Next]_(Http!vars) PROVE LimitsTyped'
  <1> USE DEF LimitsTyped
  <1>0. Http!TypeOK /\ slots = Cardinality(Open) /\ slots \in Nat
    BY SlotsAre DEF LimitsTyped, Http!TypeOK, Http!LimitsAssumption
  <1>c. Http!SlotsCounted' <=> slots' = Cardinality(Open')
    <2>1. (Http!SlotsCounted <=> slots = Cardinality(Open))'
      BY SlotsAre, PTL
    <2> QED BY <2>1
  <1>s. ASSUME response' = response, slots' = slots PROVE Http!SlotsCounted'
    BY <1>0, <1>c, <1>s DEF Open
  <1>1. ASSUME NEW r \in Requests, Http!Admit(r) PROVE LimitsTyped'
    BY <1>0, <1>1, <1>s DEF Http!Admit, Http!TypeOK, Http!LimitsAssumption
  <1>2. ASSUME NEW r \in Requests, Http!Ages(r) PROVE LimitsTyped'
    BY <1>0, <1>2, <1>s DEF Http!Ages, Http!TypeOK
  <1>3. ASSUME NEW r \in Requests, NEW added \in SUBSET BucketsOf[r], Http!FailOver(r, added)
        PROVE  LimitsTyped'
    <2>1. added \in SUBSET Buckets /\ BucketsOf[r] \in SUBSET Buckets
      BY <1>3 DEF Http!LimitsAssumption
    <2>2. faults' \in 0..MaxFaults
      BY <1>0, <1>3 DEF Http!FailOver, Http!StorageFails, Http!Fault, Http!TypeOK, Http!LimitsAssumption
    <2> QED BY <1>0, <1>3, <1>s, <2>1, <2>2 DEF Http!FailOver, Http!StorageFails, Http!TypeOK
  <1>4. ASSUME NEW r \in Requests, NEW added \in SUBSET BucketsOf[r], Http!FailClosed(r, added)
        PROVE  LimitsTyped'
    <2>1. added \in SUBSET Buckets
      BY <1>4 DEF Http!LimitsAssumption
    <2>2. faults' \in 0..MaxFaults
      BY <1>0, <1>4 DEF Http!FailClosed, Http!StorageFails, Http!Fault, Http!TypeOK, Http!LimitsAssumption
    <2> QED BY <1>0, <1>4, <1>s, <2>1, <2>2 DEF Http!FailClosed, Http!StorageFails, Http!TypeOK
  <1>5. ASSUME NEW r \in Requests, Http!TakeSlot(r) PROVE LimitsTyped'
    <2>1. Open' = Open \cup {r} /\ r \notin Open
      BY <1>0, <1>5 DEF Http!TakeSlot, Open, Http!TypeOK
    <2>2. slots' = Cardinality(Open')
      BY <1>0, <1>5, <2>1, OpenCounts DEF Http!TakeSlot
    <2>3. slots' \in 0..Capacity
      BY <1>0, <1>5 DEF Http!TakeSlot, Http!TypeOK, Http!LimitsAssumption
    <2> QED BY <1>0, <1>5, <1>c, <2>2, <2>3 DEF Http!TakeSlot, Http!TypeOK
  <1>6. ASSUME NEW r \in Requests, Http!NoSlot(r) PROVE LimitsTyped'
    BY <1>0, <1>6, <1>s DEF Http!NoSlot, Http!TypeOK
  <1>7. ASSUME NEW r \in Requests, NEW end \in {"finished", "closed"},
               response[r] # "none", response' = [response EXCEPT ![r] = end],
               slots' = Http!Released(r)
        PROVE  slots' = Cardinality(Open') /\ slots' \in 0..Capacity
    <2>1. CASE r \in Open
      <3>1. Open' = Open \ {r}
        BY <1>0, <1>7 DEF Open, Http!TypeOK
      <3>2. slots' = slots - 1 /\ slots > 0
        BY <1>0, <1>7, <2>1, OpenCounts DEF Http!Released, Open
      <3> QED BY <1>0, <2>1, <3>1, <3>2, OpenCounts DEF Http!TypeOK, Http!LimitsAssumption
    <2>2. CASE r \notin Open
      <3>1. Open' = Open /\ slots' = slots
        BY <1>0, <1>7, <2>2 DEF Open, Http!TypeOK, Http!Released
      <3> QED BY <1>0, <3>1 DEF Http!TypeOK
    <2> QED BY <2>1, <2>2
  <1>8. ASSUME NEW r \in Requests, Http!Finish(r) PROVE LimitsTyped'
    <2>1. slots' = Cardinality(Open') /\ slots' \in 0..Capacity
      BY <1>7, <1>8 DEF Http!Finish
    <2> QED BY <1>0, <1>8, <1>c, <2>1 DEF Http!Finish, Http!TypeOK
  <1>9. ASSUME NEW r \in Requests, Http!Disconnect(r) PROVE LimitsTyped'
    <2>1. slots' = Cardinality(Open') /\ slots' \in 0..Capacity
      BY <1>7, <1>9 DEF Http!Disconnect
    <2> QED BY <1>0, <1>9, <1>c, <2>1 DEF Http!Disconnect, Http!TypeOK
  <1>10. ASSUME Http!Restart PROVE LimitsTyped'
    <2>1. Open' = {}
      BY <1>10 DEF Http!Restart, Open
    <2>2. slots' = Cardinality(Open')
      BY <1>10, <2>1, FS_EmptySet DEF Http!Restart
    <2>3. faults' \in 0..MaxFaults
      BY <1>0, <1>10 DEF Http!Restart, Http!Fault, Http!TypeOK, Http!LimitsAssumption
    <2>4. slots' \in 0..Capacity
      BY <1>10 DEF Http!Restart, Http!LimitsAssumption
    <2> QED BY <1>0, <1>10, <1>c, <2>2, <2>3, <2>4 DEF Http!Restart, Http!TypeOK
  <1>11. ASSUME UNCHANGED Http!vars PROVE LimitsTyped'
    BY <1>0, <1>11, <1>s DEF Http!vars, Http!TypeOK
  <1> QED BY <1>1, <1>2, <1>3, <1>4, <1>5, <1>6, <1>8, <1>9, <1>10, <1>11 DEF Http!Next

(* The variables keep their types, in particular the slots in use never     *)
(* exceed the capacity of createApp and never fall below zero.              *)
THEOREM LimitsTypeCorrect == ASSUME Http!LimitsAssumption PROVE Http!Spec => []Http!TypeOK
  <1>1. Http!Init => LimitsTyped
    BY LimitsTypedAtFirst
  <1>2. LimitsTyped /\ [Http!Next]_(Http!vars) => LimitsTyped'
    BY LimitsTypedKept
  <1>3. LimitsTyped => Http!TypeOK
    BY DEF LimitsTyped
  <1> QED BY <1>1, <1>2, <1>3, PTL DEF Http!Spec

(* The upload capacity counts every open response exactly once, however the *)
(* response ends (release in app.js).                                       *)
THEOREM SlotsAreCounted == ASSUME Http!LimitsAssumption PROVE Http!Spec => []Http!SlotsCounted
  <1>1. Http!Init => LimitsTyped
    BY LimitsTypedAtFirst
  <1>2. LimitsTyped /\ [Http!Next]_(Http!vars) => LimitsTyped'
    BY LimitsTypedKept
  <1>3. LimitsTyped => Http!SlotsCounted
    BY DEF LimitsTyped
  <1> QED BY <1>1, <1>2, <1>3, PTL DEF Http!Spec

-----------------------------------------------------------------------------
(* Limits *)

(* One request that found room in all its buckets may be added to them. *)
LEMMA RoomForOne ==
  ASSUME Http!LimitsAssumption, NEW log \in [Requests -> SUBSET Buckets], NEW r \in Requests,
         NEW added \in SUBSET BucketsOf[r],
         added # {} => Http!Room(log, r),
         \A b \in Buckets : Http!Count(log, b) <= Max,
         NEW new, new = [log EXCEPT ![r] = added]
  PROVE  \A b \in Buckets : Http!Count(new, b) <= Max
  <1> SUFFICES ASSUME NEW b \in Buckets PROVE Http!Count(new, b) <= Max
    OBVIOUS
  <1>1. Http!Count(log, b) \in Nat /\ Http!Count(new, b) \in Nat /\ Max \in Nat
    BY CountIsNat DEF Http!LimitsAssumption
  <1>2. /\ \A q \in Requests \ {r} : b \in new[q] => b \in log[q]
        /\ new[r] = added
    OBVIOUS
  <1>3. /\ Http!Count(new, b) <= Http!Count(log, b) + 1
        /\ b \notin new[r] => Http!Count(new, b) <= Http!Count(log, b)
    BY <1>2, CountOfOneMore
  <1>4. CASE b \in added
    <2>1. Http!Count(log, b) < Max
      BY <1>4 DEF Http!Room
    <2> QED BY <1>1, <1>3, <2>1
  <1>5. CASE b \notin added
    <2>1. Http!Count(new, b) <= Http!Count(log, b) /\ Http!Count(log, b) <= Max
      BY <1>2, <1>3, <1>5
    <2> QED BY <1>1, <2>1
  <1> QED BY <1>4, <1>5

LEMMA LimitAtFirst == ASSUME Http!LimitsAssumption, Http!Init PROVE Http!LimitHolds
  <1> SUFFICES ASSUME NEW b \in Buckets
               PROVE  Http!Count(stored, b) <= Max /\ Http!Count(memory, b) <= Max
    BY DEF Http!LimitHolds
  <1>1. \A q \in Requests : stored[q] = {} /\ memory[q] = {}
    BY DEF Http!Init
  <1> QED BY <1>1, EmptyLog

(* Every step keeps the counts of all buckets within the limit. *)
LEMMA LimitKept ==
  ASSUME Http!LimitsAssumption, Http!TypeOK, Http!LimitHolds, [Http!Next]_(Http!vars) PROVE Http!LimitHolds'
  <1> DEFINE Held(log) == \A b \in Buckets : Http!Count(log, b) <= Max
  <1>0. /\ stored \in [Requests -> SUBSET Buckets] /\ memory \in [Requests -> SUBSET Buckets]
        /\ Held(stored) /\ Held(memory)
    BY DEF Http!TypeOK, Http!LimitHolds
  <1>h. (Held(stored') /\ Held(memory')) => Http!LimitHolds'
    BY DEF Http!LimitHolds, Http!Count
  <1>e. ASSUME NEW log, log \in [Requests -> SUBSET Buckets], Held(log), NEW r \in Requests,
               NEW added \in SUBSET BucketsOf[r], added # {} => Http!Room(log, r)
        PROVE  Held([log EXCEPT ![r] = added])
    BY <1>e, RoomForOne
  <1>n. \A r \in Requests : {} \in SUBSET BucketsOf[r] /\ BucketsOf[r] \in SUBSET BucketsOf[r]
    OBVIOUS
  <1> HIDE DEF Held
  <1>1. ASSUME NEW r \in Requests, Http!Admit(r) PROVE Http!LimitHolds'
    BY <1>0, <1>1, <1>e, <1>h, <1>n DEF Http!Admit
  <1>2. ASSUME NEW r \in Requests, Http!Ages(r) PROVE Http!LimitHolds'
    BY <1>0, <1>2, <1>e, <1>h, <1>n DEF Http!Ages
  <1>3. ASSUME NEW r \in Requests, NEW added \in SUBSET BucketsOf[r], Http!FailOver(r, added)
        PROVE  Http!LimitHolds'
    <2>1. Held(stored')
      BY <1>0, <1>3, <1>e DEF Http!FailOver, Http!StorageFails
    <2>2. Held(memory')
      BY <1>0, <1>3, <1>e, <1>n DEF Http!FailOver
    <2> QED BY <1>h, <2>1, <2>2
  <1>4. ASSUME NEW r \in Requests, NEW added \in SUBSET BucketsOf[r], Http!FailClosed(r, added)
        PROVE  Http!LimitHolds'
    BY <1>0, <1>4, <1>e, <1>h DEF Http!FailClosed, Http!StorageFails
  <1>5. ASSUME Http!Restart PROVE Http!LimitHolds'
    <2>1. \A q \in Requests : memory'[q] = {}
      BY <1>5 DEF Http!Restart
    <2>2. Held(memory')
      BY <2>1, EmptyLog DEF Held
    <2> QED BY <1>0, <1>5, <1>h, <2>2 DEF Http!Restart
  <1>6. ASSUME UNCHANGED <<stored, memory>> PROVE Http!LimitHolds'
    BY <1>0, <1>6, <1>h
  <1> QED BY <1>1, <1>2, <1>3, <1>4, <1>5, <1>6
          DEF Http!Next, Http!vars, Http!TakeSlot, Http!NoSlot, Http!Finish, Http!Disconnect

(* No bucket counts more than Max attempts, in the database or in the map   *)
(* that stands in for it, though events are added one by one and the        *)
(* storage may fail in between (enforceAdminRateLimit,                      *)
(* enforceSecureUploadRateLimit).                                           *)
THEOREM LimitsAreKept == ASSUME Http!LimitsAssumption PROVE Http!Spec => []Http!LimitHolds
  <1>1. Http!Init => Http!LimitHolds
    BY LimitAtFirst
  <1>2. Http!TypeOK /\ Http!LimitHolds /\ [Http!Next]_(Http!vars) => Http!LimitHolds'
    BY LimitKept
  <1>3. Http!Spec => []Http!TypeOK
    BY LimitsTypeCorrect
  <1> QED BY <1>1, <1>2, <1>3, PTL DEF Http!Spec

-----------------------------------------------------------------------------
(* The final gate of the CIM mails *)
CONSTANTS Mails, FollowUps, ByRule, Unknown, Own, Shared, InPlace, Gates, MaxAuths, MaxChanges,
          MaxSwitches, MaxGens
VARIABLES facts, own, global, controls, camp, mail, auths, gates, spent

Final == INSTANCE FinalGate

LEMMA FinalCounts == \A S : Final!Cardinality(S) = Cardinality(S)
  BY DEF Final!Cardinality, Cardinality

MailStates == {"claimed", "prepared", "cancelled", "pending"}
CampStates == {"live", "action-required", "stopped"}
AuthStates == {"issued", "withdrawn", "consumed"}
Activations == [paused : BOOLEAN, rule : BOOLEAN, initial : Nat,
                follow : [id : Nat, under : Nat], next : Nat]
MailRows == [state : MailStates, gen : 0..MaxGens, by : Nat \cup {None}]
CampRows == [state : CampStates, rev : Nat, events : Nat]
AuthRows == [id : Nat, mail : Mails, gen : Nat, act : Nat, state : AuthStates, lapsed : BOOLEAN]
Contexts == [gen : Nat, state : MailStates, rev : Nat, global : Nat, act : Nat]
Evidences == [facts : SUBSET Final!AllFacts, own : Nat, ready : BOOLEAN]
GateRows == [pc : {"idle", "read", "judged"}, mail : Mails \cup {None}, auth : Nat \cup {None},
             ctx : Contexts \cup {None}, seen : Evidences \cup {None}]

-----------------------------------------------------------------------------
(* Authorizations *)

(* The rows have distinct ids, counted from one. *)
IdsCount(rows) ==
  /\ IsFiniteSet(rows)
  /\ \A a, b \in rows : a.id = b.id => a = b
  /\ \A a \in rows : a.id \in 1..Cardinality(rows)

(* What may become of a row: it is the same authorization, used or withdrawn *)
(* once.                                                                     *)
Becomes(a, b) ==
  /\ b.id = a.id /\ b.mail = a.mail /\ b.gen = a.gen /\ b.act = a.act
  /\ b.state = a.state \/ a.state = "issued"

(* An id names one row. *)
LEMMA AuthIs == ASSUME IdsCount(auths), NEW a \in auths PROVE Final!Auth(a.id) = a
  BY DEF IdsCount, Final!Auth

(* Rewriting rows one for one keeps the ids and their count. *)
LEMMA RowsRewritten ==
  ASSUME NEW rows, IdsCount(rows), NEW f, f = [a \in rows |-> f[a]],
         NEW new, new = {f[a] : a \in rows},
         \A a \in rows : Becomes(a, f[a])
  PROVE  /\ IdsCount(new) /\ Cardinality(new) = Cardinality(rows)
         /\ \A b \in new : \E a \in rows : Becomes(a, b)
         /\ \A a \in rows : f[a] \in new
  <1>1. \A a \in rows : f[a].id = a.id
    BY DEF Becomes
  <1>2. f \in [rows -> new]
    OBVIOUS
  <1>3. \A a, b \in rows : f[a] = f[b] => a = b
    BY <1>1 DEF IdsCount
  <1>4. \A t \in new : \E a \in rows : f[a] = t
    OBVIOUS
  <1>5. f \in Bijection(rows, new)
    BY <1>2, <1>3, <1>4, Fun_IsBij
  <1>6. ExistsBijection(rows, new)
    BY <1>5 DEF ExistsBijection
  <1>7. IsFiniteSet(new) /\ Cardinality(new) = Cardinality(rows)
    BY <1>6, FS_Bijection DEF IdsCount
  <1>8. \A b, c \in new : b.id = c.id => b = c
    BY <1>1, <1>4 DEF IdsCount
  <1>9. \A b \in new : b.id \in 1..Cardinality(rows)
    BY <1>1, <1>4 DEF IdsCount
  <1>10. IdsCount(new)
    BY <1>7, <1>8, <1>9 DEF IdsCount
  <1>11. \A b \in new : \E a \in rows : Becomes(a, b)
    BY <1>4
  <1> QED BY <1>7, <1>10, <1>11

(* Withdrawing what is open of a mail. *)
LEMMA WithdrawnRows ==
  ASSUME IdsCount(auths), auths \subseteq AuthRows, NEW m \in Mails
  PROVE  /\ IdsCount(Final!WithdrawOf(m)) /\ Final!WithdrawOf(m) \subseteq AuthRows
         /\ Cardinality(Final!WithdrawOf(m)) = Cardinality(auths)
         /\ \A b \in Final!WithdrawOf(m) :
              /\ \E a \in auths : Becomes(a, b) /\ (b = a \/ b.state = "withdrawn")
              /\ b.mail = m => b.state # "issued"
         /\ \A a \in auths : a.state # "issued" \/ a.mail # m => a \in Final!WithdrawOf(m)
         /\ \A a \in auths : \E b \in Final!WithdrawOf(m) : Becomes(a, b)
  <1> DEFINE f == [a \in auths |-> IF a \in Final!Open(m) THEN [a EXCEPT !.state = "withdrawn"] ELSE a]
             new == Final!WithdrawOf(m)
  <1>1. new = {f[a] : a \in auths} /\ f = [a \in auths |-> f[a]]
    BY DEF Final!WithdrawOf
  <1>2. \A a \in auths : /\ Becomes(a, f[a]) /\ f[a] \in AuthRows
                         /\ f[a] = a \/ f[a].state = "withdrawn"
                         /\ a.mail = m => f[a].state # "issued"
                         /\ (a.state # "issued" \/ a.mail # m) => f[a] = a
    BY DEF Final!Open, AuthRows, AuthStates, Becomes
  <1> HIDE DEF f, new
  <1>3. /\ IdsCount(new) /\ Cardinality(new) = Cardinality(auths)
        /\ \A a \in auths : f[a] \in new
    BY <1>1, <1>2, RowsRewritten
  <1>4. \A b \in new : \E a \in auths : b = f[a]
    BY <1>1
  <1>5. \A a \in auths : f[a].mail = a.mail
    BY <1>2 DEF Becomes
  <1>6. new \subseteq AuthRows
    BY <1>2, <1>4
  <1>7. \A b \in new : /\ \E a \in auths : Becomes(a, b) /\ (b = a \/ b.state = "withdrawn")
                       /\ b.mail = m => b.state # "issued"
    BY <1>2, <1>4, <1>5
  <1>8. /\ \A a \in auths : a.state # "issued" \/ a.mail # m => a \in new
        /\ \A a \in auths : \E b \in new : Becomes(a, b)
    BY <1>2, <1>3
  <1> QED BY <1>3, <1>6, <1>7, <1>8 DEF new

(* Rewriting one row. *)
LEMMA OneRewritten ==
  ASSUME IdsCount(auths), auths \subseteq AuthRows, NEW a \in auths, NEW row \in AuthRows,
         Becomes(a, row), NEW new, new = (auths \ {a}) \cup {row}
  PROVE  /\ IdsCount(new) /\ new \subseteq AuthRows
         /\ \A b \in new : \E c \in auths : Becomes(c, b)
         /\ \A c \in auths : \E b \in new : Becomes(c, b)
  <1> DEFINE f == [c \in auths |-> IF c = a THEN row ELSE c]
  <1>1. new = {f[c] : c \in auths} /\ f = [c \in auths |-> f[c]]
    OBVIOUS
  <1>2. \A c \in auths : Becomes(c, f[c])
    BY DEF Becomes
  <1> HIDE DEF f
  <1>3. /\ IdsCount(new)
        /\ \A b \in new : \E c \in auths : Becomes(c, b)
        /\ \A c \in auths : f[c] \in new
    BY <1>1, <1>2, RowsRewritten
  <1> QED BY <1>2, <1>3

(* A new row takes the next id. *)
LEMMA OneAdded ==
  ASSUME NEW rows, IdsCount(rows), NEW new, new.id = Cardinality(rows) + 1
  PROVE  new \notin rows /\ IdsCount(rows \cup {new})
  <1>1. Cardinality(rows) \in Nat
    BY FS_CardinalityType DEF IdsCount
  <1>2. \A a \in rows : a.id # new.id
    BY <1>1 DEF IdsCount
  <1>3. /\ IsFiniteSet(rows \cup {new})
        /\ Cardinality(rows \cup {new}) = Cardinality(rows) + 1
    BY <1>2, FS_AddElement DEF IdsCount
  <1>4. \A a \in rows \cup {new} : a.id \in 1..Cardinality(rows \cup {new})
    BY <1>1, <1>3 DEF IdsCount
  <1> QED BY <1>2, <1>3, <1>4 DEF IdsCount

-----------------------------------------------------------------------------
(* Types *)

(* A call under way has a mail, an authorization made for it, and what it read. *)
CallsAreOf ==
  \A g \in Gates :
    /\ gates[g].pc # "idle" =>
         /\ gates[g].mail \in Mails /\ gates[g].ctx \in Contexts
         /\ \E a \in auths : a.id = gates[g].auth /\ a.mail = gates[g].mail
    /\ gates[g].pc = "judged" => gates[g].seen \in Evidences

(* Revisions count the changes. *)
RevisionsCount ==
  /\ spent.changes \in 0..MaxChanges
  /\ own \in [Mails -> 1..(spent.changes + 1)] /\ global \in 1..(spent.changes + 1)

GateRowsTyped ==
  /\ facts \in [Mails -> SUBSET Final!AllFacts]
  /\ controls \in Activations
  /\ camp \in [Mails -> CampRows] /\ mail \in [Mails -> MailRows]
  /\ auths \subseteq AuthRows /\ gates \in [Gates -> GateRows]
  /\ spent \in [changes : Nat, switches : Nat]

GateTyped == GateRowsTyped /\ IdsCount(auths) /\ CallsAreOf /\ RevisionsCount

LEMMA GateTypedAtFirst == ASSUME Final!FinalGateAssumption, Final!FinalGateInit PROVE GateTyped
  <1>1. facts \in [Mails -> SUBSET Final!AllFacts] /\ controls \in Activations
    BY DEF Final!FinalGateInit, Activations
  <1>2. [state |-> "live", rev |-> 1, events |-> 0] \in CampRows
    BY DEF CampRows, CampStates
  <1>3. [state |-> "claimed", gen |-> 0, by |-> None] \in MailRows
    BY DEF MailRows, MailStates, Final!FinalGateAssumption
  <1>4. [pc |-> "idle", mail |-> None, auth |-> None, ctx |-> None, seen |-> None] \in GateRows
    BY DEF GateRows
  <1>5. /\ camp \in [Mails -> CampRows] /\ mail \in [Mails -> MailRows]
        /\ gates \in [Gates -> GateRows] /\ spent \in [changes : Nat, switches : Nat]
        /\ auths \subseteq AuthRows
    BY <1>2, <1>3, <1>4 DEF Final!FinalGateInit
  <1>6. IdsCount(auths)
    BY FS_EmptySet DEF Final!FinalGateInit, IdsCount
  <1>7. CallsAreOf
    BY DEF Final!FinalGateInit, CallsAreOf
  <1>8. RevisionsCount
    BY DEF Final!FinalGateInit, RevisionsCount, Final!FinalGateAssumption
  <1> QED BY <1>1, <1>5, <1>6, <1>7, <1>8 DEF GateTyped, GateRowsTyped

(* Calls lose nothing by what becomes of authorizations, or by ending. *)
LEMMA CallsKept ==
  ASSUME CallsAreOf,
         \A a \in auths : \E b \in auths' : Becomes(a, b),
         \A h \in Gates : gates'[h] = gates[h] \/ gates'[h].pc = "idle"
  PROVE  CallsAreOf'
  <1>1. ASSUME NEW g \in Gates, gates'[g].pc # "idle"
        PROVE  /\ gates'[g].mail \in Mails /\ gates'[g].ctx \in Contexts
               /\ \E b \in auths' : b.id = gates'[g].auth /\ b.mail = gates'[g].mail
    <2>1. gates'[g] = gates[g]
      BY <1>1
    <2>2. PICK a \in auths : a.id = gates[g].auth /\ a.mail = gates[g].mail
      BY <1>1, <2>1 DEF CallsAreOf
    <2>3. PICK b \in auths' : Becomes(a, b)
      BY <2>2
    <2> QED BY <1>1, <2>1, <2>2, <2>3 DEF CallsAreOf, Becomes
  <1>2. ASSUME NEW g \in Gates, gates'[g].pc = "judged" PROVE gates'[g].seen \in Evidences
    BY <1>2 DEF CallsAreOf
  <1> QED BY <1>1, <1>2 DEF CallsAreOf

LEMMA BecomesItself == \A a : Becomes(a, a)
  BY DEF Becomes

(* What the end of a campaign does. *)
LEMMA CampaignEnds ==
  ASSUME GateTyped, NEW m \in Mails, NEW state \in {"action-required", "stopped"},
         Final!EndCampaign(m, state)
  PROVE  /\ camp' \in [Mails -> CampRows] /\ mail' \in [Mails -> MailRows]
         /\ camp'[m].state = state /\ camp'[m].rev = camp[m].rev + 1
         /\ camp'[m].events = IF state = "action-required" THEN camp[m].events + 1
                              ELSE camp[m].events
         /\ \A n \in Mails \ {m} : camp'[n] = camp[n] /\ mail'[n] = mail[n]
         /\ mail'[m].state = IF mail[m].state \in {"claimed", "prepared"} THEN "cancelled"
                             ELSE mail[m].state
         /\ mail'[m].gen = mail[m].gen /\ mail'[m].by = mail[m].by
         /\ auths' = IF mail[m].state = "prepared" THEN Final!WithdrawOf(m) ELSE auths
  <1>0. /\ camp \in [Mails -> CampRows] /\ mail \in [Mails -> MailRows]
        /\ camp[m].rev \in Nat /\ camp[m].events \in Nat
    BY DEF GateTyped, GateRowsTyped, CampRows
  <1> DEFINE rev == camp[m].rev + 1
             events == IF state = "action-required" THEN camp[m].events + 1 ELSE camp[m].events
             row == [camp[m] EXCEPT !.state = state, !.rev = rev, !.events = events]
  <1>1. rev \in Nat /\ events \in Nat
    BY <1>0
  <1>2. camp' = [camp EXCEPT ![m] = row]
    BY <1>0 DEF Final!EndCampaign
  <1> HIDE DEF rev, events
  <1>3. /\ row \in CampRows /\ row.state = state /\ row.rev = rev /\ row.events = events
    BY <1>0, <1>1 DEF CampRows, CampStates
  <1> HIDE DEF row
  <1>4. /\ camp' \in [Mails -> CampRows] /\ camp'[m] = row
        /\ \A n \in Mails \ {m} : camp'[n] = camp[n]
    BY <1>0, <1>2, <1>3
  <1>5. CASE mail[m].state = "prepared"
    <2>1. mail' = [mail EXCEPT ![m].state = "cancelled"] /\ auths' = Final!WithdrawOf(m)
      BY <1>5 DEF Final!EndCampaign, Final!Cancelled
    <2>2. /\ mail' \in [Mails -> MailRows] /\ mail'[m].state = "cancelled"
          /\ mail'[m].gen = mail[m].gen /\ mail'[m].by = mail[m].by
          /\ \A n \in Mails \ {m} : mail'[n] = mail[n]
      BY <1>0, <2>1 DEF MailRows, MailStates
    <2> QED BY <1>3, <1>4, <1>5, <2>1, <2>2 DEF rev, events
  <1>6. CASE mail[m].state # "prepared"
    <2>1. /\ mail' = [mail EXCEPT ![m].state = IF @ = "claimed" THEN "cancelled" ELSE @]
          /\ auths' = auths
      BY <1>6 DEF Final!EndCampaign
    <2>2. /\ mail' \in [Mails -> MailRows]
          /\ mail'[m].state = IF mail[m].state \in {"claimed", "prepared"} THEN "cancelled"
                              ELSE mail[m].state
          /\ mail'[m].gen = mail[m].gen /\ mail'[m].by = mail[m].by
          /\ \A n \in Mails \ {m} : mail'[n] = mail[n]
      BY <1>0, <1>6, <2>1 DEF MailRows, MailStates
    <2> QED BY <1>3, <1>4, <1>6, <2>1, <2>2 DEF rev, events
  <1> QED BY <1>5, <1>6

(* Authorizations that are used or withdrawn, or stay. *)
AuthsStay ==
  /\ IdsCount(auths') /\ auths' \subseteq AuthRows
  /\ \A a \in auths : \E b \in auths' : Becomes(a, b)

LEMMA AuthsUntouched == ASSUME GateTyped, auths' = auths PROVE AuthsStay
  <1>1. \A a \in auths : \E b \in auths : Becomes(a, b)
    BY BecomesItself
  <1> QED BY <1>1 DEF GateTyped, GateRowsTyped, AuthsStay

LEMMA AuthsWithdrawn ==
  ASSUME GateTyped, NEW m \in Mails, auths' = Final!WithdrawOf(m) PROVE AuthsStay
  BY WithdrawnRows DEF GateTyped, GateRowsTyped, AuthsStay

(* A step of the world: the calls are where they were. *)
LEMMA WorldTyped ==
  ASSUME GateTyped, AuthsStay, UNCHANGED <<facts, own, global, gates, spent>>,
         controls' \in Activations, camp' \in [Mails -> CampRows],
         mail' \in [Mails -> MailRows]
  PROVE  GateTyped'
  <1>1. CallsAreOf'
    BY CallsKept DEF GateTyped, AuthsStay
  <1>2. RevisionsCount'
    BY DEF GateTyped, RevisionsCount
  <1> QED BY <1>1, <1>2 DEF GateTyped, GateRowsTyped, AuthsStay

(* A step of a call that leaves the campaigns and the mails alone. *)
LEMMA CallTyped ==
  ASSUME GateTyped, UNCHANGED <<facts, own, global, controls, camp, mail, auths, spent>>,
         gates' \in [Gates -> GateRows], CallsAreOf'
  PROVE  GateTyped'
  <1>1. RevisionsCount'
    BY DEF GateTyped, RevisionsCount
  <1> QED BY <1>1 DEF GateTyped, GateRowsTyped

LEMMA ChangeTyped == ASSUME Final!FinalGateAssumption, GateTyped, Final!Change PROVE GateTyped'
  <1>0. /\ facts \in [Mails -> SUBSET Final!AllFacts] /\ spent \in [changes : Nat, switches : Nat]
        /\ spent.changes \in 0..MaxChanges /\ MaxChanges \in Nat
        /\ own \in [Mails -> 1..(spent.changes + 1)] /\ global \in 1..(spent.changes + 1)
    BY DEF GateTyped, GateRowsTyped, RevisionsCount, Final!FinalGateAssumption
  <1> DEFINE n == spent.changes + 1
  <1>1. n \in 1..MaxChanges /\ spent' = [spent EXCEPT !.changes = n]
    BY <1>0 DEF Final!Change
  <1> HIDE DEF n
  <1>2. spent' \in [changes : Nat, switches : Nat] /\ spent'.changes = n
    BY <1>0, <1>1
  <1>3. PICK m \in Mails, f \in Final!AllFacts :
          facts' = Final!Turn(m, f) /\ own' = Final!OwnMoves(m, f) /\ global' = Final!GlobalMoves(f)
    BY DEF Final!Change
  <1>4. facts' \in [Mails -> SUBSET Final!AllFacts]
    BY <1>0, <1>3 DEF Final!Turn
  <1>5. global' \in 1..(n + 1)
    BY <1>0, <1>3 DEF Final!GlobalMoves, n
  <1>6. own[m] \in 1..n /\ own[m] + 1 \in 1..(n + 1) /\ own \in [Mails -> 1..(n + 1)]
    BY <1>0 DEF n
  <1>7. own' = [own EXCEPT ![m] = own[m] + 1] \/ own' = own
    BY <1>3 DEF Final!OwnMoves
  <1>8. own' \in [Mails -> 1..(n + 1)]
    BY <1>6, <1>7
  <1>9. RevisionsCount'
    BY <1>1, <1>2, <1>5, <1>8 DEF RevisionsCount
  <1>10. CallsAreOf'
    BY BecomesItself, CallsKept DEF Final!Change, GateTyped
  <1> QED BY <1>2, <1>4, <1>9, <1>10 DEF GateTyped, GateRowsTyped, Final!Change

LEMMA SwitchTyped == ASSUME GateTyped, Final!Switch PROVE GateTyped'
  <1>0. /\ controls \in Activations /\ spent \in [changes : Nat, switches : Nat]
        /\ controls.next \in Nat /\ controls.initial \in Nat
    BY DEF GateTyped, GateRowsTyped, Activations
  <1> DEFINE n == spent.switches + 1
             next == controls.next + 1
  <1>1. n \in Nat /\ spent' = [spent EXCEPT !.switches = n]
    BY <1>0 DEF Final!Switch
  <1>n. next \in Nat
    BY <1>0
  <1>2. \/ controls' = [controls EXCEPT !.paused = ~controls.paused]
        \/ controls' = [controls EXCEPT !.rule = ~controls.rule]
        \/ controls' = [controls EXCEPT !.initial = 0]
        \/ controls' = [controls EXCEPT !.initial = controls.next, !.next = next]
        \/ controls' = [controls EXCEPT !.follow = [id |-> controls.next, under |-> controls.initial],
                                        !.next = next]
    BY <1>0 DEF Final!Switch, Activations
  <1> HIDE DEF n, next
  <1>3. spent' \in [changes : Nat, switches : Nat] /\ spent'.changes = spent.changes
    BY <1>0, <1>1
  <1>4. ASSUME controls' = [controls EXCEPT !.paused = ~controls.paused] PROVE controls' \in Activations
    BY <1>0, <1>n, <1>4 DEF Activations
  <1>5. ASSUME controls' = [controls EXCEPT !.rule = ~controls.rule] PROVE controls' \in Activations
    BY <1>0, <1>n, <1>5 DEF Activations
  <1>6. ASSUME controls' = [controls EXCEPT !.initial = 0] PROVE controls' \in Activations
    BY <1>0, <1>n, <1>6 DEF Activations
  <1>7. ASSUME controls' = [controls EXCEPT !.initial = controls.next, !.next = next] PROVE controls' \in Activations
    BY <1>0, <1>n, <1>7 DEF Activations
  <1>8. ASSUME controls' = [controls EXCEPT !.follow = [id |-> controls.next, under |-> controls.initial],
                                            !.next = next]
        PROVE controls' \in Activations
    BY <1>0, <1>n, <1>8 DEF Activations
  <1>9. controls' \in Activations
    BY <1>2, <1>4, <1>5, <1>6, <1>7, <1>8
  <1>10. RevisionsCount'
    BY <1>3 DEF GateTyped, RevisionsCount, Final!Switch
  <1>11. CallsAreOf'
    BY BecomesItself, CallsKept DEF Final!Switch, GateTyped
  <1> QED BY <1>3, <1>9, <1>10, <1>11 DEF GateTyped, GateRowsTyped, Final!Switch

(* What happens to the authorizations and the mail of a campaign outside the gate. *)
LEMMA WithdrawTyped == ASSUME GateTyped, Final!WithdrawAuthorization PROVE GateTyped'
  <1>1. PICK a \in auths : /\ a.state = "issued" /\ Final!Cancelled(a.mail)
                           /\ mail' = [mail EXCEPT ![a.mail].state = "cancelled"]
    BY DEF Final!WithdrawAuthorization
  <1>2. a.mail \in Mails
    BY DEF GateTyped, GateRowsTyped, AuthRows
  <1>3. AuthsStay
    BY <1>1, <1>2, AuthsWithdrawn DEF Final!Cancelled
  <1>4. mail' \in [Mails -> MailRows]
    BY <1>1, <1>2 DEF GateTyped, GateRowsTyped, MailRows, MailStates
  <1> QED BY <1>3, <1>4, WorldTyped DEF Final!WithdrawAuthorization, GateTyped, GateRowsTyped

LEMMA EndTyped ==
  ASSUME GateTyped, NEW m \in Mails, NEW state \in {"action-required", "stopped"},
         Final!EndCampaign(m, state)
  PROVE  AuthsStay /\ camp' \in [Mails -> CampRows] /\ mail' \in [Mails -> MailRows]
  <1>1. auths' = Final!WithdrawOf(m) \/ auths' = auths
    BY CampaignEnds
  <1> QED BY <1>1, CampaignEnds, AuthsUntouched, AuthsWithdrawn

LEMMA StopTyped == ASSUME GateTyped, Final!Stop PROVE GateTyped'
  <1>1. PICK m \in Mails : Final!EndCampaign(m, "stopped")
    BY DEF Final!Stop
  <1> QED BY <1>1, EndTyped, WorldTyped DEF Final!Stop, GateTyped, GateRowsTyped

LEMMA PrepareTyped == ASSUME Final!FinalGateAssumption, GateTyped, Final!Prepare PROVE GateTyped'
  <1>1. PICK m \in Mails :
          /\ mail[m].gen < MaxGens
          /\ mail' = [mail EXCEPT ![m] = [state |-> "prepared", gen |-> mail[m].gen + 1, by |-> None]]
    BY DEF Final!Prepare
  <1>0. mail \in [Mails -> MailRows] /\ mail[m].gen \in 0..MaxGens /\ MaxGens \in Nat
    BY DEF GateTyped, GateRowsTyped, MailRows, Final!FinalGateAssumption
  <1>2. mail[m].gen + 1 \in 0..MaxGens
    BY <1>0, <1>1
  <1>3. [state |-> "prepared", gen |-> mail[m].gen + 1, by |-> None] \in MailRows
    BY <1>2 DEF MailRows, MailStates
  <1>4. mail' \in [Mails -> MailRows]
    BY <1>0, <1>1, <1>3
  <1> QED BY <1>4, AuthsUntouched, WorldTyped DEF Final!Prepare, GateTyped, GateRowsTyped

LEMMA ReleaseTyped == ASSUME GateTyped, Final!Release PROVE GateTyped'
  <1>1. PICK m \in Mails : Final!Cancelled(m) /\ mail' = [mail EXCEPT ![m].state = "claimed"]
    BY DEF Final!Release
  <1>2. AuthsStay
    BY <1>1, AuthsWithdrawn DEF Final!Cancelled
  <1>3. mail' \in [Mails -> MailRows]
    BY <1>1 DEF GateTyped, GateRowsTyped, MailRows, MailStates
  <1> QED BY <1>2, <1>3, WorldTyped DEF Final!Release, GateTyped, GateRowsTyped

(* The new authorization comes on top of those that were withdrawn for it. *)
LEMMA IssueRows ==
  ASSUME GateTyped, NEW m \in Mails, mail[m].state = "prepared",
         auths' = Final!WithdrawOf(m) \cup {Final!Issued(m)}
  PROVE  AuthsStay /\ Final!Issued(m) \in AuthRows /\ Final!Issued(m) \notin Final!WithdrawOf(m)
  <1>0. /\ mail \in [Mails -> MailRows] /\ controls \in Activations
        /\ IdsCount(auths) /\ auths \subseteq AuthRows
    BY DEF GateTyped, GateRowsTyped
  <1>1. Cardinality(auths) \in Nat
    BY <1>0, FS_CardinalityType DEF IdsCount
  <1>2. Final!Chain(m) \in Nat
    BY <1>0 DEF Final!Chain, Activations
  <1>3. Cardinality(auths) + 1 \in Nat /\ mail[m].gen \in Nat
    BY <1>0, <1>1 DEF MailRows
  <1>4. Final!Issued(m) \in AuthRows /\ Final!Issued(m).id = Cardinality(auths) + 1
    BY <1>2, <1>3, FinalCounts DEF Final!Issued, AuthRows, AuthStates
  <1>5. /\ IdsCount(Final!WithdrawOf(m)) /\ Final!WithdrawOf(m) \subseteq AuthRows
        /\ Cardinality(Final!WithdrawOf(m)) = Cardinality(auths)
        /\ \A a \in auths : \E b \in Final!WithdrawOf(m) : Becomes(a, b)
    BY <1>0, WithdrawnRows
  <1>6. Final!Issued(m) \notin Final!WithdrawOf(m) /\ IdsCount(Final!WithdrawOf(m) \cup {Final!Issued(m)})
    BY <1>4, <1>5, OneAdded
  <1>7. \A a \in auths : \E b \in auths' : Becomes(a, b)
    BY <1>5
  <1> QED BY <1>4, <1>5, <1>6, <1>7 DEF AuthsStay

LEMMA IssueTyped == ASSUME GateTyped, Final!Issue PROVE GateTyped'
  <1>1. PICK m \in Mails : Final!MayIssue(m) /\ auths' = Final!WithdrawOf(m) \cup {Final!Issued(m)}
    BY DEF Final!Issue
  <1>2. AuthsStay
    BY <1>1, IssueRows DEF Final!MayIssue
  <1> QED BY <1>2, WorldTyped DEF Final!Issue, GateTyped, GateRowsTyped

LEMMA LapseTyped == ASSUME GateTyped, Final!Lapse PROVE GateTyped'
  <1>1. PICK a \in auths : /\ a.state = "issued"
                           /\ auths' = (auths \ {a}) \cup {[a EXCEPT !.lapsed = TRUE]}
    BY DEF Final!Lapse
  <1> DEFINE row == [a EXCEPT !.lapsed = TRUE]
  <1>2. row \in AuthRows /\ Becomes(a, row)
    BY DEF GateTyped, GateRowsTyped, AuthRows, Becomes
  <1> HIDE DEF row
  <1>3. AuthsStay
    BY <1>1, <1>2, OneRewritten DEF GateTyped, GateRowsTyped, AuthsStay, row
  <1> QED BY <1>3, WorldTyped DEF Final!Lapse, GateTyped, GateRowsTyped

LEMMA ReadTyped ==
  ASSUME GateTyped, NEW g \in Gates, Final!ReadContext(g) PROVE GateTyped'
  <1>1. PICK a \in auths :
          gates' = [gates EXCEPT ![g] = [pc |-> "read", mail |-> a.mail, auth |-> a.id,
                                         ctx |-> Final!Context(a.mail), seen |-> None]]
    BY DEF Final!ReadContext
  <1>0. /\ gates \in [Gates -> GateRows] /\ a \in AuthRows /\ a.mail \in Mails /\ a.id \in Nat
        /\ mail[a.mail] \in MailRows /\ camp[a.mail] \in CampRows /\ controls \in Activations
        /\ global \in Nat
    BY DEF GateTyped, GateRowsTyped, AuthRows, RevisionsCount
  <1>2. Final!Chain(a.mail) \in Nat
    BY <1>0 DEF Final!Chain, Activations
  <1>3. mail[a.mail].gen \in Nat /\ mail[a.mail].state \in MailStates /\ camp[a.mail].rev \in Nat
    BY <1>0 DEF MailRows, CampRows
  <1>4. Final!Context(a.mail) \in Contexts
    BY <1>0, <1>2, <1>3 DEF Final!Context, Contexts
  <1> DEFINE row == [pc |-> "read", mail |-> a.mail, auth |-> a.id,
                     ctx |-> Final!Context(a.mail), seen |-> None]
  <1>5. /\ row \in GateRows /\ row.pc = "read" /\ row.mail = a.mail /\ row.auth = a.id
        /\ row.ctx \in Contexts
    BY <1>0, <1>4 DEF GateRows
  <1>6. gates' = [gates EXCEPT ![g] = row]
    BY <1>1
  <1> HIDE DEF row
  <1>7. gates' \in [Gates -> GateRows] /\ gates'[g] = row
        /\ \A h \in Gates \ {g} : gates'[h] = gates[h]
    BY <1>0, <1>5, <1>6
  <1>8. auths' = auths /\ CallsAreOf
    BY DEF Final!ReadContext, GateTyped
  <1>9. CallsAreOf'
    BY <1>0, <1>5, <1>7, <1>8 DEF CallsAreOf
  <1> QED BY <1>7, <1>9, CallTyped DEF Final!ReadContext

(* A call that ends, with whatever became of authorizations, campaign and mail. *)
LEMMA EndedTyped ==
  ASSUME GateTyped, AuthsStay, NEW g \in Gates, Final!End(g),
         UNCHANGED <<facts, own, global, controls, spent>>,
         camp' \in [Mails -> CampRows], mail' \in [Mails -> MailRows]
  PROVE  /\ GateTyped'
         /\ gates'[g].pc = "idle" /\ \A h \in Gates \ {g} : gates'[h] = gates[h]
  <1> DEFINE row == [pc |-> "idle", mail |-> None, auth |-> None, ctx |-> None, seen |-> None]
  <1>1. row \in GateRows /\ row.pc = "idle"
    BY DEF GateRows
  <1>2. gates' = [gates EXCEPT ![g] = row] /\ gates \in [Gates -> GateRows]
    BY DEF Final!End, GateTyped, GateRowsTyped
  <1> HIDE DEF row
  <1>3. /\ gates' \in [Gates -> GateRows] /\ gates'[g].pc = "idle"
        /\ \A h \in Gates \ {g} : gates'[h] = gates[h]
    BY <1>1, <1>2
  <1>4. CallsAreOf'
    BY <1>3, CallsKept DEF GateTyped, AuthsStay
  <1>5. RevisionsCount'
    BY DEF GateTyped, RevisionsCount
  <1> QED BY <1>3, <1>4, <1>5 DEF GateTyped, GateRowsTyped, AuthsStay

LEMMA DemandTyped ==
  ASSUME GateTyped, NEW g \in Gates, Final!DemandAction(g)
  PROVE  /\ GateTyped' /\ gates[g].mail \in Mails /\ Final!EndCampaign(gates[g].mail, "action-required")
         /\ gates'[g].pc = "idle" /\ \A h \in Gates \ {g} : gates'[h] = gates[h]
  <1>1. gates[g].mail \in Mails /\ Final!EndCampaign(gates[g].mail, "action-required") /\ Final!End(g)
    BY DEF Final!DemandAction, GateTyped, CallsAreOf
  <1>2. AuthsStay /\ camp' \in [Mails -> CampRows] /\ mail' \in [Mails -> MailRows]
    BY <1>1, EndTyped
  <1> QED BY <1>1, <1>2, EndedTyped DEF Final!DemandAction

LEMMA BlockedTyped ==
  ASSUME GateTyped, NEW g \in Gates, Final!Blocked(g)
  PROVE  /\ GateTyped' /\ gates'[g].pc = "idle" /\ \A h \in Gates \ {g} : gates'[h] = gates[h]
  <1>1. AuthsStay /\ camp \in [Mails -> CampRows] /\ mail \in [Mails -> MailRows]
    BY AuthsUntouched DEF Final!Blocked, GateTyped, GateRowsTyped
  <1> QED BY <1>1, EndedTyped DEF Final!Blocked

LEMMA TryAgainTyped ==
  ASSUME GateTyped, NEW g \in Gates, Final!TryAgain(g)
  PROVE  /\ GateTyped' /\ gates[g].mail \in Mails
         /\ \A h \in Gates \ {g} : gates'[h] = gates[h]
         /\ \/ gates'[g].pc = "idle"
            \/ /\ gates'[g].pc = "read" /\ gates'[g].mail = gates[g].mail
               /\ gates'[g].ctx = [gates[g].ctx EXCEPT !.rev = camp[gates[g].mail].rev]
               /\ camp[gates[g].mail].state = "live"
  <1> DEFINE m == gates[g].mail
  <1>0. /\ gates \in [Gates -> GateRows] /\ m \in Mails /\ gates[g].ctx \in Contexts
        /\ camp[m] \in CampRows
    BY DEF Final!TryAgain, GateTyped, GateRowsTyped, CallsAreOf
  <1>1. CASE Final!End(g)
    <2>1. AuthsStay /\ camp \in [Mails -> CampRows] /\ mail \in [Mails -> MailRows]
      BY AuthsUntouched DEF Final!TryAgain, GateTyped, GateRowsTyped
    <2> QED BY <1>0, <1>1, <2>1, EndedTyped DEF Final!TryAgain
  <1>2. CASE camp[m].state = "live" /\ gates' = [gates EXCEPT ![g].ctx.rev = camp[m].rev]
    <2> DEFINE ctx == [gates[g].ctx EXCEPT !.rev = camp[m].rev]
               row == [gates[g] EXCEPT !.ctx = ctx]
    <2>1. ctx \in Contexts
      BY <1>0 DEF Contexts, CampRows
    <2>2. gates' = [gates EXCEPT ![g] = row]
      BY <1>0, <1>2
    <2> HIDE DEF ctx
    <2>3. /\ row \in GateRows /\ row.ctx = ctx /\ row.pc = gates[g].pc
          /\ row.mail = gates[g].mail /\ row.auth = gates[g].auth
      BY <1>0, <2>1 DEF GateRows
    <2> HIDE DEF row
    <2>4. /\ gates' \in [Gates -> GateRows] /\ gates'[g] = row
          /\ \A h \in Gates \ {g} : gates'[h] = gates[h]
      BY <1>0, <2>2, <2>3
    <2>5. auths' = auths /\ CallsAreOf /\ gates[g].pc = "read"
      BY DEF Final!TryAgain, GateTyped
    <2>6. CallsAreOf'
      BY <2>1, <2>3, <2>4, <2>5 DEF CallsAreOf
    <2>7. GateTyped'
      BY <2>4, <2>6, CallTyped DEF Final!TryAgain
    <2> QED BY <1>0, <1>2, <2>3, <2>4, <2>5, <2>7 DEF ctx
  <1> QED BY <1>1, <1>2 DEF Final!TryAgain

LEMMA JudgeTyped ==
  ASSUME GateTyped, NEW g \in Gates, Final!Judge(g)
  PROVE  /\ GateTyped' /\ gates[g].mail \in Mails
         /\ \A h \in Gates \ {g} : gates'[h] = gates[h]
         /\ gates'[g].pc = "judged" /\ gates'[g].mail = gates[g].mail
         /\ gates'[g].auth = gates[g].auth /\ gates'[g].ctx = gates[g].ctx
         /\ gates'[g].seen.facts = Final!Favour(gates[g].mail)
         /\ gates'[g].seen.own = own[gates[g].mail]
  <1> DEFINE m == gates[g].mail
  <1>0. /\ gates \in [Gates -> GateRows] /\ m \in Mails /\ gates[g].ctx \in Contexts
        /\ facts[m] \in SUBSET Final!AllFacts /\ own[m] \in Nat
    BY DEF Final!Judge, GateTyped, GateRowsTyped, CallsAreOf, RevisionsCount
  <1>1. PICK ready \in Final!Readiness :
          gates' = [gates EXCEPT ![g].pc = "judged", ![g].seen = Final!Evidence(m, ready)]
    BY DEF Final!Judge
  <1> DEFINE seen == Final!Evidence(m, ready)
             row == [gates[g] EXCEPT !.pc = "judged", !.seen = seen]
  <1>2. seen \in Evidences /\ seen.facts = Final!Favour(m) /\ seen.own = own[m]
    BY <1>0 DEF Final!Evidence, Evidences, Final!Favour, Final!Readiness
  <1>3. gates' = [gates EXCEPT ![g] = row]
    BY <1>0, <1>1
  <1> HIDE DEF seen
  <1>4. /\ row \in GateRows /\ row.ctx = gates[g].ctx /\ row.pc = "judged"
        /\ row.mail = gates[g].mail /\ row.auth = gates[g].auth /\ row.seen = seen
    BY <1>0, <1>2 DEF GateRows
  <1> HIDE DEF row
  <1>5. /\ gates' \in [Gates -> GateRows] /\ gates'[g] = row
        /\ \A h \in Gates \ {g} : gates'[h] = gates[h]
    BY <1>0, <1>3, <1>4
  <1>6. auths' = auths /\ CallsAreOf /\ gates[g].pc = "read"
    BY DEF Final!Judge, GateTyped
  <1>7. CallsAreOf'
    BY <1>0, <1>2, <1>4, <1>5, <1>6 DEF CallsAreOf
  <1>8. GateTyped'
    BY <1>5, <1>7, CallTyped DEF Final!Judge
  <1> QED BY <1>0, <1>2, <1>4, <1>5, <1>8

(* A call hands the mail over with the authorization it was made for. *)
LEMMA AuthorizeTyped ==
  ASSUME GateTyped, NEW g \in Gates, Final!Authorize(g)
  PROVE  /\ GateTyped' /\ gates[g].mail \in Mails
         /\ gates'[g].pc = "idle" /\ \A h \in Gates \ {g} : gates'[h] = gates[h]
         /\ \A n \in Mails \ {gates[g].mail} : mail'[n] = mail[n]
         /\ mail'[gates[g].mail].state = "pending"
         /\ mail'[gates[g].mail].gen = mail[gates[g].mail].gen
         /\ \E a \in auths :
              /\ a = Final!Auth(gates[g].auth) /\ a.mail = gates[g].mail
              /\ mail'[a.mail].by = a.id
              /\ auths' = (auths \ {a}) \cup {[a EXCEPT !.state = "consumed"]}
  <1> DEFINE m == gates[g].mail
  <1>0. /\ m \in Mails /\ mail \in [Mails -> MailRows] /\ auths \subseteq AuthRows
        /\ IdsCount(auths)
    BY DEF Final!Authorize, GateTyped, GateRowsTyped, CallsAreOf
  <1>1. PICK a \in auths : a.id = gates[g].auth /\ a.mail = m
    BY DEF Final!Authorize, GateTyped, CallsAreOf
  <1>2. a = Final!Auth(gates[g].auth)
    BY <1>0, <1>1, AuthIs
  <1>3. /\ mail' = [mail EXCEPT ![m].state = "pending", ![m].by = a.id]
        /\ auths' = (auths \ {a}) \cup {[a EXCEPT !.state = "consumed"]}
        /\ a.state = "issued"
    BY <1>2 DEF Final!Authorize, Final!Authorizable, Final!AuthorizationStands
  <1>4. /\ mail' \in [Mails -> MailRows] /\ mail'[m].state = "pending" /\ mail'[m].by = a.id
        /\ mail'[m].gen = mail[m].gen /\ \A n \in Mails \ {m} : mail'[n] = mail[n]
    BY <1>0, <1>1, <1>3 DEF MailRows, MailStates, AuthRows
  <1> DEFINE row == [a EXCEPT !.state = "consumed"]
  <1>5. row \in AuthRows /\ Becomes(a, row)
    BY <1>0, <1>3 DEF AuthRows, AuthStates, Becomes
  <1>r. auths' = (auths \ {a}) \cup {row}
    BY <1>3
  <1> HIDE DEF row
  <1>6. AuthsStay
    BY <1>0, <1>r, <1>5, OneRewritten DEF AuthsStay
  <1>7. /\ GateTyped' /\ gates'[g].pc = "idle" /\ \A h \in Gates \ {g} : gates'[h] = gates[h]
    BY <1>4, <1>6, EndedTyped DEF Final!Authorize, GateTyped, GateRowsTyped
  <1> QED BY <1>0, <1>1, <1>2, <1>3, <1>4, <1>7

LEMMA GateTypedKept ==
  ASSUME Final!FinalGateAssumption, GateTyped, [Final!FinalGateNext]_(Final!gateVars) PROVE GateTyped'
  <1>1. ASSUME UNCHANGED Final!gateVars PROVE GateTyped'
    BY <1>1 DEF Final!gateVars, GateTyped, GateRowsTyped, CallsAreOf, RevisionsCount
  <1> QED BY <1>1, ChangeTyped, SwitchTyped, WithdrawTyped, StopTyped, PrepareTyped, ReleaseTyped,
             IssueTyped, LapseTyped, ReadTyped, DemandTyped, TryAgainTyped, JudgeTyped,
             AuthorizeTyped, BlockedTyped
          DEF Final!FinalGateNext

LEMMA TypedAlways == ASSUME Final!FinalGateAssumption PROVE Final!FinalGateSpec => []GateTyped
  <1>1. Final!FinalGateInit => GateTyped
    BY GateTypedAtFirst
  <1>2. GateTyped /\ [Final!FinalGateNext]_(Final!gateVars) => GateTyped'
    BY GateTypedKept
  <1> QED BY <1>1, <1>2, PTL DEF Final!FinalGateSpec

(* Facts, revisions, campaigns, mails, authorizations and calls keep their  *)
(* types; the revisions stay within the changes that were made.             *)
THEOREM GateTypeCorrect == ASSUME Final!FinalGateAssumption PROVE Final!FinalGateSpec => []Final!FinalGateTypeOK
  <1>1. GateTyped => Final!FinalGateTypeOK
    <2> SUFFICES ASSUME GateTyped PROVE Final!FinalGateTypeOK
      OBVIOUS
    <2>0. GateRowsTyped /\ RevisionsCount /\ MaxChanges \in Nat
      BY DEF GateTyped, Final!FinalGateAssumption
    <2>1. 1..(spent.changes + 1) \subseteq 1..MaxChanges + 1
      BY <2>0 DEF RevisionsCount
    <2>2. own \in [Mails -> 1..MaxChanges + 1] /\ global \in 1..MaxChanges + 1
      BY <2>0, <2>1 DEF RevisionsCount
    <2>3. \A m \in Mails : /\ camp[m].state \in CampStates /\ mail[m].state \in MailStates
                           /\ mail[m].gen \in 0..MaxGens
      BY <2>0 DEF GateRowsTyped, CampRows, MailRows
    <2>4. \A a \in auths : a.mail \in Mails /\ a.state \in AuthStates
      BY <2>0 DEF GateRowsTyped, AuthRows
    <2>5. \A g \in Gates : gates[g].pc \in {"idle", "read", "judged"}
      BY <2>0 DEF GateRowsTyped, GateRows
    <2>6. facts \in [Mails -> SUBSET Final!AllFacts]
      BY <2>0 DEF GateRowsTyped
    <2> QED BY <2>2, <2>3, <2>4, <2>5, <2>6
            DEF Final!FinalGateTypeOK, CampStates, MailStates, AuthStates
  <1> QED BY <1>1, TypedAlways, PTL

-----------------------------------------------------------------------------
(* Authorizations and mails agree *)

(* A used authorization is the one its mail was handed over with, made for  *)
(* its present form; at most one may still be used, and only while the mail *)
(* is prepared.                                                             *)
MailAgrees(m) ==
  /\ \A a \in auths : a.mail = m /\ a.state = "consumed" =>
       mail[m].state = "pending" /\ a.id = mail[m].by
  /\ mail[m].state = "pending" =>
       \E a \in auths : /\ a.mail = m /\ a.state = "consumed" /\ a.id = mail[m].by
                        /\ a.gen = mail[m].gen
  /\ \A a, b \in auths : a.mail = m /\ b.mail = m /\ a.state = "issued" /\ b.state = "issued" =>
       a = b
  /\ \A a \in auths : a.mail = m /\ a.state = "issued" => mail[m].state = "prepared"
MailsAgree == \A m \in Mails : MailAgrees(m)

(* Nothing but a withdrawal happens to the authorizations of a mail that is  *)
(* not handed over in this step.                                             *)
LEMMA AgreesKept ==
  ASSUME GateTyped, GateTyped', NEW m \in Mails, MailAgrees(m),
         \A b \in auths' : b.mail = m =>
           \E a \in auths : Becomes(a, b) /\ (b.state = a.state \/ b.state = "withdrawn"),
         \A a \in auths : \E b \in auths' : Becomes(a, b),
         mail[m].state = "pending" => mail'[m] = mail[m],
         mail'[m].state = "pending" => mail[m].state = "pending",
         \/ mail[m].state = "prepared" => mail'[m].state = "prepared"
         \/ \A b \in auths' : b.mail = m => b.state # "issued"
  PROVE  MailAgrees(m)'
  <1>0. IdsCount(auths) /\ IdsCount(auths)'
    BY DEF GateTyped
  <1>1. ASSUME NEW b \in auths', b.mail = m, b.state = "consumed"
        PROVE  mail'[m].state = "pending" /\ b.id = mail'[m].by
    BY <1>1 DEF MailAgrees, Becomes
  <1>2. ASSUME mail'[m].state = "pending"
        PROVE  \E b \in auths' : /\ b.mail = m /\ b.state = "consumed" /\ b.id = mail'[m].by
                                 /\ b.gen = mail'[m].gen
    <2>1. PICK a \in auths : /\ a.mail = m /\ a.state = "consumed" /\ a.id = mail[m].by
                             /\ a.gen = mail[m].gen
      BY <1>2 DEF MailAgrees
    <2>2. PICK b \in auths' : Becomes(a, b)
      OBVIOUS
    <2> QED BY <1>2, <2>1, <2>2 DEF Becomes
  <1>3. ASSUME NEW b \in auths', NEW c \in auths', b.mail = m, c.mail = m,
               b.state = "issued", c.state = "issued"
        PROVE  b = c
    <2>1. PICK d \in auths : Becomes(d, b) /\ d.state = "issued"
      BY <1>3
    <2>2. PICK e \in auths : Becomes(e, c) /\ e.state = "issued"
      BY <1>3
    <2>3. d = e
      BY <1>3, <2>1, <2>2 DEF MailAgrees, Becomes
    <2> QED BY <1>0, <2>1, <2>2, <2>3 DEF IdsCount, Becomes
  <1>4. ASSUME NEW b \in auths', b.mail = m, b.state = "issued" PROVE mail'[m].state = "prepared"
    <2>1. PICK a \in auths : Becomes(a, b) /\ a.state = "issued"
      BY <1>4
    <2> QED BY <1>4, <2>1 DEF MailAgrees, Becomes
  <1> QED BY <1>1, <1>2, <1>3, <1>4 DEF MailAgrees

(* The authorizations of a step outside issuing and handing over. *)
LEMMA AgreesWithRows ==
  ASSUME GateTyped, NEW m \in Mails, NEW n \in Mails,
         auths' = auths \/ auths' = Final!WithdrawOf(n)
  PROVE  /\ \A b \in auths' : b.mail = m =>
              \E a \in auths : Becomes(a, b) /\ (b.state = a.state \/ b.state = "withdrawn")
         /\ \A a \in auths : \E b \in auths' : Becomes(a, b)
         /\ auths' = Final!WithdrawOf(n) => \A b \in auths' : b.mail = n => b.state # "issued"
  <1>1. CASE auths' = auths
    <2>1. \A b \in auths : Becomes(b, b)
      BY BecomesItself
    <2>2. auths' = Final!WithdrawOf(n) => \A b \in auths' : b.mail = n => b.state # "issued"
      BY WithdrawnRows DEF GateTyped, GateRowsTyped
    <2> QED BY <1>1, <2>1, <2>2
  <1>2. CASE auths' = Final!WithdrawOf(n)
    BY <1>2, WithdrawnRows DEF GateTyped, GateRowsTyped
  <1> QED BY <1>1, <1>2

(* A mail is touched only by the step of its own campaign. *)
LEMMA AgreesOutside ==
  ASSUME GateTyped, GateTyped', MailsAgree, NEW n \in Mails,
         auths' = auths \/ auths' = Final!WithdrawOf(n),
         \A m \in Mails \ {n} : mail'[m] = mail[m],
         mail[n].state = "pending" => mail'[n] = mail[n],
         mail'[n].state = "pending" => mail[n].state = "pending",
         \/ mail[n].state = "prepared" => mail'[n].state = "prepared"
         \/ auths' = Final!WithdrawOf(n)
  PROVE  MailsAgree'
  <1> SUFFICES ASSUME NEW m \in Mails PROVE MailAgrees(m)'
    BY DEF MailsAgree
  <1>1. /\ \A b \in auths' : b.mail = m =>
              \E a \in auths : Becomes(a, b) /\ (b.state = a.state \/ b.state = "withdrawn")
        /\ \A a \in auths : \E b \in auths' : Becomes(a, b)
        /\ auths' = Final!WithdrawOf(n) => \A b \in auths' : b.mail = n => b.state # "issued"
    BY AgreesWithRows
  <1>2. MailAgrees(m)
    BY DEF MailsAgree
  <1>3. CASE m = n
    BY <1>1, <1>2, <1>3, AgreesKept
  <1>4. CASE m # n
    BY <1>1, <1>2, <1>4, AgreesKept
  <1> QED BY <1>3, <1>4

LEMMA AgreeAtFirst == ASSUME Final!FinalGateAssumption, Final!FinalGateInit PROVE MailsAgree
  BY DEF Final!FinalGateInit, MailsAgree, MailAgrees

LEMMA AgreeIssue ==
  ASSUME GateTyped, GateTyped', MailsAgree, Final!Issue PROVE MailsAgree'
  <1>1. PICK n \in Mails : Final!MayIssue(n) /\ auths' = Final!WithdrawOf(n) \cup {Final!Issued(n)}
    BY DEF Final!Issue
  <1>2. mail' = mail /\ mail[n].state = "prepared"
    BY <1>1 DEF Final!Issue, Final!MayIssue
  <1>3. Final!Issued(n).mail = n /\ Final!Issued(n).state = "issued"
    BY DEF Final!Issued
  <1>4. AuthsStay
    BY <1>1, <1>2, IssueRows
  <1>5. \A b \in Final!WithdrawOf(n) :
          /\ \E a \in auths : Becomes(a, b) /\ (b = a \/ b.state = "withdrawn")
          /\ b.mail = n => b.state # "issued"
    BY WithdrawnRows DEF GateTyped, GateRowsTyped
  <1> SUFFICES ASSUME NEW m \in Mails PROVE MailAgrees(m)'
    BY DEF MailsAgree
  <1>6. MailAgrees(m)
    BY DEF MailsAgree
  <1>7. CASE m # n
    <2>1. \A b \in auths' : b.mail = m =>
            \E a \in auths : Becomes(a, b) /\ (b.state = a.state \/ b.state = "withdrawn")
      BY <1>1, <1>3, <1>5, <1>7
    <2> QED BY <1>2, <1>4, <1>6, <2>1, AgreesKept DEF AuthsStay
  <1>8. CASE m = n
    <2>1. \A b \in auths' : b.mail = n /\ b.state = "issued" => b = Final!Issued(n)
      BY <1>1, <1>5
    <2>2. \A b \in auths' : b.mail = n => b.state # "consumed"
      <3> SUFFICES ASSUME NEW b \in Final!WithdrawOf(n), b.mail = n, b.state = "consumed" PROVE FALSE
        BY <1>1, <1>3
      <3>1. b \in auths
        BY <1>5
      <3> QED BY <1>2, <1>6, <1>8, <3>1 DEF MailAgrees
    <2> QED BY <1>2, <1>8, <2>1, <2>2 DEF MailAgrees
  <1> QED BY <1>7, <1>8

LEMMA AgreeAuthorize ==
  ASSUME GateTyped, GateTyped', MailsAgree, NEW g \in Gates, Final!Authorize(g) PROVE MailsAgree'
  <1> DEFINE n == gates[g].mail
  <1>1. PICK a \in auths :
          /\ a = Final!Auth(gates[g].auth) /\ a.mail = n /\ mail'[a.mail].by = a.id
          /\ auths' = (auths \ {a}) \cup {[a EXCEPT !.state = "consumed"]}
    BY AuthorizeTyped
  <1>2. /\ n \in Mails /\ \A m \in Mails \ {n} : mail'[m] = mail[m]
        /\ mail'[n].state = "pending" /\ mail'[n].gen = mail[n].gen /\ mail[n].state = "prepared"
        /\ a.state = "issued" /\ a.gen = mail[n].gen
    BY <1>1, AuthorizeTyped DEF Final!Authorize, Final!Authorizable, Final!AuthorizationStands, Final!StillPrepared
  <1> DEFINE row == [a EXCEPT !.state = "consumed"]
  <1>3. /\ row.state = "consumed" /\ row.mail = n /\ row.id = a.id /\ row.gen = a.gen
        /\ Becomes(a, row)
    BY <1>1, <1>2 DEF GateTyped, GateRowsTyped, AuthRows, Becomes
  <1>4. auths' = (auths \ {a}) \cup {row}
    BY <1>1
  <1> HIDE DEF row, n
  <1> SUFFICES ASSUME NEW m \in Mails PROVE MailAgrees(m)'
    BY DEF MailsAgree
  <1>5. MailAgrees(m)
    BY DEF MailsAgree
  <1>6. CASE m # n
    <2>1. \A b \in auths' : b.mail = m =>
            \E c \in auths : Becomes(c, b) /\ (b.state = c.state \/ b.state = "withdrawn")
      BY <1>3, <1>4, <1>6, BecomesItself
    <2>2. \A c \in auths : \E b \in auths' : Becomes(c, b)
      BY <1>3, <1>4, BecomesItself
    <2> QED BY <1>2, <1>5, <1>6, <2>1, <2>2, AgreesKept
  <1>7. CASE m = n
    <2>1. \A b \in auths' : b.mail = n => b.state # "issued"
      BY <1>1, <1>2, <1>3, <1>4, <1>5, <1>7 DEF MailAgrees
    <2>2. \A b \in auths' : b.mail = n /\ b.state = "consumed" => b = row
      BY <1>2, <1>4, <1>5, <1>7 DEF MailAgrees
    <2>3. /\ mail'[n].state = "pending" /\ mail'[n].by = row.id /\ mail'[n].gen = row.gen
          /\ row \in auths'
      BY <1>1, <1>2, <1>3, <1>4
    <2> QED BY <1>3, <1>7, <2>1, <2>2, <2>3 DEF MailAgrees
  <1> QED BY <1>6, <1>7

LEMMA AgreeKept ==
  ASSUME Final!FinalGateAssumption, GateTyped, MailsAgree, [Final!FinalGateNext]_(Final!gateVars) PROVE MailsAgree'
  <1>0. GateTyped' /\ mail \in [Mails -> MailRows]
    BY GateTypedKept DEF GateTyped, GateRowsTyped
  <1>u. ASSUME UNCHANGED <<auths, mail>> PROVE MailsAgree'
    BY <1>u DEF MailsAgree, MailAgrees
  <1>1. ASSUME Final!WithdrawAuthorization PROVE MailsAgree'
    <2>1. PICK a \in auths : /\ a.state = "issued" /\ Final!Cancelled(a.mail)
                             /\ mail' = [mail EXCEPT ![a.mail].state = "cancelled"]
      BY <1>1 DEF Final!WithdrawAuthorization
    <2>2. a.mail \in Mails
      BY DEF GateTyped, GateRowsTyped, AuthRows
    <2>3. /\ \A m \in Mails \ {a.mail} : mail'[m] = mail[m]
          /\ mail'[a.mail].state = "cancelled" /\ mail[a.mail].state = "prepared"
          /\ auths' = Final!WithdrawOf(a.mail)
      BY <1>0, <2>1, <2>2 DEF Final!Cancelled, MailRows
    <2> QED BY <1>0, <2>2, <2>3, AgreesOutside
  <1>2. ASSUME NEW n \in Mails, NEW state \in {"action-required", "stopped"},
               Final!EndCampaign(n, state)
        PROVE  MailsAgree'
    <2>1. /\ \A m \in Mails \ {n} : mail'[m] = mail[m]
          /\ mail'[n].state = IF mail[n].state \in {"claimed", "prepared"} THEN "cancelled"
                              ELSE mail[n].state
          /\ mail'[n].gen = mail[n].gen /\ mail'[n].by = mail[n].by
          /\ auths' = IF mail[n].state = "prepared" THEN Final!WithdrawOf(n) ELSE auths
          /\ mail' \in [Mails -> MailRows]
      BY <1>2, CampaignEnds
    <2>2. mail[n].state = "pending" => mail'[n] = mail[n]
      BY <1>0, <2>1 DEF MailRows
    <2> QED BY <1>0, <2>1, <2>2, AgreesOutside
  <1>3. ASSUME Final!Prepare PROVE MailsAgree'
    <2>1. PICK n \in Mails :
            /\ mail[n].state = "claimed"
            /\ mail' = [mail EXCEPT ![n] = [state |-> "prepared", gen |-> mail[n].gen + 1, by |-> None]]
      BY <1>3 DEF Final!Prepare
    <2>2. /\ \A m \in Mails \ {n} : mail'[m] = mail[m]
          /\ mail'[n].state = "prepared" /\ mail[n].state = "claimed" /\ auths' = auths
      BY <1>0, <1>3, <2>1 DEF Final!Prepare
    <2> QED BY <1>0, <2>2, AgreesOutside
  <1>4. ASSUME Final!Release PROVE MailsAgree'
    <2>1. PICK n \in Mails : Final!Cancelled(n) /\ mail' = [mail EXCEPT ![n].state = "claimed"]
      BY <1>4 DEF Final!Release
    <2>2. /\ \A m \in Mails \ {n} : mail'[m] = mail[m]
          /\ mail'[n].state = "claimed" /\ mail[n].state = "prepared" /\ auths' = Final!WithdrawOf(n)
      BY <1>0, <2>1 DEF Final!Cancelled, MailRows
    <2> QED BY <1>0, <2>2, AgreesOutside
  <1>5. ASSUME Final!Lapse PROVE MailsAgree'
    <2>1. PICK a \in auths : /\ a.state = "issued"
                             /\ auths' = (auths \ {a}) \cup {[a EXCEPT !.lapsed = TRUE]}
      BY <1>5 DEF Final!Lapse
    <2> DEFINE row == [a EXCEPT !.lapsed = TRUE]
    <2>2. Becomes(a, row) /\ row.state = a.state
      BY DEF GateTyped, GateRowsTyped, AuthRows, Becomes
    <2>3. auths' = (auths \ {a}) \cup {row}
      BY <2>1
    <2> HIDE DEF row
    <2>4. /\ \A b \in auths' : \E c \in auths : Becomes(c, b) /\ b.state = c.state
          /\ \A c \in auths : \E b \in auths' : Becomes(c, b)
      BY <2>2, <2>3, BecomesItself
    <2>5. mail' = mail
      BY <1>5 DEF Final!Lapse
    <2> QED BY <1>0, <2>4, <2>5, AgreesKept DEF MailsAgree
  <1>6. ASSUME Final!Stop PROVE MailsAgree'
    BY <1>2, <1>6 DEF Final!Stop
  <1>7. ASSUME NEW g \in Gates, Final!DemandAction(g) PROVE MailsAgree'
    BY <1>2, <1>7, DemandTyped
  <1>8. ASSUME Final!Issue PROVE MailsAgree'
    BY <1>0, <1>8, AgreeIssue
  <1>9. ASSUME NEW g \in Gates, Final!Authorize(g) PROVE MailsAgree'
    BY <1>0, <1>9, AgreeAuthorize
  <1> QED BY <1>u, <1>1, <1>3, <1>4, <1>5, <1>6, <1>7, <1>8, <1>9
          DEF Final!FinalGateNext, Final!gateVars, Final!Change, Final!Switch, Final!ReadContext, Final!TryAgain, Final!Judge, Final!Blocked

(* One authorization, one call: a mail handed over used the one made for its *)
(* present form, no other is ever used, and a mail has one that may be used  *)
(* at most (issueCimLiveProviderAuthorization, authorizeCimProviderPending). *)
THEOREM AuthorizationsAreSpentOnce ==
  ASSUME Final!FinalGateAssumption PROVE Final!FinalGateSpec => []Final!SpentOnce
  <1>1. Final!FinalGateInit => MailsAgree
    BY AgreeAtFirst
  <1>2. GateTyped /\ MailsAgree /\ [Final!FinalGateNext]_(Final!gateVars) => MailsAgree'
    BY AgreeKept
  <1>3. GateTyped /\ MailsAgree => Final!SpentOnce
    <2> SUFFICES ASSUME GateTyped, MailsAgree, NEW m \in Mails
                 PROVE  /\ {a.id : a \in {b \in auths : b.mail = m /\ b.state = "consumed"}}
                             = IF mail[m].state = "pending" THEN {mail[m].by} ELSE {}
                        /\ mail[m].state = "pending" => Final!Auth(mail[m].by).gen = mail[m].gen
                        /\ Cardinality(Final!Open(m)) <= 1
                        /\ mail[m].state # "prepared" => Final!Open(m) = {}
      BY FinalCounts DEF Final!SpentOnce
    <2>0. MailAgrees(m) /\ IdsCount(auths)
      BY DEF MailsAgree, GateTyped
    <2>1. {a.id : a \in {b \in auths : b.mail = m /\ b.state = "consumed"}}
            = IF mail[m].state = "pending" THEN {mail[m].by} ELSE {}
      BY <2>0 DEF MailAgrees
    <2>2. mail[m].state = "pending" => Final!Auth(mail[m].by).gen = mail[m].gen
      BY <2>0, AuthIs DEF MailAgrees
    <2>3. \A a, b \in Final!Open(m) : a = b
      BY <2>0 DEF MailAgrees, Final!Open
    <2>4. Final!Open(m) = {} \/ \E a : Final!Open(m) = {a}
      BY <2>3
    <2>5. Cardinality(Final!Open(m)) <= 1
      <3>1. Cardinality({}) = 0 /\ \A a : Cardinality({a}) = 1
        BY FS_EmptySet, FS_Singleton
      <3>2. Cardinality(Final!Open(m)) \in {0, 1}
        BY <2>4, <3>1
      <3> QED BY <3>2
    <2>6. mail[m].state # "prepared" => Final!Open(m) = {}
      BY <2>0 DEF MailAgrees, Final!Open
    <2> QED BY <2>1, <2>2, <2>5, <2>6
  <1> QED BY <1>1, <1>2, <1>3, TypedAlways, PTL DEF Final!FinalGateSpec

-----------------------------------------------------------------------------
(* An unknown policy is reported once *)

(* Only a live campaign has a prepared mail, and what ends it advances its  *)
(* revision: whoever holds the present revision has read it as live.        *)
CampaignsSay(m) ==
  /\ camp[m].state = "live" => camp[m].events = 0
  /\ camp[m].events \in {0, 1}
  /\ mail[m].state = "prepared" => camp[m].state = "live"
  /\ m \in Unknown => mail[m].state # "pending"
CallsRead(g) ==
  /\ gates[g].pc # "idle" =>
       /\ gates[g].ctx.rev <= camp[gates[g].mail].rev
       /\ gates[g].ctx.rev = camp[gates[g].mail].rev => camp[gates[g].mail].state = "live"
  /\ gates[g].pc = "judged" => gates[g].mail \notin Unknown
SaidInv == (\A m \in Mails : CampaignsSay(m)) /\ (\A g \in Gates : CallsRead(g))

LEMMA SaidAtFirst == ASSUME Final!FinalGateInit PROVE SaidInv
  BY DEF Final!FinalGateInit, SaidInv, CampaignsSay, CallsRead

(* A call keeps what it read while campaigns end and mails change. *)
LEMMA CallsReadKept ==
  ASSUME GateTyped, SaidInv, NEW g \in Gates,
         gates'[g] = gates[g] \/ gates'[g].pc = "idle",
         \A m \in Mails : camp'[m] = camp[m] \/ camp'[m].rev = camp[m].rev + 1
  PROVE  CallsRead(g)'
  <1>1. CASE gates[g].pc = "idle"
    BY <1>1 DEF CallsRead
  <1>2. CASE gates[g].pc # "idle"
    <2>1. /\ gates[g].mail \in Mails /\ gates[g].ctx.rev \in Nat
          /\ camp[gates[g].mail].rev \in Nat
      BY <1>2 DEF GateTyped, GateRowsTyped, CallsAreOf, Contexts, CampRows
    <2> QED BY <2>1 DEF SaidInv, CallsRead
  <1> QED BY <1>1, <1>2

LEMMA SaidKept ==
  ASSUME Final!FinalGateAssumption, GateTyped, SaidInv, [Final!FinalGateNext]_(Final!gateVars) PROVE SaidInv'
  <1>0. /\ mail \in [Mails -> MailRows] /\ camp \in [Mails -> CampRows]
        /\ gates \in [Gates -> GateRows] /\ auths \subseteq AuthRows
        /\ \A g \in Gates : gates[g].pc # "idle" => gates[g].mail \in Mails
    BY DEF GateTyped, GateRowsTyped, CallsAreOf
  <1>r. (\A h \in Gates : gates'[h] = gates[h] \/ gates'[h].pc = "idle") /\ camp' = camp
          => \A g \in Gates : CallsRead(g)'
    BY CallsReadKept
  (* Steps that change neither a campaign nor what is pending or prepared. *)
  <1>s. ASSUME camp' = camp, \A h \in Gates : gates'[h] = gates[h] \/ gates'[h].pc = "idle",
               \A m \in Mails : \/ mail'[m].state = mail[m].state
                                \/ mail'[m].state \notin {"pending", "prepared"}
        PROVE  SaidInv'
    BY <1>r, <1>s DEF SaidInv, CampaignsSay
  <1>1. ASSUME UNCHANGED <<camp, mail, gates>> PROVE SaidInv'
    BY <1>s, <1>1
  <1>2. ASSUME Final!WithdrawAuthorization PROVE SaidInv'
    <2>1. PICK a \in auths : mail' = [mail EXCEPT ![a.mail].state = "cancelled"]
      BY <1>2 DEF Final!WithdrawAuthorization
    <2>2. \A m \in Mails : mail'[m].state = mail[m].state \/ mail'[m].state = "cancelled"
      BY <1>0, <2>1 DEF MailRows
    <2> QED BY <1>s, <1>2, <2>2 DEF Final!WithdrawAuthorization
  <1>3. ASSUME Final!Release PROVE SaidInv'
    <2>1. PICK n \in Mails : mail' = [mail EXCEPT ![n].state = "claimed"]
      BY <1>3 DEF Final!Release
    <2>2. \A m \in Mails : mail'[m].state = mail[m].state \/ mail'[m].state = "claimed"
      BY <1>0, <2>1 DEF MailRows
    <2> QED BY <1>s, <1>3, <2>2 DEF Final!Release
  <1>4. ASSUME Final!Prepare PROVE SaidInv'
    <2>1. PICK n \in Mails :
            /\ camp[n].state = "live"
            /\ mail' = [mail EXCEPT ![n] = [state |-> "prepared", gen |-> mail[n].gen + 1, by |-> None]]
      BY <1>4 DEF Final!Prepare
    <2>2. \A m \in Mails : mail'[m] = mail[m] \/ (m = n /\ mail'[m].state = "prepared")
      BY <1>0, <2>1
    <2>3. camp' = camp /\ gates' = gates
      BY <1>4 DEF Final!Prepare
    <2> QED BY <1>r, <2>1, <2>2, <2>3 DEF SaidInv, CampaignsSay
  <1>5. ASSUME Final!Stop PROVE SaidInv'
    <2>1. PICK n \in Mails : camp[n].state # "stopped" /\ Final!EndCampaign(n, "stopped")
      BY <1>5 DEF Final!Stop
    <2>2. /\ \A m \in Mails \ {n} : camp'[m] = camp[m] /\ mail'[m] = mail[m]
          /\ camp'[n].state = "stopped" /\ camp'[n].rev = camp[n].rev + 1
          /\ camp'[n].events = camp[n].events
          /\ mail'[n].state = IF mail[n].state \in {"claimed", "prepared"} THEN "cancelled"
                              ELSE mail[n].state
      BY <2>1, CampaignEnds
    <2>3. \A m \in Mails : CampaignsSay(m)'
      BY <2>2 DEF SaidInv, CampaignsSay
    <2>4. \A g \in Gates : CallsRead(g)'
      BY <1>5, <2>2, CallsReadKept DEF Final!Stop
    <2> QED BY <2>3, <2>4 DEF SaidInv
  <1>6. ASSUME NEW g \in Gates, Final!DemandAction(g) PROVE SaidInv'
    <2> DEFINE n == gates[g].mail
    <2>1. /\ n \in Mails /\ Final!EndCampaign(n, "action-required")
          /\ \A h \in Gates : gates'[h] = gates[h] \/ gates'[h].pc = "idle"
      BY <1>6, DemandTyped
    <2>2. /\ \A m \in Mails \ {n} : camp'[m] = camp[m] /\ mail'[m] = mail[m]
          /\ camp'[n].state = "action-required" /\ camp'[n].rev = camp[n].rev + 1
          /\ camp'[n].events = camp[n].events + 1
          /\ mail'[n].state = IF mail[n].state \in {"claimed", "prepared"} THEN "cancelled"
                              ELSE mail[n].state
      BY <2>1, CampaignEnds
    <2>3. camp[n].state = "live" /\ camp[n].events = 0
      BY <1>6, <2>1 DEF Final!DemandAction, Final!Projected, SaidInv, CallsRead, CampaignsSay
    <2>4. \A m \in Mails : CampaignsSay(m)'
      BY <2>2, <2>3 DEF SaidInv, CampaignsSay
    <2>5. \A h \in Gates : CallsRead(h)'
      BY <2>1, <2>2, CallsReadKept
    <2> QED BY <2>4, <2>5 DEF SaidInv
  <1>7. ASSUME NEW g \in Gates, Final!ReadContext(g) PROVE SaidInv'
    <2>1. PICK a \in auths :
            /\ mail[a.mail].state = "prepared"
            /\ gates' = [gates EXCEPT ![g] = [pc |-> "read", mail |-> a.mail, auth |-> a.id,
                                              ctx |-> Final!Context(a.mail), seen |-> None]]
      BY <1>7 DEF Final!ReadContext
    <2>2. /\ gates'[g].pc = "read" /\ gates'[g].mail = a.mail
          /\ gates'[g].ctx.rev = camp[a.mail].rev
          /\ \A h \in Gates \ {g} : gates'[h] = gates[h]
      BY <1>0, <2>1 DEF Final!Context
    <2>3. a.mail \in Mails /\ camp[a.mail].rev \in Nat /\ camp' = camp /\ mail' = mail
      BY <1>0, <1>7 DEF AuthRows, CampRows, Final!ReadContext
    <2>4. camp[a.mail].state = "live"
      BY <2>1, <2>3 DEF SaidInv, CampaignsSay
    <2>5. CallsRead(g)'
      BY <2>2, <2>3, <2>4 DEF CallsRead
    <2>6. \A h \in Gates \ {g} : CallsRead(h)'
      BY <2>2, <2>3 DEF SaidInv, CallsRead
    <2> QED BY <2>3, <2>5, <2>6 DEF SaidInv, CampaignsSay
  <1>8. ASSUME NEW g \in Gates, Final!TryAgain(g) PROVE SaidInv'
    <2> DEFINE n == gates[g].mail
    <2>1. n \in Mails /\ \A h \in Gates \ {g} : gates'[h] = gates[h]
      BY <1>8, TryAgainTyped
    <2>2. camp' = camp /\ mail' = mail /\ camp[n].rev \in Nat
      BY <1>0, <1>8, <2>1 DEF Final!TryAgain, CampRows
    <2>3. CASE gates'[g].pc = "idle"
      BY <1>s, <2>1, <2>2, <2>3
    <2>4. CASE /\ gates'[g].pc = "read" /\ gates'[g].mail = n
               /\ gates'[g].ctx = [gates[g].ctx EXCEPT !.rev = camp[n].rev]
               /\ camp[n].state = "live"
      <3>1. gates[g].ctx \in Contexts
        BY <1>8 DEF Final!TryAgain, GateTyped, CallsAreOf
      <3>2. gates'[g].ctx.rev = camp[n].rev
        BY <2>4, <3>1 DEF Contexts
      <3>3. CallsRead(g)'
        BY <2>2, <2>4, <3>2 DEF CallsRead
      <3>4. \A h \in Gates \ {g} : CallsRead(h)'
        BY <2>1, <2>2 DEF SaidInv, CallsRead
      <3> QED BY <2>2, <3>3, <3>4 DEF SaidInv, CampaignsSay
    <2> QED BY <1>8, <2>3, <2>4, TryAgainTyped
  <1>9. ASSUME NEW g \in Gates, Final!Judge(g) PROVE SaidInv'
    <2>1. /\ \A h \in Gates \ {g} : gates'[h] = gates[h]
          /\ gates'[g].mail = gates[g].mail /\ gates'[g].ctx = gates[g].ctx
          /\ gates[g].pc = "read" /\ gates[g].mail \notin Unknown
          /\ camp' = camp /\ mail' = mail
      BY <1>9, JudgeTyped DEF Final!Judge, Final!UnknownPolicy
    <2>2. \A h \in Gates : CallsRead(h)'
      BY <2>1 DEF SaidInv, CallsRead
    <2> QED BY <2>1, <2>2 DEF SaidInv, CampaignsSay
  <1>10. ASSUME NEW g \in Gates, Final!Authorize(g) PROVE SaidInv'
    <2> DEFINE n == gates[g].mail
    <2>1. /\ n \in Mails /\ mail'[n].state = "pending"
          /\ \A m \in Mails \ {n} : mail'[m] = mail[m]
          /\ \A h \in Gates : gates'[h] = gates[h] \/ gates'[h].pc = "idle"
      BY <1>10, AuthorizeTyped
    <2>2. n \notin Unknown /\ camp' = camp
      BY <1>10 DEF Final!Authorize, SaidInv, CallsRead
    <2>3. \A m \in Mails : CampaignsSay(m)'
      BY <2>1, <2>2 DEF SaidInv, CampaignsSay
    <2> QED BY <1>r, <2>1, <2>2, <2>3 DEF SaidInv
  <1>11. ASSUME NEW g \in Gates, Final!Blocked(g) PROVE SaidInv'
    BY <1>s, <1>11, BlockedTyped DEF Final!Blocked
  <1> QED BY <1>1, <1>2, <1>3, <1>4, <1>5, <1>6, <1>7, <1>8, <1>9, <1>10, <1>11
          DEF Final!FinalGateNext, Final!gateVars, Final!Change, Final!Switch, Final!Issue, Final!Lapse

(* A policy this version does not know sends nothing, and the campaign says  *)
(* so once, however many calls find it out (unknown_policy_version in        *)
(* authorizePreparedCimTransmission).                                        *)
THEOREM UnknownIsSaidOnce == ASSUME Final!FinalGateAssumption PROVE Final!FinalGateSpec => []Final!SaidOnce
  <1>1. Final!FinalGateInit => SaidInv
    BY SaidAtFirst
  <1>2. GateTyped /\ SaidInv /\ [Final!FinalGateNext]_(Final!gateVars) => SaidInv'
    BY SaidKept
  <1>3. SaidInv => Final!SaidOnce
    BY DEF SaidInv, CampaignsSay, Final!SaidOnce
  <1> QED BY <1>1, <1>2, <1>3, TypedAlways, PTL DEF Final!FinalGateSpec

-----------------------------------------------------------------------------
(* What a call has read is that of now *)

(* Revisions only grow, so a call that still finds the revisions it read     *)
(* finds the facts it read.                                                  *)
ReadIsOfNow(g) ==
  /\ gates[g].pc # "idle" => gates[g].ctx.global <= global
  /\ gates[g].pc = "judged" =>
       /\ gates[g].seen.own <= own[gates[g].mail]
       /\ gates[g].ctx.global = global /\ gates[g].seen.own = own[gates[g].mail] =>
            gates[g].seen.facts = Final!Favour(gates[g].mail)
FreshInv == \A g \in Gates : ReadIsOfNow(g)

LEMMA FreshAtFirst == ASSUME Final!FinalGateInit PROVE FreshInv
  BY DEF Final!FinalGateInit, FreshInv, ReadIsOfNow

LEMMA FreshKept ==
  ASSUME Final!FinalGateAssumption, GateTyped, FreshInv, [Final!FinalGateNext]_(Final!gateVars) PROVE FreshInv'
  <1>0. /\ gates \in [Gates -> GateRows] /\ global \in Nat /\ own \in [Mails -> Nat]
        /\ facts \in [Mails -> SUBSET Final!AllFacts]
        /\ \A g \in Gates : gates[g].pc # "idle" =>
             gates[g].mail \in Mails /\ gates[g].ctx \in Contexts
        /\ \A g \in Gates : gates[g].pc = "judged" => gates[g].seen \in Evidences
    BY DEF GateTyped, GateRowsTyped, CallsAreOf, RevisionsCount
  <1>s. ASSUME UNCHANGED <<facts, own, global>>,
               \A h \in Gates : gates'[h] = gates[h] \/ gates'[h].pc = "idle"
        PROVE  FreshInv'
    BY <1>s DEF FreshInv, ReadIsOfNow, Final!Favour
  <1>1. ASSUME Final!Change PROVE FreshInv'
    <2>1. PICK m \in Mails, f \in Final!AllFacts :
            facts' = Final!Turn(m, f) /\ own' = Final!OwnMoves(m, f) /\ global' = Final!GlobalMoves(f)
      BY <1>1 DEF Final!Change
    <2>2. /\ \A n \in Mails \ {m} : facts'[n] = facts[n] /\ own'[n] = own[n]
          /\ own'[m] = IF f \in Own THEN own[m] + 1 ELSE own[m]
          /\ global' = IF f \in Shared THEN global + 1 ELSE global
      BY <1>0, <2>1 DEF Final!Turn, Final!OwnMoves, Final!GlobalMoves
    <2>3. f \notin Own /\ f \notin Shared => facts'[m] \ InPlace = facts[m] \ InPlace
      BY <1>0, <2>1 DEF Final!Turn, Final!AllFacts
    <2>4. gates' = gates
      BY <1>1 DEF Final!Change
    <2> SUFFICES ASSUME NEW g \in Gates, gates[g].pc # "idle" PROVE ReadIsOfNow(g)'
      BY <2>4 DEF FreshInv, ReadIsOfNow
    <2> DEFINE n == gates[g].mail
    <2>5. n \in Mails /\ gates[g].ctx.global \in Nat /\ own[n] \in Nat /\ own[m] \in Nat
      BY <1>0 DEF Contexts
    <2>6. gates[g].ctx.global <= global /\ global <= global'
      BY <1>0, <2>2 DEF FreshInv, ReadIsOfNow
    <2>7. gates[g].ctx.global <= global' /\ (gates[g].ctx.global = global' => global' = global)
      BY <1>0, <2>2, <2>5, <2>6
    <2>8. ASSUME gates[g].pc = "judged"
          PROVE  /\ gates[g].seen.own <= own'[n]
                 /\ gates[g].ctx.global = global' /\ gates[g].seen.own = own'[n] =>
                      gates[g].seen.facts = facts'[n] \ InPlace
      <3>1. gates[g].seen.own \in Nat
        BY <1>0, <2>8 DEF Evidences
      <3>2. /\ gates[g].seen.own <= own[n]
            /\ gates[g].ctx.global = global /\ gates[g].seen.own = own[n] =>
                 gates[g].seen.facts = facts[n] \ InPlace
        BY <2>8 DEF FreshInv, ReadIsOfNow, Final!Favour
      <3>3. own[n] <= own'[n] /\ own'[n] \in Nat
        BY <2>2, <2>5
      <3>4. ASSUME gates[g].ctx.global = global', gates[g].seen.own = own'[n]
            PROVE  gates[g].seen.facts = facts'[n] \ InPlace
        <4>1. global' = global /\ own'[n] = own[n]
          BY <2>5, <2>7, <3>1, <3>2, <3>3, <3>4
        <4>2. n = m => f \notin Own /\ f \notin Shared
          BY <1>0, <2>2, <2>5, <4>1
        <4>3. facts'[n] \ InPlace = facts[n] \ InPlace
          BY <2>2, <2>3, <2>5, <4>2
        <4> QED BY <3>2, <3>4, <4>1, <4>3
      <3>5. gates[g].seen.own <= own'[n]
        BY <2>5, <3>1, <3>2, <3>3
      <3> QED BY <3>4, <3>5
    <2> QED BY <2>4, <2>7, <2>8 DEF ReadIsOfNow, Final!Favour
  <1>2. ASSUME NEW g \in Gates, Final!ReadContext(g) PROVE FreshInv'
    <2>1. PICK a \in auths :
            gates' = [gates EXCEPT ![g] = [pc |-> "read", mail |-> a.mail, auth |-> a.id,
                                           ctx |-> Final!Context(a.mail), seen |-> None]]
      BY <1>2 DEF Final!ReadContext
    <2>2. /\ gates'[g].pc = "read" /\ gates'[g].ctx.global = global
          /\ \A h \in Gates \ {g} : gates'[h] = gates[h]
      BY <1>0, <2>1 DEF Final!Context
    <2>3. UNCHANGED <<facts, own, global>>
      BY <1>2 DEF Final!ReadContext
    <2>4. ReadIsOfNow(g)'
      BY <1>0, <2>2, <2>3 DEF ReadIsOfNow
    <2> QED BY <2>2, <2>3, <2>4 DEF FreshInv, ReadIsOfNow, Final!Favour
  <1>3. ASSUME NEW g \in Gates, Final!TryAgain(g) PROVE FreshInv'
    <2>1. /\ \A h \in Gates \ {g} : gates'[h] = gates[h]
          /\ \/ gates'[g].pc = "idle"
             \/ /\ gates'[g].pc = "read"
                /\ gates'[g].ctx = [gates[g].ctx EXCEPT !.rev = camp[gates[g].mail].rev]
      BY <1>3, TryAgainTyped
    <2>2. UNCHANGED <<facts, own, global>> /\ gates[g].ctx \in Contexts /\ gates[g].pc = "read"
      BY <1>0, <1>3 DEF Final!TryAgain
    <2>3. gates'[g].pc = "read" => gates'[g].ctx.global = gates[g].ctx.global
      BY <2>1, <2>2 DEF Contexts
    <2>4. ReadIsOfNow(g)'
      BY <2>1, <2>2, <2>3 DEF FreshInv, ReadIsOfNow
    <2> QED BY <2>1, <2>2, <2>4 DEF FreshInv, ReadIsOfNow, Final!Favour
  <1>4. ASSUME NEW g \in Gates, Final!Judge(g) PROVE FreshInv'
    <2>1. /\ gates[g].mail \in Mails /\ \A h \in Gates \ {g} : gates'[h] = gates[h]
          /\ gates'[g].pc = "judged" /\ gates'[g].mail = gates[g].mail
          /\ gates'[g].ctx = gates[g].ctx
          /\ gates'[g].seen.facts = Final!Favour(gates[g].mail)
          /\ gates'[g].seen.own = own[gates[g].mail]
      BY <1>4, JudgeTyped
    <2>2. UNCHANGED <<facts, own, global>> /\ gates[g].pc = "read"
      BY <1>4 DEF Final!Judge
    <2>3. ReadIsOfNow(g)'
      BY <1>0, <2>1, <2>2 DEF FreshInv, ReadIsOfNow, Final!Favour
    <2> QED BY <2>1, <2>2, <2>3 DEF FreshInv, ReadIsOfNow, Final!Favour
  <1>5. ASSUME NEW g \in Gates, Final!DemandAction(g) PROVE FreshInv'
    BY <1>s, <1>5, DemandTyped DEF Final!DemandAction
  <1>6. ASSUME NEW g \in Gates, Final!Authorize(g) PROVE FreshInv'
    BY <1>s, <1>6, AuthorizeTyped DEF Final!Authorize
  <1>7. ASSUME NEW g \in Gates, Final!Blocked(g) PROVE FreshInv'
    BY <1>s, <1>7, BlockedTyped DEF Final!Blocked
  <1>8. ASSUME UNCHANGED <<facts, own, global, gates>> PROVE FreshInv'
    BY <1>s, <1>8
  <1> QED BY <1>1, <1>2, <1>3, <1>4, <1>5, <1>6, <1>7, <1>8
          DEF Final!FinalGateNext, Final!gateVars, Final!Switch, Final!WithdrawAuthorization, Final!Stop, Final!Prepare, Final!Release,
              Final!Issue, Final!Lapse

(* A step that hands a mail over finds all facts in its favour, nothing      *)
(* paused, the campaign live and the activations in a chain, although the    *)
(* call judged them before its last await.                                   *)
LEMMA HandedOverNow ==
  ASSUME GateTyped, FreshInv, [Final!FinalGateNext]_(Final!gateVars) PROVE Final!OnFactsStep
  <1> SUFFICES ASSUME NEW m \in Mails, mail[m].state # "pending", mail'[m].state = "pending"
               PROVE  /\ facts[m] = Final!AllFacts /\ ~controls.paused /\ camp[m].state = "live"
                      /\ m \in ByRule => controls.rule
                      /\ controls.initial # 0
                      /\ m \in FollowUps => controls.follow.under = controls.initial
    BY DEF Final!OnFactsStep, Final!HandedOver
  <1>0. mail \in [Mails -> MailRows] /\ auths \subseteq AuthRows /\ facts \in [Mails -> SUBSET Final!AllFacts]
    BY DEF GateTyped, GateRowsTyped
  <1>1. ASSUME NEW g \in Gates, Final!Authorize(g)
        PROVE  /\ facts[m] = Final!AllFacts /\ ~controls.paused /\ camp[m].state = "live"
               /\ m \in ByRule => controls.rule
               /\ controls.initial # 0
               /\ m \in FollowUps => controls.follow.under = controls.initial
    <2>1. m = gates[g].mail /\ Final!Auth(gates[g].auth).mail = m
      BY <1>1, AuthorizeTyped
    <2>2. /\ Final!Fresh(g) /\ ~controls.paused /\ camp[m].state = "live" /\ Final!EvidenceStands(g)
          /\ m \in ByRule => controls.rule
          /\ Final!Chain(m) # 0 /\ gates[g].pc = "judged"
      BY <1>1, <2>1 DEF Final!Authorize, Final!Authorizable, Final!AuthorizationStands, Final!CampaignStands, Final!Permitted, Final!RuleOn
    <2>3. facts[m] \ InPlace = Final!AllFacts \ InPlace
      BY <2>1, <2>2 DEF FreshInv, ReadIsOfNow, Final!Favour, Final!Fresh, Final!EvidenceStands
    <2>4. facts[m] = Final!AllFacts
      BY <1>0, <2>1, <2>2, <2>3 DEF Final!EvidenceStands
    <2>5. controls.initial # 0 /\ (m \in FollowUps => controls.follow.under = controls.initial)
      BY <2>2 DEF Final!Chain
    <2> QED BY <2>2, <2>4, <2>5
  <1>2. ASSUME NEW n \in Mails, NEW state \in {"action-required", "stopped"},
               Final!EndCampaign(n, state)
        PROVE  FALSE
    BY <1>2, CampaignEnds
  <1>3. ASSUME Final!WithdrawAuthorization PROVE FALSE
    BY <1>0, <1>3 DEF Final!WithdrawAuthorization, MailRows
  <1>4. ASSUME Final!Prepare PROVE FALSE
    BY <1>0, <1>4 DEF Final!Prepare
  <1>5. ASSUME Final!Release PROVE FALSE
    BY <1>0, <1>5 DEF Final!Release, MailRows
  <1>6. ASSUME Final!Stop PROVE FALSE
    BY <1>2, <1>6 DEF Final!Stop
  <1>7. ASSUME NEW g \in Gates, Final!DemandAction(g) PROVE FALSE
    BY <1>2, <1>7, DemandTyped
  <1>8. ASSUME mail' = mail PROVE FALSE
    BY <1>8
  <1> QED BY <1>1, <1>3, <1>4, <1>5, <1>6, <1>7, <1>8
          DEF Final!FinalGateNext, Final!gateVars, Final!Change, Final!Switch, Final!Issue, Final!Lapse, Final!ReadContext, Final!TryAgain, Final!Judge,
              Final!Blocked

(* Every hand-over is on facts, rules and activations that hold at that      *)
(* moment (authorizeCimProviderPending).                                     *)
THEOREM HandedOverOnFactsAlways ==
  ASSUME Final!FinalGateAssumption PROVE Final!FinalGateSpec => Final!HandedOverOnFacts
  <1>1. Final!FinalGateInit => FreshInv
    BY FreshAtFirst
  <1>2. GateTyped /\ FreshInv /\ [Final!FinalGateNext]_(Final!gateVars) => FreshInv'
    BY FreshKept
  <1>3. GateTyped /\ FreshInv /\ [Final!FinalGateNext]_(Final!gateVars) => [Final!OnFactsStep]_(Final!gateVars)
    BY HandedOverNow
  <1> QED BY <1>1, <1>2, <1>3, TypedAlways, PTL DEF Final!FinalGateSpec, Final!HandedOverOnFacts

=================================================================================
