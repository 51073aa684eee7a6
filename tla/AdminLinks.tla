------------------------------- MODULE AdminLinks -------------------------------
(***************************************************************************)
(* Private access (auth.js): magic links, the sessions they open, signing   *)
(* out here and everywhere, and the clean-up of old records.  A call is     *)
(* split where it waits: a link is stored before its mail is sent, and      *)
(* consumed before its session is stored.  The allowed addresses are        *)
(* configuration and change with a restart only.                            *)
(***************************************************************************)
EXTENDS Naturals

CONSTANTS
  Emails,
  Links,     \* sign-in requests, one link each
  Visits,    \* verifications of a link
  SignOuts,  \* calls of logoutAdmin and revokeAllAdminSessions
  None,
  MaxRestarts  \* bound on restarts

LinksAssumption ==
  /\ None \notin Emails /\ None \notin Links /\ None \notin Visits
  /\ MaxRestarts \in Nat

VARIABLES
  allowed,   \* allowed[e]: the role the configuration gives address e
  link,      \* rows of admin_magic_links
  request,   \* request[l]: the call that sends link l
  mailed,    \* the links that reached a mailbox
  withdrawn, \* the links consumed because their mail failed
  session,   \* session[v]: the row of admin_sessions visit v opens
  visit,     \* the verification calls
  signOut,   \* the sign-out calls, with the session they read
  restarts

vars == <<allowed, link, request, mailed, withdrawn, session, visit, signOut, restarts>>

Roles == {"admin", "viewer"}
NoLink == [state |-> "none", email |-> None, role |-> "none", expired |-> FALSE]
NoSession == [state |-> "none", email |-> None, role |-> "none", from |-> None, expired |-> FALSE]
NoVisit == [pc |-> "idle", link |-> None]
NoSignOut == [pc |-> "idle", session |-> None, all |-> FALSE]

(* One administrator address, any number of viewers *)
Configurations ==
  {a \in [Emails -> Roles \cup {"none"}] :
     \A e, f \in Emails : a[e] = "admin" /\ a[f] = "admin" => e = f}

TypeOK ==
  /\ allowed \in Configurations
  /\ link \in [Links -> [state : {"none", "open", "used", "gone"}, email : Emails \cup {None},
                         role : Roles \cup {"none"}, expired : BOOLEAN]]
  /\ \A l \in Links : link[l].state # "none" => link[l].role \in Roles
  /\ request \in [Links -> {"idle", "sending", "failed", "done"}]
  /\ mailed \subseteq Links /\ withdrawn \subseteq Links
  /\ session \in [Visits -> [state : {"none", "live", "revoked", "gone"}, email : Emails \cup {None},
                             role : Roles \cup {"none"}, from : Links \cup {None}, expired : BOOLEAN]]
  /\ visit \in [Visits -> [pc : {"idle", "consumed", "done"}, link : Links \cup {None}]]
  /\ signOut \in [SignOuts -> [pc : {"idle", "checked", "done"}, session : Visits \cup {None},
                               all : BOOLEAN]]
  /\ restarts \in 0..MaxRestarts

Init ==
  /\ allowed \in Configurations
  /\ link = [l \in Links |-> NoLink]
  /\ request = [l \in Links |-> "idle"]
  /\ mailed = {} /\ withdrawn = {}
  /\ session = [v \in Visits |-> NoSession]
  /\ visit = [v \in Visits |-> NoVisit]
  /\ signOut = [o \in SignOuts |-> NoSignOut]
  /\ restarts = 0

-----------------------------------------------------------------------------
(* Requesting a link *)

(* Mutant of RequestLink: a link is stored before the address is looked up *)
RequestLinkForAnyone(l, e) ==
  /\ request[l] = "idle"
  /\ request' = [request EXCEPT ![l] = IF allowed[e] = "none" THEN "done" ELSE "sending"]
  /\ link' = [link EXCEPT ![l] = [state |-> "open", email |-> e, role |-> allowed[e], expired |-> FALSE]]
  /\ UNCHANGED <<allowed, mailed, withdrawn, session, visit, signOut, restarts>>

(* requestAdminMagicLink: an address that is not allowed gets the same answer *)
(* and no link                                                               *)
RequestLink(l, e) ==
  /\ request[l] = "idle"
  /\ IF allowed[e] = "none"
     THEN request' = [request EXCEPT ![l] = "done"] /\ UNCHANGED link
     ELSE /\ request' = [request EXCEPT ![l] = "sending"]
          /\ link' = [link EXCEPT ![l] = [state |-> "open", email |-> e, role |-> allowed[e],
                                          expired |-> FALSE]]
  /\ UNCHANGED <<allowed, mailed, withdrawn, session, visit, signOut, restarts>>

(* A reported failure says nothing certain about the mailbox *)
SendLink(l) ==
  /\ request[l] = "sending"
  /\ \E answer \in {"done", "failed"}, arrives \in BOOLEAN :
       /\ answer = "done" => arrives
       /\ request' = [request EXCEPT ![l] = answer]
       /\ mailed' = IF arrives THEN mailed \cup {l} ELSE mailed
  /\ UNCHANGED <<allowed, link, withdrawn, session, visit, signOut, restarts>>

(* Mutant of Consumable: a consumed link is accepted again *)
ConsumableTwice(l) == link[l].state \in {"open", "used"} /\ ~link[l].expired

(* consumeAdminMagicLink: one update of a row that is open and not expired *)
Consumable(l) == link[l].state = "open" /\ ~link[l].expired

(* After a failed delivery the link is consumed; an error of that is ignored *)
WithdrawLink(l) ==
  /\ request[l] = "failed"
  /\ request' = [request EXCEPT ![l] = "done"]
  /\ \/ /\ Consumable(l)
        /\ link' = [link EXCEPT ![l].state = "used"]
        /\ withdrawn' = withdrawn \cup {l}
     \/ UNCHANGED <<link, withdrawn>>
  /\ UNCHANGED <<allowed, mailed, session, visit, signOut, restarts>>

-----------------------------------------------------------------------------
(* Using a link *)

(* Mutant of StillAllowed: the signature is enough *)
SignatureIsEnough(l) == link[l].email # None

(* verifyAdminMagicLink: the signed address is matched with the configuration *)
(* of today, then the link is consumed                                        *)
StillAllowed(l) == allowed[link[l].email] = link[l].role

OpenLink(v, l) ==
  /\ visit[v].pc = "idle" /\ l \in mailed
  /\ IF StillAllowed(l) /\ Consumable(l)
     THEN /\ link' = [link EXCEPT ![l].state = "used"]
          /\ visit' = [visit EXCEPT ![v] = [pc |-> "consumed", link |-> l]]
     ELSE /\ visit' = [visit EXCEPT ![v].pc = "done"]
          /\ UNCHANGED link
  /\ UNCHANGED <<allowed, request, mailed, withdrawn, session, signOut, restarts>>

(* issueAdminSession; an error here leaves a consumed link and no session *)
IssueSession(v) ==
  /\ visit[v].pc = "consumed"
  /\ visit' = [visit EXCEPT ![v].pc = "done"]
  /\ LET l == visit[v].link IN
     \/ session' = [session EXCEPT ![v] = [state |-> "live", email |-> link[l].email,
                                           role |-> link[l].role, from |-> l, expired |-> FALSE]]
     \/ UNCHANGED session
  /\ UNCHANGED <<allowed, link, request, mailed, withdrawn, signOut, restarts>>

(* getSessionPrincipalId: every admin is one principal, a viewer is its address *)
SamePrincipal(s, t) ==
  /\ session[s].role = session[t].role
  /\ session[s].role = "viewer" => session[s].email = session[t].email

(* getAdminSession *)
Accepted(s) == session[s].state = "live" /\ ~session[s].expired

-----------------------------------------------------------------------------
(* Signing out *)

ReadSession(o, s) ==
  /\ signOut[o].pc = "idle" /\ Accepted(s)
  /\ \E all \in BOOLEAN :
       signOut' = [signOut EXCEPT ![o] = [pc |-> "checked", session |-> s, all |-> all]]
  /\ UNCHANGED <<allowed, link, request, mailed, withdrawn, session, visit, restarts>>

(* revokeAdminSession and revokeAdminSessionsForPrincipal *)
Revoke(o) ==
  /\ signOut[o].pc = "checked"
  /\ signOut' = [signOut EXCEPT ![o].pc = "done"]
  /\ LET s == signOut[o].session
         hit == {t \in Visits : /\ session[t].state = "live"
                                /\ t = s \/ (signOut[o].all /\ SamePrincipal(s, t))} IN
     session' = [t \in Visits |-> IF t \in hit THEN [session[t] EXCEPT !.state = "revoked"]
                                  ELSE session[t]]
  /\ UNCHANGED <<allowed, link, request, mailed, withdrawn, visit, restarts>>

-----------------------------------------------------------------------------
(* Time, clean-up and restarts *)

LinkExpires(l) ==
  /\ link[l].state \in {"open", "used"} /\ ~link[l].expired
  /\ link' = [link EXCEPT ![l].expired = TRUE]
  /\ UNCHANGED <<allowed, request, mailed, withdrawn, session, visit, signOut, restarts>>

SessionExpires(s) ==
  /\ session[s].state \in {"live", "revoked"} /\ ~session[s].expired
  /\ session' = [session EXCEPT ![s].expired = TRUE]
  /\ UNCHANGED <<allowed, link, request, mailed, withdrawn, visit, signOut, restarts>>

(* Mutant of OldSession: only revoked sessions are deleted *)
OldRevokedSession(s) == session[s].state = "revoked"

(* cleanupExpiredAuthRecords keeps a consumed link's data out of the database; *)
(* a visit under way has its copy of it                                        *)
OldLink(l) == link[l].state = "used" \/ (link[l].state = "open" /\ link[l].expired)
OldSession(s) == session[s].state = "revoked" \/ (session[s].state = "live" /\ session[s].expired)

Cleanup ==
  /\ \E l \in Links : OldLink(l)
     \/ \E s \in Visits : OldSession(s)
  /\ link' = [l \in Links |-> IF OldLink(l) THEN [link[l] EXCEPT !.state = "gone"] ELSE link[l]]
  /\ session' = [s \in Visits |-> IF OldSession(s) THEN [session[s] EXCEPT !.state = "gone"]
                                  ELSE session[s]]
  /\ UNCHANGED <<allowed, request, mailed, withdrawn, visit, signOut, restarts>>

(* Calls end with the process; the new one may allow other addresses *)
Restart ==
  /\ restarts < MaxRestarts /\ restarts' = restarts + 1
  /\ allowed' \in Configurations
  /\ request' = [l \in Links |-> IF request[l] = "idle" THEN "idle" ELSE "done"]
  /\ visit' = [v \in Visits |-> IF visit[v].pc = "idle" THEN visit[v] ELSE [visit[v] EXCEPT !.pc = "done"]]
  /\ signOut' = [o \in SignOuts |-> IF signOut[o].pc = "idle" THEN signOut[o]
                                    ELSE [signOut[o] EXCEPT !.pc = "done"]]
  /\ UNCHANGED <<link, mailed, withdrawn, session>>

Next ==
  \/ \E l \in Links, e \in Emails : RequestLink(l, e)
  \/ \E l \in Links : SendLink(l) \/ WithdrawLink(l) \/ LinkExpires(l)
  \/ \E v \in Visits, l \in Links : OpenLink(v, l)
  \/ \E v \in Visits : IssueSession(v) \/ SessionExpires(v)
  \/ \E o \in SignOuts, s \in Visits : ReadSession(o, s)
  \/ \E o \in SignOuts : Revoke(o)
  \/ Cleanup \/ Restart

Spec == Init /\ [][Next]_vars

(* Clocks advance and the clean-up timer fires every six hours *)
Fairness ==
  /\ WF_vars(Cleanup)
  /\ WF_vars(\E l \in Links : LinkExpires(l))
  /\ WF_vars(\E v \in Visits : SessionExpires(v))

LiveSpec == Spec /\ Fairness

-----------------------------------------------------------------------------
(* Properties *)

(* A magic link is single-use: however many visits race for it, and whatever *)
(* is cleaned up or restarted meanwhile, it opens at most one session        *)
(* (consumeAdminMagicLink).                                                  *)
SingleUse ==
  \A v, w \in Visits :
    v # w /\ session[v].state # "none" /\ session[w].state # "none"
    => session[v].from # session[w].from

(* A link withdrawn because its mail was reported as failed opens nothing,   *)
(* even when the mail arrived after all.                                     *)
WithdrawnIsDead ==
  \A v \in Visits : session[v].state # "none" => session[v].from \notin withdrawn

(* A session is opened with a role only while the configuration gives that   *)
(* role to its address, whatever it said when the link was mailed.           *)
GrantsCurrentRole ==
  \A v \in Visits : session[v].state = "none" /\ session'[v].state = "live"
    => allowed[session'[v].email] = session'[v].role
RoleStillGranted == [][GrantsCurrentRole]_vars

(* Expired links and sessions do not stay in the database.                   *)
SessionIs(v, state) == session[v].state = state
OldRecordsGo == \A v \in Visits : SessionIs(v, "live") ~> SessionIs(v, "gone")
=================================================================================
