------------------------- MODULE OpportunityIdentity -------------------------
(***************************************************************************)
(* Which opportunity a listing belongs to.  A pass over the sheet resolves *)
(* one listing over several awaits: by its aliases, by comparison with the *)
(* opportunities of that moment, or by creating an opportunity             *)
(* (resolveDealHunterOpportunity); what it cannot tell becomes an identity *)
(* exception, which an administrator decides by linking the listing to an  *)
(* opportunity or keeping it distinct (resolveCimIdentityException).       *)
(*                                                                         *)
(* An action is what happens between two awaits; several passes, decisions *)
(* and the repair scripts, which are processes of their own, interleave.   *)
(* An alias is a model value (deal_hunter_opportunity_aliases.alias_key is *)
(* unique, so its owner is a function of it); how alike two listings are   *)
(* is a constant, which stands for compareCimOpportunityEvidence over      *)
(* names, places and figures.                                              *)
(***************************************************************************)
EXTENDS Naturals, FiniteSets

CONSTANTS
  Listings,    \* what the sheet shows
  AliasesOf,   \* [Listings -> the aliases buildCimOpportunityAliases gives]
  Alike,       \* pairs of listings whose evidence joins them automatically
  Similar,     \* pairs whose evidence is ambiguous
  Opps,        \* opportunity ids
  Known,       \* [subset of Opps -> the listing it was created from], at the start
  Passes,      \* resolutions of one listing each
  Decisions,   \* decisions of an administrator
  None

IdentityAssumption ==
  /\ DOMAIN AliasesOf = Listings
  /\ \A l \in Listings : AliasesOf[l] # {}
  /\ Alike \cup Similar \subseteq Listings \X Listings
  /\ DOMAIN Known \subseteq Opps /\ \A o \in DOMAIN Known : Known[o] \in Listings
  /\ \A o, p \in DOMAIN Known : o = p \/ AliasesOf[Known[o]] \cap AliasesOf[Known[p]] = {}
  /\ Passes \cap Decisions = {}
  /\ None \notin Opps \cup Listings

Aliases == UNION {AliasesOf[l] : l \in Listings}

VARIABLES
  owner,      \* [Aliases -> Opps or None]: deal_hunter_opportunity_aliases
  opp,        \* [Opps -> [status, from, rev]]: deal_hunter_opportunities
  doubt,      \* [Listings -> [state, by, to, rev]]: deal_hunter_identity_exceptions
  proc        \* the passes and decisions

identityVars == <<owner, opp, doubt, proc>>

Absent == [status |-> "absent", from |-> None, rev |-> 0]
NoDoubt == [state |-> "none", by |-> None, to |-> None, rev |-> 0]
Idle == [pc |-> "idle", listing |-> None, target |-> None, action |-> "none"]

IdentityInit ==
  /\ owner = [a \in Aliases |->
                IF \E o \in DOMAIN Known : a \in AliasesOf[Known[o]]
                THEN CHOOSE o \in DOMAIN Known : a \in AliasesOf[Known[o]] ELSE None]
  /\ opp = [o \in Opps |-> IF o \in DOMAIN Known
              THEN [status |-> "active", from |-> Known[o], rev |-> 1] ELSE Absent]
  /\ doubt = [l \in Listings |-> NoDoubt]
  /\ proc = [p \in Passes \cup Decisions |-> Idle]

-----------------------------------------------------------------------------
(* What storage knows of a listing                                          *)

AliasOwners(l) == {owner[a] : a \in AliasesOf[l]} \ {None}
Active(o) == opp[o].status = "active"
ActiveOpps == {o \in Opps : Active(o)}

Goto(p, pc) == proc' = [proc EXCEPT ![p].pc = pc]

\* Storing an opportunity again changes its updated_at, while it is active
Touched(o) == [opp EXCEPT ![o].rev = @ + 1]

(* Mutant of Links: the target is taken as it was read                      *)
LinksAsRead(o, l) ==
  /\ AliasOwners(l) \subseteq {o}
  /\ owner' = [a \in Aliases |-> IF a \in AliasesOf[l] THEN o ELSE owner[a]]
(* Mutant of Links: aliases of others are skipped, not reported             *)
LinksAround(o, l) ==
  /\ Active(o)
  /\ owner' = [a \in Aliases |-> IF a \in AliasesOf[l] /\ owner[a] = None THEN o ELSE owner[a]]
(* One transaction: an active target, no alias of another opportunity       *)
Links(o, l) ==
  /\ Active(o)
  /\ AliasOwners(l) \subseteq {o}
  /\ owner' = [a \in Aliases |-> IF a \in AliasesOf[l] THEN o ELSE owner[a]]

(* Mutant of Creates: the opportunity is stored before its owners are read  *)
CreatesFirst(o, l) ==
  /\ opp[o] = Absent
  /\ opp' = [opp EXCEPT ![o] = [status |-> "active", from |-> l, rev |-> 1]]
  /\ owner' = [a \in Aliases |-> IF a \in AliasesOf[l] /\ owner[a] = None THEN o ELSE owner[a]]
(* One transaction: an opportunity and its aliases, when nobody has them    *)
Creates(o, l) ==
  /\ opp[o] = Absent
  /\ AliasOwners(l) = {}
  /\ opp' = [opp EXCEPT ![o] = [status |-> "active", from |-> l, rev |-> 1]]
  /\ owner' = [a \in Aliases |-> IF a \in AliasesOf[l] THEN o ELSE owner[a]]

-----------------------------------------------------------------------------
(* A pass over the sheet resolves a listing                                 *)

\* Find the owner of its aliases; a conflict, or an owner no longer current, throws
Look(p) ==
  /\ proc[p].pc = "idle"
  /\ \E l \in Listings :
       LET found == AliasOwners(l)
           sole == CHOOSE o \in found : TRUE
       IN proc' = [proc EXCEPT ![p] =
            IF found = {} THEN [Idle EXCEPT !.pc = "compare", !.listing = l]
            ELSE IF Cardinality(found) = 1 /\ Active(sole)
            THEN [Idle EXCEPT !.pc = "renew", !.listing = l, !.target = sole]
            ELSE [Idle EXCEPT !.pc = "except", !.listing = l]]
  /\ UNCHANGED <<owner, opp, doubt>>

\* The list of current opportunities, compared with the listing
Compare(p) ==
  /\ proc[p].pc = "compare"
  /\ LET l == proc[p].listing
         automatic == {o \in ActiveOpps : <<l, opp[o].from>> \in Alike}
         ambiguous == {o \in ActiveOpps : <<l, opp[o].from>> \in Similar}
     IN proc' = [proc EXCEPT ![p] =
          IF Cardinality(automatic) = 1
          THEN [@ EXCEPT !.pc = "renew", !.target = CHOOSE o \in automatic : TRUE]
          ELSE IF automatic \cup ambiguous # {} THEN [@ EXCEPT !.pc = "except"]
          ELSE [@ EXCEPT !.pc = "create"]]
  /\ UNCHANGED <<owner, opp, doubt>>

(* Mutant of Renew: storing an opportunity again makes it active            *)
RenewAnyway(p) ==
  /\ proc[p].pc \in {"renew", "reconcile"}
  /\ opp' = [opp EXCEPT ![proc[p].target] = [@ EXCEPT !.status = "active", !.rev = @ + 1]]
  /\ Goto(p, IF proc[p].pc = "renew" THEN "link" ELSE "found")
  /\ UNCHANGED <<owner, doubt>>
\* Store the opportunity again; one that is no longer active stays as it is
Renew(p) ==
  /\ proc[p].pc \in {"renew", "reconcile"}
  /\ LET o == proc[p].target IN
       IF Active(o)
       THEN /\ opp' = Touched(o)
            /\ Goto(p, IF proc[p].pc = "renew" THEN "link" ELSE "found")
       ELSE opp' = opp /\ Goto(p, "except")
  /\ UNCHANGED <<owner, doubt>>

LinkListing(p) ==
  /\ proc[p].pc = "link"
  /\ LET o == proc[p].target
         l == proc[p].listing
     IN \/ Links(o, l) /\ Goto(p, "found")
        \/ ~Active(o) /\ owner' = owner /\ Goto(p, "failed")
        \/ Active(o) /\ ~(AliasOwners(l) \subseteq {o}) /\ owner' = owner /\ Goto(p, "except")
  /\ UNCHANGED <<opp, doubt>>

\* Created, or acquired by another meanwhile
Create(p) ==
  /\ proc[p].pc = "create"
  /\ LET l == proc[p].listing
         sole == CHOOSE o \in AliasOwners(l) : TRUE
     IN \/ /\ \E o \in Opps : Creates(o, l) /\ proc' = [proc EXCEPT ![p].pc = "found", ![p].target = o]
           /\ UNCHANGED doubt
        \/ /\ Cardinality(AliasOwners(l)) = 1
           /\ Links(sole, l)
           /\ proc' = [proc EXCEPT ![p].pc = "reconcile", ![p].target = sole]
           /\ UNCHANGED <<opp, doubt>>
        \/ /\ AliasOwners(l) # {}
           /\ Cardinality(AliasOwners(l)) > 1 \/ ~Active(sole)
           /\ Goto(p, "except")
           /\ UNCHANGED <<owner, opp, doubt>>

\* The exception of these aliases is stored open, whatever it was before
Except(p) ==
  /\ proc[p].pc = "except"
  /\ LET l == proc[p].listing IN
       doubt' = [doubt EXCEPT ![l] =
                   [state |-> "open", by |-> None, to |-> None, rev |-> doubt[l].rev + 1]]
  /\ Goto(p, "uncertain")
  /\ UNCHANGED <<owner, opp>>

-----------------------------------------------------------------------------
(* An administrator decides an exception                                    *)

\* Read the exception and the opportunity to link it to
Review(d) ==
  /\ proc[d].pc = "idle"
  /\ \E l \in Listings, action \in {"link", "keep"}, o \in Opps :
       /\ doubt[l].state = "open"
       /\ IF action = "keep" THEN opp[o] = Absent ELSE Active(o)
       /\ proc' = [proc EXCEPT ![d] =
            [Idle EXCEPT !.pc = "owners", !.listing = l, !.target = o, !.action = action]]
  /\ UNCHANGED <<owner, opp, doubt>>

\* Read who has its aliases: two owners need the merge, one must be the target
ReadOwners(d) ==
  /\ proc[d].pc = "owners"
  /\ LET found == AliasOwners(proc[d].listing) IN
       Goto(d, IF proc[d].action = "keep" /\ found = {} THEN "keep"
               ELSE IF proc[d].action = "link" /\ found \subseteq {proc[d].target} THEN "attach"
               ELSE "refused")
  /\ UNCHANGED <<owner, opp, doubt>>

Resolved(l, d, o) ==
  [doubt EXCEPT ![l] = [state |-> "resolved", by |-> d, to |-> o, rev |-> doubt[l].rev + 1]]

\* Keep distinct: opportunity, aliases and resolution in one transaction
Keep(d) ==
  /\ proc[d].pc = "keep"
  /\ LET l == proc[d].listing IN
       \/ /\ doubt[l].state = "open"
          /\ \E o \in Opps : /\ Creates(o, l)
                             /\ doubt' = Resolved(l, d, o)
                             /\ proc' = [proc EXCEPT ![d].pc = "done", ![d].target = o]
       \/ /\ doubt[l].state # "open" \/ AliasOwners(l) # {}
          /\ Goto(d, "refused")
          /\ UNCHANGED <<owner, opp, doubt>>

\* Link: first the aliases,
Attach(d) ==
  /\ proc[d].pc = "attach"
  /\ LET o == proc[d].target
         l == proc[d].listing
     IN \/ Links(o, l) /\ Goto(d, "close")
        \/ ~(Active(o) /\ AliasOwners(l) \subseteq {o}) /\ owner' = owner /\ Goto(d, "refused")
  /\ UNCHANGED <<opp, doubt>>

\* then the exception, whatever became of it since it was read
Close(d) ==
  /\ proc[d].pc = "close"
  /\ doubt' = Resolved(proc[d].listing, d, proc[d].target)
  /\ Goto(d, "done")
  /\ UNCHANGED <<owner, opp>>

-----------------------------------------------------------------------------
PassStep(p) == Look(p) \/ Compare(p) \/ Renew(p) \/ LinkListing(p) \/ Create(p) \/ Except(p)
DecisionStep(d) == Review(d) \/ ReadOwners(d) \/ Keep(d) \/ Attach(d) \/ Close(d)

IdentityNext ==
  \/ \E p \in Passes : PassStep(p)
  \/ \E d \in Decisions : DecisionStep(d)

IdentitySpec == IdentityInit /\ [][IdentityNext]_identityVars

-----------------------------------------------------------------------------
(* Types                                                                    *)

IdentityTypeOK ==
  /\ owner \in [Aliases -> Opps \cup {None}]
  /\ opp \in [Opps -> [status : {"absent", "active", "superseded"},
                       from : Listings \cup {None}, rev : Nat]]
  /\ \A l \in Listings : doubt[l].state \in {"none", "open", "resolved"}
  /\ \A p \in Passes \cup Decisions : proc[p].target \in Opps \cup {None}

(* Properties                                                               *)

(* Every opportunity that is current can be found by an alias of its own,   *)
(* and every alias leads to an opportunity that is current: two passes that *)
(* create, link and store at once, a merge between their awaits and a       *)
(* decision of an administrator leave neither a stray opportunity nor an    *)
(* alias that leads to a superseded one (createDealHunterOpportunityWith-   *)
(* Aliases, linkDealHunterOpportunityAliases).                              *)
EveryDealIsFound ==
  /\ \A o \in Opps : Active(o) => \E a \in Aliases : owner[a] = o
  /\ \A a \in Aliases : owner[a] # None => Active(owner[a])

(* A listing that was resolved stays together: once a pass found it or an   *)
(* administrator's decision closed its exception, all of its aliases lead   *)
(* to one opportunity, also after a merge (resolveDealHunterOpportunity,    *)
(* resolveCimIdentityException).                                            *)
ResolvedTogether ==
  \A l \in Listings :
    (\/ doubt[l].state = "resolved"
     \/ \E p \in Passes : proc[p].pc = "found" /\ proc[p].listing = l)
      => \E o \in Opps : \A a \in AliasesOf[l] : owner[a] = o

(* A decision that was reported done is the one the exception keeps, unless *)
(* the listing was found in doubt again: of two administrators who decide   *)
(* at once, one is told that the other was first (resolveCimIdentity-       *)
(* Exception).                                                              *)
DecidedForOne ==
  \A c, d \in Decisions :
    (/\ proc[c].pc = "done" /\ proc[d].pc = "done"
     /\ proc[c].listing = proc[d].listing)
      => proc[c].target = proc[d].target
=============================================================================
