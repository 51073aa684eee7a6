---------------------------- MODULE OpportunityProofs ----------------------------
(***************************************************************************)
(* Theorems about what becomes of an opportunity.                          *)
(*   OpportunityIdentity and CanonicalMerge, for every set of listings,    *)
(* aliases, passes and decisions: what resolves a listing, and the repair  *)
(* that merges two opportunities beside it.                                *)
(*   CrmSupersession (the instance Sup), for every set of pairs: the       *)
(* repair of duplicate CRM records beside the handlers of the application. *)
(*   PursueEnrollment (the instance Enr), for every number of commands,    *)
(* runs, deals, modes, days and restarts: what an owner or the rule pursues *)
(* and the campaign that follows from it.                                  *)
(***************************************************************************)
EXTENDS CanonicalMerge, FiniteSetTheorems, SequenceTheorems, TLAPS

-----------------------------------------------------------------------------
(* Resolving listings                                                        *)
IdentityPcs == {"idle", "compare", "renew", "except", "create", "link", "reconcile", "found", "failed",
                "uncertain", "owners", "keep", "attach", "refused", "close", "done"}
OpportunityRows == [status : {"absent", "active", "superseded"}, from : Listings \cup {None}, rev : Nat]
DoubtRows == [state : {"none", "open", "resolved"}, by : Decisions \cup {"merge", None},
              to : Opps \cup {None}, rev : Nat]
ProcRows == [pc : IdentityPcs, listing : Listings \cup {None}, target : Opps \cup {None},
             action : {"none", "link", "keep"}]
Targeted == {"renew", "reconcile", "found", "link", "owners", "attach", "close", "done"}
(* Whoever is at work has a listing, and an opportunity where it needs one. *)
Aimed(p) ==
  /\ p.pc # "idle" => p.listing \in Listings
  /\ p.pc \in Targeted => p.target \in Opps
IdentityTyped ==
  /\ owner \in [Aliases -> Opps \cup {None}]
  /\ opp \in [Opps -> OpportunityRows]
  /\ doubt \in [Listings -> DoubtRows]
  /\ proc \in [Passes \cup Decisions -> ProcRows]
  /\ \A p \in Passes \cup Decisions : Aimed(proc[p])

LEMMA AliasFacts ==
  ASSUME IdentityAssumption, NEW l \in Listings
  PROVE  /\ AliasesOf[l] \subseteq Aliases /\ AliasesOf[l] # {}
  BY DEF IdentityAssumption, Aliases

LEMMA OwnersAre ==
  ASSUME IdentityAssumption, IdentityTyped, NEW l \in Listings
  PROVE  /\ AliasOwners(l) \subseteq Opps
         /\ \A a \in AliasesOf[l] : owner[a] # None => owner[a] \in AliasOwners(l)
  BY AliasFacts DEF IdentityTyped, AliasOwners

LEMMA OneIsThere == ASSUME NEW S, Cardinality(S) = 1 PROVE (CHOOSE o \in S : TRUE) \in S
  BY FS_EmptySet

LEMMA RowsOfProcs ==
  ASSUME NEW r \in ProcRows, NEW pc \in IdentityPcs
  PROVE  /\ [r EXCEPT !.pc = pc] \in ProcRows
         /\ \A o \in Opps : [r EXCEPT !.pc = pc, !.target = o] \in ProcRows
  BY DEF ProcRows

LEMMA NewRowsOfProcs ==
  ASSUME NEW pc \in IdentityPcs, NEW l \in Listings
  PROVE  /\ [Idle EXCEPT !.pc = pc, !.listing = l] \in ProcRows
         /\ \A o \in Opps : [Idle EXCEPT !.pc = pc, !.listing = l, !.target = o] \in ProcRows
         /\ \A o \in Opps, action \in {"none", "link", "keep"} :
              [Idle EXCEPT !.pc = pc, !.listing = l, !.target = o, !.action = action] \in ProcRows
  <1>1. [Idle EXCEPT !.pc = pc, !.listing = l] \in ProcRows
    BY DEF ProcRows, Idle
  <1>2. ASSUME NEW o \in Opps PROVE [Idle EXCEPT !.pc = pc, !.listing = l, !.target = o] \in ProcRows
    BY DEF ProcRows, Idle
  <1>3. ASSUME NEW o \in Opps, NEW action \in {"none", "link", "keep"}
        PROVE  [Idle EXCEPT !.pc = pc, !.listing = l, !.target = o, !.action = action] \in ProcRows
    BY DEF ProcRows, Idle
  <1> QED BY <1>1, <1>2, <1>3

LEMMA PcsAre ==
  {"idle", "compare", "renew", "except", "create", "link", "reconcile", "found", "failed",
   "uncertain", "owners", "keep", "attach", "refused", "close", "done"} \subseteq IdentityPcs
  BY DEF IdentityPcs

(* A step of one pass or decision leaves the others where they are. *)
LEMMA OneTurn ==
  ASSUME IdentityTyped, NEW p \in Passes \cup Decisions, NEW r \in ProcRows, Aimed(r),
         proc' = [proc EXCEPT ![p] = r]
  PROVE  /\ proc' \in [Passes \cup Decisions -> ProcRows]
         /\ \A q \in Passes \cup Decisions : Aimed(proc'[q])
         /\ proc'[p] = r /\ \A q \in (Passes \cup Decisions) \ {p} : proc'[q] = proc[q]
  BY DEF IdentityTyped

(* What a step of a pass or a decision does to owners and opportunities. *)
LinkedOnly ==
  /\ \A a \in Aliases : owner[a] # None => owner'[a] = owner[a]
  /\ \A a \in Aliases : owner'[a] # owner[a] => owner'[a] \in Opps /\ opp'[owner'[a]].status = "active"
  /\ \A o \in Opps : opp[o].status # "absent" => opp'[o].status = opp[o].status
  /\ \A o \in Opps : opp'[o].status = "active" /\ opp[o].status # "active" => \E a \in Aliases : owner'[a] = o

Whole(own, l, o) == \A a \in AliasesOf[l] : own[a] = o

LEMMA LinksDoes ==
  ASSUME IdentityAssumption, IdentityTyped, NEW o \in Opps, NEW l \in Listings, Links(o, l), opp' = opp
  PROVE  LinkedOnly /\ owner' \in [Aliases -> Opps \cup {None}] /\ Whole(owner', l, o)
  BY AliasFacts, OwnersAre DEF Links, IdentityTyped, LinkedOnly, Whole, Active

LEMMA CreatesDoes ==
  ASSUME IdentityAssumption, IdentityTyped, NEW o \in Opps, NEW l \in Listings, Creates(o, l)
  PROVE  /\ LinkedOnly /\ owner' \in [Aliases -> Opps \cup {None}] /\ Whole(owner', l, o)
         /\ opp' \in [Opps -> OpportunityRows]
  <1>1. opp[o].status = "absent" /\ opp[o] = Absent
    BY DEF Creates, Absent
  <1>2. opp' = [opp EXCEPT ![o] = [status |-> "active", from |-> l, rev |-> 1]]
    BY DEF Creates
  <1>3. opp' \in [Opps -> OpportunityRows] /\ opp'[o].status = "active" /\ \A p \in Opps \ {o} : opp'[p] = opp[p]
    BY <1>2 DEF IdentityTyped, OpportunityRows
  <1>4. \A a \in AliasesOf[l] : owner[a] = None
    BY OwnersAre DEF Creates
  <1>5. owner' = [a \in Aliases |-> IF a \in AliasesOf[l] THEN o ELSE owner[a]]
    BY DEF Creates
  <1>6. owner' \in [Aliases -> Opps \cup {None}] /\ Whole(owner', l, o)
    BY <1>5, AliasFacts DEF IdentityTyped, Whole
  <1>7. \A a \in Aliases : owner[a] # None => owner'[a] = owner[a]
    BY <1>4, <1>5
  <1>8. \A a \in Aliases : owner'[a] # owner[a] => owner'[a] = o
    BY <1>5
  <1>9. \E a \in Aliases : owner'[a] = o
    BY <1>5, AliasFacts
  <1> QED BY <1>1, <1>3, <1>6, <1>7, <1>8, <1>9 DEF LinkedOnly

LEMMA NothingLinked ==
  ASSUME UNCHANGED <<owner, opp>>
  PROVE  LinkedOnly
  BY DEF LinkedOnly

LEMMA TouchedDoes ==
  ASSUME IdentityTyped, NEW o \in Opps, opp' = Touched(o), owner' = owner
  PROVE  LinkedOnly /\ opp' \in [Opps -> OpportunityRows]
  <1>1. [opp[o] EXCEPT !.rev = @ + 1] \in OpportunityRows /\ [opp[o] EXCEPT !.rev = @ + 1].status = opp[o].status
    BY DEF IdentityTyped, OpportunityRows
  <1>2. opp' = [opp EXCEPT ![o] = [opp[o] EXCEPT !.rev = @ + 1]]
    BY DEF Touched, IdentityTyped
  <1> QED BY <1>1, <1>2 DEF LinkedOnly, IdentityTyped

-----------------------------------------------------------------------------
(* The steps *)

(* Who has found, created or linked its listing, or is about to say so *)
Sure == {"found", "reconcile", "close", "done"}
Procs == Passes \cup Decisions
StepDoes(p) ==
  /\ LinkedOnly /\ IdentityTyped'
  /\ \A q \in Procs \ {p} : proc'[q] = proc[q]
  /\ proc'[p].pc \in Sure =>
       \/ Whole(owner', proc'[p].listing, proc'[p].target) /\ proc'[p].target \in Opps /\ proc'[p].listing \in Listings
       \/ proc[p].pc \in Sure /\ proc'[p].listing = proc[p].listing /\ proc'[p].target = proc[p].target
  /\ \A l \in Listings : doubt'[l].state = "resolved" =>
       \/ doubt[l].state = "resolved"
       \/ proc'[p].pc \in Sure /\ proc'[p].listing = l

(* A step that moves one pass or decision on and writes nothing else *)
LEMMA GotoDoes ==
  ASSUME IdentityTyped, NEW p \in Procs, NEW pc \in IdentityPcs, Goto(p, pc), UNCHANGED <<owner, opp, doubt>>,
         proc[p].pc # "idle",
         pc \in Targeted => proc[p].target \in Opps,
         pc \in Sure => proc[p].pc \in Sure
  PROVE  StepDoes(p)
  <1> DEFINE r == [proc[p] EXCEPT !.pc = pc]
  <1>1. proc[p] \in ProcRows /\ Aimed(proc[p])
    BY DEF IdentityTyped, Procs
  <1>2. r \in ProcRows /\ r.pc = pc /\ r.listing = proc[p].listing /\ r.target = proc[p].target
    BY <1>1 DEF ProcRows
  <1>3. Aimed(r)
    BY <1>1, <1>2 DEF Aimed, Targeted
  <1>4. proc' = [proc EXCEPT ![p] = r]
    BY DEF Goto
  <1> HIDE DEF r
  <1>5. /\ proc' \in [Procs -> ProcRows] /\ \A q \in Procs : Aimed(proc'[q])
        /\ proc'[p] = r /\ \A q \in Procs \ {p} : proc'[q] = proc[q]
    BY <1>2, <1>3, <1>4, OneTurn DEF Procs
  <1>6. IdentityTyped'
    BY <1>5 DEF IdentityTyped, Procs
  <1> QED BY <1>2, <1>5, <1>6, NothingLinked DEF StepDoes

LEMMA LookDoes == ASSUME IdentityAssumption, IdentityTyped, NEW p \in Passes, Look(p) PROVE StepDoes(p)
  <1>1. PICK l \in Listings :
          LET found == AliasOwners(l)
              sole == CHOOSE o \in found : TRUE
          IN proc' = [proc EXCEPT ![p] =
               IF found = {} THEN [Idle EXCEPT !.pc = "compare", !.listing = l]
               ELSE IF Cardinality(found) = 1 /\ Active(sole)
               THEN [Idle EXCEPT !.pc = "renew", !.listing = l, !.target = sole]
               ELSE [Idle EXCEPT !.pc = "except", !.listing = l]]
    BY DEF Look
  <1> DEFINE o == CHOOSE x \in AliasOwners(l) : TRUE
  <1>2. PICK r : proc' = [proc EXCEPT ![p] = r] /\
          \/ r = [Idle EXCEPT !.pc = "compare", !.listing = l]
          \/ Cardinality(AliasOwners(l)) = 1 /\ r = [Idle EXCEPT !.pc = "renew", !.listing = l, !.target = o]
          \/ r = [Idle EXCEPT !.pc = "except", !.listing = l]
    BY <1>1
  <1>3. Cardinality(AliasOwners(l)) = 1 => o \in Opps
    BY OneIsThere, OwnersAre
  <1> HIDE DEF o
  <1>4. r \in ProcRows
    <2>1. \A pc \in IdentityPcs : [Idle EXCEPT !.pc = pc, !.listing = l] \in ProcRows
      BY NewRowsOfProcs
    <2>2. \A pc \in IdentityPcs, x \in Opps : [Idle EXCEPT !.pc = pc, !.listing = l, !.target = x] \in ProcRows
      BY NewRowsOfProcs
    <2>3. "compare" \in IdentityPcs /\ "renew" \in IdentityPcs /\ "except" \in IdentityPcs
      BY PcsAre
    <2> QED BY <1>2, <1>3, <2>1, <2>2, <2>3
  <1>5. Aimed(r) /\ r.pc \notin Sure
    BY <1>2, <1>3 DEF Aimed, Targeted, Idle, Sure
  <1>6. /\ proc' \in [Procs -> ProcRows] /\ \A q \in Procs : Aimed(proc'[q])
        /\ proc'[p] = r /\ \A q \in Procs \ {p} : proc'[q] = proc[q]
    BY <1>2, <1>4, <1>5, OneTurn DEF Procs
  <1>7. UNCHANGED <<owner, opp, doubt>>
    BY DEF Look
  <1> QED BY <1>5, <1>6, <1>7, NothingLinked DEF StepDoes, IdentityTyped, Procs

LEMMA CompareDoes == ASSUME IdentityAssumption, IdentityTyped, NEW p \in Passes, Compare(p) PROVE StepDoes(p)
  <1> DEFINE l == proc[p].listing
             automatic == {o \in ActiveOpps : <<l, opp[o].from>> \in Alike}
             sole == CHOOSE o \in automatic : TRUE
  <1>0. proc[p] \in ProcRows /\ l \in Listings
    BY DEF Compare, IdentityTyped, Aimed, Targeted
  <1>1. PICK r : proc' = [proc EXCEPT ![p] = r] /\
          \/ Cardinality(automatic) = 1 /\ r = [proc[p] EXCEPT !.pc = "renew", !.target = sole]
          \/ r = [proc[p] EXCEPT !.pc = "except"]
          \/ r = [proc[p] EXCEPT !.pc = "create"]
    BY DEF Compare
  <1>2. Cardinality(automatic) = 1 => sole \in Opps
    <2>1. automatic \subseteq Opps
      BY DEF ActiveOpps
    <2> HIDE DEF automatic
    <2> QED BY <2>1, OneIsThere
  <1> HIDE DEF sole, automatic
  <1>4. r \in ProcRows
    <2>1. \A pc \in IdentityPcs : [proc[p] EXCEPT !.pc = pc] \in ProcRows
      BY <1>0, RowsOfProcs
    <2>2. \A pc \in IdentityPcs, x \in Opps : [proc[p] EXCEPT !.pc = pc, !.target = x] \in ProcRows
      BY <1>0, RowsOfProcs
    <2>3. "create" \in IdentityPcs /\ "renew" \in IdentityPcs /\ "except" \in IdentityPcs
      BY PcsAre
    <2> QED BY <1>1, <1>2, <2>1, <2>2, <2>3
  <1>5. Aimed(r) /\ r.pc \notin Sure
    BY <1>0, <1>1, <1>2 DEF Aimed, Targeted, Sure, ProcRows
  <1>6. /\ proc' \in [Procs -> ProcRows] /\ \A q \in Procs : Aimed(proc'[q])
        /\ proc'[p] = r /\ \A q \in Procs \ {p} : proc'[q] = proc[q]
    BY <1>1, <1>4, <1>5, OneTurn DEF Procs
  <1>7. UNCHANGED <<owner, opp, doubt>>
    BY DEF Compare
  <1> QED BY <1>5, <1>6, <1>7, NothingLinked DEF StepDoes, IdentityTyped, Procs

(* A step that settles one row *)
LEMMA StepIs ==
  ASSUME IdentityTyped, NEW p \in Procs, NEW r \in ProcRows, Aimed(r), proc' = [proc EXCEPT ![p] = r],
         LinkedOnly, owner' \in [Aliases -> Opps \cup {None}], opp' \in [Opps -> OpportunityRows],
         doubt' \in [Listings -> DoubtRows],
         r.pc \in Sure => \/ Whole(owner', r.listing, r.target) /\ r.target \in Opps /\ r.listing \in Listings
                          \/ proc[p].pc \in Sure /\ r.listing = proc[p].listing /\ r.target = proc[p].target,
         \A l \in Listings : doubt'[l].state = "resolved" =>
           doubt[l].state = "resolved" \/ (r.pc \in Sure /\ r.listing = l)
  PROVE  StepDoes(p) /\ proc'[p] = r
  <1>1. /\ proc' \in [Procs -> ProcRows] /\ \A q \in Procs : Aimed(proc'[q])
        /\ proc'[p] = r /\ \A q \in Procs \ {p} : proc'[q] = proc[q]
    BY OneTurn DEF Procs
  <1>2. IdentityTyped'
    BY <1>1 DEF IdentityTyped, Procs
  <1>3. r.pc \in Sure => \/ Whole(owner', proc'[p].listing, proc'[p].target) /\ r.target \in Opps /\ r.listing \in Listings
                         \/ proc[p].pc \in Sure /\ r.listing = proc[p].listing /\ r.target = proc[p].target
    BY <1>1
  <1> QED BY <1>1, <1>2, <1>3 DEF StepDoes

LEMMA RenewDoes == ASSUME IdentityAssumption, IdentityTyped, NEW p \in Passes, Renew(p) PROVE StepDoes(p)
  <1> DEFINE o == proc[p].target
             pc == IF Active(o) THEN IF proc[p].pc = "renew" THEN "link" ELSE "found" ELSE "except"
             r == [proc[p] EXCEPT !.pc = pc]
  <1>0. proc[p] \in ProcRows /\ Aimed(proc[p]) /\ proc[p].pc \in {"renew", "reconcile"}
    BY DEF Renew, IdentityTyped
  <1>1. o \in Opps /\ proc[p].listing \in Listings
    BY <1>0 DEF Aimed, Targeted
  <1>2. r \in ProcRows /\ r.pc = pc /\ r.listing = proc[p].listing /\ r.target = o
    <2>1. pc \in IdentityPcs
      BY DEF IdentityPcs
    <2> HIDE DEF pc
    <2> QED BY <1>0, <2>1 DEF ProcRows
  <1>3. Aimed(r)
    BY <1>1, <1>2 DEF Aimed, Targeted
  <1>4. proc' = [proc EXCEPT ![p] = r]
    BY DEF Renew, Goto
  <1>5. LinkedOnly /\ opp' \in [Opps -> OpportunityRows] /\ owner' = owner /\ doubt' = doubt
    <2>1. CASE Active(o)
      BY <2>1, <1>1, TouchedDoes DEF Renew
    <2>2. CASE ~Active(o)
      BY <2>2, NothingLinked DEF Renew, IdentityTyped
    <2> QED BY <2>1, <2>2
  <1>6. r.pc \in Sure => proc[p].pc \in Sure
    BY <1>0, <1>2 DEF Sure
  <1> HIDE DEF r, o, pc
  <1>7. owner' \in [Aliases -> Opps \cup {None}] /\ doubt' \in [Listings -> DoubtRows]
    BY <1>5 DEF IdentityTyped
  <1>8. p \in Procs
    BY DEF Procs
  <1> QED BY <1>2, <1>3, <1>4, <1>5, <1>6, <1>7, <1>8, StepIs DEF o

LEMMA LinkListingDoes ==
  ASSUME IdentityAssumption, IdentityTyped, NEW p \in Passes, LinkListing(p) PROVE StepDoes(p)
  <1> DEFINE o == proc[p].target
             l == proc[p].listing
  <1>0. proc[p] \in ProcRows /\ Aimed(proc[p]) /\ proc[p].pc = "link" /\ p \in Procs /\ UNCHANGED <<opp, doubt>>
    BY DEF LinkListing, IdentityTyped, Procs
  <1>1. o \in Opps /\ l \in Listings
    BY <1>0 DEF Aimed, Targeted
  <1>2. CASE Links(o, l) /\ Goto(p, "found")
    <2> DEFINE r == [proc[p] EXCEPT !.pc = "found"]
    <2>1. r \in ProcRows /\ r.pc = "found" /\ r.listing = l /\ r.target = o
      BY <1>0 DEF ProcRows, IdentityPcs
    <2>2. proc' = [proc EXCEPT ![p] = r]
      BY <1>2 DEF Goto
    <2>3. Aimed(r)
      BY <2>1, <1>1 DEF Aimed, Targeted
    <2>4. LinkedOnly /\ owner' \in [Aliases -> Opps \cup {None}] /\ Whole(owner', l, o)
      BY <1>0, <1>1, <1>2, LinksDoes
    <2>5. opp' \in [Opps -> OpportunityRows] /\ doubt' \in [Listings -> DoubtRows]
      BY <1>0 DEF IdentityTyped
    <2>6. Whole(owner', r.listing, r.target)
      BY <2>1, <2>4
    <2> HIDE DEF r, o, l
    <2> QED BY <1>0, <1>1, <2>1, <2>2, <2>3, <2>4, <2>5, <2>6, StepIs
  <1>3. CASE owner' = owner /\ \E pc \in {"failed", "except"} : Goto(p, pc)
    <2>1. PICK pc \in {"failed", "except"} : Goto(p, pc)
      BY <1>3
    <2>2. pc \in IdentityPcs /\ pc \notin Sure /\ pc \notin Targeted
      BY DEF IdentityPcs, Sure, Targeted
    <2> QED BY <1>0, <1>3, <2>1, <2>2, GotoDoes
  <1> QED BY <1>2, <1>3 DEF LinkListing

(* A step that settles one row after it linked or created its listing *)
LEMMA SettledDoes ==
  ASSUME IdentityTyped, NEW p \in Procs, NEW pc \in Sure, NEW o \in Opps,
         proc[p].listing \in Listings,
         proc' = [proc EXCEPT ![p] = [proc[p] EXCEPT !.pc = pc, !.target = o]],
         LinkedOnly, owner' \in [Aliases -> Opps \cup {None}], opp' \in [Opps -> OpportunityRows],
         doubt' \in [Listings -> DoubtRows], Whole(owner', proc[p].listing, o),
         \A l \in Listings : doubt'[l].state = "resolved" =>
           doubt[l].state = "resolved" \/ l = proc[p].listing
  PROVE  StepDoes(p)
  <1> DEFINE r == [proc[p] EXCEPT !.pc = pc, !.target = o]
  <1>1. proc[p] \in ProcRows /\ pc \in IdentityPcs
    BY DEF IdentityTyped, Procs, Sure, IdentityPcs
  <1>2. r \in ProcRows /\ r.pc = pc /\ r.listing = proc[p].listing /\ r.target = o
    BY <1>1 DEF ProcRows
  <1>3. Aimed(r)
    BY <1>2 DEF Aimed, Targeted
  <1>4. proc' = [proc EXCEPT ![p] = r]
    OBVIOUS
  <1> HIDE DEF r
  <1> QED BY <1>2, <1>3, <1>4, StepIs

LEMMA CreateDoes ==
  ASSUME IdentityAssumption, IdentityTyped, NEW p \in Passes, Create(p) PROVE StepDoes(p)
  <1> DEFINE l == proc[p].listing
             sole == CHOOSE o \in AliasOwners(l) : TRUE
  <1>0. proc[p] \in ProcRows /\ proc[p].pc = "create" /\ p \in Procs /\ l \in Listings
    BY DEF Create, IdentityTyped, Procs, Aimed, Targeted
  <1>1. CASE doubt' = doubt /\ \E o \in Opps : Creates(o, l) /\ proc' = [proc EXCEPT ![p].pc = "found", ![p].target = o]
    <2>1. PICK o \in Opps : Creates(o, l) /\ proc' = [proc EXCEPT ![p].pc = "found", ![p].target = o]
      BY <1>1
    <2>2. proc' = [proc EXCEPT ![p] = [proc[p] EXCEPT !.pc = "found", !.target = o]]
      BY <2>1 DEF IdentityTyped
    <2>3. /\ LinkedOnly /\ owner' \in [Aliases -> Opps \cup {None}] /\ Whole(owner', l, o)
          /\ opp' \in [Opps -> OpportunityRows]
      BY <1>0, <2>1, CreatesDoes
    <2>4. doubt' \in [Listings -> DoubtRows] /\ "found" \in Sure
      BY <1>1 DEF IdentityTyped, Sure
    <2> QED BY <1>0, <1>1, <2>2, <2>3, <2>4, SettledDoes
  <1>2. CASE /\ Cardinality(AliasOwners(l)) = 1 /\ Links(sole, l)
             /\ proc' = [proc EXCEPT ![p].pc = "reconcile", ![p].target = sole]
             /\ UNCHANGED <<opp, doubt>>
    <2>1. PICK o : o = sole
      OBVIOUS
    <2>2. o \in Opps
      BY <1>0, <1>2, <2>1, OneIsThere, OwnersAre
    <2>3. Links(o, l) /\ proc' = [proc EXCEPT ![p].pc = "reconcile", ![p].target = o]
      BY <1>2, <2>1
    <2>4. proc' = [proc EXCEPT ![p] = [proc[p] EXCEPT !.pc = "reconcile", !.target = o]]
      BY <2>3 DEF IdentityTyped
    <2>5. LinkedOnly /\ owner' \in [Aliases -> Opps \cup {None}] /\ Whole(owner', l, o)
      BY <1>0, <1>2, <2>2, <2>3, LinksDoes
    <2>6. doubt' \in [Listings -> DoubtRows] /\ opp' \in [Opps -> OpportunityRows] /\ "reconcile" \in Sure
      BY <1>2 DEF IdentityTyped, Sure
    <2> QED BY <1>0, <1>2, <2>2, <2>4, <2>5, <2>6, SettledDoes
  <1>3. CASE Goto(p, "except") /\ UNCHANGED <<owner, opp, doubt>>
    <2>1. /\ "except" \in IdentityPcs /\ "except" \notin Sure
          /\ "except" \notin Targeted
      BY DEF IdentityPcs, Sure, Targeted
    <2> QED BY <1>0, <1>3, <2>1, GotoDoes
  <1> QED BY <1>1, <1>2, <1>3 DEF Create

LEMMA DoubtRowsAre ==
  ASSUME IdentityTyped, NEW l \in Listings, NEW state \in {"open", "resolved"},
         NEW by \in Decisions \cup {"merge", None}, NEW o \in Opps \cup {None},
         doubt' = [doubt EXCEPT ![l] = [state |-> state, by |-> by, to |-> o, rev |-> doubt[l].rev + 1]]
  PROVE  /\ doubt' \in [Listings -> DoubtRows]
         /\ \A m \in Listings : doubt'[m].state = "resolved" => doubt[m].state = "resolved" \/ (m = l /\ state = "resolved")
  BY DEF IdentityTyped, DoubtRows

LEMMA ExceptDoes ==
  ASSUME IdentityAssumption, IdentityTyped, NEW p \in Passes, Except(p) PROVE StepDoes(p)
  <1> DEFINE l == proc[p].listing
             r == [proc[p] EXCEPT !.pc = "uncertain"]
  <1>0. proc[p] \in ProcRows /\ p \in Procs /\ l \in Listings /\ UNCHANGED <<owner, opp>>
    BY DEF Except, IdentityTyped, Procs, Aimed, Targeted
  <1>1. r \in ProcRows /\ r.pc = "uncertain" /\ r.listing = l
    BY <1>0 DEF ProcRows, IdentityPcs
  <1>2. Aimed(r) /\ r.pc \notin Sure
    BY <1>0, <1>1 DEF Aimed, Targeted, Sure
  <1>3. proc' = [proc EXCEPT ![p] = r]
    BY DEF Except, Goto
  <1>4. doubt' = [doubt EXCEPT ![l] = [state |-> "open", by |-> None, to |-> None, rev |-> doubt[l].rev + 1]]
    BY DEF Except
  <1>5. /\ doubt' \in [Listings -> DoubtRows]
        /\ \A m \in Listings : doubt'[m].state = "resolved" => doubt[m].state = "resolved"
    BY <1>0, <1>4, DoubtRowsAre
  <1>6. LinkedOnly /\ owner' \in [Aliases -> Opps \cup {None}] /\ opp' \in [Opps -> OpportunityRows]
    BY <1>0, NothingLinked DEF IdentityTyped
  <1> HIDE DEF r, l
  <1> QED BY <1>0, <1>1, <1>2, <1>3, <1>5, <1>6, StepIs

LEMMA ReviewDoes ==
  ASSUME IdentityAssumption, IdentityTyped, NEW d \in Decisions, Review(d) PROVE StepDoes(d)
  <1>1. PICK l \in Listings, action \in {"link", "keep"}, o \in Opps :
          proc' = [proc EXCEPT ![d] = [Idle EXCEPT !.pc = "owners", !.listing = l, !.target = o, !.action = action]]
    BY DEF Review
  <1> DEFINE r == [Idle EXCEPT !.pc = "owners", !.listing = l, !.target = o, !.action = action]
  <1>2. r \in ProcRows /\ r.pc = "owners" /\ r.listing = l /\ r.target = o
    BY DEF ProcRows, IdentityPcs, Idle
  <1>3. Aimed(r) /\ r.pc \notin Sure
    BY <1>2 DEF Aimed, Targeted, Sure
  <1>4. proc' = [proc EXCEPT ![d] = r] /\ d \in Procs /\ UNCHANGED <<owner, opp, doubt>>
    BY <1>1 DEF Procs, Review
  <1>5. /\ LinkedOnly /\ owner' \in [Aliases -> Opps \cup {None}] /\ opp' \in [Opps -> OpportunityRows]
        /\ doubt' \in [Listings -> DoubtRows] /\ \A m \in Listings : doubt'[m].state = doubt[m].state
    BY <1>4, NothingLinked DEF IdentityTyped
  <1> HIDE DEF r
  <1> QED BY <1>2, <1>3, <1>4, <1>5, StepIs

LEMMA ReadOwnersDoes ==
  ASSUME IdentityAssumption, IdentityTyped, NEW d \in Decisions, ReadOwners(d) PROVE StepDoes(d)
  <1>1. PICK pc \in {"keep", "attach", "refused"} : Goto(d, pc)
    BY DEF ReadOwners
  <1>2. /\ proc[d].pc = "owners" /\ d \in Procs /\ UNCHANGED <<owner, opp, doubt>>
        /\ proc[d].target \in Opps
    BY DEF ReadOwners, Procs, IdentityTyped, Aimed, Targeted
  <1>3. pc \in IdentityPcs /\ pc \notin Sure
    BY DEF IdentityPcs, Sure
  <1> QED BY <1>1, <1>2, <1>3, GotoDoes

LEMMA KeepDoes ==
  ASSUME IdentityAssumption, IdentityTyped, NEW d \in Decisions, Keep(d) PROVE StepDoes(d)
  <1> DEFINE l == proc[d].listing
  <1>0. proc[d] \in ProcRows /\ proc[d].pc = "keep" /\ d \in Procs /\ l \in Listings
    BY DEF Keep, IdentityTyped, Procs, Aimed, Targeted
  <1>1. CASE \E o \in Opps : /\ Creates(o, l) /\ doubt' = Resolved(l, d, o)
                            /\ proc' = [proc EXCEPT ![d].pc = "done", ![d].target = o]
    <2>1. PICK o \in Opps : /\ Creates(o, l) /\ doubt' = Resolved(l, d, o)
                            /\ proc' = [proc EXCEPT ![d].pc = "done", ![d].target = o]
      BY <1>1
    <2>2. proc' = [proc EXCEPT ![d] = [proc[d] EXCEPT !.pc = "done", !.target = o]]
      BY <2>1 DEF IdentityTyped
    <2>3. /\ LinkedOnly /\ owner' \in [Aliases -> Opps \cup {None}] /\ Whole(owner', l, o)
          /\ opp' \in [Opps -> OpportunityRows]
      BY <1>0, <2>1, CreatesDoes
    <2>4. doubt' = [doubt EXCEPT ![l] = [state |-> "resolved", by |-> d, to |-> o, rev |-> doubt[l].rev + 1]]
      BY <2>1 DEF Resolved
    <2>5. /\ doubt' \in [Listings -> DoubtRows]
          /\ \A m \in Listings : doubt'[m].state = "resolved" => doubt[m].state = "resolved" \/ m = l
      BY <1>0, <2>4, DoubtRowsAre
    <2>6. "done" \in Sure
      BY DEF Sure
    <2> QED BY <1>0, <2>2, <2>3, <2>5, <2>6, SettledDoes
  <1>2. CASE Goto(d, "refused") /\ UNCHANGED <<owner, opp, doubt>>
    <2>1. /\ "refused" \in IdentityPcs /\ "refused" \notin Sure
          /\ "refused" \notin Targeted
      BY DEF IdentityPcs, Sure, Targeted
    <2> QED BY <1>0, <1>2, <2>1, GotoDoes
  <1> QED BY <1>1, <1>2 DEF Keep

LEMMA AttachDoes ==
  ASSUME IdentityAssumption, IdentityTyped, NEW d \in Decisions, Attach(d) PROVE StepDoes(d)
  <1> DEFINE o == proc[d].target
             l == proc[d].listing
  <1>0. proc[d] \in ProcRows /\ Aimed(proc[d]) /\ proc[d].pc = "attach" /\ d \in Procs /\ UNCHANGED <<opp, doubt>>
    BY DEF Attach, IdentityTyped, Procs
  <1>1. o \in Opps /\ l \in Listings
    BY <1>0 DEF Aimed, Targeted
  <1>2. CASE Links(o, l) /\ Goto(d, "close")
    <2>1. proc' = [proc EXCEPT ![d] = [proc[d] EXCEPT !.pc = "close", !.target = o]]
      <3>1. [proc[d] EXCEPT !.pc = "close"] = [proc[d] EXCEPT !.pc = "close", !.target = o]
        BY <1>0 DEF ProcRows
      <3> QED BY <1>2, <3>1 DEF Goto
    <2>2. LinkedOnly /\ owner' \in [Aliases -> Opps \cup {None}] /\ Whole(owner', l, o)
      BY <1>0, <1>1, <1>2, LinksDoes
    <2>3. doubt' \in [Listings -> DoubtRows] /\ opp' \in [Opps -> OpportunityRows] /\ "close" \in Sure
      BY <1>0 DEF IdentityTyped, Sure
    <2> HIDE DEF o
    <2> QED BY <1>0, <1>1, <2>1, <2>2, <2>3, SettledDoes
  <1>3. CASE owner' = owner /\ Goto(d, "refused")
    <2>1. /\ "refused" \in IdentityPcs /\ "refused" \notin Sure
          /\ "refused" \notin Targeted
      BY DEF IdentityPcs, Sure, Targeted
    <2> QED BY <1>0, <1>3, <2>1, GotoDoes
  <1> QED BY <1>2, <1>3 DEF Attach

LEMMA CloseDoes ==
  ASSUME IdentityAssumption, IdentityTyped, NEW d \in Decisions, Close(d) PROVE StepDoes(d)
  <1> DEFINE o == proc[d].target
             l == proc[d].listing
             r == [proc[d] EXCEPT !.pc = "done"]
  <1>0. /\ proc[d] \in ProcRows /\ Aimed(proc[d]) /\ proc[d].pc = "close" /\ d \in Procs /\ UNCHANGED <<owner, opp>>
        /\ proc' = [proc EXCEPT ![d] = r]
    BY DEF Close, IdentityTyped, Procs, Goto
  <1>1. o \in Opps /\ l \in Listings
    BY <1>0 DEF Aimed, Targeted
  <1>2. r \in ProcRows /\ r.pc = "done" /\ r.listing = l /\ r.target = o
    BY <1>0 DEF ProcRows, IdentityPcs
  <1>3. Aimed(r) /\ r.pc \in Sure /\ proc[d].pc \in Sure
    BY <1>0, <1>1, <1>2 DEF Aimed, Targeted, Sure
  <1>4. doubt' = [doubt EXCEPT ![l] = [state |-> "resolved", by |-> d, to |-> o, rev |-> doubt[l].rev + 1]]
    BY DEF Close, Resolved
  <1>5. /\ doubt' \in [Listings -> DoubtRows]
        /\ \A m \in Listings : doubt'[m].state = "resolved" => doubt[m].state = "resolved" \/ m = l
    BY <1>1, <1>4, DoubtRowsAre
  <1>6. LinkedOnly /\ owner' \in [Aliases -> Opps \cup {None}] /\ opp' \in [Opps -> OpportunityRows]
    BY <1>0, NothingLinked DEF IdentityTyped
  <1> HIDE DEF r
  <1> QED BY <1>0, <1>2, <1>3, <1>5, <1>6, StepIs

-----------------------------------------------------------------------------
(* Resolving listings                                                       *)

LEMMA StepsDo ==
  ASSUME IdentityAssumption, IdentityTyped, IdentityNext
  PROVE  \E p \in Procs : StepDoes(p)
  <1>1. ASSUME NEW p \in Passes, PassStep(p) PROVE StepDoes(p)
    BY <1>1, LookDoes, CompareDoes, RenewDoes, LinkListingDoes, CreateDoes, ExceptDoes DEF PassStep
  <1>2. ASSUME NEW d \in Decisions, DecisionStep(d) PROVE StepDoes(d)
    BY <1>2, ReviewDoes, ReadOwnersDoes, KeepDoes, AttachDoes, CloseDoes DEF DecisionStep
  <1> QED BY <1>1, <1>2 DEF IdentityNext, Procs

LEMMA IdentityAtFirst ==
  ASSUME IdentityAssumption, IdentityInit
  PROVE  IdentityTyped /\ EveryDealIsFound /\ \A p \in Procs : proc[p].pc = "idle"
  <1> DEFINE Has(a) == \E o \in DOMAIN Known : a \in AliasesOf[Known[o]]
             Owner(a) == CHOOSE o \in DOMAIN Known : a \in AliasesOf[Known[o]]
  <1>1. owner = [a \in Aliases |-> IF Has(a) THEN Owner(a) ELSE None]
    BY DEF IdentityInit
  <1>2. \A a \in Aliases : Has(a) => Owner(a) \in DOMAIN Known /\ a \in AliasesOf[Known[Owner(a)]]
    OBVIOUS
  <1> HIDE DEF Owner
  <1>3. owner \in [Aliases -> Opps \cup {None}]
    BY <1>1, <1>2 DEF IdentityAssumption
  <1>4. opp = [o \in Opps |-> IF o \in DOMAIN Known THEN [status |-> "active", from |-> Known[o], rev |-> 1] ELSE Absent]
    BY DEF IdentityInit
  <1>5. opp \in [Opps -> OpportunityRows]
    BY <1>4 DEF OpportunityRows, Absent, IdentityAssumption
  <1>6. doubt \in [Listings -> DoubtRows] /\ proc \in [Procs -> ProcRows]
    BY DEF IdentityInit, DoubtRows, ProcRows, NoDoubt, Idle, IdentityPcs, Procs
  <1>7. \A p \in Procs : proc[p].pc = "idle"
    BY DEF IdentityInit, Idle, Procs
  <1>8. \A p \in Procs : Aimed(proc[p])
    BY <1>7 DEF Aimed, Targeted
  <1>9. ASSUME NEW o \in Opps, Active(o) PROVE \E a \in Aliases : owner[a] = o
    <2>1. o \in DOMAIN Known /\ Known[o] \in Listings
      BY <1>9, <1>4 DEF Active, Absent, IdentityAssumption
    <2>2. PICK a \in AliasesOf[Known[o]] : TRUE
      BY <2>1, AliasFacts
    <2>3. a \in Aliases /\ Has(a)
      BY <2>1, <2>2, AliasFacts
    <2>4. Owner(a) = o
      BY <1>2, <2>1, <2>2, <2>3 DEF IdentityAssumption
    <2> QED BY <1>1, <2>3, <2>4
  <1>10. ASSUME NEW a \in Aliases, owner[a] # None PROVE Active(owner[a])
    <2>1. Has(a) /\ owner[a] = Owner(a)
      BY <1>1, <1>10
    <2> QED BY <1>2, <1>4, <2>1 DEF Active, IdentityAssumption
  <1> QED BY <1>3, <1>5, <1>6, <1>7, <1>8, <1>9, <1>10 DEF IdentityTyped, EveryDealIsFound, Procs

(* A listing that somebody is sure of, or whose doubt is resolved, has its    *)
(* aliases at one opportunity.                                                *)
SureOfOne ==
  /\ \A p \in Procs : proc[p].pc \in Sure => \E o \in Opps : Whole(owner, proc[p].listing, o)
  /\ \A l \in Listings : doubt[l].state = "resolved" => \E o \in Opps : Whole(owner, l, o)
(* While nothing is merged, at the one they are sure of.                      *)
SureOfTheirs == \A p \in Procs : proc[p].pc \in Sure => Whole(owner, proc[p].listing, proc[p].target)

LEMMA WholeStays ==
  ASSUME IdentityAssumption, LinkedOnly, NEW l \in Listings, NEW o \in Opps, Whole(owner, l, o)
  PROVE  Whole(owner', l, o)
  BY AliasFacts DEF LinkedOnly, Whole, IdentityAssumption

LEMMA FoundKept ==
  ASSUME IdentityAssumption, IdentityTyped, IdentityTyped', LinkedOnly, EveryDealIsFound PROVE EveryDealIsFound'
  <1>1. \A a \in Aliases : owner[a] # None => owner[a] \in Opps
    BY DEF IdentityTyped
  <1>2. ASSUME NEW o \in Opps, Active(o)' PROVE \E a \in Aliases : owner'[a] = o
    <2>1. CASE Active(o)
      <3>1. PICK a \in Aliases : owner[a] = o
        BY <2>1 DEF EveryDealIsFound
      <3>2. owner'[a] = o
        BY <3>1 DEF LinkedOnly, IdentityAssumption
      <3> QED BY <3>2
    <2>2. CASE ~Active(o)
      BY <1>2, <2>2 DEF LinkedOnly, Active
    <2> QED BY <2>1, <2>2
  <1>3. ASSUME NEW a \in Aliases, owner'[a] # None PROVE opp'[owner'[a]].status = "active"
    <2>1. CASE owner'[a] # owner[a]
      BY <2>1 DEF LinkedOnly
    <2>2. CASE owner'[a] = owner[a]
      <3>1. owner[a] \in Opps /\ opp[owner[a]].status = "active"
        BY <1>1, <1>3, <2>2 DEF EveryDealIsFound, Active
      <3> QED BY <2>2, <3>1 DEF LinkedOnly
    <2> QED BY <2>1, <2>2
  <1> QED BY <1>2, <1>3 DEF EveryDealIsFound, Active

LEMMA SureOfOneKept ==
  ASSUME IdentityAssumption, IdentityTyped, NEW p \in Procs, StepDoes(p), SureOfOne PROVE SureOfOne'
  <1>1. LinkedOnly /\ IdentityTyped'
    BY DEF StepDoes
  <1>2. ASSUME NEW l \in Listings, \E o \in Opps : Whole(owner, l, o) PROVE \E o \in Opps : Whole(owner', l, o)
    BY <1>1, <1>2, WholeStays
  <1>3. ASSUME NEW q \in Procs, proc[q].pc \in Sure PROVE proc[q].listing \in Listings
    BY <1>3 DEF IdentityTyped, Procs, Aimed, Sure
  <1>4. ASSUME NEW q \in Procs, proc'[q].pc \in Sure PROVE \E o \in Opps : Whole(owner', proc'[q].listing, o)
    <2>1. CASE q # p
      BY <1>2, <1>3, <1>4, <2>1 DEF StepDoes, SureOfOne
    <2>2. CASE q = p
      BY <1>2, <1>3, <1>4, <2>2 DEF StepDoes, SureOfOne
    <2> QED BY <2>1, <2>2
  <1>5. ASSUME NEW l \in Listings, doubt'[l].state = "resolved" PROVE \E o \in Opps : Whole(owner', l, o)
    BY <1>2, <1>4, <1>5 DEF StepDoes, SureOfOne
  <1> QED BY <1>4, <1>5 DEF SureOfOne

LEMMA SureOfTheirsKept ==
  ASSUME IdentityAssumption, IdentityTyped, NEW p \in Procs, StepDoes(p), SureOfTheirs PROVE SureOfTheirs'
  <1>1. LinkedOnly /\ IdentityTyped'
    BY DEF StepDoes
  <1>2. ASSUME NEW q \in Procs, proc[q].pc \in Sure
        PROVE  Whole(owner', proc[q].listing, proc[q].target)
    <2>1. Whole(owner, proc[q].listing, proc[q].target) /\ proc[q].listing \in Listings
      BY <1>2 DEF SureOfTheirs, IdentityTyped, Procs, Aimed, Sure
    <2>2. proc[q].target # None
      BY <1>2 DEF IdentityTyped, Procs, Aimed, Sure, Targeted, IdentityAssumption
    <2> QED BY <1>1, <2>1, <2>2, AliasFacts DEF LinkedOnly, Whole
  <1>3. ASSUME NEW q \in Procs, proc'[q].pc \in Sure PROVE Whole(owner', proc'[q].listing, proc'[q].target)
    BY <1>2, <1>3 DEF StepDoes
  <1> QED BY <1>3 DEF SureOfTheirs

IdentityInv == IdentityTyped /\ EveryDealIsFound /\ SureOfOne
ResolvingInv == IdentityInv /\ SureOfTheirs

LEMMA TypedIsTypeOK == ASSUME IdentityTyped PROVE IdentityTypeOK
  <1>1. \A l \in Listings : doubt[l].state \in {"none", "open", "resolved"}
    BY DEF IdentityTyped, DoubtRows
  <1>2. \A p \in Passes \cup Decisions : proc[p].target \in Opps \cup {None}
    BY DEF IdentityTyped, ProcRows
  <1> QED BY <1>1, <1>2 DEF IdentityTyped, OpportunityRows, IdentityTypeOK

LEMMA SureIsTogether == ASSUME SureOfOne PROVE ResolvedTogether
  <1>1. "found" \in Sure /\ Passes \subseteq Procs
    BY DEF Sure, Procs
  <1> QED BY <1>1 DEF SureOfOne, ResolvedTogether, Whole

LEMMA TheirsIsForOne == ASSUME IdentityAssumption, IdentityTyped, SureOfTheirs PROVE DecidedForOne
  <1>1. ASSUME NEW c \in Decisions, NEW d \in Decisions, proc[c].pc = "done", proc[d].pc = "done",
               proc[c].listing = proc[d].listing
        PROVE  proc[c].target = proc[d].target
    <2>1. "done" \in Sure /\ c \in Procs /\ d \in Procs
      BY DEF Sure, Procs
    <2>2. Whole(owner, proc[c].listing, proc[c].target) /\ Whole(owner, proc[c].listing, proc[d].target)
      BY <1>1, <2>1 DEF SureOfTheirs
    <2>3. proc[c].listing \in Listings
      BY <1>1 DEF IdentityTyped, Aimed
    <2>4. PICK a \in AliasesOf[proc[c].listing] : TRUE
      BY <2>3, AliasFacts
    <2> QED BY <2>2, <2>4 DEF Whole
  <1> QED BY <1>1 DEF DecidedForOne

LEMMA SureAtFirst ==
  ASSUME IdentityAssumption, IdentityInit PROVE ResolvingInv
  <1>1. \A p \in Procs : proc[p].pc \notin Sure
    BY IdentityAtFirst DEF Sure
  <1>2. \A l \in Listings : doubt[l].state = "none"
    BY DEF IdentityInit, NoDoubt
  <1> QED BY <1>1, <1>2, IdentityAtFirst DEF ResolvingInv, IdentityInv, SureOfOne, SureOfTheirs

LEMMA IdentityStep ==
  ASSUME IdentityAssumption, IdentityInv, IdentityNext
  PROVE  IdentityInv' /\ LinkedOnly
  <1>1. PICK p \in Procs : StepDoes(p)
    BY StepsDo DEF IdentityInv
  <1> QED BY <1>1, FoundKept, SureOfOneKept DEF IdentityInv, StepDoes

LEMMA IdentityStutters ==
  ASSUME UNCHANGED identityVars PROVE (IdentityInv => IdentityInv') /\ (SureOfTheirs => SureOfTheirs') /\ LinkedOnly
  <1>1. IdentityInv => IdentityInv'
    BY DEF identityVars, IdentityInv, IdentityTyped, EveryDealIsFound, Active, SureOfOne
  <1>2. SureOfTheirs => SureOfTheirs'
    BY DEF identityVars, SureOfTheirs
  <1> QED BY <1>1, <1>2, NothingLinked DEF identityVars

LEMMA ResolvingAlways == ASSUME IdentityAssumption PROVE IdentitySpec => []ResolvingInv
  <1>1. IdentityInit => ResolvingInv
    BY SureAtFirst
  <1>2. ResolvingInv /\ [IdentityNext]_identityVars => ResolvingInv'
    <2>1. ASSUME ResolvingInv, IdentityNext PROVE ResolvingInv'
      <3>1. PICK p \in Procs : StepDoes(p)
        BY <2>1, StepsDo DEF ResolvingInv, IdentityInv
      <3>2. SureOfTheirs'
        BY <2>1, <3>1, SureOfTheirsKept DEF ResolvingInv, IdentityInv
      <3> QED BY <2>1, <3>2, IdentityStep DEF ResolvingInv
    <2>2. ASSUME ResolvingInv, UNCHANGED identityVars PROVE ResolvingInv'
      BY <2>2, IdentityStutters DEF ResolvingInv
    <2> QED BY <2>1, <2>2
  <1> QED BY <1>1, <1>2, PTL DEF IdentitySpec

(* AliasOwners, opportunities, exceptions and the calls of resolution hold values *)
(* of their kinds, however many passes and decisions run at once.            *)
THEOREM IdentityTypeCorrect == ASSUME IdentityAssumption PROVE IdentitySpec => []IdentityTypeOK
  <1>1. ResolvingInv => IdentityTypeOK
    BY TypedIsTypeOK DEF ResolvingInv, IdentityInv
  <1> QED BY <1>1, ResolvingAlways, PTL

(* However passes, linkings and decisions interleave, no current opportunity *)
(* is without an alias and no alias leads to one that is not current         *)
(* (createDealHunterOpportunityWithAliases, linkDealHunterOpportunity-       *)
(* Aliases).                                                                 *)
THEOREM DealsAreAlwaysFound == ASSUME IdentityAssumption PROVE IdentitySpec => []EveryDealIsFound
  <1>1. ResolvingInv => EveryDealIsFound
    BY DEF ResolvingInv, IdentityInv
  <1> QED BY <1>1, ResolvingAlways, PTL

(* The aliases of a listing that was found or decided lead to one            *)
(* opportunity from then on (resolveDealHunterOpportunity,                   *)
(* resolveCimIdentityException).                                             *)
THEOREM ListingsStayTogether == ASSUME IdentityAssumption PROVE IdentitySpec => []ResolvedTogether
  <1>1. ResolvingInv => ResolvedTogether
    BY SureIsTogether DEF ResolvingInv, IdentityInv
  <1> QED BY <1>1, ResolvingAlways, PTL

(* Two administrators whose decisions on a listing were both reported done   *)
(* decided for the same opportunity (resolveCimIdentityException).           *)
THEOREM DecisionsAgree == ASSUME IdentityAssumption PROVE IdentitySpec => []DecidedForOne
  <1>1. ResolvingInv => DecidedForOne
    BY TheirsIsForOne DEF ResolvingInv, IdentityInv
  <1> QED BY <1>1, ResolvingAlways, PTL

-----------------------------------------------------------------------------
(* The merge                                                                *)

Plans == [aliases : UNION {[A -> {Survivor, Loser}] : A \in SUBSET Aliases},
          survivor : OpportunityRows, loser : OpportunityRows, doubt : DoubtRows, dependents : Nat]
Bundles == [plannable : BOOLEAN, pair : Plans, paused : BOOLEAN, epoch : Nat, sent : Nat]
ApplyPcs == {"idle", "verify", "merge", "applied", "already", "refused"}
ApplyRows == [pc : ApplyPcs, plan : Plans \cup {None}, backup : Bundles \cup {None}, epoch : Nat]

MergeTyped ==
  /\ outreach \in [paused : BOOLEAN, epoch : 0..MaxPauses, sent : 0..MaxSends, pair : 0..MaxSends]
  /\ outreach.pair <= outreach.sent
  /\ granting \in BOOLEAN
  /\ plan \in Plans \cup {None}
  /\ backups \subseteq Bundles /\ IsFiniteSet(backups) /\ Cardinality(backups) <= MaxBackups
  /\ apply \in [Applies -> ApplyRows]

(* A bundle made in the pause of this moment tells what was sent so far.      *)
BundlesTell ==
  \A b \in backups :
    /\ b.epoch <= outreach.epoch
    /\ b.epoch = outreach.epoch /\ b.paused => outreach.paused /\ b.sent = outreach.sent
(* A call works with a bundle there is, and merges from one it verified.      *)
VerifiedFirst ==
  \A c \in Applies :
    /\ apply[c].pc \in {"verify", "merge"} => apply[c].backup \in backups
    /\ apply[c].pc = "merge" => Reproduces(apply[c].backup, apply[c].plan, apply[c].epoch)

MergeInv == IdentityInv /\ MergeTyped /\ BundlesTell /\ VerifiedFirst /\ MergeLasts /\ MergeCanBeUndone

LEMMA PairIsAPlan == ASSUME MergeAssumption, IdentityTyped, MergeTyped PROVE Pair \in Plans
  <1> DEFINE A == {b \in Aliases : owner[b] \in {Survivor, Loser}}
             f == [a \in A |-> owner[a]]
  <1>1. A \in SUBSET Aliases /\ f \in [A -> {Survivor, Loser}]
    OBVIOUS
  <1> HIDE DEF A, f
  <1>2. f \in UNION {[B -> {Survivor, Loser}] : B \in SUBSET Aliases}
    BY <1>1
  <1>3. opp[Survivor] \in OpportunityRows /\ opp[Loser] \in OpportunityRows /\ doubt[Shared] \in DoubtRows
    BY DEF MergeAssumption, IdentityAssumption, IdentityTyped
  <1>4. Dependents \in Nat
    BY DEF Dependents, MergeTyped
  <1> QED BY <1>2, <1>3, <1>4 DEF Pair, Plans, A, f

LEMMA MergeAtFirst == ASSUME MergeAssumption, MergeInit PROVE MergeInv
  <1>1. IdentityInv
    BY SureAtFirst DEF MergeAssumption, MergeInit, ResolvingInv
  <1>2. MergeTyped
    <2>1. IsFiniteSet(backups) /\ Cardinality(backups) = 0
      BY FS_EmptySet DEF MergeInit
    <2>2. apply \in [Applies -> ApplyRows]
      BY DEF MergeInit, NotStarted, ApplyRows, ApplyPcs
    <2>3. outreach \in [paused : BOOLEAN, epoch : 0..MaxPauses, sent : 0..MaxSends, pair : 0..MaxSends]
      BY DEF MergeInit, MergeAssumption
    <2>4. granting \in BOOLEAN /\ plan = None /\ backups = {}
      BY DEF MergeInit
    <2>5. outreach.pair <= outreach.sent /\ 0 <= MaxBackups
      BY DEF MergeInit, MergeAssumption
    <2> QED BY <2>1, <2>2, <2>3, <2>4, <2>5 DEF MergeTyped
  <1>3. BundlesTell /\ VerifiedFirst
    BY DEF MergeInit, BundlesTell, VerifiedFirst, NotStarted
  <1> QED BY <1>1, <1>2, <1>3 DEF MergeInit, MergeInv, MergeLasts, MergeCanBeUndone

(* A step of the server with listings leaves a merge as it is.                *)
LEMMA MergeLastsKept ==
  ASSUME MergeAssumption, IdentityInv, LinkedOnly, UNCHANGED manifest, MergeLasts PROVE MergeLasts'
  <1> SUFFICES ASSUME manifest # None PROVE MergeLasts'
    BY DEF MergeLasts
  <1>1. /\ opp[Loser].status = "superseded" /\ Active(Survivor)
        /\ \A a \in DOMAIN Approved : owner[a] = Survivor
        /\ \A a \in Aliases : owner[a] # Loser
    BY DEF MergeLasts
  <1>2. Survivor \in Opps /\ Loser \in Opps /\ Survivor # None /\ DOMAIN Approved \subseteq Aliases
    BY AliasFacts DEF MergeAssumption, IdentityAssumption, Approved
  <1>3. opp'[Loser].status = "superseded" /\ Active(Survivor)'
    BY <1>1, <1>2 DEF LinkedOnly, Active
  <1>4. \A a \in DOMAIN Approved : owner'[a] = Survivor
    BY <1>1, <1>2 DEF LinkedOnly
  <1>5. ASSUME NEW a \in Aliases PROVE owner'[a] # Loser
    BY <1>1, <1>3 DEF LinkedOnly
  <1> QED BY <1>3, <1>4, <1>5 DEF MergeLasts

LEMMA RowSuperseded ==
  ASSUME NEW r \in OpportunityRows
  PROVE  /\ [r EXCEPT !.status = "superseded", !.rev = r.rev + 1] \in OpportunityRows
         /\ [r EXCEPT !.status = "superseded", !.rev = r.rev + 1].status = "superseded"
  <1> DEFINE q == [r EXCEPT !.status = "superseded"]
  <1>1. q \in OpportunityRows /\ q.status = "superseded" /\ r.rev + 1 \in Nat
    BY DEF OpportunityRows
  <1>2. [r EXCEPT !.status = "superseded", !.rev = r.rev + 1] = [q EXCEPT !.rev = r.rev + 1]
    BY DEF OpportunityRows
  <1> HIDE DEF q
  <1>3. [q EXCEPT !.rev = r.rev + 1] \in OpportunityRows /\ [q EXCEPT !.rev = r.rev + 1].status = q.status
    BY <1>1 DEF OpportunityRows
  <1> QED BY <1>1, <1>2, <1>3

(* Merging moves every alias of the superseded opportunity.                   *)
LEMMA MergeMoves ==
  ASSUME MergeAssumption, IdentityInv, NEW c \in Applies, Merge(c)
  PROVE  IdentityInv' /\ MergeLasts'
  <1>0. /\ Survivor \in Opps /\ Loser \in Opps /\ Survivor # Loser /\ None \notin {Survivor, Loser}
        /\ Shared \in Listings /\ DOMAIN Approved \subseteq Aliases /\ IdentityAssumption
        /\ AliasesOf[Shared] \subseteq DOMAIN Approved
    BY AliasFacts DEF MergeAssumption, IdentityAssumption, Approved
  <1>1. /\ owner' = [a \in Aliases |-> IF owner[a] = Loser THEN Survivor ELSE owner[a]]
        /\ opp' = [opp EXCEPT ![Loser].status = "superseded", ![Loser].rev = @ + 1]
        /\ doubt' = Resolved(Shared, "merge", Survivor) /\ proc' = proc
    BY DEF Merge, AliasesMoved
  <1>2. Active(Survivor) /\ Active(Loser)
    BY DEF Merge, StillAsReviewed, Plannable, DealsAsApproved
  <1>3. \A a \in DOMAIN Approved : owner'[a] = Survivor
    BY DEF Merge, AliasesSettled
  <1>4. /\ opp' \in [Opps -> OpportunityRows] /\ opp'[Loser].status = "superseded"
        /\ \A o \in Opps \ {Loser} : opp'[o] = opp[o]
    <2> DEFINE gone == [opp[Loser] EXCEPT !.status = "superseded", !.rev = @ + 1]
    <2>0. opp[Loser] \in OpportunityRows
      BY <1>0 DEF IdentityInv, IdentityTyped
    <2>1. gone \in OpportunityRows /\ gone.status = "superseded"
      BY <2>0, RowSuperseded
    <2>2. opp' = [opp EXCEPT ![Loser] = gone]
      BY <1>0, <1>1 DEF IdentityInv, IdentityTyped
    <2> HIDE DEF gone
    <2> QED BY <1>0, <2>1, <2>2 DEF IdentityInv, IdentityTyped
  <1>5. /\ doubt' \in [Listings -> DoubtRows]
        /\ \A l \in Listings : doubt'[l].state = "resolved" => doubt[l].state = "resolved" \/ l = Shared
    <2>1. doubt' = [doubt EXCEPT ![Shared] = [state |-> "resolved", by |-> "merge", to |-> Survivor, rev |-> doubt[Shared].rev + 1]]
      BY <1>1 DEF Resolved
    <2> QED BY <1>0, <2>1, DoubtRowsAre DEF IdentityInv
  <1>6. IdentityTyped'
    BY <1>0, <1>1, <1>4, <1>5 DEF IdentityInv, IdentityTyped
  <1>7. EveryDealIsFound'
    <2>1. ASSUME NEW o \in Opps, Active(o)' PROVE \E a \in Aliases : owner'[a] = o
      <3>1. o # Loser /\ Active(o)
        BY <2>1, <1>4 DEF Active
      <3>2. PICK a \in Aliases : owner[a] = o
        BY <3>1 DEF IdentityInv, EveryDealIsFound
      <3> QED BY <3>1, <3>2, <1>1
    <2>2. ASSUME NEW a \in Aliases, owner'[a] # None PROVE opp'[owner'[a]].status = "active"
      <3>1. owner'[a] \in Opps /\ owner'[a] # Loser /\ opp[owner'[a]].status = "active"
        BY <1>0, <1>1, <1>2, <2>2 DEF IdentityInv, IdentityTyped, EveryDealIsFound, Active
      <3> QED BY <3>1, <1>4
    <2> QED BY <2>1, <2>2 DEF EveryDealIsFound, Active
  <1>8. SureOfOne'
    <2>1. ASSUME NEW l \in Listings, \E o \in Opps : Whole(owner, l, o) PROVE \E o \in Opps : Whole(owner', l, o)
      <3>1. PICK o \in Opps : Whole(owner, l, o)
        BY <2>1
      <3>2. Whole(owner', l, IF o = Loser THEN Survivor ELSE o)
        BY <1>1, <3>1, <1>0, AliasFacts DEF Whole
      <3> QED BY <1>0, <3>2
    <2>2. Whole(owner', Shared, Survivor)
      BY <1>0, <1>3 DEF Whole
    <2>3. ASSUME NEW p \in Procs, proc'[p].pc \in Sure PROVE \E o \in Opps : Whole(owner', proc'[p].listing, o)
      <3>1. proc[p].pc \in Sure /\ proc'[p] = proc[p]
        BY <1>1, <2>3
      <3>2. proc[p].listing \in Listings
        BY <3>1 DEF IdentityInv, IdentityTyped, Procs, Aimed, Sure
      <3> QED BY <2>1, <3>1, <3>2 DEF IdentityInv, SureOfOne
    <2>4. ASSUME NEW l \in Listings, doubt'[l].state = "resolved" PROVE \E o \in Opps : Whole(owner', l, o)
      BY <1>0, <1>5, <2>1, <2>2, <2>4 DEF IdentityInv, SureOfOne
    <2> QED BY <2>3, <2>4 DEF SureOfOne
  <1>9. MergeLasts'
    <2>1. Active(Survivor)'
      BY <1>0, <1>2, <1>4 DEF Active
    <2>2. \A a \in Aliases : owner'[a] # Loser
      BY <1>0, <1>1
    <2> QED BY <1>3, <1>4, <2>1, <2>2 DEF MergeLasts
  <1> QED BY <1>6, <1>7, <1>8, <1>9 DEF IdentityInv

LEMMA ApplyTurn ==
  ASSUME MergeTyped, NEW c \in Applies, NEW r \in ApplyRows, apply' = [apply EXCEPT ![c] = r]
  PROVE  /\ apply' \in [Applies -> ApplyRows] /\ apply'[c] = r
         /\ \A d \in Applies \ {c} : apply'[d] = apply[d]
  BY DEF MergeTyped

LEMMA ApplyGoes ==
  ASSUME MergeTyped, NEW c \in Applies, NEW pc \in ApplyPcs, apply' = [apply EXCEPT ![c].pc = pc]
  PROVE  /\ apply' \in [Applies -> ApplyRows] /\ apply'[c] = [apply[c] EXCEPT !.pc = pc]
         /\ apply'[c].pc = pc /\ apply'[c].plan = apply[c].plan /\ apply'[c].backup = apply[c].backup
         /\ apply'[c].epoch = apply[c].epoch
         /\ \A d \in Applies \ {c} : apply'[d] = apply[d]
  <1> DEFINE r == [apply[c] EXCEPT !.pc = pc]
  <1>1. apply[c] \in ApplyRows
    BY DEF MergeTyped
  <1>2. /\ r \in ApplyRows /\ r.pc = pc /\ r.plan = apply[c].plan /\ r.backup = apply[c].backup
        /\ r.epoch = apply[c].epoch
    BY <1>1 DEF ApplyRows
  <1>3. apply' = [apply EXCEPT ![c] = r]
    OBVIOUS
  <1> HIDE DEF r
  <1>4. apply' \in [Applies -> ApplyRows] /\ apply'[c] = r /\ \A d \in Applies \ {c} : apply'[d] = apply[d]
    BY <1>2, <1>3, ApplyTurn
  <1> QED BY <1>2, <1>4 DEF r

(* What the other steps leave alone                                           *)
LEMMA IdentityRests ==
  ASSUME MergeAssumption, MergeInv, UNCHANGED <<identityVars, manifest>>
  PROVE  IdentityInv' /\ MergeLasts' /\ MergeCanBeUndone'
  <1>1. IdentityInv' /\ LinkedOnly
    BY IdentityStutters DEF MergeInv
  <1>2. MergeLasts'
    BY <1>1, MergeLastsKept DEF MergeInv
  <1> QED BY <1>1, <1>2 DEF MergeInv, MergeCanBeUndone

LEMMA DryRunKeeps == ASSUME MergeAssumption, MergeInv, DryRun PROVE MergeInv'
  <1>1. IdentityInv' /\ MergeLasts' /\ MergeCanBeUndone'
    BY IdentityRests DEF DryRun
  <1>2. Pair \in Plans
    BY PairIsAPlan DEF MergeInv, IdentityInv
  <1>3. MergeTyped' /\ BundlesTell' /\ VerifiedFirst'
    BY <1>2 DEF DryRun, MergeInv, MergeTyped, BundlesTell, VerifiedFirst
  <1> QED BY <1>1, <1>3 DEF MergeInv

LEMMA BackupKeeps == ASSUME MergeAssumption, MergeInv, Backup PROVE MergeInv'
  <1>1. IdentityInv' /\ MergeLasts' /\ MergeCanBeUndone'
    BY IdentityRests DEF Backup
  <1>2. Pair \in Plans
    BY PairIsAPlan DEF MergeInv, IdentityInv
  <1> DEFINE b == [plannable |-> Plannable, pair |-> Pair, paused |-> outreach.paused,
                   epoch |-> outreach.epoch, sent |-> outreach.sent]
  <1>3. /\ backups' = backups \cup {b} /\ Cardinality(backups) < MaxBackups
        /\ UNCHANGED <<outreach, granting, plan, manifest, apply>>
    BY DEF Backup
  <1>4. Plannable \in BOOLEAN
    BY DEF Plannable, DealsAsApproved, ExceptionAsApproved, AliasesAsApproved, DependentsAsApproved,
           NothingGrants, NoManifest, Active
  <1>5. /\ b \in Bundles /\ b.epoch = outreach.epoch /\ b.paused = outreach.paused /\ b.sent = outreach.sent
    <2>1. outreach.paused \in BOOLEAN /\ outreach.epoch \in Nat /\ outreach.sent \in Nat
      BY DEF MergeInv, MergeTyped
    <2> QED BY <1>2, <1>4, <2>1 DEF Bundles
  <1> HIDE DEF b
  <1>6. IsFiniteSet(backups') /\ Cardinality(backups') <= MaxBackups /\ backups' \subseteq Bundles
    <2>1. IsFiniteSet(backups) /\ MaxBackups \in Nat
      BY DEF MergeInv, MergeTyped, MergeAssumption
    <2>2. /\ IsFiniteSet(backups \cup {b}) /\ Cardinality(backups) \in Nat
          /\ Cardinality(backups \cup {b}) \in {Cardinality(backups), Cardinality(backups) + 1}
      BY <2>1, FS_AddElement, FS_CardinalityType
    <2> QED BY <1>3, <1>5, <2>1, <2>2 DEF MergeInv, MergeTyped
  <1>7. MergeTyped'
    BY <1>3, <1>6 DEF MergeInv, MergeTyped
  <1>8. BundlesTell'
    <2>1. outreach.epoch \in Nat
      BY DEF MergeInv, MergeTyped
    <2> QED BY <1>3, <1>5, <2>1 DEF MergeInv, BundlesTell
  <1>9. VerifiedFirst'
    BY <1>3 DEF MergeInv, VerifiedFirst
  <1> QED BY <1>1, <1>7, <1>8, <1>9 DEF MergeInv

LEMMA StartKeeps == ASSUME MergeAssumption, MergeInv, NEW c \in Applies, Start(c) PROVE MergeInv'
  <1>1. IdentityInv' /\ MergeLasts' /\ MergeCanBeUndone'
    BY IdentityRests DEF Start
  <1>2. PICK b \in backups :
          apply' = [apply EXCEPT ![c] = [pc |-> "verify", plan |-> plan, backup |-> b, epoch |-> outreach.epoch]]
    BY DEF Start
  <1> DEFINE r == [pc |-> "verify", plan |-> plan, backup |-> b, epoch |-> outreach.epoch]
  <1>3. r \in ApplyRows /\ r.pc = "verify" /\ r.backup = b
    <2>1. plan \in Plans \cup {None} /\ b \in Bundles /\ outreach.epoch \in Nat
      BY DEF MergeInv, MergeTyped
    <2> QED BY <2>1 DEF ApplyRows, ApplyPcs
  <1>4. apply' = [apply EXCEPT ![c] = r] /\ UNCHANGED <<outreach, granting, plan, backups, manifest>>
    BY <1>2 DEF Start
  <1> HIDE DEF r
  <1>5. apply' \in [Applies -> ApplyRows] /\ apply'[c] = r /\ \A d \in Applies \ {c} : apply'[d] = apply[d]
    BY <1>3, <1>4, ApplyTurn DEF MergeInv
  <1>6. MergeTyped' /\ BundlesTell'
    BY <1>4, <1>5 DEF MergeInv, MergeTyped, BundlesTell
  <1>7. VerifiedFirst'
    BY <1>3, <1>4, <1>5 DEF MergeInv, VerifiedFirst
  <1> QED BY <1>1, <1>6, <1>7 DEF MergeInv

(* A call that moves on; it merges from a bundle that reproduces the plan.    *)
LEMMA ApplyKeeps ==
  ASSUME MergeAssumption, MergeInv, NEW c \in Applies, NEW pc \in ApplyPcs \ {"verify"},
         apply' = [apply EXCEPT ![c].pc = pc], UNCHANGED <<outreach, granting, plan, backups>>,
         pc = "merge" => /\ apply[c].backup \in backups
                         /\ Reproduces(apply[c].backup, apply[c].plan, apply[c].epoch)
  PROVE  MergeTyped' /\ BundlesTell' /\ VerifiedFirst'
  <1>1. /\ apply' \in [Applies -> ApplyRows] /\ apply'[c].pc = pc /\ apply'[c].plan = apply[c].plan
        /\ apply'[c].backup = apply[c].backup /\ apply'[c].epoch = apply[c].epoch
        /\ \A d \in Applies \ {c} : apply'[d] = apply[d]
    BY ApplyGoes DEF MergeInv
  <1>2. MergeTyped' /\ BundlesTell'
    BY <1>1 DEF MergeInv, MergeTyped, BundlesTell
  <1>3. VerifiedFirst'
    BY <1>1 DEF MergeInv, VerifiedFirst, Reproduces
  <1> QED BY <1>2, <1>3

LEMMA VerifyKeeps == ASSUME MergeAssumption, MergeInv, NEW c \in Applies, Verify(c) PROVE MergeInv'
  <1>1. IdentityInv' /\ MergeLasts' /\ MergeCanBeUndone'
    BY IdentityRests DEF Verify
  <1> DEFINE pc == IF Reproduces(apply[c].backup, apply[c].plan, apply[c].epoch) THEN "merge" ELSE "refused"
  <1>2. pc \in ApplyPcs \ {"verify"} /\ (pc = "merge" => Reproduces(apply[c].backup, apply[c].plan, apply[c].epoch))
    BY DEF ApplyPcs
  <1>3. apply[c].backup \in backups /\ apply' = [apply EXCEPT ![c].pc = pc] /\ UNCHANGED <<outreach, granting, plan, backups>>
    BY DEF Verify, MergeInv, VerifiedFirst
  <1> HIDE DEF pc
  <1>4. MergeTyped' /\ BundlesTell' /\ VerifiedFirst'
    BY <1>2, <1>3, ApplyKeeps
  <1> QED BY <1>1, <1>4 DEF MergeInv

LEMMA MergeKeeps == ASSUME MergeAssumption, MergeInv, NEW c \in Applies, Merge(c) PROVE MergeInv'
  <1>1. IdentityInv' /\ MergeLasts'
    BY MergeMoves DEF MergeInv
  <1>2. "applied" \in ApplyPcs \ {"verify"} /\ "applied" # "merge"
    BY DEF ApplyPcs
  <1>3. apply' = [apply EXCEPT ![c].pc = "applied"] /\ UNCHANGED <<outreach, granting, plan, backups>>
    BY DEF Merge
  <1>4. MergeTyped' /\ BundlesTell' /\ VerifiedFirst'
    BY <1>2, <1>3, ApplyKeeps
  <1>5. MergeCanBeUndone'
    <2> DEFINE b == apply[c].backup
    <2>1. b \in backups /\ Reproduces(b, apply[c].plan, apply[c].epoch)
      BY DEF Merge, MergeInv, VerifiedFirst
    <2>2. Pair = apply[c].plan /\ outreach.paused /\ outreach.epoch = apply[c].epoch
      BY DEF Merge, StillPaused, StillAsReviewed
    <2>3. b.pair = Pair /\ b.epoch = outreach.epoch /\ b.paused
      BY <2>1, <2>2 DEF Reproduces
    <2>4. b.sent = outreach.sent
      BY <2>1, <2>3 DEF MergeInv, BundlesTell
    <2>5. manifest' = [plan |-> apply[c].plan, before |-> Pair, backup |-> b, sent |-> outreach.sent]
      BY DEF Merge
    <2> HIDE DEF b
    <2> QED BY <2>3, <2>4, <2>5 DEF MergeCanBeUndone
  <1> QED BY <1>1, <1>4, <1>5 DEF MergeInv

LEMMA ReplayOrRefuseKeeps ==
  ASSUME MergeAssumption, MergeInv, NEW c \in Applies, Replay(c) \/ Refuse(c) PROVE MergeInv'
  <1>1. UNCHANGED <<identityVars, manifest>> /\ UNCHANGED <<outreach, granting, plan, backups>>
    BY DEF Replay, Refuse
  <1>2. IdentityInv' /\ MergeLasts' /\ MergeCanBeUndone'
    BY <1>1, IdentityRests
  <1>3. PICK pc \in {"already", "refused"} : apply' = [apply EXCEPT ![c].pc = pc]
    BY DEF Replay, Refuse
  <1>4. pc \in ApplyPcs \ {"verify"} /\ pc # "merge"
    BY DEF ApplyPcs
  <1>5. MergeTyped' /\ BundlesTell' /\ VerifiedFirst'
    BY <1>1, <1>3, <1>4, ApplyKeeps
  <1> QED BY <1>2, <1>5 DEF MergeInv

(* Changing the pause is a new epoch; outreach starts while nothing is paused.*)
LEMMA OutreachKeeps ==
  ASSUME MergeAssumption, MergeInv, (\E on \in BOOLEAN : SetPause(on)) \/ (\E mine \in BOOLEAN : Send(mine))
  PROVE  MergeInv'
  <1>0. UNCHANGED <<identityVars, granting, plan, backups, manifest, apply>>
    BY DEF SetPause, Send
  <1>1. IdentityInv' /\ MergeLasts' /\ MergeCanBeUndone'
    BY <1>0, IdentityRests
  <1>2. /\ outreach.paused \in BOOLEAN /\ outreach.epoch \in 0..MaxPauses /\ outreach.sent \in 0..MaxSends
        /\ outreach.pair \in 0..MaxSends /\ outreach.pair <= outreach.sent
        /\ MaxPauses \in Nat /\ MaxSends \in Nat
        /\ outreach \in [paused : BOOLEAN, epoch : 0..MaxPauses, sent : 0..MaxSends, pair : 0..MaxSends]
    BY DEF MergeInv, MergeTyped, MergeAssumption
  <1>3. \A b \in backups : b.epoch \in Nat /\ b.paused \in BOOLEAN
    BY DEF MergeInv, MergeTyped, Bundles
  <1>4. VerifiedFirst'
    BY <1>0 DEF MergeInv, VerifiedFirst
  <1>5. CASE \E on \in BOOLEAN : SetPause(on)
    <2>1. PICK on \in BOOLEAN : SetPause(on)
      BY <1>5
    <2>2. outreach' = [outreach EXCEPT !.paused = on, !.epoch = outreach.epoch + 1] /\ outreach.epoch < MaxPauses
      BY <2>1 DEF SetPause
    <2>3. /\ outreach' \in [paused : BOOLEAN, epoch : 0..MaxPauses, sent : 0..MaxSends, pair : 0..MaxSends]
          /\ outreach'.epoch = outreach.epoch + 1 /\ outreach'.pair = outreach.pair /\ outreach'.sent = outreach.sent
      <3>1. outreach' = [paused |-> on, epoch |-> outreach.epoch + 1, sent |-> outreach.sent, pair |-> outreach.pair]
        BY <1>2, <2>2
      <3> QED BY <1>2, <2>2, <3>1
    <2>4. MergeTyped'
      BY <1>0, <1>2, <2>3 DEF MergeInv, MergeTyped
    <2>5. BundlesTell'
      BY <1>0, <1>2, <1>3, <2>3 DEF MergeInv, BundlesTell
    <2> QED BY <1>1, <1>4, <2>4, <2>5 DEF MergeInv
  <1>6. CASE \E mine \in BOOLEAN : Send(mine)
    <2>1. PICK mine \in BOOLEAN : Send(mine)
      BY <1>6
    <2>2. /\ ~outreach.paused /\ outreach.sent < MaxSends
          /\ outreach' = [outreach EXCEPT !.sent = outreach.sent + 1, !.pair = IF mine THEN outreach.pair + 1 ELSE outreach.pair]
      BY <2>1 DEF Send
    <2>3. /\ outreach' \in [paused : BOOLEAN, epoch : 0..MaxPauses, sent : 0..MaxSends, pair : 0..MaxSends]
          /\ outreach'.epoch = outreach.epoch /\ outreach'.pair <= outreach'.sent /\ outreach'.paused = outreach.paused
      <3>1. PICK n : n = IF mine THEN outreach.pair + 1 ELSE outreach.pair
        OBVIOUS
      <3>2. n \in 0..MaxSends /\ n <= outreach.sent + 1
        BY <1>2, <2>2, <3>1
      <3>3. outreach' = [paused |-> outreach.paused, epoch |-> outreach.epoch, sent |-> outreach.sent + 1, pair |-> n]
        BY <1>2, <2>2, <3>1
      <3> QED BY <1>2, <2>2, <3>2, <3>3
    <2>4. MergeTyped'
      BY <1>0, <2>3 DEF MergeInv, MergeTyped
    <2>5. BundlesTell'
      BY <1>0, <2>2, <2>3 DEF MergeInv, BundlesTell
    <2> QED BY <1>1, <1>4, <2>4, <2>5 DEF MergeInv
  <1> QED BY <1>5, <1>6

LEMMA ServerKeeps ==
  ASSUME MergeAssumption, MergeInv, [IdentityNext]_identityVars, UNCHANGED <<outreach, plan, backups, manifest, apply>>,
         granting' \in BOOLEAN
  PROVE  MergeInv'
  <1>1. IdentityInv' /\ LinkedOnly
    BY IdentityStep, IdentityStutters DEF MergeInv, MergeAssumption
  <1>2. MergeLasts'
    BY <1>1, MergeLastsKept DEF MergeInv
  <1>3. MergeTyped' /\ BundlesTell' /\ VerifiedFirst' /\ MergeCanBeUndone'
    BY DEF MergeInv, MergeTyped, BundlesTell, VerifiedFirst, MergeCanBeUndone
  <1> QED BY <1>1, <1>2, <1>3 DEF MergeInv

LEMMA MergeAlways == ASSUME MergeAssumption PROVE MergeSpec => []MergeInv
  <1>1. MergeInit => MergeInv
    BY MergeAtFirst
  <1>2. MergeInv /\ [MergeNext]_vars => MergeInv'
    <2> SUFFICES ASSUME MergeInv, [MergeNext]_vars PROVE MergeInv'
      OBVIOUS
    <2>1. CASE UNCHANGED vars
      <3>1. UNCHANGED identityVars /\ UNCHANGED <<outreach, plan, backups, manifest, apply, granting>>
        BY <2>1 DEF vars, mergeVars
      <3> QED BY <3>1, ServerKeeps DEF MergeInv, MergeTyped
    <2>2. CASE IdentityNext /\ UNCHANGED mergeVars
      <3>1. UNCHANGED <<outreach, plan, backups, manifest, apply, granting>>
        BY <2>2 DEF mergeVars
      <3> QED BY <2>2, <3>1, ServerKeeps DEF MergeInv, MergeTyped
    <2>3. CASE \E on \in BOOLEAN : Grant(on)
      <3>1. UNCHANGED identityVars /\ UNCHANGED <<outreach, plan, backups, manifest, apply>> /\ granting' \in BOOLEAN
        BY <2>3 DEF Grant
      <3> QED BY <3>1, ServerKeeps
    <2>4. CASE \E c \in Applies : ApplyStep(c)
      BY <2>4, StartKeeps, VerifyKeeps, MergeKeeps, ReplayOrRefuseKeeps DEF ApplyStep
    <2> QED BY <2>1, <2>2, <2>3, <2>4, DryRunKeeps, BackupKeeps, OutreachKeeps DEF MergeNext
  <1> QED BY <1>1, <1>2, PTL DEF MergeSpec

(* The rows of resolution and of the repair beside it keep their kinds, and  *)
(* the backups stay within their bound.                                      *)
THEOREM MergeTypeCorrect == ASSUME MergeAssumption PROVE MergeSpec => []MergeTypeOK
  <1>1. MergeInv => MergeTypeOK
    <2>1. MergeTyped => \A c \in Applies : apply[c].pc \in ApplyPcs
      BY DEF MergeTyped, ApplyRows
    <2> QED BY <2>1, TypedIsTypeOK DEF MergeInv, IdentityInv, MergeTyped, MergeTypeOK, ApplyPcs
  <1> QED BY <1>1, MergeAlways, PTL

(* Once merged, the loser stays superseded and every alias of the pair leads *)
(* to the survivor, also for calls that began before the merge               *)
(* (applyDealHunterCanonicalOpportunityMerge).                               *)
THEOREM MergedForGood == ASSUME MergeAssumption PROVE MergeSpec => []MergeLasts
  <1>1. MergeInv => MergeLasts
    BY DEF MergeInv
  <1> QED BY <1>1, MergeAlways, PTL

(* The backup that the manifest names holds the pair as the merge found it,  *)
(* and nothing was sent between the two (verifyDealHunterCanonical-          *)
(* OpportunityMergeBackupPlan).                                              *)
THEOREM MergeIsReversible == ASSUME MergeAssumption PROVE MergeSpec => []MergeCanBeUndone
  <1>1. MergeInv => MergeCanBeUndone
    BY DEF MergeInv
  <1> QED BY <1>1, MergeAlways, PTL

(* What resolution promises without a merge it promises beside one as well:  *)
(* current opportunities are found and resolved listings stay together.      *)
THEOREM MergedDealsAreFound == ASSUME MergeAssumption PROVE MergeSpec => [](EveryDealIsFound /\ ResolvedTogether)
  <1>1. MergeInv => EveryDealIsFound /\ ResolvedTogether
    BY SureIsTogether DEF MergeInv, IdentityInv
  <1> QED BY <1>1, MergeAlways, PTL

-----------------------------------------------------------------------------
(* Of CrmSupersession                                                        *)
CONSTANTS Records, Pairs, Imported, Ours, Campaigns, Writers, Repairs, MaxWrites, MaxReversals
VARIABLES recs, opps, import, rel, pause, receipts, file, writers, repairs, writes

Sup == INSTANCE CrmSupersession

LEMMA SupCounts == \A S : Sup!Cardinality(S) = Cardinality(S)
  BY DEF Sup!Cardinality, Cardinality

RecordSet == [exists : BOOLEAN, direct : Opps \cup {None}, meta : Opps \cup {None},
              ver : 0..MaxWrites, work : BOOLEAN, campaign : BOOLEAN]
OpportunitySet == [active : BOOLEAN, primary : Records \cup {None}]
Databases == [recs : [Records -> RecordSet], opps : [Opps -> OpportunitySet],
              import : Records \cup {None}, rel : [Pairs -> {"none", "active", "reversed"}],
              pause : 0..MaxPauses]
RepairSet == [pc : {"idle", "reviewed", "looked", "verified", "done"},
              plan : Databases \cup {None}, n : 0..MaxBackups]
RecordsTyped == recs \in [Records -> RecordSet] /\ writes \in 0..MaxWrites
                /\ \A r \in Records : recs[r].ver <= writes
RestTyped ==
  /\ opps \in [Opps -> OpportunitySet] /\ import \in Records \cup {None}
  /\ rel \in [Pairs -> {"none", "active", "reversed"}] /\ pause \in 0..MaxPauses
  /\ file \in [copy : Databases \cup {None}, n : 0..MaxBackups]
  /\ repairs \in [Repairs -> RepairSet]
(* A call that has looked has a record. *)
WritersTyped ==
  /\ DOMAIN writers = Writers
  /\ \A w \in Writers : /\ writers[w].pc \in {"idle", "looked"}
                        /\ writers[w].pc = "looked" => writers[w].rec \in Records
SupersessionTyped == RecordsTyped /\ RestTyped /\ WritersTyped

LEMMA PairRows ==
  ASSUME Sup!SupersessionAssumption, NEW p \in Pairs
  PROVE  p.survivor \in Records /\ p.loser \in Records /\ p.opp \in Opps /\ p.survivor \notin Sup!Losers
         /\ p.survivor # p.loser
  BY DEF Sup!SupersessionAssumption, Sup!Losers

LEMMA RepointedIs ==
  ASSUME Sup!SupersessionAssumption
  PROVE  Sup!Repointed \in Records /\ Sup!Repointed \notin Sup!Losers
  <1>1. \E p \in Pairs : p.loser = Imported
    BY DEF Sup!SupersessionAssumption, Sup!Losers
  <1>2. PICK p \in Pairs : p = CHOOSE x \in Pairs : x.loser = Imported
    BY <1>1
  <1> QED BY <1>2, PairRows DEF Sup!Repointed

(* What a handler's write does to the records: the one it looked at, which is not  *)
(* superseded, or another's reference.                                             *)
HandlerWrites(w) == Sup!Edit(w) \/ Sup!Queue(w) \/ Sup!Settle(w) \/ Sup!Delete(w) \/ Sup!Link(w) \/ Sup!MoveImport(w)

LEMMA RecordRow ==
  ASSUME Sup!SupersessionAssumption, NEW c \in RecordSet, NEW n \in 0..MaxWrites,
         NEW m \in Opps \cup {None}, NEW b \in BOOLEAN
  PROVE  /\ [c EXCEPT !.ver = n, !.meta = m] \in RecordSet
         /\ [c EXCEPT !.work = b, !.ver = n] \in RecordSet
         /\ [c EXCEPT !.work = b] \in RecordSet
         /\ [c EXCEPT !.exists = FALSE, !.work = b] \in RecordSet
         /\ [c EXCEPT !.direct = m] \in RecordSet
         /\ [c EXCEPT !.campaign = b] \in RecordSet
  BY DEF RecordSet

LEMMA ConvergedIs ==
  ASSUME RecordsTyped
  PROVE  /\ Sup!Converged \in [Records -> RecordSet]
         /\ \A r \in Records :
              /\ Sup!Converged[r].exists = recs[r].exists /\ Sup!Converged[r].direct = recs[r].direct
              /\ Sup!Converged[r].meta = recs[r].meta /\ Sup!Converged[r].work = recs[r].work
              /\ Sup!Converged[r].ver = recs[r].ver
  <1>1. ASSUME NEW s \in Records PROVE [recs[s] EXCEPT !.campaign = FALSE] \in RecordSet
    BY DEF RecordsTyped, RecordSet
  <1>2. Sup!Converged \in [Records -> RecordSet]
    BY <1>1 DEF Sup!Converged, RecordsTyped
  <1>3. ASSUME NEW r \in Records
        PROVE  /\ Sup!Converged[r].exists = recs[r].exists /\ Sup!Converged[r].direct = recs[r].direct
               /\ Sup!Converged[r].meta = recs[r].meta /\ Sup!Converged[r].work = recs[r].work
               /\ Sup!Converged[r].ver = recs[r].ver
    <2>1. recs[r] \in RecordSet
      BY DEF RecordsTyped
    <2> QED BY <2>1 DEF Sup!Converged, RecordSet
  <1> QED BY <1>2, <1>3

LEMMA DoneTyped ==
  ASSUME Sup!SupersessionAssumption, WritersTyped, NEW w \in Writers, Sup!Done(w)
  PROVE  WritersTyped' /\ writes' = writes + 1
  BY DEF Sup!Done, Sup!Idle, WritersTyped

LEMMA RecordsTypedKept ==
  ASSUME Sup!SupersessionAssumption, SupersessionTyped, [Sup!SupersessionNext]_(Sup!supersessionVars)
  PROVE  RecordsTyped'
  <1> USE DEF SupersessionTyped
  <1>0. /\ MaxWrites \in Nat /\ writes \in 0..MaxWrites
        /\ \A x \in Records : recs[x] \in RecordSet /\ recs[x].ver \in 0..MaxWrites /\ recs[x].ver <= writes
    BY DEF Sup!SupersessionAssumption, RecordsTyped, RecordSet
  <1>1. ASSUME NEW w \in Writers, writers[w].pc = "looked", writes < MaxWrites, writes' = writes + 1,
               NEW d \in RecordSet, d.ver <= recs[writers[w].rec].ver + 1,
               recs' = [recs EXCEPT ![writers[w].rec] = d]
        PROVE  RecordsTyped'
    <2>1. writers[w].rec \in Records
      BY <1>1 DEF WritersTyped
    <2> QED BY <1>0, <1>1, <2>1 DEF RecordsTyped, RecordSet
  <1>2. ASSUME NEW w \in Writers, HandlerWrites(w) PROVE RecordsTyped'
    <2> DEFINE r == writers[w].rec
    <2>a. /\ writers[w].pc = "looked" /\ writes < MaxWrites /\ writes' = writes + 1
      BY <1>2 DEF HandlerWrites, Sup!Edit, Sup!Queue, Sup!Settle, Sup!Delete, Sup!Link, Sup!MoveImport, Sup!Doing, Sup!Done
    <2>b. r \in Records /\ recs[r] \in RecordSet
      BY <2>a, <1>0 DEF WritersTyped
    <2>c. recs[r].meta \in Opps \cup {None}
      BY <2>b DEF RecordSet
    <2>0. /\ r \in Records /\ recs[r] \in RecordSet /\ writers[w].pc = "looked" /\ writes < MaxWrites
          /\ recs[r].ver + 1 \in 0..MaxWrites /\ recs[r].meta \in Opps \cup {None}
          /\ writes' = writes + 1 /\ writes \in Nat /\ recs[r].ver <= writes /\ recs[r].ver \in Nat
      BY <2>a, <2>b, <2>c, <1>0
    <2>1. CASE Sup!Edit(w)
      <3>1. PICK m \in {recs[r].meta, None} : recs' = [recs EXCEPT ![r].ver = @ + 1, ![r].meta = m]
        BY <2>1 DEF Sup!Edit
      <3> DEFINE d == [recs[r] EXCEPT !.ver = @ + 1, !.meta = m]
      <3>2. d \in RecordSet
        BY <2>0, RecordRow
      <3>4. d.ver <= recs[r].ver + 1
        BY <2>0 DEF RecordSet
      <3>3. recs' = [recs EXCEPT ![r] = d]
        BY <3>1, <2>0 DEF RecordsTyped
      <3> QED BY <3>2, <3>3, <3>4, <2>0, <1>1
    <2>2. CASE Sup!Queue(w)
      <3> DEFINE d == [recs[r] EXCEPT !.work = TRUE, !.ver = @ + 1]
      <3>2. d \in RecordSet
        BY <2>0, RecordRow
      <3>4. d.ver <= recs[r].ver + 1
        BY <2>0 DEF RecordSet
      <3>3. recs' = [recs EXCEPT ![r] = d]
        BY <2>2, <2>0 DEF RecordsTyped, Sup!Queue
      <3> QED BY <3>2, <3>3, <3>4, <2>0, <1>1
    <2>3. CASE Sup!Settle(w)
      <3> DEFINE d == [recs[r] EXCEPT !.work = FALSE]
      <3>2. d \in RecordSet
        BY <2>0, RecordRow
      <3>4. d.ver <= recs[r].ver + 1
        BY <2>0 DEF RecordSet
      <3>3. recs' = [recs EXCEPT ![r] = d]
        BY <2>3, <2>0 DEF RecordsTyped, Sup!Settle
      <3> QED BY <3>2, <3>3, <3>4, <2>0, <1>1
    <2>4. CASE Sup!Delete(w)
      <3> DEFINE d == [recs[r] EXCEPT !.exists = FALSE, !.work = FALSE]
      <3>2. d \in RecordSet
        BY <2>0, RecordRow
      <3>4. d.ver <= recs[r].ver + 1
        BY <2>0 DEF RecordSet
      <3>3. recs' = [recs EXCEPT ![r] = d]
        BY <2>4, <2>0 DEF RecordsTyped, Sup!Delete
      <3> QED BY <3>2, <3>3, <3>4, <2>0, <1>1
    <2>5. CASE Sup!Link(w)
      <3>1. PICK o \in Opps : recs' = [recs EXCEPT ![r].direct = o]
        BY <2>5 DEF Sup!Link
      <3> DEFINE d == [recs[r] EXCEPT !.direct = o]
      <3>2. d \in RecordSet
        BY <2>0, RecordRow
      <3>4. d.ver <= recs[r].ver + 1
        BY <2>0 DEF RecordSet
      <3>3. recs' = [recs EXCEPT ![r] = d]
        BY <3>1, <2>0 DEF RecordsTyped
      <3> QED BY <3>2, <3>3, <3>4, <2>0, <1>1
    <2>6. CASE Sup!MoveImport(w)
      <3>1. recs' = recs
        BY <2>6 DEF Sup!MoveImport
      <3> QED BY <3>1, <2>0, <1>0 DEF RecordsTyped
    <2> QED BY <1>2, <2>1, <2>2, <2>3, <2>4, <2>5, <2>6 DEF HandlerWrites
  <1>3. CASE Sup!WriteOpportunity
    <2>1. recs' = recs /\ writes' = writes + 1 /\ writes < MaxWrites
      BY <1>3 DEF Sup!WriteOpportunity
    <2> QED BY <2>1, <1>0 DEF RecordsTyped
  <1>4. ASSUME NEW i \in Repairs, Sup!Apply(i) PROVE RecordsTyped'
    <2>1. recs' = Sup!Converged /\ writes' = writes
      BY <1>4 DEF Sup!Apply
    <2>2. Sup!Converged \in [Records -> RecordSet] /\ \A r \in Records : Sup!Converged[r].ver = recs[r].ver
      BY ConvergedIs
    <2> QED BY <2>1, <2>2 DEF RecordsTyped
  <1>5. CASE UNCHANGED <<recs, writes>>
    BY <1>5 DEF RecordsTyped
  <1>6. ASSUME NEW w \in Writers, Sup!Look(w) \/ Sup!Forget(w) PROVE UNCHANGED <<recs, writes>>
    BY <1>6 DEF Sup!Look, Sup!Forget
  <1>7. ASSUME Sup!SetPause \/ Sup!Backup PROVE UNCHANGED <<recs, writes>>
    BY <1>7 DEF Sup!SetPause, Sup!Backup
  <1>8. ASSUME NEW i \in Repairs, Sup!Preview(i) \/ Sup!LookAtSafety(i) \/ Sup!VerifyBackup(i) \/ Sup!Replay(i) \/ Sup!Refuse(i)
        PROVE  UNCHANGED <<recs, writes>>
    BY <1>8 DEF Sup!Preview, Sup!LookAtSafety, Sup!VerifyBackup, Sup!Replay, Sup!Refuse
  <1>9. ASSUME NEW p \in Pairs, Sup!Reverse(p) PROVE UNCHANGED <<recs, writes>>
    BY <1>9 DEF Sup!Reverse
  <1>10. ASSUME UNCHANGED Sup!supersessionVars PROVE UNCHANGED <<recs, writes>>
    BY <1>10 DEF Sup!supersessionVars
  <1> QED BY <1>2, <1>3, <1>4, <1>5, <1>6, <1>7, <1>8, <1>9, <1>10 DEF Sup!SupersessionNext, HandlerWrites

LEMMA DatabaseTyped == RecordsTyped /\ RestTyped => Sup!DB \in Databases
  BY DEF RecordsTyped, RestTyped, Sup!DB, Databases

LEMMA RestTypedKept ==
  ASSUME Sup!SupersessionAssumption, SupersessionTyped, [Sup!SupersessionNext]_(Sup!supersessionVars)
  PROVE  RestTyped'
  <1> USE DEF SupersessionTyped
  <1>1. ASSUME NEW w \in Writers, HandlerWrites(w) PROVE RestTyped'
    <2>0. writers[w].rec \in Records
      BY <1>1 DEF HandlerWrites, Sup!Edit, Sup!Queue, Sup!Settle, Sup!Delete, Sup!Link, Sup!MoveImport, Sup!Doing, WritersTyped
    <2>1. UNCHANGED <<rel, pause, file, repairs>>
      BY <1>1 DEF HandlerWrites, Sup!Edit, Sup!Queue, Sup!Settle, Sup!Delete, Sup!Link, Sup!MoveImport
    <2>2. import' \in Records \cup {None}
      BY <1>1, <2>0 DEF HandlerWrites, Sup!Edit, Sup!Queue, Sup!Settle, Sup!Delete, Sup!Link, Sup!MoveImport, RestTyped
    <2>3. opps' \in [Opps -> OpportunitySet]
      <3>1. CASE Sup!Link(w)
        <4>1. PICK o \in Opps : opps' = [opps EXCEPT ![o].primary = writers[w].rec]
          BY <3>1 DEF Sup!Link
        <4>2. ASSUME NEW p \in OpportunitySet PROVE [p EXCEPT !.primary = writers[w].rec] \in OpportunitySet
          BY <2>0 DEF OpportunitySet
        <4> QED BY <4>1, <4>2 DEF RestTyped
      <3> QED BY <1>1, <3>1 DEF HandlerWrites, Sup!Edit, Sup!Queue, Sup!Settle, Sup!Delete, Sup!MoveImport, RestTyped
    <2> QED BY <2>1, <2>2, <2>3 DEF RestTyped
  <1>2. CASE Sup!WriteOpportunity
    <2>1. PICK o \in Opps, active \in BOOLEAN, r \in {x \in Records : recs[x].exists} \cup {None} :
            opps' = [opps EXCEPT ![o] = [active |-> active, primary |-> IF r = None THEN opps[o].primary ELSE r]]
      BY <1>2 DEF Sup!WriteOpportunity
    <2>2. opps[o].primary \in Records \cup {None}
      BY DEF RestTyped, OpportunitySet
    <2>3. [active |-> active, primary |-> IF r = None THEN opps[o].primary ELSE r] \in OpportunitySet
      BY <2>2 DEF OpportunitySet
    <2>4. UNCHANGED <<rel, pause, file, repairs, import>>
      BY <1>2 DEF Sup!WriteOpportunity
    <2> QED BY <2>1, <2>3, <2>4 DEF RestTyped
  <1>3. CASE Sup!SetPause
    BY <1>3 DEF Sup!SetPause, RestTyped, Sup!SupersessionAssumption
  <1>4. CASE Sup!Backup
    <2>1. file' \in [copy : Databases \cup {None}, n : 0..MaxBackups]
      BY <1>4, DatabaseTyped DEF Sup!Backup, RestTyped, Sup!SupersessionAssumption
    <2> QED BY <1>4, <2>1 DEF Sup!Backup, RestTyped
  <1>5. ASSUME NEW i \in Repairs, Sup!Preview(i) \/ Sup!LookAtSafety(i) \/ Sup!VerifyBackup(i) \/ Sup!Replay(i) \/ Sup!Refuse(i)
        PROVE  RestTyped'
    <2>1. UNCHANGED <<opps, import, rel, pause, file>>
      BY <1>5 DEF Sup!Preview, Sup!LookAtSafety, Sup!VerifyBackup, Sup!Replay, Sup!Refuse
    <2>2. ASSUME NEW pc \in {"idle", "reviewed", "looked", "verified", "done"}, NEW n \in 0..MaxBackups
          PROVE  /\ [repairs[i] EXCEPT !.pc = pc] \in RepairSet
                 /\ [repairs[i] EXCEPT !.pc = pc, !.n = n] \in RepairSet
                 /\ [pc |-> pc, plan |-> Sup!DB, n |-> n] \in RepairSet
      BY DatabaseTyped DEF RestTyped, RepairSet
    <2>3. 0 \in 0..MaxBackups /\ file.n \in 0..MaxBackups
      BY DEF RestTyped, Sup!SupersessionAssumption
    <2>4. repairs' \in [Repairs -> RepairSet]
      BY <1>5, <2>2, <2>3 DEF Sup!Preview, Sup!LookAtSafety, Sup!VerifyBackup, Sup!Replay, Sup!Refuse, RestTyped
    <2> QED BY <2>1, <2>4 DEF RestTyped
  <1>6. ASSUME NEW i \in Repairs, Sup!Apply(i) PROVE RestTyped'
    <2>1. [repairs[i] EXCEPT !.pc = "done"] \in RepairSet
      BY DEF RestTyped, RepairSet
    <2> QED BY <1>6, <2>1, RepointedIs DEF Sup!Apply, RestTyped, Sup!Superseded
  <1>7. ASSUME NEW p \in Pairs, Sup!Reverse(p) PROVE RestTyped'
    BY <1>7 DEF Sup!Reverse, RestTyped
  <1>8. CASE UNCHANGED <<opps, import, rel, pause, file, repairs>>
    BY <1>8 DEF RestTyped
  <1>9. ASSUME NEW w \in Writers, Sup!Look(w) \/ Sup!Forget(w) PROVE UNCHANGED <<opps, import, rel, pause, file, repairs>>
    BY <1>9 DEF Sup!Look, Sup!Forget
  <1>10. ASSUME UNCHANGED Sup!supersessionVars PROVE UNCHANGED <<opps, import, rel, pause, file, repairs>>
    BY <1>10 DEF Sup!supersessionVars
  <1> QED BY <1>1, <1>2, <1>3, <1>4, <1>5, <1>6, <1>7, <1>8, <1>9, <1>10 DEF Sup!SupersessionNext, HandlerWrites

LEMMA WritersTypedKept ==
  ASSUME Sup!SupersessionAssumption, SupersessionTyped, [Sup!SupersessionNext]_(Sup!supersessionVars)
  PROVE  WritersTyped'
  <1> USE DEF SupersessionTyped
  <1>1. ASSUME NEW w \in Writers, HandlerWrites(w) PROVE WritersTyped'
    BY <1>1, DoneTyped DEF HandlerWrites, Sup!Edit, Sup!Queue, Sup!Settle, Sup!Delete, Sup!Link, Sup!MoveImport
  <1>2. ASSUME NEW w \in Writers, Sup!Look(w) PROVE WritersTyped'
    BY <1>2 DEF Sup!Look, WritersTyped
  <1>3. ASSUME NEW w \in Writers, Sup!Forget(w) PROVE WritersTyped'
    BY <1>3 DEF Sup!Forget, Sup!Idle, WritersTyped
  <1>4. CASE UNCHANGED writers
    BY <1>4 DEF WritersTyped
  <1>5. ASSUME Sup!WriteOpportunity \/ Sup!SetPause \/ Sup!Backup PROVE UNCHANGED writers
    BY <1>5 DEF Sup!WriteOpportunity, Sup!SetPause, Sup!Backup
  <1>6. ASSUME NEW i \in Repairs, \/ Sup!Preview(i) \/ Sup!LookAtSafety(i) \/ Sup!VerifyBackup(i)
                                  \/ Sup!Apply(i) \/ Sup!Replay(i) \/ Sup!Refuse(i)
        PROVE  UNCHANGED writers
    BY <1>6 DEF Sup!Preview, Sup!LookAtSafety, Sup!VerifyBackup, Sup!Apply, Sup!Replay, Sup!Refuse
  <1>7. ASSUME NEW p \in Pairs, Sup!Reverse(p) PROVE UNCHANGED writers
    BY <1>7 DEF Sup!Reverse
  <1>8. ASSUME UNCHANGED Sup!supersessionVars PROVE UNCHANGED writers
    BY <1>8 DEF Sup!supersessionVars
  <1> QED BY <1>1, <1>2, <1>3, <1>4, <1>5, <1>6, <1>7, <1>8 DEF Sup!SupersessionNext, HandlerWrites

LEMMA SupersessionTypedKept ==
  Sup!SupersessionAssumption /\ SupersessionTyped /\ [Sup!SupersessionNext]_(Sup!supersessionVars) => SupersessionTyped'
  BY RecordsTypedKept, RestTypedKept, WritersTypedKept DEF SupersessionTyped

LEMMA SupersessionTypedAtFirst == ASSUME Sup!SupersessionAssumption, Sup!SupersessionInit PROVE SupersessionTyped
  <1>1. RecordsTyped
    BY DEF Sup!SupersessionInit, Sup!SupersessionAssumption, RecordsTyped, RecordSet
  <1>2. opps \in [Opps -> OpportunitySet]
    <2>1. ASSUME NEW o \in Opps, \E p \in Pairs : p.opp = o
          PROVE  (CHOOSE p \in Pairs : p.opp = o).survivor \in Records
      BY <2>1, PairRows
    <2> QED BY <2>1 DEF Sup!SupersessionInit, OpportunitySet
  <1>3. Imported \in Records
    BY PairRows DEF Sup!SupersessionAssumption, Sup!Losers
  <1>4. RestTyped
    BY <1>2, <1>3 DEF Sup!SupersessionInit, Sup!SupersessionAssumption, RestTyped, RepairSet
  <1> QED BY <1>1, <1>4 DEF Sup!SupersessionInit, SupersessionTyped, WritersTyped

-----------------------------------------------------------------------------
(* What the triggers keep *)

(* What an active relation of p needs: MayInsert and more *)
Stands(p) ==
  /\ recs[p.survivor].exists /\ recs[p.loser].exists
  /\ opps[p.opp] = [active |-> TRUE, primary |-> p.survivor]
  /\ Sup!Owned(recs[p.survivor].direct, recs[p.survivor].meta, p.opp)
  /\ {recs[p.loser].direct, recs[p.loser].meta} \subseteq {None, p.opp}
  /\ \A o \in Opps : opps[o].primary # p.loser
  /\ ~recs[p.loser].work /\ import # p.loser
BothExist(p) == recs[p.survivor].exists /\ recs[p.loser].exists
Upright == \A p \in Pairs : (rel[p] = "active" => Stands(p)) /\ (rel[p] # "none" => BothExist(p))

LEMMA UprightIs == Upright => Sup!SurvivorsStand
  BY DEF Upright, Stands, BothExist, Sup!SurvivorsStand, Sup!AuditViolations, Sup!MayInsert, Sup!DB

(* A handler leaves a superseded record, and the records of any relation where they are. *)
LEMMA HandlerSpares ==
  ASSUME Sup!SupersessionAssumption, SupersessionTyped, NEW w \in Writers, HandlerWrites(w), NEW p \in Pairs
  PROVE  /\ rel' = rel
         /\ rel[p] = "active" => recs'[p.loser] = recs[p.loser]
         /\ rel[p] # "none" /\ BothExist(p) => BothExist(p)'
  <1> DEFINE r == writers[w].rec
  <1>1. r \in Records /\ p.survivor \in Records /\ p.loser \in Records /\ rel' = rel
    BY PairRows DEF HandlerWrites, Sup!Edit, Sup!Queue, Sup!Settle, Sup!Delete, Sup!Link, Sup!MoveImport, Sup!Doing, SupersessionTyped, WritersTyped
  <1>2. Sup!Writable(r)
    BY DEF HandlerWrites, Sup!Edit, Sup!Queue, Sup!Settle, Sup!Delete, Sup!Link, Sup!MoveImport
  <1>3. rel[p] = "active" => p.loser # r
    BY <1>2 DEF Sup!Writable, Sup!Superseding
  <1>4. recs \in [Records -> RecordSet] /\ recs[r] \in RecordSet
    BY <1>1 DEF SupersessionTyped, RecordsTyped
  <1>5. \A x \in Records \ {r} : recs'[x] = recs[x]
    BY <1>1, <1>4 DEF HandlerWrites, Sup!Edit, Sup!Queue, Sup!Settle, Sup!Delete, Sup!Link, Sup!MoveImport
  <1>6. CASE Sup!Delete(w)
    <2>1. rel[p] # "none" => r \notin {p.survivor, p.loser}
      BY <1>6 DEF Sup!Delete, Sup!MayDelete
    <2> QED BY <1>1, <1>3, <1>5, <2>1 DEF BothExist
  <1>7. CASE ~Sup!Delete(w)
    <2>1. recs'[r].exists = recs[r].exists
      <3>1. CASE Sup!Edit(w)
        BY <1>1, <1>4, <3>1 DEF Sup!Edit, RecordSet
      <3>2. CASE Sup!Link(w)
        BY <1>1, <1>4, <3>2 DEF Sup!Link, RecordSet
      <3>3. CASE Sup!Queue(w) \/ Sup!Settle(w) \/ Sup!MoveImport(w)
        BY <1>1, <1>4, <3>3 DEF Sup!Queue, Sup!Settle, Sup!MoveImport, RecordSet
      <3> QED BY <1>7, <3>1, <3>2, <3>3 DEF HandlerWrites
    <2> QED BY <1>1, <1>3, <1>5, <2>1 DEF BothExist
  <1> QED BY <1>6, <1>7

LEMMA HandlerKeepsStanding ==
  ASSUME Sup!SupersessionAssumption, SupersessionTyped, NEW w \in Writers, HandlerWrites(w), NEW p \in Pairs,
         rel[p] = "active", Stands(p)
  PROVE  Stands(p)'
  <1> DEFINE r == writers[w].rec
             s == p.survivor
  <1>1. r \in Records /\ s \in Records /\ p.loser \in Records /\ p.opp \in Opps
    BY PairRows DEF HandlerWrites, Sup!Edit, Sup!Queue, Sup!Settle, Sup!Delete, Sup!Link, Sup!MoveImport, Sup!Doing, SupersessionTyped, WritersTyped
  <1>2. recs'[p.loser] = recs[p.loser] /\ BothExist(p)'
    BY HandlerSpares DEF Stands, BothExist
  <1>3. recs \in [Records -> RecordSet] /\ recs[r] \in RecordSet /\ recs[s] \in RecordSet
    BY <1>1 DEF SupersessionTyped, RecordsTyped
  <1>4. Sup!Writable(r) /\ r # p.loser
    BY DEF HandlerWrites, Sup!Edit, Sup!Queue, Sup!Settle, Sup!Delete, Sup!Link, Sup!MoveImport, Sup!Writable, Sup!Superseding
  <1>5. import' # p.loser
    <2>1. None # p.loser
      BY <1>1 DEF Sup!SupersessionAssumption
    <2> QED BY <1>4, <2>1 DEF HandlerWrites, Sup!Edit, Sup!Queue, Sup!Settle, Sup!Delete, Sup!Link, Sup!MoveImport, Stands
  <1>6. CASE Sup!Link(w)
    <2>1. PICK o \in Opps :
            /\ Sup!MayOwn(r, o, recs[r].meta) /\ Sup!MayBecome(o, TRUE, r) /\ Sup!MayBePrimary(r)
            /\ recs' = [recs EXCEPT ![r].direct = o]
            /\ opps' = [opps EXCEPT ![o].primary = r]
      BY <1>6 DEF Sup!Link
    <2>2. recs'[r].direct = o /\ recs'[r].meta = recs[r].meta /\ \A x \in Records \ {r} : recs'[x] = recs[x]
      BY <1>1, <1>3, <2>1 DEF RecordSet
    <2>3. Sup!Owned(recs'[s].direct, recs'[s].meta, p.opp)
      BY <1>1, <2>1, <2>2 DEF Sup!MayOwn, Stands
    <2>4. opps \in [Opps -> OpportunitySet] /\ opps[o] \in OpportunitySet /\ opps[p.opp] \in OpportunitySet
      BY <1>1 DEF SupersessionTyped, RestTyped
    <2>5. opps'[p.opp] = [active |-> TRUE, primary |-> s]
      <3>1. CASE o = p.opp
        BY <1>1, <2>1, <2>4, <3>1 DEF Sup!MayBecome, Stands, OpportunitySet
      <3>2. CASE o # p.opp
        BY <1>1, <2>1, <2>4, <3>2 DEF Stands
      <3> QED BY <3>1, <3>2
    <2>6. \A x \in Opps : opps'[x].primary # p.loser
      BY <2>1, <2>4, <1>4 DEF Stands, OpportunitySet
    <2> QED BY <1>2, <1>5, <2>3, <2>5, <2>6 DEF Stands, BothExist
  <1>7. CASE Sup!Edit(w)
    <2>1. PICK m : /\ Sup!MayOwn(r, recs[r].direct, m)
                   /\ recs' = [recs EXCEPT ![r].ver = @ + 1, ![r].meta = m]
      BY <1>7 DEF Sup!Edit
    <2>2. recs'[r].direct = recs[r].direct /\ recs'[r].meta = m /\ \A x \in Records \ {r} : recs'[x] = recs[x]
      BY <1>1, <1>3, <2>1 DEF RecordSet
    <2>3. Sup!Owned(recs'[s].direct, recs'[s].meta, p.opp)
      BY <1>1, <2>1, <2>2 DEF Sup!MayOwn, Stands
    <2> QED BY <1>2, <1>5, <1>7, <2>3 DEF Stands, BothExist, Sup!Edit
  <1>8. CASE Sup!Queue(w) \/ Sup!Settle(w) \/ Sup!Delete(w) \/ Sup!MoveImport(w)
    <2>1. recs'[s].direct = recs[s].direct /\ recs'[s].meta = recs[s].meta
      BY <1>1, <1>3, <1>8 DEF Sup!Queue, Sup!Settle, Sup!Delete, Sup!MoveImport, RecordSet
    <2>2. opps' = opps
      BY <1>8 DEF Sup!Queue, Sup!Settle, Sup!Delete, Sup!MoveImport
    <2> QED BY <1>2, <1>5, <2>1, <2>2 DEF Stands, BothExist
  <1> QED BY <1>6, <1>7, <1>8 DEF HandlerWrites

LEMMA UprightKept ==
  ASSUME Sup!SupersessionAssumption, SupersessionTyped, Upright, [Sup!SupersessionNext]_(Sup!supersessionVars)
  PROVE  Upright'
  <1>1. ASSUME NEW w \in Writers, HandlerWrites(w) PROVE Upright'
    BY <1>1, HandlerSpares, HandlerKeepsStanding DEF Upright
  <1>2. CASE Sup!WriteOpportunity
    <2>1. PICK o \in Opps, active \in BOOLEAN, r \in {x \in Records : recs[x].exists} \cup {None} :
            /\ Sup!MayBecome(o, active, IF r = None THEN opps[o].primary ELSE r)
            /\ r # None => Sup!MayBePrimary(r)
            /\ opps' = [opps EXCEPT ![o] = [active |-> active, primary |-> IF r = None THEN opps[o].primary ELSE r]]
      BY <1>2 DEF Sup!WriteOpportunity
    <2>2. UNCHANGED <<recs, rel, import>> /\ opps \in [Opps -> OpportunitySet]
      BY <1>2 DEF Sup!WriteOpportunity, SupersessionTyped, RestTyped
    <2>3. ASSUME NEW p \in Pairs, rel[p] = "active" PROVE Stands(p)'
      <3>1. p.opp \in Opps /\ Stands(p)
        BY <2>3, PairRows DEF Upright
      <3>2. opps'[p.opp] = [active |-> TRUE, primary |-> p.survivor]
        BY <2>1, <2>2, <2>3, <3>1 DEF Sup!MayBecome, Stands
      <3>3. \A x \in Opps : opps'[x].primary # p.loser
        BY <2>1, <2>2, <2>3, <3>1 DEF Sup!MayBePrimary, Stands
      <3> QED BY <2>2, <3>1, <3>2, <3>3 DEF Stands
    <2> QED BY <2>2, <2>3 DEF Upright, BothExist
  <1>3. ASSUME NEW i \in Repairs, Sup!Apply(i) PROVE Upright'
    <2>1. recs' = Sup!Converged /\ opps' = opps /\ import' = Sup!Repointed
      BY <1>3 DEF Sup!Apply
    <2>2. \A p \in Pairs : Sup!MayInsert(Sup!DB, p) /\ ~recs[p.loser].work
      BY <1>3 DEF Sup!Apply, Sup!Applicable, Sup!AsReviewed, Sup!Plannable, Sup!NothingOpen, Sup!Losers, Sup!DB
    <2>3. ASSUME NEW p \in Pairs PROVE Stands(p)'
      <3>1. p.survivor \in Records /\ p.loser \in Records /\ import' # p.loser
        BY <2>1, PairRows, RepointedIs DEF Sup!Losers
      <3>2. /\ recs'[p.survivor].exists = recs[p.survivor].exists /\ recs'[p.loser].exists = recs[p.loser].exists
            /\ recs'[p.survivor].direct = recs[p.survivor].direct /\ recs'[p.survivor].meta = recs[p.survivor].meta
            /\ recs'[p.loser].direct = recs[p.loser].direct /\ recs'[p.loser].meta = recs[p.loser].meta
            /\ recs'[p.loser].work = recs[p.loser].work
        BY <2>1, <3>1, ConvergedIs DEF SupersessionTyped
      <3> QED BY <2>1, <2>2, <3>1, <3>2 DEF Stands, Sup!MayInsert, Sup!DB
    <2> QED BY <2>3 DEF Upright, Stands, BothExist
  <1>4. ASSUME NEW q \in Pairs, Sup!Reverse(q) PROVE Upright'
    <2>1. UNCHANGED <<recs, opps, import>> /\ rel' = [rel EXCEPT ![q] = "reversed"] /\ rel[q] = "active"
      BY <1>4 DEF Sup!Reverse, Sup!MayReverse
    <2>2. rel \in [Pairs -> {"none", "active", "reversed"}]
      BY DEF SupersessionTyped, RestTyped
    <2> QED BY <2>1, <2>2 DEF Upright, Stands, BothExist
  <1>5. CASE UNCHANGED <<recs, opps, import, rel>>
    BY <1>5 DEF Upright, Stands, BothExist
  <1>6. ASSUME NEW w \in Writers, Sup!Look(w) \/ Sup!Forget(w) PROVE UNCHANGED <<recs, opps, import, rel>>
    BY <1>6 DEF Sup!Look, Sup!Forget
  <1>7. ASSUME Sup!SetPause \/ Sup!Backup PROVE UNCHANGED <<recs, opps, import, rel>>
    BY <1>7 DEF Sup!SetPause, Sup!Backup
  <1>8. ASSUME NEW i \in Repairs, Sup!Preview(i) \/ Sup!LookAtSafety(i) \/ Sup!VerifyBackup(i) \/ Sup!Replay(i) \/ Sup!Refuse(i)
        PROVE  UNCHANGED <<recs, opps, import, rel>>
    BY <1>8 DEF Sup!Preview, Sup!LookAtSafety, Sup!VerifyBackup, Sup!Replay, Sup!Refuse
  <1>9. ASSUME UNCHANGED Sup!supersessionVars PROVE UNCHANGED <<recs, opps, import, rel>>
    BY <1>9 DEF Sup!supersessionVars
  <1> QED BY <1>1, <1>2, <1>3, <1>4, <1>5, <1>6, <1>7, <1>8, <1>9 DEF Sup!SupersessionNext, HandlerWrites

-----------------------------------------------------------------------------
(* What a receipt says *)

(* A call that has verified the file that is there knows what it holds. *)
Verified == \A i \in Repairs :
  /\ repairs[i].n <= file.n
  /\ repairs[i].pc = "verified" /\ repairs[i].n = file.n => file.copy = repairs[i].plan
Applied == {[plan |-> d, before |-> d, copy |-> d] : d \in Databases}
Receipted ==
  /\ receipts \subseteq Applied
  /\ \/ receipts = {} /\ \A p \in Pairs : rel[p] = "none"
     \/ (\E c \in Applied : receipts = {c}) /\ \A p \in Pairs : rel[p] # "none"

LEMMA VerifiedKept ==
  ASSUME Sup!SupersessionAssumption, SupersessionTyped, Verified, [Sup!SupersessionNext]_(Sup!supersessionVars)
  PROVE  Verified'
  <1>0. /\ repairs \in [Repairs -> RepairSet] /\ file.n \in Nat
        /\ \A i \in Repairs : repairs[i] \in RepairSet /\ repairs[i].n \in Nat
    BY DEF SupersessionTyped, RestTyped, RepairSet, Sup!SupersessionAssumption
  <1>1. CASE Sup!Backup
    BY <1>0, <1>1 DEF Sup!Backup, Verified
  <1>2. ASSUME NEW i \in Repairs, Sup!Preview(i) \/ Sup!LookAtSafety(i) \/ Sup!VerifyBackup(i) \/ Sup!Apply(i) \/ Sup!Replay(i) \/ Sup!Refuse(i)
        PROVE  Verified'
    <2>1. file' = file
      BY <1>2 DEF Sup!Preview, Sup!LookAtSafety, Sup!VerifyBackup, Sup!Apply, Sup!Replay, Sup!Refuse
    <2>2. \A j \in Repairs \ {i} : repairs'[j] = repairs[j]
      BY <1>0, <1>2 DEF Sup!Preview, Sup!LookAtSafety, Sup!VerifyBackup, Sup!Apply, Sup!Replay, Sup!Refuse
    <2>3. CASE Sup!VerifyBackup(i)
      <3>1. repairs'[i].n = file.n /\ repairs'[i].plan = repairs[i].plan /\ file.copy = repairs[i].plan
        BY <1>0, <2>3 DEF Sup!VerifyBackup, RepairSet
      <3> QED BY <1>0, <2>1, <2>2, <3>1 DEF Verified
    <2>4. CASE ~Sup!VerifyBackup(i)
      <3>1. repairs'[i].n \in {0, repairs[i].n} /\ repairs'[i].pc # "verified"
        BY <1>0, <1>2, <2>4 DEF Sup!Preview, Sup!LookAtSafety, Sup!Apply, Sup!Replay, Sup!Refuse, RepairSet
      <3> QED BY <1>0, <2>1, <2>2, <3>1 DEF Verified
    <2> QED BY <2>3, <2>4
  <1>3. CASE UNCHANGED <<file, repairs>>
    BY <1>3 DEF Verified
  <1>4. ASSUME NEW w \in Writers, HandlerWrites(w) \/ Sup!Look(w) \/ Sup!Forget(w) PROVE UNCHANGED <<file, repairs>>
    BY <1>4 DEF HandlerWrites, Sup!Edit, Sup!Queue, Sup!Settle, Sup!Delete, Sup!Link, Sup!MoveImport, Sup!Look, Sup!Forget
  <1>5. ASSUME Sup!SetPause \/ Sup!WriteOpportunity PROVE UNCHANGED <<file, repairs>>
    BY <1>5 DEF Sup!SetPause, Sup!WriteOpportunity
  <1>6. ASSUME NEW p \in Pairs, Sup!Reverse(p) PROVE UNCHANGED <<file, repairs>>
    BY <1>6 DEF Sup!Reverse
  <1>7. ASSUME UNCHANGED Sup!supersessionVars PROVE UNCHANGED <<file, repairs>>
    BY <1>7 DEF Sup!supersessionVars
  <1> QED BY <1>1, <1>2, <1>3, <1>4, <1>5, <1>6, <1>7 DEF Sup!SupersessionNext, HandlerWrites

LEMMA ReceiptedKept ==
  ASSUME Sup!SupersessionAssumption, SupersessionTyped, Verified, Receipted, [Sup!SupersessionNext]_(Sup!supersessionVars)
  PROVE  Receipted'
  <1>1. ASSUME NEW i \in Repairs, Sup!Apply(i) PROVE Receipted'
    <2>1. file.copy = repairs[i].plan /\ Sup!DB = repairs[i].plan /\ Sup!DB \in Databases
      BY <1>1, DatabaseTyped DEF Sup!Apply, Sup!Applicable, Sup!SameFile, Sup!AsReviewed, Verified, SupersessionTyped
    <2>2. PICK p \in Pairs : p.loser = Imported
      BY DEF Sup!SupersessionAssumption, Sup!Losers
    <2>3. rel[p] = "none"
      BY <1>1 DEF Sup!Apply, Sup!Applicable, Sup!AsReviewed, Sup!Plannable, Sup!PairsStand, Sup!DB
    <2>4. receipts = {}
      BY <2>3 DEF Receipted
    <2> DEFINE c == [plan |-> repairs[i].plan, before |-> Sup!DB, copy |-> file.copy]
    <2>5. c \in Applied
      BY <2>1 DEF Applied
    <2>6. receipts' = {c}
      BY <1>1, <2>4 DEF Sup!Apply
    <2>7. \A q \in Pairs : rel'[q] = "active"
      BY <1>1 DEF Sup!Apply, Sup!Superseded
    <2> QED BY <2>5, <2>6, <2>7 DEF Receipted
  <1>2. ASSUME NEW q \in Pairs, Sup!Reverse(q) PROVE Receipted'
    <2>1. receipts' = receipts /\ rel' = [rel EXCEPT ![q] = "reversed"] /\ rel[q] = "active"
      BY <1>2 DEF Sup!Reverse, Sup!MayReverse
    <2>2. rel \in [Pairs -> {"none", "active", "reversed"}]
      BY DEF SupersessionTyped, RestTyped
    <2> QED BY <2>1, <2>2 DEF Receipted
  <1>3. CASE UNCHANGED <<receipts, rel>>
    BY <1>3 DEF Receipted
  <1>4. ASSUME NEW w \in Writers, HandlerWrites(w) \/ Sup!Look(w) \/ Sup!Forget(w) PROVE UNCHANGED <<receipts, rel>>
    BY <1>4 DEF HandlerWrites, Sup!Edit, Sup!Queue, Sup!Settle, Sup!Delete, Sup!Link, Sup!MoveImport, Sup!Look, Sup!Forget
  <1>5. ASSUME Sup!SetPause \/ Sup!WriteOpportunity \/ Sup!Backup PROVE UNCHANGED <<receipts, rel>>
    BY <1>5 DEF Sup!SetPause, Sup!WriteOpportunity, Sup!Backup
  <1>6. ASSUME NEW i \in Repairs, Sup!Preview(i) \/ Sup!LookAtSafety(i) \/ Sup!VerifyBackup(i) \/ Sup!Replay(i) \/ Sup!Refuse(i)
        PROVE  UNCHANGED <<receipts, rel>>
    BY <1>6 DEF Sup!Preview, Sup!LookAtSafety, Sup!VerifyBackup, Sup!Replay, Sup!Refuse
  <1>7. ASSUME UNCHANGED Sup!supersessionVars PROVE UNCHANGED <<receipts, rel>>
    BY <1>7 DEF Sup!supersessionVars
  <1> QED BY <1>1, <1>2, <1>3, <1>4, <1>5, <1>6, <1>7 DEF Sup!SupersessionNext, HandlerWrites

-----------------------------------------------------------------------------
(* Theorems *)

SupersessionInv == SupersessionTyped /\ Upright /\ Verified /\ Receipted

LEMMA SupersessionInvHolds == ASSUME Sup!SupersessionAssumption PROVE Sup!SupersessionSpec => []SupersessionInv
  <1>1. Sup!SupersessionInit => SupersessionInv
    <2> SUFFICES ASSUME Sup!SupersessionInit PROVE SupersessionInv
      OBVIOUS
    <2>1. SupersessionTyped
      BY SupersessionTypedAtFirst
    <2> QED BY <2>1 DEF Sup!SupersessionInit, SupersessionInv, Upright, Verified, Receipted
  <1>2. SupersessionInv /\ [Sup!SupersessionNext]_(Sup!supersessionVars) => SupersessionInv'
    BY SupersessionTypedKept, UprightKept, VerifiedKept, ReceiptedKept DEF SupersessionInv
  <1> QED BY <1>1, <1>2, PTL DEF Sup!SupersessionSpec

(* Records, opportunities, relations, handlers and repairs keep their kinds. *)
THEOREM SupersessionTypeCorrect == ASSUME Sup!SupersessionAssumption PROVE Sup!SupersessionSpec => []Sup!SupersessionTypeOK
  <1>1. SupersessionInv => Sup!SupersessionTypeOK
    BY DEF SupersessionInv, SupersessionTyped, RecordsTyped, RestTyped, WritersTyped, Sup!SupersessionTypeOK,
           RecordSet, OpportunitySet, RepairSet
  <1> QED BY <1>1, SupersessionInvHolds, PTL

(* The audit of supersessions finds nothing, after any writes of handlers    *)
(* that looked before the repair, and no mail is under way for a superseded  *)
(* record (auditCrmSubmissionSupersessions).                                 *)
THEOREM SurvivorsStandAlways == ASSUME Sup!SupersessionAssumption PROVE Sup!SupersessionSpec => []Sup!SurvivorsStand
  <1>1. SupersessionInv => Sup!SurvivorsStand
    BY UprightIs DEF SupersessionInv
  <1> QED BY <1>1, SupersessionInvHolds, PTL

(* The repair supersedes all of its pairs with one receipt or none with none *)
(* (applyCrmDuplicateConsolidation).                                         *)
THEOREM AllOrNothingAlways == ASSUME Sup!SupersessionAssumption PROVE Sup!SupersessionSpec => []Sup!AllOrNothing
  <1>1. SupersessionInv => Sup!AllOrNothing
    <2>1. Cardinality({}) = 0
      BY FS_EmptySet
    <2>2. \A c : Cardinality({c}) = 1
      BY FS_Singleton
    <2>3. SupersessionInv => Cardinality(receipts) \in {0, 1}
      BY <2>1, <2>2 DEF SupersessionInv, Receipted
    <2>4. Pairs # {}
      BY DEF Sup!SupersessionAssumption, Sup!Losers
    <2>5. SupersessionInv => \A p \in Pairs : rel[p] = "none" <=> receipts = {}
      BY <2>4 DEF SupersessionInv, Receipted
    <2> QED BY <2>3, <2>5, SupCounts DEF Sup!AllOrNothing
  <1> QED BY <1>1, SupersessionInvHolds, PTL

(* The backup a receipt names is the database that the repair changed, and   *)
(* what was reviewed (verifyCrmDuplicateConsolidationBackupPlan).            *)
THEOREM RepairIsReversible == ASSUME Sup!SupersessionAssumption PROVE Sup!SupersessionSpec => []Sup!RepairCanBeUndone
  <1>1. SupersessionInv => Sup!RepairCanBeUndone
    BY DEF SupersessionInv, Receipted, Applied, Sup!RepairCanBeUndone
  <1> QED BY <1>1, SupersessionInvHolds, PTL

LEMMA LeftAlone ==
  ASSUME Sup!SupersessionAssumption, SupersessionInv, [Sup!SupersessionNext]_(Sup!supersessionVars)
  PROVE  Sup!LeftAloneStep
  <1> USE DEF SupersessionInv
  <1>0. rel \in [Pairs -> {"none", "active", "reversed"}]
    BY DEF SupersessionTyped, RestTyped
  <1>1. ASSUME NEW w \in Writers, HandlerWrites(w) PROVE Sup!LeftAloneStep
    <2>1. receipts' = receipts
      BY <1>1 DEF HandlerWrites, Sup!Edit, Sup!Queue, Sup!Settle, Sup!Delete, Sup!Link, Sup!MoveImport
    <2> QED BY <1>1, <2>1, HandlerSpares DEF Sup!LeftAloneStep
  <1>2. ASSUME NEW i \in Repairs, Sup!Apply(i) PROVE Sup!LeftAloneStep
    <2>1. \A p \in Pairs : rel[p] = "none"
      BY <1>2 DEF Sup!Apply, Sup!Applicable, Sup!AsReviewed, Sup!Plannable, Sup!PairsStand, Sup!DB
    <2> QED BY <1>2, <2>1 DEF Sup!Apply, Sup!LeftAloneStep
  <1>3. ASSUME NEW q \in Pairs, Sup!Reverse(q) PROVE Sup!LeftAloneStep
    BY <1>0, <1>3 DEF Sup!Reverse, Sup!MayReverse, Sup!LeftAloneStep
  <1>4. CASE UNCHANGED <<recs, rel, receipts>>
    BY <1>4 DEF Sup!LeftAloneStep
  <1>5. ASSUME NEW w \in Writers, Sup!Look(w) \/ Sup!Forget(w) PROVE UNCHANGED <<recs, rel, receipts>>
    BY <1>5 DEF Sup!Look, Sup!Forget
  <1>6. ASSUME Sup!SetPause \/ Sup!WriteOpportunity \/ Sup!Backup PROVE UNCHANGED <<recs, rel, receipts>>
    BY <1>6 DEF Sup!SetPause, Sup!WriteOpportunity, Sup!Backup
  <1>7. ASSUME NEW i \in Repairs, Sup!Preview(i) \/ Sup!LookAtSafety(i) \/ Sup!VerifyBackup(i) \/ Sup!Replay(i) \/ Sup!Refuse(i)
        PROVE  UNCHANGED <<recs, rel, receipts>>
    BY <1>7 DEF Sup!Preview, Sup!LookAtSafety, Sup!VerifyBackup, Sup!Replay, Sup!Refuse
  <1>8. ASSUME UNCHANGED Sup!supersessionVars PROVE UNCHANGED <<recs, rel, receipts>>
    BY <1>8 DEF Sup!supersessionVars
  <1> QED BY <1>1, <1>2, <1>3, <1>4, <1>5, <1>6, <1>7, <1>8 DEF Sup!SupersessionNext, HandlerWrites

(* No step of a handler, a repair or a pass changes a superseded record, or  *)
(* takes back a relation other than by its reversal                          *)
(* (assertCrmSubmissionWritableInTransaction).                               *)
THEOREM LeftAloneAlways == ASSUME Sup!SupersessionAssumption PROVE Sup!SupersessionSpec => Sup!SupersededIsLeftAlone
  <1>1. SupersessionInv /\ [Sup!SupersessionNext]_(Sup!supersessionVars) => [Sup!LeftAloneStep]_(Sup!supersessionVars)
    BY LeftAlone
  <1> QED BY <1>1, SupersessionInvHolds, PTL DEF Sup!SupersessionSpec, Sup!SupersededIsLeftAlone

-----------------------------------------------------------------------------
(* Of PursueEnrollment: an owner's commands, automatic Pursue and campaigns  *)
CONSTANTS Deals, OwnerCommands, KeyOf, Choices, Runs, Reevals, Cap, Changes, MaxChanges, MaxModes,
          MaxDays, MaxRestarts
VARIABLES fact, rule, down, history, campaign, mode, day, rows, intake, pursuing, counters, late

Enr == INSTANCE PursueEnrollment WITH Owners <- OwnerCommands, proc <- intake, run <- pursuing

LEMMA EnrCounts == \A S : Enr!Cardinality(S) = Cardinality(S)
  BY DEF Enr!Cardinality, Cardinality

Actions == {"pursue", "watch", "pass"}
Contacts == 0..2
Keys == ({0} \X {KeyOf[c] : c \in OwnerCommands}) \cup (Nat \X Deals)
Kinds == {"off", "canary", "active"}
DecisionRows == [action : Actions, key : Keys, auto : BOOLEAN, chosen : Contacts, day : Nat, state : Enr!EnrollmentStates]
Facts == [rev : Nat, contact : Contacts, stop : BOOLEAN, crm : {"none", "linked", "closed"}]
CampaignRows == [of : Nat, state : {"none", "pending", "stopped"}, contact : Contacts, rev : Nat]
ProcPcs == {"idle", "shown", "load", "basis", "link", "reload", "allocate", "settle", "end"}
IntakeRows == [pc : ProcPcs, deal : Deals \cup {"none"}, idx : Nat, st : Enr!EnrollmentStates, ref : Contacts,
             rev : Nat, contact : Contacts, next : {"none", "waiting", "action"}]
RunPcs == {"idle", "claim", "list", "evaluate", "check", "record", "complete", "over", "loop"}
RunRows == [pc : RunPcs, kind : Kinds, id : Nat, day : Nat, seq : Nat, earlier : SUBSET Deals, todo : SUBSET Deals,
            revs : [Deals -> Nat], contacts : [Deals -> Contacts], blocked : SUBSET Deals]
RowSet == [key : [day : Nat, kind : Kinds, seq : Nat], day : Nat, done : BOOLEAN, blocked : SUBSET Deals]

WorldFits ==
  /\ fact \in [Deals -> Facts] /\ rule \in BOOLEAN /\ down \in BOOLEAN
  /\ mode \in [kind : Kinds, id : 1..(MaxModes + 1)] /\ day \in 1..MaxDays
  /\ counters \in [changes : 0..MaxChanges, restarts : 0..MaxRestarts]
  /\ \A d \in Deals : fact[d].rev \in 1..(counters.changes + 1)

(* The decisions h of a deal and its campaign c: at most the last decision    *)
(* has a live enrollment, and it is a Pursue; a campaign is that of its       *)
(* enrollment; an automatic decision is the first.                            *)
Live(e) == e.state \notin {"none", "superseded"}
RecordFits(h, c) ==
  /\ \A i \in 1..Len(h) :
       /\ Live(h[i]) => i = Len(h) /\ h[i].action = "pursue"
       /\ h[i].state = "campaign" => c.of = i
       /\ h[i].auto => i = 1
  /\ c.of \in 0..Len(h)
  /\ c.state = "pending" => c.of # 0 /\ h[c.of].state = "campaign"
RecordsOk ==
  /\ history \in [Deals -> Seq(DecisionRows)] /\ campaign \in [Deals -> CampaignRows]
  /\ \A d \in Deals : RecordFits(history[d], campaign[d])

(* Who is at work has an enrollment, and past the first reading its contact   *)
(* is one the decision allows.                                                *)
InOrchestration == {"load", "basis", "link", "reload", "allocate", "settle"}
WorkFits(r, h) ==
  /\ r.pc = "shown" => r.deal \in Deals
  /\ r.pc \in InOrchestration => r.deal \in Deals /\ r.idx \in 1..Len(h[r.deal])
  /\ r.pc \in {"basis", "link", "reload", "allocate"} => h[r.deal][r.idx].chosen \in {0, r.contact}
  /\ r.pc = "settle" => r.next \in {"waiting", "action"}
ProcsFit == intake \in [Enr!Procs -> IntakeRows] /\ \A p \in Enr!Procs : WorkFits(intake[p], history)

(* What a re-evaluation has listed is there, and a run that recorded after    *)
(* its activation was replaced has noticed.                                   *)
ListFits(v, h) == \A d \in v.todo : v.revs[d] \in 1..Len(h[d])
HeardFits(v, n, id) ==
  /\ v.id <= id
  /\ n # 0 => n = 1 /\ v.pc \in {"check", "complete", "over"} /\ (v.pc = "check" => v.id < id)
RunsFit ==
  /\ rows \subseteq RowSet /\ IsFiniteSet(rows)
  /\ pursuing \in [Runs \cup Reevals -> RunRows] /\ late \in [Runs -> Nat]
  /\ \A v \in Reevals : ListFits(pursuing[v], history)
  /\ \A r \in Runs : HeardFits(pursuing[r], late[r], mode.id)

AutoOn(n) == {x \in {<<d, i>> : d \in Deals, i \in 1..(Cardinality(Enr!Procs) + 1)} :
                 /\ x[2] \in DOMAIN history[x[1]]
                 /\ history[x[1]][x[2]].auto /\ history[x[1]][x[2]].day = n}
LEMMA AutoCounts == ASSUME NEW n PROVE Enr!AutoToday(n) = Cardinality(AutoOn(n))
  <1>1. Enr!AutoToday(n) = Enr!Cardinality(AutoOn(n))
    <2>1. Enr!Cardinality(Enr!Procs) = Cardinality(Enr!Procs)
      BY EnrCounts
    <2> QED BY <2>1 DEF Enr!AutoToday, AutoOn
  <1> QED BY <1>1, EnrCounts

CapFits == \A n \in Nat : IsFiniteSet(AutoOn(n)) /\ Cardinality(AutoOn(n)) <= Cap

EnrollmentInv == WorldFits /\ RecordsOk /\ ProcsFit /\ RunsFit /\ CapFits

LEMMA Bounds ==
  ASSUME Enr!EnrollmentAssumption
  PROVE  /\ Cap \in Nat /\ Cap >= 1 /\ MaxDays \in Nat /\ MaxDays >= 1 /\ MaxChanges \in Nat /\ MaxModes \in Nat
         /\ MaxRestarts \in Nat /\ Choices \subseteq Actions
         /\ \A r \in Runs : r \notin OwnerCommands /\ r \notin Reevals
         /\ \A c \in OwnerCommands : c \notin Reevals
  BY DEF Enr!EnrollmentAssumption, Actions

-----------------------------------------------------------------------------
(* What a step leaves of the decisions *)

(* Decisions are never lost, and the contact they name stays.                 *)
Grown == \A d \in Deals : /\ Len(history'[d]) >= Len(history[d])
                          /\ \A i \in 1..Len(history[d]) : history'[d][i].chosen = history[d][i].chosen
AutoStays == \A n \in Nat : AutoOn(n)' \subseteq AutoOn(n)

LEMMA HistoryTyped ==
  ASSUME RecordsOk, NEW d \in Deals
  PROVE  /\ history[d] \in Seq(DecisionRows) /\ Len(history[d]) \in Nat /\ DOMAIN history[d] = 1..Len(history[d])
         /\ campaign[d] \in CampaignRows
         /\ \A i \in 1..Len(history[d]) : history[d][i] \in DecisionRows
  BY DEF RecordsOk

LEMMA StillFits ==
  ASSUME RecordsOk, UNCHANGED <<history, campaign>>
  PROVE  RecordsOk' /\ Grown /\ AutoStays /\ Enr!OnFacts
  <1>1. Grown
    BY HistoryTyped DEF Grown
  <1> QED BY <1>1 DEF RecordsOk, AutoStays, AutoOn, Enr!OnFacts

LEMMA CurrentIs ==
  ASSUME RecordsOk, NEW d \in Deals
  PROVE  /\ Enr!Current(d) \in Nat
         /\ Enr!Current(d) = 0 => \A i \in 1..Len(history[d]) : ~Live(history[d][i])
         /\ Enr!Current(d) # 0 => Enr!Current(d) = Len(history[d]) /\ Len(history[d]) \in 1..Len(history[d])
                              /\ Live(history[d][Len(history[d])]) /\ Enr!Last(d) = "pursue"
  <1> DEFINE here == {i \in DOMAIN history[d] : history[d][i].state \notin {"none", "superseded"}}
  <1>1. Enr!Current(d) = IF here = {} THEN 0 ELSE CHOOSE i \in here : TRUE
    BY DEF Enr!Current
  <1>2. \A i \in here : i \in 1..Len(history[d]) /\ Live(history[d][i]) /\ i = Len(history[d])
                        /\ history[d][i].action = "pursue"
    BY HistoryTyped DEF RecordsOk, RecordFits, Live
  <1>3. \A i \in 1..Len(history[d]) : Live(history[d][i]) => i \in here
    BY HistoryTyped DEF Live
  <1>4. Len(history[d]) \in Nat
    BY HistoryTyped
  <1>5. CASE here = {}
    BY <1>1, <1>3, <1>5
  <1>6. CASE here # {}
    <2>1. PICK i : i = CHOOSE j \in here : TRUE
      OBVIOUS
    <2>2. i \in here /\ Enr!Current(d) = i
      BY <1>1, <1>6, <2>1
    <2>3. history[d] # <<>> /\ Enr!Last(d) = history[d][Len(history[d])].action
      BY <1>2, <2>2 DEF Enr!Last
    <2> QED BY <1>2, <1>4, <2>2, <2>3
  <1> QED BY <1>5, <1>6

LEMMA DecisionIs ==
  ASSUME NEW r \in DecisionRows, NEW s \in Enr!EnrollmentStates
  PROVE  /\ [r EXCEPT !.state = s] \in DecisionRows /\ [r EXCEPT !.state = s].state = s
         /\ [r EXCEPT !.state = s].action = r.action /\ [r EXCEPT !.state = s].auto = r.auto
         /\ [r EXCEPT !.state = s].chosen = r.chosen /\ [r EXCEPT !.state = s].day = r.day
  BY DEF DecisionRows

(* An enrollment takes another state.                                         *)
LEMMA MovedFits ==
  ASSUME RecordsOk, NEW d \in Deals, NEW i \in 1..Len(history[d]), history[d][i].state \in Enr!Waiting,
         NEW s \in {"campaign", "waiting", "action"},
         history' = [history EXCEPT ![d][i].state = s],
         \/ s # "campaign" /\ campaign' = campaign
         \/ s = "campaign" /\ campaign' \in [Deals -> CampaignRows] /\ campaign'[d].of = i
            /\ \A e \in Deals \ {d} : campaign'[e] = campaign[e]
  PROVE  RecordsOk' /\ Grown /\ AutoStays
  <1> DEFINE e == [history[d][i] EXCEPT !.state = s]
  <1>1. /\ history[d] \in Seq(DecisionRows) /\ Len(history[d]) \in Nat /\ history \in [Deals -> Seq(DecisionRows)]
        /\ history[d][i] \in DecisionRows /\ campaign[d] \in CampaignRows
    BY HistoryTyped DEF RecordsOk
  <1>2. /\ e \in DecisionRows /\ e.state = s /\ e.action = history[d][i].action /\ e.auto = history[d][i].auto
        /\ e.chosen = history[d][i].chosen /\ e.day = history[d][i].day
    <2>1. s \in Enr!EnrollmentStates
      BY DEF Enr!EnrollmentStates, Enr!Waiting
    <2> QED BY <1>1, <2>1, DecisionIs
  <1>3. history' = [history EXCEPT ![d] = [history[d] EXCEPT ![i] = e]]
    BY <1>1
  <1> HIDE DEF e
  <1>4. /\ [history[d] EXCEPT ![i] = e] \in Seq(DecisionRows) /\ Len([history[d] EXCEPT ![i] = e]) = Len(history[d])
        /\ \A j \in 1..Len(history[d]) : [history[d] EXCEPT ![i] = e][j] = IF j = i THEN e ELSE history[d][j]
    BY <1>1, <1>2, ExceptSeq
  <1>5. /\ history' \in [Deals -> Seq(DecisionRows)] /\ history'[d] \in Seq(DecisionRows) /\ Len(history'[d]) = Len(history[d])
        /\ \A j \in 1..Len(history[d]) : history'[d][j] = IF j = i THEN e ELSE history[d][j]
        /\ \A k \in Deals \ {d} : history'[k] = history[k]
    <2> DEFINE h == [history[d] EXCEPT ![i] = e]
    <2>1. h \in Seq(DecisionRows) /\ history' = [history EXCEPT ![d] = h]
      BY <1>3, <1>4
    <2>2. Len(h) = Len(history[d]) /\ \A j \in 1..Len(history[d]) : h[j] = IF j = i THEN e ELSE history[d][j]
      BY <1>4
    <2> HIDE DEF h
    <2>3. history' \in [Deals -> Seq(DecisionRows)] /\ history'[d] = h /\ \A k \in Deals \ {d} : history'[k] = history[k]
      BY <1>1, <2>1
    <2> QED BY <2>1, <2>2, <2>3
  <1>6. Grown
    BY <1>1, <1>2, <1>5, HistoryTyped DEF Grown
  <1>7. AutoStays
    <2>1. DOMAIN history'[d] = DOMAIN history[d]
      BY <1>1, <1>5
    <2>2. ASSUME NEW n \in Nat, NEW x \in AutoOn(n)' PROVE x \in AutoOn(n)
      <3>1. /\ x \in {<<k, j>> : k \in Deals, j \in 1..(Cardinality(Enr!Procs) + 1)}
            /\ x[2] \in DOMAIN history'[x[1]] /\ history'[x[1]][x[2]].auto /\ history'[x[1]][x[2]].day = n
        BY <2>2 DEF AutoOn
      <3>2. PICK k \in Deals, j \in 1..(Cardinality(Enr!Procs) + 1) : x = <<k, j>>
        BY <3>1
      <3>3. j \in DOMAIN history'[k] /\ history'[k][j].auto /\ history'[k][j].day = n
        BY <3>1, <3>2
      <3>4. j \in DOMAIN history[k] /\ history[k][j].auto /\ history[k][j].day = n
        <4>1. CASE k = d
          <5>1. j \in 1..Len(history[d])
            BY <1>1, <2>1, <3>3, <4>1
          <5> QED BY <1>2, <1>5, <2>1, <3>3, <4>1, <5>1
        <4>2. CASE k # d
          BY <1>5, <3>3, <4>2
        <4> QED BY <4>1, <4>2
      <3> QED BY <3>1, <3>2, <3>4 DEF AutoOn
    <2> QED BY <2>2 DEF AutoStays
  <1>8. ASSUME NEW k \in Deals PROVE RecordFits(history'[k], campaign'[k])
    <2>1. CASE k # d
      BY <1>5, <2>1 DEF RecordsOk
    <2>2. CASE k = d
      <3>1. RecordFits(history[d], campaign[d])
        BY DEF RecordsOk
      <3>2. Live(history[d][i]) /\ i = Len(history[d]) /\ history[d][i].action = "pursue" /\ history[d][i].state # "campaign"
        BY <3>1 DEF RecordFits, Live, Enr!Waiting
      <3>3. \A j \in 1..Len(history[d]) : j # i => ~Live(history[d][j]) /\ history[d][j].state # "campaign"
        BY <3>1, <3>2 DEF RecordFits, Live
      <3>4. campaign[d].state # "pending"
        BY <3>1, <3>2, <3>3 DEF RecordFits
      <3>5. ASSUME NEW j \in 1..Len(history'[d])
            PROVE  /\ Live(history'[d][j]) => j = Len(history'[d]) /\ history'[d][j].action = "pursue"
                   /\ history'[d][j].state = "campaign" => campaign'[d].of = j
                   /\ history'[d][j].auto => j = 1
        <4>1. CASE j = i
          BY <1>2, <1>5, <3>1, <3>2, <4>1 DEF RecordFits
        <4>2. CASE j # i
          BY <1>5, <3>1, <3>3, <4>2 DEF RecordFits
        <4> QED BY <4>1, <4>2
      <3>6. campaign'[d].of \in 0..Len(history'[d])
        BY <1>1, <1>5, <3>1 DEF RecordFits
      <3>7. campaign'[d].state = "pending" => campaign'[d].of # 0 /\ history'[d][campaign'[d].of].state = "campaign"
        BY <1>2, <1>5, <3>4
      <3> QED BY <2>2, <3>5, <3>6, <3>7 DEF RecordFits
    <2> QED BY <2>1, <2>2
  <1>9. campaign' \in [Deals -> CampaignRows]
    BY DEF RecordsOk
  <1> QED BY <1>5, <1>6, <1>7, <1>8, <1>9 DEF RecordsOk

(* A decision is added: the live enrollment before it is superseded, and a    *)
(* Watch or a Pass stops the campaign.                                        *)
LEMMA SupersededIs ==
  ASSUME NEW h \in Seq(DecisionRows), NEW k \in Nat, k = 0 \/ k \in 1..Len(h)
  PROVE  /\ Enr!Superseded(h, k) \in Seq(DecisionRows) /\ Len(Enr!Superseded(h, k)) = Len(h)
         /\ \A j \in 1..Len(h) : /\ j # k => Enr!Superseded(h, k)[j] = h[j]
                                 /\ j = k => Enr!Superseded(h, k)[j].state = "superseded"
                                 /\ Enr!Superseded(h, k)[j].chosen = h[j].chosen
                                 /\ Enr!Superseded(h, k)[j].auto = h[j].auto
                                 /\ Enr!Superseded(h, k)[j].day = h[j].day
  <1>1. CASE k = 0
    BY <1>1 DEF Enr!Superseded
  <1>2. CASE k # 0
    <2> DEFINE e == [h[k] EXCEPT !.state = "superseded"]
    <2>1. k \in 1..Len(h) /\ h[k] \in DecisionRows
      BY <1>2
    <2>2. e \in DecisionRows /\ e.state = "superseded" /\ e.chosen = h[k].chosen /\ e.auto = h[k].auto /\ e.day = h[k].day
      BY <2>1, DecisionIs DEF Enr!EnrollmentStates
    <2>3. Enr!Superseded(h, k) = [h EXCEPT ![k] = e]
      BY <1>2 DEF Enr!Superseded
    <2> HIDE DEF e
    <2>4. /\ [h EXCEPT ![k] = e] \in Seq(DecisionRows) /\ Len([h EXCEPT ![k] = e]) = Len(h)
          /\ \A j \in 1..Len(h) : [h EXCEPT ![k] = e][j] = IF j = k THEN e ELSE h[j]
      BY <2>1, <2>2, ExceptSeq
    <2> QED BY <2>2, <2>3, <2>4
  <1> QED BY <1>1, <1>2

LEMMA AppendedIs ==
  ASSUME RecordsOk, NEW d \in Deals, NEW e \in DecisionRows
  PROVE  LET h == Append(Enr!Superseded(history[d], Enr!Current(d)), e) IN
         /\ h \in Seq(DecisionRows) /\ Len(h) = Len(history[d]) + 1 /\ h[Len(h)] = e
         /\ \A j \in 1..Len(history[d]) :
              /\ ~Live(h[j]) /\ h[j].state # "campaign" /\ h[j].chosen = history[d][j].chosen
              /\ h[j].auto = history[d][j].auto /\ h[j].day = history[d][j].day
  <1> DEFINE s == Enr!Superseded(history[d], Enr!Current(d))
             h == Append(s, e)
  <1>1. history[d] \in Seq(DecisionRows) /\ Len(history[d]) \in Nat
    BY HistoryTyped
  <1>2. /\ s \in Seq(DecisionRows) /\ Len(s) = Len(history[d])
        /\ \A j \in 1..Len(history[d]) : /\ j # Enr!Current(d) => s[j] = history[d][j]
                                         /\ j = Enr!Current(d) => s[j].state = "superseded"
                                         /\ s[j].chosen = history[d][j].chosen
                                         /\ s[j].auto = history[d][j].auto
                                         /\ s[j].day = history[d][j].day
    BY <1>1, CurrentIs, SupersededIs
  <1>3. \A j \in 1..Len(history[d]) : ~Live(s[j]) /\ s[j].state # "campaign"
    <2>1. \A j \in 1..Len(history[d]) : j # Enr!Current(d) => ~Live(history[d][j])
      BY CurrentIs DEF RecordsOk, RecordFits
    <2> QED BY <1>2, <2>1 DEF Live
  <1> HIDE DEF s
  <1>4. /\ h \in Seq(DecisionRows) /\ Len(h) = Len(s) + 1 /\ h[Len(s) + 1] = e
        /\ \A j \in 1..Len(s) : h[j] = s[j]
    BY <1>2, AppendProperties
  <1> HIDE DEF h
  <1>5. /\ h \in Seq(DecisionRows) /\ Len(h) = Len(history[d]) + 1 /\ h[Len(h)] = e
        /\ \A j \in 1..Len(history[d]) :
             /\ ~Live(h[j]) /\ h[j].state # "campaign" /\ h[j].chosen = history[d][j].chosen
             /\ h[j].auto = history[d][j].auto /\ h[j].day = history[d][j].day
    BY <1>2, <1>3, <1>4
  <1> QED BY <1>5 DEF h, s

LEMMA StoppedIs ==
  ASSUME NEW c \in CampaignRows, NEW action
  PROVE  /\ Enr!StoppedBy(c, action) \in CampaignRows /\ Enr!StoppedBy(c, action).of = c.of
         /\ Enr!StoppedBy(c, action).state = "pending" => Enr!StoppedBy(c, action) = c /\ (action = "pursue" \/ c.of = 0)
  BY DEF Enr!StoppedBy, CampaignRows

LEMMA ExtendedFits ==
  ASSUME RecordsOk, NEW d \in Deals, NEW e \in DecisionRows, NEW h \in Seq(DecisionRows), NEW c \in CampaignRows,
         e.state # "campaign", Live(e) => e.action = "pursue", e.auto => history[d] = <<>>,
         e.action = "pursue" => c.state # "pending" \/ history[d][c.of].state # "campaign",
         Len(h) = Len(history[d]) + 1, h[Len(h)] = e,
         \A j \in 1..Len(history[d]) :
           /\ ~Live(h[j]) /\ h[j].state # "campaign" /\ h[j].chosen = history[d][j].chosen
           /\ h[j].auto = history[d][j].auto /\ h[j].day = history[d][j].day,
         c.of = campaign[d].of, c.state = "pending" => c = campaign[d] /\ e.action = "pursue",
         history' = [history EXCEPT ![d] = h], campaign' = [campaign EXCEPT ![d] = c]
  PROVE  /\ RecordsOk' /\ Grown /\ Enr!OnFacts /\ Len(history'[d]) = Len(history[d]) + 1
         /\ \A n \in Nat : AutoOn(n)' \subseteq AutoOn(n) \cup {<<d, 1>>}
         /\ \A n \in Nat : ~e.auto \/ n # e.day => AutoOn(n)' \subseteq AutoOn(n)
  <1>1. /\ history[d] \in Seq(DecisionRows) /\ Len(history[d]) \in Nat /\ history \in [Deals -> Seq(DecisionRows)]
        /\ campaign[d] \in CampaignRows /\ campaign \in [Deals -> CampaignRows] /\ RecordFits(history[d], campaign[d])
        /\ DOMAIN history[d] = 1..Len(history[d])
    BY HistoryTyped DEF RecordsOk
  <1>2. Len(h) \in Nat /\ DOMAIN h = 1..Len(h)
    OBVIOUS
  <1>5. /\ history' \in [Deals -> Seq(DecisionRows)] /\ history'[d] = h /\ \A k \in Deals \ {d} : history'[k] = history[k]
        /\ campaign' \in [Deals -> CampaignRows] /\ campaign'[d] = c /\ \A k \in Deals \ {d} : campaign'[k] = campaign[k]
    <2>1. history' \in [Deals -> Seq(DecisionRows)] /\ history'[d] = h /\ \A k \in Deals \ {d} : history'[k] = history[k]
      BY <1>1
    <2>2. /\ campaign' \in [Deals -> CampaignRows] /\ campaign'[d] = c
          /\ \A k \in Deals \ {d} : campaign'[k] = campaign[k]
      BY <1>1
    <2> QED BY <2>1, <2>2
  <1>6. Grown
    <2>1. ASSUME NEW k \in Deals
          PROVE  /\ Len(history'[k]) >= Len(history[k])
                 /\ \A j \in 1..Len(history[k]) : history'[k][j].chosen = history[k][j].chosen
      <3>1. CASE k = d
        BY <1>1, <1>2, <1>5, <3>1
      <3>2. CASE k # d
        <4>1. Len(history[k]) \in Nat /\ history'[k] = history[k]
          BY <1>5, <3>2, HistoryTyped
        <4> QED BY <4>1
      <3> QED BY <3>1, <3>2
    <2> QED BY <2>1 DEF Grown
  <1>7. RecordFits(h, c)
    <2>0. /\ campaign[d].of \in 0..Len(history[d])
          /\ campaign[d].state = "pending" => campaign[d].of # 0 /\ history[d][campaign[d].of].state = "campaign"
      <3>1. RecordFits(history[d], campaign[d])
        BY <1>1
      <3> QED BY <3>1 DEF RecordFits
    <2>1. c.state # "pending"
      BY <2>0
    <2>2. e.state # "campaign" /\ (Live(e) => e.action = "pursue")
      OBVIOUS
    <2>3. e.auto => Len(h) = 1
      BY <1>1, <1>2
    <2>4. \A j \in 1..Len(h) : j \in 1..Len(history[d]) \/ j = Len(h)
      BY <1>1, <1>2
    <2>5. \A j \in 1..Len(h) :
            /\ Live(h[j]) => j = Len(h) /\ h[j].action = "pursue"
            /\ h[j].state = "campaign" => c.of = j
            /\ h[j].auto => j = 1
      <3>1. ASSUME NEW j \in 1..Len(history[d]) PROVE h[j].auto => j = 1
        BY <1>1, <1>2, <3>1 DEF RecordFits
      <3> QED BY <1>2, <2>2, <2>3, <2>4, <3>1
    <2>6. c.of \in 0..Len(h)
      <3>1. c.of \in 0..Len(history[d])
        BY <2>0
      <3> QED BY <1>1, <1>2, <3>1
    <2> QED BY <2>1, <2>5, <2>6 DEF RecordFits
  <1>8. RecordsOk'
    BY <1>5, <1>7 DEF RecordsOk
  <1>9. ASSUME NEW n \in Nat, NEW x \in AutoOn(n)' PROVE x \in AutoOn(n) \/ (x = <<d, 1>> /\ e.auto /\ n = e.day)
    <2>1. /\ x \in {<<k, j>> : k \in Deals, j \in 1..(Cardinality(Enr!Procs) + 1)}
          /\ x[2] \in DOMAIN history'[x[1]] /\ history'[x[1]][x[2]].auto /\ history'[x[1]][x[2]].day = n
      BY <1>9 DEF AutoOn
    <2>2. PICK k \in Deals, j \in 1..(Cardinality(Enr!Procs) + 1) : x = <<k, j>>
      BY <2>1
    <2>3. j \in DOMAIN history'[k] /\ history'[k][j].auto /\ history'[k][j].day = n
      BY <2>1, <2>2
    <2>4. CASE k # d
      BY <1>5, <2>1, <2>2, <2>3, <2>4 DEF AutoOn
    <2>5. CASE k = d /\ j \in 1..Len(history[d])
      <3>1. j \in DOMAIN history[d] /\ history[d][j].auto /\ history[d][j].day = n
        BY <1>1, <1>2, <1>5, <2>3, <2>5
      <3> QED BY <2>1, <2>2, <2>5, <3>1 DEF AutoOn
    <2>6. CASE k = d /\ j \notin 1..Len(history[d])
      <3>1. DOMAIN h = 1..Len(h)
        BY <1>2
      <3>2. j = Len(h) /\ e.auto /\ e.day = n
        BY <1>1, <1>2, <1>5, <2>3, <2>6, <3>1
      <3>3. Len(h) = 1
        BY <1>1, <1>2, <3>2
      <3> QED BY <2>2, <2>6, <3>2, <3>3
    <2> QED BY <2>4, <2>5, <2>6
  <1>10. Enr!OnFacts
    BY <1>1, <1>5 DEF Enr!OnFacts
  <1> QED BY <1>1, <1>2, <1>5, <1>6, <1>8, <1>9, <1>10

LEMMA AppendedFits ==
  ASSUME RecordsOk, NEW d \in Deals, NEW e \in DecisionRows,
         e.state = IF e.action = "pursue" THEN "queued" ELSE "none",
         e.action = "pursue" /\ Enr!Current(d) # 0 => history[d][Enr!Current(d)].state # "campaign",
         e.auto => history[d] = <<>>,
         history' = [history EXCEPT ![d] = Append(Enr!Superseded(history[d], Enr!Current(d)), e)],
         campaign' = [campaign EXCEPT ![d] = Enr!StoppedBy(campaign[d], e.action)]
  PROVE  /\ RecordsOk' /\ Grown /\ Enr!OnFacts /\ Len(history'[d]) = Len(history[d]) + 1
         /\ \A n \in Nat : AutoOn(n)' \subseteq AutoOn(n) \cup {<<d, 1>>}
         /\ \A n \in Nat : ~e.auto \/ n # e.day => AutoOn(n)' \subseteq AutoOn(n)
  <1> DEFINE h == Append(Enr!Superseded(history[d], Enr!Current(d)), e)
             c == Enr!StoppedBy(campaign[d], e.action)
  <1>1. campaign[d] \in CampaignRows /\ RecordFits(history[d], campaign[d])
    BY HistoryTyped DEF RecordsOk
  <1>2. /\ h \in Seq(DecisionRows) /\ Len(h) = Len(history[d]) + 1 /\ h[Len(h)] = e
        /\ \A j \in 1..Len(history[d]) :
             /\ ~Live(h[j]) /\ h[j].state # "campaign" /\ h[j].chosen = history[d][j].chosen
             /\ h[j].auto = history[d][j].auto /\ h[j].day = history[d][j].day
    BY AppendedIs
  <1>3. /\ c \in CampaignRows /\ c.of = campaign[d].of
        /\ c.state = "pending" => c = campaign[d] /\ (e.action = "pursue" \/ c.of = 0)
    BY <1>1, StoppedIs
  <1>4. e.state # "campaign" /\ (Live(e) => e.action = "pursue")
    BY DEF Live
  <1>5. history' = [history EXCEPT ![d] = h] /\ campaign' = [campaign EXCEPT ![d] = c]
    OBVIOUS
  <1> HIDE DEF h, c
  <1>6. c.state = "pending" => /\ c.of \in 1..Len(history[d]) /\ history[d][c.of].state = "campaign"
                               /\ Len(history[d]) \in Nat
    BY <1>1, <1>3, HistoryTyped DEF RecordFits
  <1>7. c.state = "pending" => c = campaign[d] /\ e.action = "pursue"
    BY <1>3, <1>6
  <1>8. c.state # "pending" \/ e.action # "pursue"
    <2>1. c.state = "pending" => Live(history[d][c.of])
      BY <1>6 DEF Live
    <2>2. c.state = "pending" => Enr!Current(d) # 0 /\ Enr!Current(d) = Len(history[d]) /\ c.of = Len(history[d])
      BY <1>1, <1>6, <2>1, CurrentIs DEF RecordFits
    <2> QED BY <1>6, <2>2
  <1> QED BY ONLY <1>2, <1>3, <1>4, <1>5, <1>7, <1>8, RecordsOk, e.auto => history[d] = <<>>, ExtendedFits

-----------------------------------------------------------------------------
(* Who is at work *)

LEMMA ProcIs ==
  ASSUME ProcsFit, NEW p \in Enr!Procs
  PROVE  intake[p] \in IntakeRows /\ WorkFits(intake[p], history) /\ intake \in [Enr!Procs -> IntakeRows]
  BY DEF ProcsFit

LEMMA WorkStays ==
  ASSUME RecordsOk, Grown, NEW r, WorkFits(r, history)
  PROVE  WorkFits(r, history')
  <1>1. ASSUME r.deal \in Deals, r.idx \in 1..Len(history[r.deal])
        PROVE  /\ r.idx \in 1..Len(history'[r.deal])
               /\ history'[r.deal][r.idx].chosen = history[r.deal][r.idx].chosen
    <2>1. Len(history[r.deal]) \in Nat /\ Len(history'[r.deal]) >= Len(history[r.deal])
      BY <1>1, HistoryTyped DEF Grown
    <2>2. Len(history'[r.deal]) \in Int
      BY <2>1
    <2> QED BY <1>1, <2>1 DEF Grown
  <1>2. {"basis", "link", "reload", "allocate"} \subseteq InOrchestration
    BY DEF InOrchestration
  <1> QED BY <1>1, <1>2 DEF WorkFits

LEMMA ProcMoves ==
  ASSUME RecordsOk, ProcsFit, Grown, NEW p \in Enr!Procs, NEW r \in IntakeRows, WorkFits(r, history'),
         intake' = [intake EXCEPT ![p] = r]
  PROVE  ProcsFit'
  <1>1. intake' \in [Enr!Procs -> IntakeRows]
    BY DEF ProcsFit
  <1>2. ASSUME NEW q \in Enr!Procs PROVE WorkFits(intake'[q], history')
    <2>1. CASE q = p
      BY <2>1, ProcIs
    <2>2. CASE q # p
      <3>1. intake'[q] = intake[q] /\ WorkFits(intake[q], history)
        BY <2>2, ProcIs
      <3>2. WorkFits(intake[q], history')
        BY <3>1, WorkStays
      <3> QED BY <3>1, <3>2
    <2> QED BY <2>1, <2>2
  <1> QED BY <1>1, <1>2 DEF ProcsFit

LEMMA ProcStays ==
  ASSUME RecordsOk, ProcsFit, Grown, intake' = intake
  PROVE  ProcsFit'
  <1>1. \A q \in Enr!Procs : WorkFits(intake[q], history')
    BY ProcIs, WorkStays
  <1> QED BY <1>1 DEF ProcsFit

LEMMA IdleFits == Enr!Idle \in IntakeRows /\ \A h : WorkFits(Enr!Idle, h)
  BY DEF Enr!Idle, IntakeRows, ProcPcs, Contacts, Enr!EnrollmentStates, WorkFits, InOrchestration

LEMMA RowMoved ==
  ASSUME NEW r \in IntakeRows, NEW pc \in ProcPcs
  PROVE  /\ [r EXCEPT !.pc = pc] \in IntakeRows
         /\ [r EXCEPT !.pc = pc].pc = pc /\ [r EXCEPT !.pc = pc].deal = r.deal
         /\ [r EXCEPT !.pc = pc].idx = r.idx /\ [r EXCEPT !.pc = pc].contact = r.contact
         /\ [r EXCEPT !.pc = pc].next = r.next
  BY DEF IntakeRows

LEMMA GoFits ==
  ASSUME RecordsOk, ProcsFit, Grown, NEW p \in Enr!Procs, NEW pc \in {"link", "reload", "allocate", "end"},
         pc # "end" => intake[p].pc \in {"basis", "link", "reload"}, Enr!Go(p, pc)
  PROVE  ProcsFit'
  <1> DEFINE r == [intake[p] EXCEPT !.pc = pc]
  <1>1. intake[p] \in IntakeRows /\ WorkFits(intake[p], history) /\ intake \in [Enr!Procs -> IntakeRows]
    BY ProcIs
  <1>2. /\ r \in IntakeRows /\ r.pc = pc /\ r.deal = intake[p].deal /\ r.idx = intake[p].idx
        /\ r.contact = intake[p].contact
    <2>1. pc \in ProcPcs
      BY DEF ProcPcs
    <2> QED BY <1>1, <2>1, RowMoved
  <1>3. intake' = [intake EXCEPT ![p] = r]
    BY <1>1 DEF Enr!Go
  <1> HIDE DEF r
  <1>4. WorkFits(r, history)
    BY <1>1, <1>2 DEF WorkFits, InOrchestration
  <1>5. WorkFits(r, history')
    BY <1>4, WorkStays
  <1> QED BY <1>2, <1>3, <1>5, ProcMoves

LEMMA SettleFits ==
  ASSUME RecordsOk, ProcsFit, Grown, NEW p \in Enr!Procs, NEW next \in {"waiting", "action"},
         intake[p].pc \in InOrchestration, Enr!Settle(p, next)
  PROVE  ProcsFit'
  <1> DEFINE r == [intake[p] EXCEPT !.pc = "settle", !.next = next]
  <1>1. intake[p] \in IntakeRows /\ WorkFits(intake[p], history)
    BY ProcIs
  <1>2. /\ r \in IntakeRows /\ r.pc = "settle" /\ r.deal = intake[p].deal /\ r.idx = intake[p].idx
        /\ r.next = next
    BY <1>1 DEF IntakeRows, ProcPcs
  <1>3. intake' = [intake EXCEPT ![p] = r]
    BY DEF Enr!Settle
  <1> HIDE DEF r
  <1>4. WorkFits(r, history)
    BY <1>1, <1>2 DEF WorkFits, InOrchestration
  <1>5. WorkFits(r, history')
    BY <1>4, WorkStays
  <1> QED BY <1>2, <1>3, <1>5, ProcMoves

-----------------------------------------------------------------------------
(* Runs, re-evaluations and the count of a day *)

LEMMA RunIs ==
  ASSUME RunsFit, NEW v \in Runs \cup Reevals
  PROVE  pursuing[v] \in RunRows /\ pursuing \in [Runs \cup Reevals -> RunRows]
  BY DEF RunsFit

LEMMA ListStays ==
  ASSUME RecordsOk, Grown, NEW v \in RunRows, ListFits(v, history)
  PROVE  ListFits(v, history')
  <1>1. ASSUME NEW d \in v.todo PROVE v.revs[d] \in 1..Len(history'[d])
    <2>1. d \in Deals /\ v.revs[d] \in 1..Len(history[d])
      BY <1>1 DEF ListFits, RunRows
    <2>2. Len(history[d]) \in Nat /\ Len(history'[d]) >= Len(history[d])
      BY <2>1, HistoryTyped DEF Grown
    <2> QED BY <2>1, <2>2
  <1> QED BY <1>1 DEF ListFits

LEMMA RunMoves ==
  ASSUME Enr!EnrollmentAssumption, RecordsOk, RunsFit, Grown, NEW v \in Runs \cup Reevals, NEW x \in RunRows,
         pursuing' = [pursuing EXCEPT ![v] = x], mode' = mode, rows' \subseteq RowSet, IsFiniteSet(rows'),
         v \in Reevals => ListFits(x, history') /\ late' = late,
         v \in Runs => /\ late' \in [Runs -> Nat] /\ HeardFits(x, late'[v], mode.id)
                       /\ \A r \in Runs \ {v} : late'[r] = late[r]
  PROVE  RunsFit'
  <1>1. pursuing' \in [Runs \cup Reevals -> RunRows]
    BY DEF RunsFit
  <1>2. \A w \in (Runs \cup Reevals) \ {v} : pursuing'[w] = pursuing[w]
    BY DEF RunsFit
  <1>3. pursuing'[v] = x
    BY RunIs
  <1>4. late' \in [Runs -> Nat]
    BY DEF RunsFit
  <1>5. ASSUME NEW w \in Reevals PROVE ListFits(pursuing'[w], history')
    <2>1. CASE w = v
      BY <1>3, <2>1
    <2>2. CASE w # v
      <3>1. pursuing'[w] = pursuing[w] /\ pursuing[w] \in RunRows /\ ListFits(pursuing[w], history)
        BY <1>2, <2>2, RunIs DEF RunsFit
      <3>2. ListFits(pursuing[w], history')
        BY <3>1, ListStays
      <3> QED BY <3>1, <3>2
    <2> QED BY <2>1, <2>2
  <1>6. ASSUME NEW r \in Runs PROVE HeardFits(pursuing'[r], late'[r], mode'.id)
    <2>1. CASE r = v
      BY <1>3, <2>1
    <2>2. CASE r # v
      <3>1. pursuing'[r] = pursuing[r] /\ HeardFits(pursuing[r], late[r], mode.id)
        BY <1>2, <2>2 DEF RunsFit
      <3>2. late'[r] = late[r]
        BY <2>2 DEF Enr!EnrollmentAssumption
      <3> QED BY <3>1, <3>2
    <2> QED BY <2>1, <2>2
  <1> QED BY <1>1, <1>4, <1>5, <1>6 DEF RunsFit

LEMMA RunsStay ==
  ASSUME EnrollmentInv, Grown, UNCHANGED <<rows, pursuing, late>>, mode'.id \in Nat, mode'.id >= mode.id
  PROVE  RunsFit'
  <1>1. ASSUME NEW w \in Reevals PROVE ListFits(pursuing[w], history')
    BY RunIs, ListStays DEF EnrollmentInv, RunsFit
  <1>2. ASSUME NEW r \in Runs PROVE HeardFits(pursuing[r], late[r], mode'.id)
    <2>1. pursuing[r].id \in Nat /\ mode.id \in Nat /\ HeardFits(pursuing[r], late[r], mode.id)
      BY RunIs DEF EnrollmentInv, RunsFit, RunRows, WorldFits
    <2> QED BY <2>1 DEF HeardFits
  <1> QED BY <1>1, <1>2 DEF EnrollmentInv, RunsFit

LEMMA CapStays ==
  ASSUME Enr!EnrollmentAssumption, CapFits, AutoStays
  PROVE  CapFits'
  <1>1. ASSUME NEW n \in Nat PROVE IsFiniteSet(AutoOn(n)') /\ Cardinality(AutoOn(n)') <= Cap
    <2>1. IsFiniteSet(AutoOn(n)) /\ Cardinality(AutoOn(n)) <= Cap /\ AutoOn(n)' \subseteq AutoOn(n)
      BY DEF CapFits, AutoStays
    <2>2. IsFiniteSet(AutoOn(n)') /\ Cardinality(AutoOn(n)') <= Cardinality(AutoOn(n))
      BY <2>1, FS_Subset
    <2>3. Cardinality(AutoOn(n)') \in Nat /\ Cardinality(AutoOn(n)) \in Nat /\ Cap \in Nat
      BY <2>1, <2>2, FS_CardinalityType, Bounds
    <2> QED BY <2>1, <2>2, <2>3
  <1> QED BY <1>1 DEF CapFits

LEMMA CapCounts ==
  ASSUME Enr!EnrollmentAssumption, CapFits, NEW d \in Deals, NEW day0 \in Nat, Cardinality(AutoOn(day0)) < Cap,
         \A n \in Nat : AutoOn(n)' \subseteq AutoOn(n) \cup {<<d, 1>>},
         \A n \in Nat : n # day0 => AutoOn(n)' \subseteq AutoOn(n)
  PROVE  CapFits'
  <1>1. ASSUME NEW n \in Nat PROVE IsFiniteSet(AutoOn(n)') /\ Cardinality(AutoOn(n)') <= Cap
    <2>1. IsFiniteSet(AutoOn(n)) /\ Cardinality(AutoOn(n)) <= Cap /\ Cap \in Nat /\ Cardinality(AutoOn(n)) \in Nat
      BY FS_CardinalityType, Bounds DEF CapFits
    <2>2. CASE n # day0
      <3>1. IsFiniteSet(AutoOn(n)') /\ Cardinality(AutoOn(n)') <= Cardinality(AutoOn(n))
        BY <2>1, <2>2, FS_Subset
      <3>2. Cardinality(AutoOn(n)') \in Nat
        BY <3>1, FS_CardinalityType
      <3> QED BY <2>1, <3>1, <3>2
    <2>3. CASE n = day0
      <3>1. /\ IsFiniteSet(AutoOn(n) \cup {<<d, 1>>})
            /\ Cardinality(AutoOn(n) \cup {<<d, 1>>}) \in {Cardinality(AutoOn(n)), Cardinality(AutoOn(n)) + 1}
        BY <2>1, FS_AddElement
      <3>2. /\ IsFiniteSet(AutoOn(n)')
            /\ Cardinality(AutoOn(n)') <= Cardinality(AutoOn(n) \cup {<<d, 1>>})
        BY <3>1, FS_Subset
      <3>3. Cardinality(AutoOn(n)') \in Nat
        BY <3>2, FS_CardinalityType
      <3>4. Cardinality(AutoOn(n)) < Cap
        BY <2>3
      <3> QED BY <2>1, <3>1, <3>2, <3>3, <3>4
    <2> QED BY <2>2, <2>3
  <1> QED BY <1>1 DEF CapFits

-----------------------------------------------------------------------------
(* What the writer of decisions does *)

LEMMA RecordDoes ==
  ASSUME Enr!EnrollmentAssumption, WorldFits, RecordsOk, ProcsFit, CapFits, NEW p \in Enr!Procs, NEW d \in Deals,
         NEW action \in Actions, NEW key \in Keys, NEW expected, NEW ref \in Contacts, NEW auto \in BOOLEAN,
         auto => \/ \E j \in DOMAIN history[d] : history[d][j].key = key
                 \/ history[d] = <<>> /\ Enr!AutoToday(day) < Cap,
         Enr!RecordOwner(p, d, action, key, expected, ref, auto)
  PROVE  RecordsOk' /\ Grown /\ Enr!OnFacts /\ ProcsFit' /\ CapFits'
  <1> DEFINE same == {i \in DOMAIN history[d] : history[d][i].key = key}
             i == Enr!Current(d)
             old == CHOOSE j \in same : TRUE
             e == Enr!Decision(action, key, auto, ref)
             h == Append(Enr!Superseded(history[d], i), e)
             moved(j) == [intake[p] EXCEPT
               !.pc = IF action = "pursue" /\ history[d][j].state \in Enr!Waiting THEN "load" ELSE "end",
               !.deal = d, !.idx = j, !.st = history[d][j].state, !.ref = ref]
             refused == [Enr!Idle EXCEPT !.pc = "end", !.deal = d]
             begun == [intake[p] EXCEPT !.pc = IF action = "pursue" THEN "load" ELSE "end",
                                      !.deal = d, !.idx = Len(h), !.st = "queued", !.ref = ref]
  <1>1. \/ \E j \in 1..Len(history[d]) : intake' = [intake EXCEPT ![p] = moved(j)] /\ UNCHANGED <<history, campaign>>
        \/ intake' = [intake EXCEPT ![p] = refused] /\ UNCHANGED <<history, campaign>>
        \/ /\ action = "pursue" /\ i # 0 => Enr!RetryChoice(d, i, ref)
           /\ same = {}
           /\ history' = [history EXCEPT ![d] = h]
           /\ campaign' = [campaign EXCEPT ![d] = Enr!StoppedBy(campaign[d], action)]
           /\ intake' = [intake EXCEPT ![p] = begun]
    <2>1. DOMAIN history[d] = 1..Len(history[d])
      BY HistoryTyped
    <2>2. same # {} => old \in 1..Len(history[d])
      BY <2>1
    <2>3. i # 0 => i \in 1..Len(history[d])
      BY CurrentIs
    <2>4. CASE same # {}
      <3>1. \/ intake' = [intake EXCEPT ![p] = moved(old)] /\ UNCHANGED <<history, campaign>>
            \/ intake' = [intake EXCEPT ![p] = refused] /\ UNCHANGED <<history, campaign>>
        BY <2>4 DEF Enr!RecordOwner
      <3> QED BY <2>2, <2>4, <3>1
    <2>5. CASE same = {} /\ (fact[d].rev # expected \/ Enr!Passed(d))
      BY <2>5 DEF Enr!RecordOwner
    <2>6. CASE same = {} /\ fact[d].rev = expected /\ ~Enr!Passed(d) /\ action = "pursue" /\ i # 0 /\ ~Enr!RetryChoice(d, i, ref)
      <3>1. intake' = [intake EXCEPT ![p] = moved(i)] /\ UNCHANGED <<history, campaign>>
        BY <2>6 DEF Enr!RecordOwner
      <3> QED BY <2>3, <2>6, <3>1
    <2>7. CASE /\ same = {} /\ fact[d].rev = expected /\ ~Enr!Passed(d)
               /\ action = "pursue" /\ i # 0 => Enr!RetryChoice(d, i, ref)
      BY <2>7 DEF Enr!RecordOwner
    <2> QED BY <2>4, <2>5, <2>6, <2>7
  <1>2. intake[p] \in IntakeRows
    BY ProcIs
  <1>3. CASE \E j \in 1..Len(history[d]) : intake' = [intake EXCEPT ![p] = moved(j)] /\ UNCHANGED <<history, campaign>>
    <2>1. PICK j \in 1..Len(history[d]) : intake' = [intake EXCEPT ![p] = moved(j)] /\ UNCHANGED <<history, campaign>>
      BY <1>3
    <2>2. RecordsOk' /\ Grown /\ AutoStays /\ Enr!OnFacts
      BY <2>1, StillFits
    <2>3. history[d][j].state \in Enr!EnrollmentStates /\ j \in Nat
      BY HistoryTyped DEF DecisionRows
    <2>4. moved(j) \in IntakeRows /\ moved(j).pc \in {"load", "end"} /\ moved(j).deal = d /\ moved(j).idx = j
      BY <1>2, <2>3 DEF IntakeRows, ProcPcs
    <2> HIDE DEF moved
    <2>5. WorkFits(moved(j), history')
      BY <2>1, <2>4 DEF WorkFits
    <2>6. ProcsFit'
      BY <2>1, <2>2, <2>4, <2>5, ProcMoves
    <2> QED BY <2>2, <2>6, CapStays
  <1>4. CASE intake' = [intake EXCEPT ![p] = refused] /\ UNCHANGED <<history, campaign>>
    <2>1. RecordsOk' /\ Grown /\ AutoStays /\ Enr!OnFacts
      BY <1>4, StillFits
    <2>2. refused \in IntakeRows /\ refused.pc = "end"
      BY IdleFits DEF IntakeRows, ProcPcs, Enr!Idle
    <2> HIDE DEF refused
    <2>3. WorkFits(refused, history')
      BY <2>2 DEF WorkFits, InOrchestration
    <2>4. ProcsFit'
      BY <1>4, <2>1, <2>2, <2>3, ProcMoves
    <2> QED BY <2>1, <2>4, CapStays
  <1>5. CASE /\ action = "pursue" /\ i # 0 => Enr!RetryChoice(d, i, ref)
             /\ same = {}
             /\ history' = [history EXCEPT ![d] = h]
             /\ campaign' = [campaign EXCEPT ![d] = Enr!StoppedBy(campaign[d], action)]
             /\ intake' = [intake EXCEPT ![p] = begun]
    <2>1. /\ e \in DecisionRows /\ e.state = (IF e.action = "pursue" THEN "queued" ELSE "none")
          /\ e.action = action /\ e.auto = auto /\ e.day = day
      BY DEF Enr!Decision, DecisionRows, WorldFits, Enr!EnrollmentStates, Enr!Waiting
    <2>2. e.action = "pursue" /\ i # 0 => history[d][i].state # "campaign"
      BY <1>5, <2>1 DEF Enr!RetryChoice, Enr!Waiting
    <2>3. auto => history[d] = <<>> /\ Enr!AutoToday(day) < Cap
      BY <1>5
    <2> HIDE DEF e
    <2>4. /\ RecordsOk' /\ Grown /\ Enr!OnFacts /\ Len(history'[d]) = Len(history[d]) + 1
          /\ \A n \in Nat : AutoOn(n)' \subseteq AutoOn(n) \cup {<<d, 1>>}
          /\ \A n \in Nat : ~e.auto \/ n # e.day => AutoOn(n)' \subseteq AutoOn(n)
      <3>1. history' = [history EXCEPT ![d] = Append(Enr!Superseded(history[d], Enr!Current(d)), e)]
        BY <1>5
      <3>2. campaign' = [campaign EXCEPT ![d] = Enr!StoppedBy(campaign[d], e.action)]
        BY <1>5, <2>1
      <3>3. e.auto => history[d] = <<>>
        BY <2>1, <2>3
      <3>4. e.action = "pursue" /\ Enr!Current(d) # 0 => history[d][Enr!Current(d)].state # "campaign"
        BY <2>2
      <3> QED BY <2>1, <3>1, <3>2, <3>3, <3>4, AppendedFits
    <2>5. /\ Len(h) = Len(history'[d]) /\ Len(h) \in Nat /\ Len(h) \in 1..Len(history'[d])
      <3>1. history \in [Deals -> Seq(DecisionRows)]
        BY DEF RecordsOk
      <3>2. history'[d] = h
        BY <1>5, <3>1
      <3>3. Len(history[d]) \in Nat
        BY HistoryTyped
      <3> QED BY <2>4, <3>2, <3>3
    <2> HIDE DEF h
    <2>6. begun \in IntakeRows /\ begun.pc \in {"load", "end"} /\ begun.deal = d /\ begun.idx = Len(h)
      BY <1>2, <2>5 DEF IntakeRows, ProcPcs, Enr!EnrollmentStates, Enr!Waiting
    <2> HIDE DEF begun
    <2>7. WorkFits(begun, history')
      BY <2>5, <2>6 DEF WorkFits
    <2>8. ProcsFit'
      BY <1>5, <2>4, <2>6, <2>7, ProcMoves
    <2>9. CASE ~auto
      <3>1. AutoStays
        BY <2>1, <2>4, <2>9 DEF AutoStays
      <3> QED BY <2>4, <2>8, <3>1, CapStays
    <2>10. CASE auto
      <3>1. day \in Nat /\ Cardinality(AutoOn(day)) < Cap
        <4>1. day \in Nat /\ Enr!AutoToday(day) < Cap
          BY <2>3, <2>10 DEF WorldFits
        <4> QED BY <4>1, AutoCounts
      <3>2. CapFits'
        BY <2>1, <2>4, <3>1, CapCounts
      <3> QED BY <2>4, <2>8, <3>2
    <2> QED BY <2>9, <2>10
  <1> QED BY <1>1, <1>3, <1>4, <1>5

-----------------------------------------------------------------------------
(* The owner and the orchestration *)

LEMMA WorldStays == ASSUME WorldFits, UNCHANGED Enr!world PROVE WorldFits'
  BY DEF WorldFits, Enr!world

LEMMA QuietRuns ==
  ASSUME EnrollmentInv, Grown, UNCHANGED <<Enr!world, rows, pursuing, late>>
  PROVE  RunsFit'
  <1>1. mode'.id \in Nat /\ mode'.id >= mode.id
    BY DEF EnrollmentInv, WorldFits, Enr!world
  <1> QED BY <1>1, RunsStay

LEMMA ShowFits ==
  ASSUME Enr!EnrollmentAssumption, EnrollmentInv, NEW c \in OwnerCommands, NEW d \in Deals, Enr!Show(c, d)
  PROVE  EnrollmentInv' /\ Enr!OnFacts
  <1> DEFINE r == [intake[c] EXCEPT !.pc = "shown", !.deal = d, !.rev = fact[d].rev]
  <1>1. c \in Enr!Procs /\ intake[c] \in IntakeRows /\ WorkFits(intake[c], history)
    BY ProcIs DEF Enr!Procs, EnrollmentInv
  <1>2. fact[d].rev \in Nat
    BY DEF EnrollmentInv, WorldFits, Facts
  <1>3. r \in IntakeRows /\ r.pc = "shown" /\ r.deal = d
    BY <1>1, <1>2 DEF IntakeRows, ProcPcs
  <1>4. intake' = [intake EXCEPT ![c] = r] /\ UNCHANGED <<Enr!world, history, campaign, rows, pursuing, late>>
    BY DEF Enr!Show
  <1> HIDE DEF r
  <1>5. RecordsOk' /\ Grown /\ AutoStays /\ Enr!OnFacts
    BY <1>4, StillFits DEF EnrollmentInv
  <1>6. WorkFits(r, history')
    BY <1>3 DEF WorkFits, InOrchestration
  <1>7. ProcsFit'
    BY <1>1, <1>3, <1>4, <1>5, <1>6, ProcMoves DEF EnrollmentInv
  <1> QED BY <1>4, <1>5, <1>7, WorldStays, QuietRuns, CapStays DEF EnrollmentInv

LEMMA CommandFits ==
  ASSUME Enr!EnrollmentAssumption, EnrollmentInv, NEW c \in OwnerCommands, NEW action \in Choices, NEW ref \in 0..2,
         Enr!Command(c, action, ref)
  PROVE  EnrollmentInv' /\ Enr!OnFacts
  <1>1. c \in Enr!Procs /\ intake[c] \in IntakeRows /\ WorkFits(intake[c], history) /\ intake[c].pc = "shown"
    BY ProcIs DEF Enr!Procs, EnrollmentInv, Enr!Command
  <1>2. UNCHANGED <<Enr!world, rows, pursuing, late>>
    BY DEF Enr!Command
  <1>3. CASE down
    <2> DEFINE r == [Enr!Idle EXCEPT !.pc = "end"]
    <2>1. intake' = [intake EXCEPT ![c] = r] /\ UNCHANGED <<history, campaign>>
      BY <1>3 DEF Enr!Command
    <2>2. r \in IntakeRows /\ r.pc = "end"
      BY IdleFits DEF IntakeRows, ProcPcs, Enr!Idle
    <2> HIDE DEF r
    <2>3. RecordsOk' /\ Grown /\ AutoStays /\ Enr!OnFacts
      BY <2>1, StillFits DEF EnrollmentInv
    <2>4. WorkFits(r, history')
      BY <2>2 DEF WorkFits, InOrchestration
    <2>5. ProcsFit'
      BY <1>1, <2>1, <2>2, <2>3, <2>4, ProcMoves DEF EnrollmentInv
    <2> QED BY <1>2, <2>3, <2>5, WorldStays, QuietRuns, CapStays DEF EnrollmentInv
  <1>4. CASE ~down
    <2>1. Enr!RecordOwner(c, intake[c].deal, action, <<0, KeyOf[c]>>, intake[c].rev, IF action = "pursue" THEN ref ELSE 0,
                      FALSE)
      BY <1>4 DEF Enr!Command
    <2>2. intake[c].deal \in Deals /\ action \in Actions /\ (IF action = "pursue" THEN ref ELSE 0) \in Contacts
      BY <1>1, Bounds DEF WorkFits, Contacts
    <2>3. <<0, KeyOf[c]>> \in Keys
      BY DEF Keys
    <2>4. RecordsOk' /\ Grown /\ Enr!OnFacts /\ ProcsFit' /\ CapFits'
      BY <1>1, <2>1, <2>2, <2>3, RecordDoes DEF EnrollmentInv
    <2> QED BY <1>2, <2>4, WorldStays, QuietRuns DEF EnrollmentInv
  <1> QED BY <1>3, <1>4

LEMMA StepFits ==
  ASSUME Enr!EnrollmentAssumption, EnrollmentInv, ProcsFit', UNCHANGED <<Enr!world, history, campaign, rows, pursuing, late>>
  PROVE  EnrollmentInv' /\ Enr!OnFacts
  <1>1. RecordsOk' /\ Grown /\ AutoStays /\ Enr!OnFacts
    BY StillFits DEF EnrollmentInv
  <1> QED BY <1>1, WorldStays, QuietRuns, CapStays DEF EnrollmentInv

LEMMA LoadFits ==
  ASSUME Enr!EnrollmentAssumption, EnrollmentInv, NEW p \in Enr!Procs, Enr!Load(p)
  PROVE  EnrollmentInv' /\ Enr!OnFacts
  <1> DEFINE d == intake[p].deal
             r == [intake[p] EXCEPT !.pc = "basis", !.rev = fact[d].rev, !.contact = fact[d].contact]
  <1>1. /\ intake[p] \in IntakeRows /\ WorkFits(intake[p], history) /\ intake[p].pc = "load"
        /\ d \in Deals /\ intake[p].idx \in 1..Len(history[d])
    BY ProcIs DEF EnrollmentInv, Enr!Load, WorkFits, InOrchestration
  <1>2. UNCHANGED <<Enr!world, history, campaign, rows, pursuing, late>> /\ Grown
    BY StillFits DEF Enr!Load, Enr!Steady, EnrollmentInv
  <1>3. \/ \E next \in {"waiting", "action"} : Enr!Settle(p, next)
        \/ Enr!RecipientChosen(p) /\ intake' = [intake EXCEPT ![p] = r]
    BY DEF Enr!Load
  <1>4. ASSUME NEW next \in {"waiting", "action"}, Enr!Settle(p, next) PROVE ProcsFit'
    BY <1>1, <1>2, <1>4, SettleFits DEF EnrollmentInv, InOrchestration
  <1>5. ASSUME Enr!RecipientChosen(p), intake' = [intake EXCEPT ![p] = r] PROVE ProcsFit'
    <2>1. fact[d].rev \in Nat /\ fact[d].contact \in Contacts
      BY <1>1 DEF EnrollmentInv, WorldFits, Facts
    <2>2. history[d][intake[p].idx].chosen \in {0, fact[d].contact}
      BY <1>5 DEF Enr!RecipientChosen
    <2>3. /\ r \in IntakeRows /\ r.pc = "basis" /\ r.deal = d /\ r.idx = intake[p].idx
          /\ r.contact = fact[d].contact
      BY <1>1, <2>1 DEF IntakeRows, ProcPcs
    <2>4. WorkFits(r, history')
      <3> HIDE DEF r
      <3> QED BY <1>1, <1>2, <2>2, <2>3 DEF WorkFits
    <2> QED BY <1>2, <1>5, <2>3, <2>4, ProcMoves DEF EnrollmentInv
  <1>6. ProcsFit'
    BY <1>3, <1>4, <1>5
  <1> QED BY <1>2, <1>6, StepFits

LEMMA BasisFits ==
  ASSUME Enr!EnrollmentAssumption, EnrollmentInv, NEW p \in Enr!Procs, Enr!Basis(p)
  PROVE  EnrollmentInv' /\ Enr!OnFacts
  <1>1. intake[p].pc = "basis" /\ UNCHANGED <<Enr!world, history, campaign, rows, pursuing, late>> /\ Grown
    BY StillFits DEF Enr!Basis, Enr!Steady, EnrollmentInv
  <1>2. \/ \E next \in {"waiting", "action"} : Enr!Settle(p, next)
        \/ Enr!Go(p, "link")
    BY DEF Enr!Basis
  <1>3. ASSUME NEW next \in {"waiting", "action"}, Enr!Settle(p, next) PROVE ProcsFit'
    BY <1>1, <1>3, SettleFits DEF EnrollmentInv, InOrchestration
  <1>4. ASSUME Enr!Go(p, "link") PROVE ProcsFit'
    BY <1>1, <1>4, GoFits DEF EnrollmentInv
  <1> QED BY <1>1, <1>2, <1>3, <1>4, StepFits

LEMMA ReloadFits ==
  ASSUME Enr!EnrollmentAssumption, EnrollmentInv, NEW p \in Enr!Procs, Enr!Reload(p)
  PROVE  EnrollmentInv' /\ Enr!OnFacts
  <1>1. intake[p].pc = "reload" /\ UNCHANGED <<Enr!world, history, campaign, rows, pursuing, late>> /\ Grown
    BY StillFits DEF Enr!Reload, Enr!Steady, EnrollmentInv
  <1>2. \/ \E next \in {"waiting", "action"} : Enr!Settle(p, next)
        \/ Enr!Go(p, "allocate")
    BY DEF Enr!Reload
  <1>3. ASSUME NEW next \in {"waiting", "action"}, Enr!Settle(p, next) PROVE ProcsFit'
    BY <1>1, <1>3, SettleFits DEF EnrollmentInv, InOrchestration
  <1>4. ASSUME Enr!Go(p, "allocate") PROVE ProcsFit'
    BY <1>1, <1>4, GoFits DEF EnrollmentInv
  <1> QED BY <1>1, <1>2, <1>3, <1>4, StepFits

LEMMA LinkFits ==
  ASSUME Enr!EnrollmentAssumption, EnrollmentInv, NEW p \in Enr!Procs, Enr!Link(p)
  PROVE  EnrollmentInv' /\ Enr!OnFacts
  <1>1. /\ intake[p].pc = "link" /\ intake[p].deal \in Deals
        /\ UNCHANGED <<rule, down, mode, day, counters, history, campaign, rows, pursuing, late>>
    BY ProcIs DEF Enr!Link, EnrollmentInv, WorkFits, InOrchestration
  <1>2. RecordsOk' /\ Grown /\ AutoStays /\ Enr!OnFacts
    BY <1>1, StillFits DEF EnrollmentInv
  <1>3. \/ Enr!Settle(p, "action") /\ UNCHANGED fact
        \/ Enr!Go(p, "reload") /\ fact' = [fact EXCEPT ![intake[p].deal].crm = "linked"]
    BY DEF Enr!Link
  <1>4. ProcsFit'
    <2>1. CASE Enr!Settle(p, "action")
      BY <1>1, <1>2, <2>1, SettleFits DEF EnrollmentInv, InOrchestration
    <2>2. CASE Enr!Go(p, "reload")
      BY <1>1, <1>2, <2>2, GoFits DEF EnrollmentInv
    <2> QED BY <1>3, <2>1, <2>2
  <1>5. fact' \in [Deals -> Facts] /\ \A d \in Deals : fact'[d].rev = fact[d].rev
    BY <1>1, <1>3 DEF EnrollmentInv, WorldFits, Facts
  <1>6. WorldFits'
    BY <1>1, <1>5 DEF EnrollmentInv, WorldFits
  <1>7. RunsFit'
    <2>1. mode'.id \in Nat /\ mode'.id >= mode.id
      BY <1>1 DEF EnrollmentInv, WorldFits
    <2> QED BY <1>1, <1>2, <2>1, RunsStay
  <1> QED BY <1>2, <1>4, <1>6, <1>7, CapStays DEF EnrollmentInv

LEMMA AllocateFits ==
  ASSUME Enr!EnrollmentAssumption, EnrollmentInv, NEW p \in Enr!Procs, Enr!Allocate(p)
  PROVE  EnrollmentInv' /\ Enr!OnFacts
  <1> DEFINE d == intake[p].deal
             i == intake[p].idx
             k == [of |-> i, state |-> "pending", contact |-> intake[p].contact, rev |-> intake[p].rev]
  <1>1. /\ intake[p] \in IntakeRows /\ WorkFits(intake[p], history) /\ intake[p].pc = "allocate"
        /\ d \in Deals /\ i \in 1..Len(history[d])
        /\ history[d][i].chosen \in {0, intake[p].contact}
    BY ProcIs DEF EnrollmentInv, Enr!Allocate, WorkFits, InOrchestration
  <1>2. UNCHANGED <<Enr!world, rows, pursuing, late>>
    BY DEF Enr!Allocate
  <1>3. \/ /\ Enr!Allocatable(p) /\ campaign' = [campaign EXCEPT ![d] = k]
           /\ history' = [history EXCEPT ![d][i].state = "campaign"] /\ Enr!Go(p, "end")
        \/ /\ UNCHANGED <<campaign, history>>
           /\ Enr!Go(p, "end") \/ Enr!Settle(p, "action")
    BY DEF Enr!Allocate
  <1>4. CASE /\ UNCHANGED <<campaign, history>>
             /\ Enr!Go(p, "end") \/ Enr!Settle(p, "action")
    <2>1. Grown
      BY <1>4, StillFits DEF EnrollmentInv
    <2>2. ProcsFit'
      <3>1. CASE Enr!Go(p, "end")
        BY <2>1, <3>1, GoFits DEF EnrollmentInv
      <3>2. CASE Enr!Settle(p, "action")
        BY <1>1, <2>1, <3>2, SettleFits DEF EnrollmentInv, InOrchestration
      <3> QED BY <1>4, <3>1, <3>2
    <2> QED BY <1>2, <1>4, <2>2, StepFits
  <1>5. CASE /\ Enr!Allocatable(p) /\ campaign' = [campaign EXCEPT ![d] = k]
             /\ history' = [history EXCEPT ![d][i].state = "campaign"] /\ Enr!Go(p, "end")
    <2>1. history[d][i].state \in Enr!Waiting /\ campaign \in [Deals -> CampaignRows]
      BY <1>5 DEF Enr!Allocatable, EnrollmentInv, RecordsOk
    <2>2. k \in CampaignRows /\ k.of = i
      BY <1>1 DEF CampaignRows, IntakeRows
    <2>3. /\ campaign' \in [Deals -> CampaignRows] /\ campaign'[d] = k
          /\ \A e \in Deals \ {d} : campaign'[e] = campaign[e]
      <3> HIDE DEF k
      <3> QED BY <1>1, <1>5, <2>1, <2>2
    <2>4. RecordsOk' /\ Grown /\ AutoStays
      <3> HIDE DEF k, d, i
      <3> QED BY <1>1, <1>5, <2>1, <2>2, <2>3, MovedFits DEF EnrollmentInv
    <2>5. ProcsFit'
      BY <1>5, <2>4, GoFits DEF EnrollmentInv
    <2>6. ASSUME NEW e \in Deals, campaign[e].of = 0, campaign'[e].of # 0
          PROVE  /\ rule /\ ~fact[e].stop /\ fact[e].crm = "linked"
                 /\ campaign'[e].rev = fact[e].rev /\ campaign'[e].contact = fact[e].contact
                 /\ history[e][campaign'[e].of].chosen \in {0, campaign'[e].contact}
      <3>1. e = d
        BY <2>3, <2>6
      <3> QED BY <1>1, <1>5, <2>3, <3>1 DEF Enr!Allocatable, Enr!StillCurrent
    <2>7. Enr!OnFacts
      BY <2>6 DEF Enr!OnFacts
    <2> QED BY <1>2, <2>4, <2>5, <2>7, WorldStays, QuietRuns, CapStays DEF EnrollmentInv
  <1> QED BY <1>3, <1>4, <1>5

LEMMA SettleEnrollmentFits ==
  ASSUME Enr!EnrollmentAssumption, EnrollmentInv, NEW p \in Enr!Procs, Enr!SettleEnrollment(p)
  PROVE  EnrollmentInv' /\ Enr!OnFacts
  <1> DEFINE d == intake[p].deal
             i == intake[p].idx
             s == intake[p].next
  <1>1. d \in Deals /\ i \in 1..Len(history[d]) /\ s \in {"waiting", "action"}
    BY ProcIs DEF EnrollmentInv, Enr!SettleEnrollment, WorkFits, InOrchestration
  <1>2. UNCHANGED <<Enr!world, campaign, rows, pursuing, late>> /\ Enr!Go(p, "end")
    BY DEF Enr!SettleEnrollment
  <1>3. \/ history' = history
        \/ history[d][i].state \in Enr!Waiting /\ history' = [history EXCEPT ![d][i].state = s]
    BY DEF Enr!SettleEnrollment
  <1>4. RecordsOk' /\ Grown /\ AutoStays
    <2>1. CASE history' = history
      BY <1>2, <2>1, StillFits DEF EnrollmentInv
    <2>2. CASE history[d][i].state \in Enr!Waiting /\ history' = [history EXCEPT ![d][i].state = s]
      <3> HIDE DEF d, i, s
      <3>1. s \in {"campaign", "waiting", "action"} /\ s # "campaign"
        BY <1>1
      <3> QED BY <1>1, <1>2, <2>2, <3>1, MovedFits DEF EnrollmentInv
    <2> QED BY <1>3, <2>1, <2>2
  <1>5. Enr!OnFacts
    BY <1>2 DEF Enr!OnFacts
  <1>6. ProcsFit'
    BY <1>2, <1>4, GoFits DEF EnrollmentInv
  <1> QED BY <1>2, <1>4, <1>5, <1>6, WorldStays, QuietRuns, CapStays DEF EnrollmentInv

-----------------------------------------------------------------------------
(* Re-evaluations and runs *)

LEMMA NoRunFits == Enr!NoRun \in RunRows /\ (\A h : ListFits(Enr!NoRun, h)) /\ Enr!NoRun.pc = "idle" /\ Enr!NoRun.id = 0
  <1>1. [d \in Deals |-> 0] \in [Deals -> Nat] /\ [d \in Deals |-> 0] \in [Deals -> Contacts]
    BY DEF Contacts
  <1> QED BY <1>1 DEF Enr!NoRun, RunRows, RunPcs, Kinds, ListFits

LEMMA RunGoes ==
  ASSUME Enr!EnrollmentAssumption, EnrollmentInv, NEW v \in Runs \cup Reevals, NEW x \in RunRows,
         pursuing' = [pursuing EXCEPT ![v] = x], UNCHANGED <<Enr!world, history, campaign, late>>,
         rows' \subseteq RowSet, IsFiniteSet(rows'), ProcsFit',
         v \in Reevals => ListFits(x, history), v \in Runs => HeardFits(x, late[v], mode.id)
  PROVE  EnrollmentInv' /\ Enr!OnFacts
  <1>1. RecordsOk' /\ Grown /\ AutoStays /\ Enr!OnFacts
    BY StillFits DEF EnrollmentInv
  <1>2. late' \in [Runs -> Nat] /\ history' = history /\ mode' = mode
    BY DEF EnrollmentInv, RunsFit, Enr!world
  <1>3. RunsFit'
    BY <1>1, <1>2, RunMoves DEF EnrollmentInv
  <1> QED BY <1>1, <1>3, WorldStays, CapStays DEF EnrollmentInv

LEMMA RunOnly ==
  ASSUME Enr!EnrollmentAssumption, EnrollmentInv, NEW v \in Runs \cup Reevals, NEW x \in RunRows,
         pursuing' = [pursuing EXCEPT ![v] = x], UNCHANGED <<Enr!world, history, campaign, rows, intake, late>>,
         v \in Reevals => ListFits(x, history), v \in Runs => HeardFits(x, late[v], mode.id)
  PROVE  EnrollmentInv' /\ Enr!OnFacts
  <1>1. Grown
    BY StillFits DEF EnrollmentInv
  <1>2. ProcsFit' /\ rows' \subseteq RowSet /\ IsFiniteSet(rows')
    BY <1>1, ProcStays DEF EnrollmentInv, RunsFit
  <1> QED BY <1>2, RunGoes

LEMMA ListWaitingFits ==
  ASSUME Enr!EnrollmentAssumption, EnrollmentInv, NEW v \in Reevals, Enr!ListWaiting(v)
  PROVE  EnrollmentInv' /\ Enr!OnFacts
  <1> DEFINE x == [pursuing[v] EXCEPT !.pc = "loop", !.todo = {d \in Deals : Enr!Listed(d)},
                                 !.revs = [d \in Deals |-> Enr!Current(d)]]
  <1>1. pursuing[v] \in RunRows /\ v \notin Runs
    BY RunIs, Bounds DEF EnrollmentInv
  <1>2. \A d \in Deals : Enr!Current(d) \in Nat /\ (Enr!Listed(d) => Enr!Current(d) \in 1..Len(history[d]))
    BY CurrentIs DEF EnrollmentInv, Enr!Listed
  <1>3. x \in RunRows /\ x.todo = {d \in Deals : Enr!Listed(d)} /\ \A d \in Deals : x.revs[d] = Enr!Current(d)
    <2>1. [d \in Deals |-> Enr!Current(d)] \in [Deals -> Nat]
      BY <1>2
    <2> QED BY <1>1, <2>1 DEF RunRows, RunPcs
  <1>4. pursuing' = [pursuing EXCEPT ![v] = x] /\ UNCHANGED <<Enr!world, history, campaign, rows, intake, late>>
    BY DEF Enr!ListWaiting
  <1> HIDE DEF x
  <1>5. ListFits(x, history)
    BY <1>2, <1>3 DEF ListFits
  <1> QED BY <1>1, <1>3, <1>4, <1>5, RunOnly

LEMMA ReevaluateFits ==
  ASSUME Enr!EnrollmentAssumption, EnrollmentInv, NEW v \in Reevals, NEW d \in Deals, Enr!Reevaluate(v, d)
  PROVE  EnrollmentInv' /\ Enr!OnFacts
  <1> DEFINE x == [pursuing[v] EXCEPT !.todo = @ \ {d}]
             r == [Enr!Idle EXCEPT !.pc = "load", !.deal = d, !.idx = pursuing[v].revs[d], !.st = "waiting"]
  <1>1. pursuing[v] \in RunRows /\ v \notin Runs /\ v \in Enr!Procs /\ ListFits(pursuing[v], history) /\ d \in pursuing[v].todo
    BY RunIs, Bounds DEF EnrollmentInv, RunsFit, Enr!Procs, Enr!Reevaluate
  <1>2. x \in RunRows /\ x.todo = pursuing[v].todo \ {d} /\ x.revs = pursuing[v].revs
    BY <1>1 DEF RunRows
  <1>3. pursuing[v].revs[d] \in 1..Len(history[d]) /\ pursuing[v].revs[d] \in Nat
    BY <1>1 DEF ListFits
  <1>4. r \in IntakeRows /\ r.pc = "load" /\ r.deal = d /\ r.idx = pursuing[v].revs[d]
    BY <1>3, IdleFits DEF IntakeRows, ProcPcs, Enr!EnrollmentStates, Enr!Waiting, Enr!Idle
  <1>5. /\ pursuing' = [pursuing EXCEPT ![v] = x] /\ intake' = [intake EXCEPT ![v] = r]
        /\ UNCHANGED <<Enr!world, history, campaign, rows, late>>
    BY DEF Enr!Reevaluate
  <1> HIDE DEF x, r
  <1>6. ListFits(x, history)
    BY <1>1, <1>2 DEF ListFits
  <1>7. Grown
    BY <1>5, StillFits DEF EnrollmentInv
  <1>8. WorkFits(r, history')
    BY <1>3, <1>4, <1>5 DEF WorkFits
  <1>9. ProcsFit' /\ rows' \subseteq RowSet /\ IsFiniteSet(rows')
    BY <1>1, <1>4, <1>5, <1>7, <1>8, ProcMoves DEF EnrollmentInv, RunsFit
  <1> QED BY <1>1, <1>2, <1>5, <1>6, <1>9, RunGoes

LEMMA ReevaluationEndsFits ==
  ASSUME Enr!EnrollmentAssumption, EnrollmentInv, NEW v \in Reevals, Enr!ReevaluationEnds(v)
  PROVE  EnrollmentInv' /\ Enr!OnFacts
  <1>1. /\ pursuing' = [pursuing EXCEPT ![v] = Enr!NoRun] /\ intake' = [intake EXCEPT ![v] = Enr!Idle]
        /\ UNCHANGED <<Enr!world, history, campaign, rows, late>> /\ v \in Enr!Procs /\ v \notin Runs
    BY Bounds DEF Enr!ReevaluationEnds, Enr!Procs
  <1>2. Grown
    BY <1>1, StillFits DEF EnrollmentInv
  <1>3. ProcsFit' /\ rows' \subseteq RowSet /\ IsFiniteSet(rows')
    BY <1>1, <1>2, IdleFits, ProcMoves DEF EnrollmentInv, RunsFit
  <1> QED BY <1>1, <1>3, NoRunFits, RunGoes

(* A run before its first record has nothing late.                            *)
LEMMA Punctual ==
  ASSUME EnrollmentInv, NEW r \in Runs
  PROVE  /\ pursuing[r] \in RunRows /\ pursuing[r].id \in Nat /\ mode.id \in Nat /\ pursuing[r].id <= mode.id /\ late[r] \in Nat
         /\ HeardFits(pursuing[r], late[r], mode.id)
         /\ pursuing[r].pc \notin {"check", "complete", "over"} => late[r] = 0
         /\ pursuing[r].pc = "check" /\ mode.id = pursuing[r].id => late[r] = 0
  <1>1. /\ pursuing[r] \in RunRows /\ pursuing[r].id \in Nat /\ mode.id \in Nat /\ late[r] \in Nat
        /\ HeardFits(pursuing[r], late[r], mode.id)
    BY RunIs DEF EnrollmentInv, RunsFit, RunRows, WorldFits
  <1> QED BY <1>1 DEF HeardFits

LEMMA RunReadsFits ==
  ASSUME Enr!EnrollmentAssumption, EnrollmentInv, NEW r \in Runs, Enr!RunReads(r)
  PROVE  EnrollmentInv' /\ Enr!OnFacts
  <1> DEFINE today == {y \in rows : y.day = day /\ y.done}
             x == [Enr!NoRun EXCEPT !.pc = "claim", !.kind = mode.kind, !.id = mode.id, !.day = day,
                                !.seq = Cardinality(today), !.earlier = UNION {y.blocked : y \in today}]
  <1>1. late[r] = 0 /\ mode.id \in Nat /\ r \notin Reevals
    BY Punctual, Bounds DEF Enr!RunReads
  <1>2. Cardinality(today) \in Nat
    <2>1. IsFiniteSet(rows) /\ today \subseteq rows
      BY DEF EnrollmentInv, RunsFit
    <2> QED BY <2>1, FS_Subset, FS_CardinalityType
  <1>3. UNION {y.blocked : y \in today} \subseteq Deals
    BY DEF EnrollmentInv, RunsFit, RowSet
  <1>4. mode.kind \in Kinds /\ mode.id \in Nat /\ day \in Nat
    BY DEF EnrollmentInv, WorldFits
  <1>5. pursuing' = [pursuing EXCEPT ![r] = x] /\ UNCHANGED <<Enr!world, history, campaign, rows, intake, late>>
    BY EnrCounts DEF Enr!RunReads
  <1> HIDE DEF today
  <1>6. x \in RunRows /\ x.id = mode.id
    BY <1>2, <1>3, <1>4, NoRunFits DEF RunRows, RunPcs, Enr!NoRun
  <1> HIDE DEF x
  <1>7. HeardFits(x, late[r], mode.id)
    BY <1>1, <1>6 DEF HeardFits
  <1> QED BY <1>1, <1>5, <1>6, <1>7, RunOnly

LEMMA RunPc ==
  ASSUME NEW x \in RunRows, NEW pc \in RunPcs
  PROVE  /\ [x EXCEPT !.pc = pc] \in RunRows /\ [x EXCEPT !.pc = pc].pc = pc
         /\ [x EXCEPT !.pc = pc].id = x.id /\ [x EXCEPT !.pc = pc].kind = x.kind
  BY DEF RunRows

LEMMA RunClaimsFits ==
  ASSUME Enr!EnrollmentAssumption, EnrollmentInv, NEW r \in Runs, Enr!RunClaims(r)
  PROVE  EnrollmentInv' /\ Enr!OnFacts
  <1> DEFINE mine == [day |-> pursuing[r].day, kind |-> pursuing[r].kind, seq |-> pursuing[r].seq]
             taken == \E y \in rows : y.key = mine
             pc == IF taken THEN "over" ELSE "list"
             x == [pursuing[r] EXCEPT !.pc = pc]
             y0 == [key |-> mine, day |-> pursuing[r].day, done |-> FALSE, blocked |-> {}]
  <1>1. pursuing[r] \in RunRows /\ late[r] = 0 /\ pursuing[r].id <= mode.id /\ r \notin Reevals
    BY Punctual, Bounds DEF Enr!RunClaims
  <1>2. /\ pursuing' = [pursuing EXCEPT ![r] = x] /\ rows' = (IF taken THEN rows ELSE rows \cup {y0})
        /\ UNCHANGED <<Enr!world, history, campaign, intake, late>>
    BY DEF Enr!RunClaims
  <1>3. y0 \in RowSet
    BY <1>1 DEF RowSet, RunRows
  <1>4. pc \in RunPcs
    BY DEF RunPcs
  <1> HIDE DEF taken, y0, mine, pc
  <1>5. x \in RunRows /\ x.id = pursuing[r].id
    BY <1>1, <1>4, RunPc
  <1> HIDE DEF x
  <1>6. rows' \subseteq RowSet /\ IsFiniteSet(rows')
    <2>1. rows \subseteq RowSet /\ IsFiniteSet(rows) /\ IsFiniteSet(rows \cup {y0})
      BY FS_AddElement DEF EnrollmentInv, RunsFit
    <2> QED BY <1>2, <1>3, <2>1
  <1>7. HeardFits(x, late[r], mode.id)
    BY <1>1, <1>5 DEF HeardFits
  <1>8. ProcsFit'
    BY <1>2, StillFits, ProcStays DEF EnrollmentInv
  <1> QED BY <1>1, <1>2, <1>5, <1>6, <1>7, <1>8, RunGoes

LEMMA RunListsFits ==
  ASSUME Enr!EnrollmentAssumption, EnrollmentInv, NEW r \in Runs, Enr!RunLists(r)
  PROVE  EnrollmentInv' /\ Enr!OnFacts
  <1> DEFINE x == [pursuing[r] EXCEPT !.pc = "evaluate", !.todo = Deals, !.revs = [d \in Deals |-> fact[d].rev]]
  <1>1. pursuing[r] \in RunRows /\ late[r] = 0 /\ pursuing[r].id <= mode.id /\ r \notin Reevals
    BY Punctual, Bounds DEF Enr!RunLists
  <1>2. [d \in Deals |-> fact[d].rev] \in [Deals -> Nat]
    BY DEF EnrollmentInv, WorldFits, Facts
  <1>3. x \in RunRows /\ x.id = pursuing[r].id
    BY <1>1, <1>2 DEF RunRows, RunPcs
  <1>4. pursuing' = [pursuing EXCEPT ![r] = x] /\ UNCHANGED <<Enr!world, history, campaign, rows, intake, late>>
    BY DEF Enr!RunLists
  <1> HIDE DEF x
  <1>5. HeardFits(x, late[r], mode.id)
    BY <1>1, <1>3 DEF HeardFits
  <1> QED BY <1>1, <1>3, <1>4, <1>5, RunOnly

LEMMA RunEvaluatesFits ==
  ASSUME Enr!EnrollmentAssumption, EnrollmentInv, NEW r \in Runs, NEW d \in Deals, Enr!RunEvaluates(r, d)
  PROVE  EnrollmentInv' /\ Enr!OnFacts
  <1> DEFINE x1 == [pursuing[r] EXCEPT !.todo = @ \ {d}, !.blocked = @ \cup {d}]
             x2 == [pursuing[r] EXCEPT !.todo = @ \ {d}]
             x3 == [pursuing[r] EXCEPT !.contacts[d] = fact[d].contact]
  <1>1. pursuing[r] \in RunRows /\ late[r] = 0 /\ pursuing[r].id <= mode.id /\ r \notin Reevals
    BY Punctual, Bounds DEF Enr!RunEvaluates
  <1>2. fact[d].contact \in Contacts
    BY DEF EnrollmentInv, WorldFits, Facts
  <1>3. \E x \in {x1, x2, x3} : pursuing' = [pursuing EXCEPT ![r] = x]
    BY DEF Enr!RunEvaluates
  <1>4. UNCHANGED <<Enr!world, history, campaign, rows, intake, late>>
    BY DEF Enr!RunEvaluates
  <1>5. \A x \in {x1, x2, x3} : x \in RunRows /\ x.id = pursuing[r].id
    <2>1. x1 \in RunRows /\ x1.id = pursuing[r].id
      BY <1>1 DEF RunRows
    <2>2. x2 \in RunRows /\ x2.id = pursuing[r].id
      BY <1>1 DEF RunRows
    <2>3. x3 \in RunRows /\ x3.id = pursuing[r].id
      BY <1>1, <1>2 DEF RunRows
    <2> QED BY <2>1, <2>2, <2>3
  <1> HIDE DEF x1, x2, x3
  <1>6. PICK x \in {x1, x2, x3} : pursuing' = [pursuing EXCEPT ![r] = x]
    BY <1>3
  <1>7. x \in RunRows /\ x.id = pursuing[r].id
    BY <1>5
  <1>8. HeardFits(x, late[r], mode.id)
    BY <1>1, <1>7 DEF HeardFits
  <1> QED BY <1>1, <1>4, <1>6, <1>7, <1>8, RunOnly

LEMMA RunEvaluatedFits ==
  ASSUME Enr!EnrollmentAssumption, EnrollmentInv, NEW r \in Runs, Enr!RunEvaluated(r)
  PROVE  EnrollmentInv' /\ Enr!OnFacts
  <1> DEFINE pc == IF Enr!Commands(pursuing[r].kind) THEN "check" ELSE "complete"
             x == [pursuing[r] EXCEPT !.pc = pc]
  <1>1. pursuing[r] \in RunRows /\ late[r] = 0 /\ pursuing[r].id <= mode.id /\ r \notin Reevals
    BY Punctual, Bounds DEF Enr!RunEvaluated
  <1>2. pursuing' = [pursuing EXCEPT ![r] = x] /\ UNCHANGED <<Enr!world, history, campaign, rows, intake, late>>
    BY DEF Enr!RunEvaluated
  <1> HIDE DEF pc
  <1>3. x \in RunRows /\ x.id = pursuing[r].id
    <2>1. pc \in RunPcs
      BY DEF RunPcs, pc
    <2> QED BY <1>1, <2>1, RunPc
  <1> HIDE DEF x
  <1>4. HeardFits(x, late[r], mode.id)
    BY <1>1, <1>3 DEF HeardFits
  <1> QED BY <1>1, <1>2, <1>3, <1>4, RunOnly

LEMMA RunChecksFits ==
  ASSUME Enr!EnrollmentAssumption, EnrollmentInv, NEW r \in Runs, Enr!RunChecks(r)
  PROVE  EnrollmentInv' /\ Enr!OnFacts
  <1> DEFINE goes == pursuing[r].todo # {} /\ Enr!MayGoOn(r)
             pc == IF goes THEN "record" ELSE "complete"
             x == [pursuing[r] EXCEPT !.pc = pc]
  <1>1. /\ pursuing[r] \in RunRows /\ pursuing[r].id <= mode.id /\ r \notin Reevals /\ pursuing[r].pc = "check"
        /\ HeardFits(pursuing[r], late[r], mode.id)
    BY Punctual, Bounds DEF Enr!RunChecks
  <1>2. goes => late[r] = 0
    BY <1>1, Punctual DEF Enr!MayGoOn
  <1>3. pursuing' = [pursuing EXCEPT ![r] = x] /\ UNCHANGED <<Enr!world, history, campaign, rows, intake, late>>
    BY DEF Enr!RunChecks
  <1> HIDE DEF goes
  <1>4. x \in RunRows /\ x.id = pursuing[r].id /\ x.pc = pc
    <2>1. pc \in RunPcs
      BY DEF RunPcs
    <2> HIDE DEF pc
    <2> QED BY <1>1, <2>1, RunPc
  <1> HIDE DEF x
  <1>5. HeardFits(x, late[r], mode.id)
    BY <1>1, <1>2, <1>4 DEF HeardFits
  <1> QED BY <1>1, <1>3, <1>4, <1>5, RunOnly

LEMMA CapOfIs ==
  ASSUME Enr!EnrollmentAssumption, NEW kind \in Kinds
  PROVE  Enr!CapOf(kind) \in Nat /\ Enr!CapOf(kind) <= Cap
  BY Bounds DEF Enr!CapOf, Kinds

LEMMA RunRecordsFits ==
  ASSUME Enr!EnrollmentAssumption, EnrollmentInv, NEW r \in Runs, NEW d \in Deals, Enr!RunRecords(r, d)
  PROVE  EnrollmentInv' /\ Enr!OnFacts
  <1> DEFINE x == [pursuing[r] EXCEPT !.pc = "check", !.todo = @ \ {d}]
  <1>1. /\ pursuing[r] \in RunRows /\ late[r] = 0 /\ pursuing[r].id \in Nat /\ mode.id \in Nat /\ pursuing[r].id <= mode.id
        /\ r \notin Reevals /\ r \in Enr!Procs /\ late \in [Runs -> Nat]
    BY Punctual, Bounds DEF Enr!RunRecords, Enr!Procs, EnrollmentInv, RunsFit
  <1>2. pursuing' = [pursuing EXCEPT ![r] = x] /\ UNCHANGED <<Enr!world, rows>>
    BY DEF Enr!RunRecords
  <1>3. x \in RunRows /\ x.id = pursuing[r].id /\ x.pc = "check"
    BY <1>1 DEF RunRows, RunPcs
  <1>4. ASSUME down \/ Enr!Refused(r, d) PROVE EnrollmentInv' /\ Enr!OnFacts
    <2>1. intake' = [intake EXCEPT ![r] = Enr!Idle] /\ UNCHANGED <<history, campaign, late>>
      BY <1>4 DEF Enr!RunRecords
    <2> HIDE DEF x
    <2>2. HeardFits(x, late[r], mode.id)
      BY <1>1, <1>3 DEF HeardFits
    <2>3. Grown
      BY <2>1, StillFits DEF EnrollmentInv
    <2>4. ProcsFit' /\ rows' \subseteq RowSet /\ IsFiniteSet(rows')
      BY <1>1, <1>2, <2>1, <2>3, IdleFits, ProcMoves DEF EnrollmentInv, RunsFit
    <2> QED BY <1>1, <1>2, <1>3, <2>1, <2>2, <2>4, RunGoes
  <1>5. ASSUME ~(down \/ Enr!Refused(r, d)) PROVE EnrollmentInv' /\ Enr!OnFacts
    <2>1. /\ Enr!RecordOwner(r, d, "pursue", <<pursuing[r].day, d>>, pursuing[r].revs[d], pursuing[r].contacts[d], TRUE)
          /\ late' = [late EXCEPT ![r] = IF history' # history /\ mode.id # pursuing[r].id THEN @ + 1 ELSE @]
      BY <1>5 DEF Enr!RunRecords
    <2>2. /\ <<pursuing[r].day, d>> \in Keys /\ pursuing[r].contacts[d] \in Contacts /\ "pursue" \in Actions
          /\ pursuing[r].kind \in Kinds
      BY <1>1 DEF RunRows, Keys, Actions
    <2>3. \/ \E j \in DOMAIN history[d] : history[d][j].key = <<pursuing[r].day, d>>
          \/ history[d] = <<>> /\ Enr!AutoToday(day) < Cap
      <3> SUFFICES ASSUME ~Enr!Replayed(r, d) PROVE history[d] = <<>> /\ Enr!AutoToday(day) < Cap
        BY DEF Enr!Replayed
      <3>1. history[d] = <<>> /\ day = pursuing[r].day /\ ~(Enr!AutoToday(day) >= Enr!CapOf(pursuing[r].kind))
        BY <1>5 DEF Enr!Refused
      <3>2. Enr!AutoToday(day) \in Nat
        <4>1. IsFiniteSet(AutoOn(day))
          BY DEF EnrollmentInv, CapFits, WorldFits
        <4> QED BY <4>1, FS_CardinalityType, AutoCounts
      <3>3. Enr!CapOf(pursuing[r].kind) \in Nat /\ Enr!CapOf(pursuing[r].kind) <= Cap /\ Cap \in Nat
        BY <2>2, CapOfIs, Bounds
      <3> QED BY <3>1, <3>2, <3>3
    <2>4. RecordsOk' /\ Grown /\ Enr!OnFacts /\ ProcsFit' /\ CapFits'
      BY <1>1, <2>1, <2>2, <2>3, RecordDoes DEF EnrollmentInv
    <2> HIDE DEF x
    <2>5. /\ late' \in [Runs -> Nat] /\ (\A q \in Runs \ {r} : late'[q] = late[q])
          /\ late'[r] \in {0, 1} /\ (late'[r] = 1 => mode.id # pursuing[r].id)
      BY <1>1, <2>1
    <2>6. HeardFits(x, late'[r], mode.id)
      BY <1>1, <1>3, <2>5 DEF HeardFits
    <2>7. RunsFit'
      <3>1. mode' = mode /\ rows' \subseteq RowSet /\ IsFiniteSet(rows')
        BY <1>2 DEF Enr!world, EnrollmentInv, RunsFit
      <3> QED BY <1>1, <1>2, <1>3, <2>4, <2>5, <2>6, <3>1, RunMoves DEF EnrollmentInv
    <2> QED BY <1>2, <2>4, <2>7, WorldStays DEF EnrollmentInv
  <1> QED BY <1>4, <1>5

LEMMA RunCompletesFits ==
  ASSUME Enr!EnrollmentAssumption, EnrollmentInv, NEW r \in Runs, Enr!RunCompletes(r)
  PROVE  EnrollmentInv' /\ Enr!OnFacts
  <1> DEFINE x == [pursuing[r] EXCEPT !.pc = "over"]
             mine == [day |-> pursuing[r].day, kind |-> pursuing[r].kind, seq |-> pursuing[r].seq]
             f == [y \in rows |-> IF y.key = mine THEN [y EXCEPT !.done = TRUE, !.blocked = pursuing[r].blocked] ELSE y]
  <1>1. /\ pursuing[r] \in RunRows /\ pursuing[r].id <= mode.id /\ r \notin Reevals /\ pursuing[r].pc = "complete"
        /\ HeardFits(pursuing[r], late[r], mode.id)
    BY Punctual, Bounds DEF Enr!RunCompletes
  <1>2. /\ pursuing' = [pursuing EXCEPT ![r] = x] /\ rows' = {f[y] : y \in rows}
        /\ UNCHANGED <<Enr!world, history, campaign, intake, late>>
    BY DEF Enr!RunCompletes
  <1>3. x \in RunRows /\ x.id = pursuing[r].id /\ x.pc = "over"
    BY <1>1, RunPc DEF RunPcs
  <1>4. \A y \in rows : f[y] \in RowSet
    <2>1. pursuing[r].blocked \subseteq Deals
      BY <1>1 DEF RunRows
    <2>2. ASSUME NEW y \in RowSet PROVE [y EXCEPT !.done = TRUE, !.blocked = pursuing[r].blocked] \in RowSet
      BY <2>1 DEF RowSet
    <2>3. rows \subseteq RowSet
      BY DEF EnrollmentInv, RunsFit
    <2> QED BY <2>2, <2>3
  <1>5. DOMAIN f = rows
    OBVIOUS
  <1> HIDE DEF x, f
  <1>6. rows' \subseteq RowSet /\ IsFiniteSet(rows')
    <2>1. f \in Surjection(rows, rows')
      <3>1. f \in [rows -> rows'] /\ \A z \in rows' : \E y \in rows : f[y] = z
        <4>1. \A y \in rows : f[y] \in rows'
          BY <1>2
        <4>2. f = [y \in rows |-> f[y]]
          BY <1>5 DEF f
        <4> QED BY <1>2, <4>1, <4>2
      <3> QED BY <3>1 DEF Surjection
    <2>2. IsFiniteSet(rows)
      BY DEF EnrollmentInv, RunsFit
    <2> QED BY <1>2, <1>4, <2>1, <2>2, FS_Surjection
  <1>7. HeardFits(x, late[r], mode.id)
    BY <1>1, <1>3 DEF HeardFits
  <1>8. ProcsFit'
    BY <1>2, StillFits, ProcStays DEF EnrollmentInv
  <1> QED BY <1>1, <1>2, <1>3, <1>6, <1>7, <1>8, RunGoes

-----------------------------------------------------------------------------
(* The world *)

LEMMA WorldOnly ==
  ASSUME Enr!EnrollmentAssumption, EnrollmentInv, UNCHANGED <<history, campaign, rows, intake, pursuing, late>>,
         mode'.id >= mode.id, WorldFits'
  PROVE  EnrollmentInv' /\ Enr!OnFacts
  <1>1. RecordsOk' /\ Grown /\ AutoStays /\ Enr!OnFacts
    BY StillFits DEF EnrollmentInv
  <1>2. mode'.id \in Nat
    BY DEF WorldFits
  <1>3. RunsFit' /\ ProcsFit' /\ CapFits'
    BY <1>1, <1>2, RunsStay, ProcStays, CapStays DEF EnrollmentInv
  <1> QED BY <1>1, <1>3 DEF EnrollmentInv

LEMMA Counted ==
  ASSUME Enr!EnrollmentAssumption, EnrollmentInv, Enr!Changed, counters.changes < MaxChanges
  PROVE  /\ counters' \in [changes : 0..MaxChanges, restarts : 0..MaxRestarts]
         /\ counters'.changes = counters.changes + 1 /\ counters.changes \in Nat
  BY Bounds DEF EnrollmentInv, WorldFits, Enr!Changed

LEMMA FactsFit ==
  ASSUME Enr!EnrollmentAssumption, EnrollmentInv, Enr!Changed, counters.changes < MaxChanges, Enr!OnlyFacts,
         fact' \in [Deals -> Facts],
         \A d \in Deals : fact'[d].rev = fact[d].rev \/ fact'[d].rev = fact[d].rev + 1
  PROVE  EnrollmentInv' /\ Enr!OnFacts
  <1>1. /\ counters' \in [changes : 0..MaxChanges, restarts : 0..MaxRestarts]
        /\ counters'.changes = counters.changes + 1 /\ counters.changes \in Nat
    BY Counted
  <1>2. \A d \in Deals : fact'[d].rev \in 1..(counters'.changes + 1)
    BY <1>1 DEF EnrollmentInv, WorldFits
  <1>3. WorldFits' /\ mode'.id >= mode.id
    BY <1>1, <1>2 DEF EnrollmentInv, WorldFits, Enr!OnlyFacts
  <1> QED BY <1>3, WorldOnly DEF Enr!OnlyFacts

LEMMA FactsChange ==
  ASSUME Enr!EnrollmentAssumption, EnrollmentInv, NEW d \in Deals,
         Enr!SourcesChange(d) \/ Enr!StopComes(d) \/ Enr!Archive(d) \/ \E k \in 0..2 : Enr!ContactChanges(d, k)
  PROVE  EnrollmentInv' /\ Enr!OnFacts
  <1>1. Enr!Changed /\ counters.changes < MaxChanges /\ Enr!OnlyFacts
    BY DEF Enr!SourcesChange, Enr!StopComes, Enr!Archive, Enr!ContactChanges, Enr!MayChange
  <1>2. fact \in [Deals -> Facts]
    BY DEF EnrollmentInv, WorldFits
  <1>3. /\ fact' \in [Deals -> Facts]
        /\ \A e \in Deals : fact'[e].rev = fact[e].rev \/ fact'[e].rev = fact[e].rev + 1
    <2>1. CASE Enr!SourcesChange(d)
      <3>1. fact' = [fact EXCEPT ![d].rev = @ + 1]
        BY <2>1 DEF Enr!SourcesChange
      <3> QED BY <1>2, <3>1 DEF Facts
    <2>2. CASE Enr!StopComes(d)
      <3>1. fact' = [fact EXCEPT ![d].stop = TRUE]
        BY <2>2 DEF Enr!StopComes
      <3> QED BY <1>2, <3>1 DEF Facts
    <2>3. CASE Enr!Archive(d)
      <3>1. fact' = [fact EXCEPT ![d].crm = "closed"]
        BY <2>3 DEF Enr!Archive
      <3> QED BY <1>2, <3>1 DEF Facts
    <2>4. ASSUME NEW k \in 0..2, Enr!ContactChanges(d, k)
          PROVE  /\ fact' \in [Deals -> Facts]
                 /\ \A e \in Deals : fact'[e].rev = fact[e].rev \/ fact'[e].rev = fact[e].rev + 1
      <3>1. fact' = [fact EXCEPT ![d].contact = k]
        BY <2>4 DEF Enr!ContactChanges
      <3> QED BY <1>2, <3>1 DEF Facts, Contacts
    <2> QED BY <2>1, <2>2, <2>3, <2>4
  <1> QED BY <1>1, <1>3, FactsFit

LEMMA SwitchesFit ==
  ASSUME Enr!EnrollmentAssumption, EnrollmentInv, Enr!RuleSwitches \/ Enr!SourcesFail
  PROVE  EnrollmentInv' /\ Enr!OnFacts
  <1>1. /\ Enr!Changed /\ counters.changes < MaxChanges /\ rule' \in BOOLEAN /\ down' \in BOOLEAN
        /\ UNCHANGED <<fact, mode, day, history, campaign, rows, intake, pursuing, late>>
    BY DEF Enr!RuleSwitches, Enr!SourcesFail, Enr!MayChange, EnrollmentInv, WorldFits
  <1>2. /\ counters' \in [changes : 0..MaxChanges, restarts : 0..MaxRestarts]
        /\ counters'.changes = counters.changes + 1 /\ counters.changes \in Nat
    BY <1>1, Counted
  <1>3. \A d \in Deals : fact'[d].rev \in 1..(counters'.changes + 1)
    BY <1>1, <1>2 DEF EnrollmentInv, WorldFits
  <1>4. WorldFits' /\ mode'.id >= mode.id
    BY <1>1, <1>2, <1>3 DEF EnrollmentInv, WorldFits
  <1> QED BY <1>1, <1>4, WorldOnly

LEMMA SetModeFits ==
  ASSUME Enr!EnrollmentAssumption, EnrollmentInv, NEW kind \in {"off", "canary"}, Enr!SetMode(kind)
  PROVE  EnrollmentInv' /\ Enr!OnFacts
  <1>1. /\ mode.id < MaxModes + 1 /\ mode' = [kind |-> kind, id |-> mode.id + 1]
        /\ UNCHANGED <<fact, rule, down, day, counters, history, campaign, rows, intake, pursuing, late>>
    BY DEF Enr!SetMode
  <1>2. mode' \in [kind : Kinds, id : 1..(MaxModes + 1)] /\ mode'.id >= mode.id
    BY <1>1, Bounds DEF EnrollmentInv, WorldFits, Kinds
  <1>3. WorldFits'
    BY <1>1, <1>2 DEF EnrollmentInv, WorldFits
  <1> QED BY <1>1, <1>2, <1>3, WorldOnly

LEMMA NextDayFits ==
  ASSUME Enr!EnrollmentAssumption, EnrollmentInv, Enr!NextDay
  PROVE  EnrollmentInv' /\ Enr!OnFacts
  <1>1. /\ day < MaxDays /\ day' = day + 1
        /\ UNCHANGED <<fact, rule, down, mode, counters, history, campaign, rows, intake, pursuing, late>>
    BY DEF Enr!NextDay
  <1>2. day' \in 1..MaxDays /\ mode'.id >= mode.id
    BY <1>1, Bounds DEF EnrollmentInv, WorldFits
  <1>3. WorldFits'
    BY <1>1, <1>2 DEF EnrollmentInv, WorldFits
  <1> QED BY <1>1, <1>2, <1>3, WorldOnly

LEMMA RestartFits ==
  ASSUME Enr!EnrollmentAssumption, EnrollmentInv, Enr!Restart
  PROVE  EnrollmentInv' /\ Enr!OnFacts
  <1>1. UNCHANGED <<fact, rule, down, mode, day, history, campaign, rows, late>>
    BY DEF Enr!Restart
  <1>2. RecordsOk' /\ Grown /\ AutoStays /\ Enr!OnFacts
    BY <1>1, StillFits DEF EnrollmentInv
  <1>3. WorldFits'
    <2>1. /\ counters' \in [changes : 0..MaxChanges, restarts : 0..MaxRestarts]
          /\ counters'.changes = counters.changes
      BY Bounds DEF Enr!Restart, EnrollmentInv, WorldFits
    <2> QED BY <1>1, <2>1 DEF EnrollmentInv, WorldFits
  <1>4. ProcsFit'
    <2> DEFINE r == [Enr!Idle EXCEPT !.pc = "end"]
    <2>1. r \in IntakeRows /\ r.pc = "end"
      BY IdleFits DEF IntakeRows, ProcPcs, Enr!Idle
    <2>2. \A h : WorkFits(r, h)
      <3> HIDE DEF r
      <3> QED BY <2>1 DEF WorkFits, InOrchestration
    <2>3. \A p \in Enr!Procs : intake'[p] \in {Enr!Idle, r}
      BY DEF Enr!Restart
    <2>4. DOMAIN intake' = Enr!Procs /\ intake' = [p \in Enr!Procs |-> intake'[p]]
      BY DEF Enr!Restart
    <2> HIDE DEF r
    <2>5. intake' \in [Enr!Procs -> IntakeRows] /\ \A p \in Enr!Procs : WorkFits(intake'[p], history')
      BY <2>1, <2>2, <2>3, <2>4, IdleFits
    <2> QED BY <2>5 DEF ProcsFit
  <1>5. RunsFit'
    <2> DEFINE x == [Enr!NoRun EXCEPT !.pc = "over"]
    <2>1. x \in RunRows /\ x.pc = "over" /\ x.id = 0
      BY NoRunFits, RunPc DEF RunPcs
    <2>2. /\ \A v \in Runs \cup Reevals : pursuing'[v] \in {Enr!NoRun, x}
          /\ \A v \in Reevals : pursuing'[v] = Enr!NoRun
          /\ \A r \in Runs : pursuing'[r] = IF r \in Reevals \/ pursuing[r].pc = "idle" THEN Enr!NoRun ELSE x
          /\ pursuing' = [v \in Runs \cup Reevals |-> pursuing'[v]]
      BY DEF Enr!Restart
    <2> HIDE DEF x
    <2>3. pursuing' \in [Runs \cup Reevals -> RunRows]
      BY <2>1, <2>2, NoRunFits
    <2>4. \A v \in Reevals : ListFits(pursuing'[v], history')
      BY <2>2, NoRunFits
    <2>5. ASSUME NEW r \in Runs PROVE HeardFits(pursuing'[r], late'[r], mode'.id)
      <3>1. /\ HeardFits(pursuing[r], late[r], mode.id) /\ mode.id \in Nat /\ late[r] \in Nat
            /\ pursuing[r].pc = "idle" => late[r] = 0
        BY Punctual
      <3>2. late'[r] = late[r] /\ mode' = mode /\ r \notin Reevals
        BY <1>1, Bounds
      <3>3. CASE pursuing[r].pc = "idle"
        <4>1. pursuing'[r] = Enr!NoRun
          BY <2>2, <3>3
        <4> QED BY <3>1, <3>2, <3>3, <4>1, NoRunFits DEF HeardFits
      <3>4. CASE pursuing[r].pc # "idle"
        <4>1. pursuing'[r] = x
          BY <2>2, <3>2, <3>4
        <4> QED BY <2>1, <3>1, <3>2, <4>1 DEF HeardFits
      <3> QED BY <3>3, <3>4
    <2> QED BY <1>1, <2>3, <2>4, <2>5 DEF RunsFit, EnrollmentInv
  <1> QED BY <1>2, <1>3, <1>4, <1>5, CapStays DEF EnrollmentInv

-----------------------------------------------------------------------------
(* The invariant, and what follows from it *)

LEMMA EnrollmentFirst == ASSUME Enr!EnrollmentAssumption, Enr!Init PROVE EnrollmentInv
  <1>1. WorldFits
    <2>1. fact \in [Deals -> Facts] /\ \A d \in Deals : fact[d].rev = 1
      BY DEF Enr!Init, Facts, Contacts
    <2>2. /\ rule \in BOOLEAN /\ down \in BOOLEAN /\ day \in 1..MaxDays
          /\ mode \in [kind : Kinds, id : 1..(MaxModes + 1)]
      <3>1. 1 \in 1..MaxDays /\ 1 \in 1..(MaxModes + 1) /\ "active" \in Kinds
        BY Bounds DEF Kinds
      <3> QED BY <3>1 DEF Enr!Init
    <2>3. counters \in [changes : 0..MaxChanges, restarts : 0..MaxRestarts] /\ counters.changes = 0
      BY Bounds DEF Enr!Init
    <2> QED BY <2>1, <2>2, <2>3 DEF WorldFits
  <1>2. RecordsOk
    <2>1. history \in [Deals -> Seq(DecisionRows)] /\ \A d \in Deals : history[d] = <<>> /\ Len(history[d]) = 0
      BY DEF Enr!Init
    <2>2. campaign \in [Deals -> CampaignRows] /\ \A d \in Deals : campaign[d].of = 0 /\ campaign[d].state = "none"
      BY DEF Enr!Init, Enr!NoCampaign, CampaignRows, Contacts
    <2>3. \A d \in Deals : RecordFits(history[d], campaign[d])
      BY <2>1, <2>2 DEF RecordFits
    <2> QED BY <2>1, <2>2, <2>3 DEF RecordsOk
  <1>3. ProcsFit
    BY IdleFits DEF Enr!Init, ProcsFit
  <1>4. RunsFit
    <2>1. rows = {} /\ late \in [Runs -> Nat] /\ (\A r \in Runs : late[r] = 0) /\ mode.id = 1
      BY DEF Enr!Init
    <2>2. pursuing \in [Runs \cup Reevals -> RunRows] /\ \A v \in Runs \cup Reevals : pursuing[v] = Enr!NoRun
      BY NoRunFits DEF Enr!Init
    <2>3. \A r \in Runs : HeardFits(pursuing[r], late[r], mode.id)
      BY <2>1, <2>2, NoRunFits DEF HeardFits
    <2> QED BY <2>1, <2>2, <2>3, NoRunFits, FS_EmptySet DEF RunsFit
  <1>5. CapFits
    <2>1. \A n \in Nat : AutoOn(n) = {}
      BY DEF Enr!Init, AutoOn
    <2> QED BY <2>1, FS_EmptySet, Bounds DEF CapFits
  <1> QED BY <1>1, <1>2, <1>3, <1>4, <1>5 DEF EnrollmentInv

LEMMA EnrollmentStays ==
  ASSUME Enr!EnrollmentAssumption, EnrollmentInv, [Enr!Next]_(Enr!vars)
  PROVE  EnrollmentInv' /\ Enr!OnFacts
  <1>1. ASSUME NEW p \in Enr!Procs, Enr!Orchestrate(p) PROVE EnrollmentInv' /\ Enr!OnFacts
    BY <1>1, LoadFits, BasisFits, LinkFits, ReloadFits, AllocateFits, SettleEnrollmentFits DEF Enr!Orchestrate
  <1>2. ASSUME NEW v \in Reevals,
               Enr!ListWaiting(v) \/ Enr!ReevaluationEnds(v) \/ \E d \in Deals : Enr!Reevaluate(v, d)
        PROVE  EnrollmentInv' /\ Enr!OnFacts
    BY <1>2, ListWaitingFits, ReevaluationEndsFits, ReevaluateFits
  <1>3. ASSUME NEW r \in Runs,
               \/ Enr!RunReads(r) \/ Enr!RunClaims(r) \/ Enr!RunLists(r) \/ Enr!RunEvaluated(r)
               \/ Enr!RunChecks(r) \/ Enr!RunCompletes(r)
               \/ \E d \in Deals : Enr!RunEvaluates(r, d) \/ Enr!RunRecords(r, d)
        PROVE  EnrollmentInv' /\ Enr!OnFacts
    BY <1>3, RunReadsFits, RunClaimsFits, RunListsFits, RunEvaluatedFits, RunChecksFits, RunCompletesFits,
       RunEvaluatesFits, RunRecordsFits
  <1>4. ASSUME UNCHANGED Enr!vars PROVE EnrollmentInv' /\ Enr!OnFacts
    <2>1. UNCHANGED <<Enr!world, history, campaign, rows, intake, pursuing, late>>
      BY <1>4 DEF Enr!vars, Enr!world
    <2>2. WorldFits' /\ mode'.id >= mode.id
      BY <2>1, WorldStays DEF EnrollmentInv, Enr!world, WorldFits
    <2> QED BY <2>1, <2>2, WorldOnly
  <1> QED BY <1>1, <1>2, <1>3, <1>4, ShowFits, CommandFits, FactsChange, SwitchesFit, NextDayFits, RestartFits,
             SetModeFits DEF Enr!Next

(* The inductive invariant of decisions, enrollments and campaigns, and what  *)
(* every step that allocates a campaign is allocated on.                      *)
THEOREM EnrollmentAlways ==
  ASSUME Enr!EnrollmentAssumption
  PROVE  Enr!Spec => []EnrollmentInv /\ [][Enr!OnFacts]_(Enr!vars)
  <1>1. Enr!Init => EnrollmentInv
    BY EnrollmentFirst
  <1>2. EnrollmentInv /\ [Enr!Next]_(Enr!vars) => EnrollmentInv' /\ Enr!OnFacts
    BY EnrollmentStays
  <1> QED BY <1>1, <1>2, PTL DEF Enr!Spec

(* Facts, decisions, campaigns and who works on them keep their kinds.        *)
THEOREM EnrollmentTypeCorrect == ASSUME Enr!EnrollmentAssumption PROVE Enr!Spec => []Enr!TypeOK
  <1>1. ASSUME EnrollmentInv PROVE Enr!TypeOK
    <2>1. ASSUME NEW d \in Deals
          PROVE  /\ fact[d].rev \in 1..(MaxChanges + 1) /\ fact[d].contact \in 0..2
                 /\ fact[d].stop \in BOOLEAN /\ fact[d].crm \in {"none", "linked", "closed"}
      <3>1. fact[d] \in Facts
        BY <1>1 DEF EnrollmentInv, WorldFits
      <3>2. fact[d].rev \in 1..(counters.changes + 1) /\ counters.changes \in 0..MaxChanges
        BY <1>1 DEF EnrollmentInv, WorldFits
      <3> QED BY <3>1, <3>2, Bounds DEF Facts, Contacts
    <2>2. ASSUME NEW d \in Deals
          PROVE  /\ \A i \in DOMAIN history[d] : history[d][i].state \in Enr!EnrollmentStates
                 /\ campaign[d].of \in 0..Len(history[d])
                 /\ campaign[d].state \in {"none", "pending", "stopped"}
      <3>1. \A i \in DOMAIN history[d] : history[d][i] \in DecisionRows
        BY <1>1, HistoryTyped DEF EnrollmentInv
      <3>2. campaign[d] \in CampaignRows /\ RecordFits(history[d], campaign[d])
        BY <1>1, HistoryTyped DEF EnrollmentInv, RecordsOk
      <3> QED BY <3>1, <3>2 DEF DecisionRows, CampaignRows, RecordFits
    <2>3. rule \in BOOLEAN /\ down \in BOOLEAN /\ day \in 1..MaxDays /\ mode.id \in 1..(MaxModes + 1)
      BY <1>1 DEF EnrollmentInv, WorldFits
    <2>4. \A p \in Enr!Procs : intake[p].pc \in ProcPcs
      BY <1>1, ProcIs DEF EnrollmentInv, IntakeRows
    <2> QED BY <2>1, <2>2, <2>3, <2>4 DEF Enr!TypeOK, ProcPcs
  <1> QED BY <1>1, EnrollmentAlways, PTL

(* Whatever interleaves, a campaign that may write is that of the deal's last *)
(* decision, a Pursue (recordOwnerDecisionSync, materializePursuitCampaign).  *)
THEOREM CampaignIsAlwaysWanted == ASSUME Enr!EnrollmentAssumption PROVE Enr!Spec => []Enr!CampaignIsWanted
  <1>1. ASSUME EnrollmentInv, NEW d \in Deals, campaign[d].state = "pending"
        PROVE  /\ Enr!Last(d) = "pursue" /\ history[d][campaign[d].of].state = "campaign"
               /\ Enr!Current(d) = campaign[d].of
    <2>1. RecordFits(history[d], campaign[d]) /\ RecordsOk /\ Len(history[d]) \in Nat
      BY <1>1, HistoryTyped DEF EnrollmentInv, RecordsOk
    <2>2. campaign[d].of \in 1..Len(history[d]) /\ history[d][campaign[d].of].state = "campaign"
      BY <1>1, <2>1 DEF RecordFits
    <2>3. Live(history[d][campaign[d].of])
      BY <2>2 DEF Live
    <2>4. campaign[d].of = Len(history[d])
      BY <2>1, <2>2, <2>3 DEF RecordFits
    <2>5. Enr!Current(d) # 0 /\ Enr!Current(d) = Len(history[d]) /\ Enr!Last(d) = "pursue"
      BY <2>1, <2>2, <2>3, CurrentIs
    <2> QED BY <2>2, <2>4, <2>5
  <1>2. EnrollmentInv => Enr!CampaignIsWanted
    BY <1>1 DEF Enr!CampaignIsWanted
  <1> QED BY <1>2, EnrollmentAlways, PTL

(* A deal has at most one enrollment that is not superseded, and one that     *)
(* says it has a campaign has it (deal_hunter_pursuit_enrollments).           *)
THEOREM OneEnrollmentAlways == ASSUME Enr!EnrollmentAssumption PROVE Enr!Spec => []Enr!OneEnrollment
  <1>1. ASSUME EnrollmentInv, NEW d \in Deals
        PROVE  /\ Cardinality({i \in DOMAIN history[d] : history[d][i].state \notin {"none", "superseded"}}) <= 1
               /\ \A i \in DOMAIN history[d] : history[d][i].state = "campaign" => campaign[d].of = i
    <2> DEFINE here == {i \in DOMAIN history[d] : history[d][i].state \notin {"none", "superseded"}}
    <2>1. RecordFits(history[d], campaign[d]) /\ DOMAIN history[d] = 1..Len(history[d])
      BY <1>1, HistoryTyped DEF EnrollmentInv, RecordsOk
    <2>2. here \subseteq {Len(history[d])}
      BY <2>1 DEF RecordFits, Live
    <2>3. IsFiniteSet({Len(history[d])}) /\ Cardinality({Len(history[d])}) = 1
      BY FS_Singleton
    <2> HIDE DEF here
    <2>4. Cardinality(here) <= 1
      BY <2>2, <2>3, FS_Subset
    <2> QED BY <2>1, <2>4, EnrCounts DEF here, RecordFits
  <1>2. EnrollmentInv => Enr!OneEnrollment
    BY <1>1, EnrCounts DEF Enr!OneEnrollment
  <1> QED BY <1>2, EnrollmentAlways, PTL

(* A campaign is allocated on facts that hold at that moment and for the      *)
(* contact its decision named (orchestratePursuitEnrollment).                 *)
THEOREM AlwaysAllocatedOnFacts == ASSUME Enr!EnrollmentAssumption PROVE Enr!Spec => Enr!AllocatedOnFacts
  BY EnrollmentAlways, PTL DEF Enr!AllocatedOnFacts

(* Automatic Pursue only ever decides first (recordAutoPursueDecision).       *)
THEOREM AutoIsAlwaysFirst == ASSUME Enr!EnrollmentAssumption PROVE Enr!Spec => []Enr!AutoIsFirst
  <1>1. EnrollmentInv => Enr!AutoIsFirst
    BY HistoryTyped DEF EnrollmentInv, RecordsOk, RecordFits, Enr!AutoIsFirst
  <1> QED BY <1>1, EnrollmentAlways, PTL

(* Runs that overlap, repeat or are lost decide at most the day's cap         *)
(* (recordAutoPursueDecision counts again under the lock).                    *)
THEOREM CapAlwaysHolds == ASSUME Enr!EnrollmentAssumption PROVE Enr!Spec => []Enr!CapHolds
  <1>1. EnrollmentInv => Enr!CapHolds
    <2>1. \A n : Enr!AutoToday(n) = Cardinality(AutoOn(n))
      BY EnrCounts DEF Enr!AutoToday, AutoOn
    <2>2. \A n \in 1..MaxDays : n \in Nat
      BY Bounds
    <2> QED BY <2>1, <2>2 DEF EnrollmentInv, CapFits, Enr!CapHolds
  <1> QED BY <1>1, EnrollmentAlways, PTL

(* After the owner's change of the mode a run records at most the deal it had *)
(* in hand (runAutoPursue).                                                   *)
THEOREM OffIsAlwaysHeard == ASSUME Enr!EnrollmentAssumption PROVE Enr!Spec => []Enr!OffIsHeard
  <1>1. EnrollmentInv => Enr!OffIsHeard
    BY DEF EnrollmentInv, RunsFit, HeardFits, Enr!OffIsHeard
  <1> QED BY <1>1, EnrollmentAlways, PTL

==================================================================================
