------------------------------- MODULE HttpLimits -------------------------------
(***************************************************************************)
(* What an inbound request must pass before its body is used: the rate      *)
(* limits (auth.js, documentVault.js, submissions.js, analytics.js) and the  *)
(* upload capacity that secure links and SIM uploads share (app.js).         *)
(* Counting the events of the window and adding one happen without a wait in *)
(* between on SQLite; a failure of the storage falls in between, or between  *)
(* the adds of several buckets.                                              *)
(***************************************************************************)
EXTENDS Naturals, FiniteSets

CONSTANTS
  Requests,
  Buckets,
  BucketsOf,    \* BucketsOf[r]: the buckets request r is counted in
  Fallback,     \* the requests whose limit falls back to memory (sign-in, uploads)
  Uploads,      \* the requests that also need upload capacity
  Max,          \* attempts per window
  Capacity,     \* maxConcurrentUploads
  MaxFaults     \* bound on storage failures and restarts

LimitsAssumption ==
  /\ IsFiniteSet(Requests)
  /\ BucketsOf \in [Requests -> (SUBSET Buckets) \ {{}}]
  /\ Fallback \subseteq Requests /\ Uploads \subseteq Requests
  /\ Max \in Nat \ {0} /\ Capacity \in Nat \ {0} /\ MaxFaults \in Nat

VARIABLES
  request,  \* state of each request
  stored,   \* stored[r]: the buckets of r whose event the database has, in the window
  memory,   \* memory[r]: the buckets of r in the process's own map, in the window
  slots,    \* activeSecureUploads
  response, \* response[r]: an open response counts once, however it ends
  faults

vars == <<request, stored, memory, slots, response, faults>>

TypeOK ==
  /\ request \in [Requests -> {"new", "admitted", "refused", "failed", "old"}]
  /\ stored \in [Requests -> SUBSET Buckets]
  /\ memory \in [Requests -> SUBSET Buckets]
  /\ slots \in 0..Capacity
  /\ response \in [Requests -> {"none", "open", "finished", "closed"}]
  /\ faults \in 0..MaxFaults

Init ==
  /\ request = [r \in Requests |-> "new"]
  /\ stored = [r \in Requests |-> {}]
  /\ memory = [r \in Requests |-> {}]
  /\ slots = 0
  /\ response = [r \in Requests |-> "none"]
  /\ faults = 0

Fault == faults < MaxFaults /\ faults' = faults + 1

-----------------------------------------------------------------------------
(* Rate limits *)

Count(log, b) == Cardinality({q \in Requests : b \in log[q]})

(* Mutant of Room: one bucket with room is enough *)
RoomSomewhere(log, r) == \E b \in BucketsOf[r] : Count(log, b) < Max

(* counts.some((count) => count >= maxAttempts) *)
Room(log, r) == \A b \in BucketsOf[r] : Count(log, b) < Max

(* The storage answers: every bucket gets its event, or the request is refused *)
Admit(r) ==
  /\ request[r] = "new"
  /\ IF Room(stored, r)
     THEN /\ request' = [request EXCEPT ![r] = "admitted"]
          /\ stored' = [stored EXCEPT ![r] = BucketsOf[r]]
     ELSE request' = [request EXCEPT ![r] = "refused"] /\ UNCHANGED stored
  /\ UNCHANGED <<memory, slots, response, faults>>

(* The storage fails while counting, or after some of the adds *)
StorageFails(r, added) ==
  /\ request[r] = "new" /\ Fault
  /\ added # {} => Room(stored, r)
  /\ stored' = [stored EXCEPT ![r] = added]
  /\ UNCHANGED <<slots, response>>

(* enforceInMemoryRateLimit *)
FailOver(r, added) ==
  /\ r \in Fallback
  /\ StorageFails(r, added)
  /\ IF Room(memory, r)
     THEN /\ request' = [request EXCEPT ![r] = "admitted"]
          /\ memory' = [memory EXCEPT ![r] = BucketsOf[r]]
     ELSE request' = [request EXCEPT ![r] = "refused"] /\ UNCHANGED memory

(* Contact form and analytics have no fallback: the error answers the request *)
FailClosed(r, added) ==
  /\ r \notin Fallback
  /\ StorageFails(r, added)
  /\ request' = [request EXCEPT ![r] = "failed"]
  /\ UNCHANGED memory

(* An attempt leaves the window; retention is at least as long (config.js) *)
Ages(r) ==
  /\ request[r] \in {"admitted", "refused", "failed"} /\ response[r] # "open"
  /\ request' = [request EXCEPT ![r] = "old"]
  /\ stored' = [stored EXCEPT ![r] = {}]
  /\ memory' = [memory EXCEPT ![r] = {}]
  /\ UNCHANGED <<slots, response, faults>>

-----------------------------------------------------------------------------
(* Upload capacity *)

(* Mutant of TakeSlot: the capacity is not looked at *)
TakeSlotUnchecked(r) ==
  /\ r \in Uploads /\ request[r] = "admitted" /\ response[r] = "none"
  /\ slots' = slots + 1
  /\ response' = [response EXCEPT ![r] = "open"]
  /\ UNCHANGED <<request, stored, memory, faults>>

TakeSlot(r) ==
  /\ r \in Uploads /\ request[r] = "admitted" /\ response[r] = "none"
  /\ slots < Capacity
  /\ slots' = slots + 1
  /\ response' = [response EXCEPT ![r] = "open"]
  /\ UNCHANGED <<request, stored, memory, faults>>

(* 503 with Retry-After *)
NoSlot(r) ==
  /\ r \in Uploads /\ request[r] = "admitted" /\ response[r] = "none"
  /\ slots >= Capacity
  /\ request' = [request EXCEPT ![r] = "refused"]
  /\ UNCHANGED <<stored, memory, slots, response, faults>>

(* Mutant of Released: both events release *)
ReleasedTwice(r) == IF slots > 0 THEN slots - 1 ELSE 0

(* finish, close, or both: the slot is released by the first of them *)
Released(r) == IF response[r] = "open" THEN slots - 1 ELSE slots

Finish(r) ==
  /\ response[r] = "open"
  /\ response' = [response EXCEPT ![r] = "finished"]
  /\ slots' = Released(r)
  /\ UNCHANGED <<request, stored, memory, faults>>

Disconnect(r) ==
  /\ response[r] \in {"open", "finished"}
  /\ response' = [response EXCEPT ![r] = "closed"]
  /\ slots' = Released(r)
  /\ UNCHANGED <<request, stored, memory, faults>>

(* Memory and open responses end with the process; the events stay *)
Restart ==
  /\ Fault
  /\ memory' = [r \in Requests |-> {}]
  /\ slots' = 0
  /\ response' = [r \in Requests |-> IF response[r] = "none" THEN "none" ELSE "closed"]
  /\ UNCHANGED <<request, stored>>

Next ==
  \/ \E r \in Requests :
       \/ Admit(r) \/ Ages(r) \/ TakeSlot(r) \/ NoSlot(r) \/ Finish(r) \/ Disconnect(r)
       \/ \E added \in SUBSET BucketsOf[r] : FailOver(r, added) \/ FailClosed(r, added)
  \/ Restart

Spec == Init /\ [][Next]_vars

-----------------------------------------------------------------------------
(* Properties *)

(* In no bucket do more than Max attempts of one window get past the stored   *)
(* count, and no more than Max past the map that stands in for it: several    *)
(* buckets are added one by one, and a failure in between neither opens the   *)
(* limit nor is forgotten (enforceAdminRateLimit, enforceSecureUploadRateLimit). *)
LimitHolds ==
  \A b \in Buckets : Count(stored, b) <= Max /\ Count(memory, b) <= Max

(* Whatever an open response goes through - finished, closed, both - the      *)
(* capacity counts it exactly once (release in app.js).                       *)
SlotsCounted == slots = Cardinality({r \in Requests : response[r] = "open"})
=================================================================================
