------------------------------- MODULE Outbox -------------------------------
(***************************************************************************)
(* The durable notification queue: the outbox table, the destinations it   *)
(* serves, and the delivery workers that lease its rows, send them and     *)
(* record the outcome.  Sources: internal/store/outbox.go,                 *)
(* internal/store/destinations.go, the outbox part of SaveSettings and of  *)
(* the retention pass, and internal/monitor/delivery.go.                   *)
(*                                                                         *)
(* Every store method is one SQLite transaction, so it is one action.  A   *)
(* worker holds what it claimed in memory ("claims") while other actors    *)
(* change the rows; a crash loses the claims and nothing else.             *)
(*                                                                         *)
(* Time is counted down: a row keeps the ticks left of its lease and of    *)
(* its backoff, and its age since first_attempt up to the retry window.    *)
(* "lease_until <= now" is lease = 0, "next_attempt <= now" is wait = 0,   *)
(* "first_attempt <= now - window" is age = RetryWindow.  The 30-day       *)
(* retention cutoff is so much longer that it is a flag, old: created_at   *)
(* (of a delivered row, delivered_at) lies before it.                      *)
(***************************************************************************)
EXTENDS Integers, FiniteSets

CONSTANTS
  Destinations,         \* destination ids, positive integers
  InitialDestinations,  \* those configured and enabled at the start
  Workers,              \* delivery workers (one per process in production)
  Tokens,               \* lease tokens
  Lease,                \* ticks of a lease (outboxLease)
  RetryWindow,          \* ticks a row may be retried (outboxRetryWindow)
  MaxDelay,             \* longest backoff, in ticks
  ClaimLimit,           \* rows of one claim (deliveryBatchSize)
  AttemptCap,           \* attempts are counted up to here
  Damaged,              \* ids of rows whose payload a build may be unable to decode
  KeyAtRisk,            \* destinations whose URL may become unreadable
  LongRun,              \* whether the retention period is reached
  MaxRows,              \* bound: rows ever inserted
  MaxBatches,           \* bound: event batches ever recorded
  MaxGeneration         \* bound: settings generations

Ids == 1..MaxRows
BatchIds == 1..MaxBatches
NoToken == 0

ASSUME OutboxAssumption ==
  /\ Destinations \subseteq Nat \ {0}
  /\ IsFiniteSet(Destinations)
  /\ InitialDestinations \subseteq Destinations
  /\ KeyAtRisk \subseteq Destinations /\ LongRun \in BOOLEAN
  /\ NoToken \notin Tokens
  /\ Lease \in Nat \ {0} /\ RetryWindow \in Nat \ {0} /\ MaxDelay \in Nat \ {0}
  /\ ClaimLimit \in Nat \ {0} /\ AttemptCap \in Nat \ {0}
  /\ MaxRows \in Nat /\ MaxBatches \in Nat /\ MaxGeneration \in Nat \ {0}

VARIABLES
  outbox,      \* the table: Ids -> row
  lastId,      \* the last id AUTOINCREMENT gave out
  dests,       \* the notification_destinations table
  batches,     \* the event_batches table, as far as the outbox reads it
  generation,  \* settings.generation
  claims,      \* what the workers hold in memory, unsettled
  sent,        \* the head item: not begun, sending, or an outcome to record
  failed,      \* destinations that failed in the worker's current pass
  accepted,    \* history: rows some provider has accepted at least once
  revived      \* history: dead letters an operator has requeued

vars == <<outbox, lastId, dests, batches, generation, claims, sent, failed,
          accepted, revived>>

Statuses == {"absent", "pending", "processing", "delivered", "dead"}
Reasons == {"", "identity", "other"}
Outcomes == {"accepted", "failed", "permanent", "unprepared"}
DestStates == {"absent", "enabled", "disabled", "deleted"}

Row == [dest: Destinations \cup {0}, batch: BatchIds \cup {0},
        status: Statuses, attempts: 0..AttemptCap, wait: 0..MaxDelay,
        age: 0..RetryWindow, old: BOOLEAN, lease: 0..Lease,
        token: Tokens \cup {NoToken}, reason: Reasons]
Claimed == [worker: Workers, id: Ids, dest: Destinations, token: Tokens]
Destination == [state: DestStates, readable: BOOLEAN]
Batch == [state: {"none", "present", "deleted"}, gen: 0..MaxGeneration,
          old: BOOLEAN]

TypeOK ==
  /\ outbox \in [Ids -> Row]
  /\ lastId \in 0..MaxRows
  /\ dests \in [Destinations -> Destination]
  /\ batches \in [BatchIds -> Batch]
  /\ generation \in 1..MaxGeneration
  /\ claims \subseteq Claimed
  /\ sent \in [Workers -> Outcomes \cup {"none", "sending"}]
  /\ failed \in [Workers -> SUBSET Destinations]
  /\ accepted \subseteq Ids
  /\ revived \subseteq Ids

----------------------------------------------------------------------------
(* Rows *)

NoRow == [dest |-> 0, batch |-> 0, status |-> "absent", attempts |-> 0,
          wait |-> 0, age |-> 0, old |-> FALSE, lease |-> 0,
          token |-> NoToken, reason |-> ""]

NewRow(d, b) ==
  [NoRow EXCEPT !.dest = d, !.batch = b, !.status = "pending"]

Live(row) == row.status \in {"pending", "processing"}

\* (mutant) the lease ends but the token stays behind
UnleasedKeepsToken(row, status) == [row EXCEPT !.status = status, !.lease = 0]

\* lease_until=NULL, lease_token='' and a new status
Unleased(row, status) ==
  [row EXCEPT !.status = status, !.lease = 0, !.token = NoToken]

\* dead-lettered at once with a reason of its own
DeadLettered(row, reason) ==
  [Unleased(row, "dead") EXCEPT !.reason = reason]

\* dead-lettered because the window is over: keeps an earlier error
WindowExpired(row) ==
  [Unleased(row, "dead") EXCEPT
     !.wait = 0, !.reason = IF @ = "" THEN "other" ELSE @]

\* rows of S become f(row)
UpdateRows(S, f(_)) ==
  [r \in Ids |-> IF r \in S THEN f(outbox[r]) ELSE outbox[r]]

RowsOf(d) == {r \in Ids : outbox[r].dest = d}
Enabled(d) == dests[d].state = "enabled"
Active(d) == dests[d].state \in {"enabled", "disabled"}

\* (mutant) only the batch decides, not the recorded reason
RetryableAnyReason(row) ==
  /\ row.status = "dead"
  /\ \/ row.batch = 0
     \/ ~ /\ batches[row.batch].state = "present"
          /\ batches[row.batch].gen # generation

\* retryableDeadOutbox: the batch is looked up in event_batches, where
\* retention may have removed it
Retryable(row) ==
  /\ row.status = "dead"
  /\ row.reason # "identity"
  /\ \/ row.batch = 0
     \/ ~ /\ batches[row.batch].state = "present"
          /\ batches[row.batch].gen # generation

----------------------------------------------------------------------------
Init ==
  /\ outbox = [r \in Ids |-> NoRow]
  /\ lastId = 0
  /\ dests = [d \in Destinations |->
                [state |-> IF d \in InitialDestinations THEN "enabled"
                                                        ELSE "absent",
                 readable |-> TRUE]]
  /\ batches = [b \in BatchIds |-> [state |-> "none", gen |-> 0, old |-> FALSE]]
  /\ generation = 1
  /\ claims = {}
  /\ sent = [w \in Workers |-> "none"]
  /\ failed = [w \in Workers |-> {}]
  /\ accepted = {}
  /\ revived = {}

----------------------------------------------------------------------------
(* Enqueueing *)

\* One INSERT per target, in order of destination id, due at once.
Insert(targets, b) ==
  LET at(d) == lastId + Cardinality({e \in targets : e <= d})
  IN  /\ lastId + Cardinality(targets) <= MaxRows
      /\ lastId' = lastId + Cardinality(targets)
      /\ outbox' = [r \in Ids |->
                      IF \E d \in targets : at(d) = r
                      THEN NewRow(CHOOSE d \in targets : at(d) = r, b)
                      ELSE outbox[r]]

\* EnqueueMessage: a system notification, for every enabled destination.
EnqueueSystem ==
  /\ {d \in Destinations : Enabled(d)} # {}
  /\ Insert({d \in Destinations : Enabled(d)}, 0)
  /\ UNCHANGED <<dests, batches, generation, claims, sent, failed, accepted,
                 revived>>

\* The digest of a change batch, in the transaction that records the batch.
\* Routing rules decide which enabled destinations receive it.
EnqueueDigest(targets) ==
  /\ targets # {} /\ \A d \in targets : Enabled(d)
  /\ \E b \in BatchIds :
       /\ batches[b].state = "none"
       /\ \A c \in BatchIds : c < b => batches[c].state # "none"
       /\ batches' = [batches EXCEPT ![b] =
                        [state |-> "present", gen |-> generation, old |-> FALSE]]
       /\ Insert(targets, b)
  /\ UNCHANGED <<dests, generation, claims, sent, failed, accepted, revived>>

----------------------------------------------------------------------------
(* Claiming: the five statements of ClaimDueOutbox, in order *)

\* (mutant) leases are never taken back
ReclaimedNever == outbox

\* 1. an expired lease returns the row to pending
Reclaimed ==
  [r \in Ids |-> IF outbox[r].status = "processing" /\ outbox[r].lease = 0
                 THEN Unleased(outbox[r], "pending") ELSE outbox[r]]

\* 2. a pending row past the retry window is dead
Horizon ==
  [r \in Ids |->
     IF Reclaimed[r].status = "pending" /\ Reclaimed[r].age = RetryWindow
     THEN WindowExpired(Reclaimed[r]) ELSE Reclaimed[r]]

\* (mutant) an older row that is backing off is overtaken
BlocksInFlight(p) == p.status = "processing"

\* 3. a due row is claimable unless an older row of its destination is in
\*    flight or backing off
Blocks(p) == p.status = "processing" \/ (p.status = "pending" /\ p.wait > 0)

Due(r) ==
  /\ Horizon[r].status = "pending" /\ Horizon[r].wait = 0
  /\ Enabled(Horizon[r].dest)
  /\ \A p \in Ids :
       p < r /\ Horizon[p].dest = Horizon[r].dest => ~ Blocks(Horizon[p])

Selected ==
  {r \in Ids : Due(r) /\ Cardinality({p \in Ids : Due(p) /\ p < r}) < ClaimLimit}

Readable(r) == dests[Horizon[r].dest].readable

\* 4. a selected row whose URL cannot be decrypted is dead; 5. the others
\*    are leased under fresh tokens (token[r])
AfterClaim(token) ==
  [r \in Ids |->
     IF r \notin Selected THEN Horizon[r]
     ELSE IF ~ Readable(r)
     THEN [DeadLettered(Horizon[r], "other") EXCEPT !.wait = 0]
     ELSE [Horizon[r] EXCEPT
             !.status = "processing", !.lease = Lease, !.token = token[r],
             !.attempts = IF @ < AttemptCap THEN @ + 1 ELSE @]]

Held(w) == {c \in claims : c.worker = w}

\* A random token is one nobody holds for this row.
ClaimDueOutbox(w) ==
  /\ Held(w) = {}
  /\ LET leased == {r \in Selected : Readable(r)}
     IN  \E token \in [leased -> Tokens] :
           /\ \A r \in leased : \A c \in claims : c.id = r => c.token # token[r]
           /\ outbox' = AfterClaim(token)
           /\ claims' = claims \cup
                {[worker |-> w, id |-> r, dest |-> Horizon[r].dest,
                  token |-> token[r]] : r \in leased}
  /\ UNCHANGED <<lastId, dests, batches, generation, sent, failed, accepted,
                 revived>>

----------------------------------------------------------------------------
(* Sending: a worker handles its claims oldest first *)

IsHead(c) == c \in claims /\ \A e \in Held(c.worker) : c.id <= e.id

\* (mutant) bookkeeping by row id alone
OwnsById(c) == outbox[c.id].status = "processing"

\* the WHERE clause of every bookkeeping statement
Owns(c) == outbox[c.id].status = "processing" /\ outbox[c.id].token = c.token

\* the fence: a statement whose WHERE does not match changes nothing
Fenced(c, row) ==
  outbox' = IF Owns(c) THEN [outbox EXCEPT ![c.id] = row] ELSE outbox

\* The pass goes on without c; its failed map goes when it ends.
Drop(c, f) ==
  /\ claims' = claims \ {c}
  /\ failed' = [failed EXCEPT ![c.worker] =
                  IF Held(c.worker) = {c} THEN {} ELSE f]
  /\ sent' = [sent EXCEPT ![c.worker] = "none"]

\* RenewClaimed: the lease goroutine of an item, until its send returns.
RenewClaimed(c) ==
  /\ c \in claims
  /\ IsHead(c) => sent[c.worker] \in {"none", "sending"}
  /\ Fenced(c, [outbox[c.id] EXCEPT !.lease = Lease])
  /\ UNCHANGED <<lastId, dests, batches, generation, claims, sent, failed,
                 accepted, revived>>

\* (mutant) an undecodable payload is skipped as if it had been delivered
BeginSendSkips(c) ==
  /\ IsHead(c) /\ sent[c.worker] = "none"
  /\ c.dest \notin failed[c.worker]
  /\ \/ sent' = [sent EXCEPT ![c.worker] = "sending"]
     \/ c.id \in Damaged /\ sent' = [sent EXCEPT ![c.worker] = "accepted"]
  /\ UNCHANGED <<outbox, lastId, dests, batches, generation, claims, failed,
                 accepted, revived>>

\* PrepareFor, then the request goes out.  Nothing is read again from the
\* database, and a payload that cannot be decoded is never sent.  A build
\* knows some payload formats, and the next start may be of another build.
BeginSend(c) ==
  /\ IsHead(c) /\ sent[c.worker] = "none"
  /\ c.dest \notin failed[c.worker]
  /\ \/ sent' = [sent EXCEPT ![c.worker] = "sending"]
     \/ c.id \in Damaged /\ sent' = [sent EXCEPT ![c.worker] = "unprepared"]
  /\ UNCHANGED <<outbox, lastId, dests, batches, generation, claims, failed,
                 accepted, revived>>

\* Deliver returns: the outcome the sender saw.  A send that timed out may
\* have been accepted.
EndSend(c) ==
  /\ IsHead(c) /\ sent[c.worker] = "sending"
  /\ \E outcome \in {"accepted", "failed", "permanent"}, arrived \in BOOLEAN :
       /\ outcome = "accepted" => arrived
       /\ outcome = "permanent" => ~ arrived
       /\ sent' = [sent EXCEPT ![c.worker] = outcome]
       /\ accepted' = IF arrived THEN accepted \cup {c.id} ELSE accepted
  /\ UNCHANGED <<outbox, lastId, dests, batches, generation, claims, failed,
                 revived>>

\* DeliveredClaimedResult: delivered_at is now
DeliveredRow(row) ==
  [Unleased(row, "delivered") EXCEPT !.reason = "", !.old = FALSE]

\* (mutant) the jitter is added after the cap
RetriedRowUncapped(row, delay, dead) ==
  [Unleased(row, IF dead THEN "dead" ELSE "pending") EXCEPT
     !.wait = delay + 1, !.reason = "other"]

\* RetryClaimedResult: back to pending after a delay, or dead
RetriedRow(row, delay, dead) ==
  [Unleased(row, IF dead THEN "dead" ELSE "pending") EXCEPT
     !.wait = delay, !.reason = "other"]

\* ReleaseClaimed: the attempt is not counted
ReleasedRow(row) ==
  [Unleased(row, "pending") EXCEPT !.attempts = IF @ > 0 THEN @ - 1 ELSE 0]

\* The bookkeeping after a send.  It may fail (5 second limit, database
\* error), and then the row keeps its lease until that expires.
Settle(c) ==
  /\ IsHead(c) /\ sent[c.worker] \in Outcomes
  /\ \/ outbox' = outbox
     \/ /\ sent[c.worker] = "accepted"
        /\ Fenced(c, DeliveredRow(outbox[c.id]))
     \/ /\ sent[c.worker] # "accepted"
        /\ \E delay \in 1..MaxDelay :
             Fenced(c, RetriedRow(outbox[c.id], delay,
                         \/ outbox[c.id].age = RetryWindow
                         \/ sent[c.worker] \in {"permanent", "unprepared"}))
  /\ Drop(c, IF sent[c.worker] \in {"failed", "permanent"}
             THEN failed[c.worker] \cup {c.dest}
             ELSE failed[c.worker])
  /\ UNCHANGED <<lastId, dests, batches, generation, accepted, revived>>

\* releaseItem: an item behind a failed one goes back unsent.  The call may
\* fail like any other.
ReleaseItem(c) ==
  /\ IsHead(c) /\ sent[c.worker] = "none"
  /\ c.dest \in failed[c.worker]
  /\ \/ outbox' = outbox
     \/ Fenced(c, ReleasedRow(outbox[c.id]))
  /\ Drop(c, failed[c.worker])
  /\ UNCHANGED <<lastId, dests, batches, generation, accepted, revived>>

\* what the delivery loop does next with an item
Deliver(c) == BeginSend(c) \/ EndSend(c) \/ Settle(c) \/ ReleaseItem(c)

\* The process dies: what it held in memory is gone, its rows stay leased.
Crash(w) ==
  /\ Held(w) # {}
  /\ claims' = claims \ Held(w)
  /\ sent' = [sent EXCEPT ![w] = "none"]
  /\ failed' = [failed EXCEPT ![w] = {}]
  /\ UNCHANGED <<outbox, lastId, dests, batches, generation, accepted, revived>>

----------------------------------------------------------------------------
(* The operator: destinations, settings, dead letters *)

\* (mutant) what is in flight is forgotten
PendingRowsOf(d) == {r \in RowsOf(d) : outbox[r].status = "pending"}

LiveRowsOf(d) == {r \in RowsOf(d) : Live(outbox[r])}
Disabled(row) == DeadLettered(row, "other")

\* SaveDestination with an id, and SetDestinationEnabled (which leaves the
\* URL alone): disabling dead-letters what is pending or in flight.
SaveDestination(d, enabled, readable) ==
  /\ Active(d)
  /\ dests' = [dests EXCEPT ![d] =
                 [state |-> IF enabled THEN "enabled" ELSE "disabled",
                  readable |-> readable]]
  /\ outbox' = IF enabled THEN outbox ELSE UpdateRows(LiveRowsOf(d), Disabled)
  /\ UNCHANGED <<lastId, batches, generation, claims, sent, failed, accepted,
                 revived>>

SetDestinationEnabled(d, enabled) ==
  SaveDestination(d, enabled, dests[d].readable)

\* insertDestinationTx: ids are given out in order, future rows only
InsertDestination(d, enabled) ==
  /\ dests[d].state = "absent"
  /\ \A e \in Destinations : e < d => dests[e].state # "absent"
  /\ dests' = [dests EXCEPT ![d] =
                 [state |-> IF enabled THEN "enabled" ELSE "disabled",
                  readable |-> TRUE]]
  /\ UNCHANGED <<outbox, lastId, batches, generation, claims, sent, failed,
                 accepted, revived>>

\* A soft delete; the scrubbed URL is never opened again.
DeleteDestination(d) ==
  /\ Active(d)
  /\ dests' = [dests EXCEPT ![d] = [state |-> "deleted", readable |-> TRUE]]
  /\ outbox' = UpdateRows(LiveRowsOf(d), Disabled)
  /\ UNCHANGED <<lastId, batches, generation, claims, sent, failed, accepted,
                 revived>>

\* The URL was sealed under a master key the process no longer has.
LoseKey(d) ==
  /\ d \in KeyAtRisk
  /\ Active(d) /\ dests[d].readable
  /\ dests' = [dests EXCEPT ![d].readable = FALSE]
  /\ UNCHANGED <<outbox, lastId, batches, generation, claims, sent, failed,
                 accepted, revived>>

\* batch_id IN (SELECT id FROM event_batches WHERE generation<>new)
OtherIdentity(row, gen) ==
  /\ row.batch # 0
  /\ batches[row.batch].state = "present"
  /\ batches[row.batch].gen # gen

\* (mutant) rows in flight keep their lease through the switch
PendingOfOtherIdentity(gen) ==
  {r \in Ids : outbox[r].status = "pending" /\ OtherIdentity(outbox[r], gen)}

LiveOfOtherIdentity(gen) ==
  {r \in Ids : Live(outbox[r]) /\ OtherIdentity(outbox[r], gen)}

IdentityDead(row) == [DeadLettered(row, "identity") EXCEPT !.wait = 0]

\* SaveSettings with another tailnet or OAuth client.
ChangeIdentity ==
  /\ generation < MaxGeneration
  /\ generation' = generation + 1
  /\ outbox' = UpdateRows(LiveOfOtherIdentity(generation + 1), IdentityDead)
  /\ UNCHANGED <<lastId, dests, batches, claims, sent, failed, accepted, revived>>

RevivedRow(row) ==
  [Unleased(row, "pending") EXCEPT
     !.attempts = 0, !.age = 0, !.wait = 0, !.reason = ""]

\* RetryDeadOutbox: refused for a destination that is not enabled.
RetryDeadOutbox(d) ==
  LET S == {r \in RowsOf(d) : Retryable(outbox[r])}
  IN  /\ Enabled(d) /\ S # {}
      /\ outbox' = UpdateRows(S, RevivedRow)
      /\ revived' = revived \cup S
      /\ UNCHANGED <<lastId, dests, batches, generation, claims, sent, failed,
                     accepted>>

----------------------------------------------------------------------------
(* Retention: each phase is a transaction over some of its candidates *)

\* outbox_dead_letter
CleanupDeadLetter(S) ==
  /\ S # {}
  /\ \A r \in S : /\ Live(outbox[r]) /\ outbox[r].age = RetryWindow
                  /\ outbox[r].status = "pending" \/ outbox[r].lease = 0
  /\ outbox' = UpdateRows(S, WindowExpired)
  /\ UNCHANGED <<lastId, dests, batches, generation, claims, sent, failed,
                 accepted, revived>>

\* event_batches
CleanupBatch(b) ==
  /\ batches[b].state = "present" /\ batches[b].old
  /\ batches' = [batches EXCEPT ![b].state = "deleted"]
  /\ UNCHANGED <<outbox, lastId, dests, generation, claims, sent, failed,
                 accepted, revived>>

Gone(row) == NoRow

\* delivered_outbox, dead_outbox
CleanupSettled(status, S) ==
  /\ S # {} /\ status \in {"delivered", "dead"}
  /\ \A r \in S : outbox[r].status = status /\ outbox[r].old
  /\ outbox' = UpdateRows(S, Gone)
  /\ UNCHANGED <<lastId, dests, batches, generation, claims, sent, failed,
                 accepted, revived>>

----------------------------------------------------------------------------
(* Time *)

Down(n) == IF n > 0 THEN n - 1 ELSE 0

Aged(row) ==
  IF row.status = "absent" THEN row
  ELSE [row EXCEPT !.wait = Down(@), !.lease = Down(@),
                   !.age = IF @ < RetryWindow THEN @ + 1 ELSE @]

Tick ==
  /\ outbox' = UpdateRows(Ids, Aged)
  /\ UNCHANGED <<lastId, dests, batches, generation, claims, sent, failed,
                 accepted, revived>>

OldRow(row) ==
  IF row.status = "absent" THEN row
  ELSE [row EXCEPT !.wait = 0, !.lease = 0, !.age = RetryWindow, !.old = TRUE]

\* The retention period goes by with the process down or its workers idle.
RetentionPeriod ==
  /\ LongRun
  /\ claims = {}
  /\ outbox' = UpdateRows(Ids, OldRow)
  /\ batches' = [b \in BatchIds |->
                   IF batches[b].state = "none" THEN batches[b]
                   ELSE [batches[b] EXCEPT !.old = TRUE]]
  /\ UNCHANGED <<lastId, dests, generation, claims, sent, failed, accepted,
                 revived>>

----------------------------------------------------------------------------
Worker ==
  \/ \E w \in Workers : ClaimDueOutbox(w) \/ Crash(w)
  \/ \E c \in claims : RenewClaimed(c) \/ Deliver(c)

Operator ==
  \/ \E d \in Destinations :
       \/ \E enabled \in BOOLEAN :
            \/ SaveDestination(d, enabled, TRUE)
            \/ SetDestinationEnabled(d, enabled)
            \/ InsertDestination(d, enabled)
       \/ DeleteDestination(d) \/ LoseKey(d) \/ RetryDeadOutbox(d)
  \/ ChangeIdentity

Producer ==
  \/ EnqueueSystem
  \/ \E targets \in SUBSET Destinations : EnqueueDigest(targets)

Retention ==
  \/ \E S \in SUBSET Ids :
       CleanupDeadLetter(S) \/ \E st \in {"delivered", "dead"} : CleanupSettled(st, S)
  \/ \E b \in BatchIds : CleanupBatch(b)

Next == Producer \/ Worker \/ Operator \/ Retention \/ Tick \/ RetentionPeriod

Spec == Init /\ [][Next]_vars

\* Time passes, the delivery ticker fires, sends end by their own timeout and
\* bookkeeping returns (successfully or not): nothing else is promised.
Fairness ==
  /\ WF_vars(Tick)
  /\ \A w \in Workers :
       /\ WF_vars(ClaimDueOutbox(w))
       /\ WF_vars(\E c \in Held(w) : Deliver(c))

FairSpec == Spec /\ Fairness

----------------------------------------------------------------------------
(* Properties *)

\* A row is leased exactly while it is processing, and at most one of the
\* claims workers still hold for it carries its token: whatever expired,
\* was reclaimed, disabled or revived in between, two workers can never both
\* pass the WHERE clause of the bookkeeping statements.
LeaseDiscipline ==
  /\ \A r \in Ids :
       /\ outbox[r].status = "processing" <=> outbox[r].token # NoToken
       /\ outbox[r].lease > 0 => outbox[r].status = "processing"
  /\ \A c, e \in claims : c.id = e.id /\ Owns(c) /\ Owns(e) => c = e

\* A disabled or removed destination has nothing pending or in flight
\* (SetDestinationEnabled, DeleteDestination), whatever a worker that still
\* holds one of its items records afterwards.
DisabledHoldsNothing ==
  \A r \in Ids : Live(outbox[r]) => Enabled(outbox[r].dest)

\* After SaveSettings switched the identity no digest of another identity is
\* pending or leased, as long as its event batch is on record.  What a worker
\* claimed before may still be sent, against store/settings.go:159.
IdentityFence ==
  \A r \in Ids : Live(outbox[r]) => ~ OtherIdentity(outbox[r], generation)

\* A row is marked delivered only if a provider accepted it: no crash, lost
\* lease or undecodable payload turns into a silent success.
DeliveredWasAccepted ==
  \A r \in Ids : outbox[r].status = "delivered" => r \in accepted

\* Each destination receives its notifications oldest first: when a provider
\* accepts a row for the first time, no older row of that destination that
\* it has not had is still to be sent.  Dead letters an operator requeued are
\* late on purpose, damaged payloads never arrive.
OldestFirst ==
  [][\A b \in accepted' \ accepted :
       \A a \in Ids \ (accepted \cup revived \cup Damaged) :
         a < b /\ outbox[a].dest = outbox[b].dest => ~ Live(outbox[a])]_vars

\* A delivered row never changes again, and a dead letter comes back only by
\* the operator's retry, not when a change of identity is its recorded reason
\* and not while its batch is on record under another identity
\* (RetryDeadOutbox).  It does not say that no dead letter of another identity
\* comes back, as docs/operations.md:81 does: once retention has deleted the
\* batch, only the recorded reason tells the identity, and it may be another.
SettledIsFinal ==
  [][\A r \in Ids :
       /\ outbox[r].status = "delivered" =>
            outbox'[r].status \in {"delivered", "absent"}
       /\ outbox[r].status = "dead" /\ Live(outbox'[r]) =>
            /\ outbox[r].reason # "identity"
            /\ ~ OtherIdentity(outbox[r], generation)
            /\ r \in revived' /\ outbox'[r].age = 0]_vars

\* A lease that has not run out ends only by its own worker giving the item
\* up, by the operator disabling or removing the destination, or by an
\* identity change: neither a claim, nor retention, nor another worker's
\* late bookkeeping takes the row away from the send in flight.
LeaseRespected ==
  [][\A r \in Ids :
       outbox[r].lease > 0 /\ outbox'[r].token # outbox[r].token =>
         \/ \E c \in claims \ claims' : c.id = r /\ c.token = outbox[r].token
         \/ dests'[outbox[r].dest].state # "enabled"
         \/ generation' # generation]_vars

\* Every row is delivered or dead in the end, across crashes, failed
\* bookkeeping, hanging destinations and worker restarts: the queue never
\* strands a notification.
EventuallySettled ==
  \A r \in Ids : Live(outbox[r]) ~> ~ Live(outbox[r])
=============================================================================
