---------------------------- MODULE OutboxProofs ----------------------------
(***************************************************************************)
(* Proofs about Outbox for every set of destinations, workers and tokens   *)
(* and every value of the bounds.                                          *)
(*                                                                         *)
(* The inductive invariant IInv is the type invariant, the three safety    *)
(* invariants and RowsNameDestinations.  Almost every action "narrows" the *)
(* table: it leaves a row's lease alone or clears it, and makes no row     *)
(* live that was not.  The exceptions are inserting, claiming and the      *)
(* operator's retry of dead letters, which have lemmas of their own.       *)
(*                                                                         *)
(* The second half is about the life of a notification: it reaches each    *)
(* destination oldest first, is marked delivered only once a provider has  *)
(* accepted it, never comes back by itself once settled, and is not taken  *)
(* from the worker that is sending it.  RowSteps says, row by row, what a  *)
(* step of the program may do to a row that is in the table.  The order    *)
(* rests on OlderAreHeld: a worker that holds a row also holds every older *)
(* row its destination still waits for, or has seen that destination fail  *)
(* in this pass.  A claim establishes it because the older rows of a       *)
(* claimable row are due themselves and rank before it.                    *)
(***************************************************************************)
EXTENDS Outbox, FiniteSetTheorems, TLAPS

RowsNameDestinations ==
  \A r \in Ids : outbox[r].status # "absent" => outbox[r].dest \in Destinations

IInv ==
  /\ TypeOK
  /\ RowsNameDestinations
  /\ LeaseDiscipline
  /\ DisabledHoldsNothing
  /\ IdentityFence

\* What the invariant says of a single row.
RowOK(row) ==
  /\ row \in Row
  /\ row.status # "absent" => row.dest \in Destinations
  /\ row.status = "processing" <=> row.token # NoToken
  /\ row.lease > 0 => row.status = "processing"

\* A step of a row that gives nobody a lease and revives nothing.
Narrows(old, new) ==
  /\ RowOK(new)
  /\ new.token = NoToken \/ (new.token = old.token /\ new.status = old.status)
  /\ Live(new) => Live(old) /\ new.dest = old.dest /\ new.batch = old.batch

----------------------------------------------------------------------------
(* Rows *)

\* The values the statements write lie within the bounds of a row's counters.
LEMMA Zeros ==
  /\ 0 \in 0..Lease /\ 0 \in 0..MaxDelay /\ 0 \in 0..RetryWindow
  /\ 0 \in 0..AttemptCap /\ Lease \in 0..Lease
  /\ RetryWindow \in 0..RetryWindow
  BY OutboxAssumption

\* A counter that Tick or an attempt moves stays in its range, and a countdown
\* that is running was running before.
LEMMA Counters ==
  ASSUME NEW n \in Nat, NEW i \in 0..n
  PROVE  /\ Down(i) \in 0..n
         /\ Down(i) > 0 => i > 0
         /\ (IF i < n THEN i + 1 ELSE i) \in 0..n
         /\ (IF i > 0 THEN i - 1 ELSE 0) \in 0..n
  BY DEF Down

\* INSERT INTO outbox writes a well formed row that nobody holds.
LEMMA NewRowOK ==
  ASSUME NEW d \in Destinations, NEW b \in BatchIds \cup {0}
  PROVE  /\ RowOK(NoRow) /\ ~ Live(NoRow) /\ NoRow.token = NoToken
         /\ RowOK(NewRow(d, b))
         /\ NewRow(d, b).dest = d /\ NewRow(d, b).batch = b
         /\ NewRow(d, b).token = NoToken
<1>1. NoRow \in Row
  BY Zeros DEF NoRow, Row, Statuses, Reasons
<1>2. NewRow(d, b) \in Row
  BY <1>1 DEF NewRow, Row, Statuses
<1>3. /\ NoRow.status = "absent" /\ NoRow.token = NoToken /\ NoRow.lease = 0
      /\ NewRow(d, b).status = "pending" /\ NewRow(d, b).token = NoToken
      /\ NewRow(d, b).lease = 0 /\ NewRow(d, b).dest = d /\ NewRow(d, b).batch = b
  BY DEF NewRow, NoRow
<1> QED BY <1>1, <1>2, <1>3 DEF RowOK, Live

\* Ending a lease changes the status and the two lease columns, no other.
LEMMA UnleasedFields ==
  ASSUME NEW row \in Row, NEW st \in Statuses
  PROVE  /\ Unleased(row, st) \in Row
         /\ Unleased(row, st).status = st
         /\ Unleased(row, st).dest = row.dest
         /\ Unleased(row, st).batch = row.batch
         /\ Unleased(row, st).token = NoToken
         /\ Unleased(row, st).lease = 0
         /\ Unleased(row, st).attempts = row.attempts
         /\ Unleased(row, st).reason = row.reason
  BY Zeros DEF Row, Unleased

\* Every row operator that ends a lease leaves a well formed row of the same
\* destination and batch.
LEMMA UnleasedNarrows ==
  ASSUME NEW row, RowOK(row), row.status # "absent",
         NEW st \in Statuses \ {"absent", "processing"}, st = "pending" => Live(row)
  PROVE  Narrows(row, Unleased(row, st))
<1>1. row \in Row
  BY DEF RowOK
<1> QED BY <1>1, UnleasedFields DEF Narrows, RowOK, Live

\* Dead-lettering a row, for whatever reason, ends its lease and its life.
LEMMA DeadNarrows ==
  ASSUME NEW row, RowOK(row), row.status # "absent", NEW reason \in Reasons
  PROVE  /\ Narrows(row, DeadLettered(row, reason))
         /\ Narrows(row, [DeadLettered(row, reason) EXCEPT !.wait = 0])
         /\ Narrows(row, WindowExpired(row))
         /\ ~ Live(DeadLettered(row, reason))
         /\ ~ Live([DeadLettered(row, reason) EXCEPT !.wait = 0])
         /\ ~ Live(WindowExpired(row))
<1> DEFINE u == Unleased(row, "dead")
<1>1. row \in Row
  BY DEF RowOK
<1>2. /\ u \in Row /\ u.status = "dead" /\ u.dest = row.dest
      /\ u.batch = row.batch /\ u.token = NoToken /\ u.lease = 0
  BY <1>1, UnleasedFields DEF Statuses
<1>3. /\ DeadLettered(row, reason) = [u EXCEPT !.reason = reason]
      /\ WindowExpired(row) = [u EXCEPT !.wait = 0,
                                 !.reason = IF u.reason = "" THEN "other" ELSE u.reason]
  BY DEF DeadLettered, WindowExpired
<1> HIDE DEF u
<1> DEFINE set(x, why) == [u EXCEPT !.wait = x, !.reason = why]
<1>4. ASSUME NEW x \in 0..MaxDelay, NEW why \in Reasons
      PROVE  Narrows(row, set(x, why)) /\ ~ Live(set(x, why))
  <2>1. /\ set(x, why) \in Row /\ set(x, why).status = "dead"
        /\ set(x, why).dest = row.dest /\ set(x, why).batch = row.batch
        /\ set(x, why).token = NoToken /\ set(x, why).lease = 0
    BY <1>2 DEF Row
  <2> HIDE DEF set
  <2> QED BY <2>1 DEF Narrows, RowOK, Live
<1>5. u.wait \in 0..MaxDelay /\ u.reason \in Reasons
  BY <1>2 DEF Row
<1>6. DeadLettered(row, reason) = set(u.wait, reason)
  BY <1>2, <1>3 DEF Row
<1>7. [DeadLettered(row, reason) EXCEPT !.wait = 0] = set(0, reason)
  BY <1>2, <1>3 DEF Row
<1>8. WindowExpired(row) = set(0, IF u.reason = "" THEN "other" ELSE u.reason)
  BY <1>3
<1>9. (IF u.reason = "" THEN "other" ELSE u.reason) \in Reasons
  BY <1>5 DEF Reasons
<1> HIDE DEF set
<1>10. Narrows(row, DeadLettered(row, reason)) /\ ~ Live(DeadLettered(row, reason))
  BY <1>4, <1>5, <1>6
<1>11. /\ Narrows(row, [DeadLettered(row, reason) EXCEPT !.wait = 0])
       /\ ~ Live([DeadLettered(row, reason) EXCEPT !.wait = 0])
  BY <1>4, <1>7, Zeros
<1>12. Narrows(row, WindowExpired(row)) /\ ~ Live(WindowExpired(row))
  BY <1>4, <1>8, <1>9, Zeros
<1> QED BY <1>10, <1>11, <1>12

\* Delivered, retry, release and renew, the statements a worker runs on a row
\* it owns, leave it well formed and give it to nobody else.
LEMMA BookkeepingNarrows ==
  ASSUME NEW row, RowOK(row), row.status = "processing",
         NEW delay \in 1..MaxDelay, NEW dead \in BOOLEAN
  PROVE  /\ Narrows(row, DeliveredRow(row))
         /\ Narrows(row, RetriedRow(row, delay, dead))
         /\ Narrows(row, ReleasedRow(row))
         /\ Narrows(row, [row EXCEPT !.lease = Lease])
<1> DEFINE st == IF dead THEN "dead" ELSE "pending"
           u(s) == Unleased(row, s)
<1>1. row \in Row /\ Live(row)
  BY DEF RowOK, Live
<1>2. ASSUME NEW s \in {"delivered", "dead", "pending"}
      PROVE  /\ u(s) \in Row /\ u(s).status = s /\ u(s).dest = row.dest
             /\ u(s).batch = row.batch /\ u(s).token = NoToken
             /\ u(s).lease = 0 /\ u(s).attempts = row.attempts
  BY <1>1, UnleasedFields DEF Statuses
<1>3. /\ DeliveredRow(row) = [u("delivered") EXCEPT !.reason = "", !.old = FALSE]
      /\ RetriedRow(row, delay, dead) =
           [u(st) EXCEPT !.wait = delay, !.reason = "other"]
      /\ ReleasedRow(row) = [u("pending") EXCEPT !.attempts =
           IF u("pending").attempts > 0 THEN u("pending").attempts - 1 ELSE 0]
  BY DEF DeliveredRow, RetriedRow, ReleasedRow
<1> HIDE DEF u
<1>4. ASSUME NEW v, v \in Row, v.status \in {"delivered", "dead", "pending"},
             v.dest = row.dest, v.batch = row.batch, v.token = NoToken, v.lease = 0
      PROVE  Narrows(row, v)
  BY <1>1, <1>4 DEF Narrows, RowOK, Live
<1>5. Narrows(row, DeliveredRow(row))
  <2> DEFINE v == [u("delivered") EXCEPT !.reason = "", !.old = FALSE]
  <2>1. /\ v \in Row /\ v.status = "delivered" /\ v.dest = row.dest
        /\ v.batch = row.batch /\ v.token = NoToken /\ v.lease = 0
    BY <1>2 DEF Row, Reasons
  <2> HIDE DEF v
  <2>2. Narrows(row, v)
    BY <2>1, <1>4
  <2> QED BY <2>2, <1>3 DEF v
<1>6. Narrows(row, RetriedRow(row, delay, dead))
  <2> DEFINE v == [u(st) EXCEPT !.wait = delay, !.reason = "other"]
  <2>1. st \in {"dead", "pending"} /\ delay \in 0..MaxDelay
    BY OutboxAssumption
  <2> HIDE DEF st
  <2>2. /\ v \in Row /\ v.status = st /\ v.dest = row.dest
        /\ v.batch = row.batch /\ v.token = NoToken /\ v.lease = 0
    BY <2>1, <1>2 DEF Row, Reasons
  <2> HIDE DEF v
  <2>3. Narrows(row, v)
    BY <2>1, <2>2, <1>4
  <2> QED BY <2>3, <1>3 DEF v, st
<1>7. Narrows(row, ReleasedRow(row))
  <2> DEFINE n == IF u("pending").attempts > 0 THEN u("pending").attempts - 1 ELSE 0
             v == [u("pending") EXCEPT !.attempts = n]
  <2>1. u("pending").attempts \in 0..AttemptCap
    BY <1>2 DEF Row
  <2>2. n \in 0..AttemptCap
    BY <2>1, Counters, OutboxAssumption
  <2> HIDE DEF n
  <2>3. /\ v \in Row /\ v.status = "pending" /\ v.dest = row.dest
        /\ v.batch = row.batch /\ v.token = NoToken /\ v.lease = 0
    BY <2>2, <1>2 DEF Row
  <2> HIDE DEF v
  <2>4. Narrows(row, v)
    BY <2>3, <1>4
  <2> QED BY <2>4, <1>3 DEF v, n
<1>8. Narrows(row, [row EXCEPT !.lease = Lease])
  <2> DEFINE v == [row EXCEPT !.lease = Lease]
  <2>1. /\ v \in Row /\ v.status = "processing" /\ v.dest = row.dest
        /\ v.batch = row.batch /\ v.token = row.token
    BY <1>1, Zeros DEF Row
  <2> HIDE DEF v
  <2>2. Narrows(row, v)
    BY <1>1, <2>1 DEF Narrows, RowOK, Live
  <2> QED BY <2>2 DEF v
<1> QED BY <1>5, <1>6, <1>7, <1>8

\* A requeued dead letter is a well formed row that nobody holds.
LEMMA RevivedOK ==
  ASSUME NEW row, RowOK(row), row.status # "absent"
  PROVE  /\ RowOK(RevivedRow(row))
         /\ RevivedRow(row).dest = row.dest /\ RevivedRow(row).batch = row.batch
         /\ RevivedRow(row).token = NoToken
<1> DEFINE u == Unleased(row, "pending")
           v == [u EXCEPT !.attempts = 0, !.age = 0, !.wait = 0, !.reason = ""]
<1>1. row \in Row
  BY DEF RowOK
<1>2. /\ u \in Row /\ u.status = "pending" /\ u.dest = row.dest
      /\ u.batch = row.batch /\ u.token = NoToken /\ u.lease = 0
  BY <1>1, UnleasedFields DEF Statuses
<1>3. RevivedRow(row) = v
  BY DEF RevivedRow
<1> HIDE DEF u
<1>4. /\ v \in Row /\ v.status = "pending" /\ v.dest = row.dest
      /\ v.batch = row.batch /\ v.token = NoToken /\ v.lease = 0
  BY <1>2, Zeros DEF Row, Reasons
<1> HIDE DEF v
<1> QED BY <1>3, <1>4 DEF RowOK

\* Time takes leases away and never gives one.
LEMMA TimeNarrows ==
  ASSUME NEW row, RowOK(row)
  PROVE  Narrows(row, Aged(row)) /\ Narrows(row, OldRow(row))
<1>1. CASE row.status = "absent"
  BY <1>1 DEF Aged, OldRow, Narrows, Live
<1>2. CASE row.status # "absent"
  <2>1. /\ row \in Row /\ row.wait \in 0..MaxDelay /\ row.lease \in 0..Lease
        /\ row.age \in 0..RetryWindow
    BY DEF RowOK, Row
  <2> DEFINE set(x, y, z, o) ==
        [row EXCEPT !.wait = x, !.lease = y, !.age = z, !.old = o]
  <2>2. ASSUME NEW x \in 0..MaxDelay, NEW y \in 0..Lease, NEW z \in 0..RetryWindow,
               NEW o \in BOOLEAN, y > 0 => row.lease > 0
        PROVE  Narrows(row, set(x, y, z, o))
    <3>1. LET v == set(x, y, z, o)
          IN  /\ v \in Row /\ v.status = row.status /\ v.dest = row.dest
              /\ v.batch = row.batch /\ v.token = row.token /\ v.lease = y
      BY <2>1 DEF Row
    <3> HIDE DEF set
    <3> QED BY <1>2, <2>2, <3>1 DEF Narrows, RowOK, Live
  <2>3. Narrows(row, OldRow(row))
    <3>1. OldRow(row) = set(0, 0, RetryWindow, TRUE)
      BY <1>2 DEF OldRow
    <3> HIDE DEF set
    <3>2. ~ (0 > 0) /\ TRUE \in BOOLEAN
      OBVIOUS
    <3>3. Narrows(row, set(0, 0, RetryWindow, TRUE))
      BY <3>2, <2>2, Zeros
    <3> QED BY <3>1, <3>3
  <2>4. Narrows(row, Aged(row))
    <3> DEFINE z == IF row.age < RetryWindow THEN row.age + 1 ELSE row.age
    <3>1. Aged(row) = set(Down(row.wait), Down(row.lease), z, row.old)
      BY <1>2, <2>1 DEF Aged, Row
    <3>2. /\ Down(row.wait) \in 0..MaxDelay /\ Down(row.lease) \in 0..Lease
          /\ Down(row.lease) > 0 => row.lease > 0
          /\ z \in 0..RetryWindow
      BY <2>1, Counters, OutboxAssumption
    <3>3. row.old \in BOOLEAN
      BY <2>1 DEF Row
    <3> HIDE DEF set, z
    <3> QED BY <3>1, <3>2, <3>3, <2>2
  <2> QED BY <2>3, <2>4
<1> QED BY <1>1, <1>2

----------------------------------------------------------------------------
(* The table *)

\* The invariant, read row by row.
LEMMA RowsOK ==
  ASSUME IInv
  PROVE  \A r \in Ids : RowOK(outbox[r])
  BY DEF IInv, TypeOK, RowsNameDestinations, LeaseDiscipline, RowOK

\* A step whose rows all narrow keeps the invariant if no live row is left
\* at a destination that is not enabled or under another identity.
LEMMA NarrowStep ==
  ASSUME IInv, TypeOK', claims' \subseteq claims,
         \A r \in Ids : Narrows(outbox[r], outbox'[r]),
         \A r \in Ids : Live(outbox'[r]) => /\ dests'[outbox[r].dest].state = "enabled"
                                            /\ ~ OtherIdentity(outbox[r], generation)'
  PROVE  IInv'
<1>1. \A r \in Ids : RowOK(outbox'[r])
  BY DEF Narrows
<1>2. RowsNameDestinations'
  BY <1>1 DEF RowsNameDestinations, RowOK
<1>3. ASSUME NEW c \in claims', Owns(c)'
      PROVE  c \in claims /\ Owns(c)
  <2>1. c \in claims /\ c.id \in Ids /\ c.token # NoToken
    BY OutboxAssumption DEF IInv, TypeOK, Claimed
  <2>2. Narrows(outbox[c.id], outbox'[c.id])
    BY <2>1
  <2> QED BY <1>3, <2>1, <2>2 DEF Owns, Narrows
<1>4. LeaseDiscipline'
  BY <1>1, <1>3 DEF LeaseDiscipline, RowOK, IInv
<1>5. DisabledHoldsNothing'
  BY DEF DisabledHoldsNothing, Enabled, Narrows
<1>6. IdentityFence'
  <2> SUFFICES ASSUME NEW r \in Ids, Live(outbox'[r])
               PROVE  ~ OtherIdentity(outbox[r], generation)'
    BY DEF IdentityFence
  <2> QED OBVIOUS
<1> QED BY <1>2, <1>4, <1>5, <1>6 DEF IInv

\* Inserting a row per target leaves every other row alone.
LEMMA InsertRows ==
  ASSUME TypeOK, NEW targets \in SUBSET Destinations,
         NEW b \in BatchIds \cup {0}, Insert(targets, b)
  PROVE  /\ lastId' \in 0..MaxRows
         /\ outbox' \in [Ids -> Row]
         /\ \A r \in Ids : \/ outbox'[r] = outbox[r]
                           \/ \E d \in targets : outbox'[r] = NewRow(d, b)
<1>1. Cardinality(targets) \in Nat
  <2>1. IsFiniteSet(targets)
    BY FS_Subset, OutboxAssumption
  <2> QED BY <2>1, FS_CardinalityType
<1>2. lastId' \in 0..MaxRows
  BY <1>1, OutboxAssumption DEF Insert, TypeOK
<1> DEFINE at(d) == lastId + Cardinality({e \in targets : e <= d})
           new(r) == CHOOSE d \in targets : at(d) = r
           put(r) == IF \E d \in targets : at(d) = r
                     THEN NewRow(new(r), b) ELSE outbox[r]
<1>3. outbox' = [r \in Ids |-> put(r)]
  BY DEF Insert
<1> HIDE DEF at
<1>4. ASSUME NEW r \in Ids, \E d \in targets : at(d) = r
      PROVE  /\ new(r) \in targets
             /\ put(r) = NewRow(new(r), b)
  BY <1>4
<1>5. \A d \in targets : NewRow(d, b) \in Row
  BY NewRowOK DEF RowOK
<1>6. \A r \in Ids : put(r) = outbox[r] \/ \E d \in targets : put(r) = NewRow(d, b)
  BY <1>4
<1> HIDE DEF put
<1>7. \A r \in Ids : put(r) \in Row
  BY <1>5, <1>6 DEF TypeOK
<1> QED BY <1>2, <1>3, <1>6, <1>7

\* Enqueueing keeps the invariant: its targets are enabled and its batch is
\* of the current generation.
LEMMA InsertStep ==
  ASSUME IInv, NEW targets \in SUBSET Destinations, NEW b \in BatchIds \cup {0},
         Insert(targets, b), \A d \in targets : Enabled(d),
         batches' \in [BatchIds -> Batch],
         \A c \in BatchIds : batches'[c].state = "present" =>
            batches'[c] = batches[c] \/ batches'[c].gen = generation,
         b # 0 => batches'[b].gen = generation,
         UNCHANGED <<dests, generation, claims, sent, failed, accepted, revived>>
  PROVE  IInv'
<1>1. /\ lastId' \in 0..MaxRows
      /\ outbox' \in [Ids -> Row]
      /\ \A r \in Ids : \/ outbox'[r] = outbox[r]
                        \/ \E d \in targets : outbox'[r] = NewRow(d, b)
  BY InsertRows DEF IInv
<1>2. TypeOK'
  BY <1>1 DEF IInv, TypeOK
<1>3. ASSUME NEW r \in Ids, outbox'[r] # outbox[r]
      PROVE  \E d \in targets :
               /\ RowOK(outbox'[r])
               /\ outbox'[r].dest = d /\ outbox'[r].batch = b
               /\ outbox'[r].token = NoToken
  BY <1>1, <1>3, NewRowOK
<1>4. \A r \in Ids : RowOK(outbox'[r])
  BY <1>3, RowsOK
<1>5. RowsNameDestinations'
  BY <1>4 DEF RowsNameDestinations, RowOK
<1>6. ASSUME NEW c \in claims, Owns(c)'
      PROVE  Owns(c)
  <2>1. c.id \in Ids /\ c.token # NoToken
    BY OutboxAssumption DEF IInv, TypeOK, Claimed
  <2>2. outbox'[c.id] = outbox[c.id]
    BY <1>3, <1>6, <2>1 DEF Owns
  <2> QED BY <1>6, <2>2 DEF Owns
<1>7. LeaseDiscipline'
  BY <1>4, <1>6 DEF LeaseDiscipline, RowOK, IInv
<1>8. DisabledHoldsNothing'
  BY <1>3 DEF DisabledHoldsNothing, Enabled, IInv
<1>9. IdentityFence'
  <2> SUFFICES ASSUME NEW r \in Ids, Live(outbox'[r])
               PROVE  ~ OtherIdentity(outbox[r], generation)'
    BY DEF IdentityFence
  <2>1. CASE outbox'[r] = outbox[r]
    <3>1. outbox[r].batch \in BatchIds \cup {0}
      BY DEF IInv, TypeOK, Row
    <3> QED BY <2>1, <3>1 DEF IInv, IdentityFence, OtherIdentity
  <2>2. CASE outbox'[r] # outbox[r]
    BY <2>2, <1>3 DEF OtherIdentity
  <2> QED BY <2>1, <2>2
<1> QED BY <1>2, <1>5, <1>7, <1>8, <1>9 DEF IInv

\* Requeueing dead letters keeps the invariant: Retryable leaves out the
\* batches on record under another identity.
LEMMA RetryDeadStep ==
  ASSUME IInv, NEW d \in Destinations, RetryDeadOutbox(d)
  PROVE  IInv'
<1> DEFINE S == {r \in RowsOf(d) : Retryable(outbox[r])}
<1>1. /\ outbox' = [r \in Ids |-> IF r \in S THEN RevivedRow(outbox[r]) ELSE outbox[r]]
      /\ revived' = revived \cup S
      /\ Enabled(d)
      /\ UNCHANGED <<lastId, dests, batches, generation, claims, sent, failed,
                     accepted>>
  BY DEF RetryDeadOutbox, UpdateRows
<1>2. ASSUME NEW r \in S
      PROVE  /\ r \in Ids /\ outbox[r].dest = d /\ outbox[r].status # "absent"
             /\ ~ OtherIdentity(outbox[r], generation)
  BY DEF RowsOf, Retryable, OtherIdentity
<1> HIDE DEF S
<1>3. \A r \in Ids : RowOK(outbox[r])
  BY RowsOK
<1>4. \A r \in S : /\ RowOK(outbox'[r]) /\ outbox'[r].dest = d
                   /\ outbox'[r].batch = outbox[r].batch
                   /\ outbox'[r].token = NoToken
  BY <1>1, <1>2, <1>3, RevivedOK
<1>5. \A r \in Ids \ S : outbox'[r] = outbox[r]
  BY <1>1
<1>6. \A r \in Ids : RowOK(outbox'[r])
  BY <1>3, <1>4, <1>5
<1>7. TypeOK'
  <2>1. outbox' \in [Ids -> Row]
    BY <1>1, <1>6 DEF RowOK
  <2>2. revived' \subseteq Ids
    BY <1>1, <1>2 DEF IInv, TypeOK
  <2> QED BY <2>1, <2>2, <1>1 DEF IInv, TypeOK
<1>8. RowsNameDestinations'
  BY <1>6 DEF RowsNameDestinations, RowOK
<1>9. ASSUME NEW c \in claims, Owns(c)'
      PROVE  Owns(c)
  <2>1. c.id \in Ids /\ c.token # NoToken
    BY OutboxAssumption DEF IInv, TypeOK, Claimed
  <2>2. outbox'[c.id] = outbox[c.id]
    BY <1>4, <1>5, <1>9, <2>1 DEF Owns
  <2> QED BY <1>9, <2>2 DEF Owns
<1>10. LeaseDiscipline'
  BY <1>1, <1>6, <1>9 DEF LeaseDiscipline, RowOK, IInv
<1>11. DisabledHoldsNothing'
  BY <1>1, <1>4, <1>5 DEF DisabledHoldsNothing, Enabled, IInv
<1>12. IdentityFence'
  BY <1>1, <1>2, <1>4, <1>5 DEF IdentityFence, OtherIdentity, IInv
<1> QED BY <1>7, <1>8, <1>10, <1>11, <1>12 DEF IInv

\* Taking back expired leases and closing the retry window narrows the table.
LEMMA HorizonNarrows ==
  ASSUME IInv
  PROVE  \A r \in Ids : Narrows(outbox[r], Horizon[r]) /\ RowOK(Horizon[r])
<1>1. \A r \in Ids : RowOK(outbox[r])
  BY RowsOK
<1>2. ASSUME NEW r \in Ids
      PROVE  Narrows(outbox[r], Reclaimed[r])
  <2>1. CASE outbox[r].status = "processing" /\ outbox[r].lease = 0
    <3>1. Reclaimed[r] = Unleased(outbox[r], "pending")
      BY <2>1 DEF Reclaimed
    <3>2. "pending" \in Statuses \ {"absent", "processing"} /\ Live(outbox[r])
      BY <2>1 DEF Statuses, Live
    <3> QED BY <2>1, <3>1, <3>2, <1>1, UnleasedNarrows
  <2>2. CASE ~ (outbox[r].status = "processing" /\ outbox[r].lease = 0)
    BY <2>2, <1>1 DEF Reclaimed, Narrows
  <2> QED BY <2>1, <2>2
<1>3. ASSUME NEW r \in Ids
      PROVE  Narrows(outbox[r], Horizon[r])
  <2>1. CASE Reclaimed[r].status = "pending" /\ Reclaimed[r].age = RetryWindow
    <3>1. Horizon[r] = WindowExpired(Reclaimed[r])
      BY <2>1 DEF Horizon
    <3>2. RowOK(Reclaimed[r]) /\ Reclaimed[r].status # "absent"
      BY <2>1, <1>2 DEF Narrows
    <3>3. "other" \in Reasons
      BY DEF Reasons
    <3>4. Narrows(Reclaimed[r], Horizon[r]) /\ ~ Live(Horizon[r])
      BY <3>1, <3>2, <3>3, DeadNarrows
    <3> QED BY <3>4, <1>2 DEF Narrows, Live, RowOK
  <2>2. CASE ~ (Reclaimed[r].status = "pending" /\ Reclaimed[r].age = RetryWindow)
    BY <2>2, <1>2 DEF Horizon
  <2> QED BY <2>1, <2>2
<1> QED BY <1>3 DEF Narrows

\* A claim keeps the invariant: the tokens it gives out are fresh.
LEMMA ClaimStep ==
  ASSUME IInv, NEW w \in Workers, ClaimDueOutbox(w)
  PROVE  IInv'
<1> DEFINE leased == {r \in Selected : Readable(r)}
           mine(token) == {[worker |-> w, id |-> r, dest |-> Horizon[r].dest,
                            token |-> token[r]] : r \in leased}
<1>1. PICK token \in [leased -> Tokens] :
        /\ \A r \in leased : \A c \in claims : c.id = r => c.token # token[r]
        /\ outbox' = AfterClaim(token)
        /\ claims' = claims \cup mine(token)
  BY DEF ClaimDueOutbox
<1>2. UNCHANGED <<lastId, dests, batches, generation, sent, failed, accepted, revived>>
  BY DEF ClaimDueOutbox
<1>3. \A r \in Ids : Narrows(outbox[r], Horizon[r]) /\ RowOK(Horizon[r])
  BY HorizonNarrows
<1>4. \A r \in leased : /\ r \in Ids /\ Horizon[r].status = "pending"
                        /\ Enabled(Horizon[r].dest)
                        /\ Horizon[r].dest \in Destinations
  BY <1>3 DEF Selected, Due, RowOK
<1>5. ASSUME NEW r \in leased
      PROVE  /\ RowOK(outbox'[r])
             /\ outbox'[r].dest = Horizon[r].dest
             /\ outbox'[r].batch = Horizon[r].batch
             /\ outbox'[r].token = token[r]
  <2> DEFINE n == IF Horizon[r].attempts < AttemptCap THEN Horizon[r].attempts + 1
                                                      ELSE Horizon[r].attempts
             v == [Horizon[r] EXCEPT !.status = "processing", !.lease = Lease,
                                     !.token = token[r], !.attempts = n]
  <2>1. outbox'[r] = v
    BY <1>1, <1>4 DEF AfterClaim
  <2>2. Horizon[r] \in Row /\ Horizon[r].attempts \in 0..AttemptCap
    BY <1>3, <1>4 DEF RowOK, Row
  <2>3. n \in 0..AttemptCap
    BY <2>2, Counters, OutboxAssumption
  <2>4. token[r] \in Tokens /\ token[r] # NoToken
    BY <1>1, OutboxAssumption
  <2> HIDE DEF n, leased
  <2>5. /\ v \in Row /\ v.status = "processing" /\ v.dest = Horizon[r].dest
        /\ v.batch = Horizon[r].batch /\ v.token = token[r]
    BY <2>2, <2>3, <2>4, Zeros DEF Row, Statuses
  <2> HIDE DEF v
  <2> QED BY <2>1, <2>4, <2>5, <1>4 DEF RowOK, leased
<1>6. ASSUME NEW r \in Ids \ leased
      PROVE  Narrows(outbox[r], outbox'[r])
  <2>1. CASE r \notin Selected
    BY <2>1, <1>1, <1>3 DEF AfterClaim
  <2>2. CASE r \in Selected
    <3>1. Horizon[r].status = "pending" /\ ~ Readable(r)
      BY <2>2 DEF Selected, Due
    <3>2. outbox'[r] = [DeadLettered(Horizon[r], "other") EXCEPT !.wait = 0]
      BY <2>2, <3>1, <1>1 DEF AfterClaim
    <3>3. Narrows(Horizon[r], outbox'[r]) /\ ~ Live(outbox'[r])
      BY <3>1, <3>2, <1>3, DeadNarrows DEF Reasons
    <3> QED BY <3>3, <1>3 DEF Narrows, Live, RowOK
  <2> QED BY <2>1, <2>2
<1>7. \A r \in Ids : RowOK(outbox'[r])
  BY <1>5, <1>6 DEF Narrows
<1>8. claims' \subseteq Claimed
  <2>1. ASSUME NEW r \in leased
        PROVE  [worker |-> w, id |-> r, dest |-> Horizon[r].dest,
                token |-> token[r]] \in Claimed
    BY <1>1, <1>4 DEF Claimed
  <2> HIDE DEF leased
  <2> QED BY <1>1, <2>1 DEF IInv, TypeOK
<1>9. TypeOK'
  <2>1. outbox' \in [Ids -> Row]
    BY <1>1, <1>7 DEF AfterClaim, RowOK
  <2> QED BY <2>1, <1>2, <1>8 DEF IInv, TypeOK
<1>10. RowsNameDestinations'
  BY <1>7 DEF RowsNameDestinations, RowOK
<1> HIDE DEF leased
<1>11. ASSUME NEW c \in claims, Owns(c)'
       PROVE  Owns(c) /\ c.id \notin leased
  <2>1. c.id \in Ids /\ c.token # NoToken
    BY OutboxAssumption DEF IInv, TypeOK, Claimed
  <2>2. c.id \notin leased
    BY <1>1, <1>5, <1>11 DEF Owns
  <2>3. Narrows(outbox[c.id], outbox'[c.id])
    BY <1>6, <2>1, <2>2
  <2> QED BY <1>11, <2>1, <2>2, <2>3 DEF Owns, Narrows
<1>12. LeaseDiscipline'
  <2>1. ASSUME NEW c \in claims', NEW e \in claims', c.id = e.id, Owns(c)', Owns(e)'
        PROVE  c = e
    <3>1. CASE c \in claims /\ e \in claims
      BY <3>1, <2>1, <1>11 DEF IInv, LeaseDiscipline
    <3>2. CASE c \in mine(token) /\ e \in mine(token)
      BY <3>2, <2>1
    <3>3. CASE c \in claims /\ e \in mine(token)
      BY <3>3, <2>1, <1>11
    <3>4. CASE c \in mine(token) /\ e \in claims
      BY <3>4, <2>1, <1>11
    <3> HIDE DEF mine
    <3> QED BY <1>1, <3>1, <3>2, <3>3, <3>4
  <2> QED BY <2>1, <1>7 DEF LeaseDiscipline, RowOK
<1>13. DisabledHoldsNothing'
  <2> SUFFICES ASSUME NEW r \in Ids, Live(outbox'[r])
               PROVE  dests[outbox'[r].dest].state = "enabled"
    BY <1>2 DEF DisabledHoldsNothing, Enabled
  <2>1. CASE r \in leased
    BY <2>1, <1>4, <1>5 DEF Enabled
  <2>2. CASE r \notin leased
    BY <2>2, <1>6 DEF Narrows, IInv, DisabledHoldsNothing, Enabled
  <2> QED BY <2>1, <2>2
<1>14. IdentityFence'
  <2> SUFFICES ASSUME NEW r \in Ids, Live(outbox'[r])
               PROVE  outbox'[r].batch = outbox[r].batch /\ Live(outbox[r])
    BY <1>2 DEF IdentityFence, OtherIdentity, IInv
  <2>1. CASE r \in leased
    <3>1. Live(Horizon[r])
      BY <2>1, <1>4 DEF Live
    <3> QED BY <2>1, <3>1, <1>3, <1>5 DEF Narrows
  <2>2. CASE r \notin leased
    BY <2>2, <1>6 DEF Narrows
  <2> QED BY <2>1, <2>2
<1> QED BY <1>9, <1>10, <1>12, <1>13, <1>14 DEF IInv

----------------------------------------------------------------------------
(* Every step *)

\* What the invariant says of a live row now.
LEMMA StaysPut ==
  ASSUME IInv, outbox' = outbox
  PROVE  \A r \in Ids : Narrows(outbox[r], outbox'[r])
  BY RowsOK DEF Narrows

\* A statement behind the fence narrows the table if its row does.
LEMMA FencedNarrows ==
  ASSUME IInv, NEW c \in claims, NEW row, Fenced(c, row),
         Owns(c) => Narrows(outbox[c.id], row)
  PROVE  /\ outbox' \in [Ids -> Row]
         /\ \A r \in Ids : Narrows(outbox[r], outbox'[r])
<1>1. c.id \in Ids /\ outbox \in [Ids -> Row]
  BY DEF IInv, TypeOK, Claimed
<1>2. \A r \in Ids : Narrows(outbox[r], outbox[r])
  BY RowsOK DEF Narrows
<1>3. CASE Owns(c)
  <2>1. outbox' = [outbox EXCEPT ![c.id] = row] /\ row \in Row
    BY <1>3 DEF Fenced, Narrows, RowOK
  <2> QED BY <1>1, <1>2, <1>3, <2>1
<1>4. CASE ~ Owns(c)
  BY <1>1, <1>2, <1>4 DEF Fenced
<1> QED BY <1>3, <1>4

\* A narrowing step that leaves destinations, batches and the generation
\* alone keeps the invariant.
LEMMA QuietStep ==
  ASSUME IInv, TypeOK', claims' \subseteq claims,
         \A r \in Ids : Narrows(outbox[r], outbox'[r]),
         UNCHANGED <<dests, batches, generation>>
  PROVE  IInv'
<1>1. ASSUME NEW r \in Ids, Live(outbox'[r])
      PROVE  /\ dests'[outbox[r].dest].state = "enabled"
             /\ ~ OtherIdentity(outbox[r], generation)'
  <2>1. Live(outbox[r]) /\ outbox'[r].batch = outbox[r].batch
    BY <1>1 DEF Narrows
  <2> QED BY <2>1 DEF IInv, DisabledHoldsNothing, IdentityFence, OtherIdentity, Enabled
<1> QED BY <1>1, NarrowStep

\* Every step of the delivery loop and of the lease goroutine keeps the
\* invariant, whatever happened to the row since it was claimed.
LEMMA WorkerStep ==
  ASSUME IInv, NEW c \in claims, RenewClaimed(c) \/ Deliver(c)
  PROVE  IInv'
<1>1. c \in Claimed /\ RowOK(outbox[c.id])
  BY RowsOK DEF IInv, TypeOK, Claimed
<1>2. Owns(c) => RowOK(outbox[c.id]) /\ outbox[c.id].status = "processing"
  BY <1>1 DEF Owns
<1>3. 1 \in 1..MaxDelay /\ FALSE \in BOOLEAN
  BY OutboxAssumption
<1>4. CASE RenewClaimed(c)
  <2>1. Fenced(c, [outbox[c.id] EXCEPT !.lease = Lease])
    BY <1>4 DEF RenewClaimed
  <2>2. Owns(c) => Narrows(outbox[c.id], [outbox[c.id] EXCEPT !.lease = Lease])
    BY <1>2, <1>3, BookkeepingNarrows
  <2>3. /\ outbox' \in [Ids -> Row]
        /\ \A r \in Ids : Narrows(outbox[r], outbox'[r])
    BY <2>1, <2>2, FencedNarrows
  <2>4. TypeOK'
    BY <2>3, <1>4 DEF RenewClaimed, IInv, TypeOK
  <2> QED BY <2>3, <2>4, <1>4, QuietStep DEF RenewClaimed
<1>5. CASE BeginSend(c)
  <2>1. TypeOK'
    BY <1>5 DEF BeginSend, IInv, TypeOK, Outcomes
  <2> QED BY <2>1, <1>5, StaysPut, QuietStep DEF BeginSend
<1>6. CASE EndSend(c)
  <2>1. TypeOK'
    BY <1>1, <1>6 DEF EndSend, IInv, TypeOK, Outcomes, Claimed
  <2> QED BY <2>1, <1>6, StaysPut, QuietStep DEF EndSend
<1>7. ASSUME NEW f \in SUBSET Destinations, Drop(c, f)
      PROVE  /\ claims' \subseteq claims /\ claims' \subseteq Claimed
             /\ failed' \in [Workers -> SUBSET Destinations]
             /\ sent' \in [Workers -> Outcomes \cup {"none", "sending"}]
  BY <1>7 DEF Drop, IInv, TypeOK
<1>8. /\ failed[c.worker] \in SUBSET Destinations
      /\ failed[c.worker] \cup {c.dest} \in SUBSET Destinations
  BY <1>1 DEF IInv, TypeOK, Claimed
<1>9. CASE Settle(c)
  <2>1. /\ outbox' \in [Ids -> Row]
        /\ \A r \in Ids : Narrows(outbox[r], outbox'[r])
    <3>1. CASE outbox' = outbox
      BY <3>1, StaysPut DEF IInv, TypeOK
    <3>2. CASE Fenced(c, DeliveredRow(outbox[c.id]))
      BY <3>2, <1>2, <1>3, BookkeepingNarrows, FencedNarrows
    <3>3. ASSUME NEW delay \in 1..MaxDelay, NEW dead \in BOOLEAN,
                 Fenced(c, RetriedRow(outbox[c.id], delay, dead))
          PROVE  /\ outbox' \in [Ids -> Row]
                 /\ \A r \in Ids : Narrows(outbox[r], outbox'[r])
      BY <3>3, <1>2, BookkeepingNarrows, FencedNarrows
    <3> QED BY <3>1, <3>2, <3>3, <1>9 DEF Settle
  <2>2. /\ claims' \subseteq claims /\ claims' \subseteq Claimed
        /\ failed' \in [Workers -> SUBSET Destinations]
        /\ sent' \in [Workers -> Outcomes \cup {"none", "sending"}]
    BY <1>7, <1>8, <1>9 DEF Settle
  <2>3. TypeOK'
    BY <2>1, <2>2, <1>9 DEF Settle, IInv, TypeOK
  <2> QED BY <2>1, <2>2, <2>3, <1>9, QuietStep DEF Settle
<1>10. CASE ReleaseItem(c)
  <2>1. /\ outbox' \in [Ids -> Row]
        /\ \A r \in Ids : Narrows(outbox[r], outbox'[r])
    <3>1. CASE outbox' = outbox
      BY <3>1, StaysPut DEF IInv, TypeOK
    <3>2. CASE Fenced(c, ReleasedRow(outbox[c.id]))
      BY <3>2, <1>2, <1>3, BookkeepingNarrows, FencedNarrows
    <3> QED BY <3>1, <3>2, <1>10 DEF ReleaseItem
  <2>2. /\ claims' \subseteq claims /\ claims' \subseteq Claimed
        /\ failed' \in [Workers -> SUBSET Destinations]
        /\ sent' \in [Workers -> Outcomes \cup {"none", "sending"}]
    BY <1>7, <1>8, <1>10 DEF ReleaseItem
  <2>3. TypeOK'
    BY <2>1, <2>2, <1>10 DEF ReleaseItem, IInv, TypeOK
  <2> QED BY <2>1, <2>2, <2>3, <1>10, QuietStep DEF ReleaseItem
<1> QED BY <1>4, <1>5, <1>6, <1>9, <1>10 DEF Deliver

\* A dying worker takes its claims with it.
LEMMA CrashStep ==
  ASSUME IInv, NEW w \in Workers, Crash(w)
  PROVE  IInv'
<1>1. TypeOK'
  BY DEF Crash, IInv, TypeOK
<1> QED BY <1>1, StaysPut, QuietStep DEF Crash

\* Closing a destination leaves nothing live behind, and no other
\* destination is disturbed.
LEMMA CloseStep ==
  ASSUME IInv, NEW d \in Destinations, NEW s \in Destination,
         dests' = [dests EXCEPT ![d] = s],
         outbox' = UpdateRows(LiveRowsOf(d), Disabled),
         UNCHANGED <<lastId, batches, generation, claims, sent, failed, accepted,
                     revived>>
  PROVE  IInv'
<1>1. \A r \in Ids : RowOK(outbox[r])
  BY RowsOK
<1>2. outbox' = [r \in Ids |-> IF r \in LiveRowsOf(d) THEN Disabled(outbox[r])
                                                   ELSE outbox[r]]
  BY DEF UpdateRows
<1>3. ASSUME NEW r \in LiveRowsOf(d)
      PROVE  r \in Ids /\ Narrows(outbox[r], outbox'[r]) /\ ~ Live(outbox'[r])
  <2>1. /\ r \in Ids /\ RowOK(outbox[r]) /\ outbox[r].status # "absent"
        /\ outbox'[r] = DeadLettered(outbox[r], "other")
    BY <1>1, <1>2 DEF LiveRowsOf, RowsOf, Live, Disabled
  <2>2. "other" \in Reasons
    BY DEF Reasons
  <2> QED BY <2>1, <2>2, DeadNarrows
<1>4. ASSUME NEW r \in Ids \ LiveRowsOf(d)
      PROVE  Narrows(outbox[r], outbox'[r]) /\ outbox'[r] = outbox[r]
  BY <1>1, <1>2 DEF Narrows
<1>5. \A r \in Ids : Narrows(outbox[r], outbox'[r])
  BY <1>3, <1>4
<1>6. TypeOK'
  <2>1. outbox' \in [Ids -> Row]
    BY <1>2, <1>5 DEF Narrows, RowOK
  <2> QED BY <2>1 DEF IInv, TypeOK
<1>7. ASSUME NEW r \in Ids, Live(outbox'[r])
      PROVE  /\ dests'[outbox[r].dest].state = "enabled"
             /\ ~ OtherIdentity(outbox[r], generation)'
  <2>1. outbox'[r] = outbox[r] /\ r \notin LiveRowsOf(d)
    BY <1>3, <1>4, <1>7
  <2>2. outbox[r].dest # d
    BY <2>1, <1>7 DEF LiveRowsOf, RowsOf
  <2>3. outbox[r].dest \in Destinations
    BY <2>1, <1>1, <1>7 DEF RowOK, Live
  <2> QED BY <2>1, <2>2, <2>3, <1>7
          DEF IInv, TypeOK, DisabledHoldsNothing, IdentityFence, OtherIdentity, Enabled
<1> QED BY <1>5, <1>6, <1>7, NarrowStep

\* A step that changes the destinations table alone, and disables nothing.
LEMMA OpenStep ==
  ASSUME IInv, NEW d \in Destinations, NEW s \in Destination,
         dests' = [dests EXCEPT ![d] = s],
         Enabled(d) => s.state = "enabled",
         UNCHANGED <<outbox, lastId, batches, generation, claims, sent, failed,
                     accepted, revived>>
  PROVE  IInv'
<1>1. TypeOK'
  BY DEF IInv, TypeOK
<1>2. ASSUME NEW r \in Ids, Live(outbox'[r])
      PROVE  /\ dests'[outbox[r].dest].state = "enabled"
             /\ ~ OtherIdentity(outbox[r], generation)'
  <2>1. outbox[r].dest \in Destinations
    BY <1>2, RowsOK DEF RowOK, Live
  <2> QED BY <2>1, <1>2
          DEF IInv, TypeOK, DisabledHoldsNothing, IdentityFence, OtherIdentity, Enabled
<1> QED BY <1>1, <1>2, StaysPut, NarrowStep

\* The operator's changes of a destination keep the invariant.
LEMMA DestinationStep ==
  ASSUME IInv, NEW d \in Destinations, NEW enabled \in BOOLEAN,
         \/ SaveDestination(d, enabled, TRUE)
         \/ SetDestinationEnabled(d, enabled)
         \/ InsertDestination(d, enabled)
         \/ DeleteDestination(d)
         \/ LoseKey(d)
  PROVE  IInv'
<1>1. dests[d] \in Destination
  BY DEF IInv, TypeOK
<1> DEFINE s(readable) == [state |-> IF enabled THEN "enabled" ELSE "disabled",
                           readable |-> readable]
<1>2. ASSUME NEW readable \in BOOLEAN
      PROVE  /\ s(readable) \in Destination
             /\ enabled => s(readable).state = "enabled"
  BY DEF Destination, DestStates
<1> HIDE DEF s
<1>3. ASSUME NEW readable \in BOOLEAN, SaveDestination(d, enabled, readable)
      PROVE  IInv'
  <2>1. dests' = [dests EXCEPT ![d] = s(readable)]
    BY <1>3 DEF SaveDestination, s
  <2>2. CASE enabled
    BY <2>1, <2>2, <1>2, <1>3, OpenStep DEF SaveDestination
  <2>3. CASE ~ enabled
    BY <2>1, <2>3, <1>2, <1>3, CloseStep DEF SaveDestination
  <2> QED BY <2>2, <2>3
<1>4. CASE SaveDestination(d, enabled, TRUE)
  BY <1>3, <1>4
<1>5. CASE SetDestinationEnabled(d, enabled)
  BY <1>1, <1>3, <1>5 DEF SetDestinationEnabled, Destination
<1>6. CASE InsertDestination(d, enabled)
  <2>1. dests' = [dests EXCEPT ![d] = s(TRUE)] /\ ~ Enabled(d)
    BY <1>6 DEF InsertDestination, s, Enabled
  <2> QED BY <2>1, <1>2, <1>6, OpenStep DEF InsertDestination
<1>7. CASE DeleteDestination(d)
  <2>1. [state |-> "deleted", readable |-> TRUE] \in Destination
    BY DEF Destination, DestStates
  <2> QED BY <2>1, <1>7, CloseStep DEF DeleteDestination
<1>8. CASE LoseKey(d)
  <2> DEFINE v == [dests[d] EXCEPT !.readable = FALSE]
  <2>1. v \in Destination /\ v.state = dests[d].state
    BY <1>1 DEF Destination
  <2>2. dests' = [dests EXCEPT ![d] = v]
    BY <1>8 DEF LoseKey
  <2> HIDE DEF v
  <2>3. Enabled(d) => v.state = "enabled"
    BY <2>1 DEF Enabled
  <2> QED BY <2>1, <2>2, <2>3, <1>8, OpenStep DEF LoseKey
<1> QED BY <1>4, <1>5, <1>6, <1>7, <1>8

\* Switching the identity kills every live row whose batch is on record under
\* another generation; the others are of no batch, or of one retention removed.
LEMMA ChangeIdentityStep ==
  ASSUME IInv, ChangeIdentity
  PROVE  IInv'
<1> DEFINE S == LiveOfOtherIdentity(generation + 1)
<1>1. /\ generation' = generation + 1 /\ generation' \in 1..MaxGeneration
      /\ outbox' = [r \in Ids |-> IF r \in S THEN IdentityDead(outbox[r])
                                             ELSE outbox[r]]
      /\ UNCHANGED <<lastId, dests, batches, claims, sent, failed, accepted, revived>>
  BY OutboxAssumption DEF ChangeIdentity, UpdateRows, IInv, TypeOK
<1>2. \A r \in Ids : RowOK(outbox[r])
  BY RowsOK
<1>3. \A r \in S : r \in Ids /\ Live(outbox[r])
  BY DEF LiveOfOtherIdentity
<1>4. \A r \in Ids \ S : Live(outbox[r]) => ~ OtherIdentity(outbox[r], generation + 1)
  BY DEF LiveOfOtherIdentity
<1> HIDE DEF S
<1>5. ASSUME NEW r \in S
      PROVE  Narrows(outbox[r], outbox'[r]) /\ ~ Live(outbox'[r])
  <2>1. /\ RowOK(outbox[r]) /\ outbox[r].status # "absent"
        /\ outbox'[r] = [DeadLettered(outbox[r], "identity") EXCEPT !.wait = 0]
    BY <1>1, <1>2, <1>3 DEF IdentityDead, Live
  <2>2. "identity" \in Reasons
    BY DEF Reasons
  <2> QED BY <2>1, <2>2, DeadNarrows
<1>6. ASSUME NEW r \in Ids \ S
      PROVE  Narrows(outbox[r], outbox'[r]) /\ outbox'[r] = outbox[r]
  BY <1>1, <1>2 DEF Narrows
<1>7. \A r \in Ids : Narrows(outbox[r], outbox'[r])
  BY <1>5, <1>6
<1>8. TypeOK'
  <2>1. outbox' \in [Ids -> Row]
    BY <1>1, <1>7 DEF Narrows, RowOK
  <2> QED BY <2>1, <1>1 DEF IInv, TypeOK
<1>9. ASSUME NEW r \in Ids, Live(outbox'[r])
      PROVE  /\ dests'[outbox[r].dest].state = "enabled"
             /\ ~ OtherIdentity(outbox[r], generation)'
  <2>1. r \notin S /\ outbox'[r] = outbox[r]
    BY <1>5, <1>6, <1>9
  <2>2. ~ OtherIdentity(outbox[r], generation + 1)
    BY <2>1, <1>4, <1>9
  <2>3. dests[outbox[r].dest].state = "enabled"
    BY <2>1, <1>9 DEF IInv, DisabledHoldsNothing, Enabled
  <2> QED BY <2>1, <2>2, <2>3, <1>1 DEF OtherIdentity
<1> QED BY <1>1, <1>7, <1>8, <1>9, NarrowStep

\* What retention does to a set of rows narrows them.
LEMMA RetentionStep ==
  ASSUME IInv,
         \/ \E S \in SUBSET Ids : \/ CleanupDeadLetter(S)
                                  \/ \E st \in {"delivered", "dead"} :
                                       CleanupSettled(st, S)
         \/ \E b \in BatchIds : CleanupBatch(b)
  PROVE  IInv'
<1>1. \A r \in Ids : RowOK(outbox[r])
  BY RowsOK
<1>2. ASSUME NEW S \in SUBSET Ids, CleanupDeadLetter(S)
      PROVE  IInv'
  <2>1. ASSUME NEW r \in Ids
        PROVE  Narrows(outbox[r], outbox'[r])
    <3>1. CASE r \in S
      <4>1. RowOK(outbox[r]) /\ outbox[r].status # "absent"
        BY <3>1, <1>1, <1>2 DEF CleanupDeadLetter, Live
      <4>2. outbox'[r] = WindowExpired(outbox[r])
        BY <3>1, <1>2 DEF CleanupDeadLetter, UpdateRows
      <4>3. "other" \in Reasons
        BY DEF Reasons
      <4> QED BY <4>1, <4>2, <4>3, DeadNarrows
    <3>2. CASE r \notin S
      BY <3>2, <1>1, <1>2 DEF CleanupDeadLetter, UpdateRows, Narrows
    <3> QED BY <3>1, <3>2
  <2>2. outbox' \in [Ids -> Row]
    BY <2>1, <1>2 DEF CleanupDeadLetter, UpdateRows, Narrows, RowOK
  <2>3. TypeOK'
    BY <2>2, <1>2 DEF CleanupDeadLetter, IInv, TypeOK
  <2> QED BY <2>1, <2>3, <1>2, QuietStep DEF CleanupDeadLetter
<1>3. ASSUME NEW S \in SUBSET Ids, NEW st \in {"delivered", "dead"},
             CleanupSettled(st, S)
      PROVE  IInv'
  <2>1. ASSUME NEW r \in Ids
        PROVE  Narrows(outbox[r], outbox'[r])
    <3>1. CASE r \in S
      <4>1. outbox'[r] = NoRow
        BY <3>1, <1>3 DEF CleanupSettled, UpdateRows, Gone
      <4>2. RowOK(NoRow) /\ ~ Live(NoRow) /\ NoRow.token = NoToken
        <5>1. NoRow \in Row
          BY Zeros DEF NoRow, Row, Statuses, Reasons
        <5>2. NoRow.status = "absent" /\ NoRow.token = NoToken /\ NoRow.lease = 0
          BY DEF NoRow
        <5> QED BY <5>1, <5>2 DEF RowOK, Live
      <4> QED BY <4>1, <4>2 DEF Narrows
    <3>2. CASE r \notin S
      BY <3>2, <1>1, <1>3 DEF CleanupSettled, UpdateRows, Narrows
    <3> QED BY <3>1, <3>2
  <2>2. outbox' \in [Ids -> Row]
    BY <2>1, <1>3 DEF CleanupSettled, UpdateRows, Narrows, RowOK
  <2>3. TypeOK'
    BY <2>2, <1>3 DEF CleanupSettled, IInv, TypeOK
  <2> QED BY <2>1, <2>3, <1>3, QuietStep DEF CleanupSettled
<1>4. ASSUME NEW b \in BatchIds, CleanupBatch(b)
      PROVE  IInv'
  <2>1. TypeOK'
    BY <1>4 DEF CleanupBatch, IInv, TypeOK, Batch
  <2>2. ASSUME NEW r \in Ids, Live(outbox'[r])
        PROVE  /\ dests'[outbox[r].dest].state = "enabled"
               /\ ~ OtherIdentity(outbox[r], generation)'
    <3>1. outbox[r].batch \in BatchIds \cup {0}
      BY DEF IInv, TypeOK, Row
    <3>2. Live(outbox[r]) /\ UNCHANGED <<outbox, dests, generation>>
      BY <2>2, <1>4 DEF CleanupBatch
    <3>3. \A c \in BatchIds : batches'[c].state = "present" => batches'[c] = batches[c]
      BY <1>4 DEF CleanupBatch, IInv, TypeOK, Batch
    <3> QED BY <3>1, <3>2, <3>3 DEF IInv, DisabledHoldsNothing, IdentityFence,
                                    OtherIdentity, Enabled
  <2> QED BY <2>1, <2>2, <1>4, StaysPut, NarrowStep DEF CleanupBatch
<1> QED BY <1>2, <1>3, <1>4

\* Time only runs leases and backoffs down.
LEMMA TimeStep ==
  ASSUME IInv, Tick \/ RetentionPeriod
  PROVE  IInv'
<1>1. \A r \in Ids : RowOK(outbox[r])
  BY RowsOK
<1>2. CASE Tick
  <2>1. outbox' = [r \in Ids |-> Aged(outbox[r])]
    BY <1>2 DEF Tick, UpdateRows
  <2>2. \A r \in Ids : Narrows(outbox[r], outbox'[r])
    BY <2>1, <1>1, TimeNarrows
  <2>3. TypeOK'
    BY <2>1, <2>2, <1>2 DEF Tick, IInv, TypeOK, Narrows, RowOK
  <2> QED BY <2>2, <2>3, <1>2, QuietStep DEF Tick
<1>3. CASE RetentionPeriod
  <2>1. outbox' = [r \in Ids |-> OldRow(outbox[r])]
    BY <1>3 DEF RetentionPeriod, UpdateRows
  <2>2. \A r \in Ids : Narrows(outbox[r], outbox'[r])
    BY <2>1, <1>1, TimeNarrows
  <2>3. ASSUME NEW b \in BatchIds
        PROVE  /\ batches'[b] \in Batch
               /\ batches'[b].state = batches[b].state /\ batches'[b].gen = batches[b].gen
    <3>1. batches[b] \in Batch
      BY DEF IInv, TypeOK
    <3>2. batches'[b] = batches[b] \/ batches'[b] = [batches[b] EXCEPT !.old = TRUE]
      BY <1>3 DEF RetentionPeriod
    <3> QED BY <3>1, <3>2 DEF Batch
  <2>4. TypeOK'
    <3>1. outbox' \in [Ids -> Row]
      BY <2>1, <2>2 DEF Narrows, RowOK
    <3>2. batches' \in [BatchIds -> Batch]
      BY <2>3, <1>3 DEF RetentionPeriod
    <3> QED BY <3>1, <3>2, <1>3 DEF RetentionPeriod, IInv, TypeOK
  <2>5. ASSUME NEW r \in Ids, Live(outbox'[r])
        PROVE  /\ dests'[outbox[r].dest].state = "enabled"
               /\ ~ OtherIdentity(outbox[r], generation)'
    <3>1. /\ Live(outbox[r]) /\ outbox'[r].batch = outbox[r].batch
          /\ outbox[r].batch \in BatchIds \cup {0}
      BY <2>2, <2>5 DEF Narrows, IInv, TypeOK, Row
    <3>2. UNCHANGED <<dests, generation>>
      BY <1>3 DEF RetentionPeriod
    <3> QED BY <3>1, <3>2, <2>3 DEF IInv, DisabledHoldsNothing, IdentityFence,
                                    OtherIdentity, Enabled
  <2> QED BY <2>2, <2>4, <2>5, <1>3, NarrowStep DEF RetentionPeriod
<1> QED BY <1>2, <1>3

\* Both producers keep the invariant.
LEMMA ProducerStep ==
  ASSUME IInv, Producer
  PROVE  IInv'
<1>1. CASE EnqueueSystem
  <2> DEFINE T == {d \in Destinations : Enabled(d)}
  <2>1. /\ T \in SUBSET Destinations /\ \A d \in T : Enabled(d)
        /\ 0 \in BatchIds \cup {0}
    OBVIOUS
  <2>2. /\ Insert(T, 0)
        /\ UNCHANGED <<dests, batches, generation, claims, sent, failed, accepted,
                       revived>>
    BY <1>1 DEF EnqueueSystem
  <2> HIDE DEF T
  <2>3. batches' \in [BatchIds -> Batch]
    BY <2>2 DEF IInv, TypeOK
  <2> QED BY <2>1, <2>2, <2>3, InsertStep
<1>2. ASSUME NEW targets \in SUBSET Destinations, EnqueueDigest(targets)
      PROVE  IInv'
  <2> DEFINE new == [state |-> "present", gen |-> generation, old |-> FALSE]
  <2>1. PICK b \in BatchIds : batches' = [batches EXCEPT ![b] = new] /\ Insert(targets, b)
    BY <1>2 DEF EnqueueDigest
  <2>2. /\ \A d \in targets : Enabled(d)
        /\ UNCHANGED <<dests, generation, claims, sent, failed, accepted, revived>>
    BY <1>2 DEF EnqueueDigest
  <2>3. new \in Batch /\ new.gen = generation
    BY OutboxAssumption DEF IInv, TypeOK, Batch
  <2> HIDE DEF new
  <2>4. /\ batches' \in [BatchIds -> Batch]
        /\ \A c \in BatchIds : batches'[c].state = "present" =>
             batches'[c] = batches[c] \/ batches'[c].gen = generation
        /\ batches'[b].gen = generation
    BY <2>1, <2>3 DEF IInv, TypeOK
  <2> QED BY <2>1, <2>2, <2>4, InsertStep
<1> QED BY <1>1, <1>2 DEF Producer

----------------------------------------------------------------------------
(* The theorems *)

\* An empty queue satisfies the invariant.
LEMMA InitInv ==
  ASSUME Init
  PROVE  IInv
<1>1. NoRow \in Row
  BY Zeros DEF NoRow, Row, Statuses, Reasons
<1>2. \A r \in Ids : outbox[r] = NoRow
  BY DEF Init
<1>3. NoRow.status = "absent" /\ NoRow.token = NoToken /\ NoRow.lease = 0
  BY DEF NoRow
<1>4. TypeOK
  <2>1. outbox \in [Ids -> Row]
    BY <1>1 DEF Init
  <2>2. dests \in [Destinations -> Destination]
    BY DEF Init, Destination, DestStates
  <2>3. batches \in [BatchIds -> Batch]
    BY OutboxAssumption DEF Init, Batch
  <2>4. lastId \in 0..MaxRows /\ generation \in 1..MaxGeneration
    BY OutboxAssumption DEF Init
  <2>5. claims = {} /\ accepted = {} /\ revived = {}
    BY DEF Init
  <2>6. /\ sent \in [Workers -> Outcomes \cup {"none", "sending"}]
        /\ failed \in [Workers -> SUBSET Destinations]
    BY DEF Init
  <2> QED BY <2>1, <2>2, <2>3, <2>4, <2>5, <2>6 DEF TypeOK
<1>5. RowsNameDestinations
  BY <1>2, <1>3 DEF RowsNameDestinations
<1>6. LeaseDiscipline
  BY <1>2, <1>3 DEF LeaseDiscipline, Init
<1>7. DisabledHoldsNothing /\ IdentityFence
  BY <1>2, <1>3 DEF DisabledHoldsNothing, IdentityFence, Live
<1> QED BY <1>4, <1>5, <1>6, <1>7 DEF IInv

\* The invariant is inductive: one case per actor.
LEMMA NextInv ==
  ASSUME IInv, [Next]_vars
  PROVE  IInv'
<1>1. CASE UNCHANGED vars
  BY <1>1 DEF vars, IInv, TypeOK, RowsNameDestinations, LeaseDiscipline,
              DisabledHoldsNothing, IdentityFence, Owns, OtherIdentity, Enabled
<1>2. CASE Producer
  BY <1>2, ProducerStep
<1>3. CASE Worker
  BY <1>3, ClaimStep, CrashStep, WorkerStep DEF Worker
<1>4. CASE Operator
  BY <1>4, DestinationStep, RetryDeadStep, ChangeIdentityStep DEF Operator
<1>5. CASE Retention
  BY <1>5, RetentionStep DEF Retention
<1>6. CASE Tick \/ RetentionPeriod
  BY <1>6, TimeStep
<1> QED BY <1>1, <1>2, <1>3, <1>4, <1>5, <1>6 DEF Next

\* The tables and the workers' memory keep their types through every store
\* method, worker step and retention phase.
THEOREM TypeCorrect == Spec => []TypeOK
<1>1. IInv => TypeOK
  BY DEF IInv
<1> QED BY <1>1, InitInv, NextInv, PTL DEF Spec

\* Two workers never both own a row: of all the claims ever made of it and
\* still in memory, at most one passes the fence of the bookkeeping
\* statements (status='processing' AND lease_token=?), and a row carries a
\* lease exactly while it is processing.
THEOREM LeasesAreExclusive == Spec => []LeaseDiscipline
<1>1. IInv => LeaseDiscipline
  BY DEF IInv
<1> QED BY <1>1, InitInv, NextInv, PTL DEF Spec

\* SetDestinationEnabled and DeleteDestination close a destination for good:
\* nothing is pending or in flight for it until it is enabled again.
THEOREM ClosedDestinationsStayEmpty == Spec => []DisabledHoldsNothing
<1>1. IInv => DisabledHoldsNothing
  BY DEF IInv
<1> QED BY <1>1, InitInv, NextInv, PTL DEF Spec

\* After SaveSettings has switched the identity no digest that event_batches
\* still records under another generation is pending or in flight.
THEOREM IdentitySwitchFences == Spec => []IdentityFence
<1>1. IInv => IdentityFence
  BY DEF IInv
<1> QED BY <1>1, InitInv, NextInv, PTL DEF Spec
-----------------------------------------------------------------------------
(* The life of a notification                                              *)

\* Ids are given out in order, and a row that is not in the table is blank.
AbsentRows ==
  \A r \in Ids : /\ outbox[r].status = "absent" => outbox[r] = NoRow
                 /\ r > lastId => outbox[r].status = "absent"

\* A claim is of a row that was inserted, and names its destination.
ClaimsNameRows ==
  \A c \in claims :
    /\ c.id <= lastId
    /\ outbox[c.id].status # "absent" => outbox[c.id].dest = c.dest

\* A worker holds a row once.
HeldApart ==
  \A c, e \in claims : c.worker = e.worker /\ c.id = e.id => c = e

\* What the outcome a worker is about to record says of the head item.
HeadOutcome ==
  /\ \A w \in Workers : Held(w) = {} => sent[w] = "none"
  /\ \A c \in claims : IsHead(c) =>
       /\ sent[c.worker] = "accepted" => c.id \in accepted
       /\ sent[c.worker] = "unprepared" => c.id \in Damaged
       /\ sent[c.worker] # "none" => c.dest \notin failed[c.worker]

\* The older rows a destination is still to receive before an item are held
\* with it, unless the destination failed in this pass.
OlderAreHeld ==
  \A c \in claims : \A a \in Ids \ (accepted \cup revived \cup Damaged) :
    a < c.id /\ Live(outbox[a]) /\ outbox[a].dest = c.dest =>
      \/ \E e \in Held(c.worker) : e.id = a
      \/ c.dest \in failed[c.worker]

OInv ==
  /\ IInv
  /\ AbsentRows
  /\ ClaimsNameRows
  /\ HeldApart
  /\ HeadOutcome
  /\ OlderAreHeld
  /\ DeliveredWasAccepted

\* The part of SettledIsFinal and of LeaseRespected about one row.
SettledStays(r) ==
  /\ outbox[r].status = "delivered" => outbox'[r].status \in {"delivered", "absent"}
  /\ outbox[r].status = "dead" /\ Live(outbox'[r]) =>
       /\ outbox[r].reason # "identity"
       /\ ~ OtherIdentity(outbox[r], generation)
       /\ r \in revived' /\ outbox'[r].age = 0

LeaseKept(r) ==
  outbox[r].lease > 0 /\ outbox'[r].token # outbox[r].token =>
    \/ \E c \in claims \ claims' : c.id = r /\ c.token = outbox[r].token
    \/ dests'[outbox[r].dest].state # "enabled"
    \/ generation' # generation

\* A step of a row that is in the table: it keeps its destination, is live
\* only if it was or an operator asked for it, and delivered only if it was
\* or a provider took it.
Stays(r) ==
  /\ outbox'[r].status = "absent" => outbox'[r] = NoRow
  /\ outbox'[r].status # "absent" =>
       outbox[r].status # "absent" /\ outbox'[r].dest = outbox[r].dest
  /\ Live(outbox'[r]) => Live(outbox[r]) \/ r \in revived'
  /\ outbox'[r].status = "delivered" => outbox[r].status = "delivered" \/ r \in accepted

RowStep(r) == Stays(r) /\ SettledStays(r) /\ LeaseKept(r)

----------------------------------------------------------------------------
(* Rows *)

\* Ids are natural numbers, and finitely many.
LEMMA IdsFinite ==
  IsFiniteSet(Ids) /\ Ids \subseteq Nat
<1>1. MaxRows \in Int /\ 1 \in Int
  BY OutboxAssumption
<1> QED BY <1>1, FS_Interval DEF Ids

\* A row that is not written takes a step of a row.
LEMMA SameRow ==
  ASSUME OInv, NEW r \in Ids, outbox'[r] = outbox[r]
  PROVE  RowStep(r)
<1>1. outbox[r].status = "absent" => outbox[r] = NoRow
  BY DEF OInv, AbsentRows
<1>2. outbox[r].status = "dead" => ~ Live(outbox[r])
  BY DEF Live
<1> QED BY <1>1, <1>2 DEF RowStep, Stays, SettledStays, LeaseKept

\* Dead-lettering keeps the row's destination, for whatever reason.
LEMMA DeadFields ==
  ASSUME NEW row \in Row, NEW reason \in Reasons
  PROVE  /\ DeadLettered(row, reason).status = "dead"
         /\ DeadLettered(row, reason).dest = row.dest
         /\ [DeadLettered(row, reason) EXCEPT !.wait = 0].status = "dead"
         /\ [DeadLettered(row, reason) EXCEPT !.wait = 0].dest = row.dest
         /\ WindowExpired(row).status = "dead"
         /\ WindowExpired(row).dest = row.dest
<1> DEFINE u == Unleased(row, "dead")
<1>1. u \in Row /\ u.status = "dead" /\ u.dest = row.dest
  BY UnleasedFields DEF Statuses
<1>2. /\ DeadLettered(row, reason) = [u EXCEPT !.reason = reason]
      /\ WindowExpired(row) = [u EXCEPT !.wait = 0,
                                 !.reason = IF u.reason = "" THEN "other" ELSE u.reason]
  BY DEF DeadLettered, WindowExpired
<1> HIDE DEF u
<1> QED BY <1>1, <1>2 DEF Row

\* What the bookkeeping statements of a worker write.
LEMMA BookkeepingFields ==
  ASSUME NEW row \in Row, NEW delay \in 1..MaxDelay, NEW dead \in BOOLEAN
  PROVE  /\ DeliveredRow(row).status = "delivered"
         /\ DeliveredRow(row).dest = row.dest
         /\ RetriedRow(row, delay, dead).status = IF dead THEN "dead" ELSE "pending"
         /\ RetriedRow(row, delay, dead).dest = row.dest
         /\ ReleasedRow(row).status = "pending"
         /\ ReleasedRow(row).dest = row.dest
         /\ LET v == [row EXCEPT !.lease = Lease]
            IN  v.status = row.status /\ v.dest = row.dest /\ v.token = row.token
<1> DEFINE st == IF dead THEN "dead" ELSE "pending"
           u(s) == Unleased(row, s)
<1>1. ASSUME NEW s \in {"delivered", "dead", "pending"}
      PROVE  u(s) \in Row /\ u(s).status = s /\ u(s).dest = row.dest
  BY UnleasedFields DEF Statuses
<1>2. /\ DeliveredRow(row) = [u("delivered") EXCEPT !.reason = "", !.old = FALSE]
      /\ RetriedRow(row, delay, dead) =
           [u(st) EXCEPT !.wait = delay, !.reason = "other"]
      /\ ReleasedRow(row) = [u("pending") EXCEPT !.attempts =
           IF u("pending").attempts > 0 THEN u("pending").attempts - 1 ELSE 0]
  BY DEF DeliveredRow, RetriedRow, ReleasedRow
<1>3. st \in {"dead", "pending"}
  OBVIOUS
<1> HIDE DEF u, st
<1>4. /\ DeliveredRow(row).status = "delivered" /\ DeliveredRow(row).dest = row.dest
      /\ ReleasedRow(row).status = "pending" /\ ReleasedRow(row).dest = row.dest
  BY <1>1, <1>2 DEF Row
<1>5. /\ RetriedRow(row, delay, dead).status = st
      /\ RetriedRow(row, delay, dead).dest = row.dest
  BY <1>1, <1>2, <1>3 DEF Row
<1>6. LET v == [row EXCEPT !.lease = Lease]
      IN  v.status = row.status /\ v.dest = row.dest /\ v.token = row.token
  BY DEF Row
<1> QED BY <1>4, <1>5, <1>6 DEF st

\* A requeued row is pending and of age zero; time changes no status, no
\* destination and no token.
LEMMA OtherFields ==
  ASSUME NEW row \in Row
  PROVE  /\ RevivedRow(row).status = "pending" /\ RevivedRow(row).dest = row.dest
         /\ RevivedRow(row).age = 0
         /\ Aged(row).status = row.status /\ Aged(row).dest = row.dest
         /\ Aged(row).token = row.token
         /\ OldRow(row).status = row.status /\ OldRow(row).dest = row.dest
         /\ OldRow(row).token = row.token
         /\ row.status = "absent" => Aged(row) = row /\ OldRow(row) = row
<1> DEFINE u == Unleased(row, "pending")
<1>1. u \in Row /\ u.status = "pending" /\ u.dest = row.dest
  BY UnleasedFields DEF Statuses
<1>2. RevivedRow(row) = [u EXCEPT !.attempts = 0, !.age = 0, !.wait = 0, !.reason = ""]
  BY DEF RevivedRow
<1> HIDE DEF u
<1>3. /\ RevivedRow(row).status = "pending" /\ RevivedRow(row).dest = row.dest
      /\ RevivedRow(row).age = 0
  BY <1>1, <1>2 DEF Row
<1>4. /\ Aged(row).status = row.status /\ Aged(row).dest = row.dest
      /\ Aged(row).token = row.token
  BY DEF Aged, Row
<1>5. /\ OldRow(row).status = row.status /\ OldRow(row).dest = row.dest
      /\ OldRow(row).token = row.token
  BY DEF OldRow, Row
<1>6. row.status = "absent" => Aged(row) = row /\ OldRow(row) = row
  BY DEF Aged, OldRow
<1> QED BY <1>3, <1>4, <1>5, <1>6

----------------------------------------------------------------------------
(* Every step, row by row *)

\* A statement behind the fence takes the row from nobody but the worker that
\* runs it, and writes nothing unless that worker still owns the row.
LEMMA FencedSteps ==
  ASSUME OInv, NEW c \in claims, NEW row, Fenced(c, row),
         Owns(c) => /\ row.dest = outbox[c.id].dest
                    /\ row.status \in {"pending", "processing", "dead", "delivered"}
                    /\ row.status = "delivered" => c.id \in accepted
                    /\ c \notin claims' \/ row.token = outbox[c.id].token
  PROVE  \A r \in Ids : RowStep(r)
<1>1. c.id \in Ids /\ outbox \in [Ids -> Row]
  BY DEF OInv, IInv, TypeOK, Claimed
<1>2. CASE ~ Owns(c)
  BY <1>2, SameRow DEF Fenced
<1>3. CASE Owns(c)
  <2>1. outbox' = [outbox EXCEPT ![c.id] = row]
    BY <1>3 DEF Fenced
  <2>2. /\ outbox'[c.id] = row /\ Live(outbox[c.id])
        /\ outbox[c.id].status = "processing" /\ outbox[c.id].token = c.token
    BY <1>1, <1>3, <2>1 DEF Owns, Live
  <2>3. RowStep(c.id)
    BY <1>3, <2>2 DEF RowStep, Stays, SettledStays, LeaseKept
  <2>4. \A r \in Ids \ {c.id} : outbox'[r] = outbox[r]
    BY <1>1, <2>1
  <2> QED BY <2>3, <2>4, SameRow
<1> QED BY <1>2, <1>3

\* The delivery loop, its lease goroutine and a crash.
LEMMA WorkerRows ==
  ASSUME OInv,
         \/ \E c \in claims : RenewClaimed(c) \/ Deliver(c)
         \/ \E w \in Workers : Crash(w)
  PROVE  \A r \in Ids : RowStep(r)
<1>1. CASE outbox' = outbox
  BY <1>1, SameRow
<1>2. ASSUME NEW c \in claims
      PROVE  outbox[c.id] \in Row
  BY DEF OInv, IInv, TypeOK, Claimed
<1>3. 1 \in 1..MaxDelay /\ TRUE \in BOOLEAN
  BY OutboxAssumption
<1>4. ASSUME NEW c \in claims, RenewClaimed(c)
      PROVE  \A r \in Ids : RowStep(r)
  <2> DEFINE v == [outbox[c.id] EXCEPT !.lease = Lease]
  <2>1. Fenced(c, v)
    BY <1>4 DEF RenewClaimed
  <2>2. v.status = outbox[c.id].status /\ v.dest = outbox[c.id].dest
        /\ v.token = outbox[c.id].token
    BY <1>2, <1>3, BookkeepingFields
  <2> HIDE DEF v
  <2> QED BY <2>1, <2>2, FencedSteps DEF Owns
<1>5. ASSUME NEW c \in claims, Settle(c)
      PROVE  \A r \in Ids : RowStep(r)
  <2>1. c \notin claims' /\ IsHead(c)
    BY <1>5 DEF Settle, Drop
  <2>2. CASE sent[c.worker] = "accepted" /\ Fenced(c, DeliveredRow(outbox[c.id]))
    <3>1. c.id \in accepted
      BY <2>1, <2>2 DEF OInv, HeadOutcome
    <3> QED BY <2>1, <2>2, <3>1, <1>2, <1>3, BookkeepingFields, FencedSteps
  <2>3. ASSUME NEW delay \in 1..MaxDelay, NEW dead \in BOOLEAN,
               Fenced(c, RetriedRow(outbox[c.id], delay, dead))
        PROVE  \A r \in Ids : RowStep(r)
    <3> DEFINE v == RetriedRow(outbox[c.id], delay, dead)
    <3>1. v.dest = outbox[c.id].dest /\ v.status \in {"pending", "dead"}
      BY <1>2, BookkeepingFields
    <3> HIDE DEF v
    <3> QED BY <2>1, <2>3, <3>1, FencedSteps DEF v
  <2> QED BY <2>2, <2>3, <1>1, <1>5 DEF Settle
<1>6. ASSUME NEW c \in claims, ReleaseItem(c)
      PROVE  \A r \in Ids : RowStep(r)
  <2>1. c \notin claims'
    BY <1>6 DEF ReleaseItem, Drop
  <2>2. CASE Fenced(c, ReleasedRow(outbox[c.id]))
    BY <2>1, <2>2, <1>2, <1>3, BookkeepingFields, FencedSteps
  <2> QED BY <2>2, <1>1, <1>6 DEF ReleaseItem
<1>7. ASSUME NEW c \in claims, BeginSend(c) \/ EndSend(c)
      PROVE  outbox' = outbox
  BY <1>7 DEF BeginSend, EndSend
<1>8. ASSUME NEW w \in Workers, Crash(w)
      PROVE  outbox' = outbox
  BY <1>8 DEF Crash
<1> QED BY <1>1, <1>4, <1>5, <1>6, <1>7, <1>8 DEF Deliver

\* What expired or lies past the window changes before a claim selects; a
\* lease that runs is not touched.
LEMMA HorizonFields ==
  ASSUME OInv, NEW r \in Ids
  PROVE  /\ Horizon[r] \in Row /\ Horizon[r].dest = outbox[r].dest
         /\ Live(Horizon[r]) => Live(outbox[r])
         /\ Horizon[r] # outbox[r] =>
              /\ Live(outbox[r]) /\ outbox[r].lease = 0
              /\ Horizon[r].status \in {"pending", "dead"}
<1>1. outbox[r] \in Row /\ outbox[r].lease \in 0..Lease
  BY DEF OInv, IInv, TypeOK, Row
<1>2. "pending" \in Statuses /\ "other" \in Reasons
  BY DEF Statuses, Reasons
<1>3. /\ Reclaimed[r] \in Row /\ Reclaimed[r].dest = outbox[r].dest
      /\ Reclaimed[r] # outbox[r] =>
           /\ outbox[r].status = "processing" /\ outbox[r].lease = 0
           /\ Reclaimed[r].status = "pending"
  BY <1>1, <1>2, UnleasedFields DEF Reclaimed
<1>4. Horizon[r] \in Row
  BY HorizonNarrows DEF OInv, RowOK
<1>5. CASE Reclaimed[r].status = "pending" /\ Reclaimed[r].age = RetryWindow
  <2>1. /\ Horizon[r] = WindowExpired(Reclaimed[r])
        /\ Horizon[r].status = "dead" /\ Horizon[r].dest = outbox[r].dest
    BY <1>2, <1>3, <1>5, DeadFields DEF Horizon
  <2>2. outbox[r].lease = 0
    BY <1>1, <1>3, <1>5 DEF OInv, IInv, LeaseDiscipline
  <2> QED BY <2>1, <2>2, <1>3, <1>4, <1>5 DEF Live
<1>6. CASE ~ (Reclaimed[r].status = "pending" /\ Reclaimed[r].age = RetryWindow)
  <2>1. Horizon[r] = Reclaimed[r]
    BY <1>6 DEF Horizon
  <2> QED BY <2>1, <1>3, <1>4 DEF Live
<1> QED BY <1>5, <1>6

\* ClaimDueOutbox takes no row whose lease runs, and settles none but by the
\* retry window or an unreadable URL.
LEMMA ClaimRows ==
  ASSUME OInv, NEW w \in Workers, ClaimDueOutbox(w)
  PROVE  \A r \in Ids : /\ RowStep(r)
                        /\ outbox'[r].dest = Horizon[r].dest
                        /\ Live(outbox'[r]) => Live(Horizon[r])
                        /\ r \notin Selected => outbox'[r] = Horizon[r]
                        /\ r \in Selected /\ ~ Readable(r) => ~ Live(outbox'[r])
<1> DEFINE leased == {r \in Selected : Readable(r)}
<1>1. PICK token \in [leased -> Tokens] : outbox' = AfterClaim(token)
  BY DEF ClaimDueOutbox
<1> SUFFICES ASSUME NEW r \in Ids
             PROVE  /\ RowStep(r)
                    /\ outbox'[r].dest = Horizon[r].dest
                    /\ Live(outbox'[r]) => Live(Horizon[r])
                    /\ r \notin Selected => outbox'[r] = Horizon[r]
                    /\ r \in Selected /\ ~ Readable(r) => ~ Live(outbox'[r])
  OBVIOUS
<1>2. /\ Horizon[r] \in Row /\ Horizon[r].dest = outbox[r].dest
      /\ Live(Horizon[r]) => Live(outbox[r])
      /\ Horizon[r] # outbox[r] => /\ Live(outbox[r]) /\ outbox[r].lease = 0
                                   /\ Horizon[r].status \in {"pending", "dead"}
  BY HorizonFields
<1>3. outbox[r].lease \in 0..Lease
  BY DEF OInv, IInv, TypeOK, Row
<1>4. CASE r \notin Selected
  <2>1. outbox'[r] = Horizon[r]
    BY <1>1, <1>4 DEF AfterClaim
  <2>2. CASE Horizon[r] = outbox[r]
    BY <2>1, <2>2, <1>4, SameRow
  <2>3. CASE Horizon[r] # outbox[r]
    <3>1. RowStep(r)
      BY <2>1, <2>3, <1>2, OutboxAssumption
         DEF RowStep, Stays, SettledStays, LeaseKept, Live
    <3> QED BY <2>1, <3>1, <1>4
  <2> QED BY <2>2, <2>3
<1>5. CASE r \in Selected
  <2>1. Horizon[r].status = "pending" /\ Live(Horizon[r])
    BY <1>5 DEF Selected, Due, Live
  <2>2. outbox[r].lease = 0 /\ outbox[r].status \in {"pending", "processing"}
    BY <1>2, <1>3, <2>1 DEF Live, OInv, IInv, LeaseDiscipline
  <2>3. /\ outbox'[r].dest = Horizon[r].dest
        /\ outbox'[r].status \in {"processing", "dead"}
        /\ ~ Readable(r) => ~ Live(outbox'[r])
    <3>1. CASE Readable(r)
      <4>1. outbox'[r] =
              [Horizon[r] EXCEPT
                 !.status = "processing", !.lease = Lease, !.token = token[r],
                 !.attempts = IF @ < AttemptCap THEN @ + 1 ELSE @]
        BY <1>1, <1>5, <3>1 DEF AfterClaim
      <4> QED BY <1>2, <3>1, <4>1 DEF Row
    <3>2. CASE ~ Readable(r)
      <4>1. outbox'[r] = [DeadLettered(Horizon[r], "other") EXCEPT !.wait = 0]
        BY <1>1, <1>5, <3>2 DEF AfterClaim
      <4>2. "other" \in Reasons
        BY DEF Reasons
      <4> QED BY <1>2, <4>1, <4>2, DeadFields DEF Live
    <3> QED BY <3>1, <3>2
  <2>4. RowStep(r)
    BY <2>2, <2>3, <1>2 DEF RowStep, Stays, SettledStays, LeaseKept, Live
  <2> QED BY <2>1, <2>3, <2>4, <1>5
<1> QED BY <1>4, <1>5

\* A statement that dead-letters live rows: it may end a running lease only
\* if it closes the destination or the identity.
LEMMA DeadRows ==
  ASSUME OInv, NEW S \in SUBSET Ids,
         \A r \in Ids \ S : outbox'[r] = outbox[r],
         \A r \in S : /\ Live(outbox[r])
                      /\ outbox'[r].status = "dead"
                      /\ outbox'[r].dest = outbox[r].dest
                      /\ \/ outbox[r].lease = 0
                         \/ dests'[outbox[r].dest].state # "enabled"
                         \/ generation' # generation
  PROVE  \A r \in Ids : RowStep(r)
<1>1. ASSUME NEW r \in S
      PROVE  RowStep(r)
  <2>1. outbox[r].lease \in 0..Lease
    BY DEF OInv, IInv, TypeOK, Row
  <2> QED BY <2>1 DEF RowStep, Stays, SettledStays, LeaseKept, Live
<1>2. ASSUME NEW r \in Ids \ S
      PROVE  RowStep(r)
  BY SameRow
<1> QED BY <1>1, <1>2

\* Disabling or removing a destination, and a change of identity, may take a
\* row from a send in flight; the operator's other changes write no row but
\* the dead letters to be retried.
LEMMA OperatorRows ==
  ASSUME OInv, Operator
  PROVE  \A r \in Ids : RowStep(r)
<1> DEFINE Goal == \A r \in Ids : RowStep(r)
<1>1. \A r \in Ids : outbox[r] \in Row /\ (Live(outbox[r]) => outbox[r].dest \in Destinations)
  BY DEF OInv, IInv, TypeOK, RowsNameDestinations, Live
<1>2. {"other", "identity"} \subseteq Reasons
  BY DEF Reasons
<1>3. CASE outbox' = outbox
  BY <1>3, SameRow
<1>4. ASSUME NEW d \in Destinations, dests'[d].state # "enabled",
             outbox' = UpdateRows(LiveRowsOf(d), Disabled)
      PROVE  Goal
  <2>1. /\ LiveRowsOf(d) \in SUBSET Ids
        /\ \A r \in LiveRowsOf(d) : Live(outbox[r]) /\ outbox[r].dest = d
    BY DEF LiveRowsOf, RowsOf
  <2>2. \A r \in Ids : outbox'[r] = IF r \in LiveRowsOf(d) THEN Disabled(outbox[r])
                                                          ELSE outbox[r]
    BY <1>4 DEF UpdateRows
  <2>3. \A r \in LiveRowsOf(d) : /\ outbox'[r].status = "dead"
                                 /\ outbox'[r].dest = outbox[r].dest
    BY <2>1, <2>2, <1>1, <1>2, DeadFields DEF Disabled
  <2> QED BY <1>4, <2>1, <2>2, <2>3, DeadRows
<1>5. ASSUME NEW d \in Destinations, NEW enabled \in BOOLEAN, NEW readable,
             SaveDestination(d, enabled, readable)
      PROVE  Goal
  <2>1. CASE enabled
    BY <2>1, <1>3, <1>5 DEF SaveDestination
  <2>2. CASE ~ enabled
    <3>1. dests'[d].state # "enabled"
      BY <2>2, <1>5 DEF SaveDestination, OInv, IInv, TypeOK
    <3> QED BY <2>2, <3>1, <1>4, <1>5 DEF SaveDestination
  <2> QED BY <2>1, <2>2
<1>6. ASSUME NEW d \in Destinations, DeleteDestination(d)
      PROVE  Goal
  <2>1. dests'[d].state # "enabled"
    BY <1>6 DEF DeleteDestination, OInv, IInv, TypeOK
  <2> QED BY <2>1, <1>4, <1>6 DEF DeleteDestination
<1>7. ASSUME NEW d \in Destinations, NEW enabled \in BOOLEAN,
             InsertDestination(d, enabled) \/ LoseKey(d)
      PROVE  outbox' = outbox
  BY <1>7 DEF InsertDestination, LoseKey
<1>8. ASSUME NEW d \in Destinations, RetryDeadOutbox(d)
      PROVE  Goal
  <2> DEFINE S == {r \in RowsOf(d) : Retryable(outbox[r])}
  <2>1. outbox' = UpdateRows(S, RevivedRow) /\ revived' = revived \cup S
    BY <1>8 DEF RetryDeadOutbox
  <2>2. ASSUME NEW r \in S
        PROVE  RowStep(r)
    <3>1. /\ r \in Ids /\ outbox[r].status = "dead"
          /\ outbox[r].reason # "identity" /\ r \in revived'
          /\ ~ OtherIdentity(outbox[r], generation)
      BY <2>1 DEF RowsOf, Retryable, OtherIdentity
    <3>2. outbox'[r] = RevivedRow(outbox[r])
      BY <2>1, <3>1 DEF UpdateRows
    <3>3. outbox[r].lease = 0
      BY <3>1 DEF OInv, IInv, TypeOK, Row, LeaseDiscipline
    <3> HIDE DEF S
    <3>4. /\ outbox'[r].status = "pending" /\ outbox'[r].age = 0
          /\ outbox'[r].dest = outbox[r].dest
      BY <3>1, <3>2, <1>1, OtherFields
    <3> QED BY <3>1, <3>3, <3>4 DEF RowStep, Stays, SettledStays, LeaseKept, Live
  <2>3. ASSUME NEW r \in Ids \ S
        PROVE  RowStep(r)
    <3>1. outbox'[r] = outbox[r]
      BY <2>1 DEF UpdateRows
    <3> QED BY <3>1, SameRow
  <2> QED BY <2>2, <2>3
<1>9. CASE ChangeIdentity
  <2> DEFINE S == LiveOfOtherIdentity(generation + 1)
  <2>1. outbox' = UpdateRows(S, IdentityDead) /\ generation' # generation
    BY <1>9 DEF ChangeIdentity, OInv, IInv, TypeOK
  <2>2. S \in SUBSET Ids /\ \A r \in S : Live(outbox[r])
    BY DEF LiveOfOtherIdentity
  <2> HIDE DEF S
  <2>3. \A r \in Ids : outbox'[r] = IF r \in S THEN IdentityDead(outbox[r])
                                              ELSE outbox[r]
    BY <2>1 DEF UpdateRows
  <2>4. \A r \in S : /\ outbox'[r].status = "dead"
                     /\ outbox'[r].dest = outbox[r].dest
    <3> SUFFICES ASSUME NEW r \in S
                 PROVE  /\ outbox'[r].status = "dead"
                        /\ outbox'[r].dest = outbox[r].dest
      OBVIOUS
    <3>1. outbox[r] \in Row /\ "identity" \in Reasons
      BY <2>2, <1>1, <1>2
    <3>2. outbox'[r] = [DeadLettered(outbox[r], "identity") EXCEPT !.wait = 0]
      BY <2>2, <2>3 DEF IdentityDead
    <3> QED BY <3>1, <3>2, DeadFields
  <2> QED BY <2>1, <2>2, <2>3, <2>4, DeadRows
<1> QED BY <1>3, <1>5, <1>6, <1>7, <1>8, <1>9 DEF Operator, SetDestinationEnabled

\* Retention takes no row from a send in flight and loses none that is live.
LEMMA RetentionRows ==
  ASSUME OInv, Retention
  PROVE  \A r \in Ids : RowStep(r)
<1>1. \A r \in Ids : outbox[r] \in Row /\ outbox[r].lease \in 0..Lease
  BY DEF OInv, IInv, TypeOK, Row
<1>2. ASSUME NEW S \in SUBSET Ids, CleanupDeadLetter(S)
      PROVE  \A r \in Ids : RowStep(r)
  <2>1. \A r \in S : Live(outbox[r]) /\ outbox[r].lease = 0
    <3>1. \A r \in S : /\ Live(outbox[r])
                       /\ outbox[r].status = "pending" \/ outbox[r].lease = 0
      BY <1>2 DEF CleanupDeadLetter
    <3>2. \A r \in Ids : outbox[r].lease > 0 => outbox[r].status = "processing"
      BY DEF OInv, IInv, LeaseDiscipline
    <3>3. Lease \in Nat
      BY OutboxAssumption
    <3>4. \A r \in S : outbox[r].lease = 0
      BY <1>1, <3>1, <3>2, <3>3
    <3> QED BY <3>1, <3>4
  <2>2. \A r \in Ids : outbox'[r] = IF r \in S THEN WindowExpired(outbox[r])
                                              ELSE outbox[r]
    BY <1>2 DEF CleanupDeadLetter, UpdateRows
  <2>3. \A r \in S : /\ outbox'[r].status = "dead"
                     /\ outbox'[r].dest = outbox[r].dest
    <3> SUFFICES ASSUME NEW r \in S
                 PROVE  /\ outbox'[r].status = "dead"
                        /\ outbox'[r].dest = outbox[r].dest
      OBVIOUS
    <3>1. outbox[r] \in Row /\ "identity" \in Reasons
      BY <1>1 DEF Reasons
    <3>2. outbox'[r] = WindowExpired(outbox[r])
      BY <2>2
    <3> QED BY <3>1, <3>2, DeadFields
  <2> QED BY <2>1, <2>2, <2>3, DeadRows
<1>3. ASSUME NEW S \in SUBSET Ids, NEW st \in {"delivered", "dead"},
             CleanupSettled(st, S)
      PROVE  \A r \in Ids : RowStep(r)
  <2>1. ASSUME NEW r \in S
        PROVE  RowStep(r)
    <3>1. outbox'[r] = NoRow /\ outbox[r].status = st
      BY <1>3 DEF CleanupSettled, UpdateRows, Gone
    <3>2. NoRow.status = "absent"
      BY DEF NoRow
    <3>3. outbox[r].lease = 0
      BY <3>1, <1>1 DEF OInv, IInv, LeaseDiscipline
    <3> QED BY <3>1, <3>2, <3>3 DEF RowStep, Stays, SettledStays, LeaseKept, Live
  <2>2. ASSUME NEW r \in Ids \ S
        PROVE  RowStep(r)
    <3>1. outbox'[r] = outbox[r]
      BY <1>3 DEF CleanupSettled, UpdateRows
    <3> QED BY <3>1, SameRow
  <2> QED BY <2>1, <2>2
<1>4. ASSUME NEW b \in BatchIds, CleanupBatch(b)
      PROVE  \A r \in Ids : RowStep(r)
  BY <1>4, SameRow DEF CleanupBatch
<1> QED BY <1>2, <1>3, <1>4 DEF Retention

\* Time settles nothing and hands no row on: a lease that runs out leaves its
\* token until a claim takes it back.
LEMMA TimeRows ==
  ASSUME OInv, Tick \/ RetentionPeriod
  PROVE  \A r \in Ids : RowStep(r)
<1>1. ASSUME NEW r \in Ids
      PROVE  /\ outbox'[r] = Aged(outbox[r]) \/ outbox'[r] = OldRow(outbox[r])
             /\ outbox[r] \in Row
  BY DEF Tick, RetentionPeriod, UpdateRows, OInv, IInv, TypeOK
<1>2. ASSUME NEW r \in Ids
      PROVE  /\ outbox'[r].status = outbox[r].status
             /\ outbox'[r].dest = outbox[r].dest
             /\ outbox'[r].token = outbox[r].token
             /\ outbox[r].status = "absent" => outbox'[r] = outbox[r]
  BY <1>1, OtherFields
<1>3. \A r \in Ids : outbox[r].status = "absent" => outbox[r] = NoRow
  BY DEF OInv, AbsentRows
<1> QED BY <1>2, <1>3 DEF RowStep, Stays, SettledStays, LeaseKept, Live

\* The rows an enqueue writes have ids nobody has had.
LEMMA FreshIds ==
  ASSUME OInv, NEW targets \in SUBSET Destinations,
         NEW b \in BatchIds \cup {0}, Insert(targets, b)
  PROVE  /\ lastId <= lastId'
         /\ \A r \in Ids : outbox'[r] # outbox[r] =>
              /\ lastId < r /\ r <= lastId'
              /\ outbox[r] = NoRow /\ outbox'[r].status = "pending"
<1>1. IsFiniteSet(targets) /\ lastId \in Nat
  <2>1. IsFiniteSet(targets)
    BY FS_Subset, OutboxAssumption
  <2> QED BY <2>1, OutboxAssumption DEF OInv, IInv, TypeOK
<1>2. ASSUME NEW d \in targets
      PROVE  /\ Cardinality({e \in targets : e <= d}) \in 1..Cardinality(targets)
  <2> DEFINE T == {e \in targets : e <= d}
  <2>1. /\ IsFiniteSet(T) /\ Cardinality(T) \in Nat /\ Cardinality(targets) \in Nat
        /\ Cardinality(T) <= Cardinality(targets)
    BY <1>1, FS_Subset, FS_CardinalityType
  <2>2. d \in T
    BY OutboxAssumption
  <2>3. Cardinality(T) # 0
    BY <2>1, <2>2, FS_EmptySet
  <2> HIDE DEF T
  <2> QED BY <2>1, <2>3 DEF T
<1> DEFINE at(d) == lastId + Cardinality({e \in targets : e <= d})
           new(r) == CHOOSE d \in targets : at(d) = r
           put(r) == IF \E d \in targets : at(d) = r
                     THEN NewRow(new(r), b) ELSE outbox[r]
<1>3. /\ outbox' = [r \in Ids |-> put(r)]
      /\ lastId' = lastId + Cardinality(targets)
  BY DEF Insert
<1>4. Cardinality(targets) \in Nat
  BY <1>1, FS_CardinalityType
<1>5. \A d \in targets : at(d) \in Nat /\ lastId < at(d) /\ at(d) <= lastId'
  <2> SUFFICES ASSUME NEW d \in targets
               PROVE  at(d) \in Nat /\ lastId < at(d) /\ at(d) <= lastId'
    OBVIOUS
  <2> DEFINE n == Cardinality({e \in targets : e <= d})
  <2>1. n \in 1..Cardinality(targets) /\ at(d) = lastId + n
    BY <1>2
  <2> HIDE DEF n, at
  <2> QED BY <2>1, <1>1, <1>3, <1>4
<1> HIDE DEF at
<1>6. ASSUME NEW r \in Ids, outbox'[r] # outbox[r]
      PROVE  \E d \in targets : at(d) = r /\ outbox'[r] = NewRow(d, b)
  <2>1. \E d \in targets : at(d) = r
    BY <1>3, <1>6
  <2>2. new(r) \in targets /\ at(new(r)) = r /\ put(r) = NewRow(new(r), b)
    BY <2>1
  <2> HIDE DEF new, put
  <2> QED BY <1>3, <2>2
<1>7. ASSUME NEW r \in Ids, outbox'[r] # outbox[r]
      PROVE  /\ lastId < r /\ r <= lastId'
             /\ outbox[r] = NoRow /\ outbox'[r].status = "pending"
  <2>1. PICK d \in targets : at(d) = r /\ outbox'[r] = NewRow(d, b)
    BY <1>6, <1>7
  <2>2. lastId < r /\ r <= lastId'
    BY <1>5, <2>1
  <2>3. outbox[r] = NoRow
    BY <1>1, <2>2 DEF OInv, AbsentRows
  <2>4. NewRow(d, b).status = "pending"
    BY DEF NewRow, NoRow
  <2> QED BY <2>1, <2>2, <2>3, <2>4
<1>8. lastId <= lastId'
  BY <1>1, <1>3, <1>4
<1> QED BY <1>7, <1>8

----------------------------------------------------------------------------
(* The invariant *)

\* A step that changes no claim and gives out no id keeps the invariant.
LEMMA TableStep ==
  ASSUME OInv, IInv', \A r \in Ids : RowStep(r),
         UNCHANGED <<lastId, claims, sent, failed, accepted>>,
         revived \subseteq revived'
  PROVE  OInv'
<1>1. AbsentRows'
  BY DEF OInv, AbsentRows, RowStep, Stays
<1>2. ClaimsNameRows'
  BY DEF OInv, ClaimsNameRows, RowStep, Stays, IInv, TypeOK, Claimed
<1>3. HeldApart' /\ HeadOutcome'
  BY DEF OInv, HeldApart, HeadOutcome, IsHead, Held
<1>4. OlderAreHeld'
  BY DEF OInv, OlderAreHeld, RowStep, Stays, Held, Live
<1>5. DeliveredWasAccepted'
  BY DEF OInv, DeliveredWasAccepted, RowStep, Stays
<1> QED BY <1>1, <1>2, <1>3, <1>4, <1>5 DEF OInv

\* An enqueue writes behind everything a worker holds.
LEMMA InsertOrder ==
  ASSUME OInv, IInv', NEW targets \in SUBSET Destinations,
         NEW b \in BatchIds \cup {0}, Insert(targets, b),
         UNCHANGED <<claims, sent, failed, accepted, revived>>
  PROVE  OInv'
<1>1. /\ lastId <= lastId' /\ lastId \in Nat /\ lastId' \in Nat
      /\ \A r \in Ids : outbox'[r] # outbox[r] =>
           /\ lastId < r /\ r <= lastId'
           /\ outbox[r] = NoRow /\ outbox'[r].status = "pending"
  BY FreshIds, OutboxAssumption DEF OInv, IInv, TypeOK
<1>2. AbsentRows'
  <2> SUFFICES ASSUME NEW r \in Ids
               PROVE  /\ outbox'[r].status = "absent" => outbox'[r] = NoRow
                      /\ r > lastId' => outbox'[r].status = "absent"
    BY DEF AbsentRows
  <2>1. /\ outbox[r].status = "absent" => outbox[r] = NoRow
        /\ r > lastId => outbox[r].status = "absent"
    BY DEF OInv, AbsentRows
  <2>2. r \in Nat
    BY IdsFinite
  <2>3. CASE outbox'[r] = outbox[r]
    BY <1>1, <2>1, <2>2, <2>3
  <2>4. CASE outbox'[r] # outbox[r]
    BY <1>1, <2>2, <2>4
  <2> QED BY <2>3, <2>4
<1>3. \A c \in claims : c.id \in Ids /\ c.id <= lastId
  BY DEF OInv, IInv, TypeOK, Claimed, ClaimsNameRows
<1>4. \A r \in Ids : r <= lastId => outbox'[r] = outbox[r]
  <2> SUFFICES ASSUME NEW r \in Ids, r <= lastId
               PROVE  outbox'[r] = outbox[r]
    OBVIOUS
  <2>1. r \in Nat /\ ~ (lastId < r)
    BY <1>1, IdsFinite
  <2> QED BY <2>1, <1>1
<1>5. ClaimsNameRows'
  <2> SUFFICES ASSUME NEW c \in claims
               PROVE  /\ c.id <= lastId'
                      /\ outbox'[c.id].status # "absent" => outbox'[c.id].dest = c.dest
    BY DEF ClaimsNameRows
  <2>1. c.id \in Nat /\ c.id <= lastId
    BY <1>3, IdsFinite
  <2>2. outbox'[c.id] = outbox[c.id]
    BY <1>3, <1>4
  <2> QED BY <2>1, <2>2, <1>1 DEF OInv, ClaimsNameRows
<1>6. HeldApart' /\ HeadOutcome'
  BY DEF OInv, HeldApart, HeadOutcome, IsHead, Held
<1>7. OlderAreHeld'
  <2> SUFFICES ASSUME NEW c \in claims,
                      NEW a \in Ids \ (accepted \cup revived \cup Damaged),
                      a < c.id, Live(outbox'[a]), outbox'[a].dest = c.dest
               PROVE  \/ \E e \in Held(c.worker) : e.id = a
                      \/ c.dest \in failed[c.worker]
    BY DEF OlderAreHeld, Held
  <2>1. c.id \in Nat /\ a \in Nat /\ c.id <= lastId
    BY <1>3, IdsFinite
  <2>2. outbox'[a] = outbox[a]
    BY <2>1, <1>1, <1>4
  <2> QED BY <2>2 DEF OInv, OlderAreHeld
<1>8. DeliveredWasAccepted'
  BY <1>1 DEF OInv, DeliveredWasAccepted
<1> QED BY <1>2, <1>5, <1>6, <1>7, <1>8 DEF OInv

\* Every older row of its destination that waits behind nothing is claimed
\* together with a row: it is due as well, and ranks before it.
LEMMA OlderIsSelected ==
  ASSUME OInv, NEW r \in Selected, NEW a \in Ids, a < r,
         Horizon[a].dest = Horizon[r].dest, Live(Horizon[a])
  PROVE  a \in Selected
<1>1. r \in Ids /\ Due(r)
  BY DEF Selected
<1>2. ~ Blocks(Horizon[a])
  BY <1>1 DEF Due
<1>3. Horizon[a].wait \in 0..MaxDelay
  BY HorizonFields DEF Row
<1>4. Horizon[a].status = "pending" /\ Horizon[a].wait = 0
  BY <1>2, <1>3, OutboxAssumption DEF Blocks, Live
<1>5. \A p \in Ids : p < a => p < r
  BY <1>1, IdsFinite
<1>6. Due(a)
  BY <1>1, <1>4, <1>5 DEF Due
<1> DEFINE A == {p \in Ids : Due(p) /\ p < a}
           R == {p \in Ids : Due(p) /\ p < r}
<1>7. A \subseteq R
  BY <1>5
<1>8. IsFiniteSet(R)
  BY IdsFinite, FS_Subset
<1>9. Cardinality(R) < ClaimLimit
  BY DEF Selected
<1> HIDE DEF A, R
<1>10. /\ Cardinality(A) \in Nat /\ Cardinality(R) \in Nat
       /\ Cardinality(A) <= Cardinality(R)
  BY <1>7, <1>8, FS_Subset, FS_CardinalityType
<1>11. Cardinality(A) < ClaimLimit
  BY <1>9, <1>10, OutboxAssumption
<1> QED BY <1>6, <1>11 DEF Selected, A

\* A claim takes the rows of a destination from the oldest on.
LEMMA ClaimOrder ==
  ASSUME OInv, IInv', NEW w \in Workers, ClaimDueOutbox(w)
  PROVE  OInv'
<1> DEFINE leased == {r \in Selected : Readable(r)}
           mine(token) == {[worker |-> w, id |-> r, dest |-> Horizon[r].dest,
                            token |-> token[r]] : r \in leased}
<1>1. PICK token \in [leased -> Tokens] : claims' = claims \cup mine(token)
  BY DEF ClaimDueOutbox
<1>2. /\ UNCHANGED <<lastId, sent, failed, accepted, revived>>
      /\ Held(w) = {}
  BY DEF ClaimDueOutbox
<1>3. \A r \in Ids : /\ RowStep(r)
                     /\ outbox'[r].dest = Horizon[r].dest
                     /\ Live(outbox'[r]) => Live(Horizon[r])
                     /\ r \in Selected /\ ~ Readable(r) => ~ Live(outbox'[r])
  BY ClaimRows
<1>4. leased \subseteq Ids /\ \A r \in leased : r \in Selected /\ Readable(r)
  BY DEF Selected
<1>5. \A c \in claims : c.worker # w
  BY <1>2 DEF Held
<1>6. \A c \in mine(token) : /\ c.worker = w /\ c.id \in leased
                             /\ c.dest = Horizon[c.id].dest
                             /\ c.token = token[c.id]
  OBVIOUS
<1>7. \A c, e \in mine(token) : c.id = e.id => c = e
  OBVIOUS
<1>8. ASSUME NEW r \in leased
      PROVE  \E e \in mine(token) : e.id = r
  <2> DEFINE e == [worker |-> w, id |-> r, dest |-> Horizon[r].dest,
                   token |-> token[r]]
  <2>1. e \in mine(token) /\ e.id = r
    OBVIOUS
  <2> QED BY <2>1
<1> HIDE DEF leased, mine
<1>9. AbsentRows'
  BY <1>2, <1>3 DEF OInv, AbsentRows, RowStep, Stays
<1>10. ClaimsNameRows'
  <2>1. ASSUME NEW c \in claims
        PROVE  /\ c.id <= lastId'
               /\ outbox'[c.id].status # "absent" => outbox'[c.id].dest = c.dest
    BY <1>2, <1>3 DEF OInv, ClaimsNameRows, RowStep, Stays, IInv, TypeOK, Claimed
  <2>2. ASSUME NEW c \in mine(token)
        PROVE  /\ c.id <= lastId'
               /\ outbox'[c.id].status # "absent" => outbox'[c.id].dest = c.dest
    <3>1. c.id \in Ids /\ c.id \in Selected
      BY <1>4, <1>6
    <3>2. outbox[c.id].status # "absent"
      <4>1. Live(Horizon[c.id])
        BY <3>1 DEF Selected, Due, Live
      <4> QED BY <3>1, <4>1, HorizonFields DEF Live
    <3>3. c.id <= lastId
      <4>1. c.id \in Nat /\ lastId \in Nat
        <5>1. lastId \in Nat
          BY OutboxAssumption DEF OInv, IInv, TypeOK
        <5> QED BY <5>1, <3>1, IdsFinite
      <4>2. ~ (c.id > lastId)
        BY <3>1, <3>2 DEF OInv, AbsentRows
      <4> QED BY <4>1, <4>2
    <3> QED BY <3>1, <3>3, <1>2, <1>3, <1>6
  <2> QED BY <2>1, <2>2, <1>1 DEF ClaimsNameRows
<1>11. HeldApart'
  BY <1>1, <1>5, <1>6, <1>7 DEF OInv, HeldApart
<1>12. \A v \in Workers \ {w} : Held(v)' = Held(v)
  BY <1>1, <1>6 DEF Held
<1>13. sent[w] = "none"
  BY <1>2 DEF OInv, HeadOutcome
<1>14. HeadOutcome'
  <2>1. ASSUME NEW v \in Workers, Held(v)' = {}
        PROVE  sent'[v] = "none"
    BY <2>1, <1>2, <1>12, <1>13 DEF OInv, HeadOutcome
  <2>2. ASSUME NEW c \in claims', IsHead(c)'
        PROVE  /\ sent'[c.worker] = "accepted" => c.id \in accepted'
               /\ sent'[c.worker] = "unprepared" => c.id \in Damaged
               /\ sent'[c.worker] # "none" => c.dest \notin failed'[c.worker]
    <3>1. CASE c.worker = w
      BY <3>1, <1>2, <1>13
    <3>2. CASE c.worker # w
      <4>1. c \in claims /\ c.worker \in Workers
        BY <3>2, <1>1, <1>6 DEF OInv, IInv, TypeOK, Claimed
      <4>2. IsHead(c)
        BY <4>1, <3>2, <2>2, <1>12 DEF IsHead
      <4> QED BY <4>1, <4>2, <1>2 DEF OInv, HeadOutcome
    <3> QED BY <3>1, <3>2
  <2> QED BY <2>1, <2>2 DEF HeadOutcome
<1>15. OlderAreHeld'
  <2> SUFFICES ASSUME NEW c \in claims',
                      NEW a \in Ids \ (accepted \cup revived \cup Damaged),
                      a < c.id, Live(outbox'[a]), outbox'[a].dest = c.dest
               PROVE  \/ \E e \in Held(c.worker)' : e.id = a
                      \/ c.dest \in failed[c.worker]
    BY <1>2 DEF OlderAreHeld
  <2>1. CASE c \in claims
    <3>1. c.worker \in Workers \ {w}
      BY <2>1, <1>5 DEF OInv, IInv, TypeOK, Claimed
    <3>2. Live(outbox[a]) /\ outbox[a].dest = c.dest
      BY <1>2, <1>3 DEF RowStep, Stays, Live
    <3> QED BY <2>1, <3>1, <3>2, <1>12 DEF OInv, OlderAreHeld
  <2>2. CASE c \in mine(token)
    <3>1. /\ c.id \in Selected /\ Readable(c.id) /\ c.worker = w
          /\ Horizon[a].dest = Horizon[c.id].dest /\ Live(Horizon[a])
      BY <2>2, <1>3, <1>4, <1>6
    <3>2. a \in Selected
      BY <3>1, OlderIsSelected
    <3>3. Readable(a)
      BY <3>1 DEF Readable
    <3>4. \E e \in mine(token) : e.id = a
      BY <3>2, <3>3, <1>8 DEF leased
    <3>5. \E e \in Held(w)' : e.id = a
      BY <3>4, <1>1, <1>6 DEF Held
    <3> QED BY <3>1, <3>5
  <2> QED BY <2>1, <2>2, <1>1
<1>16. DeliveredWasAccepted'
  BY <1>2, <1>3 DEF OInv, DeliveredWasAccepted, RowStep, Stays
<1> QED BY <1>9, <1>10, <1>11, <1>14, <1>15, <1>16 DEF OInv

\* The oldest item a worker holds waits for no older row of its destination.
LEMMA HeadIsOldest ==
  ASSUME OInv, NEW c \in claims, IsHead(c), c.dest \notin failed[c.worker],
         NEW a \in Ids \ (accepted \cup revived \cup Damaged),
         a < c.id, outbox[a].dest = c.dest
  PROVE  ~ Live(outbox[a])
<1>1. c.id \in Nat /\ a \in Nat
  BY IdsFinite DEF OInv, IInv, TypeOK, Claimed
<1>2. \A e \in Held(c.worker) : e.id # a
  BY <1>1 DEF IsHead
<1> QED BY <1>2 DEF OInv, OlderAreHeld

\* Beginning and ending a send touch no row.
LEMMA SendOrder ==
  ASSUME OInv, IInv', NEW c \in claims, BeginSend(c) \/ EndSend(c)
  PROVE  OInv'
<1>1. /\ UNCHANGED <<outbox, lastId, claims, failed, revived>>
      /\ accepted \subseteq accepted'
      /\ c.dest \notin failed[c.worker] \/ sent[c.worker] = "sending"
      /\ IsHead(c) /\ c.worker \in Workers
  BY DEF BeginSend, EndSend, OInv, IInv, TypeOK, Claimed
<1>2. c.dest \notin failed[c.worker]
  BY <1>1 DEF OInv, HeadOutcome
<1>3. /\ \A w \in Workers \ {c.worker} : sent'[w] = sent[w]
      /\ sent'[c.worker] = "accepted" => c.id \in accepted'
      /\ sent'[c.worker] = "unprepared" => c.id \in Damaged
  BY <1>1 DEF BeginSend, EndSend, OInv, IInv, TypeOK
<1>4. AbsentRows' /\ ClaimsNameRows' /\ HeldApart'
  BY <1>1 DEF OInv, AbsentRows, ClaimsNameRows, HeldApart
<1>5. \A w \in Workers : Held(w)' = Held(w)
  BY <1>1 DEF Held
<1>6. HeadOutcome'
  <2>1. ASSUME NEW w \in Workers, Held(w)' = {}
        PROVE  sent'[w] = "none"
    <3>1. w # c.worker
      BY <2>1, <1>5 DEF Held
    <3> QED BY <2>1, <3>1, <1>3, <1>5 DEF OInv, HeadOutcome
  <2>2. ASSUME NEW e \in claims', IsHead(e)'
        PROVE  /\ sent'[e.worker] = "accepted" => e.id \in accepted'
               /\ sent'[e.worker] = "unprepared" => e.id \in Damaged
               /\ sent'[e.worker] # "none" => e.dest \notin failed'[e.worker]
    <3>1. e \in claims /\ IsHead(e) /\ e.worker \in Workers
      BY <2>2, <1>1, <1>5 DEF IsHead, OInv, IInv, TypeOK, Claimed
    <3>2. CASE e.worker = c.worker
      <4>1. c.id <= e.id /\ e.id <= c.id /\ c.id \in Nat /\ e.id \in Nat
        BY <3>1, <3>2, <1>1, IdsFinite DEF IsHead, Held, OInv, IInv, TypeOK, Claimed
      <4>2. e = c
        BY <3>1, <3>2, <4>1 DEF OInv, HeldApart
      <4> QED BY <4>2, <1>1, <1>2, <1>3
    <3>3. CASE e.worker # c.worker
      <4>1. sent'[e.worker] = sent[e.worker]
        BY <3>1, <3>3, <1>3
      <4> QED BY <3>1, <4>1, <1>1 DEF OInv, HeadOutcome
    <3> QED BY <3>2, <3>3
  <2> QED BY <2>1, <2>2 DEF HeadOutcome
<1>7. OlderAreHeld'
  BY <1>1 DEF OInv, OlderAreHeld, Held
<1>8. DeliveredWasAccepted'
  BY <1>1 DEF OInv, DeliveredWasAccepted
<1> QED BY <1>4, <1>6, <1>7, <1>8 DEF OInv

\* An item leaves the worker's memory with the row settled, released or still
\* leased.  Nothing younger of its destination may be sent in its place: the
\* provider has it, it never can have it, or the destination has failed.
LEMMA DropOrder ==
  ASSUME OInv, IInv', NEW c \in claims, NEW f \in SUBSET Destinations, Drop(c, f),
         \A r \in Ids : RowStep(r), UNCHANGED <<lastId, accepted, revived>>,
         failed[c.worker] \subseteq f,
         c.id \in accepted \cup Damaged \/ c.dest \in f
  PROVE  OInv'
<1>1. /\ claims' = claims \ {c}
      /\ failed' = [failed EXCEPT ![c.worker] =
                      IF Held(c.worker) = {c} THEN {} ELSE f]
      /\ sent' = [sent EXCEPT ![c.worker] = "none"]
  BY DEF Drop
<1>2. /\ c \in Claimed /\ claims \subseteq Claimed
      /\ failed \in [Workers -> SUBSET Destinations]
      /\ sent \in [Workers -> Outcomes \cup {"none", "sending"}]
  BY DEF OInv, IInv, TypeOK
<1>3. \A e \in claims : e.worker \in Workers /\ e.id \in Ids
  BY <1>2 DEF Claimed
<1>4. /\ sent'[c.worker] = "none"
      /\ \A w \in Workers \ {c.worker} : sent'[w] = sent[w] /\ failed'[w] = failed[w]
  BY <1>1, <1>2, <1>3
<1>5. AbsentRows'
  BY DEF OInv, AbsentRows, RowStep, Stays
<1>6. ClaimsNameRows'
  BY <1>1, <1>3 DEF OInv, ClaimsNameRows, RowStep, Stays
<1>7. HeldApart'
  BY <1>1 DEF OInv, HeldApart
<1>8. \A w \in Workers \ {c.worker} : Held(w)' = Held(w)
  BY <1>1 DEF Held
<1>9. HeadOutcome'
  <2>1. ASSUME NEW w \in Workers, Held(w)' = {}
        PROVE  sent'[w] = "none"
    BY <2>1, <1>4, <1>8 DEF OInv, HeadOutcome
  <2>2. ASSUME NEW e \in claims', IsHead(e)'
        PROVE  /\ sent'[e.worker] = "accepted" => e.id \in accepted'
               /\ sent'[e.worker] = "unprepared" => e.id \in Damaged
               /\ sent'[e.worker] # "none" => e.dest \notin failed'[e.worker]
    <3>1. CASE e.worker = c.worker
      BY <3>1, <1>4
    <3>2. CASE e.worker # c.worker
      <4>1. e \in claims /\ e.worker \in Workers \ {c.worker}
        BY <3>2, <1>1, <1>3
      <4>2. IsHead(e)
        BY <4>1, <2>2, <1>8 DEF IsHead
      <4> QED BY <4>1, <4>2, <1>4 DEF OInv, HeadOutcome
    <3> QED BY <3>1, <3>2
  <2> QED BY <2>1, <2>2 DEF HeadOutcome
<1>10. OlderAreHeld'
  <2> SUFFICES ASSUME NEW e \in claims',
                      NEW a \in Ids \ (accepted \cup revived \cup Damaged),
                      a < e.id, Live(outbox'[a]), outbox'[a].dest = e.dest
               PROVE  \/ \E h \in Held(e.worker)' : h.id = a
                      \/ e.dest \in failed'[e.worker]
    BY DEF OlderAreHeld
  <2>1. e \in claims /\ e # c /\ e.worker \in Workers
    BY <1>1, <1>3
  <2>2. Live(outbox[a]) /\ outbox[a].dest = e.dest
    BY DEF RowStep, Stays, Live
  <2>3. \/ \E h \in Held(e.worker) : h.id = a
        \/ e.dest \in failed[e.worker]
    BY <2>1, <2>2 DEF OInv, OlderAreHeld
  <2>4. CASE e.worker # c.worker
    BY <2>1, <2>3, <2>4, <1>4, <1>8
  <2>5. CASE e.worker = c.worker
    <3>1. failed'[c.worker] = f
      BY <2>1, <2>5, <1>1, <1>2, <1>3 DEF Held
    <3>2. CASE e.dest \in failed[e.worker]
      BY <3>1, <3>2, <2>5
    <3>3. ASSUME NEW h \in Held(e.worker), h.id = a
          PROVE  \/ \E i \in Held(e.worker)' : i.id = a
                 \/ e.dest \in failed'[e.worker]
      <4>1. CASE h = c
        <5>1. e.dest = c.dest
          BY <3>3, <4>1, <2>2 DEF OInv, ClaimsNameRows, Live
        <5> QED BY <3>1, <3>3, <4>1, <5>1, <2>5
      <4>2. CASE h # c
        BY <3>3, <4>2, <1>1 DEF Held
      <4> QED BY <4>1, <4>2
    <3> QED BY <3>2, <3>3, <2>3
  <2> QED BY <2>4, <2>5
<1>11. DeliveredWasAccepted'
  BY DEF OInv, DeliveredWasAccepted, RowStep, Stays
<1> QED BY <1>5, <1>6, <1>7, <1>9, <1>10, <1>11 DEF OInv

\* The delivery loop keeps the invariant, whatever it records and whether or
\* not the record succeeds.
LEMMA WorkerOrder ==
  ASSUME OInv, IInv', NEW c \in claims, RenewClaimed(c) \/ Deliver(c)
  PROVE  OInv'
<1>1. \A r \in Ids : RowStep(r)
  BY WorkerRows
<1>2. c.dest \in Destinations /\ failed[c.worker] \in SUBSET Destinations
  BY DEF OInv, IInv, TypeOK, Claimed
<1>3. CASE RenewClaimed(c)
  BY <1>1, <1>3, TableStep DEF RenewClaimed
<1>4. CASE BeginSend(c) \/ EndSend(c)
  BY <1>4, SendOrder
<1>5. CASE Settle(c)
  <2> DEFINE f == IF sent[c.worker] \in {"failed", "permanent"}
                  THEN failed[c.worker] \cup {c.dest} ELSE failed[c.worker]
  <2>1. Drop(c, f) /\ UNCHANGED <<lastId, accepted, revived>>
    BY <1>5 DEF Settle
  <2>2. f \in SUBSET Destinations /\ failed[c.worker] \subseteq f
    BY <1>2
  <2>3. sent[c.worker] \in Outcomes /\ IsHead(c)
    BY <1>5 DEF Settle
  <2>4. c.id \in accepted \cup Damaged \/ c.dest \in f
    BY <2>3 DEF Outcomes, OInv, HeadOutcome
  <2> HIDE DEF f
  <2> QED BY <2>1, <2>2, <2>4, <1>1, DropOrder
<1>6. CASE ReleaseItem(c)
  BY <1>1, <1>2, <1>6, DropOrder DEF ReleaseItem
<1> QED BY <1>3, <1>4, <1>5, <1>6 DEF Deliver

\* A crash forgets a worker's claims altogether.
LEMMA CrashOrder ==
  ASSUME OInv, IInv', NEW w \in Workers, Crash(w)
  PROVE  OInv'
<1>1. /\ UNCHANGED <<outbox, lastId, accepted, revived>>
      /\ claims' = claims \ Held(w)
      /\ sent' = [sent EXCEPT ![w] = "none"]
      /\ failed' = [failed EXCEPT ![w] = {}]
  BY DEF Crash
<1>2. \A c \in claims' : c \in claims /\ c.worker \in Workers \ {w}
  BY <1>1 DEF Held, OInv, IInv, TypeOK, Claimed
<1>3. \A v \in Workers \ {w} : Held(v)' = Held(v)
  BY <1>1 DEF Held
<1>4. /\ sent'[w] = "none"
      /\ \A v \in Workers \ {w} : sent'[v] = sent[v] /\ failed'[v] = failed[v]
  BY <1>1 DEF OInv, IInv, TypeOK
<1>5. AbsentRows' /\ ClaimsNameRows' /\ HeldApart' /\ DeliveredWasAccepted'
  BY <1>1, <1>2 DEF OInv, AbsentRows, ClaimsNameRows, HeldApart, DeliveredWasAccepted
<1>6. HeadOutcome'
  BY <1>1, <1>2, <1>3, <1>4 DEF OInv, HeadOutcome, IsHead
<1>7. OlderAreHeld'
  BY <1>1, <1>2, <1>3, <1>4 DEF OInv, OlderAreHeld
<1> QED BY <1>5, <1>6, <1>7 DEF OInv

\* Enqueueing keeps the invariant and touches nothing that was in the table.
LEMMA ProducerOrder ==
  ASSUME OInv, IInv', Producer
  PROVE  OInv' /\ \A r \in Ids : SettledStays(r) /\ LeaseKept(r)
<1> DEFINE Same == UNCHANGED <<claims, sent, failed, accepted, revived>>
<1>1. PICK targets \in SUBSET Destinations, b \in BatchIds \cup {0} :
        Insert(targets, b) /\ Same
  <2>1. CASE EnqueueSystem
    <3> DEFINE T == {d \in Destinations : Enabled(d)}
    <3>1. T \in SUBSET Destinations /\ 0 \in BatchIds \cup {0} /\ Insert(T, 0) /\ Same
      BY <2>1 DEF EnqueueSystem
    <3> HIDE DEF T
    <3> QED BY <3>1
  <2>2. ASSUME NEW T \in SUBSET Destinations, EnqueueDigest(T)
        PROVE  \E b \in BatchIds : Insert(T, b) /\ Same
    BY <2>2 DEF EnqueueDigest
  <2> QED BY <2>1, <2>2 DEF Producer
<1>2. OInv'
  BY <1>1, InsertOrder
<1>3. ASSUME NEW r \in Ids
      PROVE  SettledStays(r) /\ LeaseKept(r)
  <2>1. CASE outbox'[r] = outbox[r]
    BY <2>1, SameRow DEF RowStep
  <2>2. CASE outbox'[r] # outbox[r]
    <3>1. outbox[r] = NoRow
      BY <2>2, <1>1, FreshIds
    <3>2. NoRow.status = "absent" /\ NoRow.lease = 0
      BY DEF NoRow
    <3> QED BY <3>1, <3>2 DEF SettledStays, LeaseKept
  <2> QED BY <2>1, <2>2
<1> QED BY <1>2, <1>3

\* An empty queue satisfies the invariant.
LEMMA InitOrder ==
  ASSUME Init
  PROVE  OInv
<1>1. IInv
  BY InitInv
<1>2. \A r \in Ids : outbox[r] = NoRow
  BY DEF Init
<1>3. NoRow.status = "absent"
  BY DEF NoRow
<1>4. AbsentRows /\ DeliveredWasAccepted
  BY <1>2, <1>3 DEF AbsentRows, DeliveredWasAccepted
<1>5. ClaimsNameRows /\ HeldApart /\ HeadOutcome /\ OlderAreHeld
  BY DEF Init, ClaimsNameRows, HeldApart, HeadOutcome, OlderAreHeld
<1> QED BY <1>1, <1>4, <1>5 DEF OInv

\* One case per actor: the invariant is inductive, and no row is settled or
\* taken from its worker against the two rules.
LEMMA NextOrder ==
  ASSUME OInv, [Next]_vars
  PROVE  OInv' /\ \A r \in Ids : SettledStays(r) /\ LeaseKept(r)
<1>1. IInv'
  BY NextInv DEF OInv
<1>2. (\A r \in Ids : RowStep(r)) => \A r \in Ids : SettledStays(r) /\ LeaseKept(r)
  BY DEF RowStep
<1>3. CASE UNCHANGED vars
  <2>1. \A r \in Ids : RowStep(r)
    BY <1>3, SameRow DEF vars
  <2> QED BY <2>1, <1>1, <1>2, <1>3, TableStep DEF vars
<1>4. CASE Producer
  BY <1>1, <1>4, ProducerOrder
<1>5. CASE Worker
  <2>1. \A r \in Ids : RowStep(r)
    BY <1>5, ClaimRows, WorkerRows DEF Worker
  <2>2. OInv'
    BY <1>1, <1>5, ClaimOrder, CrashOrder, WorkerOrder DEF Worker
  <2> QED BY <2>1, <2>2, <1>2
<1>6. CASE Operator
  <2>1. \A r \in Ids : RowStep(r)
    BY <1>6, OperatorRows
  <2>2. /\ UNCHANGED <<lastId, claims, sent, failed, accepted>>
        /\ revived \subseteq revived'
    BY <1>6 DEF Operator, SaveDestination, SetDestinationEnabled, InsertDestination,
                DeleteDestination, LoseKey, RetryDeadOutbox, ChangeIdentity
  <2> QED BY <2>1, <2>2, <1>1, <1>2, TableStep
<1>7. CASE Retention
  <2>1. \A r \in Ids : RowStep(r)
    BY <1>7, RetentionRows
  <2>2. UNCHANGED <<lastId, claims, sent, failed, accepted, revived>>
    BY <1>7 DEF Retention, CleanupDeadLetter, CleanupSettled, CleanupBatch
  <2> QED BY <2>1, <2>2, <1>1, <1>2, TableStep
<1>8. CASE Tick \/ RetentionPeriod
  <2>1. \A r \in Ids : RowStep(r)
    BY <1>8, TimeRows
  <2>2. UNCHANGED <<lastId, claims, sent, failed, accepted, revived>>
    BY <1>8 DEF Tick, RetentionPeriod
  <2> QED BY <2>1, <2>2, <1>1, <1>2, TableStep
<1> QED BY <1>3, <1>4, <1>5, <1>6, <1>7, <1>8 DEF Next

\* A provider takes a row for the first time only as the head item of the
\* worker that sends it.
LEMMA AcceptedInOrder ==
  ASSUME OInv, [Next]_vars,
         NEW b \in accepted' \ accepted,
         NEW a \in Ids \ (accepted \cup revived \cup Damaged),
         a < b, outbox[a].dest = outbox[b].dest
  PROVE  ~ Live(outbox[a])
<1>1. PICK c \in claims : EndSend(c)
  <2>1. accepted' # accepted
    OBVIOUS
  <2>2. Worker
    BY <2>1 DEF Next, vars, Producer, EnqueueSystem, EnqueueDigest, Operator,
                SaveDestination, SetDestinationEnabled, InsertDestination,
                DeleteDestination, LoseKey, RetryDeadOutbox, ChangeIdentity,
                Retention, CleanupDeadLetter, CleanupSettled, CleanupBatch,
                Tick, RetentionPeriod
  <2> QED BY <2>1, <2>2 DEF Worker, ClaimDueOutbox, Crash, RenewClaimed, Deliver,
                            BeginSend, Settle, ReleaseItem
<1>2. b = c.id /\ IsHead(c) /\ c.dest \notin failed[c.worker]
  BY <1>1 DEF EndSend, OInv, HeadOutcome
<1>3. c.id \in Ids /\ outbox[a] \in Row
  BY DEF OInv, IInv, TypeOK, Claimed
<1>4. CASE outbox[b].status # "absent"
  <2>1. outbox[a].dest = c.dest
    BY <1>2, <1>4 DEF OInv, ClaimsNameRows
  <2> QED BY <2>1, <1>2, HeadIsOldest
<1>5. CASE outbox[b].status = "absent"
  <2>1. outbox[b].dest = 0
    <3>1. outbox[b] = NoRow
      BY <1>2, <1>3, <1>5 DEF OInv, AbsentRows
    <3>2. NoRow.dest = 0
      BY DEF NoRow
    <3> QED BY <3>1, <3>2
  <2>2. outbox[a].dest \notin Destinations
    BY <2>1, OutboxAssumption
  <2> QED BY <2>2 DEF OInv, IInv, RowsNameDestinations, Live
<1> QED BY <1>4, <1>5

----------------------------------------------------------------------------
(* The theorems *)

\* MarkDelivered never runs for a notification no provider has taken: neither
\* a crash between the send and the record, nor a lost lease, nor a payload
\* the build cannot decode turns into a silent success.
THEOREM DeliveredMeansAccepted == Spec => []DeliveredWasAccepted
<1>1. Init => OInv
  BY InitOrder
<1>2. OInv /\ [Next]_vars => OInv'
  BY NextOrder
<1>3. OInv => DeliveredWasAccepted
  BY DEF OInv
<1> QED BY <1>1, <1>2, <1>3, PTL DEF Spec

\* A delivered row is never sent again, and a dead letter returns only by
\* RetryDeadOutbox, with a fresh retry window: not when a change of identity
\* is its recorded reason, and not while its batch is on record under another
\* identity.  Of a batch that retention has deleted it says nothing.
THEOREM SettledRowsStay == Spec => SettledIsFinal
<1>1. Init => OInv
  BY InitOrder
<1>2. OInv /\ [Next]_vars => OInv'
  BY NextOrder
<1>3. OInv /\ [Next]_vars =>
        [\A r \in Ids :
           /\ outbox[r].status = "delivered" =>
                outbox'[r].status \in {"delivered", "absent"}
           /\ outbox[r].status = "dead" /\ Live(outbox'[r]) =>
                /\ outbox[r].reason # "identity"
                /\ ~ OtherIdentity(outbox[r], generation)
                /\ r \in revived' /\ outbox'[r].age = 0]_vars
  BY NextOrder DEF SettledStays
<1> QED BY <1>1, <1>2, <1>3, PTL DEF Spec, SettledIsFinal

\* While a lease runs, only its own worker, an operator closing the
\* destination or a switch of identity ends it: no claim, no retention pass
\* and no other worker's late statement.
THEOREM RunningLeasesHold == Spec => LeaseRespected
<1>1. Init => OInv
  BY InitOrder
<1>2. OInv /\ [Next]_vars => OInv'
  BY NextOrder
<1>3. OInv /\ [Next]_vars =>
        [\A r \in Ids :
           outbox[r].lease > 0 /\ outbox'[r].token # outbox[r].token =>
             \/ \E c \in claims \ claims' : c.id = r /\ c.token = outbox[r].token
             \/ dests'[outbox[r].dest].state # "enabled"
             \/ generation' # generation]_vars
  BY NextOrder DEF LeaseKept
<1> QED BY <1>1, <1>2, <1>3, PTL DEF Spec, LeaseRespected

\* Each destination is served oldest first, for any number of workers, rows
\* and destinations and any claim limit, through failures, expired leases,
\* crashes and changes of the destinations.
THEOREM ServedOldestFirst == Spec => OldestFirst
<1>1. Init => OInv
  BY InitOrder
<1>2. OInv /\ [Next]_vars => OInv'
  BY NextOrder
<1>3. OInv /\ [Next]_vars =>
        [\A b \in accepted' \ accepted :
           \A a \in Ids \ (accepted \cup revived \cup Damaged) :
             a < b /\ outbox[a].dest = outbox[b].dest => ~ Live(outbox[a])]_vars
  BY AcceptedInOrder
<1> QED BY <1>1, <1>2, <1>3, PTL DEF Spec, OldestFirst
=============================================================================
