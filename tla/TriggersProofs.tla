--------------------------- MODULE TriggersProofs ---------------------------
(***************************************************************************)
(* Proofs about Triggers for every set of processes, collectors and tokens *)
(* and every capacity, window and claim limit: the types of the queue, its *)
(* fast path and the schedulers, and that a trigger marked processed was   *)
(* reconciled.                                                             *)
(*                                                                         *)
(* The second needs Backed: whatever a poll calls usable was collected     *)
(* after the receipt of every claim it serves, and is covered once the     *)
(* batch is stored.  It survives retention removing the row of a claim     *)
(* because the delivery that would reuse the id finds the claim in memory. *)
(***************************************************************************)
EXTENDS Triggers, FiniteSetTheorems, TLAPS

\* What the usable answers of a poll say of the claims it serves.
Backed(p) ==
  \A c \in proc[p].claims :
    \/ rows[c.id].status = "none"
    \/ /\ proc[p].at = "poll" => \A k \in proc[p].usable : c.id \in proc[p].seen[k]
       /\ proc[p].at = "finish" => proc[p].usable \subseteq covered[c.id]

TInv ==
  /\ TypeOK
  /\ ProcessedWasReconciled
  /\ \A p \in Processes : Backed(p)

\* A step of the table that accepts no delivery: what is gone stays gone, and
\* what is newly processed is covered.
RowsMove ==
  \A t \in Triggers :
    /\ rows[t].status = "none" => rows'[t].status = "none"
    /\ rows'[t].status = "processed" =>
         rows[t].status = "processed" \/ Needs(t) \subseteq covered[t]

----------------------------------------------------------------------------
(* Rows *)

\* The values the statements write lie within the bounds of a row's counters.
LEMMA Zeros ==
  /\ 0 \in 0..Lease /\ 0 \in 0..MaxDelay /\ 0 \in 0..Retention
  /\ Lease \in 0..Lease
  BY TriggersAssumption

\* The empty row and a row just recorded are rows.
LEMMA NoRowOK ==
  /\ NoRow \in Row /\ NoRow.status = "none"
  /\ [NoRow EXCEPT !.status = "pending"] \in Row
  /\ [NoRow EXCEPT !.status = "pending"].status = "pending"
  BY Zeros DEF NoRow, Row

\* Ending a lease changes the status, the lease and the token, no other column.
LEMMA UnleasedFields ==
  ASSUME NEW row \in Row, NEW st \in {"pending", "processed", "dead"}
  PROVE  /\ Unleased(row, st) \in Row /\ Unleased(row, st).status = st
         /\ \A delay \in 0..MaxDelay :
              /\ [Unleased(row, st) EXCEPT !.wait = delay] \in Row
              /\ [Unleased(row, st) EXCEPT !.wait = delay].status = st
<1>1. Unleased(row, st) \in Row /\ Unleased(row, st).status = st
  BY Zeros DEF Unleased, Row
<1> DEFINE u == Unleased(row, st)
<1> HIDE DEF u
<1>2. ASSUME NEW delay \in 0..MaxDelay
      PROVE  /\ [u EXCEPT !.wait = delay] \in Row
             /\ [u EXCEPT !.wait = delay].status = st
  BY <1>1 DEF Row, u
<1> QED BY <1>1, <1>2 DEF u

\* Taking back an expired lease and closing the retry window: neither makes a
\* row of none, nor a processed one.
LEMMA HorizonFields ==
  ASSUME NEW row \in Row
  PROVE  /\ Horizon(row) \in Row
         /\ row.status = "none" => Horizon(row).status = "none"
         /\ Horizon(row).status = "processed" => row.status = "processed"
<1>1. /\ Reclaimed(row) \in Row
      /\ \/ Reclaimed(row) = row
         \/ row.status = "processing" /\ Reclaimed(row).status = "pending"
  BY UnleasedFields DEF Reclaimed
<1>2. CASE Reclaimed(row).status = "pending" /\ row.age >= RetryWindow
  <2>1. Horizon(row) \in Row /\ Horizon(row).status = "dead"
    BY <1>2, UnleasedFields DEF Horizon
  <2> QED BY <2>1, <1>1, <1>2
<1>3. CASE ~ (Reclaimed(row).status = "pending" /\ row.age >= RetryWindow)
  <2>1. Horizon(row) = Reclaimed(row)
    BY <1>3 DEF Horizon
  <2> QED BY <2>1, <1>1
<1> QED BY <1>2, <1>3

\* A claim leases a row that is due.
LEMMA LeasedFields ==
  ASSUME NEW row \in Row, NEW k \in Tokens
  PROVE  /\ Leased(row, k) \in Row /\ Leased(row, k).status = "processing"
         /\ Due(row) => row.status # "none"
<1> DEFINE h == Horizon(row)
<1>1. h \in Row /\ (row.status = "none" => h.status = "none")
  BY HorizonFields
<1>2. Due(row) => row.status # "none"
  BY <1>1 DEF Due
<1> HIDE DEF h
<1>3. LET v == [h EXCEPT !.status = "processing", !.lease = Lease, !.token = k]
      IN  v \in Row /\ v.status = "processing"
  BY <1>1, Zeros DEF Row
<1> QED BY <1>2, <1>3 DEF Leased, h

\* A retried trigger is pending again or dead.
LEMMA RetriedFields ==
  ASSUME NEW row \in Row, NEW delay \in 1..MaxDelay
  PROVE  /\ Retried(row, delay) \in Row
         /\ Retried(row, delay).status \in {"pending", "dead"}
<1>1. delay \in 0..MaxDelay
  BY TriggersAssumption
<1> QED BY <1>1, UnleasedFields, Zeros DEF Retried

\* Time changes no status.
LEMMA AgedFields ==
  ASSUME NEW row \in Row
  PROVE  Aged(row) \in Row /\ Aged(row).status = row.status
<1>1. CASE row.status = "none"
  BY <1>1 DEF Aged
<1>2. CASE row.status # "none"
  <2> DEFINE age == IF row.age < Retention THEN row.age + 1 ELSE row.age
  <2>1. Down(row.wait) \in 0..MaxDelay /\ Down(row.lease) \in 0..Lease
    BY TriggersAssumption DEF Down, Row
  <2>2. age \in 0..Retention
    BY TriggersAssumption DEF Row
  <2>3. Aged(row) = [row EXCEPT !.wait = Down(row.wait), !.lease = Down(row.lease),
                                !.age = age]
    BY <1>2 DEF Aged
  <2> HIDE DEF age
  <2> QED BY <2>1, <2>2, <2>3 DEF Row
<1> QED BY <1>1, <1>2

----------------------------------------------------------------------------
(* Fast path and scheduler *)

\* A set of triggers is finite, and one more makes it one larger at most.
LEMMA OneMore ==
  ASSUME NEW S \in SUBSET Triggers, NEW t \in Triggers, NEW n \in Nat,
         Cardinality(S) < n
  PROVE  Cardinality(S \cup {t}) <= n
<1>1. IsFiniteSet(Triggers)
  <2>1. MaxTrigger \in Int /\ 1 \in Int
    BY TriggersAssumption
  <2> QED BY <2>1, FS_Interval DEF Triggers
<1>2. IsFiniteSet(S)
  BY <1>1, FS_Subset
<1>3. Cardinality(S) \in Nat
  BY <1>2, FS_CardinalityType
<1>4. Cardinality(S \cup {t}) = Cardinality(S) \/ Cardinality(S \cup {t}) = Cardinality(S) + 1
  BY <1>2, FS_AddElement
<1> QED BY <1>3, <1>4

\* A trigger needs known collectors only.
LEMMA NeedsCollectors ==
  \A t \in Triggers : Needs(t) \subseteq Collectors
  BY TriggersAssumption DEF Needs

\* A process that boots has a scheduler at the top of its loop.
LEMMA BootOK ==
  Boot \in Scheduler /\ Boot.claims = {} /\ Boot.at = "top"
  BY TriggersAssumption DEF Boot, Scheduler, Places

\* Going on after a claim: to the poll with nothing usable yet, or elsewhere
\* with no claim.
LEMMA ContinueFields ==
  ASSUME TypeOK, NEW p \in Processes, NEW new \in SUBSET Claim,
         NEW otherwise \in Places, Continue(p, new, otherwise)
  PROVE  /\ proc' \in [Processes -> Scheduler]
         /\ proc'[p].claims = new /\ proc'[p].usable = {}
         /\ \A q \in Processes \ {p} : proc'[q] = proc[q]
<1> DEFINE todo == UNION {Needs(c.id) : c \in new}
           at == IF new = {} THEN otherwise ELSE "poll"
           seen == [c \in Collectors |-> {}]
           s == [proc[p] EXCEPT !.at = at, !.asked = {}, !.claims = new,
                                !.todo = todo, !.usable = {}, !.seen = seen]
<1>1. proc' = [proc EXCEPT ![p] = s]
  BY DEF Continue
<1>2. todo \in SUBSET Collectors
  BY NeedsCollectors DEF Claim
<1>3. at \in Places /\ seen \in [Collectors -> SUBSET Triggers]
  BY DEF Places
<1>4. proc[p] \in Scheduler /\ proc \in [Processes -> Scheduler]
  BY DEF TypeOK
<1> HIDE DEF todo, at, seen
<1>5. s \in Scheduler /\ s.claims = new /\ s.usable = {}
  BY <1>2, <1>3, <1>4 DEF Scheduler
<1> HIDE DEF s
<1> QED BY <1>1, <1>4, <1>5

----------------------------------------------------------------------------
(* Steps *)

\* What a scheduler that collects and applies nothing may change: it drops
\* claims, leaves the poll, or starts one with nothing usable.
Idle(p) ==
  \/ /\ proc'[p].claims \subseteq proc[p].claims
     /\ proc'[p].at = proc[p].at
     /\ proc'[p].usable = proc[p].usable /\ proc'[p].seen = proc[p].seen
  \/ proc'[p].at \notin {"poll", "finish"}
  \/ proc'[p].usable = {}

\* Such a step keeps the invariant if it accepts no delivery.
LEMMA IdleStep ==
  ASSUME TInv, TypeOK', RowsMove,
         \A t \in Triggers : covered[t] \subseteq covered'[t],
         \A p \in Processes : Idle(p)
  PROVE  TInv'
<1>1. ProcessedWasReconciled'
  BY DEF TInv, ProcessedWasReconciled, RowsMove
<1>2. ASSUME NEW p \in Processes
      PROVE  Backed(p)'
  <2> SUFFICES ASSUME NEW c \in proc'[p].claims, rows'[c.id].status # "none"
               PROVE  /\ proc'[p].at = "poll" =>
                           \A k \in proc'[p].usable : c.id \in proc'[p].seen[k]
                      /\ proc'[p].at = "finish" => proc'[p].usable \subseteq covered'[c.id]
    BY DEF Backed
  <2>1. c.id \in Triggers
    BY DEF TypeOK, Scheduler, Claim
  <2>2. rows[c.id].status # "none" /\ covered[c.id] \subseteq covered'[c.id]
    BY <2>1 DEF RowsMove
  <2>3. CASE /\ proc'[p].claims \subseteq proc[p].claims
             /\ proc'[p].at = proc[p].at
             /\ proc'[p].usable = proc[p].usable /\ proc'[p].seen = proc[p].seen
    BY <2>2, <2>3 DEF TInv, Backed
  <2>4. CASE proc'[p].at \notin {"poll", "finish"}
    BY <2>4
  <2>5. CASE proc'[p].usable = {}
    BY <2>5
  <2> QED BY <2>3, <2>4, <2>5 DEF Idle
<1> QED BY <1>1, <1>2 DEF TInv

\* Nothing in the table changes.
LEMMA SameRows ==
  ASSUME rows' = rows
  PROVE  RowsMove
  BY DEF RowsMove

\* A delivery is recorded under an id no process holds anything of.
LEMMA RecordStep ==
  ASSUME TInv, NEW p \in Processes, NEW t \in Triggers, Record(p, t)
  PROVE  TInv'
<1> DEFINE row == [NoRow EXCEPT !.status = "pending"]
<1>1. /\ rows[t].status = "none" /\ ~ InMemory(t)
      /\ rows' = [rows EXCEPT ![t] = row]
      /\ handlers' = [handlers EXCEPT ![p] = @ \cup {t}]
      /\ covered' = [covered EXCEPT ![t] = {}]
      /\ UNCHANGED <<generation, channel, overflow, proc, elapsed>>
  BY DEF Record
<1>2. row \in Row /\ row.status = "pending"
  BY NoRowOK
<1> HIDE DEF row
<1>3. TypeOK'
  BY <1>1, <1>2 DEF TInv, TypeOK
<1>4. ProcessedWasReconciled'
  BY <1>1, <1>2 DEF TInv, TypeOK, ProcessedWasReconciled
<1>5. ASSUME NEW q \in Processes, NEW c \in proc[q].claims
      PROVE  c.id \in Triggers \ {t}
  BY <1>1 DEF InMemory, TInv, TypeOK, Scheduler, Claim
<1>6. \A q \in Processes : Backed(q)'
  <2> SUFFICES ASSUME NEW q \in Processes, NEW c \in proc[q].claims,
                      rows[c.id].status # "none"
               PROVE  /\ proc[q].at = "poll" =>
                           \A k \in proc[q].usable : c.id \in proc[q].seen[k]
                      /\ proc[q].at = "finish" => proc[q].usable \subseteq covered'[c.id]
    BY <1>1, <1>2, <1>5 DEF Backed, TInv, TypeOK
  <2>1. covered'[c.id] = covered[c.id]
    BY <1>1, <1>5 DEF TInv, TypeOK
  <2> QED BY <2>1 DEF TInv, Backed
<1> QED BY <1>3, <1>4, <1>6 DEF TInv

\* Engine.Trigger keeps the channel and the overflow queue in their bounds.
LEMMA AnnounceStep ==
  ASSUME TInv, NEW p \in Processes, NEW t \in Triggers, Announce(p, t)
  PROVE  TInv'
<1>1. /\ handlers' = [handlers EXCEPT ![p] = @ \ {t}]
      /\ UNCHANGED <<rows, generation, proc, elapsed, covered>>
  BY DEF Announce
<1>2. /\ channel[p] \in SUBSET Triggers /\ overflow[p] \in SUBSET Triggers
      /\ ChannelCap \in Nat /\ OverflowCap \in Nat
  BY TriggersAssumption DEF TInv, TypeOK
<1>3. /\ channel' \in [Processes -> SUBSET Triggers]
      /\ \A q \in Processes : Cardinality(channel'[q]) <= ChannelCap
  <2>1. CASE channel' = channel
    BY <2>1 DEF TInv, TypeOK
  <2>2. CASE /\ Cardinality(channel[p]) < ChannelCap
             /\ channel' = [channel EXCEPT ![p] = @ \cup {t}]
    <3>1. Cardinality(channel[p] \cup {t}) <= ChannelCap
      BY <1>2, <2>2, OneMore
    <3> QED BY <2>2, <3>1 DEF TInv, TypeOK
  <2> QED BY <2>1, <2>2 DEF Announce
<1>4. /\ overflow' \in [Processes -> SUBSET Triggers]
      /\ \A q \in Processes : Cardinality(overflow'[q]) <= OverflowCap
  <2>1. CASE overflow' = overflow
    BY <2>1 DEF TInv, TypeOK
  <2>2. CASE /\ Cardinality(overflow[p]) < OverflowCap
             /\ overflow' = [overflow EXCEPT ![p] = @ \cup {t}]
    <3>1. Cardinality(overflow[p] \cup {t}) <= OverflowCap
      BY <1>2, <2>2, OneMore
    <3> QED BY <2>2, <3>1 DEF TInv, TypeOK
  <2> QED BY <2>1, <2>2 DEF Announce
<1>5. TypeOK'
  BY <1>1, <1>3, <1>4 DEF TInv, TypeOK
<1> QED BY <1>1, <1>5, SameRows, IdleStep DEF Idle

\* The fast path claims one of the rows it was asked for, or leaves it alone.
LEMMA ClaimFastStep ==
  ASSUME TInv, NEW p \in Processes, NEW t \in proc[p].asked, ClaimFast(p, t)
  PROVE  TInv'
<1>1. /\ proc[p].at = "claim"
      /\ UNCHANGED <<generation, handlers, channel, overflow, elapsed, covered>>
      /\ proc[p] \in Scheduler /\ t \in Triggers /\ rows[t] \in Row
  BY DEF ClaimFast, TInv, TypeOK, Scheduler
<1>2. CASE /\ proc' = [proc EXCEPT ![p].asked = @ \ {t}]
           /\ rows' = rows \/ rows' = [rows EXCEPT ![t] = Horizon(@)]
  <2>1. Horizon(rows[t]) \in Row
    BY <1>1, HorizonFields
  <2>2. TypeOK'
    <3>1. rows' \in [Triggers -> Row]
      BY <1>2, <2>1 DEF TInv, TypeOK
    <3>2. proc' \in [Processes -> Scheduler]
      BY <1>1, <1>2 DEF TInv, TypeOK, Scheduler
    <3> QED BY <3>1, <3>2, <1>1 DEF TInv, TypeOK
  <2>3. RowsMove
    BY <1>1, <1>2, HorizonFields DEF RowsMove, TInv, TypeOK
  <2>4. \A q \in Processes : Idle(q)
    BY <1>1, <1>2 DEF Idle, TInv, TypeOK, Scheduler
  <2> QED BY <1>1, <2>2, <2>3, <2>4, IdleStep
<1>3. ASSUME NEW k \in Tokens, Due(rows[t]),
             rows' = [rows EXCEPT ![t] = Leased(@, k)],
             proc' = [proc EXCEPT ![p].asked = @ \ {t},
                                  ![p].claims = @ \cup {[id |-> t, token |-> k]}]
      PROVE  TInv'
  <2>1. /\ Leased(rows[t], k) \in Row /\ Leased(rows[t], k).status = "processing"
        /\ rows[t].status # "none"
    BY <1>1, <1>3, LeasedFields
  <2>2. [id |-> t, token |-> k] \in Claim
    BY <1>1 DEF Claim
  <2> DEFINE s == [proc[p] EXCEPT !.asked = @ \ {t},
                                  !.claims = @ \cup {[id |-> t, token |-> k]}]
  <2>3. TypeOK'
    <3>1. s \in Scheduler
      BY <1>1, <2>2 DEF Scheduler
    <3>2. proc' = [proc EXCEPT ![p] = s]
      BY <1>3 DEF TInv, TypeOK
    <3> HIDE DEF s
    <3>3. proc' \in [Processes -> Scheduler]
      BY <3>1, <3>2 DEF TInv, TypeOK
    <3>4. rows' \in [Triggers -> Row]
      BY <1>3, <2>1 DEF TInv, TypeOK
    <3> QED BY <3>3, <3>4, <1>1 DEF TInv, TypeOK
  <2> HIDE DEF s
  <2>4. RowsMove
    BY <1>1, <1>3, <2>1 DEF RowsMove, TInv, TypeOK
  <2>5. \A q \in Processes : Idle(q)
    BY <1>1, <1>3 DEF Idle, TInv, TypeOK, Scheduler
  <2> QED BY <1>1, <2>3, <2>4, <2>5, IdleStep
<1> QED BY <1>2, <1>3 DEF ClaimFast, FreshTokens

\* The claims go to the poll, or the loop goes on.
LEMMA EndClaimsStep ==
  ASSUME TInv, NEW p \in Processes, EndClaims(p)
  PROVE  TInv'
<1> DEFINE otherwise == IF proc[p].selected THEN "top" ELSE "durable"
<1>1. /\ Continue(p, proc[p].claims, otherwise)
      /\ UNCHANGED <<rows, generation, handlers, channel, overflow, elapsed, covered>>
  BY DEF EndClaims
<1>2. proc[p].claims \in SUBSET Claim /\ otherwise \in Places
  BY DEF TInv, TypeOK, Scheduler, Places
<1> HIDE DEF otherwise
<1>3. /\ proc' \in [Processes -> Scheduler] /\ proc'[p].usable = {}
      /\ \A q \in Processes \ {p} : proc'[q] = proc[q]
  BY <1>1, <1>2, ContinueFields DEF TInv
<1>4. TypeOK'
  BY <1>1, <1>3 DEF TInv, TypeOK
<1>5. \A q \in Processes : Idle(q)
  BY <1>3 DEF Idle
<1> QED BY <1>1, <1>4, <1>5, SameRows, IdleStep

\* The durable claim leases every due row up to the limit and goes to the
\* poll with them.
LEMMA ClaimDurableStep ==
  ASSUME TInv, NEW p \in Processes, ClaimDurable(p)
  PROVE  TInv'
<1>1. /\ UNCHANGED <<generation, handlers, channel, overflow, elapsed, covered>>
      /\ proc[p] \in Scheduler /\ "select" \in Places
  BY DEF ClaimDurable, TInv, TypeOK, Places
<1>2. CASE rows' = rows /\ proc' = [proc EXCEPT ![p].at = "select"]
  <2>1. TypeOK'
    BY <1>1, <1>2 DEF TInv, TypeOK, Scheduler
  <2>2. \A q \in Processes : Idle(q)
    BY <1>1, <1>2 DEF Idle, TInv, TypeOK, Scheduler
  <2> QED BY <1>1, <1>2, <2>1, <2>2, SameRows, IdleStep
<1>3. ASSUME NEW token \in [Selected -> Tokens],
             rows' = [t \in Triggers |-> IF t \in Selected
                                         THEN Leased(rows[t], token[t])
                                         ELSE Horizon(rows[t])],
             Continue(p, {[id |-> t, token |-> token[t]] : t \in Selected}, "select")
      PROVE  TInv'
  <2> DEFINE new == {[id |-> t, token |-> token[t]] : t \in Selected}
  <2>1. \A t \in Selected : t \in Triggers /\ Due(rows[t])
    BY DEF Selected
  <2>2. new \in SUBSET Claim
    BY <2>1 DEF Claim
  <2> HIDE DEF new
  <2>3. /\ proc' \in [Processes -> Scheduler] /\ proc'[p].usable = {}
        /\ \A q \in Processes \ {p} : proc'[q] = proc[q]
    BY <1>1, <1>3, <2>2, ContinueFields DEF TInv, new
  <2>4. ASSUME NEW t \in Triggers
        PROVE  /\ rows'[t] \in Row
               /\ rows[t].status = "none" => rows'[t].status = "none"
               /\ rows'[t].status = "processed" => rows[t].status = "processed"
    <3>1. rows[t] \in Row
      BY DEF TInv, TypeOK
    <3>2. CASE t \in Selected
      <4>1. rows'[t] = Leased(rows[t], token[t]) /\ token[t] \in Tokens
        BY <1>3, <3>2
      <4> QED BY <4>1, <3>1, <3>2, <2>1, LeasedFields
    <3>3. CASE t \notin Selected
      BY <1>3, <3>1, <3>3, HorizonFields
    <3> QED BY <3>2, <3>3
  <2>5. TypeOK'
    <3>1. rows' \in [Triggers -> Row]
      BY <1>3, <2>4
    <3> QED BY <3>1, <2>3, <1>1 DEF TInv, TypeOK
  <2>6. RowsMove
    BY <2>4 DEF RowsMove
  <2>7. \A q \in Processes : Idle(q)
    BY <2>3 DEF Idle
  <2> QED BY <1>1, <2>5, <2>6, <2>7, IdleStep
<1> QED BY <1>2, <1>3 DEF ClaimDurable

\* The other branches of the loop claim nothing.
LEMMA BranchStep ==
  ASSUME TInv, NEW p \in Processes,
         \/ Reload(p) \/ Fast(p) \/ SkipDurable(p) \/ SelectRequest(p) \/ SelectWake(p)
         \/ \E k \in Timers : SelectTimer(p, k)
         \/ ServeElapsed(p) \/ EndPoll(p)
  PROVE  TInv'
<1>1. rows' = rows /\ UNCHANGED <<generation, handlers, covered>>
  BY DEF Reload, Fast, Take, SkipDurable, SelectRequest, SelectWake, SelectTimer,
         ServeElapsed, EndPoll
<1>2. proc[p] \in Scheduler /\ proc \in [Processes -> Scheduler]
  BY DEF TInv, TypeOK
<1>3. /\ elapsed' \in [Processes -> SUBSET Timers]
      /\ channel' = channel \/ channel' = [channel EXCEPT ![p] = {}]
      /\ overflow' = overflow \/ overflow' = [overflow EXCEPT ![p] = {}]
  BY DEF Reload, Fast, Take, SkipDurable, SelectRequest, SelectWake, SelectTimer,
         ServeElapsed, EndPoll, TInv, TypeOK
<1>4. Cardinality({}) = 0 /\ ChannelCap \in Nat /\ OverflowCap \in Nat
  BY FS_EmptySet, TriggersAssumption
<1>5. /\ channel' \in [Processes -> SUBSET Triggers]
      /\ \A q \in Processes : Cardinality(channel'[q]) <= ChannelCap
  <2>1. /\ channel \in [Processes -> SUBSET Triggers]
        /\ \A q \in Processes : Cardinality(channel[q]) <= ChannelCap
    BY DEF TInv, TypeOK
  <2>2. CASE channel' = [channel EXCEPT ![p] = {}]
    BY <1>4, <2>1, <2>2
  <2> QED BY <1>3, <2>1, <2>2
<1>6. /\ overflow' \in [Processes -> SUBSET Triggers]
      /\ \A q \in Processes : Cardinality(overflow'[q]) <= OverflowCap
  <2>1. /\ overflow \in [Processes -> SUBSET Triggers]
        /\ \A q \in Processes : Cardinality(overflow[q]) <= OverflowCap
    BY DEF TInv, TypeOK
  <2>2. CASE overflow' = [overflow EXCEPT ![p] = {}]
    BY <1>4, <2>1, <2>2
  <2> QED BY <1>3, <2>1, <2>2
<1>7. /\ proc' \in [Processes -> Scheduler]
      /\ proc'[p].at \notin {"poll", "finish"}
      /\ \A q \in Processes \ {p} : proc'[q] = proc[q]
  <2>1. CASE Reload(p)
    <3>1. generation \in 0..MaxGeneration
      BY TriggersAssumption DEF TInv, TypeOK
    <3> QED BY <1>2, <2>1, <3>1 DEF Reload, Scheduler, Places
  <2>2. ASSUME NEW selected \in BOOLEAN, Take(p, selected)
        PROVE  <1>7!:
    <3>1. channel[p] \cup overflow[p] \in SUBSET Triggers
      BY DEF TInv, TypeOK
    <3> QED BY <1>2, <2>2, <3>1 DEF Take, Scheduler, Places
  <2>3. ASSUME NEW at \in {"select", "top", "elapsed"},
               proc' = [proc EXCEPT ![p].at = at]
        PROVE  <1>7!:
    BY <1>2, <2>3 DEF Scheduler, Places
  <2>4. CASE SkipDurable(p) \/ SelectWake(p) \/ ServeElapsed(p) \/ EndPoll(p)
             \/ \E k \in Timers : SelectTimer(p, k)
    BY <2>3, <2>4 DEF SkipDurable, SelectWake, ServeElapsed, EndPoll, SelectTimer
  <2> QED BY <2>1, <2>2, <2>4 DEF Fast, SelectRequest
<1>8. TypeOK'
  BY <1>1, <1>3, <1>5, <1>6, <1>7 DEF TInv, TypeOK
<1>9. \A q \in Processes : Idle(q)
  BY <1>7 DEF Idle
<1> QED BY <1>1, <1>8, <1>9, SameRows, IdleStep

\* A usable answer was collected after the receipt of every row there is.
LEMMA CollectStep ==
  ASSUME TInv, NEW p \in Processes, NEW c \in Collectors, Collect(p, c)
  PROVE  TInv'
<1> DEFINE now == {t \in Triggers : rows[t].status # "none"}
<1>1. /\ proc[p].at = "poll" /\ c \in proc[p].todo
      /\ UNCHANGED <<rows, generation, handlers, channel, overflow, elapsed, covered>>
      /\ proc[p] \in Scheduler /\ proc \in [Processes -> Scheduler]
      /\ now \in SUBSET Triggers
  BY DEF Collect, TInv, TypeOK
<1>2. PICK good \in BOOLEAN :
        proc' = [proc EXCEPT
          ![p].todo = @ \ {c},
          ![p].usable = IF good THEN @ \cup {c} ELSE @,
          ![p].seen = IF good THEN [@ EXCEPT ![c] = now] ELSE @]
  BY DEF Collect
<1> DEFINE usable == IF good THEN proc[p].usable \cup {c} ELSE proc[p].usable
           seen == IF good THEN [proc[p].seen EXCEPT ![c] = now] ELSE proc[p].seen
           s == [proc[p] EXCEPT !.todo = @ \ {c}, !.usable = usable, !.seen = seen]
<1>3. /\ usable \in SUBSET Collectors /\ seen \in [Collectors -> SUBSET Triggers]
      /\ \A k \in usable : seen[k] = now \/ (k \in proc[p].usable /\ seen[k] = proc[p].seen[k])
  BY <1>1 DEF Scheduler
<1>4. proc' = [proc EXCEPT ![p] = s]
  BY <1>1, <1>2
<1> HIDE DEF usable, seen
<1>5. /\ s \in Scheduler /\ s.claims = proc[p].claims /\ s.at = "poll"
      /\ s.usable = usable /\ s.seen = seen
  BY <1>1, <1>3 DEF Scheduler
<1> HIDE DEF s
<1>6. TypeOK'
  BY <1>1, <1>4, <1>5 DEF TInv, TypeOK
<1>7. ProcessedWasReconciled'
  BY <1>1 DEF TInv, ProcessedWasReconciled
<1>8. Backed(p)'
  <2> SUFFICES ASSUME NEW cl \in proc[p].claims, rows[cl.id].status # "none",
                      NEW k \in usable
               PROVE  cl.id \in seen[k]
    BY <1>1, <1>4, <1>5 DEF Backed
  <2>1. cl.id \in now
    BY <1>1 DEF Scheduler, Claim
  <2>2. CASE k \in proc[p].usable /\ seen[k] = proc[p].seen[k]
    BY <2>2, <1>1 DEF TInv, Backed
  <2> HIDE DEF now
  <2> QED BY <2>1, <2>2, <1>3
<1>9. ASSUME NEW q \in Processes \ {p}
      PROVE  Backed(q)'
  <2>1. proc'[q] = proc[q]
    BY <1>1, <1>4
  <2> QED BY <2>1, <1>1 DEF TInv, Backed
<1> QED BY <1>6, <1>7, <1>8, <1>9 DEF TInv

\* A batch that is stored covers the triggers its answers saw; one that is
\* refused or fails leaves nothing usable.
LEMMA ApplyStep ==
  ASSUME TInv, NEW p \in Processes, Apply(p)
  PROVE  TInv'
<1>1. /\ proc[p].at = "poll"
      /\ UNCHANGED <<rows, generation, handlers, channel, overflow, elapsed>>
      /\ proc[p] \in Scheduler /\ proc \in [Processes -> Scheduler]
  BY DEF Apply, TInv, TypeOK
<1>2. PICK stored \in BOOLEAN :
        /\ proc' = [proc EXCEPT ![p].at = "finish", ![p].usable = Outcome(p, stored)]
        /\ covered' = IF stored
                      THEN [t \in Triggers |->
                              covered[t] \cup {c \in Collectors : t \in proc[p].seen[c]}]
                      ELSE covered
  BY DEF Apply
<1>3. Outcome(p, stored) \in SUBSET Collectors
  BY <1>1 DEF Outcome, Scheduler
<1>4. /\ proc' \in [Processes -> Scheduler]
      /\ proc'[p].claims = proc[p].claims /\ proc'[p].at = "finish"
      /\ proc'[p].usable = Outcome(p, stored)
      /\ \A q \in Processes \ {p} : proc'[q] = proc[q]
  BY <1>1, <1>2, <1>3 DEF Scheduler, Places
<1>5. /\ covered' \in [Triggers -> SUBSET Collectors]
      /\ \A t \in Triggers : covered[t] \subseteq covered'[t]
  BY <1>2 DEF TInv, TypeOK
<1>6. TypeOK'
  BY <1>1, <1>4, <1>5 DEF TInv, TypeOK
<1>7. ProcessedWasReconciled'
  BY <1>1, <1>5 DEF TInv, ProcessedWasReconciled
<1>8. Backed(p)'
  <2> SUFFICES ASSUME NEW cl \in proc[p].claims, rows[cl.id].status # "none",
                      NEW k \in Outcome(p, stored)
               PROVE  k \in covered'[cl.id]
    BY <1>1, <1>4 DEF Backed
  <2>1. stored /\ k \in proc[p].usable
    BY DEF Outcome
  <2>2. cl.id \in Triggers /\ k \in Collectors
    BY <2>1, <1>1 DEF Scheduler, Claim
  <2>3. cl.id \in proc[p].seen[k]
    BY <2>1, <1>1 DEF TInv, Backed
  <2> QED BY <2>1, <2>2, <2>3, <1>2
<1>9. ASSUME NEW q \in Processes \ {p}
      PROVE  Backed(q)'
  <2>1. proc'[q] = proc[q] /\ \A c \in proc[q].claims : c.id \in Triggers
    BY <1>4 DEF TInv, TypeOK, Scheduler, Claim
  <2> QED BY <2>1, <1>1, <1>5 DEF TInv, Backed
<1> QED BY <1>6, <1>7, <1>8, <1>9 DEF TInv

\* A trigger is completed only by the process that still owns its row, and
\* only if the poll that served it succeeded for all it needs.
LEMMA FinishStep ==
  ASSUME TInv, NEW p \in Processes, NEW c \in proc[p].claims, Finish(p, c)
  PROVE  TInv'
<1>1. /\ proc[p].at = "finish"
      /\ proc' = [proc EXCEPT ![p].claims = @ \ {c}]
      /\ UNCHANGED <<generation, handlers, channel, overflow, elapsed, covered>>
      /\ proc[p] \in Scheduler /\ proc \in [Processes -> Scheduler]
  BY DEF Finish, TInv, TypeOK
<1>2. /\ c.id \in Triggers /\ rows[c.id] \in Row /\ rows \in [Triggers -> Row]
  BY <1>1 DEF TInv, TypeOK, Scheduler, Claim
<1>3. /\ proc' \in [Processes -> Scheduler]
      /\ \A q \in Processes : Idle(q)
  BY <1>1 DEF Idle, Scheduler
<1>4. ASSUME rows' \in [Triggers -> Row], RowsMove
      PROVE  TInv'
  <2>1. TypeOK'
    BY <1>1, <1>3, <1>4 DEF TInv, TypeOK
  <2> QED BY <1>1, <1>3, <1>4, <2>1, IdleStep
<1>5. CASE rows' = rows
  BY <1>2, <1>4, <1>5, SameRows
<1>6. ASSUME NEW row \in Row, Owns(c), rows' = [rows EXCEPT ![c.id] = row],
             row.status = "processed" => Needs(c.id) \subseteq covered[c.id]
      PROVE  TInv'
  <2>1. rows[c.id].status # "none"
    BY <1>6 DEF Owns
  <2>2. RowsMove
    BY <1>2, <1>6, <2>1 DEF RowsMove
  <2> QED BY <1>2, <1>4, <1>6, <2>2
<1>7. CASE /\ Owns(c) /\ Succeeds(p, c.id)
           /\ rows' = [rows EXCEPT ![c.id] = Unleased(@, "processed")]
  <2>1. Needs(c.id) \subseteq proc[p].usable
    BY <1>7 DEF Succeeds
  <2>2. proc[p].usable \subseteq covered[c.id]
    BY <1>1, <1>7 DEF TInv, Backed, Owns
  <2>3. Unleased(rows[c.id], "processed") \in Row
    BY <1>2, UnleasedFields
  <2> QED BY <1>2, <1>6, <1>7, <2>1, <2>2, <2>3
<1>8. ASSUME NEW delay \in 1..MaxDelay, Owns(c),
             rows' = [rows EXCEPT ![c.id] = Retried(@, delay)]
      PROVE  TInv'
  <2>1. /\ Retried(rows[c.id], delay) \in Row
        /\ Retried(rows[c.id], delay).status # "processed"
    BY <1>2, RetriedFields
  <2>2. rows' = [rows EXCEPT ![c.id] = Retried(rows[c.id], delay)]
    BY <1>8
  <2> QED BY <1>6, <1>8, <2>1, <2>2
<1> QED BY <1>5, <1>7, <1>8 DEF Finish

\* A crash loses everything a process had in memory.
LEMMA CrashStep ==
  ASSUME TInv, NEW p \in Processes, Crash(p)
  PROVE  TInv'
<1>1. /\ proc' = [proc EXCEPT ![p] = Boot]
      /\ handlers' = [handlers EXCEPT ![p] = {}]
      /\ channel' = [channel EXCEPT ![p] = {}]
      /\ overflow' = [overflow EXCEPT ![p] = {}]
      /\ elapsed' = [elapsed EXCEPT ![p] = {}]
      /\ UNCHANGED <<rows, generation, covered>>
  BY DEF Crash
<1>2. Cardinality({}) = 0 /\ ChannelCap \in Nat /\ OverflowCap \in Nat
  BY FS_EmptySet, TriggersAssumption
<1>3. \A q \in Processes : /\ Cardinality(channel'[q]) <= ChannelCap
                           /\ Cardinality(overflow'[q]) <= OverflowCap
  <2>1. /\ channel \in [Processes -> SUBSET Triggers]
        /\ overflow \in [Processes -> SUBSET Triggers]
        /\ \A q \in Processes : /\ Cardinality(channel[q]) <= ChannelCap
                                /\ Cardinality(overflow[q]) <= OverflowCap
    BY DEF TInv, TypeOK
  <2> QED BY <1>1, <1>2, <2>1
<1>4. TypeOK'
  BY <1>1, <1>3, BootOK DEF TInv, TypeOK
<1>5. \A q \in Processes : Idle(q)
  BY <1>1, BootOK DEF Idle, TInv, TypeOK
<1> QED BY <1>1, <1>4, <1>5, SameRows, IdleStep

\* Retention, time, the operator and the timers complete nothing.
LEMMA EnvironmentStep ==
  ASSUME TInv,
         \/ ChangeIdentity \/ Retain \/ Tick
         \/ \E p \in Processes, k \in Timers : TimerFires(p, k)
  PROVE  TInv'
<1>1. /\ UNCHANGED <<handlers, channel, overflow, proc, covered>>
      /\ generation' \in 1..MaxGeneration
      /\ elapsed' \in [Processes -> SUBSET Timers]
  BY TriggersAssumption DEF ChangeIdentity, Retain, CleanupDeadLetter, CleanupSettled,
     Tick, TimerFires, TInv, TypeOK
<1>2. ASSUME NEW t \in Triggers, rows' \in [Triggers -> Row],
             \A u \in Triggers \ {t} : rows'[u] = rows[u],
             rows[t].status = "none" => rows'[t].status = "none",
             rows'[t].status # "processed"
      PROVE  rows' \in [Triggers -> Row] /\ RowsMove
  BY <1>2 DEF RowsMove
<1>3. rows' \in [Triggers -> Row] /\ RowsMove
  <2>1. CASE ChangeIdentity \/ \E p \in Processes, k \in Timers : TimerFires(p, k)
    BY <2>1, SameRows DEF ChangeIdentity, TimerFires, TInv, TypeOK
  <2>2. ASSUME NEW t \in Triggers, CleanupDeadLetter(t)
        PROVE  <1>3!:
    <3> DEFINE row == [Unleased(rows[t], "dead") EXCEPT !.wait = 0]
    <3>1. rows' = [rows EXCEPT ![t] = row] /\ Live(rows[t])
      BY <2>2 DEF CleanupDeadLetter
    <3>2. row \in Row /\ row.status = "dead"
      BY UnleasedFields, Zeros DEF TInv, TypeOK
    <3> HIDE DEF row
    <3> QED BY <1>2, <3>1, <3>2 DEF TInv, TypeOK, Live
  <2>3. ASSUME NEW t \in Triggers, CleanupSettled(t)
        PROVE  <1>3!:
    BY <1>2, <2>3, NoRowOK DEF CleanupSettled, TInv, TypeOK
  <2>4. CASE Tick
    <3>1. \A t \in Triggers : /\ rows'[t] \in Row /\ rows'[t].status = rows[t].status
      BY <2>4, AgedFields DEF Tick, TInv, TypeOK
    <3> QED BY <2>4, <3>1 DEF Tick, RowsMove
  <2> QED BY <2>1, <2>2, <2>3, <2>4 DEF Retain
<1>4. TypeOK'
  BY <1>1, <1>3 DEF TInv, TypeOK
<1> QED BY <1>1, <1>3, <1>4, IdleStep DEF Idle

----------------------------------------------------------------------------
(* The theorems *)

\* An empty queue and booting processes satisfy the invariant.
LEMMA InitInv ==
  ASSUME Init
  PROVE  TInv
<1>1. Cardinality({}) = 0 /\ 1 \in 1..MaxGeneration /\ ChannelCap \in Nat
      /\ OverflowCap \in Nat
  BY FS_EmptySet, TriggersAssumption
<1>2. TypeOK
  BY <1>1, NoRowOK, BootOK DEF Init, TypeOK
<1>3. ProcessedWasReconciled
  BY NoRowOK DEF Init, ProcessedWasReconciled
<1>4. \A p \in Processes : Backed(p)
  BY BootOK DEF Init, Backed
<1> QED BY <1>2, <1>3, <1>4 DEF TInv

\* The invariant is inductive.
LEMMA NextInv ==
  ASSUME TInv, [Next]_vars
  PROVE  TInv'
<1>1. CASE UNCHANGED vars
  BY <1>1 DEF vars, TInv, TypeOK, ProcessedWasReconciled, Backed
<1>2. ASSUME NEW p \in Processes, Loop(p)
      PROVE  TInv'
  BY <1>2, BranchStep, EndClaimsStep, ClaimDurableStep, ClaimFastStep, CollectStep,
     ApplyStep, FinishStep DEF Loop, Poll
<1>3. ASSUME NEW p \in Processes, Web(p)
      PROVE  TInv'
  BY <1>3, RecordStep, AnnounceStep DEF Web
<1> QED BY <1>1, <1>2, <1>3, CrashStep, EnvironmentStep DEF Next

\* The queue, the fast path and the schedulers keep their types, and the
\* channel and Engine.triggerOverflow never exceed their capacities.
THEOREM TypeCorrect == Spec => []TypeOK
<1>1. TInv => TypeOK
  BY DEF TInv
<1> QED BY <1>1, InitInv, NextInv, PTL DEF Spec

\* CompleteClaimedWebhookTrigger never completes a trigger before every
\* collector in its scope was collected after the delivery arrived and stored,
\* whichever of the fast path, the durable queue or a second process served
\* it, and whatever retention, crashes and new identities did meanwhile.
THEOREM ProcessedMeansReconciled == Spec => []ProcessedWasReconciled
<1>1. TInv => ProcessedWasReconciled
  BY DEF TInv
<1> QED BY <1>1, InitInv, NextInv, PTL DEF Spec
=============================================================================
