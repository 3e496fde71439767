------------------------------ MODULE Triggers ------------------------------
(***************************************************************************)
(* Webhook triggers: the durable webhook_triggers queue, the in-memory     *)
(* fast path beside it, and the scheduler goroutine that serves both with  *)
(* forced polls between its own scheduled ones.  Sources:                  *)
(* internal/store/webhooks.go, internal/monitor/triggers.go, scheduler.go, *)
(* engine.go (Trigger) and the outcome logic of poll.go.                   *)
(*                                                                         *)
(* A trigger is an id of the table, and stands for a body hash with its    *)
(* normalised scope.  An id may be used again after retention removed the  *)
(* row, so that deliveries can arrive for ever.  Time is counted down as   *)
(* in Outbox; age = RetryWindow is the 24-hour horizon, age = Retention    *)
(* the 30-day cutoff.  What a poll stores is ApplyBatch's business: here a *)
(* collector's answer is usable or not, and the batch is stored, stale or  *)
(* failed.  Scheduled polls hold no triggers and are one step.             *)
(***************************************************************************)
EXTENDS Integers, FiniteSets

CONSTANTS
  MaxTrigger,      \* bound: trigger ids are 1..MaxTrigger
  Collectors,      \* CoreCollectors and InventoryCollectors
  Scope,           \* collectors a trigger asks for; none means every one
  Processes,       \* processes on the database (one in production)
  Timers,          \* the device and the inventory timer
  Tokens,          \* lease tokens
  Lease,           \* ticks of a lease (webhookTriggerLease)
  RetryWindow,     \* ticks of the retry window (webhookTriggerRetryWindow)
  Retention,       \* ticks after which a settled row is removed
  MaxDelay,        \* longest backoff
  ClaimLimit,      \* rows of one durable claim (webhookTriggerBatchSize)
  ChannelCap,      \* capacity of the fast-path channel
  OverflowCap,     \* maxTriggerOverflow
  Damaged,         \* ids whose stored metadata cannot be decoded
  MaxGeneration    \* bound: settings generations

Triggers == 1..MaxTrigger
NoToken == 0

ASSUME TriggersAssumption ==
  /\ MaxTrigger \in Nat
  /\ Scope \in [Triggers -> SUBSET Collectors]
  /\ NoToken \notin Tokens
  /\ Lease \in Nat \ {0} /\ MaxDelay \in Nat \ {0}
  /\ RetryWindow \in Nat \ {0} /\ Retention \in Nat /\ Retention > RetryWindow
  /\ ClaimLimit \in Nat \ {0} /\ ChannelCap \in Nat /\ OverflowCap \in Nat
  /\ MaxGeneration \in Nat \ {0}

VARIABLES
  rows,        \* the webhook_triggers table
  generation,  \* settings.generation
  handlers,    \* requests recorded but not yet handed to the engine
  channel,     \* Engine.trigger
  overflow,    \* Engine.triggerOverflow
  proc,        \* the scheduler goroutine of each process
  elapsed,     \* timers that have fired and wait to be served
  covered      \* history: what was collected and stored since the receipt

vars == <<rows, generation, handlers, channel, overflow, proc, elapsed, covered>>

Row == [status: {"none", "pending", "processing", "processed", "dead"},
        wait: 0..MaxDelay, age: 0..Retention, lease: 0..Lease,
        token: Tokens \cup {NoToken}]
Claim == [id: Triggers, token: Tokens]
Places == {"top", "serve", "claim", "durable", "select", "poll", "finish",
           "elapsed"}
Scheduler == [at: Places, gen: 0..MaxGeneration, selected: BOOLEAN,
              asked: SUBSET Triggers, claims: SUBSET Claim,
              todo: SUBSET Collectors, usable: SUBSET Collectors,
              seen: [Collectors -> SUBSET Triggers]]

TypeOK ==
  /\ rows \in [Triggers -> Row]
  /\ generation \in 1..MaxGeneration
  /\ handlers \in [Processes -> SUBSET Triggers]
  /\ channel \in [Processes -> SUBSET Triggers]
  /\ overflow \in [Processes -> SUBSET Triggers]
  /\ proc \in [Processes -> Scheduler]
  /\ elapsed \in [Processes -> SUBSET Timers]
  /\ covered \in [Triggers -> SUBSET Collectors]
  /\ \A p \in Processes : /\ Cardinality(channel[p]) <= ChannelCap
                          /\ Cardinality(overflow[p]) <= OverflowCap

NoRow == [status |-> "none", wait |-> 0, age |-> 0, lease |-> 0,
          token |-> NoToken]
Live(row) == row.status \in {"pending", "processing"}

Boot == [at |-> "top", gen |-> 0, selected |-> FALSE, asked |-> {},
         claims |-> {}, todo |-> {}, usable |-> {},
         seen |-> [c \in Collectors |-> {}]]

Init ==
  /\ rows = [t \in Triggers |-> NoRow]
  /\ generation = 1
  /\ handlers = [p \in Processes |-> {}]
  /\ channel = [p \in Processes |-> {}]
  /\ overflow = [p \in Processes |-> {}]
  /\ proc = [p \in Processes |-> Boot]
  /\ elapsed = [p \in Processes |-> {}]
  /\ covered = [t \in Triggers |-> {}]

\* unionScopes: one trigger for every collector widens the union to all
Needs(t) == IF Scope[t] = {} THEN Collectors ELSE Scope[t]

----------------------------------------------------------------------------
(* Accepting a delivery *)

InMemory(t) ==
  \E p \in Processes :
    \/ t \in handlers[p] \cup channel[p] \cup overflow[p] \cup proc[p].asked
    \/ \E c \in proc[p].claims : c.id = t

\* RecordWebhookTrigger: ON CONFLICT(body_hash) DO NOTHING, so a repeated
\* delivery changes nothing while its row exists.
Record(p, t) ==
  /\ rows[t].status = "none"
  /\ ~ InMemory(t)
  /\ rows' = [rows EXCEPT ![t] = [NoRow EXCEPT !.status = "pending"]]
  /\ handlers' = [handlers EXCEPT ![p] = @ \cup {t}]
  /\ covered' = [covered EXCEPT ![t] = {}]
  /\ UNCHANGED <<generation, channel, overflow, proc, elapsed>>

\* Engine.Trigger: the channel, else the overflow queue, else nowhere.
Announce(p, t) ==
  /\ t \in handlers[p]
  /\ handlers' = [handlers EXCEPT ![p] = @ \ {t}]
  /\ IF Cardinality(channel[p]) < ChannelCap
     THEN /\ channel' = [channel EXCEPT ![p] = @ \cup {t}]
          /\ UNCHANGED overflow
     ELSE /\ overflow' = IF Cardinality(overflow[p]) < OverflowCap
                         THEN [overflow EXCEPT ![p] = @ \cup {t}]
                         ELSE overflow
          /\ UNCHANGED channel
  /\ UNCHANGED <<rows, generation, proc, elapsed, covered>>

----------------------------------------------------------------------------
(* Claiming *)

Unleased(row, status) ==
  [row EXCEPT !.status = status, !.lease = 0, !.token = NoToken]

Reclaimed(row) ==
  IF row.status = "processing" /\ row.lease = 0
  THEN Unleased(row, "pending") ELSE row

\* the first two statements of both claims
Horizon(row) ==
  IF Reclaimed(row).status = "pending" /\ row.age >= RetryWindow
  THEN Unleased(row, "dead") ELSE Reclaimed(row)

Due(row) == Horizon(row).status = "pending" /\ row.wait = 0

Leased(row, token) ==
  [Horizon(row) EXCEPT !.status = "processing", !.lease = Lease, !.token = token]

\* A random token is one no process holds for this row.
FreshTokens(t) ==
  {k \in Tokens : \A p \in Processes : [id |-> t, token |-> k] \notin proc[p].claims}

\* Where the loop goes on: polling what it claimed, or the next branch.
Continue(p, claims, otherwise) ==
  LET todo == UNION {Needs(c.id) : c \in claims}
  IN  proc' = [proc EXCEPT ![p] =
                 [@ EXCEPT !.at = IF claims = {} THEN otherwise ELSE "poll",
                           !.asked = {}, !.claims = claims, !.todo = todo,
                           !.usable = {}, !.seen = [c \in Collectors |-> {}]]]

\* ClaimWebhookTrigger for each row of the requests taken; a row whose
\* metadata cannot be read rolls its own claim back.
ClaimFast(p, t) ==
  /\ proc[p].at = "claim" /\ t \in proc[p].asked
  /\ IF Due(rows[t])
     THEN IF t \in Damaged
          THEN /\ proc' = [proc EXCEPT ![p].asked = @ \ {t}]
               /\ UNCHANGED rows
          ELSE \E k \in FreshTokens(t) :
                 /\ rows' = [rows EXCEPT ![t] = Leased(@, k)]
                 /\ proc' = [proc EXCEPT
                      ![p].asked = @ \ {t},
                      ![p].claims = @ \cup {[id |-> t, token |-> k]}]
     ELSE /\ rows' = [rows EXCEPT ![t] = Horizon(@)]
          /\ proc' = [proc EXCEPT ![p].asked = @ \ {t}]
  /\ UNCHANGED <<generation, handlers, channel, overflow, elapsed, covered>>

\* Nothing claimed: a newer attempt, or the durable worker, has the rows.
EndClaims(p) ==
  /\ proc[p].at = "claim" /\ proc[p].asked = {}
  /\ Continue(p, proc[p].claims, IF proc[p].selected THEN "top" ELSE "durable")
  /\ UNCHANGED <<rows, generation, handlers, channel, overflow, elapsed, covered>>

Selected ==
  {t \in Triggers :
     Due(rows[t]) /\ Cardinality({u \in Triggers : Due(rows[u]) /\ u < t}) < ClaimLimit}

\* HasDueWebhookTriggers and ClaimWebhookTriggers, in one transaction that an
\* unreadable row rolls back.
ClaimDurable(p) ==
  /\ proc[p].at = "durable"
  /\ channel[p] = {}
  /\ IF Selected \cap Damaged # {}
     THEN /\ proc' = [proc EXCEPT ![p].at = "select"]
          /\ UNCHANGED rows
     ELSE \E token \in [Selected -> Tokens] :
            /\ \A t \in Selected : token[t] \in FreshTokens(t)
            /\ rows' = [t \in Triggers |-> IF t \in Selected
                                           THEN Leased(rows[t], token[t])
                                           ELSE Horizon(rows[t])]
            /\ Continue(p, {[id |-> t, token |-> token[t]] : t \in Selected},
                        "select")
  /\ UNCHANGED <<generation, handlers, channel, overflow, elapsed, covered>>

----------------------------------------------------------------------------
(* The scheduler loop *)

\* schedulerSettings: a new revision is a new client; a new identity polls
\* everything that is due and arms both timers again.
Reload(p) ==
  /\ proc[p].at = "top"
  /\ proc' = [proc EXCEPT ![p].at = "serve", ![p].gen = generation]
  /\ elapsed' = IF proc[p].gen # generation THEN [elapsed EXCEPT ![p] = {}]
                                            ELSE elapsed
  /\ UNCHANGED <<rows, generation, handlers, channel, overflow, covered>>

\* takeFastTriggerRequests
Take(p, selected) ==
  /\ channel' = [channel EXCEPT ![p] = {}]
  /\ overflow' = [overflow EXCEPT ![p] = {}]
  /\ proc' = [proc EXCEPT ![p].at = "claim", ![p].selected = selected,
                          ![p].asked = channel[p] \cup overflow[p]]
  /\ UNCHANGED <<rows, generation, handlers, elapsed, covered>>

Fast(p) ==
  /\ proc[p].at = "serve"
  /\ Take(p, FALSE)

\* len(e.trigger) # 0: a request came in since; the select takes it
SkipDurable(p) ==
  /\ proc[p].at = "durable" /\ channel[p] # {}
  /\ proc' = [proc EXCEPT ![p].at = "select"]
  /\ UNCHANGED <<rows, generation, handlers, channel, overflow, elapsed, covered>>

SelectRequest(p) ==
  /\ proc[p].at = "select" /\ channel[p] # {}
  /\ Take(p, TRUE)

\* e.wake or the durable queue's timer
SelectWake(p) ==
  /\ proc[p].at = "select"
  /\ proc' = [proc EXCEPT ![p].at = "top"]
  /\ UNCHANGED <<rows, generation, handlers, channel, overflow, elapsed, covered>>

\* runScheduledPoll: the poll, then the timer is armed again
SelectTimer(p, k) ==
  /\ proc[p].at = "select" /\ k \in elapsed[p]
  /\ elapsed' = [elapsed EXCEPT ![p] = @ \ {k}]
  /\ proc' = [proc EXCEPT ![p].at = "top"]
  /\ UNCHANGED <<rows, generation, handlers, channel, overflow, covered>>

\* (mutant) a backlog of triggers keeps the timers waiting
ElapsedIgnored(p) ==
  /\ proc[p].at = "elapsed"
  /\ proc' = [proc EXCEPT ![p].at = "top"]
  /\ UNCHANGED <<rows, generation, handlers, channel, overflow, elapsed, covered>>

\* serveElapsedPolls
ServeElapsed(p) ==
  /\ proc[p].at = "elapsed"
  /\ elapsed' = [elapsed EXCEPT ![p] = {}]
  /\ proc' = [proc EXCEPT ![p].at = "top"]
  /\ UNCHANGED <<rows, generation, handlers, channel, overflow, covered>>

----------------------------------------------------------------------------
(* The poll *)

\* client.Collect: complete, unsupported and partial answers are usable for a
\* trigger.  What it saw is the tailnet of a moment after these receipts.
Collect(p, c) ==
  /\ proc[p].at = "poll" /\ c \in proc[p].todo
  /\ \E good \in BOOLEAN :
       proc' = [proc EXCEPT
         ![p].todo = @ \ {c},
         ![p].usable = IF good THEN @ \cup {c} ELSE @,
         ![p].seen = IF good
                     THEN [@ EXCEPT ![c] = {t \in Triggers : rows[t].status # "none"}]
                     ELSE @]
  /\ UNCHANGED <<rows, generation, handlers, channel, overflow, elapsed, covered>>

\* (mutant) a stale batch counts as done
OutcomeIgnoresStale(p, stored) ==
  IF stored \/ proc[p].gen # generation THEN proc[p].usable ELSE {}

\* every outcome is withdrawn when the batch was not stored
Outcome(p, stored) == IF stored THEN proc[p].usable ELSE {}

\* ApplyBatchWithOptions: refuses the batch of another generation, may fail
Apply(p) ==
  /\ proc[p].at = "poll" /\ proc[p].todo = {}
  /\ \E stored \in BOOLEAN :
       /\ stored => proc[p].gen = generation
       /\ proc' = [proc EXCEPT ![p].at = "finish", ![p].usable = Outcome(p, stored)]
       /\ covered' = IF stored
                     THEN [t \in Triggers |->
                             covered[t] \cup {c \in Collectors : t \in proc[p].seen[c]}]
                     ELSE covered
  /\ UNCHANGED <<rows, generation, handlers, channel, overflow, elapsed>>

\* pollOutcome.succeeds
Succeeds(p, t) == Needs(t) \subseteq proc[p].usable

\* the WHERE clause of CompleteClaimed- and RetryClaimedWebhookTriggers
Owns(c) == rows[c.id].status = "processing" /\ rows[c.id].token = c.token

Retried(row, delay) ==
  IF row.age >= RetryWindow THEN [Unleased(row, "dead") EXCEPT !.wait = 0]
  ELSE [Unleased(row, "pending") EXCEPT !.wait = delay]

\* finishClaimedTriggers for one claim: fenced, and it may fail
Finish(p, c) ==
  /\ proc[p].at = "finish" /\ c \in proc[p].claims
  /\ \/ UNCHANGED rows
     \/ /\ Owns(c)
        /\ IF Succeeds(p, c.id)
           THEN rows' = [rows EXCEPT ![c.id] = Unleased(@, "processed")]
           ELSE \E delay \in 1..MaxDelay :
                  rows' = [rows EXCEPT ![c.id] = Retried(@, delay)]
  /\ proc' = [proc EXCEPT ![p].claims = @ \ {c}]
  /\ UNCHANGED <<generation, handlers, channel, overflow, elapsed, covered>>

\* A poll started by the select returns to the top without serving timers.
EndPoll(p) ==
  /\ proc[p].at = "finish" /\ proc[p].claims = {}
  /\ proc' = [proc EXCEPT ![p].at = IF proc[p].selected THEN "top" ELSE "elapsed"]
  /\ UNCHANGED <<rows, generation, handlers, channel, overflow, elapsed, covered>>

----------------------------------------------------------------------------
(* The environment *)

\* The process dies and starts again.
Crash(p) ==
  /\ proc[p] # Boot \/ handlers[p] # {}
  /\ proc' = [proc EXCEPT ![p] = Boot]
  /\ handlers' = [handlers EXCEPT ![p] = {}]
  /\ channel' = [channel EXCEPT ![p] = {}]
  /\ overflow' = [overflow EXCEPT ![p] = {}]
  /\ elapsed' = [elapsed EXCEPT ![p] = {}]
  /\ UNCHANGED <<rows, generation, covered>>

ChangeIdentity ==
  /\ generation < MaxGeneration
  /\ generation' = generation + 1
  /\ UNCHANGED <<rows, handlers, channel, overflow, proc, elapsed, covered>>

TimerFires(p, k) ==
  /\ k \notin elapsed[p]
  /\ elapsed' = [elapsed EXCEPT ![p] = @ \cup {k}]
  /\ UNCHANGED <<rows, generation, handlers, channel, overflow, proc, covered>>

\* (mutant) only lapsed leases are looked at, not pending rows
CleanupLapsedOnly(t) ==
  /\ rows[t].status = "processing" /\ rows[t].age >= RetryWindow
  /\ rows[t].lease = 0
  /\ rows' = [rows EXCEPT ![t] = [Unleased(@, "dead") EXCEPT !.wait = 0]]
  /\ UNCHANGED <<generation, handlers, channel, overflow, proc, elapsed, covered>>

\* retention phase webhook_dead_letter
CleanupDeadLetter(t) ==
  /\ Live(rows[t]) /\ rows[t].age >= RetryWindow
  /\ rows[t].status = "pending" \/ rows[t].lease = 0
  /\ rows' = [rows EXCEPT ![t] = [Unleased(@, "dead") EXCEPT !.wait = 0]]
  /\ UNCHANGED <<generation, handlers, channel, overflow, proc, elapsed, covered>>

\* retention phase webhook_triggers
CleanupSettled(t) ==
  /\ rows[t].status \in {"processed", "dead"} /\ rows[t].age = Retention
  /\ rows' = [rows EXCEPT ![t] = NoRow]
  /\ UNCHANGED <<generation, handlers, channel, overflow, proc, elapsed, covered>>

Down(n) == IF n > 0 THEN n - 1 ELSE 0

Aged(row) ==
  IF row.status = "none" THEN row
  ELSE [row EXCEPT !.wait = Down(@), !.lease = Down(@),
                   !.age = IF @ < Retention THEN @ + 1 ELSE @]

Tick ==
  /\ rows' = [t \in Triggers |-> Aged(rows[t])]
  /\ UNCHANGED <<generation, handlers, channel, overflow, proc, elapsed, covered>>

----------------------------------------------------------------------------
Poll(p) ==
  \/ \E c \in Collectors : Collect(p, c)
  \/ Apply(p)
  \/ \E c \in proc[p].claims : Finish(p, c)
  \/ EndPoll(p)

Loop(p) ==
  \/ Reload(p) \/ Fast(p) \/ EndClaims(p) \/ SkipDurable(p) \/ ClaimDurable(p)
  \/ \E t \in proc[p].asked : ClaimFast(p, t)
  \/ SelectRequest(p) \/ SelectWake(p)
  \/ \E k \in Timers : SelectTimer(p, k)
  \/ ServeElapsed(p) \/ Poll(p)

Retain == \E t \in Triggers : CleanupDeadLetter(t) \/ CleanupSettled(t)

Web(p) == \E t \in Triggers : Record(p, t) \/ Announce(p, t)

Next ==
  \/ \E p \in Processes :
       \/ Loop(p) \/ Web(p) \/ Crash(p)
       \/ \E k \in Timers : TimerFires(p, k)
  \/ ChangeIdentity \/ Retain \/ Tick

Spec == Init /\ [][Next]_vars

\* Time passes, a scheduler keeps looping (every request it makes has a
\* deadline), the select picks every ready case now and then, and the
\* retention worker runs.
Fairness ==
  /\ WF_vars(Tick)
  /\ \A p \in Processes :
       /\ WF_vars(Loop(p))
       /\ \A k \in Timers : SF_vars(SelectTimer(p, k))
  /\ \A t \in Triggers : WF_vars(CleanupDeadLetter(t))

FairSpec == Spec /\ Fairness

----------------------------------------------------------------------------
(* Properties *)

\* A trigger is marked processed only when every collector it asked for was
\* collected after its delivery arrived and stored under the generation then
\* current: joining several triggers into one poll, the fast path racing the
\* durable queue, a settings change or a failing collector never completes a
\* trigger nobody reconciled.
ProcessedWasReconciled ==
  \A t \in Triggers : rows[t].status = "processed" => Needs(t) \subseteq covered[t]

\* An acknowledged delivery is processed or dead in the end, though its
\* in-memory request may be dropped, processes crash and polls keep failing.
EventuallySettled ==
  \A t \in Triggers : Live(rows[t]) ~> ~ Live(rows[t])

\* A timer that has fired is served in the end, however many deliveries keep
\* arriving (serveElapsedPolls).
TimersServed ==
  \A p \in Processes, k \in Timers : k \in elapsed[p] ~> k \notin elapsed[p]
=============================================================================
