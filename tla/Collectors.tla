------------------------------ MODULE Collectors ------------------------------
(***************************************************************************)
(* Polls, collector health and snapshot reconciliation: what a poll makes  *)
(* of the answers of its collectors, which removals it believes, which     *)
(* changes it records and which health notices it queues.  Sources:        *)
(* internal/monitor/poll.go and internal/store/snapshots.go.               *)
(*                                                                         *)
(* A resource is stored in version 1 or 2; version 0 is none.  What the    *)
(* status page alone shows is left out (partial flags, durations,          *)
(* baseline_at), and so are the times at which a collector is due: a       *)
(* forced poll may come at any time.                                       *)
(*                                                                         *)
(* A poll reads, collects, records failures, applies its batch and queues  *)
(* notices in separate transactions, each of which may fail, and the       *)
(* process may die between any two.                                        *)
(***************************************************************************)
EXTENDS Integers, FiniteSets

CONSTANTS
  Collectors,      \* collector names
  Resources,       \* resource ids
  Edited,          \* bound: the resources whose content ever changes
  Silent,          \* collectors whose lifecycle others report (device_details)
  Scoped,          \* collectors whose scope an upgrade widened (users)
  Shared,          \* the resources only the wider scope shows
  MaxGeneration    \* bound: settings generations

ASSUME CollectorsAssumption ==
  /\ IsFiniteSet(Resources)
  /\ Edited \subseteq Resources /\ MaxGeneration \in Nat \ {0}
  /\ Silent \subseteq Collectors /\ Scoped \subseteq Collectors
  /\ Shared \subseteq Resources

VARIABLES
  generation,  \* settings.generation
  state,       \* the collector_state rows of this generation
  snapshots,   \* the snapshots rows of this generation
  mark,        \* collectors with a removal_guard_since entry
  scope,       \* users_shared_scope_generation is this generation
  poll,        \* the poll under way
  upstream,    \* whether the tailnet changes no more, and what it then shows
  view,        \* history: what the recorded events say is there
  absent,      \* history: stored resources the last complete answer omitted
  waited,      \* history: guarded responses since nothing was pending
  told         \* history: the last health notice queued per collector

vars == <<generation, state, snapshots, mark, scope, poll, upstream,
          view, absent, waited, told>>

\* what an API shows: a resource is absent, in its first or an edited version
Inventory ==
  {found \in [Resources -> 0..2] : \A r \in Resources : found[r] = 2 => r \in Edited}
FailureCap == 3         \* failure counts matter up to the alert threshold
MassRemoval == 3        \* fewer missing resources are never suspicious

State == [known: BOOLEAN, supported: BOOLEAN, baseline: BOOLEAN,
          error: {"", "confirm", "guard", "other"}, failures: 0..FailureCap,
          notified: BOOLEAN]
Snapshot == [version: 0..2, missing: 0..1]
Kinds == {"complete", "partial", "failed", "unsupported"}
Answer == [kind: Kinds, found: Inventory, wasUnhealthy: BOOLEAN]
Places == {"idle", "collect", "failures", "apply", "recovered", "unhealthy",
           "schedule"}
Told == {"nothing", "unhealthy", "recovered", "unknown", "repeated", "unfounded"}

Nothing == [r \in Resources |-> 0]
NoAnswer == [kind |-> "failed", found |-> Nothing, wasUnhealthy |-> FALSE]
NoState == [known |-> FALSE, supported |-> TRUE, baseline |-> FALSE,
            error |-> "", failures |-> 0, notified |-> FALSE]
NoSnapshot == [version |-> 0, missing |-> 0]
Idle == [at |-> "idle", gen |-> 0, todo |-> {}, polled |-> {},
         answers |-> [c \in Collectors |-> NoAnswer], news |-> {}]

TypeOK ==
  /\ generation \in 1..MaxGeneration
  /\ state \in [Collectors -> State]
  /\ snapshots \in [Collectors -> [Resources -> Snapshot]]
  /\ mark \subseteq Collectors
  /\ scope \subseteq Scoped
  /\ poll \in [at: Places, gen: 0..MaxGeneration, todo: SUBSET Collectors,
               polled: SUBSET Collectors, answers: [Collectors -> Answer],
               news: SUBSET Collectors]
  /\ upstream \in [steady: BOOLEAN, shows: [Collectors -> Inventory]]
  /\ view \in [Collectors -> Inventory]
  /\ absent \in [Collectors -> SUBSET Resources]
  /\ waited \in [Collectors -> 0..2]
  /\ told \in [Collectors -> Told]

\* The first poll after an upgrade may find a baseline of the narrower scope.
Init ==
  \E old \in [Scoped -> SUBSET (Resources \ Shared)] :
    LET version(c, r) == IF c \in Scoped /\ r \in old[c] THEN 1 ELSE 0
    IN  /\ state = [c \in Collectors |->
                      IF \E r \in Resources : version(c, r) = 1
                      THEN [NoState EXCEPT !.known = TRUE, !.baseline = TRUE]
                      ELSE NoState]
        /\ snapshots = [c \in Collectors |->
             [r \in Resources |-> [version |-> version(c, r), missing |-> 0]]]
        /\ view = [c \in Collectors |-> [r \in Resources |-> version(c, r)]]
        /\ generation = 1 /\ mark = {} /\ scope = {} /\ poll = Idle
        /\ upstream = [steady |-> FALSE,
                        shows |-> [c \in Collectors |-> Nothing]]
        /\ absent = [c \in Collectors |-> {}]
        /\ waited = [c \in Collectors |-> 0]
        /\ told = [c \in Collectors |-> "nothing"]

----------------------------------------------------------------------------
(* Believing an answer *)

Stored(c) == {r \in Resources : snapshots[c][r].version # 0}
Seen(a) == {r \in Resources : a.found[r] # 0}
Missing(c, a) == Stored(c) \ Seen(a)

Suspicious(c, a) ==
  /\ Cardinality(Missing(c, a)) >= MassRemoval
  /\ Cardinality(Missing(c, a)) > Cardinality(Seen(a))

ConfirmedMissing(c, a) ==
  /\ Missing(c, a) # {}
  /\ \A r \in Missing(c, a) : snapshots[c][r].missing > 0

\* (mutant) the guard holds as long as the answer looks suspicious
GuardedForever(c, a) ==
  \/ a.kind = "partial"
  \/ Suspicious(c, a) /\ ~ ConfirmedMissing(c, a)

\* (mutant) any two failures in a row release the guard
GuardedByCount(c, a) ==
  \/ a.kind = "partial"
  \/ /\ Suspicious(c, a) /\ ~ ConfirmedMissing(c, a)
     /\ state[c].failures < 2

\* massRemovalGuard: are the missing resources held back?
Guarded(c, a) ==
  \/ a.kind = "partial"
  \/ /\ Suspicious(c, a) /\ ~ ConfirmedMissing(c, a)
     /\ state[c].error # "guard" \/ state[c].failures < 2

\* (mutant) an unchanged resource keeps its missing count
RefreshedIfChanged(c, r, version) ==
  IF snapshots[c][r].version = version THEN snapshots[c][r]
  ELSE [version |-> version, missing |-> 0]

\* upsertResource: what is stored of a returned resource
Refreshed(c, r, version) == [version |-> version, missing |-> 0]

\* reconcileMissing: the first absence is counted, the second removes
Overlooked(row) ==
  IF row.missing + 1 >= 2 THEN NoSnapshot
  ELSE [row EXCEPT !.missing = @ + 1]

AfterSnapshots(c, a) ==
  [r \in Resources |->
     IF r \in Seen(a) THEN Refreshed(c, r, a.found[r])
     ELSE IF r \in Missing(c, a) /\ ~ Guarded(c, a)
     THEN Overlooked(snapshots[c][r])
     ELSE snapshots[c][r]]

\* some missing resource waits for its confirming poll
Pending(c, a) ==
  \E r \in Missing(c, a) : snapshots[c][r].missing = 0

\* sharedUsersAbsorption: what the wider scope shows for the first time
Absorbed(c) == IF c \in Scoped \ scope THEN Shared ELSE {}

\* The events of an answer; a removal is an event of version 0.
Events(c, a) ==
  LET created == IF c \in Silent THEN {} ELSE (Seen(a) \ Stored(c)) \ Absorbed(c)
      changed == {r \in Seen(a) \cap Stored(c) :
                    a.found[r] # snapshots[c][r].version}
      removed == IF c \in Silent THEN {}
                 ELSE {r \in Stored(c) : AfterSnapshots(c, a)[r].version = 0}
  IN  IF ~ state[c].baseline THEN {}
      ELSE {[id |-> r, version |-> a.found[r]] : r \in created \cup changed \cup removed}

\* What a reader of the events holds to be there: the baseline, then each event.
Replay(c, a) ==
  LET silently == IF state[c].baseline
                  THEN (Seen(a) \ Stored(c)) \cap Absorbed(c) ELSE Seen(a)
      heard == {e.id : e \in Events(c, a)} \cup silently
  IN  [r \in Resources |-> IF r \in heard THEN a.found[r] ELSE view[c][r]]

----------------------------------------------------------------------------
(* The collector_state row after an answer *)

Succeeded(s) ==
  [s EXCEPT !.known = TRUE, !.supported = TRUE, !.baseline = TRUE,
            !.error = "", !.failures = 0, !.notified = FALSE]

\* recordCollectorPartial: failures and the flag stay what they are
PartlyAnswered(s) ==
  [s EXCEPT !.known = TRUE, !.supported = TRUE, !.baseline = TRUE,
            !.error = "other", !.failures = IF s.known THEN @ ELSE 1]

More(n) == IF n < FailureCap THEN n + 1 ELSE n

\* recordRemovalGuard
HeldBack(s) ==
  [s EXCEPT !.known = TRUE, !.supported = TRUE, !.error = "guard",
            !.failures = IF s.known THEN More(@) ELSE 1, !.notified = FALSE]

\* a baselined collector is demoted by its second unsupported answer
Unconfirmed(s) == s.known /\ s.supported /\ s.baseline /\ s.error # "confirm"
Confirmed(s) == s.known /\ s.supported /\ s.baseline /\ s.error = "confirm"

\* (mutant) a demoted collector starts from nothing when it answers again
DemotedForgets(s) ==
  IF Unconfirmed(s) THEN [s EXCEPT !.error = "confirm", !.failures = 1]
  ELSE [s EXCEPT !.known = TRUE, !.supported = FALSE, !.error = "other",
                 !.baseline = FALSE, !.notified = @ \/ Confirmed(s)]

\* unsupportedCollector
Demoted(s) ==
  IF Unconfirmed(s) THEN [s EXCEPT !.error = "confirm", !.failures = 1]
  ELSE [s EXCEPT !.known = TRUE, !.supported = FALSE, !.error = "other",
                 !.notified = @ \/ Confirmed(s)]

AfterState(c, a) ==
  CASE a.kind = "failed" -> state[c]
    [] a.kind = "unsupported" -> Demoted(state[c])
    [] a.kind = "partial" -> PartlyAnswered(state[c])
    [] a.kind = "complete" /\ Guarded(c, a) -> HeldBack(state[c])
    [] OTHER -> Succeeded(state[c])

\* recordCollectorFailuresTx
Failed(s, crossing) ==
  [s EXCEPT !.known = TRUE, !.supported = TRUE, !.error = "other",
            !.failures = More(@), !.notified = @ \/ crossing]

----------------------------------------------------------------------------
(* Notices *)

\* A history of the notices about failures and unsupported answers; those of
\* the mass-removal guard stand alone.
Tell(c, notice) ==
  CASE notice = "unhealthy" /\ told[c] = "unhealthy" -> "repeated"
    [] notice = "recovered" /\ told[c] \in {"nothing", "recovered"} -> "unfounded"
    [] OTHER -> notice

TellAll(S, notice) ==
  [c \in Collectors |-> IF c \in S THEN Tell(c, notice) ELSE told[c]]

\* The notice never came to be: nobody can know what the next one finds.
LoseNotice(S) == [c \in Collectors |-> IF c \in S THEN "unknown" ELSE told[c]]

----------------------------------------------------------------------------
(* The poll: pollWithOutcomes *)

Current == poll.gen = generation
Changing == ~ upstream.steady

Failing == {c \in poll.polled : poll.answers[c].kind \in {"failed", "partial"}}

Recovered ==
  {c \in poll.polled :
     poll.answers[c].kind = "complete" /\ poll.answers[c].wasUnhealthy}

\* The collectors that are due, or that a webhook trigger forces.
Start(S) ==
  /\ poll.at = "idle" /\ S # {}
  /\ poll' = [Idle EXCEPT !.at = "collect", !.gen = generation,
                          !.todo = S, !.polled = S]
  /\ UNCHANGED <<generation, state, snapshots, mark, scope, upstream, view,
                 absent, waited, told>>

\* A complete answer may be empty, a partial one shows something.
PossibleAnswers ==
  {a \in Answer : /\ a.kind = "partial" => Seen(a) # {}
                  /\ a.kind \in {"failed", "unsupported"} => Seen(a) = {}}

Answers(c) ==
  IF Changing THEN PossibleAnswers
  ELSE {a \in PossibleAnswers : a.kind = "complete" /\ a.found = upstream.shows[c]}

\* CollectorWasUnhealthyWithError, then client.Collect.  If the flag cannot be
\* read the poll goes on as if it were clear, and may owe a recovery.
Collect(c) ==
  /\ poll.at = "collect" /\ c \in poll.todo
  /\ \E a \in Answers(c) :
       /\ \/ /\ a.wasUnhealthy = (Current /\ state[c].notified)
             /\ UNCHANGED told
          \/ /\ Changing /\ Current /\ state[c].notified /\ ~ a.wasUnhealthy
             /\ told' = LoseNotice({c})
       /\ poll' = [poll EXCEPT !.answers[c] = a, !.todo = @ \ {c},
                     !.at = IF poll.todo = {c} THEN "failures" ELSE @]
  /\ UNCHANGED <<generation, state, snapshots, mark, scope, upstream, view,
                 absent, waited>>

\* (mutant) the notice is repeated while the failures go on
CrossingAgain == {c \in Failing : state[c].failures + 1 >= FailureCap}

\* the collectors whose failure crosses the threshold
Crossing ==
  {c \in Failing : state[c].failures + 1 >= FailureCap /\ ~ state[c].notified}

\* RecordCollectorHealth: the flags and their notice in one transaction
RecordFailures ==
  /\ poll.at = "failures"
  /\ \/ /\ Current
        /\ state' = [c \in Collectors |->
                       IF c \in Failing THEN Failed(state[c], c \in Crossing)
                                        ELSE state[c]]
        /\ told' = TellAll(Crossing, "unhealthy")
     \/ /\ Changing \/ ~ Current
        /\ UNCHANGED <<state, told>>
  /\ poll' = [poll EXCEPT !.at = "apply"]
  /\ UNCHANGED <<generation, snapshots, mark, scope, upstream, view, absent, waited>>

\* The batch was refused, or failed and is tried again soon.
ApplyFails ==
  /\ poll.at = "apply"
  /\ Changing \/ ~ Current
  /\ poll' = [poll EXCEPT !.at = "schedule"]
  /\ UNCHANGED <<generation, state, snapshots, mark, scope, upstream, view,
                 absent, waited, told>>

Applied == {c \in poll.polled : poll.answers[c].kind \in {"complete", "partial"}}

\* f(c, a) for the collectors the batch applies
ForApplied(old, f(_, _)) ==
  [c \in Collectors |-> IF c \in Applied THEN f(c, poll.answers[c]) ELSE old[c]]

Complete(c, held) ==
  /\ c \in Applied
  /\ poll.answers[c].kind = "complete"
  /\ Guarded(c, poll.answers[c]) = held

\* nothing the guard held back is left to confirm
Resolved(c) == Complete(c, FALSE) /\ ~ Pending(c, poll.answers[c])

\* ApplyBatchWithOptions: every collector's result in one transaction
Apply ==
  /\ poll.at = "apply" /\ Current
  /\ snapshots' = ForApplied(snapshots, AfterSnapshots)
  /\ view' = ForApplied(view, Replay)
  /\ state' = [c \in Collectors |-> IF c \in poll.polled
                                    THEN AfterState(c, poll.answers[c])
                                    ELSE state[c]]
  /\ mark' = (mark \ {c \in mark : Resolved(c)}) \cup
               {c \in Applied : /\ Complete(c, TRUE) /\ state[c].baseline
                                /\ state[c].error # "guard"}
  /\ scope' = scope \cup (Applied \cap Scoped)
  /\ poll' = [poll EXCEPT !.at = "recovered",
                !.news = {c \in poll.polled :
                            /\ poll.answers[c].kind = "unsupported"
                            /\ Confirmed(state[c]) /\ ~ state[c].notified}]
  /\ absent' = [c \in Collectors |->
                  IF Complete(c, TRUE) \/ Complete(c, FALSE)
                  THEN {r \in Missing(c, poll.answers[c]) :
                          AfterSnapshots(c, poll.answers[c])[r].version # 0}
                  ELSE IF c \in Applied THEN absent[c] \ Seen(poll.answers[c])
                  ELSE absent[c]]
  /\ waited' = [c \in Collectors |->
                  IF Complete(c, TRUE) THEN IF waited[c] < 2 THEN waited[c] + 1 ELSE 2
                  ELSE IF Resolved(c) THEN 0 ELSE waited[c]]
  /\ UNCHANGED <<generation, upstream, told>>

\* queueHealthNotice: a transaction of its own, which may fail.  Notices of
\* an identity that is gone are not followed.
Notify(S, notice) ==
  \/ told' = IF Current THEN TellAll(S, notice) ELSE told
  \/ /\ Changing /\ S # {}
     /\ told' = IF Current THEN LoseNotice(S) ELSE told

NotifyRecovered ==
  /\ poll.at = "recovered"
  /\ Notify(Recovered, "recovered")
  /\ poll' = [poll EXCEPT !.at = "unhealthy"]
  /\ UNCHANGED <<generation, state, snapshots, mark, scope, upstream, view,
                 absent, waited>>

NotifyUnhealthy ==
  /\ poll.at = "unhealthy"
  /\ Notify(poll.news, "unhealthy")
  /\ poll' = [poll EXCEPT !.at = "schedule"]
  /\ UNCHANGED <<generation, state, snapshots, mark, scope, upstream, view,
                 absent, waited>>

\* SetNextPollErr: creates the row of a collector that has none
Schedule ==
  /\ poll.at = "schedule"
  /\ \/ /\ Current
        /\ state' = [c \in Collectors |-> IF c \in poll.polled
                                          THEN [state[c] EXCEPT !.known = TRUE]
                                          ELSE state[c]]
     \/ /\ Changing \/ ~ Current
        /\ UNCHANGED state
  /\ poll' = Idle
  /\ UNCHANGED <<generation, snapshots, mark, scope, upstream, view, absent,
                 waited, told>>

----------------------------------------------------------------------------
(* The environment *)

\* The process dies; what its poll had not queued yet is lost.
Crash ==
  /\ Changing /\ poll.at # "idle"
  /\ poll' = Idle
  /\ told' = CASE poll.at = "recovered" /\ Current -> LoseNotice(Recovered \cup poll.news)
               [] poll.at = "unhealthy" /\ Current -> LoseNotice(poll.news)
               [] OTHER -> told
  /\ UNCHANGED <<generation, state, snapshots, mark, scope, upstream, view,
                 absent, waited>>

\* SaveSettings with another tailnet or OAuth client: a new story begins.
ChangeIdentity ==
  /\ Changing /\ generation < MaxGeneration
  /\ generation' = generation + 1
  /\ state' = [c \in Collectors |-> NoState]
  /\ snapshots' = [c \in Collectors |-> [r \in Resources |-> NoSnapshot]]
  /\ mark' = {} /\ scope' = {}
  /\ view' = [c \in Collectors |-> Nothing]
  /\ absent' = [c \in Collectors |-> {}]
  /\ waited' = [c \in Collectors |-> 0]
  /\ told' = [c \in Collectors |-> "nothing"]
  /\ UNCHANGED <<poll, upstream>>

\* From now on the tailnet stays as it is and everybody answers.  A poll that
\* is under way might as well have been before.
SettleDown ==
  /\ Changing /\ poll.at = "idle"
  /\ \E now \in [Collectors -> Inventory] :
       upstream' = [steady |-> TRUE, shows |-> now]
  /\ UNCHANGED <<generation, state, snapshots, mark, scope, poll, view, absent,
                 waited, told>>

----------------------------------------------------------------------------
Step ==
  \/ \E c \in Collectors : Collect(c)
  \/ RecordFailures \/ Apply \/ ApplyFails
  \/ NotifyRecovered \/ NotifyUnhealthy \/ Schedule

Next ==
  \/ Step
  \/ \E S \in SUBSET Collectors : Start(S)
  \/ Crash \/ ChangeIdentity \/ SettleDown

Spec == Init /\ [][Next]_vars

\* A poll goes on (each of its calls has a deadline), and no collector is
\* left out for ever, whatever else is polled in between (Triggers shows that
\* the timers are served).
Fairness ==
  /\ WF_vars(Step)
  /\ \A c \in Collectors :
       SF_vars(\E S \in SUBSET Collectors : c \in S /\ Start(S))

FairSpec == Spec /\ Fairness

----------------------------------------------------------------------------
(* Properties *)

\* What the recorded events say, added to the silent baseline, is what is
\* stored: no guarded answer, demotion, partial poll or absorbed upgrade makes
\* a resource come, change or go without its event, or with one too many.
EventsExplainSnapshots ==
  \A c \in Collectors \ Silent :
    state[c].baseline =>
      \A r \in Resources : view[c][r] = snapshots[c][r].version

\* docs/monitoring.md:41: a removal takes two complete answers in a row
\* without the resource, whatever partial or failed polls come between.
RemovedWasAbsentTwice ==
  [][\A c \in Collectors : generation' = generation =>
       \A r \in Stored(c) :
         snapshots'[c][r].version = 0 => r \in absent[c]]_vars

\* Collector c loses most of its resources at once, in one step.
MassRemovalOf(c) ==
  LET gone == {r \in Stored(c) : snapshots'[c][r].version = 0}
      left == {r \in Resources : snapshots'[c][r].version # 0}
  IN  Cardinality(gone) >= MassRemoval /\ Cardinality(gone) > Cardinality(left)

\* Most of a collector's resources never go at once unless the guard has held
\* them back in one response at least, and the mark from which their removal
\* is attributed is still there (massRemovalGuard, removalGuardMarks).  One is
\* enough when an ordinary failure came before it: see
\* MassRemovalWasGuardedTwice.
MassRemovalWasGuarded ==
  [][\A c \in Collectors :
       generation' = generation /\ MassRemovalOf(c) => waited[c] > 0 /\ c \in mark]_vars

\* docs/monitoring.md:42, store/snapshots.go:453: the population is accepted
\* "after two consecutive guarded responses".  How many there were is read from
\* failure_count, which an ordinary failed poll raises, too.
MassRemovalWasGuardedTwice ==
  [][\A c \in Collectors :
       generation' = generation /\ MassRemovalOf(c) => waited[c] >= 2]_vars

\* Unhealthy and recovered notices alternate, beginning with unhealthy: a
\* collector is not reported twice for one episode and never recovers from
\* what was not reported (a notice a crash lost excepted).
NoticesAlternate ==
  \A c \in Collectors : told[c] \notin {"repeated", "unfounded"}

\* Once the tailnet stays as it is and answers, the stored inventory becomes
\* that tailnet: the mass-removal guard and the two-poll rule delay removals
\* and do not suppress them.
Converges ==
  upstream.steady ~>
    \A c \in Collectors : \A r \in Resources :
      snapshots[c][r] = [version |-> upstream.shows[c][r], missing |-> 0]
=============================================================================
