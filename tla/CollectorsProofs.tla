-------------------------- MODULE CollectorsProofs --------------------------
(***************************************************************************)
(* What Collectors keeps for every set of collectors and resources and     *)
(* every inventory they may report: removals take two complete answers,    *)
(* mass removals pass the guard first, the recorded events say what is     *)
(* stored, and health notices alternate.                                   *)
(***************************************************************************)
EXTENDS Collectors, FiniteSetTheorems, TLAPS

-----------------------------------------------------------------------------
(* The inductive invariant.                                                 *)

\* Before its baseline a collector has stored nothing and told of nothing.
NothingBeforeBaseline ==
  \A c \in Collectors : ~ state[c].baseline =>
    \A r \in Resources : snapshots[c][r].version = 0 /\ view[c][r] = 0

\* A counted absence is one the last complete answer shows.
CountedIsAbsent ==
  \A c \in Collectors : \A r \in Stored(c) : snapshots[c][r].missing # 0 => r \in absent[c]

\* The resources that a second absence removes.
Counted(c) == {r \in Stored(c) : snapshots[c][r].missing # 0}

Massive(gone, left) == Cardinality(gone) >= MassRemoval /\ Cardinality(gone) > Cardinality(left)

\* Where an answer was held back, the guard has left its mark.
Held(c) == waited[c] > 0 /\ c \in mark

\* The guard comes before every mass removal: while it holds, and when what it
\* let through is only counted.
GuardFirst ==
  \A c \in Collectors :
    /\ state[c].error = "guard" => Held(c)
    /\ Massive(Counted(c), Stored(c) \ Counted(c)) => Held(c)

\* A poll goes through its places with every collector it polls answered.
PollInStep == poll.at # "collect" => poll.todo = {}

Before(at) == at \in {"collect", "failures", "apply"}
Owes(c) == Current /\ poll.at = "recovered" /\ c \in Recovered
OwesNews(c) == Current /\ poll.at \in {"recovered", "unhealthy"} /\ c \in poll.news

\* Who was told what a collector's flag says, up to the notices the poll owes.
FlagWasTold ==
  \A c \in Collectors :
    /\ told[c] = "unhealthy" => state[c].notified \/ Owes(c)
    /\ state[c].notified => told[c] \in {"unhealthy", "unknown"} \/ OwesNews(c)
    /\ Owes(c) => told[c] \in {"unhealthy", "unknown"} /\ ~ state[c].notified
    /\ OwesNews(c) => told[c] # "unhealthy" /\ state[c].notified

\* What a poll has seen of the flag still holds when its answer is applied.
FlagWasSeen ==
  Current /\ Before(poll.at) =>
    \A c \in poll.polled \ poll.todo : poll.answers[c].kind = "complete" =>
      /\ poll.answers[c].wasUnhealthy => state[c].notified
      /\ ~ poll.answers[c].wasUnhealthy /\ state[c].notified => told[c] = "unknown"

PollIsNoLater == poll.gen <= generation

\* What is stored, and what was told of it.
Data == NothingBeforeBaseline /\ CountedIsAbsent /\ GuardFirst /\ EventsExplainSnapshots
Flags == PollInStep /\ PollIsNoLater /\ FlagWasTold /\ FlagWasSeen /\ NoticesAlternate

CInv == TypeOK /\ Data /\ Flags

-----------------------------------------------------------------------------
(* Types.                                                                   *)

\* The row of a collector after any answer, and after a failure.
LEMMA RowTypes ==
  ASSUME NEW s \in State
  PROVE  /\ Succeeded(s) \in State /\ PartlyAnswered(s) \in State /\ HeldBack(s) \in State
         /\ Demoted(s) \in State /\ \A x \in BOOLEAN : Failed(s, x) \in State
<1>1. More(s.failures) \in 0 .. FailureCap /\ 1 \in 0 .. FailureCap /\ 0 \in 0 .. FailureCap
  <2>1. s.failures \in 0 .. FailureCap
    BY DEF State
  <2> QED BY <2>1 DEF More, FailureCap
<1>2. Succeeded(s) \in State
  BY <1>1 DEF State, Succeeded
<1>3. PartlyAnswered(s) \in State
  BY <1>1 DEF State, PartlyAnswered
<1>4. HeldBack(s) \in State
  BY <1>1 DEF State, HeldBack
<1>5. Demoted(s) \in State
  <2>1. Unconfirmed(s) \in BOOLEAN /\ Confirmed(s) \in BOOLEAN
    BY DEF State, Unconfirmed, Confirmed
  <2> QED BY <1>1, <2>1 DEF State, Demoted
<1>6. ASSUME NEW x \in BOOLEAN PROVE Failed(s, x) \in State
  BY <1>1 DEF State, Failed
<1> QED BY <1>2, <1>3, <1>4, <1>5, <1>6

\* What is stored of a resource after an answer, and what events say of it.
LEMMA AnswerTypes ==
  ASSUME TypeOK, NEW c \in Collectors, NEW a \in Answer
  PROVE  /\ AfterSnapshots(c, a) \in [Resources -> Snapshot]
         /\ Replay(c, a) \in Inventory
         /\ AfterState(c, a) \in State
<1>1. /\ snapshots[c] \in [Resources -> Snapshot] /\ view[c] \in Inventory /\ state[c] \in State
      /\ a.found \in Inventory /\ a.kind \in Kinds
  BY DEF TypeOK, Answer
<1>2. AfterSnapshots(c, a) \in [Resources -> Snapshot]
  <2>1. ASSUME NEW r \in Resources
        PROVE  /\ snapshots[c][r] \in Snapshot
               /\ Refreshed(c, r, a.found[r]) \in Snapshot
               /\ snapshots[c][r] \in Snapshot => Overlooked(snapshots[c][r]) \in Snapshot
    BY <1>1 DEF Inventory, Snapshot, Refreshed, Overlooked, NoSnapshot
  <2> QED BY <2>1 DEF AfterSnapshots
<1>3. Replay(c, a) \in Inventory
  BY <1>1 DEF Replay, Inventory
<1>4. AfterState(c, a) \in State
  BY <1>1, RowTypes DEF AfterState
<1> QED BY <1>2, <1>3, <1>4

\* What the batch of a poll writes for each collector.
LEMMA Applying ==
  ASSUME Apply, NEW c \in Collectors
  PROVE  /\ c \in Applied => /\ snapshots'[c] = AfterSnapshots(c, poll.answers[c])
                             /\ view'[c] = Replay(c, poll.answers[c])
         /\ c \notin Applied => snapshots'[c] = snapshots[c] /\ view'[c] = view[c]
BY DEF Apply, ForApplied

\* Applying the answers of a poll keeps every variable in its type.
LEMMA ApplyTypes ==
  ASSUME TypeOK, Apply
  PROVE  TypeOK'
<1>1. \A c \in Collectors : poll.answers[c] \in Answer
  BY DEF TypeOK
<1>2. snapshots' \in [Collectors -> [Resources -> Snapshot]]
  <2>1. ASSUME NEW c \in Collectors PROVE snapshots'[c] \in [Resources -> Snapshot]
    <3>1. snapshots[c] \in [Resources -> Snapshot] /\ AfterSnapshots(c, poll.answers[c]) \in [Resources -> Snapshot]
      BY <1>1, AnswerTypes DEF TypeOK
    <3> QED BY <3>1, Applying
  <2>2. snapshots' = [c \in Collectors |-> snapshots'[c]]
    BY DEF Apply, ForApplied
  <2> QED BY <2>1, <2>2
<1>3. view' \in [Collectors -> Inventory]
  <2>1. ASSUME NEW c \in Collectors PROVE view'[c] \in Inventory
    <3>1. view[c] \in Inventory /\ Replay(c, poll.answers[c]) \in Inventory
      BY <1>1, AnswerTypes DEF TypeOK
    <3> QED BY <3>1, Applying
  <2>2. view' = [c \in Collectors |-> view'[c]]
    BY DEF Apply, ForApplied
  <2> QED BY <2>1, <2>2
<1>4. state' \in [Collectors -> State]
  <2>1. \A c \in Collectors : AfterState(c, poll.answers[c]) \in State
    BY <1>1, AnswerTypes
  <2> QED BY <2>1 DEF Apply, TypeOK
<1>5. mark' \subseteq Collectors /\ scope' \subseteq Scoped /\ generation' \in 1 .. MaxGeneration
  BY DEF Apply, TypeOK, Applied
<1>6. poll' \in [at: Places, gen: 0..MaxGeneration, todo: SUBSET Collectors,
               polled: SUBSET Collectors, answers: [Collectors -> Answer], news: SUBSET Collectors]
  BY DEF Apply, TypeOK, Places
<1>7. absent' \in [Collectors -> SUBSET Resources] /\ waited' \in [Collectors -> 0 .. 2]
  <2>1. \A c \in Collectors : Missing(c, poll.answers[c]) \subseteq Resources
    BY DEF Missing, Stored
  <2>2. \A c \in Collectors : absent[c] \subseteq Resources /\ waited[c] \in 0 .. 2
    BY DEF TypeOK
  <2>3. absent' \in [Collectors -> SUBSET Resources]
    BY <2>1, <2>2 DEF Apply
  <2>4. waited' \in [Collectors -> 0 .. 2]
    <3>1. ASSUME NEW n \in 0 .. 2 PROVE (IF n < 2 THEN n + 1 ELSE 2) \in 0 .. 2 /\ 0 \in 0 .. 2
      OBVIOUS
    <3> QED BY <2>2, <3>1 DEF Apply
  <2> QED BY <2>3, <2>4
<1> QED BY <1>2, <1>3, <1>4, <1>5, <1>6, <1>7 DEF Apply, TypeOK

\* So do the other steps of a poll, its start and a crash inside it.
LEMMA PollTypes ==
  ASSUME TypeOK, (\E S \in SUBSET Collectors : Start(S)) \/ (\E c \in Collectors : Collect(c))
                 \/ ApplyFails \/ NotifyRecovered \/ NotifyUnhealthy \/ Schedule \/ Crash
  PROVE  TypeOK'
<1> DEFINE Polls == [at: Places, gen: 0..MaxGeneration, todo: SUBSET Collectors,
               polled: SUBSET Collectors, answers: [Collectors -> Answer], news: SUBSET Collectors]
<1>1. poll \in Polls /\ generation \in 0 .. MaxGeneration
  BY CollectorsAssumption DEF TypeOK
<1>2. Idle \in Polls
  BY CollectorsAssumption DEF Idle, NoAnswer, Nothing, Answer, Kinds, Inventory, Places
<1>3. told \in [Collectors -> Told] /\ \A S : LoseNotice(S) \in [Collectors -> Told]
  BY DEF LoseNotice, Told, TypeOK
<1>4. \A S, n : n \in {"unhealthy", "recovered"} => TellAll(S, n) \in [Collectors -> Told]
  BY <1>3 DEF TellAll, Tell, Told
<1>5. CASE \E S \in SUBSET Collectors : Start(S)
  <2>1. PICK S \in SUBSET Collectors : Start(S)
    BY <1>5
  <2>2. poll' \in Polls
    BY <1>1, <1>2, <2>1 DEF Start, Places
  <2> QED BY <2>1, <2>2 DEF Start, TypeOK
<1>6. CASE \E c \in Collectors : Collect(c)
  <2>0. PICK c \in Collectors : Collect(c)
    BY <1>6
  <2>1. PICK a \in Answers(c) :
          /\ poll' = [poll EXCEPT !.answers[c] = a, !.todo = @ \ {c}, !.at = IF poll.todo = {c} THEN "failures" ELSE @]
          /\ told' = told \/ told' = LoseNotice({c})
          /\ UNCHANGED <<generation, state, snapshots, mark, scope, upstream, view, absent, waited>>
    BY <2>0 DEF Collect
  <2>2. a \in Answer
    BY DEF Answers, PossibleAnswers
  <2>3. poll' \in Polls
    BY <1>1, <2>1, <2>2 DEF Places
  <2>4. told' \in [Collectors -> Told]
    BY <1>3, <2>1
  <2> QED BY <2>1, <2>3, <2>4 DEF TypeOK
<1>7. CASE ApplyFails \/ Schedule
  <2>1. poll' \in Polls
    BY <1>1, <1>2, <1>7 DEF ApplyFails, Schedule, Places
  <2>2. state' \in [Collectors -> State]
    <3>1. ASSUME NEW s \in State PROVE [s EXCEPT !.known = TRUE] \in State
      BY DEF State
    <3>2. state \in [Collectors -> State]
      BY DEF TypeOK
    <3>3. \/ state' = state
          \/ state' = [c \in Collectors |-> IF c \in poll.polled THEN [state[c] EXCEPT !.known = TRUE] ELSE state[c]]
      BY <1>7 DEF ApplyFails, Schedule
    <3>4. \A c \in Collectors : state[c] \in State /\ [state[c] EXCEPT !.known = TRUE] \in State
      BY <3>1, <3>2
    <3> QED BY <3>2, <3>3, <3>4
  <2> QED BY <1>7, <2>1, <2>2 DEF ApplyFails, Schedule, TypeOK
<1>8. CASE NotifyRecovered \/ NotifyUnhealthy
  <2>1. poll' \in Polls
    BY <1>1, <1>8 DEF NotifyRecovered, NotifyUnhealthy, Places
  <2>2. told' \in [Collectors -> Told]
    BY <1>3, <1>4, <1>8 DEF NotifyRecovered, NotifyUnhealthy, Notify
  <2> QED BY <1>8, <2>1, <2>2 DEF NotifyRecovered, NotifyUnhealthy, TypeOK
<1>9. CASE Crash
  <2>1. told' \in [Collectors -> Told]
    BY <1>3, <1>9 DEF Crash
  <2> QED BY <1>2, <1>9, <2>1 DEF Crash, TypeOK
<1> QED BY <1>5, <1>6, <1>7, <1>8, <1>9

\* So does recording its failures.
LEMMA RecordTypes ==
  ASSUME TypeOK, RecordFailures
  PROVE  TypeOK'
<1>1. poll' \in [at: Places, gen: 0..MaxGeneration, todo: SUBSET Collectors,
               polled: SUBSET Collectors, answers: [Collectors -> Answer], news: SUBSET Collectors]
  BY DEF RecordFailures, TypeOK, Places
<1>2. state' \in [Collectors -> State]
  <2>1. ASSUME NEW c \in Collectors PROVE Failed(state[c], c \in Crossing) \in State
    <3>1. state[c] \in State /\ (c \in Crossing) \in BOOLEAN
      BY DEF TypeOK
    <3> QED BY <3>1, RowTypes
  <2> QED BY <2>1 DEF RecordFailures, TypeOK
<1>3. told' \in [Collectors -> Told]
  BY DEF RecordFailures, TellAll, Tell, Told, TypeOK
<1> QED BY <1>1, <1>2, <1>3 DEF RecordFailures, TypeOK

\* So do a change of identity and a provider that settles down.
LEMMA OutsideTypes ==
  ASSUME TypeOK, ChangeIdentity \/ SettleDown
  PROVE  TypeOK'
<1>1. CASE ChangeIdentity
  <2>1. NoState \in State /\ NoSnapshot \in Snapshot /\ Nothing \in Inventory
    BY DEF NoState, State, NoSnapshot, Snapshot, Nothing, Inventory, FailureCap
  <2>2. generation' \in 1 .. MaxGeneration
    BY <1>1, CollectorsAssumption DEF ChangeIdentity, TypeOK
  <2>3. "nothing" \in Told /\ 0 \in 0 .. 2
    BY DEF Told
  <2> QED BY <1>1, <2>1, <2>2, <2>3 DEF ChangeIdentity, TypeOK
<1>2. CASE SettleDown
  BY <1>2 DEF SettleDown, TypeOK
<1> QED BY <1>1, <1>2

\* The types are kept by every step.
LEMMA NextTypes ==
  ASSUME TypeOK, [Next]_vars
  PROVE  TypeOK'
<1>1. CASE UNCHANGED vars
  BY <1>1 DEF vars, TypeOK
<1> QED BY <1>1, PollTypes, RecordTypes, ApplyTypes, OutsideTypes DEF Next, Step

\* They hold at the start.
LEMMA InitTypes == Init => TypeOK
<1> SUFFICES ASSUME Init PROVE TypeOK
  OBVIOUS
<1>1. PICK old \in [Scoped -> SUBSET (Resources \ Shared)] :
        LET version(c, r) == IF c \in Scoped /\ r \in old[c] THEN 1 ELSE 0
        IN  /\ state = [c \in Collectors |->
                          IF \E r \in Resources : version(c, r) = 1
                          THEN [NoState EXCEPT !.known = TRUE, !.baseline = TRUE] ELSE NoState]
            /\ snapshots = [c \in Collectors |-> [r \in Resources |-> [version |-> version(c, r), missing |-> 0]]]
            /\ view = [c \in Collectors |-> [r \in Resources |-> version(c, r)]]
  BY DEF Init
<1>2. state \in [Collectors -> State]
  <2>1. NoState \in State
    BY DEF NoState, State, FailureCap
  <2>2. ASSUME NEW s \in State PROVE [s EXCEPT !.known = TRUE, !.baseline = TRUE] \in State
    BY DEF State
  <2> QED BY <1>1, <2>1, <2>2
<1>3. snapshots \in [Collectors -> [Resources -> Snapshot]]
  BY <1>1 DEF Snapshot
<1>4. view \in [Collectors -> Inventory] /\ Nothing \in Inventory
  <2>1. \A n \in {0, 1} : n \in 0 .. 2 /\ n # 2
    OBVIOUS
  <2>2. ASSUME NEW f \in [Resources -> {0, 1}] PROVE f \in Inventory
    BY <2>1 DEF Inventory
  <2>3. \A c \in Collectors : view[c] \in [Resources -> {0, 1}]
    BY <1>1
  <2>4. Nothing \in [Resources -> {0, 1}]
    BY DEF Nothing
  <2>5. view = [c \in Collectors |-> view[c]]
    BY <1>1
  <2> QED BY <2>2, <2>3, <2>4, <2>5
<1>5. poll \in [at: Places, gen: 0..MaxGeneration, todo: SUBSET Collectors,
               polled: SUBSET Collectors, answers: [Collectors -> Answer], news: SUBSET Collectors]
  BY CollectorsAssumption DEF Init, Idle, NoAnswer, Nothing, Answer, Kinds, Inventory, Places
<1>6. "nothing" \in Told /\ 0 \in 0 .. 2 /\ 1 \in 1 .. MaxGeneration
  BY CollectorsAssumption DEF Told
<1> QED BY <1>2, <1>3, <1>4, <1>5, <1>6 DEF Init, TypeOK

-----------------------------------------------------------------------------
(* What an answer leaves stored, and what its events say.                   *)

\* A returned resource is stored as returned; a missing one is counted, then
\* removed, unless it is held back; every other row stays.
LEMMA RowAfter ==
  ASSUME TypeOK, NEW c \in Collectors, NEW a \in Answer, NEW r \in Resources
  PROVE  /\ r \in Seen(a) => AfterSnapshots(c, a)[r].version = a.found[r] /\ AfterSnapshots(c, a)[r].missing = 0
         /\ r \notin Seen(a) /\ (r \notin Stored(c) \/ Guarded(c, a)) => AfterSnapshots(c, a)[r] = snapshots[c][r]
         /\ r \in Missing(c, a) /\ ~ Guarded(c, a) /\ snapshots[c][r].missing = 0 =>
              /\ AfterSnapshots(c, a)[r].version = snapshots[c][r].version
              /\ AfterSnapshots(c, a)[r].missing = 1
         /\ r \in Missing(c, a) /\ ~ Guarded(c, a) /\ snapshots[c][r].missing # 0 =>
              AfterSnapshots(c, a)[r].version = 0 /\ AfterSnapshots(c, a)[r].missing = 0
<1>1. snapshots[c][r] \in Snapshot
  BY DEF TypeOK
<1>2. \/ snapshots[c][r].missing = 0 /\ Overlooked(snapshots[c][r]) = [snapshots[c][r] EXCEPT !.missing = @ + 1]
      \/ snapshots[c][r].missing # 0 /\ Overlooked(snapshots[c][r]) = NoSnapshot
  BY <1>1 DEF Overlooked, Snapshot
<1>3. AfterSnapshots(c, a)[r] =
        IF r \in Seen(a) THEN Refreshed(c, r, a.found[r])
        ELSE IF r \in Missing(c, a) /\ ~ Guarded(c, a) THEN Overlooked(snapshots[c][r]) ELSE snapshots[c][r]
  BY DEF AfterSnapshots
<1>4. r \in Missing(c, a) <=> r \in Stored(c) /\ r \notin Seen(a)
  BY DEF Missing
<1> QED BY <1>1, <1>2, <1>3, <1>4 DEF Refreshed, Snapshot, NoSnapshot

\* The resources an answer has events of.
Reported(c, a) == {e.id : e \in Events(c, a)}

\* When an answer has an event of a resource, without the construction of the
\* events.
LEMMA EventsOf ==
  ASSUME NEW c \in Collectors \ Silent, NEW a \in Answer, NEW r \in Resources
  PROVE  r \in Reported(c, a) <=>
           /\ state[c].baseline
           /\ \/ r \in Seen(a) /\ r \notin Stored(c) /\ r \notin Absorbed(c)
              \/ r \in Seen(a) /\ r \in Stored(c) /\ a.found[r] # snapshots[c][r].version
              \/ r \in Stored(c) /\ AfterSnapshots(c, a)[r].version = 0
<1> DEFINE X == ((Seen(a) \ Stored(c)) \ Absorbed(c))
                \cup {q \in Seen(a) \cap Stored(c) : a.found[q] # snapshots[c][q].version}
                \cup {q \in Stored(c) : AfterSnapshots(c, a)[q].version = 0}
<1>1. Events(c, a) = IF ~ state[c].baseline THEN {} ELSE {[id |-> q, version |-> a.found[q]] : q \in X}
  BY DEF Events
<1>2. Reported(c, a) = IF ~ state[c].baseline THEN {} ELSE X
  <2>1. CASE ~ state[c].baseline
    BY <1>1, <2>1 DEF Reported
  <2>2. CASE state[c].baseline
    <3>1. \A q : [id |-> q, version |-> a.found[q]].id = q
      OBVIOUS
    <3>2. Reported(c, a) = {e.id : e \in {[id |-> q, version |-> a.found[q]] : q \in X}}
      BY <1>1, <2>2 DEF Reported
    <3> HIDE DEF X
    <3>3. {e.id : e \in {[id |-> q, version |-> a.found[q]] : q \in X}} = X
      BY <3>1
    <3> QED BY <2>2, <3>2, <3>3
  <2> QED BY <2>1, <2>2
<1> QED BY <1>2

\* After an answer the events again say what is stored.
LEMMA ReplayAfter ==
  ASSUME TypeOK, NEW c \in Collectors \ Silent, NEW a \in Answer,
         state[c].baseline => \A r \in Resources : view[c][r] = snapshots[c][r].version,
         ~ state[c].baseline => \A r \in Resources : snapshots[c][r].version = 0 /\ view[c][r] = 0,
         NEW r \in Resources
  PROVE  Replay(c, a)[r] = AfterSnapshots(c, a)[r].version
<1> DEFINE silently == IF state[c].baseline THEN (Seen(a) \ Stored(c)) \cap Absorbed(c) ELSE Seen(a)
<1>1. Replay(c, a)[r] = IF r \in Reported(c, a) \cup silently THEN a.found[r] ELSE view[c][r]
  BY DEF Replay, Reported
<1>2. state[c].baseline \in BOOLEAN /\ (r \in Stored(c) <=> snapshots[c][r].version # 0)
      /\ (r \in Seen(a) <=> a.found[r] # 0)
  BY DEF TypeOK, State, Stored, Seen
<1>3. view[c][r] = snapshots[c][r].version
  BY <1>2
<1>4. r \notin Seen(a) /\ r \in Stored(c) => AfterSnapshots(c, a)[r].version \in {0, snapshots[c][r].version}
  <2> SUFFICES ASSUME r \notin Seen(a), r \in Stored(c)
               PROVE  AfterSnapshots(c, a)[r].version \in {0, snapshots[c][r].version}
    OBVIOUS
  <2>1. r \in Missing(c, a) /\ snapshots[c][r].missing \in 0 .. 1
    BY DEF Missing, TypeOK, Snapshot
  <2> QED BY <2>1, RowAfter
<1>5. CASE r \in Seen(a)
  <2>1. AfterSnapshots(c, a)[r].version = a.found[r]
    BY <1>5, RowAfter
  <2> QED BY <1>1, <1>2, <1>3, <1>5, <2>1, EventsOf
<1>6. CASE r \notin Seen(a)
  <2>1. a.found[r] = 0 /\ r \notin silently
    BY <1>2, <1>6
  <2>2. CASE r \in Stored(c)
    <3>1. r \in Reported(c, a) <=> state[c].baseline /\ AfterSnapshots(c, a)[r].version = 0
      BY <1>6, <2>2, EventsOf
    <3>2. state[c].baseline
      BY <1>2, <2>2
    <3> HIDE DEF silently
    <3>3. CASE AfterSnapshots(c, a)[r].version = 0
      <4>1. r \in Reported(c, a) \cup silently
        BY <3>1, <3>2, <3>3
      <4> QED BY <1>1, <2>1, <3>3, <4>1
    <3>4. CASE AfterSnapshots(c, a)[r].version # 0
      <4>1. r \notin Reported(c, a) \cup silently
        BY <2>1, <3>1, <3>4
      <4> QED BY <1>1, <1>3, <1>4, <1>6, <2>2, <3>4, <4>1
    <3> QED BY <3>3, <3>4
  <2>3. CASE r \notin Stored(c)
    <3>1. AfterSnapshots(c, a)[r].version = 0
      BY <1>2, <1>6, <2>3, RowAfter
    <3> QED BY <1>1, <1>2, <1>3, <2>1, <2>3, <3>1
  <2> QED BY <2>2, <2>3
<1> QED BY <1>5, <1>6

-----------------------------------------------------------------------------
(* The guard.                                                               *)

\* What is massive is massive with more gone and less left.
LEMMA MassiveGrows ==
  ASSUME NEW gone \in SUBSET Resources, NEW left \in SUBSET Resources, Massive(gone, left),
         NEW g \in SUBSET Resources, NEW l \in SUBSET Resources, gone \subseteq g, l \subseteq left
  PROVE  Massive(g, l)
<1>1. IsFiniteSet(gone) /\ IsFiniteSet(left) /\ IsFiniteSet(g) /\ IsFiniteSet(l)
  BY CollectorsAssumption, FS_Subset DEF CollectorsAssumption
<1>2. Cardinality(gone) <= Cardinality(g) /\ Cardinality(l) <= Cardinality(left)
  BY <1>1, FS_Subset
<1>3. /\ Cardinality(gone) \in Nat /\ Cardinality(left) \in Nat
      /\ Cardinality(g) \in Nat /\ Cardinality(l) \in Nat
  BY <1>1, FS_CardinalityType
<1> QED BY <1>2, <1>3 DEF Massive, MassRemoval

\* Nothing is a mass removal of nothing.
LEMMA MassiveIsSome ==
  ASSUME NEW gone, NEW left, Massive(gone, left)
  PROVE  gone # {}
BY FS_EmptySet DEF Massive, MassRemoval

\* An answer is suspicious if the resources it misses would be a mass removal.
LEMMA SuspiciousIsMassive ==
  ASSUME NEW c \in Collectors, NEW a \in Answer
  PROVE  Suspicious(c, a) <=> Massive(Missing(c, a), Seen(a))
BY DEF Suspicious, Massive

\* Only a stored resource can be missing, so an answer is held back only after
\* a baseline.
LEMMA HeldHasBaseline ==
  ASSUME TypeOK, NothingBeforeBaseline, NEW c \in Collectors, NEW a \in Answer, a.kind = "complete", Guarded(c, a)
  PROVE  state[c].baseline
<1>1. Massive(Missing(c, a), Seen(a))
  BY SuspiciousIsMassive DEF Guarded
<1>2. PICK r \in Missing(c, a) : TRUE
  BY <1>1, MassiveIsSome
<1>3. r \in Resources /\ snapshots[c][r].version # 0
  BY <1>2 DEF Missing, Stored
<1> QED BY <1>3 DEF NothingBeforeBaseline

\* The rows an answer leaves: counted absences stay or are seen again while it
\* is held back, and are otherwise those it counted first.
LEMMA CountedAfter ==
  ASSUME TypeOK, NEW c \in Collectors, NEW a \in Answer, snapshots'[c] = AfterSnapshots(c, a)
  PROVE  /\ Guarded(c, a) => /\ Counted(c)' = Counted(c) \ Seen(a)
                             /\ Stored(c)' = Stored(c) \cup Seen(a)
         /\ ~ Guarded(c, a) => /\ Counted(c)' = {r \in Missing(c, a) : snapshots[c][r].missing = 0}
                               /\ Stored(c)' = Counted(c)' \cup Seen(a)
<1>1. ASSUME NEW r \in Resources
      PROVE  /\ r \in Stored(c)' <=> AfterSnapshots(c, a)[r].version # 0
             /\ r \in Counted(c)' <=> AfterSnapshots(c, a)[r].version # 0 /\ AfterSnapshots(c, a)[r].missing # 0
             /\ r \in Stored(c) <=> snapshots[c][r].version # 0
             /\ r \in Seen(a) <=> a.found[r] # 0
             /\ r \in Missing(c, a) <=> r \in Stored(c) /\ r \notin Seen(a)
             /\ r \in Counted(c) <=> r \in Stored(c) /\ snapshots[c][r].missing # 0
             /\ snapshots[c][r].missing \in 0 .. 1
  BY DEF Stored, Counted, Seen, Missing, TypeOK, Snapshot
<1>2. /\ Stored(c)' \subseteq Resources /\ Counted(c)' \subseteq Resources /\ Stored(c) \subseteq Resources
      /\ Counted(c) \subseteq Resources /\ Seen(a) \subseteq Resources /\ Missing(c, a) \subseteq Resources
  BY DEF Stored, Counted, Seen, Missing
<1>3. ASSUME Guarded(c, a), NEW r \in Resources
      PROVE  /\ r \in Counted(c)' <=> r \in Counted(c) /\ r \notin Seen(a)
             /\ r \in Stored(c)' <=> r \in Stored(c) \/ r \in Seen(a)
  <2>1. CASE r \in Seen(a)
    BY <1>1, <1>3, <2>1, RowAfter
  <2>2. CASE r \notin Seen(a)
    <3>1. AfterSnapshots(c, a)[r] = snapshots[c][r]
      BY <1>3, <2>2, RowAfter
    <3> QED BY <1>1, <2>2, <3>1
  <2> QED BY <2>1, <2>2
<1>4. ASSUME ~ Guarded(c, a), NEW r \in Resources
      PROVE  /\ r \in Counted(c)' <=> r \in Missing(c, a) /\ snapshots[c][r].missing = 0
             /\ r \in Stored(c)' <=> r \in Counted(c)' \/ r \in Seen(a)
  <2>1. CASE r \in Seen(a)
    BY <1>1, <1>4, <2>1, RowAfter
  <2>2. CASE r \in Missing(c, a) /\ snapshots[c][r].missing = 0
    BY <1>1, <1>4, <2>2, RowAfter
  <2>3. CASE r \in Missing(c, a) /\ snapshots[c][r].missing # 0
    BY <1>1, <1>4, <2>3, RowAfter
  <2>4. CASE r \notin Stored(c) /\ r \notin Seen(a)
    <3>1. AfterSnapshots(c, a)[r] = snapshots[c][r]
      BY <2>4, RowAfter
    <3> QED BY <1>1, <2>4, <3>1
  <2> QED BY <1>1, <2>1, <2>2, <2>3, <2>4
<1> QED BY <1>2, <1>3, <1>4

\* A mass removal by an answer that is not held back was held back before.
LEMMA LetThroughWasHeld ==
  ASSUME TypeOK, GuardFirst, NEW c \in Collectors, NEW a \in Answer, a.kind = "complete", ~ Guarded(c, a),
         NEW gone, gone \subseteq Missing(c, a), NEW left \in SUBSET Resources, Seen(a) \subseteq left,
         Massive(gone, left)
  PROVE  Held(c)
<1>1. /\ Missing(c, a) \subseteq Resources /\ Seen(a) \subseteq Resources /\ Stored(c) \subseteq Resources
      /\ Counted(c) \subseteq Resources
  BY DEF Missing, Stored, Seen, Counted
<1>2. Suspicious(c, a)
  BY <1>1, MassiveGrows, SuspiciousIsMassive
<1>3. CASE state[c].error = "guard"
  BY <1>3 DEF GuardFirst
<1>4. CASE ConfirmedMissing(c, a)
  <2>1. Missing(c, a) \subseteq Counted(c)
    <3>1. ASSUME NEW r \in Missing(c, a) PROVE r \in Counted(c)
      <4>1. r \in Stored(c) /\ snapshots[c][r].missing > 0
        BY <1>4 DEF ConfirmedMissing, Missing
      <4> QED BY <4>1 DEF Counted
    <3> QED BY <3>1
  <2>2. Stored(c) \ Counted(c) \subseteq Seen(a)
    BY <2>1 DEF Missing
  <2>3. Massive(Counted(c), Stored(c) \ Counted(c))
    <3>1. gone \in SUBSET Resources /\ gone \subseteq Counted(c) /\ Stored(c) \ Counted(c) \subseteq left
          /\ Stored(c) \ Counted(c) \in SUBSET Resources
      BY <1>1, <2>1, <2>2
    <3> QED BY <1>1, <3>1, MassiveGrows
  <2> QED BY <2>3 DEF GuardFirst
<1> QED BY <1>2, <1>3, <1>4 DEF Guarded

\* What the batch makes of the marks of the guard.
LEMMA MarksAfter ==
  ASSUME TypeOK, Apply, NEW c \in Collectors
  PROVE  /\ c \notin Applied => waited'[c] = waited[c] /\ (c \in mark' <=> c \in mark)
         /\ c \in Applied /\ poll.answers[c].kind = "partial" => waited'[c] = waited[c] /\ (c \in mark' <=> c \in mark)
         /\ Complete(c, TRUE) => /\ waited'[c] > 0
                                 /\ c \in mark' <=> c \in mark \/ (state[c].baseline /\ state[c].error # "guard")
         /\ Complete(c, FALSE) /\ Pending(c, poll.answers[c]) =>
              waited'[c] = waited[c] /\ (c \in mark' <=> c \in mark)
<1>1. waited[c] \in 0 .. 2 /\ mark \subseteq Collectors
  BY DEF TypeOK
<1>2. ~ (Complete(c, TRUE) /\ Complete(c, FALSE))
  BY DEF Complete
<1>3. waited'[c] = IF Complete(c, TRUE) THEN IF waited[c] < 2 THEN waited[c] + 1 ELSE 2
                   ELSE IF Resolved(c) THEN 0 ELSE waited[c]
  BY DEF Apply
<1>4. c \in mark' <=> \/ c \in mark /\ ~ Resolved(c)
                      \/ Complete(c, TRUE) /\ state[c].baseline /\ state[c].error # "guard"
  <2>1. mark' = (mark \ {d \in mark : Resolved(d)}) \cup
                 {d \in Applied : Complete(d, TRUE) /\ state[d].baseline /\ state[d].error # "guard"}
    BY DEF Apply
  <2>2. Complete(c, TRUE) => c \in Applied
    BY DEF Complete
  <2> QED BY <2>1, <2>2
<1>5. Resolved(c) <=> Complete(c, FALSE) /\ ~ Pending(c, poll.answers[c])
  BY DEF Resolved
<1>6. /\ c \notin Applied => ~ Complete(c, TRUE) /\ ~ Complete(c, FALSE)
      /\ poll.answers[c].kind = "partial" => ~ Complete(c, TRUE) /\ ~ Complete(c, FALSE)
  BY DEF Complete
<1>7. ASSUME Complete(c, TRUE) PROVE waited'[c] > 0
  BY <1>1, <1>3, <1>7
<1> QED BY <1>2, <1>3, <1>4, <1>5, <1>6, <1>7

\* What an answer leaves of the state.
LEMMA StateAfter ==
  ASSUME TypeOK, NEW c \in Collectors, NEW a \in Answer
  PROVE  /\ AfterState(c, a).error = "guard" =>
              \/ a.kind = "failed" /\ state[c].error = "guard"
              \/ a.kind = "complete" /\ Guarded(c, a)
         /\ state[c].baseline => AfterState(c, a).baseline
         /\ AfterState(c, a).baseline =>
              state[c].baseline \/ a.kind = "partial" \/ (a.kind = "complete" /\ ~ Guarded(c, a))
         /\ a.kind = "partial" \/ (a.kind = "complete" /\ ~ Guarded(c, a)) => AfterState(c, a).baseline
<1>1. state[c] \in State /\ a.kind \in Kinds
  BY DEF TypeOK, Answer
<1>2. CASE a.kind = "failed"
  BY <1>2 DEF AfterState
<1>3. CASE a.kind = "unsupported"
  <2>1. AfterState(c, a) = Demoted(state[c])
    BY <1>3 DEF AfterState
  <2>2. Demoted(state[c]).error \in {"confirm", "other"} /\ Demoted(state[c]).baseline = state[c].baseline
    BY <1>1 DEF Demoted, State
  <2> QED BY <1>3, <2>1, <2>2
<1>4. CASE a.kind = "partial"
  <2>1. AfterState(c, a).error = "other" /\ AfterState(c, a).baseline
    BY <1>1, <1>4 DEF AfterState, PartlyAnswered, State
  <2> QED BY <1>4, <2>1
<1>5. CASE a.kind = "complete" /\ Guarded(c, a)
  <2>1. AfterState(c, a) = HeldBack(state[c])
    BY <1>5 DEF AfterState
  <2>2. HeldBack(state[c]).baseline = state[c].baseline
    BY <1>1 DEF HeldBack, State
  <2> QED BY <1>5, <2>1, <2>2
<1>6. CASE a.kind = "complete" /\ ~ Guarded(c, a)
  <2>1. AfterState(c, a) = Succeeded(state[c])
    BY <1>6 DEF AfterState
  <2>2. Succeeded(state[c]).error = "" /\ Succeeded(state[c]).baseline
    BY <1>1 DEF Succeeded, State
  <2> QED BY <1>6, <2>1, <2>2
<1> QED BY <1>1, <1>2, <1>3, <1>4, <1>5, <1>6 DEF Kinds

\* A collector whose answer the batch applies, or not.
LEMMA AnswerApplied ==
  ASSUME TypeOK, Apply, NEW c \in Collectors
  PROVE  /\ poll.answers[c] \in Answer
         /\ c \in Applied => /\ snapshots'[c] = AfterSnapshots(c, poll.answers[c])
                             /\ view'[c] = Replay(c, poll.answers[c])
                             /\ state'[c] = AfterState(c, poll.answers[c])
                             /\ \/ poll.answers[c].kind = "partial" /\ Guarded(c, poll.answers[c])
                                \/ Complete(c, TRUE) \/ Complete(c, FALSE)
         /\ c \notin Applied =>
              /\ snapshots'[c] = snapshots[c] /\ view'[c] = view[c]
              /\ state'[c] = state[c] \/ (state'[c] = AfterState(c, poll.answers[c])
                                          /\ poll.answers[c].kind \in {"failed", "unsupported"})
<1>1. poll.answers[c] \in Answer /\ poll.answers[c].kind \in Kinds
  BY DEF TypeOK, Answer
<1>2. state'[c] = IF c \in poll.polled THEN AfterState(c, poll.answers[c]) ELSE state[c]
  BY DEF Apply
<1>3. c \in Applied <=> c \in poll.polled /\ poll.answers[c].kind \in {"complete", "partial"}
  BY DEF Applied
<1>4. Guarded(c, poll.answers[c]) \in BOOLEAN /\ (poll.answers[c].kind = "partial" => Guarded(c, poll.answers[c]))
  BY DEF Guarded
<1>5. c \in Applied /\ poll.answers[c].kind = "complete" => Complete(c, TRUE) \/ Complete(c, FALSE)
  BY <1>4 DEF Complete
<1> QED BY <1>1, <1>2, <1>3, <1>4, <1>5, Applying DEF Kinds

\* A collector that gets its first snapshots in a poll has its baseline from
\* then on.
LEMMA ApplyBaseline ==
  ASSUME TypeOK, NothingBeforeBaseline, Apply
  PROVE  NothingBeforeBaseline'
<1> SUFFICES ASSUME NEW c \in Collectors, ~ state'[c].baseline
             PROVE  \A r \in Resources : snapshots'[c][r].version = 0 /\ view'[c][r] = 0
  BY DEF NothingBeforeBaseline
<1> DEFINE a == poll.answers[c]
<1>1. a \in Answer
  BY AnswerApplied
<1>2. CASE c \in Applied
  <2>1. state'[c] = AfterState(c, a) /\ (a.kind = "partial" \/ Complete(c, TRUE) \/ Complete(c, FALSE))
    BY <1>2, AnswerApplied
  <2>2. a.kind = "complete" /\ Guarded(c, a)
    BY <1>1, <2>1, StateAfter DEF Complete
  <2>3. state[c].baseline
    BY <1>1, <2>2, HeldHasBaseline
  <2>4. AfterState(c, a).baseline
    BY <1>1, <2>3, StateAfter
  <2> QED BY <2>1, <2>4
<1>3. CASE c \notin Applied
  <2>1. ~ state[c].baseline
    BY <1>1, <1>3, AnswerApplied, StateAfter
  <2>2. snapshots'[c] = snapshots[c] /\ view'[c] = view[c]
    BY <1>3, AnswerApplied
  <2> QED BY <2>1, <2>2 DEF NothingBeforeBaseline
<1> QED BY <1>2, <1>3

\* What an applied answer stores is what its events say.
LEMMA ApplyExplained ==
  ASSUME TypeOK, NothingBeforeBaseline, EventsExplainSnapshots, Apply
  PROVE  EventsExplainSnapshots'
<1> SUFFICES ASSUME NEW c \in Collectors \ Silent, state'[c].baseline, NEW r \in Resources
             PROVE  view'[c][r] = snapshots'[c][r].version
  BY DEF EventsExplainSnapshots
<1> DEFINE a == poll.answers[c]
<1>1. a \in Answer
  BY AnswerApplied
<1>2. CASE c \in Applied
  <2>1. /\ state[c].baseline => \A q \in Resources : view[c][q] = snapshots[c][q].version
        /\ ~ state[c].baseline => \A q \in Resources : snapshots[c][q].version = 0 /\ view[c][q] = 0
    BY DEF NothingBeforeBaseline, EventsExplainSnapshots
  <2>2. Replay(c, a)[r] = AfterSnapshots(c, a)[r].version
    BY <1>1, <2>1, ReplayAfter
  <2> QED BY <1>2, <2>2, AnswerApplied
<1>3. CASE c \notin Applied
  <2>1. snapshots'[c] = snapshots[c] /\ view'[c] = view[c]
    BY <1>3, AnswerApplied
  <2> QED BY <2>1 DEF NothingBeforeBaseline, EventsExplainSnapshots
<1> QED BY <1>2, <1>3

\* A resource counted as missing is one the provider did not list.
LEMMA ApplyCounted ==
  ASSUME TypeOK, CountedIsAbsent, Apply
  PROVE  CountedIsAbsent'
<1> SUFFICES ASSUME NEW c \in Collectors, NEW r \in Counted(c)'
             PROVE  r \in absent'[c]
  BY DEF CountedIsAbsent, Counted
<1> DEFINE a == poll.answers[c]
<1>1. a \in Answer
  BY AnswerApplied
<1>2. absent'[c] = IF Complete(c, TRUE) \/ Complete(c, FALSE)
                   THEN {q \in Missing(c, a) : AfterSnapshots(c, a)[q].version # 0}
                   ELSE IF c \in Applied THEN absent[c] \ Seen(a) ELSE absent[c]
  BY DEF Apply
<1>3. Counted(c) \subseteq absent[c] /\ Counted(c) \subseteq Stored(c)
  BY DEF CountedIsAbsent, Counted
<1>4. CASE c \in Applied
  <2>1. snapshots'[c] = AfterSnapshots(c, a)
    BY <1>4, AnswerApplied
  <2>2. AfterSnapshots(c, a)[r].version # 0
    BY <2>1 DEF Counted, Stored
  <2>3. CASE Guarded(c, a)
    <3>1. r \in Counted(c) \ Seen(a)
      BY <1>1, <2>1, <2>3, CountedAfter
    <3>2. r \in Missing(c, a)
      BY <1>3, <3>1 DEF Missing
    <3> QED BY <1>2, <1>3, <1>4, <2>2, <3>1, <3>2
  <2>4. CASE ~ Guarded(c, a)
    <3>1. r \in Missing(c, a)
      BY <1>1, <2>1, <2>4, CountedAfter
    <3>2. Complete(c, TRUE) \/ Complete(c, FALSE)
      BY <1>4, <2>4, AnswerApplied
    <3> QED BY <1>2, <2>2, <3>1, <3>2
  <2> QED BY <2>3, <2>4
<1>5. CASE c \notin Applied
  <2>1. snapshots'[c] = snapshots[c]
    BY <1>5, AnswerApplied
  <2>2. r \in Counted(c)
    BY <2>1 DEF Counted, Stored
  <2>3. ~ Complete(c, TRUE) /\ ~ Complete(c, FALSE)
    BY <1>5 DEF Complete
  <2> QED BY <1>2, <1>3, <1>5, <2>2, <2>3
<1> QED BY <1>4, <1>5

\* A poll that counts a massive absence holds the collector back.
LEMMA ApplyGuard ==
  ASSUME TypeOK, NothingBeforeBaseline, GuardFirst, Apply
  PROVE  GuardFirst'
<1> SUFFICES ASSUME NEW c \in Collectors
             PROVE  /\ state'[c].error = "guard" => Held(c)'
                    /\ Massive(Counted(c)', Stored(c)' \ Counted(c)') => Held(c)'
  BY DEF GuardFirst, Massive
<1> DEFINE a == poll.answers[c]
<1>1. a \in Answer
  BY AnswerApplied
<1>2. /\ Stored(c)' \subseteq Resources /\ Counted(c)' \subseteq Resources /\ Stored(c) \subseteq Resources
      /\ Counted(c) \subseteq Resources /\ Seen(a) \subseteq Resources /\ Missing(c, a) \subseteq Resources
  BY DEF Stored, Counted, Seen, Missing
<1>3. ASSUME Held(c), waited'[c] = waited[c], c \in mark' <=> c \in mark
      PROVE  Held(c)'
  BY <1>3 DEF Held
<1>4. CASE c \notin Applied
  <2>1. /\ snapshots'[c] = snapshots[c] /\ waited'[c] = waited[c] /\ (c \in mark' <=> c \in mark)
        /\ state'[c].error = "guard" => state[c].error = "guard"
    <3>1. /\ snapshots'[c] = snapshots[c]
          /\ state'[c] = state[c] \/ (state'[c] = AfterState(c, a) /\ a.kind \in {"failed", "unsupported"})
      BY <1>4, AnswerApplied
    <3>2. waited'[c] = waited[c] /\ (c \in mark' <=> c \in mark)
      BY <1>4, MarksAfter
    <3>3. AfterState(c, a).error = "guard" /\ a.kind \in {"failed", "unsupported"} => state[c].error = "guard"
      BY <1>1, StateAfter
    <3> QED BY <3>1, <3>2, <3>3
  <2>2. Stored(c)' = Stored(c) /\ Counted(c)' = Counted(c)
    BY <2>1 DEF Stored, Counted
  <2> QED BY <1>3, <2>1, <2>2 DEF GuardFirst
<1>5. ASSUME c \in Applied, Guarded(c, a), Massive(Counted(c)', Stored(c)' \ Counted(c)')
      PROVE  Held(c)
  <2>1. Counted(c)' = Counted(c) \ Seen(a) /\ Stored(c)' = Stored(c) \cup Seen(a)
    BY <1>1, <1>5, CountedAfter, AnswerApplied
  <2>2. /\ Counted(c)' \subseteq Counted(c) /\ Stored(c) \ Counted(c) \subseteq Stored(c)' \ Counted(c)'
        /\ Stored(c)' \ Counted(c)' \in SUBSET Resources /\ Stored(c) \ Counted(c) \in SUBSET Resources
    BY <1>2, <2>1
  <2>3. Massive(Counted(c), Stored(c) \ Counted(c))
    BY <1>2, <1>5, <2>2, MassiveGrows
  <2> QED BY <2>3 DEF GuardFirst
<1>6. CASE c \in Applied /\ a.kind = "partial" /\ Guarded(c, a)
  <2>1. state'[c].error # "guard"
    <3>1. state'[c] = AfterState(c, a)
      BY <1>6, AnswerApplied
    <3>2. AfterState(c, a).error = "guard" => a.kind \in {"failed", "complete"}
      BY <1>1, StateAfter
    <3> QED BY <1>6, <3>1, <3>2
  <2> QED BY <1>3, <1>5, <1>6, <2>1, MarksAfter
<1>7. CASE Complete(c, TRUE)
  <2>1. c \in Applied /\ a.kind = "complete" /\ Guarded(c, a)
    BY <1>7 DEF Complete
  <2>2. state[c].baseline
    BY <1>1, <2>1, HeldHasBaseline
  <2>3. state[c].error = "guard" => c \in mark
    BY DEF GuardFirst, Held
  <2> QED BY <1>7, <2>2, <2>3, MarksAfter DEF Held
<1>8. CASE Complete(c, FALSE)
  <2>1. c \in Applied /\ a.kind = "complete" /\ ~ Guarded(c, a)
    BY <1>8 DEF Complete
  <2>2. state'[c].error # "guard"
    <3>1. state'[c] = AfterState(c, a)
      BY <2>1, AnswerApplied
    <3>2. AfterState(c, a).error = "guard" /\ a.kind = "complete" => Guarded(c, a)
      BY <1>1, StateAfter
    <3> QED BY <2>1, <3>1, <3>2
  <2>3. ASSUME Massive(Counted(c)', Stored(c)' \ Counted(c)')
        PROVE  Held(c)'
    <3>1. /\ Counted(c)' = {r \in Missing(c, a) : snapshots[c][r].missing = 0}
          /\ Stored(c)' = Counted(c)' \cup Seen(a)
      BY <1>1, <2>1, CountedAfter, AnswerApplied
    <3>2. Counted(c)' # {} /\ Counted(c)' \subseteq Missing(c, a)
      BY <2>3, <3>1, MassiveIsSome
    <3>3. Stored(c)' \ Counted(c)' = Seen(a)
      BY <3>1 DEF Missing
    <3>4. Massive(Counted(c)', Seen(a))
      BY <2>3, <3>3
    <3>5. Held(c)
      BY <1>1, <1>2, <2>1, <3>2, <3>4, LetThroughWasHeld
    <3>6. Pending(c, a)
      BY <3>1, <3>2 DEF Pending
    <3> QED BY <1>3, <1>8, <3>5, <3>6, MarksAfter
  <2> QED BY <2>2, <2>3
<1> QED BY <1>4, <1>6, <1>7, <1>8, AnswerApplied

-----------------------------------------------------------------------------
(* The other steps.                                                         *)

\* A step that stores nothing, and writes at most health into the state.
LEMMA DataKept ==
  ASSUME TypeOK, Data, UNCHANGED <<snapshots, view, absent, waited, mark>>,
         \A c \in Collectors : /\ state'[c].baseline = state[c].baseline
                               /\ state'[c].error = "guard" => state[c].error = "guard"
  PROVE  Data'
<1>1. \A c : Stored(c)' = Stored(c) /\ Counted(c)' = Counted(c) /\ Held(c)' = Held(c)
  BY DEF Stored, Counted, Held
<1>2. NothingBeforeBaseline' /\ EventsExplainSnapshots'
  BY DEF Data, NothingBeforeBaseline, EventsExplainSnapshots
<1>3. CountedIsAbsent'
  BY <1>1 DEF Data, CountedIsAbsent
<1>4. GuardFirst'
  BY <1>1 DEF Data, GuardFirst, Massive
<1> QED BY <1>2, <1>3, <1>4 DEF Data

\* A new identity starts from nothing.
LEMMA IdentityData ==
  ASSUME TypeOK, ChangeIdentity
  PROVE  Data'
<1>1. \A c \in Collectors : /\ \A r \in Resources : snapshots'[c][r] = NoSnapshot /\ view'[c][r] = 0
                            /\ state'[c] = NoState
  BY DEF ChangeIdentity, Nothing
<1>2. \A c \in Collectors : Stored(c)' = {} /\ Counted(c)' = {}
  BY <1>1 DEF Stored, Counted, NoSnapshot
<1>3. NothingBeforeBaseline' /\ EventsExplainSnapshots'
  BY <1>1 DEF NothingBeforeBaseline, EventsExplainSnapshots, NoSnapshot
<1>4. CountedIsAbsent'
  BY <1>2 DEF CountedIsAbsent
<1>5. GuardFirst'
  <2> SUFFICES ASSUME NEW c \in Collectors
               PROVE  state'[c].error # "guard" /\ ~ Massive(Counted(c)', Stored(c)' \ Counted(c)')
    BY DEF GuardFirst, Massive
  <2>1. Counted(c)' = {}
    BY <1>2
  <2>2. state'[c].error = ""
    <3>1. state'[c] = NoState
      BY <1>1
    <3>2. NoState.error = ""
      BY DEF NoState
    <3> QED BY <3>1, <3>2
  <2> QED BY <2>1, <2>2, MassiveIsSome
<1> QED BY <1>3, <1>4, <1>5 DEF Data

\* The data invariant is kept by every step.
LEMMA NextData ==
  ASSUME TypeOK, Data, [Next]_vars
  PROVE  Data'
<1>1. ASSUME UNCHANGED <<snapshots, view, absent, waited, mark, state>> PROVE Data'
  BY <1>1, DataKept
<1>2. CASE UNCHANGED vars
  BY <1>1, <1>2 DEF vars
<1>3. CASE (\E S \in SUBSET Collectors : Start(S)) \/ (\E c \in Collectors : Collect(c)) \/ ApplyFails
           \/ NotifyRecovered \/ NotifyUnhealthy \/ Crash \/ SettleDown
  BY <1>1, <1>3 DEF Start, Collect, ApplyFails, NotifyRecovered, NotifyUnhealthy, Crash, SettleDown
<1>4. CASE Schedule \/ RecordFailures
  <2>1. ASSUME NEW c \in Collectors
        PROVE  state'[c].baseline = state[c].baseline /\ (state'[c].error = "guard" => state[c].error = "guard")
    <3>1. state[c] \in State
      BY DEF TypeOK
    <3>2. \/ state'[c] = state[c] \/ state'[c] = [state[c] EXCEPT !.known = TRUE]
          \/ \E x \in BOOLEAN : state'[c] = Failed(state[c], x)
      <4>1. CASE Schedule
        BY <4>1 DEF Schedule
      <4>2. CASE RecordFailures
        <5>1. (c \in Crossing) \in BOOLEAN
          OBVIOUS
        <5> QED BY <4>2, <5>1 DEF RecordFailures
      <4> QED BY <1>4, <4>1, <4>2
    <3> QED BY <3>1, <3>2 DEF State, Failed
  <2>2. UNCHANGED <<snapshots, view, absent, waited, mark>>
    BY <1>4 DEF Schedule, RecordFailures
  <2> QED BY <2>1, <2>2, DataKept
<1>5. CASE Apply
  BY <1>5, ApplyBaseline, ApplyExplained, ApplyCounted, ApplyGuard DEF Data
<1> QED BY <1>2, <1>3, <1>4, <1>5, IdentityData DEF Next, Step

\* It holds at the start.
LEMMA InitData == Init => Data
<1> SUFFICES ASSUME Init PROVE Data
  OBVIOUS
<1>1. ASSUME NEW c \in Collectors
      PROVE  /\ state[c].error # "guard"
             /\ \A r \in Resources : view[c][r] = snapshots[c][r].version /\ snapshots[c][r].missing = 0
             /\ ~ state[c].baseline => \A r \in Resources : snapshots[c][r].version = 0
  <2>1. PICK old \in [Scoped -> SUBSET (Resources \ Shared)] :
          LET version(d, r) == IF d \in Scoped /\ r \in old[d] THEN 1 ELSE 0
          IN  /\ state = [d \in Collectors |->
                            IF \E r \in Resources : version(d, r) = 1
                            THEN [NoState EXCEPT !.known = TRUE, !.baseline = TRUE] ELSE NoState]
              /\ snapshots = [d \in Collectors |-> [r \in Resources |-> [version |-> version(d, r), missing |-> 0]]]
              /\ view = [d \in Collectors |-> [r \in Resources |-> version(d, r)]]
    BY DEF Init
  <2>2. state[c].error = "" /\ (~ state[c].baseline => \A r \in Resources : ~ (c \in Scoped /\ r \in old[c]))
    BY <2>1 DEF NoState
  <2>3. ASSUME NEW r \in Resources
        PROVE  /\ snapshots[c][r].version = (IF c \in Scoped /\ r \in old[c] THEN 1 ELSE 0)
               /\ snapshots[c][r].missing = 0
               /\ view[c][r] = IF c \in Scoped /\ r \in old[c] THEN 1 ELSE 0
    <3>1. snapshots[c][r] = [version |-> IF c \in Scoped /\ r \in old[c] THEN 1 ELSE 0, missing |-> 0]
      BY <2>1
    <3>2. view[c][r] = IF c \in Scoped /\ r \in old[c] THEN 1 ELSE 0
      BY <2>1
    <3> QED BY <3>1, <3>2
  <2> QED BY <2>2, <2>3
<1>2. \A c \in Collectors : Counted(c) = {}
  BY <1>1 DEF Counted, Stored
<1>3. GuardFirst
  BY <1>1, <1>2, MassiveIsSome DEF GuardFirst
<1>4. CountedIsAbsent /\ NothingBeforeBaseline /\ EventsExplainSnapshots
  BY <1>1 DEF CountedIsAbsent, NothingBeforeBaseline, EventsExplainSnapshots, Stored
<1> QED BY <1>3, <1>4 DEF Data

-----------------------------------------------------------------------------
(* The notices.                                                             *)

\* Before the batch is applied and after the poll, nothing is owed.
LEMMA NothingOwed ==
  ASSUME ~ Current \/ poll.at \notin {"recovered", "unhealthy"}, NEW c
  PROVE  ~ Owes(c) /\ ~ OwesNews(c)
BY DEF Owes, OwesNews

\* A step that tells nothing and leaves the flags, between places where nothing
\* is owed.
LEMMA FlagsKept ==
  ASSUME TypeOK, Flags, ~ Current \/ poll.at \notin {"recovered", "unhealthy"},
         poll'.at \notin {"recovered", "unhealthy"}, PollInStep', PollIsNoLater', FlagWasSeen', told' = told,
         \A c \in Collectors : state'[c].notified = state[c].notified
  PROVE  Flags'
<1>1. \A c : ~ Owes(c)' /\ ~ OwesNews(c)'
  BY DEF Owes, OwesNews
<1>2. FlagWasTold'
  BY <1>1, NothingOwed DEF Flags, FlagWasTold
<1> QED BY <1>2 DEF Flags, NoticesAlternate

\* A starting poll owes nothing and has told nothing.
LEMMA StartFlags ==
  ASSUME TypeOK, Flags, NEW S \in SUBSET Collectors, Start(S)
  PROVE  Flags'
<1>1. poll'.at = "collect" /\ poll'.todo = S /\ poll'.polled = S /\ poll'.gen = generation /\ poll.at = "idle"
  BY DEF Start, Idle
<1>2. PollInStep' /\ PollIsNoLater' /\ FlagWasSeen'
  BY <1>1 DEF Start, PollInStep, PollIsNoLater, FlagWasSeen, TypeOK
<1> QED BY <1>1, <1>2, FlagsKept DEF Start

\* An answer remembers the flag it found, or the notice is lost to it.
LEMMA CollectFlags ==
  ASSUME TypeOK, Flags, NEW c \in Collectors, Collect(c)
  PROVE  Flags'
<1>1. PICK a \in Answers(c) :
        /\ \/ a.wasUnhealthy = (Current /\ state[c].notified) /\ told' = told
           \/ Current /\ state[c].notified /\ ~ a.wasUnhealthy /\ told' = LoseNotice({c})
        /\ poll' = [poll EXCEPT !.answers[c] = a, !.todo = @ \ {c}, !.at = IF poll.todo = {c} THEN "failures" ELSE @]
  BY DEF Collect
<1>2. poll.at = "collect" /\ c \in poll.todo /\ state' = state /\ generation' = generation
  BY DEF Collect
<1>3. /\ poll'.gen = poll.gen /\ poll'.polled = poll.polled /\ poll'.todo = poll.todo \ {c}
      /\ poll'.at = (IF poll.todo = {c} THEN "failures" ELSE "collect")
      /\ poll'.answers = [poll.answers EXCEPT ![c] = a]
  BY <1>1, <1>2 DEF TypeOK
<1>4. poll.answers \in [Collectors -> Answer] /\ told \in [Collectors -> Told] /\ state[c].notified \in BOOLEAN
  BY DEF TypeOK, State
<1>5. PollInStep' /\ PollIsNoLater' /\ (Current' <=> Current)
  BY <1>2, <1>3 DEF Flags, PollInStep, PollIsNoLater, Current
<1>6. /\ \A d \in Collectors \ {c} : told'[d] = told[d]
      /\ told'[c] = told[c] \/ (told'[c] = "unknown" /\ state[c].notified)
  BY <1>1, <1>4 DEF LoseNotice
<1>7. FlagWasSeen'
  <2> SUFFICES ASSUME Current, NEW d \in poll'.polled \ poll'.todo, poll'.answers[d].kind = "complete"
               PROVE  /\ poll'.answers[d].wasUnhealthy => state'[d].notified
                      /\ ~ poll'.answers[d].wasUnhealthy /\ state'[d].notified => told'[d] = "unknown"
    BY <1>5 DEF FlagWasSeen
  <2>1. d \in Collectors
    BY <1>3 DEF TypeOK
  <2>2. CASE d = c
    <3>1. poll'.answers[d] = a
      BY <1>3, <1>4, <2>2
    <3> QED BY <1>1, <1>2, <1>4, <2>2, <3>1 DEF LoseNotice
  <2>3. CASE d # c
    <3>1. poll'.answers[d] = poll.answers[d] /\ d \in poll.polled \ poll.todo /\ told'[d] = told[d]
      BY <1>3, <1>4, <1>6, <2>1, <2>3
    <3> QED BY <1>2, <3>1 DEF Flags, FlagWasSeen, Before
  <2> QED BY <2>2, <2>3
<1>8. FlagWasTold'
  <2>1. \A d : ~ Owes(d)' /\ ~ OwesNews(d)' /\ ~ Owes(d) /\ ~ OwesNews(d)
    BY <1>2, <1>3 DEF Owes, OwesNews
  <2>2. ASSUME NEW d \in Collectors
        PROVE  /\ told'[d] = "unhealthy" => state'[d].notified
               /\ state'[d].notified => told'[d] \in {"unhealthy", "unknown"}
    BY <1>2, <1>6, <2>1 DEF Flags, FlagWasTold
  <2> QED BY <2>1, <2>2 DEF FlagWasTold
<1>9. NoticesAlternate'
  BY <1>6 DEF Flags, NoticesAlternate
<1> QED BY <1>5, <1>7, <1>8, <1>9 DEF Flags

\* A failure that crosses the threshold is told with the flag it sets.
LEMMA RecordFlags ==
  ASSUME TypeOK, Flags, RecordFailures
  PROVE  Flags'
<1>1. /\ poll.at = "failures" /\ poll'.at = "apply" /\ poll'.todo = poll.todo /\ poll'.polled = poll.polled
      /\ poll'.answers = poll.answers /\ poll'.gen = poll.gen /\ generation' = generation
  BY DEF RecordFailures, TypeOK
<1>2. PollInStep' /\ PollIsNoLater' /\ (Current' <=> Current)
  BY <1>1 DEF Flags, PollInStep, PollIsNoLater, Current
<1>3. \A c : ~ Owes(c)' /\ ~ OwesNews(c)' /\ ~ Owes(c) /\ ~ OwesNews(c)
  BY <1>1 DEF Owes, OwesNews
<1>4. ASSUME NEW c \in Collectors
      PROVE  \/ state'[c].notified = state[c].notified /\ told'[c] = told[c]
             \/ c \in Failing /\ ~ state[c].notified /\ state'[c].notified /\ told'[c] = "unhealthy"
  <2>0. state[c] \in State
    BY DEF TypeOK
  <2>1. CASE state' = state /\ told' = told
    BY <2>1
  <2>2. CASE c \in Crossing /\ state'[c] = Failed(state[c], TRUE) /\ told'[c] = Tell(c, "unhealthy")
    <3>1. c \in Failing /\ ~ state[c].notified
      BY <2>2 DEF Crossing
    <3>2. told[c] # "unhealthy"
      BY <1>3, <3>1 DEF Flags, FlagWasTold
    <3>3. told'[c] = "unhealthy"
      BY <2>2, <3>2 DEF Tell
    <3>4. Failed(state[c], TRUE).notified
      BY <2>0 DEF Failed, State
    <3> QED BY <2>2, <3>1, <3>3, <3>4
  <2>3. CASE c \notin Crossing /\ (state'[c] = state[c] \/ state'[c] = Failed(state[c], FALSE)) /\ told'[c] = told[c]
    <3>1. Failed(state[c], FALSE).notified = state[c].notified
      BY <2>0 DEF Failed, State
    <3> QED BY <2>3, <3>1
  <2>4. ASSUME state' = [d \in Collectors |-> IF d \in Failing THEN Failed(state[d], d \in Crossing) ELSE state[d]],
               told' = TellAll(Crossing, "unhealthy")
        PROVE  \/ c \in Crossing /\ state'[c] = Failed(state[c], TRUE) /\ told'[c] = Tell(c, "unhealthy")
               \/ c \notin Crossing /\ (state'[c] = state[c] \/ state'[c] = Failed(state[c], FALSE)) /\ told'[c] = told[c]
    <3>1. told'[c] = IF c \in Crossing THEN Tell(c, "unhealthy") ELSE told[c]
      BY <2>4 DEF TellAll
    <3>2. state'[c] = IF c \in Failing THEN Failed(state[c], c \in Crossing) ELSE state[c]
      BY <2>4
    <3>3. c \in Crossing => c \in Failing
      BY DEF Crossing
    <3>4. CASE c \in Crossing
      <4>1. (c \in Crossing) = TRUE
        BY <3>4
      <4> QED BY <3>1, <3>2, <3>3, <3>4, <4>1
    <3>5. CASE c \notin Crossing
      <4>1. (c \in Crossing) = FALSE
        BY <3>5
      <4> QED BY <3>1, <3>2, <3>5, <4>1
    <3> QED BY <3>4, <3>5
  <2> QED BY <2>1, <2>2, <2>3, <2>4 DEF RecordFailures
<1>5. FlagWasTold'
  BY <1>3, <1>4 DEF Flags, FlagWasTold
<1>6. FlagWasSeen'
  <2> SUFFICES ASSUME Current, NEW c \in poll.polled \ poll.todo, poll.answers[c].kind = "complete"
               PROVE  /\ poll.answers[c].wasUnhealthy => state'[c].notified
                      /\ ~ poll.answers[c].wasUnhealthy /\ state'[c].notified => told'[c] = "unknown"
    BY <1>1, <1>2 DEF FlagWasSeen
  <2>1. c \in Collectors /\ c \notin Failing
    BY DEF TypeOK, Failing
  <2>2. state'[c].notified = state[c].notified /\ told'[c] = told[c]
    BY <1>4, <2>1
  <2> QED BY <1>1, <2>2 DEF Flags, FlagWasSeen, Before
<1>7. NoticesAlternate'
  BY <1>4 DEF Flags, NoticesAlternate
<1> QED BY <1>2, <1>5, <1>6, <1>7 DEF Flags

\* A poll whose reconciliation fails owes nothing that was not lost.
LEMMA ApplyFailsFlags ==
  ASSUME TypeOK, Flags, ApplyFails
  PROVE  Flags'
<1>1. poll.at = "apply" /\ poll'.at = "schedule" /\ poll'.todo = poll.todo /\ poll'.gen = poll.gen
  BY DEF ApplyFails, TypeOK
<1>2. PollInStep' /\ PollIsNoLater' /\ FlagWasSeen'
  BY <1>1 DEF Flags, ApplyFails, PollInStep, PollIsNoLater, FlagWasSeen, Before
<1> QED BY <1>1, <1>2, FlagsKept DEF ApplyFails

\* The last step of a poll changes no flag.
LEMMA ScheduleFlags ==
  ASSUME TypeOK, Flags, Schedule
  PROVE  Flags'
<1>1. poll.at = "schedule" /\ poll'.at = "idle" /\ poll'.todo = {} /\ poll'.gen = 0 /\ generation' = generation
  BY DEF Schedule, Idle
<1>2. PollInStep' /\ PollIsNoLater' /\ FlagWasSeen'
  BY <1>1 DEF PollInStep, PollIsNoLater, FlagWasSeen, Before, TypeOK
<1>3. \A c \in Collectors : state'[c].notified = state[c].notified
  <2>1. ASSUME NEW s \in State PROVE [s EXCEPT !.known = TRUE].notified = s.notified
    BY DEF State
  <2>2. \A c \in Collectors : state'[c] = state[c] \/ state'[c] = [state[c] EXCEPT !.known = TRUE]
    BY DEF Schedule, TypeOK
  <2>3. \A c \in Collectors : state[c] \in State
    BY DEF TypeOK
  <2> QED BY <2>1, <2>2, <2>3
<1> QED BY <1>1, <1>2, <1>3, FlagsKept DEF Schedule

\* The flag a batch leaves: an answer with nothing held back clears it, a
\* second unsupported answer raises it.
LEMMA NotifiedAfter ==
  ASSUME TypeOK, NEW c \in Collectors, NEW a \in Answer
  PROVE  /\ a.kind = "complete" => ~ AfterState(c, a).notified
         /\ a.kind \in {"failed", "partial"} => AfterState(c, a).notified = state[c].notified
         /\ a.kind = "unsupported" => (AfterState(c, a).notified <=> state[c].notified \/ Confirmed(state[c]))
<1>1. state[c] \in State /\ a.kind \in Kinds
  BY DEF TypeOK, Answer
<1>2. /\ ~ Succeeded(state[c]).notified /\ ~ HeldBack(state[c]).notified
      /\ PartlyAnswered(state[c]).notified = state[c].notified
  BY <1>1 DEF Succeeded, HeldBack, PartlyAnswered, State
<1>3. Demoted(state[c]).notified <=> state[c].notified \/ Confirmed(state[c])
  BY <1>1 DEF Demoted, Confirmed, Unconfirmed, State
<1> QED BY <1>1, <1>2, <1>3 DEF AfterState

\* A recovery that is applied clears the flag it will tell of.
LEMMA ApplyFlags ==
  ASSUME TypeOK, Flags, Apply
  PROVE  Flags'
<1>1. /\ poll.at = "apply" /\ poll'.at = "recovered" /\ poll'.todo = poll.todo /\ poll'.polled = poll.polled
      /\ poll'.answers = poll.answers /\ poll'.gen = poll.gen /\ generation' = generation /\ Current
      /\ poll'.news = {c \in poll.polled : /\ poll.answers[c].kind = "unsupported"
                                           /\ Confirmed(state[c]) /\ ~ state[c].notified}
      /\ told' = told
  BY DEF Apply, TypeOK
<1>2. PollInStep' /\ PollIsNoLater' /\ Current' /\ FlagWasSeen' /\ NoticesAlternate'
  BY <1>1 DEF Flags, PollInStep, PollIsNoLater, Current, FlagWasSeen, Before, NoticesAlternate
<1>3. poll.todo = {}
  BY <1>1 DEF Flags, PollInStep
<1>4. ASSUME NEW c \in Collectors
      PROVE  /\ ~ Owes(c) /\ ~ OwesNews(c)
             /\ Owes(c)' <=> c \in poll.polled /\ poll.answers[c].kind = "complete" /\ poll.answers[c].wasUnhealthy
             /\ OwesNews(c)' <=> /\ c \in poll.polled /\ poll.answers[c].kind = "unsupported"
                                 /\ Confirmed(state[c]) /\ ~ state[c].notified
  BY <1>1, <1>2 DEF Owes, OwesNews, Recovered
<1>5. ASSUME NEW c \in Collectors
      PROVE  /\ told[c] = "unhealthy" => state'[c].notified \/ Owes(c)'
             /\ state'[c].notified => told[c] \in {"unhealthy", "unknown"} \/ OwesNews(c)'
             /\ Owes(c)' => told[c] \in {"unhealthy", "unknown"} /\ ~ state'[c].notified
             /\ OwesNews(c)' => told[c] # "unhealthy" /\ state'[c].notified
  <2>1. told[c] = "unhealthy" => state[c].notified
    BY <1>4 DEF Flags, FlagWasTold
  <2>2. state[c].notified => told[c] \in {"unhealthy", "unknown"}
    BY <1>4 DEF Flags, FlagWasTold
  <2>3. state'[c] = IF c \in poll.polled THEN AfterState(c, poll.answers[c]) ELSE state[c]
    BY DEF Apply
  <2>4. poll.answers[c] \in Answer /\ poll.answers[c].kind \in Kinds
    BY DEF TypeOK, Answer
  <2>5. CASE c \notin poll.polled
    BY <1>4, <2>1, <2>2, <2>3, <2>5
  <2>6. CASE c \in poll.polled /\ poll.answers[c].kind = "complete"
    <3>1. ~ state'[c].notified
      BY <2>3, <2>4, <2>6, NotifiedAfter
    <3>2. /\ poll.answers[c].wasUnhealthy => state[c].notified
          /\ ~ poll.answers[c].wasUnhealthy /\ state[c].notified => told[c] = "unknown"
      BY <1>1, <1>3, <2>6 DEF Flags, FlagWasSeen, Before
    <3> QED BY <1>4, <2>1, <2>2, <2>6, <3>1, <3>2
  <2>7. CASE c \in poll.polled /\ poll.answers[c].kind \in {"failed", "partial"}
    <3>1. state'[c].notified = state[c].notified
      BY <2>3, <2>4, <2>7, NotifiedAfter
    <3> QED BY <1>4, <2>1, <2>2, <2>7, <3>1
  <2>8. CASE c \in poll.polled /\ poll.answers[c].kind = "unsupported"
    <3>1. state'[c].notified <=> state[c].notified \/ Confirmed(state[c])
      BY <2>3, <2>4, <2>8, NotifiedAfter
    <3> QED BY <1>4, <2>1, <2>2, <2>8, <3>1
  <2> QED BY <2>4, <2>5, <2>6, <2>7, <2>8 DEF Kinds
<1>6. FlagWasTold'
  BY <1>1, <1>5 DEF FlagWasTold
<1> QED BY <1>2, <1>6 DEF Flags

\* What a notice step tells: the notice, or nothing anyone can know.
LEMMA Notified ==
  ASSUME TypeOK, NEW S \in SUBSET Collectors, NEW n \in {"recovered", "unhealthy"}, Notify(S, n), NEW c \in Collectors
  PROVE  /\ ~ Current \/ c \notin S => told'[c] = told[c]
         /\ Current /\ c \in S => told'[c] \in {Tell(c, n), "unknown"}
<1>1. told' = (IF Current THEN TellAll(S, n) ELSE told) \/ told' = (IF Current THEN LoseNotice(S) ELSE told)
  BY DEF Notify
<1>2. /\ TellAll(S, n)[c] = (IF c \in S THEN Tell(c, n) ELSE told[c])
      /\ LoseNotice(S)[c] = (IF c \in S THEN "unknown" ELSE told[c])
  BY DEF TellAll, LoseNotice
<1> QED BY <1>1, <1>2

\* The recoveries are told, or lost, once.
LEMMA NotifyRecoveredFlags ==
  ASSUME TypeOK, Flags, NotifyRecovered
  PROVE  Flags'
<1>1. /\ poll.at = "recovered" /\ poll'.at = "unhealthy" /\ poll'.todo = poll.todo /\ poll'.gen = poll.gen
      /\ poll'.news = poll.news /\ generation' = generation /\ state' = state
  BY DEF NotifyRecovered, TypeOK
<1>2. PollInStep' /\ PollIsNoLater' /\ (Current' <=> Current) /\ FlagWasSeen'
  BY <1>1 DEF Flags, PollInStep, PollIsNoLater, Current, FlagWasSeen, Before
<1>3. ASSUME NEW c \in Collectors
      PROVE  ~ Owes(c)' /\ (OwesNews(c)' <=> OwesNews(c)) /\ (Owes(c) <=> Current /\ c \in Recovered)
  BY <1>1, <1>2 DEF Owes, OwesNews
<1>4. ASSUME NEW c \in Collectors
      PROVE  \/ ~ Owes(c) /\ told'[c] = told[c]
             \/ Owes(c) /\ told'[c] \in {"recovered", "unknown"}
  <2>1. Recovered \in SUBSET Collectors
    BY DEF Recovered, TypeOK
  <2>2. CASE Owes(c)
    <3>1. told[c] \in {"unhealthy", "unknown"}
      BY <2>2 DEF Flags, FlagWasTold
    <3>2. Tell(c, "recovered") = "recovered"
      BY <3>1 DEF Tell
    <3>3. told'[c] \in {Tell(c, "recovered"), "unknown"}
      BY <1>3, <2>1, <2>2, Notified DEF NotifyRecovered
    <3> QED BY <2>2, <3>2, <3>3
  <2>3. CASE ~ Owes(c)
    BY <1>3, <2>1, <2>3, Notified DEF NotifyRecovered
  <2> QED BY <2>2, <2>3
<1>5. FlagWasTold'
  BY <1>1, <1>3, <1>4 DEF Flags, FlagWasTold
<1>6. NoticesAlternate'
  BY <1>4 DEF Flags, NoticesAlternate
<1> QED BY <1>2, <1>5, <1>6 DEF Flags

\* The unsupported answers that set a flag are told, or lost, once.
LEMMA NotifyUnhealthyFlags ==
  ASSUME TypeOK, Flags, NotifyUnhealthy
  PROVE  Flags'
<1>1. /\ poll.at = "unhealthy" /\ poll'.at = "schedule" /\ poll'.todo = poll.todo /\ poll'.gen = poll.gen
      /\ generation' = generation /\ state' = state
  BY DEF NotifyUnhealthy, TypeOK
<1>2. PollInStep' /\ PollIsNoLater' /\ (Current' <=> Current) /\ FlagWasSeen'
  BY <1>1 DEF Flags, PollInStep, PollIsNoLater, Current, FlagWasSeen, Before
<1>3. ASSUME NEW c \in Collectors
      PROVE  ~ Owes(c)' /\ ~ OwesNews(c)' /\ ~ Owes(c) /\ (OwesNews(c) <=> Current /\ c \in poll.news)
  BY <1>1 DEF Owes, OwesNews
<1>4. ASSUME NEW c \in Collectors
      PROVE  \/ ~ OwesNews(c) /\ told'[c] = told[c]
             \/ OwesNews(c) /\ told'[c] \in {"unhealthy", "unknown"}
  <2>1. poll.news \in SUBSET Collectors
    BY DEF TypeOK
  <2>2. CASE OwesNews(c)
    <3>1. told[c] # "unhealthy"
      BY <2>2 DEF Flags, FlagWasTold
    <3>2. Tell(c, "unhealthy") = "unhealthy"
      BY <3>1 DEF Tell
    <3>3. told'[c] \in {Tell(c, "unhealthy"), "unknown"}
      BY <1>3, <2>1, <2>2, Notified DEF NotifyUnhealthy
    <3> QED BY <2>2, <3>2, <3>3
  <2>3. CASE ~ OwesNews(c)
    BY <1>3, <2>1, <2>3, Notified DEF NotifyUnhealthy
  <2> QED BY <2>2, <2>3
<1>5. FlagWasTold'
  BY <1>1, <1>3, <1>4 DEF Flags, FlagWasTold
<1>6. NoticesAlternate'
  BY <1>4 DEF Flags, NoticesAlternate
<1> QED BY <1>2, <1>5, <1>6 DEF Flags

\* A crash loses the notices that were owed.
LEMMA CrashFlags ==
  ASSUME TypeOK, Flags, Crash
  PROVE  Flags'
<1>1. poll' = Idle /\ state' = state /\ generation' = generation
  BY DEF Crash
<1>2. poll'.at = "idle" /\ poll'.todo = {} /\ poll'.gen = 0
  BY <1>1 DEF Idle
<1>3. PollInStep' /\ PollIsNoLater' /\ FlagWasSeen'
  BY <1>1, <1>2 DEF PollInStep, PollIsNoLater, FlagWasSeen, Before, TypeOK
<1>4. \A c : ~ Owes(c)' /\ ~ OwesNews(c)'
  BY <1>2 DEF Owes, OwesNews
<1>5. ASSUME NEW c \in Collectors
      PROVE  told'[c] = "unknown" \/ (told'[c] = told[c] /\ ~ Owes(c) /\ ~ OwesNews(c))
  <2>1. \A S : LoseNotice(S)[c] = IF c \in S THEN "unknown" ELSE told[c]
    BY DEF LoseNotice
  <2>2. CASE poll.at = "recovered" /\ Current
    <3>1. told' = LoseNotice(Recovered \cup poll.news)
      BY <2>2 DEF Crash
    <3> QED BY <2>1, <3>1 DEF Owes, OwesNews
  <2>3. CASE poll.at = "unhealthy" /\ Current
    <3>1. told' = LoseNotice(poll.news)
      BY <2>3 DEF Crash
    <3> QED BY <2>1, <2>3, <3>1 DEF Owes, OwesNews
  <2>4. CASE ~ (poll.at = "recovered" /\ Current) /\ ~ (poll.at = "unhealthy" /\ Current)
    <3>1. told' = told
      BY <2>4 DEF Crash
    <3> QED BY <2>4, <3>1 DEF Owes, OwesNews
  <2> QED BY <2>2, <2>3, <2>4
<1>6. FlagWasTold'
  BY <1>1, <1>4, <1>5 DEF Flags, FlagWasTold
<1>7. NoticesAlternate'
  BY <1>5 DEF Flags, NoticesAlternate
<1> QED BY <1>3, <1>6, <1>7 DEF Flags

\* A change of identity clears every flag.
LEMMA OutsideFlags ==
  ASSUME TypeOK, Flags, ChangeIdentity \/ SettleDown
  PROVE  Flags'
<1>1. CASE ChangeIdentity
  <2>1. poll' = poll /\ generation' = generation + 1 /\ generation \in Int
    BY <1>1 DEF ChangeIdentity, TypeOK
  <2>2. ~ Current' /\ PollInStep' /\ PollIsNoLater'
    BY <2>1 DEF Flags, PollInStep, PollIsNoLater, Current, TypeOK
  <2>3. \A c \in Collectors : told'[c] = "nothing" /\ ~ state'[c].notified
    BY <1>1 DEF ChangeIdentity, NoState
  <2>4. FlagWasTold' /\ FlagWasSeen' /\ NoticesAlternate'
    BY <2>2, <2>3 DEF FlagWasTold, FlagWasSeen, NoticesAlternate, Owes, OwesNews
  <2> QED BY <2>2, <2>4 DEF Flags
<1>2. CASE SettleDown
  <2>1. UNCHANGED <<poll, generation, state, told>> /\ \A c : (Owes(c)' <=> Owes(c)) /\ (OwesNews(c)' <=> OwesNews(c))
    BY <1>2 DEF SettleDown, Owes, OwesNews, Current, Recovered
  <2> QED BY <2>1 DEF Flags, PollInStep, PollIsNoLater, FlagWasTold, FlagWasSeen, NoticesAlternate, Current
<1> QED BY <1>1, <1>2

\* The flag invariant is kept by every step.
LEMMA NextFlags ==
  ASSUME TypeOK, Flags, [Next]_vars
  PROVE  Flags'
<1>1. CASE UNCHANGED vars
  <2>1. UNCHANGED <<poll, generation, state, told>> /\ \A c : (Owes(c)' <=> Owes(c)) /\ (OwesNews(c)' <=> OwesNews(c))
    BY <1>1 DEF vars, Owes, OwesNews, Current, Recovered
  <2> QED BY <2>1 DEF Flags, PollInStep, PollIsNoLater, FlagWasTold, FlagWasSeen, NoticesAlternate, Current
<1> QED BY <1>1, StartFlags, CollectFlags, RecordFlags, ApplyFailsFlags, ApplyFlags, NotifyRecoveredFlags,
           NotifyUnhealthyFlags, ScheduleFlags, CrashFlags, OutsideFlags DEF Next, Step

\* It holds at the start.
LEMMA InitFlags == Init => Flags
<1> SUFFICES ASSUME Init PROVE Flags
  OBVIOUS
<1>1. poll = Idle /\ generation = 1 /\ \A c \in Collectors : told[c] = "nothing"
  BY DEF Init
<1>2. poll.at = "idle" /\ poll.gen = 0 /\ poll.todo = {}
  BY <1>1 DEF Idle
<1>3. \A c \in Collectors : ~ state[c].notified
  <2>1. \A c \in Collectors : state[c] \in {NoState, [NoState EXCEPT !.known = TRUE, !.baseline = TRUE]}
    BY DEF Init
  <2>2. ~ NoState.notified /\ ~ [NoState EXCEPT !.known = TRUE, !.baseline = TRUE].notified
    BY DEF NoState
  <2> QED BY <2>1, <2>2
<1> QED BY <1>1, <1>2, <1>3
     DEF Flags, PollInStep, PollIsNoLater, FlagWasTold, FlagWasSeen, NoticesAlternate, Owes, OwesNews, Before

-----------------------------------------------------------------------------
(* The theorems.                                                            *)

\* The inductive invariant holds in every reachable state.
LEMMA Invariance == Spec => []CInv
<1>1. Init => CInv
  BY InitTypes, InitData, InitFlags DEF CInv
<1>2. CInv /\ [Next]_vars => CInv'
  BY NextTypes, NextData, NextFlags DEF CInv
<1> QED BY <1>1, <1>2, PTL DEF Spec

\* Every collector's state, stored rows, answers and notices are of their
\* types, whatever fails, answers or crashes.
THEOREM TypeCorrect == Spec => []TypeOK
<1>1. CInv => TypeOK
  BY DEF CInv
<1> QED BY <1>1, Invariance, PTL

\* What the recorded events say is what is stored, for any inventories, guarded
\* answers, demotions, partial polls and absorbed upgrades.
THEOREM EventsExplain == Spec => []EventsExplainSnapshots
<1>1. CInv => EventsExplainSnapshots
  BY DEF CInv, Data
<1> QED BY <1>1, Invariance, PTL

\* Unhealthy and recovered notices alternate, whatever fails between the flag
\* and its notice.
THEOREM HealthNoticesAlternate == Spec => []NoticesAlternate
<1>1. CInv => NoticesAlternate
  BY DEF CInv, Flags
<1> QED BY <1>1, Invariance, PTL

\* Only the batch and a new identity take a stored resource away.
LEMMA OnlyApplyRemoves ==
  ASSUME [Next]_vars, generation' = generation, TypeOK
  PROVE  Apply \/ UNCHANGED snapshots
<1>1. ~ ChangeIdentity
  BY DEF ChangeIdentity, TypeOK
<1> QED BY <1>1 DEF Next, Step, vars, Start, Collect, RecordFailures, ApplyFails, NotifyRecovered, NotifyUnhealthy,
                    Schedule, Crash, SettleDown

\* What the batch removes: resources the answer misses and has counted.
LEMMA Removed ==
  ASSUME TypeOK, Apply, NEW c \in Collectors, NEW r \in Stored(c), snapshots'[c][r].version = 0
  PROVE  /\ poll.answers[c] \in Answer /\ poll.answers[c].kind = "complete" /\ ~ Guarded(c, poll.answers[c])
         /\ snapshots'[c] = AfterSnapshots(c, poll.answers[c])
         /\ r \in Missing(c, poll.answers[c]) /\ r \in Counted(c)
<1> DEFINE a == poll.answers[c]
<1>1. r \in Resources /\ snapshots[c][r].version # 0
  BY DEF Stored
<1>2. c \in Applied
  BY <1>1, AnswerApplied
<1>3. a \in Answer /\ snapshots'[c] = AfterSnapshots(c, a)
      /\ ((a.kind = "partial" /\ Guarded(c, a)) \/ Complete(c, TRUE) \/ Complete(c, FALSE))
  BY <1>2, AnswerApplied
<1>4. r \notin Seen(a)
  <2>1. ASSUME r \in Seen(a) PROVE FALSE
    <3>1. a.found[r] # 0
      BY <2>1 DEF Seen
    <3> QED BY <1>1, <1>3, <2>1, <3>1, RowAfter
  <2> QED BY <2>1
<1>5. r \in Missing(c, a)
  BY <1>4 DEF Missing
<1>6. ~ Guarded(c, a)
  BY <1>1, <1>3, <1>4, RowAfter
<1>7. snapshots[c][r].missing # 0
  BY <1>1, <1>3, <1>5, <1>6, RowAfter
<1> QED BY <1>3, <1>5, <1>6, <1>7 DEF Complete, Counted

\* A resource is removed only by the second of two complete answers in a row
\* that omit it.
THEOREM RemovalsTakeTwo == Spec => RemovedWasAbsentTwice
<1>1. CInv /\ [Next]_vars =>
        \A c \in Collectors : generation' = generation =>
          \A r \in Stored(c) : snapshots'[c][r].version = 0 => r \in absent[c]
  <2> SUFFICES ASSUME TypeOK, Data, [Next]_vars, NEW c \in Collectors, generation' = generation,
                      NEW r \in Stored(c), snapshots'[c][r].version = 0
               PROVE  r \in absent[c]
    BY DEF CInv
  <2>1. Apply
    BY OnlyApplyRemoves DEF Stored
  <2>2. r \in Counted(c)
    BY <2>1, Removed
  <2> QED BY <2>2 DEF Data, CountedIsAbsent, Counted
<1> QED BY <1>1, Invariance, PTL DEF Spec, RemovedWasAbsentTwice

\* Most of a collector's resources never go at once unless the guard has held
\* them back in one response at least, and its mark is still there.
THEOREM MassRemovalsAreGuarded == Spec => MassRemovalWasGuarded
<1>1. CInv /\ [Next]_vars =>
        \A c \in Collectors :
          generation' = generation /\ MassRemovalOf(c) => waited[c] > 0 /\ c \in mark
  <2> SUFFICES ASSUME TypeOK, Data, [Next]_vars, NEW c \in Collectors, generation' = generation,
                      Massive({r \in Stored(c) : snapshots'[c][r].version = 0},
                              {r \in Resources : snapshots'[c][r].version # 0})
               PROVE  Held(c)
    BY DEF CInv, Massive, Held, MassRemovalOf
  <2> DEFINE gone == {r \in Stored(c) : snapshots'[c][r].version = 0}
             left == {r \in Resources : snapshots'[c][r].version # 0}
             a == poll.answers[c]
  <2>1. PICK r \in gone : TRUE
    BY MassiveIsSome
  <2>2. Apply
    BY <2>1, OnlyApplyRemoves DEF Stored
  <2>3. /\ a \in Answer /\ a.kind = "complete" /\ ~ Guarded(c, a) /\ snapshots'[c] = AfterSnapshots(c, a)
        /\ gone \subseteq Missing(c, a)
    BY <2>1, <2>2, Removed
  <2>4. Seen(a) \subseteq left
    <3>1. ASSUME NEW q \in Seen(a) PROVE q \in left
      <4>1. q \in Resources /\ a.found[q] # 0
        BY DEF Seen
      <4> QED BY <2>3, <3>1, <4>1, RowAfter
    <3> QED BY <3>1
  <2>5. left \in SUBSET Resources /\ Massive(gone, left)
    OBVIOUS
  <2> HIDE DEF gone, left, a
  <2> QED BY <2>3, <2>4, <2>5, LetThroughWasHeld DEF Data
<1> QED BY <1>1, Invariance, PTL DEF Spec, MassRemovalWasGuarded
=============================================================================
