---------------------------- MODULE ClientProofs ----------------------------
(***************************************************************************)
(* What the Tailscale client keeps, for any number of workers, devices,    *)
(* pages, attempts and budgets and any groups of collectors: no rejected   *)
(* token is sent again, an answer reported whole is the whole list, a      *)
(* refusal is named, the byte budget is kept, and the stalest device is    *)
(* read first.                                                             *)
(*                                                                         *)
(* The invariant has one part per piece of the client: the typing, the     *)
(* token cache, what the poll has read and reported, and the fan-out.      *)
(***************************************************************************)
EXTENDS Client, FiniteSetTheorems, SequenceTheorems, TLAPS

-----------------------------------------------------------------------------
(* Types. *)

Kinds == {"devices", "device_details", "dns", "log_streaming"}

Underway(g) ==
  /\ g.at \notin {"none", "failed"}
  /\ g \in [at : {"token", "fetching", "sent", "waiting"}, attempt : Nat, used : Nat, rejected : Nat,
            error : Results, deadline : {g.deadline}, wake : {g.wake}]
Over(g) == g \in [at : {"failed"}, error : Results \ {"none"}, cut : BOOLEAN]
Request(g) == \/ g = NoGet
              \/ /\ Underway(g) /\ g.attempt < Attempts
                 /\ g.at = "waiting" => g.error # "none" /\ g.attempt + 1 < Attempts
              \/ Over(g)

Mains ==
  {Idle} \cup [at : {"next", "fan"}, todo : SUBSET Kinds]
  \cup [at : {"page"}, todo : SUBSET Kinds, page : Nat \ {0}, items : Seq(Devices), bytes : Nat]
  \cup [at : {"dns", "log_streaming"}, todo : SUBSET Kinds, step : 0 .. 4, read : Nat, forbidden : Nat]

Fans == [list : Seq(Devices), order : Seq(Devices), stopped : BOOLEAN, bytes : Nat, over : BOOLEAN,
         found : SUBSET Devices, completed : SUBSET Devices, error : Results]

NoLast == [collector |-> "none", kind |-> "none"]
Lasts == {NoLast} \cup [collector : Kinds, kind : {"complete", "unsupported", "partial", "failed"},
                        error : Results, found : SUBSET Devices, read : Nat]
Histories == [polls : Nat, faults : Nat, expiries : Nat, answered : SUBSET Devices, refused : BOOLEAN,
              over : BOOLEAN, bytes : Nat, read : Nat, last : Lasts]

Jobs == [detail : {1, 2}, device : Devices]

\* The variables of one caller, and those of the poll.
Calls ==
  /\ clock \in 0 .. PollTime
  /\ token \in [id : Nat, usable : BOOLEAN]
  /\ upstream \in [issued : Nat, accepted : SUBSET Nat, listing : Listings]
  /\ get = [c \in Callers |-> get[c]] /\ \A c \in Callers : Request(get[c])
Reports ==
  /\ job \in [Workers -> {NoJob} \cup Jobs]
  /\ main \in Mains
  /\ fan \in Fans
  /\ cache \in [known : BOOLEAN, list : Seq(Devices), poll : Nat]
  /\ attempted \in [poll : Nat, of : [Devices -> Nat]]
  /\ history \in Histories
Typed == Calls /\ Reports

-----------------------------------------------------------------------------
(* The invariant. *)

\* The cache never holds a token as old as one an attempt was refused with.
Tokens ==
  /\ token.usable => token.id \in 1 .. upstream.issued
  /\ \A c \in Callers : Underway(get[c]) =>
       /\ get[c].rejected <= upstream.issued /\ get[c].used <= upstream.issued
       /\ token.usable => token.id > get[c].rejected
       /\ get[c].at = "sent" => get[c].used > get[c].rejected

\* A worker asks only for its device, and only while the fan-out runs.
Employed ==
  /\ \A w \in Workers : get[w] # NoGet => job[w] # NoJob
  /\ \A w \in Workers : job[w] # NoJob => main.at = "fan"

\* Each collector asked for is reported once, in its turn.
InTurn ==
  /\ main.at = "idle" => history.last = NoLast /\ ~ history.refused
  /\ main.at # "idle" => history.last.collector \notin main.todo
  /\ main.at \notin {"idle", "next"} => main.todo # {}
  /\ main.at = "page" => Collector \in {"devices", "device_details"}
  /\ main.at = "fan" => Collector = "device_details"
  /\ main.at \in {"dns", "log_streaming"} => Collector = main.at
  /\ main.at \notin {"idle", "fan"} /\ "device_details" \in main.todo => ~ history.refused

\* What is read of the device list is the list of this poll.
ListRead ==
  /\ main.at # "idle" /\ cache.known => cache.list = upstream.listing
  /\ main.at = "page" =>
       /\ main.page = 1 \/ (main.page - 1) * PageSize < Len(upstream.listing)
       /\ main.items = SubSeq(upstream.listing, 1, (main.page - 1) * PageSize)
  /\ main.at = "fan" => fan.list = upstream.listing /\ fan.found \subseteq ToSet(fan.list)

\* What the objects of a collector answered so far.
ObjectsRead ==
  /\ main.at = "dns" => main.read = history.read /\ (main.step = 0 => history.read = 0)
  /\ main.at = "log_streaming" =>
       /\ main.step \in 0 .. 3 /\ main.forbidden \in 0 .. 1
       /\ main.step < 2 => main.forbidden = 0
       /\ main.step = 0 \/ main.forbidden = 1 => history.read = 0 \/ main.step = 3

\* What the fan-out has taken, and why it stopped.
Account ==
  /\ fan.bytes <= MaxBytes /\ history.bytes <= MaxBytes
  /\ main.at = "fan" =>
       /\ history.bytes = fan.bytes
       /\ fan.over => history.over
       /\ history.refused => AccountWide(fan.error)

\* What is left to hand out is sorted, and what counts was answered.
Ordered(s) == \A i, j \in 1 .. Len(s) : i < j => Staleness(s[i]) <= Staleness(s[j])
Fair ==
  main.at = "fan" =>
    /\ Ordered(fan.order)
    /\ fan.completed \subseteq history.answered \cup Nameless
    /\ \A w \in Workers : Over(get[w]) /\ get[w].cut => FanEnded

\* No device is handed out twice.
Unshared ==
  main.at = "fan" =>
    /\ \A i, j \in 1 .. Len(fan.order) : i # j => fan.order[i] # fan.order[j]
    /\ ToSet(fan.order) \subseteq ToSet(fan.list) \ fan.completed
    /\ fan.found \subseteq fan.completed
    /\ \A w \in Workers : job[w] # NoJob =>
         /\ job[w].device \in ToSet(fan.list) \ (ToSet(fan.order) \cup fan.completed)
         /\ \A v \in Workers \ {w} : job[v] # NoJob => job[v].device # job[w].device

CInv == /\ Typed /\ Tokens /\ Employed /\ InTurn /\ ListRead /\ ObjectsRead /\ Account /\ Fair /\ Unshared
        /\ ReportedAsRead /\ CauseIsNamed

-----------------------------------------------------------------------------
(* One GET. *)

\* A caller that begins its next attempt, and one that gives up.
LEMMA Woken ==
  ASSUME NEW g, Underway(g), g.attempt + 1 < Attempts, NEW h, h = [g EXCEPT !.at = "token", !.attempt = @ + 1, !.wake = 0, !.error = "none"]
  PROVE  /\ Underway(h) /\ Request(h) /\ h # NoGet /\ ~ Over(h)
         /\ h.at = "token" /\ h.used = g.used /\ h.rejected = g.rejected
<1>1. g.attempt + 1 \in Nat /\ "none" \in Results
  BY DEF Underway, Results
<1>2. /\ h \in [at : {"token"}, attempt : Nat, used : Nat, rejected : Nat, error : Results,
                 deadline : {g.deadline}, wake : {0}]
      /\ h.used = g.used /\ h.rejected = g.rejected /\ h.attempt = g.attempt + 1
      /\ h.deadline = g.deadline /\ h.wake = 0 /\ h.at = "token"
  BY <1>1 DEF Underway
<1>3. Underway(h)
  BY <1>2 DEF Underway
<1>4. Request(h) /\ h # NoGet /\ ~ Over(h)
  BY <1>2, <1>3 DEF Request, Over, NoGet
<1> QED BY <1>2, <1>3, <1>4

\* A request that failed is over.
LEMMA Failing ==
  ASSUME NEW e \in Results \ {"none"}, NEW x \in BOOLEAN, NEW h, h = [at |-> "failed", error |-> e, cut |-> x]
  PROVE  Over(h) /\ Request(h) /\ h # NoGet /\ ~ Underway(h) /\ h.cut = x
BY DEF Underway, Request, Over, NoGet

\* The counters of the bounds aside, the memory stays.
Recalls ==
  /\ history' \in Histories
  /\ history'.answered = history.answered /\ history'.refused = history.refused
  /\ history'.over = history.over /\ history'.bytes = history.bytes
  /\ history'.read = history.read /\ history'.last = history.last

\* What a step of one GET leaves alone, and what it makes of its caller.
Called(c) ==
  /\ \A d \in Callers \ {c} : get'[d] = get[d]
  /\ get' = [d \in Callers |-> get'[d]]
  /\ get[c] # NoGet /\ get'[c] # NoGet /\ Request(get'[c]) /\ ~ Over(get[c])
  /\ Over(get'[c]) => get'[c].cut = ContextEnded(c)
  /\ token' \in [id : Nat, usable : BOOLEAN]
  /\ upstream' \in [issued : Nat, accepted : SUBSET Nat, listing : Listings]
  /\ upstream'.listing = upstream.listing
  /\ UNCHANGED <<clock, job, main, fan, cache, attempted>>
  /\ Recalls

\* What it makes of the token cache and of the tokens its caller sends.
Retold(c) ==
  /\ upstream'.issued \in {upstream.issued, upstream.issued + 1}
  /\ \/ token' = token
     \/ ~ token'.usable
     \/ token'.id = upstream'.issued /\ upstream'.issued = upstream.issued + 1
  /\ Underway(get'[c]) => Underway(get[c])
  /\ Underway(get'[c]) =>
       \/ get'[c].rejected = get[c].rejected /\ get'[c].used \in {0, get[c].used} /\ get'[c].at # "sent"
       \/ get'[c].rejected = get[c].rejected /\ get'[c].used = token'.id /\ token'.usable
       \/ /\ ~ token'.usable /\ get[c].at = "sent" /\ get'[c].at # "sent"
          /\ get'[c].rejected = get[c].used /\ get'[c].used = 0

\* Only the request of one caller moves.
LEMMA Moved ==
  ASSUME Calls, NEW c \in Callers, NEW g, get' = [get EXCEPT ![c] = g]
  PROVE  /\ get'[c] = g /\ get' = [d \in Callers |-> get'[d]]
         /\ \A d \in Callers \ {c} : get'[d] = get[d]
BY DEF Calls

\* A request that is neither absent nor over is under way, within its attempts.
LEMMA Begun ==
  ASSUME Calls, NEW c \in Callers, get[c].at \in {"token", "fetching", "sent", "waiting"}
  PROVE  /\ Underway(get[c]) /\ get[c].attempt < Attempts /\ get[c] # NoGet /\ ~ Over(get[c])
         /\ get[c].at = "waiting" => get[c].error \in Results \ {"none"} /\ get[c].attempt + 1 < Attempts
<1>1. Request(get[c])
  BY DEF Calls
<1> QED BY <1>1 DEF Request, Over, NoGet, Underway

\* An attempt that fails, and one that may be repeated.
LEMMA Failed ==
  ASSUME Calls, NEW c \in Callers, NEW e \in Results \ {"none"}, get' = Fails(c, e)
  PROVE  /\ Over(get'[c]) /\ Request(get'[c]) /\ get'[c] # NoGet /\ ~ Underway(get'[c])
         /\ get'[c].cut = ContextEnded(c) /\ get' = [d \in Callers |-> get'[d]]
         /\ \A d \in Callers \ {c} : get'[d] = get[d]
<1>1. ContextEnded(c) \in BOOLEAN
  BY DEF ContextEnded
<1> QED BY <1>1, Moved, Failing DEF Fails

\* An attempt that may be repeated waits, or gives up (waitWithinBudget).
LEMMA Repeated ==
  ASSUME Calls, NEW c \in Callers, NEW e \in Results \ {"none"}, NEW delay, Underway(get[c]),
         get[c].attempt < Attempts,
         get' = RetriesWithinBudget(c, delay, e) \/ (Retries(c) /\ get' = Waits(c, delay, e))
  PROVE  /\ get' = [d \in Callers |-> get'[d]] /\ \A d \in Callers \ {c} : get'[d] = get[d]
         /\ Request(get'[c]) /\ get'[c] # NoGet
         /\ Over(get'[c]) => get'[c].cut = ContextEnded(c)
         /\ Underway(get'[c]) => /\ get'[c].rejected = get[c].rejected /\ get'[c].used = 0
                                 /\ get'[c].at # "sent"
<1>1. CASE Retries(c) /\ get' = Waits(c, delay, e)
  <2> DEFINE t == clock + delay
             g == [get[c] EXCEPT !.at = "waiting", !.wake = t, !.error = e, !.used = 0]
  <2>1. get' = [get EXCEPT ![c] = g]
    BY <1>1 DEF Waits
  <2>a. g = [get[c] EXCEPT !.at = "waiting", !.wake = t, !.error = e, !.used = 0]
    OBVIOUS
  <2> HIDE DEF t, g
  <2>2. /\ Request(g) /\ g # NoGet /\ ~ Over(g) /\ g.at = "waiting" /\ g.used = 0
        /\ g.rejected = get[c].rejected
    <3>1. Attempts \in Nat /\ get[c].attempt + 1 < Attempts
      BY <1>1, ClientAssumption DEF Retries, Underway
    <3> QED BY <3>1, <2>a DEF Underway, Request, Over, NoGet
  <2> QED BY <2>1, <2>2, Moved
<1>2. CASE get' = Fails(c, e)
  BY <1>2, Failed
<1> QED BY <1>1, <1>2 DEF RetriesWithinBudget

\* A cached token is taken (accessToken).
LEMMA UseTokenStep ==
  ASSUME Calls, Reports, NEW c \in Callers, UseToken(c)
  PROVE  Called(c) /\ Retold(c)
<1> DEFINE g == [get[c] EXCEPT !.at = "sent", !.used = token.id]
<1>1. Underway(get[c]) /\ get[c].attempt < Attempts /\ get[c] # NoGet /\ ~ Over(get[c])
  BY Begun DEF UseToken
<1>2. get' = [get EXCEPT ![c] = g] /\ token.id \in Nat
  BY DEF UseToken, Calls
<1>c. g = [get[c] EXCEPT !.at = "sent", !.used = token.id]
  OBVIOUS
<1> HIDE DEF g
<1>3. /\ Request(g) /\ g # NoGet /\ ~ Over(g) /\ g.used = token.id /\ g.rejected = get[c].rejected
  BY <1>1, <1>2, <1>c DEF Underway, Request, Over, NoGet
<1>4. get'[c] = g /\ get' = [d \in Callers |-> get'[d]] /\ \A d \in Callers \ {c} : get'[d] = get[d]
  BY <1>2, Moved
<1> QED BY <1>1, <1>3, <1>4 DEF UseToken, Called, Retold, Calls, Reports, Recalls

\* A caller takes the mutex to fetch a token (accessToken).
LEMMA StartFetchStep ==
  ASSUME Calls, Reports, NEW c \in Callers, StartFetch(c)
  PROVE  Called(c) /\ Retold(c)
<1> DEFINE g == [get[c] EXCEPT !.at = "fetching"]
<1>1. Underway(get[c]) /\ get[c].attempt < Attempts /\ get[c] # NoGet /\ ~ Over(get[c])
  BY Begun DEF StartFetch
<1>2. get' = [get EXCEPT ![c] = g]
  BY DEF StartFetch, Calls
<1>3. /\ Request(g) /\ g # NoGet /\ ~ Over(g) /\ g.used = get[c].used /\ g.rejected = get[c].rejected
      /\ g.at = "fetching"
  BY <1>1 DEF Underway, Request, Over, NoGet
<1> HIDE DEF g
<1>4. get'[c] = g /\ get' = [d \in Callers |-> get'[d]] /\ \A d \in Callers \ {c} : get'[d] = get[d]
  BY <1>2, Moved
<1> QED BY <1>1, <1>3, <1>4 DEF StartFetch, Called, Retold, Calls, Reports, Recalls

\* A token newer than any other is fetched (accessToken).
LEMMA FetchedStep ==
  ASSUME Calls, Reports, NEW c \in Callers, Fetched(c)
  PROVE  Called(c) /\ Retold(c)
<1> DEFINE id == upstream.issued + 1
           g == [get[c] EXCEPT !.at = "sent", !.used = id]
<1>1. Underway(get[c]) /\ get[c].attempt < Attempts /\ get[c] # NoGet /\ ~ Over(get[c])
  BY Begun DEF Fetched
<1>2. id \in Nat
  BY DEF Calls
<1>a. get' = [get EXCEPT ![c].at = "sent", ![c].used = id]
  BY DEF Fetched
<1>b. get' = [get EXCEPT ![c] = g]
  BY <1>a DEF Calls
<1>c. g = [get[c] EXCEPT !.at = "sent", !.used = id]
  OBVIOUS
<1> HIDE DEF g
<1>3. /\ Request(g) /\ g # NoGet /\ ~ Over(g) /\ g.used = id /\ g.rejected = get[c].rejected
  BY <1>1, <1>2, <1>c DEF Underway, Request, Over, NoGet
<1>4. get'[c] = g /\ get' = [d \in Callers |-> get'[d]] /\ \A d \in Callers \ {c} : get'[d] = get[d]
  BY <1>b, Moved
<1>5. /\ token' \in [id : Nat, usable : BOOLEAN] /\ token'.id = id /\ token'.usable
      /\ upstream' \in [issued : Nat, accepted : SUBSET Nat, listing : Listings]
      /\ upstream'.listing = upstream.listing /\ upstream'.issued = id
  BY <1>2 DEF Fetched, Calls
<1> QED BY <1>1, <1>3, <1>4, <1>5 DEF Fetched, Called, Retold, Calls, Reports, Recalls

\* A fault of the bound leaves the rest of the memory alone.
LEMMA FaultRecalls ==
  ASSUME history \in Histories, Fault \/ history' = SpendFault \/ UNCHANGED history
  PROVE  Recalls
BY DEF Fault, SpendFault, Histories, Recalls

\* A failure that touches neither the token cache nor the API.
LEMMA FailureStep ==
  ASSUME Calls, Reports, NEW c \in Callers, Underway(get[c]), get[c].attempt < Attempts,
         get[c] # NoGet, ~ Over(get[c]),
         NEW e \in Results \ {"none"}, NEW delay,
         \/ get' = RetriesWithinBudget(c, delay, e)
         \/ Retries(c) /\ get' = Waits(c, delay, e)
         \/ get' = Fails(c, e),
         UNCHANGED <<clock, token, upstream, job, main, fan, cache, attempted>>,
         Fault \/ UNCHANGED history
  PROVE  Called(c) /\ Retold(c)
<1>1. /\ get' = [d \in Callers |-> get'[d]] /\ \A d \in Callers \ {c} : get'[d] = get[d]
      /\ Request(get'[c]) /\ get'[c] # NoGet
      /\ Over(get'[c]) => get'[c].cut = ContextEnded(c)
      /\ Underway(get'[c]) => get'[c].rejected = get[c].rejected /\ get'[c].used = 0 /\ get'[c].at # "sent"
  BY Repeated, Failed
<1>2. Recalls
  BY FaultRecalls DEF Reports
<1> QED BY <1>1, <1>2 DEF Called, Retold, Calls

\* The token endpoint fails (transientTokenDelay).
LEMMA FetchFailsStep ==
  ASSUME Calls, Reports, NEW c \in Callers, FetchFails(c)
  PROVE  Called(c) /\ Retold(c)
<1>1. Underway(get[c]) /\ get[c].attempt < Attempts /\ get[c] # NoGet /\ ~ Over(get[c])
  BY Begun DEF FetchFails
<1>2. UNCHANGED <<clock, token, upstream, job, main, fan, cache, attempted>> /\ (Fault \/ UNCHANGED history)
  BY DEF FetchFails
<1>3. PICK e, delay :
        /\ e \in Results \ {"none"}
        /\ \/ get' = RetriesWithinBudget(c, delay, e)
           \/ Retries(c) /\ get' = Waits(c, delay, e)
           \/ get' = Fails(c, e)
  <2>1. {"refused", "invalid", "network", "limited", "timeout"} \subseteq Results \ {"none"}
    BY DEF Results, Statuses
  <2> QED BY <2>1 DEF FetchFails
<1> QED BY <1>1, <1>2, <1>3, FailureStep

\* A status other than 401 (getBody).
LEMMA RefusedStep ==
  ASSUME Calls, Reports, NEW c \in Callers, Refused(c)
  PROVE  Called(c) /\ Retold(c)
<1>1. Underway(get[c]) /\ get[c].attempt < Attempts /\ get[c] # NoGet /\ ~ Over(get[c])
  BY Begun DEF Refused
<1>2. UNCHANGED <<clock, token, upstream, job, main, fan, cache, attempted>> /\ (Fault \/ UNCHANGED history)
  BY DEF Refused
<1>3. PICK e, delay :
        /\ e \in Results \ {"none"}
        /\ \/ get' = RetriesWithinBudget(c, delay, e)
           \/ Retries(c) /\ get' = Waits(c, delay, e)
           \/ get' = Fails(c, e)
  <2>1. Statuses \subseteq Results \ {"none"}
    BY DEF Results, Statuses
  <2> QED BY <2>1 DEF Refused
<1> QED BY <1>1, <1>2, <1>3, FailureStep

\* A lost response (getBody).
LEMMA LostStep ==
  ASSUME Calls, Reports, NEW c \in Callers, Lost(c)
  PROVE  Called(c) /\ Retold(c)
<1>1. Underway(get[c]) /\ get[c].attempt < Attempts /\ get[c] # NoGet /\ ~ Over(get[c])
  BY Begun DEF Lost
<1>2. UNCHANGED <<clock, token, upstream, job, main, fan, cache, attempted>> /\ (Fault \/ UNCHANGED history)
  BY DEF Lost
<1>3. PICK e, delay :
        /\ e \in Results \ {"none"}
        /\ \/ get' = RetriesWithinBudget(c, delay, e)
           \/ Retries(c) /\ get' = Waits(c, delay, e)
           \/ get' = Fails(c, e)
  <2>1. {"timeout", "network", "invalid"} \subseteq Results \ {"none"}
    BY DEF Results, Statuses
  <2> QED BY <2>1 DEF Lost
<1> QED BY <1>1, <1>2, <1>3, FailureStep

\* A wait cut short (sleep).
LEMMA WaitCutStep ==
  ASSUME Calls, Reports, NEW c \in Callers, WaitCut(c)
  PROVE  Called(c) /\ Retold(c)
<1>1. /\ Underway(get[c]) /\ get[c].attempt < Attempts /\ get[c] # NoGet /\ ~ Over(get[c])
      /\ get[c].error \in Results \ {"none"}
  BY Begun DEF WaitCut
<1>2. UNCHANGED <<clock, token, upstream, job, main, fan, cache, attempted, history>>
  BY DEF WaitCut
<1>3. get' = Fails(c, get[c].error)
  BY DEF WaitCut
<1> QED BY <1>1, <1>2, <1>3, FailureStep

\* A caller that turns to the token anew, after a 401 or a wait.
LEMMA UnauthorizedStep ==
  ASSUME Calls, Reports, NEW c \in Callers, Unauthorized(c)
  PROVE  Called(c) /\ Retold(c)
<1>1. Underway(get[c]) /\ get[c].attempt < Attempts /\ get[c] # NoGet /\ ~ Over(get[c]) /\ get[c].at = "sent"
  BY Begun DEF Unauthorized
<1>2. UNCHANGED <<clock, upstream, job, main, fan, cache, attempted>> /\ (Fault \/ UNCHANGED history)
  BY DEF Unauthorized
<1>3. CASE get[c].attempt # 0
  <2>1. get' = Fails(c, "unauthorized") /\ UNCHANGED token
    BY <1>3 DEF Unauthorized
  <2>2. "unauthorized" \in Results \ {"none"}
    BY DEF Results, Statuses
  <2> QED BY <1>1, <1>2, <2>1, <2>2, FailureStep
<1>4. CASE get[c].attempt = 0
  <2> DEFINE g == [get[c] EXCEPT !.at = "token", !.attempt = 1, !.used = 0, !.rejected = get[c].used]
  <2>1. get' = [get EXCEPT ![c].at = "token", ![c].attempt = 1, ![c].used = 0, ![c].rejected = get[c].used]
    BY <1>4 DEF Unauthorized
  <2>2. get' = [get EXCEPT ![c] = g]
    BY <2>1 DEF Calls
  <2>3. /\ Request(g) /\ g # NoGet /\ ~ Over(g) /\ g.used = 0 /\ g.rejected = get[c].used /\ g.at = "token"
    BY <1>1, <1>4, ClientAssumption DEF Underway, Request, Over, NoGet
  <2> HIDE DEF g
  <2>4. get'[c] = g /\ get' = [d \in Callers |-> get'[d]] /\ \A d \in Callers \ {c} : get'[d] = get[d]
    BY <2>2, Moved
  <2>5. token' = NoToken
    BY <1>4 DEF Unauthorized
  <2>6. Recalls
    BY <1>2, FaultRecalls DEF Reports
  <2> QED BY <1>1, <1>2, <2>3, <2>4, <2>5, <2>6 DEF Called, Retold, Calls, NoToken
<1> QED BY <1>3, <1>4, ClientAssumption

\* A wait that ends (getBody).
LEMMA WakeStep ==
  ASSUME Calls, Reports, NEW c \in Callers, Wake(c)
  PROVE  Called(c) /\ Retold(c)
<1> DEFINE g == [get[c] EXCEPT !.at = "token", !.attempt = get[c].attempt + 1, !.wake = 0, !.error = "none"]
<1>1. Underway(get[c]) /\ get[c].attempt + 1 < Attempts /\ get[c] # NoGet /\ ~ Over(get[c])
  BY Begun DEF Wake
<1>2. get' = [get EXCEPT ![c].at = "token", ![c].attempt = get[c].attempt + 1, ![c].wake = 0, ![c].error = "none"]
  BY DEF Wake
<1>3. get' = [get EXCEPT ![c] = g]
  BY <1>2 DEF Calls
<1>4. g.used = get[c].used /\ g.rejected = get[c].rejected /\ g.at = "token"
  BY <1>1 DEF Underway
<1>5. Request(g) /\ g # NoGet /\ ~ Over(g)
  <2>1. g = [get[c] EXCEPT !.at = "token", !.attempt = @ + 1, !.wake = 0, !.error = "none"]
    OBVIOUS
  <2> HIDE DEF g
  <2> QED BY <1>1, <2>1, Woken
<1> HIDE DEF g
<1>6. get'[c] = g /\ get' = [d \in Callers |-> get'[d]] /\ \A d \in Callers \ {c} : get'[d] = get[d]
  BY <1>3, Moved
<1>7. Recalls
  BY FaultRecalls DEF Wake, Reports
<1> QED BY <1>1, <1>4, <1>5, <1>6, <1>7 DEF Wake, Called, Retold, Calls

\* Every step of a GET.
LEMMA GetStep ==
  ASSUME Calls, Reports, NEW c \in Callers, Get(c)
  PROVE  Called(c) /\ Retold(c)
BY UseTokenStep, StartFetchStep, FetchedStep, FetchFailsStep, UnauthorizedStep, RefusedStep, LostStep,
   WakeStep, WaitCutStep DEF Get

\* A step of a GET keeps the types.
LEMMA CalledTypes ==
  ASSUME Calls, Reports, NEW c \in Callers, Called(c)
  PROVE  Calls' /\ Reports'
<1>1. Calls'
  BY DEF Calls, Called
<1>2. Reports'
  BY DEF Reports, Called, Recalls
<1> QED BY <1>1, <1>2

\* A step of a GET keeps the token cache ahead of every rejected token.
LEMMA RetoldTokens ==
  ASSUME Calls, Tokens, NEW c \in Callers, Called(c), Retold(c)
  PROVE  Tokens'
<1>1. /\ upstream.issued \in Nat /\ upstream'.issued \in {upstream.issued, upstream.issued + 1}
      /\ token.id \in Nat /\ token'.id \in Nat
  BY DEF Calls, Called, Retold
<1>2. token'.usable => token'.id \in 1 .. upstream'.issued
  BY <1>1 DEF Tokens, Retold
<1>3. ASSUME NEW n \in Nat, n <= upstream.issued, token.usable => token.id > n
      PROVE  n <= upstream'.issued /\ (token'.usable => token'.id > n)
  BY <1>1, <1>3 DEF Retold
<1>4. ASSUME NEW d \in Callers \ {c}, Underway(get'[d])
      PROVE  /\ get'[d].rejected <= upstream'.issued /\ get'[d].used <= upstream'.issued
             /\ token'.usable => token'.id > get'[d].rejected
             /\ get'[d].at = "sent" => get'[d].used > get'[d].rejected
  <2>1. get'[d] = get[d]
    BY DEF Called
  <2>2. get[d].rejected \in Nat /\ get[d].used \in Nat
    BY <1>4, <2>1 DEF Underway
  <2> QED BY <1>1, <1>3, <1>4, <2>1, <2>2 DEF Tokens
<1>5. ASSUME Underway(get'[c])
      PROVE  /\ get'[c].rejected <= upstream'.issued /\ get'[c].used <= upstream'.issued
             /\ token'.usable => token'.id > get'[c].rejected
             /\ get'[c].at = "sent" => get'[c].used > get'[c].rejected
  <2>1. Underway(get[c])
    BY <1>5 DEF Retold
  <2>2. get[c].rejected \in Nat /\ get[c].used \in Nat
    BY <2>1 DEF Underway
  <2>3. /\ get[c].rejected <= upstream.issued /\ get[c].used <= upstream.issued
        /\ token.usable => token.id > get[c].rejected
    BY <2>1 DEF Tokens
  <2> QED BY <1>1, <1>2, <1>3, <1>5, <2>1, <2>2, <2>3 DEF Retold
<1> QED BY <1>2, <1>4, <1>5 DEF Tokens

\* A step that leaves the poll where it is keeps what the poll relies on.
Framed ==
  UNCHANGED <<job, main, fan, cache, attempted>> /\ upstream'.listing = upstream.listing /\ Recalls

\* What a step within a GET, or beside the poll, keeps.
LEMMA FramedKeeps ==
  ASSUME CInv, Framed
  PROVE  /\ InTurn' /\ ListRead' /\ ObjectsRead' /\ Account' /\ Unshared' /\ ReportedAsRead' /\ CauseIsNamed'
<1>1. InTurn'
  BY DEF CInv, Framed, Recalls, InTurn, Collector
<1>2. ListRead' /\ Unshared'
  BY DEF CInv, Framed, ListRead, Unshared
<1>3. ObjectsRead' /\ Account'
  BY DEF CInv, Framed, Recalls, ObjectsRead, Account
<1>4. ReportedAsRead' /\ CauseIsNamed'
  BY DEF CInv, Framed, Recalls, ReportedAsRead, CauseIsNamed
<1> QED BY <1>1, <1>2, <1>3, <1>4

\* Every step of a GET keeps the invariant.
LEMMA CallKeeps ==
  ASSUME CInv, NEW c \in Callers, Get(c)
  PROVE  CInv'
<1>1. Called(c) /\ Retold(c)
  BY GetStep DEF CInv, Typed
<1>2. Typed' /\ Tokens'
  BY <1>1, CalledTypes, RetoldTokens DEF CInv, Typed
<1>3. Framed
  BY <1>1 DEF Called, Framed
<1>4. Employed'
  BY <1>1 DEF CInv, Called, Employed, Callers
<1>5. Fair'
  <2>1. (FanEnded' <=> FanEnded) /\ \A d : Staleness(d)' = Staleness(d)
    BY <1>1 DEF Called, FanEnded, Staleness
  <2>2. \A w \in Workers : Over(get'[w]) /\ get'[w].cut /\ main.at = "fan" => FanEnded
    BY <1>1 DEF CInv, Fair, Called, ContextEnded, FanEnded, Callers
  <2>3. main' = main /\ fan' = fan /\ history'.answered = history.answered
    BY <1>3 DEF Framed, Recalls
  <2>4. main.at = "fan" => Ordered(fan.order)'
    BY <2>1, <2>3 DEF CInv, Fair, Ordered
  <2> QED BY <2>1, <2>2, <2>3, <2>4 DEF CInv, Fair
<1> QED BY <1>2, <1>3, <1>4, <1>5, FramedKeeps DEF CInv

\* The collector under way is one of those still to be reported.
LEMMA CollectorIn ==
  ASSUME main.todo \in SUBSET Kinds, main.todo # {}
  PROVE  Collector \in main.todo
BY DEF Collector, Priority, Kinds

-----------------------------------------------------------------------------
(* Time and the API. *)

\* Time passes, tokens expire and are revoked.
LEMMA AmbientKeeps ==
  ASSUME CInv, Tick \/ Expire \/ Revoke
  PROVE  CInv'
<1>1. UNCHANGED <<get, job, main, fan, cache, attempted>> /\ upstream'.listing = upstream.listing
  BY DEF Tick, Expire, Revoke, CInv, Typed, Calls
<1>2. Recalls
  <2>1. history \in Histories /\ (history' = history \/ history' = [history EXCEPT !.expiries = @ + 1])
    BY DEF CInv, Typed, Reports, Tick, Expire, Revoke
  <2> QED BY <2>1 DEF Histories, Recalls
<1>3. Framed
  BY <1>1, <1>2 DEF Framed
<1>4. Calls'
  <2>1. clock' \in 0 .. PollTime
    BY ClientAssumption DEF CInv, Typed, Calls, Tick, Expire, Revoke
  <2>2. token' \in [id : Nat, usable : BOOLEAN]
    BY DEF CInv, Typed, Calls, Tick, Expire, Revoke
  <2>3. upstream' \in [issued : Nat, accepted : SUBSET Nat, listing : Listings]
    BY DEF CInv, Typed, Calls, Tick, Expire, Revoke
  <2> QED BY <1>1, <2>1, <2>2, <2>3 DEF CInv, Typed, Calls
<1>5. Reports'
  BY <1>1, <1>2 DEF CInv, Typed, Reports, Recalls
<1>6. Tokens'
  <2>1. upstream'.issued = upstream.issued /\ (token' = token \/ ~ token'.usable)
    BY DEF CInv, Typed, Calls, Tick, Expire, Revoke
  <2> QED BY <1>1, <2>1 DEF CInv, Tokens
<1>7. Employed'
  BY <1>1 DEF CInv, Employed
<1>8. Fair'
  <2>1. (FanEnded => FanEnded') /\ \A d : Staleness(d)' = Staleness(d)
    <3>1. clock >= PollTime => clock' >= PollTime
      BY ClientAssumption DEF CInv, Typed, Calls, Tick, Expire, Revoke
    <3> QED BY <1>1, <3>1 DEF FanEnded, Staleness
  <2>2. history'.answered = history.answered
    BY <1>2 DEF Recalls
  <2>3. main.at = "fan" => Ordered(fan.order)'
    BY <1>1, <2>1 DEF CInv, Fair, Ordered
  <2> QED BY <1>1, <2>1, <2>2, <2>3 DEF CInv, Fair
<1> QED BY <1>3, <1>4, <1>5, <1>6, <1>7, <1>8, FramedKeeps DEF CInv, Typed

-----------------------------------------------------------------------------
(* Requests begun and dropped. *)

Fresh(g) == /\ Request(g) /\ ~ Over(g)
            /\ Underway(g) => g.used = 0 /\ g.rejected = 0 /\ g.at = "token"

\* Outside a GET, requests are only begun, or dropped.
Renewed ==
  /\ get' = [c \in Callers |-> get'[c]]
  /\ \A c \in Callers : get'[c] = get[c] \/ Fresh(get'[c])
  /\ token' = token /\ clock' \in 0 .. PollTime
  /\ upstream' \in [issued : Nat, accepted : SUBSET Nat, listing : Listings]
  /\ upstream'.issued = upstream.issued

\* Requests begun or dropped keep the token cache as it is.
LEMMA RenewedKeeps ==
  ASSUME Calls, Tokens, Renewed
  PROVE  Calls' /\ Tokens'
<1>1. Calls'
  BY DEF Calls, Renewed, Fresh
<1>2. Tokens'
  <2>1. token.usable => token.id \in Nat /\ token.id > 0
    BY DEF Calls, Tokens
  <2>2. upstream.issued >= 0
    BY DEF Calls
  <2> QED BY <2>1, <2>2 DEF Tokens, Renewed, Fresh
<1> QED BY <1>1, <1>2

\* A request just begun.
LEMMA NewIsFresh ==
  ASSUME NEW t, NEW g, g = [NewGet EXCEPT !.deadline = t] \/ g = NewGet
  PROVE  Fresh(g) /\ g # NoGet /\ ~ Over(g)
<1>1. g \in [at : {"token"}, attempt : {0}, used : {0}, rejected : {0}, error : {"none"},
            deadline : {g.deadline}, wake : {0}]
  BY DEF NewGet
<1>2. "none" \in Results /\ Attempts \in Nat /\ 0 < Attempts
  BY ClientAssumption DEF Results
<1>3. Underway(g) /\ g.attempt = 0 /\ g.at = "token" /\ g.used = 0 /\ g.rejected = 0
  BY <1>1, <1>2 DEF Underway
<1>4. Request(g) /\ ~ Over(g) /\ g # NoGet
  BY <1>2, <1>3 DEF Request, Over, NoGet
<1> QED BY <1>3, <1>4 DEF Fresh

\* A request dropped.
LEMMA NoGetIsFresh == Fresh(NoGet)
BY DEF Fresh, Request, Over, Underway, NoGet

\* The requests of the others stay.
LEMMA Asked ==
  ASSUME Calls, NEW c \in Callers, NEW g, Fresh(g), get' = [get EXCEPT ![c] = g]
  PROVE  /\ get' = [d \in Callers |-> get'[d]] /\ get'[c] = g
         /\ \A d \in Callers : get'[d] = get[d] \/ Fresh(get'[d])
         /\ \A d \in Callers \ {c} : get'[d] = get[d]
BY Moved

-----------------------------------------------------------------------------
(* The workers of the fan-out. *)

\* Neither success nor a malformed answer speaks for the account.
LEMMA NotAccountWide == ~ AccountWide("none") /\ ~ AccountWide("invalid")
BY DEF AccountWide, Category

\* What the collecting loop keeps of a failure, and the cause it never loses.
LEMMA FailureKept ==
  ASSUME NEW f \in Fans, NEW d \in Devices, NEW e \in Results, NEW g, g = WithFailure(f, d, e)
  PROVE  /\ g \in Fans /\ g.list = f.list /\ g.order = f.order /\ g.stopped = f.stopped
         /\ g.bytes = f.bytes /\ g.over = f.over /\ g.found = f.found
         /\ AccountWide(e) => g.completed = f.completed
         /\ ~ AccountWide(e) => g.completed = f.completed \cup {d}
         /\ AccountWide(f.error) \/ AccountWide(e) => AccountWide(g.error)
<1> DEFINE done == IF AccountWide(e) THEN f.completed ELSE f.completed \cup {d}
           err == IF f.error = "none" \/ (AccountWide(e) /\ ~ AccountWide(f.error)) THEN e ELSE f.error
<1>1. g = [f EXCEPT !.completed = done, !.error = err]
  BY DEF WithFailure
<1>2. done \in SUBSET Devices /\ err \in Results
  BY DEF Fans
<1>3. AccountWide(f.error) \/ AccountWide(e) => AccountWide(err)
  BY NotAccountWide
<1> HIDE DEF err
<1> QED BY <1>1, <1>2, <1>3 DEF Fans

\* What the collecting loop keeps of a device that was read.
LEMMA ReadKept ==
  ASSUME NEW f \in Fans, NEW w \in Workers, job[w] \in Jobs, NEW g, g = Reads(f, w)
  PROVE  /\ g \in Fans /\ g.list = f.list /\ g.order = f.order /\ g.stopped = f.stopped
         /\ g.bytes = f.bytes /\ g.over = f.over /\ g.error = f.error
         /\ job[w].detail = 1 => g.completed = f.completed /\ g.found = f.found
         /\ job[w].detail # 1 => /\ g.completed = f.completed \cup {job[w].device}
                                 /\ g.found = f.found \cup {job[w].device}
BY DEF Reads, Fans, Jobs

\* What a worker's step makes of the devices that wait, are read, or are done.
HandOut(w) ==
  /\ fan.order # <<>> /\ fan'.order = Tail(fan.order) /\ job[w] = NoJob
  /\ job'[w] \in Jobs /\ job'[w].device = Head(fan.order)
  /\ Head(fan.order) \notin Nameless
  /\ fan'.completed = fan.completed /\ fan'.found = fan.found
PassOver(w) ==
  /\ fan.order # <<>> /\ fan'.order = Tail(fan.order) /\ job[w] = NoJob /\ job'[w] = NoJob
  /\ fan'.completed = fan.completed \cup {Head(fan.order)} /\ fan'.found = fan.found
ReadOn(w) ==
  /\ fan'.order = fan.order /\ job[w] # NoJob /\ job'[w] \in Jobs /\ job'[w].device = job[w].device
  /\ fan'.completed = fan.completed /\ fan'.found = fan.found
Finish(w) ==
  /\ fan'.order = fan.order /\ job[w] # NoJob /\ job'[w] = NoJob
  /\ fan'.completed \in {fan.completed, fan.completed \cup {job[w].device}}
  /\ \/ fan'.found = fan.found
     \/ /\ fan'.found = fan.found \cup {job[w].device}
        /\ fan'.completed = fan.completed \cup {job[w].device}

Worked(w) ==
  /\ main.at = "fan" /\ UNCHANGED <<clock, token, upstream, main, cache, attempted>>
  /\ Renewed /\ \A v \in Workers \ {w} : get'[v] = get[v]
  /\ (get'[w] # NoGet => job'[w] # NoJob) /\ ~ Over(get'[w])
  /\ job' \in [Workers -> {NoJob} \cup Jobs] /\ \A v \in Workers \ {w} : job'[v] = job[v]
  /\ fan' \in Fans /\ fan'.list = fan.list /\ (fan.stopped => fan'.stopped)
  /\ history' \in Histories /\ history'.last = history.last /\ history'.read = history.read
  /\ HandOut(w) \/ PassOver(w) \/ ReadOn(w) \/ Finish(w)

\* A worker takes the first device of the order.
LEMMA DispatchStep ==
  ASSUME CInv, NEW w \in Workers, Dispatch(w)
  PROVE  Worked(w) /\ Account' /\ fan'.completed \subseteq history'.answered \cup Nameless
<1>1. /\ main.at = "fan" /\ job[w] = NoJob /\ fan.order # <<>> /\ fan.order \in Seq(Devices) /\ fan \in Fans
      /\ UNCHANGED <<clock, token, upstream, main, cache, attempted, history>>
  BY DEF Dispatch, Dispatched, CInv, Typed, Reports, Fans
<1>2. Head(fan.order) \in Devices /\ Tail(fan.order) \in Seq(Devices)
  BY <1>1
<1>3. fan' = [fan EXCEPT !.order = Tail(fan.order)]
  BY DEF Dispatch
<1>4. /\ fan' \in Fans /\ fan'.order = Tail(fan.order) /\ fan'.list = fan.list /\ fan'.stopped = fan.stopped
      /\ fan'.completed = fan.completed /\ fan'.found = fan.found /\ fan'.bytes = fan.bytes
      /\ fan'.over = fan.over /\ fan'.error = fan.error
  BY <1>1, <1>2, <1>3 DEF Fans
<1>5. /\ job'[w] \in Jobs /\ job'[w] # NoJob /\ job'[w].device = Head(fan.order)
      /\ job' \in [Workers -> {NoJob} \cup Jobs] /\ \A v \in Workers \ {w} : job'[v] = job[v]
  <2>1. job' = [job EXCEPT ![w] = [detail |-> 1, device |-> Head(fan.order)]] /\ job \in [Workers -> {NoJob} \cup Jobs]
    BY DEF Dispatch, Foremost, CInv, Typed, Reports
  <2>2. [detail |-> 1, device |-> Head(fan.order)] \in Jobs /\ [detail |-> 1, device |-> Head(fan.order)] # NoJob
    BY <1>2 DEF Jobs, NoJob
  <2> QED BY <2>1, <2>2
<1>6. /\ get' = [c \in Callers |-> get'[c]] /\ \A c \in Callers : get'[c] = get[c] \/ Fresh(get'[c])
      /\ (\A v \in Workers \ {w} : get'[v] = get[v]) /\ ~ Over(get'[w])
  <2>1. get' = [get EXCEPT ![w] = NewGet] /\ Calls /\ w \in Callers
    BY DEF Dispatch, CInv, Typed, Callers
  <2>2. Fresh(NewGet) /\ ~ Over(NewGet)
    BY NewIsFresh
  <2> QED BY <2>1, <2>2, Asked DEF Callers
<1>7. Renewed
  BY <1>1, <1>6 DEF Renewed, CInv, Typed, Calls
<1>8. HandOut(w)
  BY <1>1, <1>4, <1>5 DEF HandOut, Dispatch, Foremost
<1>9. Account' /\ fan'.completed \subseteq history'.answered \cup Nameless
  BY <1>1, <1>4 DEF CInv, Account, Fair
<1>10. history \in Histories
  BY DEF CInv, Typed, Reports
<1> QED BY <1>1, <1>4, <1>5, <1>6, <1>7, <1>8, <1>9, <1>10 DEF Worked

\* A device without an id is passed over.
LEMMA DispatchNamelessStep ==
  ASSUME CInv, NEW w \in Workers, DispatchNameless(w)
  PROVE  Worked(w) /\ Account' /\ fan'.completed \subseteq history'.answered \cup Nameless
<1>1. /\ main.at = "fan" /\ job[w] = NoJob /\ fan.order # <<>> /\ fan.order \in Seq(Devices) /\ fan \in Fans
      /\ UNCHANGED <<clock, token, upstream, get, job, main, cache, attempted, history>>
  BY DEF DispatchNameless, Dispatched, CInv, Typed, Reports, Fans
<1>2. Head(fan.order) \in Devices /\ Tail(fan.order) \in Seq(Devices) /\ Head(fan.order) \in Nameless
  BY <1>1 DEF DispatchNameless, Foremost
<1> DEFINE f == [fan EXCEPT !.order = Tail(fan.order)]
<1>3. fan' = WithFailure(f, Head(fan.order), "invalid")
  BY DEF DispatchNameless, Foremost
<1>4. /\ f \in Fans /\ f.order = Tail(fan.order) /\ f.list = fan.list /\ f.stopped = fan.stopped
      /\ f.completed = fan.completed /\ f.found = fan.found /\ f.bytes = fan.bytes
      /\ f.over = fan.over /\ f.error = fan.error
  BY <1>1, <1>2 DEF Fans
<1> HIDE DEF f
<1>5. /\ fan' \in Fans /\ fan'.order = Tail(fan.order) /\ fan'.list = fan.list /\ fan'.stopped = fan.stopped
      /\ fan'.completed = fan.completed \cup {Head(fan.order)} /\ fan'.found = fan.found
      /\ fan'.bytes = fan.bytes /\ fan'.over = fan.over
      /\ AccountWide(fan.error) => AccountWide(fan'.error)
  <2>1. "invalid" \in Results
    BY DEF Results
  <2>2. /\ fan' \in Fans /\ fan'.list = f.list /\ fan'.order = f.order /\ fan'.stopped = f.stopped
        /\ fan'.bytes = f.bytes /\ fan'.over = f.over /\ fan'.found = f.found
        /\ fan'.completed = f.completed \cup {Head(fan.order)}
        /\ AccountWide(f.error) => AccountWide(fan'.error)
    BY <1>2, <1>3, <1>4, <2>1, FailureKept, NotAccountWide
  <2> QED BY <1>4, <2>2
<1>6. /\ get = [c \in Callers |-> get[c]] /\ \A c \in Callers : get'[c] = get[c]
      /\ job \in [Workers -> {NoJob} \cup Jobs] /\ history \in Histories
  BY <1>1 DEF CInv, Typed, Calls, Reports
<1>7. Renewed
  BY <1>1, <1>6 DEF Renewed, CInv, Typed, Calls
<1>8. PassOver(w)
  BY <1>1, <1>5 DEF PassOver
<1>9. Account' /\ fan'.completed \subseteq history'.answered \cup Nameless
  BY <1>1, <1>2, <1>5 DEF CInv, Account, Fair
<1>10. get[w] = NoGet /\ ~ Over(NoGet)
  BY <1>1, NoGetIsFresh DEF CInv, Employed, Fresh
<1> QED BY <1>1, <1>5, <1>6, <1>7, <1>8, <1>9, <1>10 DEF Worked

\* What a worker with a device does next to its job and its request.
LEMMA Advanced ==
  ASSUME CInv, NEW w \in Workers, job[w] # NoJob, Advance(w)
  PROVE  /\ job[w] \in Jobs /\ main.at = "fan"
         /\ job' \in [Workers -> {NoJob} \cup Jobs] /\ \A v \in Workers \ {w} : job'[v] = job[v]
         /\ get' = [c \in Callers |-> get'[c]] /\ \A c \in Callers : get'[c] = get[c] \/ Fresh(get'[c])
         /\ \A v \in Workers \ {w} : get'[v] = get[v]
         /\ ~ Over(get'[w]) /\ (get'[w] # NoGet => job'[w] # NoJob)
         /\ job[w].detail = 1 => job'[w] \in Jobs /\ job'[w].device = job[w].device /\ job'[w] # NoJob
         /\ job[w].detail # 1 => job'[w] = NoJob
<1>1. job[w] \in Jobs /\ main.at = "fan" /\ job \in [Workers -> {NoJob} \cup Jobs] /\ Calls /\ w \in Callers
  BY DEF CInv, Typed, Reports, Employed, Callers
<1>2. CASE job[w].detail = 1
  <2> DEFINE j == [job[w] EXCEPT !.detail = 2]
  <2>1. get' = [get EXCEPT ![w] = NewGet] /\ job' = [job EXCEPT ![w].detail = 2]
    BY <1>2 DEF Advance
  <2>2. job' = [job EXCEPT ![w] = j] /\ j \in Jobs /\ j.device = job[w].device /\ j # NoJob
    BY <1>1, <2>1 DEF Jobs, NoJob
  <2> HIDE DEF j
  <2>3. Fresh(NewGet) /\ ~ Over(NewGet)
    BY NewIsFresh
  <2>4. /\ get' = [c \in Callers |-> get'[c]] /\ \A c \in Callers : get'[c] = get[c] \/ Fresh(get'[c])
        /\ (\A v \in Workers \ {w} : get'[v] = get[v]) /\ ~ Over(get'[w])
    BY <1>1, <2>1, <2>3, Asked DEF Callers
  <2> QED BY <1>1, <1>2, <2>2, <2>4
<1>3. CASE job[w].detail # 1
  <2>1. get' = [get EXCEPT ![w] = NoGet] /\ job' = [job EXCEPT ![w] = NoJob]
    BY <1>3 DEF Advance
  <2>2. Fresh(NoGet) /\ ~ Over(NoGet)
    BY NoGetIsFresh DEF Fresh
  <2>3. /\ get' = [c \in Callers |-> get'[c]] /\ (\A c \in Callers : get'[c] = get[c] \/ Fresh(get'[c]))
        /\ (\A v \in Workers \ {w} : get'[v] = get[v]) /\ ~ Over(get'[w]) /\ get'[w] = NoGet
    BY <1>1, <2>1, <2>2, Asked DEF Callers
  <2> QED BY <1>1, <1>3, <2>1, <2>3
<1> QED BY <1>2, <1>3

\* A worker that gives its device up.
LEMMA GivenUp ==
  ASSUME CInv, NEW w \in Workers, job[w] # NoJob, GiveUp(w)
  PROVE  /\ job[w] \in Jobs /\ main.at = "fan"
         /\ job' \in [Workers -> {NoJob} \cup Jobs] /\ \A v \in Workers \ {w} : job'[v] = job[v]
         /\ get' = [c \in Callers |-> get'[c]] /\ \A c \in Callers : get'[c] = get[c] \/ Fresh(get'[c])
         /\ \A v \in Workers \ {w} : get'[v] = get[v]
         /\ ~ Over(get'[w]) /\ get'[w] = NoGet /\ job'[w] = NoJob
<1>1. job[w] \in Jobs /\ main.at = "fan" /\ job \in [Workers -> {NoJob} \cup Jobs] /\ Calls /\ w \in Callers
  BY DEF CInv, Typed, Reports, Employed, Callers
<1>2. get' = [get EXCEPT ![w] = NoGet] /\ job' = [job EXCEPT ![w] = NoJob]
  BY DEF GiveUp
<1>3. Fresh(NoGet) /\ ~ Over(NoGet)
  BY NoGetIsFresh DEF Fresh
<1>4. /\ get' = [c \in Callers |-> get'[c]] /\ (\A c \in Callers : get'[c] = get[c] \/ Fresh(get'[c]))
      /\ (\A v \in Workers \ {w} : get'[v] = get[v]) /\ ~ Over(get'[w]) /\ get'[w] = NoGet
  BY <1>1, <1>2, <1>3, Asked DEF Callers
<1> QED BY <1>1, <1>2, <1>4

\* An answer read within the budget.
LEMMA DetailReadStep ==
  ASSUME CInv, NEW w \in Workers, DetailRead(w)
  PROVE  Worked(w) /\ Account' /\ fan'.completed \subseteq history'.answered \cup Nameless
<1>1. /\ job[w] # NoJob /\ Advance(w) /\ UNCHANGED <<clock, token, upstream, main, cache, attempted>>
      /\ fan \in Fans /\ history \in Histories
  BY DEF DetailRead, CInv, Typed, Reports
<1>2. PICK size \in Sizes :
        /\ size <= MaxBytes - fan.bytes
        /\ fan' = Reads([fan EXCEPT !.bytes = @ + size], w)
        /\ history' = [history EXCEPT !.bytes = @ + size,
                                      !.answered = IF job[w].detail = 2 THEN @ \cup {job[w].device} ELSE @]
  BY DEF DetailRead
<1>3. /\ size \in Nat /\ MaxBytes \in Nat /\ fan.bytes \in Nat /\ history.bytes \in Nat
      /\ fan.bytes + size \in Nat /\ history.bytes + size \in Nat
  <2>1. size \in Nat /\ MaxBytes \in Nat
    BY ClientAssumption
  <2>2. fan.bytes \in Nat
    BY <1>1 DEF Fans
  <2>3. history.bytes \in Nat
    BY <1>1 DEF Histories
  <2> QED BY <2>1, <2>2, <2>3
<1>4. /\ job[w] \in Jobs /\ main.at = "fan"
      /\ job' \in [Workers -> {NoJob} \cup Jobs] /\ (\A v \in Workers \ {w} : job'[v] = job[v])
      /\ get' = [c \in Callers |-> get'[c]] /\ (\A c \in Callers : get'[c] = get[c] \/ Fresh(get'[c]))
      /\ (\A v \in Workers \ {w} : get'[v] = get[v])
      /\ ~ Over(get'[w]) /\ (get'[w] # NoGet => job'[w] # NoJob)
      /\ job[w].detail = 1 => job'[w] \in Jobs /\ job'[w].device = job[w].device /\ job'[w] # NoJob
      /\ job[w].detail # 1 => job'[w] = NoJob
  BY <1>1, Advanced
<1> DEFINE total == fan.bytes + size
           kept == history.bytes + size
           f == [fan EXCEPT !.bytes = total]
<1>a. total \in Nat /\ kept \in Nat /\ total = fan.bytes + size /\ kept = history.bytes + size
  BY <1>3
<1>b. /\ fan' = Reads(f, w)
      /\ history' = [history EXCEPT !.bytes = kept,
                        !.answered = IF job[w].detail = 2 THEN @ \cup {job[w].device} ELSE @]
  BY <1>2
<1> HIDE DEF total, kept
<1>5. /\ f \in Fans /\ f.list = fan.list /\ f.order = fan.order /\ f.stopped = fan.stopped
      /\ f.bytes = total /\ f.over = fan.over /\ f.error = fan.error
      /\ f.completed = fan.completed /\ f.found = fan.found
  BY <1>1, <1>a DEF Fans
<1>6. fan' = Reads(f, w)
  BY <1>b
<1> HIDE DEF f
<1>7. /\ fan' \in Fans /\ fan'.list = f.list /\ fan'.order = f.order /\ fan'.stopped = f.stopped
      /\ fan'.bytes = f.bytes /\ fan'.over = f.over /\ fan'.error = f.error
      /\ job[w].detail = 1 => fan'.completed = f.completed /\ fan'.found = f.found
      /\ job[w].detail # 1 => /\ fan'.completed = f.completed \cup {job[w].device}
                              /\ fan'.found = f.found \cup {job[w].device}
  BY <1>4, <1>5, <1>6, ReadKept
<1>8. job[w].detail \in {1, 2} /\ job[w].device \in Devices
  BY <1>4 DEF Jobs
<1>9. /\ history' \in Histories /\ history'.last = history.last /\ history'.read = history.read
      /\ history'.bytes = kept /\ history'.over = history.over
      /\ history'.refused = history.refused /\ history.answered \subseteq history'.answered
      /\ job[w].detail = 2 => job[w].device \in history'.answered
  <2> DEFINE a == IF job[w].detail = 2 THEN history.answered \cup {job[w].device} ELSE history.answered
  <2>1. history' = [history EXCEPT !.bytes = kept, !.answered = a]
    BY <1>b
  <2>2. a \in SUBSET Devices /\ history.answered \subseteq a /\ (job[w].detail = 2 => job[w].device \in a)
    BY <1>1, <1>8 DEF Histories
  <2> HIDE DEF a
  <2> QED BY <1>1, <1>a, <2>1, <2>2 DEF Histories
<1>10. Account'
  BY <1>2, <1>3, <1>4, <1>5, <1>7, <1>9, <1>a DEF CInv, Account
<1>11. fan'.completed \subseteq history'.answered \cup Nameless
  BY <1>4, <1>5, <1>7, <1>8, <1>9 DEF CInv, Fair
<1>12. Renewed
  BY <1>1, <1>4 DEF Renewed, CInv, Typed, Calls
<1>13. ReadOn(w) \/ Finish(w)
  BY <1>1, <1>4, <1>5, <1>7, <1>8 DEF ReadOn, Finish
<1> QED BY <1>1, <1>4, <1>5, <1>7, <1>9, <1>10, <1>11, <1>12, <1>13 DEF Worked

\* An endpoint that is forbidden counts as read.
LEMMA DetailUnsupportedStep ==
  ASSUME CInv, NEW w \in Workers, DetailUnsupported(w)
  PROVE  Worked(w) /\ Account' /\ fan'.completed \subseteq history'.answered \cup Nameless
<1>1. /\ job[w] # NoJob /\ Advance(w) /\ UNCHANGED <<clock, token, upstream, main, cache, attempted>>
      /\ fan \in Fans /\ history \in Histories /\ fan' = Reads(fan, w)
  BY DEF DetailUnsupported, CInv, Typed, Reports
<1>4. /\ job[w] \in Jobs /\ main.at = "fan"
      /\ job' \in [Workers -> {NoJob} \cup Jobs] /\ (\A v \in Workers \ {w} : job'[v] = job[v])
      /\ get' = [c \in Callers |-> get'[c]] /\ (\A c \in Callers : get'[c] = get[c] \/ Fresh(get'[c]))
      /\ (\A v \in Workers \ {w} : get'[v] = get[v])
      /\ ~ Over(get'[w]) /\ (get'[w] # NoGet => job'[w] # NoJob)
      /\ job[w].detail = 1 => job'[w] \in Jobs /\ job'[w].device = job[w].device /\ job'[w] # NoJob
      /\ job[w].detail # 1 => job'[w] = NoJob
  BY <1>1, Advanced
<1>7. /\ fan' \in Fans /\ fan'.list = fan.list /\ fan'.order = fan.order /\ fan'.stopped = fan.stopped
      /\ fan'.bytes = fan.bytes /\ fan'.over = fan.over /\ fan'.error = fan.error
      /\ job[w].detail = 1 => fan'.completed = fan.completed /\ fan'.found = fan.found
      /\ job[w].detail # 1 => /\ fan'.completed = fan.completed \cup {job[w].device}
                              /\ fan'.found = fan.found \cup {job[w].device}
  BY <1>1, <1>4, ReadKept
<1>8. job[w].detail \in {1, 2} /\ job[w].device \in Devices
  BY <1>4 DEF Jobs
<1>9. /\ history' \in Histories /\ history'.last = history.last /\ history'.read = history.read
      /\ history'.bytes = history.bytes /\ history'.over = history.over
      /\ history'.refused = history.refused /\ history.answered \subseteq history'.answered
      /\ job[w].detail = 2 => job[w].device \in history'.answered
  <2> DEFINE a == IF job[w].detail = 2 THEN history.answered \cup {job[w].device} ELSE history.answered
  <2>1. history' = [history EXCEPT !.answered = a]
    BY DEF DetailUnsupported
  <2>2. a \in SUBSET Devices /\ history.answered \subseteq a /\ (job[w].detail = 2 => job[w].device \in a)
    BY <1>1, <1>8 DEF Histories
  <2> HIDE DEF a
  <2> QED BY <1>1, <2>1, <2>2 DEF Histories
<1>10. Account'
  BY <1>1, <1>4, <1>7, <1>9 DEF CInv, Account
<1>11. fan'.completed \subseteq history'.answered \cup Nameless
  BY <1>4, <1>7, <1>8, <1>9 DEF CInv, Fair
<1>12. Renewed
  BY <1>1, <1>4 DEF Renewed, CInv, Typed, Calls
<1>13. ReadOn(w) \/ Finish(w)
  BY <1>1, <1>4, <1>7, <1>8 DEF ReadOn, Finish
<1> QED BY <1>1, <1>4, <1>7, <1>9, <1>10, <1>11, <1>12, <1>13 DEF Worked

\* The answer that exceeds the budget stops the fan-out.
LEMMA DetailOverBudgetStep ==
  ASSUME CInv, NEW w \in Workers, DetailOverBudget(w)
  PROVE  Worked(w) /\ Account' /\ fan'.completed \subseteq history'.answered \cup Nameless
<1>1. /\ job[w] # NoJob /\ GiveUp(w) /\ UNCHANGED <<clock, token, upstream, main, cache, attempted>>
      /\ fan \in Fans /\ history \in Histories /\ fan' = [fan EXCEPT !.over = TRUE, !.stopped = TRUE]
      /\ history' = [history EXCEPT !.over = TRUE]
  BY DEF DetailOverBudget, CInv, Typed, Reports
<1>2. /\ job[w] \in Jobs /\ main.at = "fan"
      /\ job' \in [Workers -> {NoJob} \cup Jobs] /\ (\A v \in Workers \ {w} : job'[v] = job[v])
      /\ get' = [c \in Callers |-> get'[c]] /\ (\A c \in Callers : get'[c] = get[c] \/ Fresh(get'[c]))
      /\ (\A v \in Workers \ {w} : get'[v] = get[v])
      /\ ~ Over(get'[w]) /\ get'[w] = NoGet /\ job'[w] = NoJob
  BY <1>1, GivenUp
<1>3. /\ fan' \in Fans /\ fan'.list = fan.list /\ fan'.order = fan.order /\ fan'.stopped
      /\ fan'.bytes = fan.bytes /\ fan'.over /\ fan'.error = fan.error
      /\ fan'.completed = fan.completed /\ fan'.found = fan.found
  BY <1>1 DEF Fans
<1>4. /\ history' \in Histories /\ history'.last = history.last /\ history'.read = history.read
      /\ history'.bytes = history.bytes /\ history'.over
      /\ history'.refused = history.refused /\ history'.answered = history.answered
  BY <1>1 DEF Histories
<1>5. Account'
  BY <1>1, <1>3, <1>4 DEF CInv, Account
<1>6. fan'.completed \subseteq history'.answered \cup Nameless
  BY <1>2, <1>3, <1>4 DEF CInv, Fair
<1>7. Renewed
  BY <1>1, <1>2 DEF Renewed, CInv, Typed, Calls
<1>8. Finish(w)
  BY <1>1, <1>2, <1>3 DEF Finish
<1> QED BY <1>1, <1>2, <1>3, <1>4, <1>5, <1>6, <1>7, <1>8 DEF Worked

\* A device whose request failed: only an answer of its own counts.
LEMMA DetailFailsStep ==
  ASSUME CInv, NEW w \in Workers, DetailFails(w)
  PROVE  Worked(w) /\ Account' /\ fan'.completed \subseteq history'.answered \cup Nameless
<1> DEFINE d == job[w].device
<1>1. /\ job[w] # NoJob /\ GiveUp(w) /\ UNCHANGED <<clock, token, upstream, main, cache, attempted>>
      /\ fan \in Fans /\ history \in Histories
  BY DEF DetailFails, CInv, Typed, Reports
<1>2. /\ job[w] \in Jobs /\ main.at = "fan"
      /\ job' \in [Workers -> {NoJob} \cup Jobs] /\ (\A v \in Workers \ {w} : job'[v] = job[v])
      /\ get' = [c \in Callers |-> get'[c]] /\ (\A c \in Callers : get'[c] = get[c] \/ Fresh(get'[c]))
      /\ (\A v \in Workers \ {w} : get'[v] = get[v])
      /\ ~ Over(get'[w]) /\ get'[w] = NoGet /\ job'[w] = NoJob
  BY <1>1, GivenUp
<1>3. d \in Devices
  BY <1>2 DEF Jobs
<1>4. PICK e \in Results :
        LET h == IF get[w].at = "failed" THEN history ELSE SpendFault
        IN  /\ \/ get[w].at = "failed" /\ e = get[w].error /\ e # "forbidden"
               \/ Answered(w) /\ e = "invalid" /\ history.faults < MaxFaults
            /\ fan' = Settled([fan EXCEPT !.stopped = @ \/ AccountWide(e)], d, e)
            /\ history' = [h EXCEPT !.refused = @ \/ AccountWide(e),
                                    !.answered = IF get[w].at = "failed" /\ get[w].cut THEN @ ELSE @ \cup {d}]
  BY DEF DetailFails
<1> DEFINE s == fan.stopped \/ AccountWide(e)
           f == [fan EXCEPT !.stopped = s]
           h == IF get[w].at = "failed" THEN history ELSE SpendFault
           r == history.refused \/ AccountWide(e)
           a == IF get[w].at = "failed" /\ get[w].cut THEN history.answered ELSE history.answered \cup {d}
<1>5. AccountWide(e) \in BOOLEAN
  BY DEF AccountWide
<1>6. /\ f \in Fans /\ f.list = fan.list /\ f.order = fan.order /\ (f.stopped <=> s)
      /\ f.bytes = fan.bytes /\ f.over = fan.over /\ f.error = fan.error
      /\ f.completed = fan.completed /\ f.found = fan.found
  <2>1. s \in BOOLEAN
    BY <1>1, <1>5 DEF Fans
  <2> HIDE DEF s
  <2> QED BY <1>1, <2>1 DEF Fans
<1>7. fan' = Settled(f, d, e)
  BY <1>4
<1>8. /\ h \in Histories /\ h.last = history.last /\ h.read = history.read /\ h.bytes = history.bytes
      /\ h.over = history.over /\ h.refused = history.refused /\ h.answered = history.answered
  BY <1>1 DEF SpendFault, Histories
<1>9. history' = [h EXCEPT !.refused = r, !.answered = a]
  <2>1. history' = [h EXCEPT !.refused = @ \/ AccountWide(e),
                             !.answered = IF get[w].at = "failed" /\ get[w].cut THEN @ ELSE @ \cup {d}]
    BY <1>4
  <2> HIDE DEF h
  <2> QED BY <1>8, <2>1
<1>10. r \in BOOLEAN /\ a \in SUBSET Devices
  BY <1>1, <1>3, <1>5 DEF Histories
<1>11. /\ history.answered \subseteq a /\ (d \in a \/ (get[w].at = "failed" /\ get[w].cut))
       /\ (r <=> history.refused \/ AccountWide(e)) /\ (fan.stopped \/ AccountWide(e) => s) /\ (s => fan.stopped \/ AccountWide(e))
  OBVIOUS
<1> HIDE DEF h, r, a, s, f, d
<1>12. /\ history' \in Histories /\ history'.last = history.last /\ history'.read = history.read
       /\ history'.bytes = history.bytes /\ history'.over = history.over
       /\ (history'.refused <=> r) /\ history'.answered = a
  BY <1>8, <1>9, <1>10 DEF Histories
<1>13. /\ fan' \in Fans /\ fan'.list = f.list /\ fan'.order = f.order /\ fan'.stopped = f.stopped
       /\ fan'.bytes = f.bytes /\ fan'.over = f.over /\ fan'.found = f.found
       /\ AccountWide(f.error) \/ AccountWide(e) => AccountWide(fan'.error)
       /\ fan'.completed \in {f.completed, f.completed \cup {d}}
       /\ f.stopped \/ clock >= PollTime => fan'.completed = f.completed
  <2>1. CASE (f.stopped \/ clock >= PollTime) /\ ~ AccountWide(e)
    BY <1>6, <1>7, <2>1 DEF Settled
  <2>2. CASE ~ ((f.stopped \/ clock >= PollTime) /\ ~ AccountWide(e))
    <3>1. fan' = WithFailure(f, d, e)
      BY <1>7, <2>2 DEF Settled
    <3> QED BY <1>3, <1>6, <2>2, <3>1, FailureKept
  <2> QED BY <2>1, <2>2
<1>14. Account'
  BY <1>1, <1>2, <1>6, <1>11, <1>12, <1>13 DEF CInv, Account
<1>15. get[w].at = "failed" /\ get[w].cut => fan.stopped \/ clock >= PollTime
  <2>1. Request(get[w])
    BY DEF CInv, Typed, Calls, Callers
  <2>2. get[w].at = "failed" => Over(get[w])
    BY <2>1 DEF Request, NoGet, Underway
  <2> QED BY <1>2, <2>2 DEF CInv, Fair, FanEnded
<1>16. fan'.completed \subseteq history'.answered \cup Nameless
  <2>1. fan.completed \subseteq history.answered \cup Nameless
    BY <1>2 DEF CInv, Fair
  <2> QED BY <1>6, <1>11, <1>12, <1>13, <1>15, <2>1
<1>17. Renewed
  BY <1>1, <1>2 DEF Renewed, CInv, Typed, Calls
<1>18. Finish(w)
  BY <1>1, <1>2, <1>6, <1>13 DEF Finish, d
<1> QED BY <1>1, <1>2, <1>6, <1>11, <1>12, <1>13, <1>14, <1>16, <1>17, <1>18 DEF Worked

Distinct(s) == \A i, j \in 1 .. Len(s) : i # j => s[i] # s[j]

\* Taking the first device of an order leaves the rest in order.
LEMMA TailOf ==
  ASSUME NEW s \in Seq(Devices), s # <<>>
  PROVE  /\ Head(s) \in ToSet(s) /\ ToSet(Tail(s)) \subseteq ToSet(s)
         /\ Distinct(s) => Distinct(Tail(s)) /\ Head(s) \notin ToSet(Tail(s))
         /\ Ordered(s) => /\ Ordered(Tail(s))
                          /\ \A d \in ToSet(Tail(s)) : Staleness(Head(s)) <= Staleness(d)
<1> DEFINE t == Tail(s)
<1>1. Len(s) \in Nat /\ Len(s) > 0 /\ t \in Seq(Devices) /\ Len(t) = Len(s) - 1 /\ Head(s) = s[1]
  OBVIOUS
<1>2. \A i \in 1 .. Len(t) : i + 1 \in 1 .. Len(s) /\ t[i] = s[i + 1]
  OBVIOUS
<1>3. ToSet(s) = {s[i] : i \in 1 .. Len(s)} /\ ToSet(t) = {t[i] : i \in 1 .. Len(t)}
  <2>1. DOMAIN s = 1 .. Len(s) /\ DOMAIN t = 1 .. Len(t)
    OBVIOUS
  <2> HIDE DEF t
  <2> QED BY <2>1 DEF ToSet
<1> HIDE DEF t
<1>4. Head(s) \in ToSet(s) /\ ToSet(t) \subseteq ToSet(s)
  BY <1>1, <1>2, <1>3
<1>5. Distinct(s) => Distinct(t) /\ Head(s) \notin ToSet(t)
  BY <1>1, <1>2, <1>3 DEF Distinct
<1>6. Ordered(s) => Ordered(t) /\ \A d \in ToSet(t) : Staleness(Head(s)) <= Staleness(d)
  <2>1. SUFFICES ASSUME Ordered(s) PROVE Ordered(t) /\ \A d \in ToSet(t) : Staleness(Head(s)) <= Staleness(d)
    OBVIOUS
  <2>2. Ordered(t)
    <3>1. SUFFICES ASSUME NEW i \in 1 .. Len(t), NEW j \in 1 .. Len(t), i < j
                   PROVE  Staleness(t[i]) <= Staleness(t[j])
      BY DEF Ordered
    <3>2. i + 1 \in 1 .. Len(s) /\ j + 1 \in 1 .. Len(s) /\ i + 1 < j + 1 /\ t[i] = s[i + 1] /\ t[j] = s[j + 1]
      BY <1>2, <3>1
    <3> QED BY <2>1, <3>2 DEF Ordered
  <2>3. ASSUME NEW i \in 1 .. Len(t) PROVE Staleness(s[1]) <= Staleness(t[i])
    <3>1. 1 \in 1 .. Len(s) /\ i + 1 \in 1 .. Len(s) /\ 1 < i + 1 /\ t[i] = s[i + 1]
      BY <1>1, <1>2
    <3> QED BY <2>1, <3>1 DEF Ordered
  <2> QED BY <1>1, <1>3, <2>2, <2>3
<1> QED BY <1>4, <1>5, <1>6 DEF t

\* The devices are shared out without a device in two places.
LEMMA SharedOut ==
  ASSUME Reports, main.at = "fan", Unshared, NEW w \in Workers, Worked(w)
  PROVE  Unshared' /\ (fan.found \subseteq ToSet(fan.list) => fan'.found \subseteq ToSet(fan'.list))
<1>1. fan.order \in Seq(Devices) /\ fan \in Fans /\ fan' \in Fans
  BY DEF Reports, Fans, Worked
<1>2. /\ Distinct(fan.order) /\ ToSet(fan.order) \subseteq ToSet(fan.list) \ fan.completed
      /\ fan.found \subseteq fan.completed
      /\ \A v \in Workers : job[v] # NoJob =>
           /\ job[v].device \in ToSet(fan.list) \ (ToSet(fan.order) \cup fan.completed)
           /\ \A u \in Workers \ {v} : job[u] # NoJob => job[u].device # job[v].device
  BY DEF Unshared, Distinct
<1>3. fan'.list = fan.list /\ \A v \in Workers \ {w} : job'[v] = job[v]
  BY DEF Worked
<1>4. SUFFICES /\ Distinct(fan'.order) /\ ToSet(fan'.order) \subseteq ToSet(fan.list) \ fan'.completed
               /\ fan'.found \subseteq fan'.completed /\ fan'.found \subseteq fan.found \cup ToSet(fan.list)
               /\ \A v \in Workers : job'[v] # NoJob =>
                    /\ job'[v].device \in ToSet(fan.list) \ (ToSet(fan'.order) \cup fan'.completed)
                    /\ \A u \in Workers \ {v} : job'[u] # NoJob => job'[u].device # job'[v].device
  BY <1>3 DEF Unshared, Distinct, Worked
<1>5. CASE HandOut(w)
  <2>1. /\ Head(fan.order) \in ToSet(fan.order) /\ ToSet(fan'.order) \subseteq ToSet(fan.order)
        /\ Distinct(fan'.order) /\ Head(fan.order) \notin ToSet(fan'.order)
    BY <1>1, <1>2, <1>5, TailOf DEF HandOut
  <2> QED BY <1>2, <1>3, <1>5, <2>1 DEF HandOut
<1>6. CASE PassOver(w)
  <2>1. /\ Head(fan.order) \in ToSet(fan.order) /\ ToSet(fan'.order) \subseteq ToSet(fan.order)
        /\ Distinct(fan'.order) /\ Head(fan.order) \notin ToSet(fan'.order)
    BY <1>1, <1>2, <1>6, TailOf DEF PassOver
  <2> QED BY <1>2, <1>3, <1>6, <2>1 DEF PassOver
<1>7. CASE ReadOn(w)
  BY <1>2, <1>3, <1>7 DEF ReadOn
<1>8. CASE Finish(w)
  BY <1>2, <1>3, <1>8 DEF Finish
<1> QED BY <1>5, <1>6, <1>7, <1>8 DEF Worked

\* Every step of a worker keeps the invariant.
LEMMA WorkerKeeps ==
  ASSUME CInv, NEW w \in Workers,
         Dispatch(w) \/ DispatchNameless(w) \/ DetailRead(w) \/ DetailUnsupported(w)
         \/ DetailOverBudget(w) \/ DetailFails(w)
  PROVE  CInv'
<1>1. Worked(w) /\ Account' /\ fan'.completed \subseteq history'.answered \cup Nameless
  BY DispatchStep, DispatchNamelessStep, DetailReadStep, DetailUnsupportedStep, DetailOverBudgetStep,
     DetailFailsStep
<1>2. /\ main.at = "fan" /\ UNCHANGED <<clock, token, upstream, main, cache, attempted>> /\ Renewed
      /\ history'.last = history.last
  BY <1>1 DEF Worked
<1>3. Calls' /\ Tokens'
  BY <1>2, RenewedKeeps DEF CInv, Typed
<1>4. Reports'
  BY <1>1, <1>2 DEF CInv, Typed, Reports, Worked
<1>5. Employed'
  BY <1>1, <1>2 DEF CInv, Employed, Worked
<1>6. InTurn'
  BY <1>2 DEF CInv, InTurn, Collector
<1>7. Unshared' /\ fan'.found \subseteq ToSet(fan'.list)
  BY <1>1, <1>2, SharedOut DEF CInv, Typed, ListRead
<1>8. ListRead'
  BY <1>1, <1>2, <1>7 DEF CInv, ListRead, Worked
<1>9. ObjectsRead'
  BY <1>2 DEF ObjectsRead
<1>10. Fair'
  <2>1. \A d : Staleness(d)' = Staleness(d)
    BY <1>2 DEF Staleness
  <2>2. Ordered(fan'.order)
    <3>1. fan.order \in Seq(Devices) /\ Ordered(fan.order)
      BY <1>2 DEF CInv, Typed, Reports, Fans, Fair
    <3> QED BY <1>1, <3>1, TailOf DEF Worked, HandOut, PassOver, ReadOn, Finish
  <2>3. Ordered(fan.order)'
    BY <2>1, <2>2 DEF Ordered
  <2>4. FanEnded => FanEnded'
    BY <1>1, <1>2 DEF Worked, FanEnded
  <2>5. \A v \in Workers : Over(get'[v]) => v # w /\ get'[v] = get[v]
    BY <1>1 DEF Worked
  <2> QED BY <1>1, <1>2, <2>3, <2>4, <2>5 DEF CInv, Fair
<1>11. ReportedAsRead' /\ CauseIsNamed'
  <2>1. history.last.collector # "device_details" /\ upstream'.listing = upstream.listing
    <3>1. main.todo \in SUBSET Kinds
      BY <1>2 DEF CInv, Typed, Reports, Mains, Idle
    <3>2. Collector \in main.todo /\ Collector = "device_details"
      BY <1>2, <3>1, CollectorIn DEF CInv, InTurn
    <3> QED BY <1>2, <3>2 DEF CInv, InTurn
  <2> QED BY <1>2, <2>1 DEF CInv, ReportedAsRead, CauseIsNamed
<1> QED BY <1>1, <1>3, <1>4, <1>5, <1>6, <1>7, <1>8, <1>9, <1>10, <1>11 DEF CInv, Typed

-----------------------------------------------------------------------------
(* The order of the fan-out. *)

\* Whether a device of a list comes before another in the order of the fan-out.
Before(list, i, j) ==
  \/ Staleness(list[i]) < Staleness(list[j])
  \/ Staleness(list[i]) = Staleness(list[j]) /\ i < j
Ahead(list, i) == {j \in 1 .. Len(list) : Before(list, j, i)}
Place(list, n) == CHOOSE i \in 1 .. Len(list) : Cardinality(Ahead(list, i)) = n - 1

\* Staleness is a number.
LEMMA StaleNat ==
  ASSUME Reports, NEW d \in Devices
  PROVE  Staleness(d) \in Nat
BY DEF Staleness, Reports

\* Every place of the order is taken by one device of the list.
LEMMA PlaceTaken ==
  ASSUME Reports, NEW list \in Seq(Devices), NEW n \in 1 .. Len(list)
  PROVE  Place(list, n) \in 1 .. Len(list) /\ Cardinality(Ahead(list, Place(list, n))) = n - 1
<1> DEFINE L == Len(list)
           I == 1 .. L
           rank == [i \in I |-> Cardinality(Ahead(list, i))]
<1>1. L \in Nat /\ IsFiniteSet(I) /\ Cardinality(I) = L
  BY FS_Interval
<1>2. \A i \in I : Staleness(list[i]) \in Nat
  BY StaleNat
<1>3. ASSUME NEW i \in I
      PROVE  /\ IsFiniteSet(Ahead(list, i)) /\ Cardinality(Ahead(list, i)) \in 0 .. L - 1
  <2>1. Ahead(list, i) \subseteq I \ {i}
    <3>1. Staleness(list[i]) \in Nat /\ i \in Nat
      BY <1>2
    <3>2. ~ Before(list, i, i)
      BY <3>1 DEF Before
    <3> QED BY <3>2 DEF Ahead
  <2>2. IsFiniteSet(I \ {i}) /\ Cardinality(I \ {i}) = L - 1
    <3> HIDE DEF I, L
    <3> QED BY <1>1, FS_RemoveElement
  <2>3. IsFiniteSet(Ahead(list, i)) /\ Cardinality(Ahead(list, i)) <= L - 1
    BY <2>1, <2>2, FS_Subset
  <2>4. Cardinality(Ahead(list, i)) \in Nat
    BY <2>3, FS_CardinalityType
  <2> QED BY <1>1, <2>3, <2>4
<1>4. ASSUME NEW i \in I, NEW j \in I, Before(list, i, j)
      PROVE  Cardinality(Ahead(list, i)) < Cardinality(Ahead(list, j))
  <2>1. Ahead(list, i) \subseteq Ahead(list, j) /\ i \in Ahead(list, j) /\ i \notin Ahead(list, i)
    BY <1>2, <1>4 DEF Ahead, Before
  <2>2. Cardinality(Ahead(list, i)) <= Cardinality(Ahead(list, j))
        /\ (Cardinality(Ahead(list, i)) = Cardinality(Ahead(list, j)) => Ahead(list, i) = Ahead(list, j))
    BY <1>3, <2>1, FS_Subset
  <2>3. Cardinality(Ahead(list, i)) \in Int /\ Cardinality(Ahead(list, j)) \in Int
    BY <1>3
  <2> QED BY <2>1, <2>2, <2>3
<1>5. rank \in [I -> 0 .. L - 1]
  BY <1>3
<1>6. \A i, j \in I : rank[i] = rank[j] => i = j
  <2>1. SUFFICES ASSUME NEW i \in I, NEW j \in I, i # j PROVE rank[i] # rank[j]
    OBVIOUS
  <2>2. Before(list, i, j) \/ Before(list, j, i)
    BY <1>2, <2>1 DEF Before
  <2>3. Cardinality(Ahead(list, i)) # Cardinality(Ahead(list, j))
    BY <1>3, <1>4, <2>2
  <2> QED BY <2>3
<1>7. rank \in Injection(I, 0 .. L - 1)
  BY <1>5, <1>6 DEF Injection, IsInjective
<1>8. IsFiniteSet(0 .. L - 1) /\ Cardinality(0 .. L - 1) = L
  <2>1. L >= 1 /\ L - 1 \in Int /\ ~ 0 > L - 1 /\ (L - 1) - 0 + 1 = L
    BY <1>1
  <2> DEFINE k == L - 1
  <2>2. k \in Int /\ ~ 0 > k /\ k - 0 + 1 = L
    BY <2>1
  <2> HIDE DEF k
  <2>3. IsFiniteSet(0 .. k) /\ Cardinality(0 .. k) = IF 0 > k THEN 0 ELSE k - 0 + 1
    <3>1. 0 \in Int
      OBVIOUS
    <3> QED BY <2>2, <3>1, FS_Interval
  <2>4. IsFiniteSet(0 .. k) /\ Cardinality(0 .. k) = L
    BY <2>2, <2>3
  <2> QED BY <2>4 DEF k
<1>9. rank \in Surjection(I, 0 .. L - 1)
  BY <1>1, <1>7, <1>8, FS_Injection
<1>10. n - 1 \in 0 .. L - 1
  BY <1>1
<1>11. \E i \in I : rank[i] = n - 1
  BY <1>9, <1>10 DEF Surjection
<1>12. \E i \in 1 .. Len(list) : Cardinality(Ahead(list, i)) = n - 1
  BY <1>11
<1> QED BY <1>12 DEF Place

\* The order of the fan-out is the list, the stalest first.
LEMMA OrderOf ==
  ASSUME Reports, NEW list \in Seq(Devices)
  PROVE  LET s == StalestFirstOrder(list)
         IN  /\ s \in Seq(Devices) /\ Len(s) = Len(list) /\ ToSet(s) \subseteq ToSet(list) /\ Ordered(s)
             /\ Distinct(list) => Distinct(s)
<1> DEFINE s == StalestFirstOrder(list)
<1>1. Len(list) \in Nat
  OBVIOUS
<1>2. s = [n \in 1 .. Len(list) |-> list[Place(list, n)]]
  BY DEF StalestFirstOrder, Place, Ahead, Before
<1> HIDE DEF s
<1>3. \A n \in 1 .. Len(list) : Place(list, n) \in 1 .. Len(list) /\ list[Place(list, n)] \in Devices
  BY PlaceTaken
<1>4. s \in Seq(Devices) /\ Len(s) = Len(list) /\ DOMAIN s = 1 .. Len(list)
  <2>1. s \in [1 .. Len(list) -> Devices]
    BY <1>2, <1>3
  <2> QED BY <1>1, <2>1
<1>5. ToSet(s) \subseteq ToSet(list)
  <2>1. DOMAIN list = 1 .. Len(list)
    OBVIOUS
  <2> QED BY <1>2, <1>3, <1>4, <2>1 DEF ToSet
<1>6. Ordered(s)
  <2>1. SUFFICES ASSUME NEW n \in 1 .. Len(list), NEW m \in 1 .. Len(list), n < m
                 PROVE  Staleness(s[n]) <= Staleness(s[m])
    BY <1>4 DEF Ordered
  <2> DEFINE i == Place(list, n)
             j == Place(list, m)
  <2>2. /\ i \in 1 .. Len(list) /\ j \in 1 .. Len(list)
        /\ Cardinality(Ahead(list, i)) = n - 1 /\ Cardinality(Ahead(list, j)) = m - 1
    BY PlaceTaken
  <2>3. s[n] = list[i] /\ s[m] = list[j]
    BY <1>2
  <2> HIDE DEF i, j
  <2>4. \A x \in 1 .. Len(list) : Staleness(list[x]) \in Nat
    BY StaleNat
  <2>5. ASSUME Staleness(list[j]) < Staleness(list[i]) PROVE FALSE
    <3>1. Ahead(list, j) \subseteq Ahead(list, i) /\ Ahead(list, i) \subseteq 1 .. Len(list)
      <4>1. Staleness(list[i]) \in Nat /\ Staleness(list[j]) \in Nat
        BY <2>2, <2>4
      <4>2. ASSUME NEW x \in 1 .. Len(list), Before(list, x, j) PROVE Before(list, x, i)
        <5>1. Staleness(list[x]) \in Nat
          BY <2>4
        <5>2. Staleness(list[x]) <= Staleness(list[j])
          BY <4>1, <4>2, <5>1 DEF Before
        <5> QED BY <2>5, <4>1, <5>1, <5>2 DEF Before
      <4> QED BY <4>2 DEF Ahead
    <3>2. IsFiniteSet(1 .. Len(list))
      BY FS_Interval
    <3>3. IsFiniteSet(Ahead(list, i))
      BY <3>1, <3>2, FS_Subset
    <3>4. Cardinality(Ahead(list, j)) <= Cardinality(Ahead(list, i))
      BY <3>1, <3>3, FS_Subset
    <3> QED BY <2>1, <2>2, <3>4
  <2> QED BY <2>2, <2>3, <2>4, <2>5
<1>7. Distinct(list) => Distinct(s)
  <2>1. SUFFICES ASSUME Distinct(list), NEW n \in 1 .. Len(list), NEW m \in 1 .. Len(list), n # m
                 PROVE  s[n] # s[m]
    BY <1>4 DEF Distinct
  <2>2. Place(list, n) # Place(list, m)
    BY <2>1, PlaceTaken
  <2> QED BY <1>2, <1>3, <2>1, <2>2 DEF Distinct
<1> QED BY <1>4, <1>5, <1>6, <1>7 DEF s


-----------------------------------------------------------------------------
(* What a collector reports. *)

\* The fields of the collector under way.
LEMMA MainIn ==
  ASSUME CInv, main.at # "idle"
  PROVE  /\ main.todo \in SUBSET Kinds
         /\ main.at \in {"next", "fan", "page", "dns", "log_streaming"}
         /\ main.at = "page" => main.page \in Nat \ {0} /\ main.items \in Seq(Devices) /\ main.bytes \in Nat
         /\ main.at \in {"dns", "log_streaming"} =>
              main.step \in 0 .. 4 /\ main.read \in Nat /\ main.forbidden \in Nat
BY DEF CInv, Typed, Reports, Mains, Idle

\* What is reported as complete, and as unsupported.
LEMMA KindIn ==
  ASSUME NEW e \in Results, NEW found
  PROVE  /\ Kind(e, found) \in {"complete", "unsupported", "partial", "failed"}
         /\ Kind(e, found) = "complete" <=> e = "none"
         /\ Kind(e, found) = "unsupported" =>
              Collector \notin {"devices", "device_details"} /\ e \in {"forbidden", "missing"}
BY DEF Kind, IsUnsupportedCollector, IsUnsupported

\* A collector that reports leaves the poll at the next one.
LEMMA Reported ==
  ASSUME CInv, main.at # "idle", main.todo # {}, NEW h \in Histories, NEW e \in Results,
         NEW found \in SUBSET Devices, Report(h, e, found),
         h.refused = history.refused, h.bytes = history.bytes,
         fan'.bytes <= MaxBytes, upstream'.listing = upstream.listing,
         cache'.known => cache'.list = upstream.listing
  PROVE  /\ main' \in Mains /\ main'.at = "next" /\ history' \in Histories
         /\ history'.refused = h.refused /\ history'.over = h.over
         /\ history'.last.collector = Collector /\ history'.last.kind = Kind(e, found)
         /\ history'.last.error = e /\ history'.last.found = found /\ history'.last.read = h.read
         /\ InTurn' /\ ListRead' /\ ObjectsRead' /\ Account' /\ Fair' /\ Unshared'
<1>1. main.todo \in SUBSET Kinds /\ Collector \in main.todo
  BY MainIn, CollectorIn
<1> DEFINE r == [collector |-> Collector, kind |-> Kind(e, found), error |-> e, found |-> found, read |-> h.read]
<1>2. /\ main' = [at |-> "next", todo |-> main.todo \ {Collector}]
      /\ history' = [h EXCEPT !.last = r]
  BY DEF Report
<1>3. r \in Lasts
  <2>1. h.read \in Nat /\ Collector \in Kinds
    BY <1>1 DEF Histories
  <2> QED BY <2>1, KindIn DEF Lasts
<1>4. /\ r.collector = Collector /\ r.kind = Kind(e, found) /\ r.error = e /\ r.found = found
      /\ r.read = h.read
  OBVIOUS
<1> HIDE DEF r
<1>5. main' \in Mains /\ main'.at = "next" /\ main'.todo = main.todo \ {Collector}
  BY <1>1, <1>2 DEF Mains
<1>6. /\ history' \in Histories /\ history'.refused = h.refused /\ history'.over = h.over
      /\ history'.bytes = h.bytes /\ history'.last = r
  BY <1>2, <1>3 DEF Histories
<1>7. InTurn'
  <2>1. "device_details" \in main'.todo => ~ history.refused
    BY <1>5 DEF CInv, InTurn
  <2> QED BY <1>4, <1>5, <1>6, <2>1 DEF InTurn
<1>8. ListRead'
  BY <1>5 DEF ListRead
<1>9. ObjectsRead' /\ Fair' /\ Unshared'
  BY <1>5 DEF ObjectsRead, Fair, Unshared
<1>10. Account'
  BY <1>5, <1>6 DEF CInv, Account
<1> QED BY <1>4, <1>5, <1>6, <1>7, <1>8, <1>9, <1>10

\* While no worker has a device, Main begins a request or drops those of the workers.
Alone ==
  /\ \A w \in Workers : job[w] = NoJob
  /\ job' = job
  /\ Renewed
  /\ \A w \in Workers : get'[w] \in {get[w], NoGet}

\* Outside a fan-out no worker has a device.
LEMMA NobodyWorks ==
  ASSUME CInv, main.at # "fan"
  PROVE  \A w \in Workers : job[w] = NoJob
BY DEF CInv, Employed

\* What Main's own steps keep of the callers.
LEMMA AloneKeeps ==
  ASSUME CInv, Alone
  PROVE  Calls' /\ Tokens' /\ Employed' /\ job' \in [Workers -> {NoJob} \cup Jobs]
<1>1. Calls' /\ Tokens'
  BY RenewedKeeps DEF CInv, Typed, Alone
<1>2. Employed'
  BY DEF CInv, Employed, Alone
<1>3. job' \in [Workers -> {NoJob} \cup Jobs]
  BY DEF CInv, Typed, Reports, Alone
<1> QED BY <1>1, <1>2, <1>3

\* The ways in which Main's own steps change the requests.
LEMMA Quiet ==
  ASSUME CInv, \A w \in Workers : job[w] = NoJob, UNCHANGED <<token, job>>, clock' \in 0 .. PollTime,
         upstream' \in [issued : Nat, accepted : SUBSET Nat, listing : Listings],
         upstream'.issued = upstream.issued,
         NEW t,
         \/ UNCHANGED get
         \/ Ask
         \/ get' = [get EXCEPT ![Main] = [NewGet EXCEPT !.deadline = t]]
         \/ Forget
  PROVE  Alone
<1>1. Calls /\ Main \in Callers /\ Main \notin Workers /\ Workers \subseteq Callers
  BY ClientAssumption DEF CInv, Typed, Callers
<1>2. CASE UNCHANGED get
  BY <1>1, <1>2 DEF Alone, Renewed, Calls
<1>3. CASE Ask \/ get' = [get EXCEPT ![Main] = [NewGet EXCEPT !.deadline = t]]
  <2>1. PICK g : Fresh(g) /\ get' = [get EXCEPT ![Main] = g]
    BY <1>3, NewIsFresh DEF Ask
  <2> QED BY <1>1, <2>1, Asked DEF Alone, Renewed
<1>4. CASE Forget
  BY <1>1, <1>4, NoGetIsFresh DEF Forget, Alone, Renewed
<1> QED BY <1>2, <1>3, <1>4

-----------------------------------------------------------------------------
(* The walk over the device list. *)

\* A page continues the list where the pages before it ended.
LEMMA PageRead ==
  ASSUME CInv, main.at = "page"
  PROVE  /\ IsLast(main.page) => Items = upstream.listing
         /\ ~ IsLast(main.page) => /\ main.page * PageSize < Len(upstream.listing)
                                   /\ Items = SubSeq(upstream.listing, 1, main.page * PageSize)
         /\ Items \in Seq(Devices)
<1> DEFINE s == upstream.listing
           lo == (main.page - 1) * PageSize
           end == main.page * PageSize
           hi == Min({end, Len(s)})
<1>1. s \in Seq(Devices) /\ Len(s) \in Nat
  <2>1. s \in Listings
    BY DEF CInv, Typed, Calls
  <2> QED BY <2>1, ClientAssumption
<1>2. main.page \in Nat \ {0} /\ PageSize \in Nat \ {0}
  BY MainIn, ClientAssumption
<1>3. lo \in Nat /\ end \in Nat /\ end = lo + PageSize /\ (main.page = 1 => lo = 0)
  <2>1. PICK n \in Nat : main.page = n + 1
    <3>1. main.page - 1 \in Nat /\ main.page = (main.page - 1) + 1
      BY <1>2
    <3> QED BY <3>1
  <2>2. lo = n * PageSize /\ end = (n + 1) * PageSize
    <3>1. main.page - 1 = n
      BY <2>1
    <3> QED BY <2>1, <3>1
  <2>3. n * PageSize \in Nat /\ (n + 1) * PageSize = n * PageSize + PageSize
    BY <1>2
  <2>4. main.page = 1 => n * PageSize = 0
    <3>1. main.page = 1 => n = 0
      BY <2>1
    <3>2. 0 * PageSize = 0
      BY <1>2
    <3> QED BY <3>1, <3>2
  <2> HIDE DEF lo, end
  <2> QED BY <1>2, <2>2, <2>3, <2>4
<1>4. (main.page = 1 \/ lo < Len(s)) /\ main.items = SubSeq(s, 1, lo)
  BY DEF CInv, ListRead
<1>5. /\ Items = main.items \o SubSeq(s, lo + 1, hi)
      /\ IsLast(main.page) <=> end >= Len(s)
  BY DEF Items, PageOf, IsLast
<1>6. hi \in Nat /\ (end >= Len(s) => hi = Len(s)) /\ (end < Len(s) => hi = end)
  <2> HIDE DEF end, s
  <2> QED BY <1>1, <1>3 DEF Min
<1> HIDE DEF lo, end, hi, s
<1>7. lo <= Len(s) /\ lo <= hi /\ hi <= Len(s)
  BY <1>1, <1>2, <1>3, <1>4, <1>6
<1>8. SubSeq(s, 1, lo) \o SubSeq(s, lo + 1, hi) = SubSeq(s, 1, hi)
  <2>1. 1 \in 1 .. Len(s) + 1 /\ lo \in 1 - 1 .. Len(s) /\ hi \in lo .. Len(s)
    BY <1>1, <1>3, <1>6, <1>7
  <2> QED BY <1>1, <2>1, ConcatAdjacentSubSeq
<1>9. Items = SubSeq(s, 1, hi)
  BY <1>4, <1>5, <1>8
<1>10. Items \in Seq(Devices)
  <2>1. \A i \in 1 .. hi : s[i] \in Devices
    BY <1>1, <1>6, <1>7
  <2>2. 1 \in Int /\ hi \in Int
    BY <1>6
  <2>3. SubSeq(s, 1, hi) \in Seq(Devices)
    BY <2>1, <2>2, SubSeqProperties
  <2> QED BY <1>9, <2>3
<1>11. SubSeq(s, 1, Len(s)) = s
  BY <1>1, SubSeqFull
<1>12. IsLast(main.page) => Items = s
  BY <1>5, <1>6, <1>9, <1>11
<1>13. ~ IsLast(main.page) => end < Len(s) /\ Items = SubSeq(s, 1, end)
  <2>1. end >= Len(s) \/ end < Len(s)
    BY <1>1, <1>3
  <2>2. end < Len(s) => hi = end
    BY <1>6
  <2>3. end < Len(s) => Items = SubSeq(s, 1, end)
    BY <1>9, <2>2
  <2> QED BY <1>5, <2>1, <2>3
<1> QED BY <1>10, <1>12, <1>13 DEF s, end

\* The list of a poll holds no device twice.
LEMMA ListDistinct ==
  ASSUME CInv
  PROVE  /\ upstream.listing \in Seq(Devices) /\ Cardinality(ToSet(upstream.listing)) = Len(upstream.listing)
         /\ Distinct(upstream.listing) /\ IsFiniteSet(ToSet(upstream.listing))
<1> DEFINE s == upstream.listing
           I == 1 .. Len(s)
           S == ToSet(s)
<1>1. s \in Seq(Devices) /\ Cardinality(S) = Len(s)
  <2>1. s \in Listings
    BY DEF CInv, Typed, Calls
  <2> QED BY <2>1, ClientAssumption
<1>2. S = {s[i] : i \in I}
  <2>1. DOMAIN s = 1 .. Len(s)
    BY <1>1
  <2> HIDE DEF s
  <2> QED BY <2>1 DEF ToSet
<1>3. IsFiniteSet(I) /\ Cardinality(I) = Len(s)
  <2>1. Len(s) \in Nat /\ Len(s) \in Int /\ 1 \in Int
    BY <1>1
  <2>2. IsFiniteSet(1 .. Len(s)) /\ Cardinality(1 .. Len(s)) = IF 1 > Len(s) THEN 0 ELSE Len(s) - 1 + 1
    BY <2>1, FS_Interval
  <2> QED BY <2>1, <2>2
<1> HIDE DEF s, I, S
<1> DEFINE f == [i \in I |-> s[i]]
<1>4. f \in Surjection(I, S)
  BY <1>2 DEF Surjection
<1>5. IsFiniteSet(S) /\ Cardinality(S) <= Cardinality(I) /\ (Cardinality(S) = Cardinality(I) <=> f \in Injection(I, S))
  BY <1>3, <1>4, FS_Surjection
<1>6. f \in Injection(I, S)
  BY <1>1, <1>3, <1>5
<1>7. \A i, j \in I : i # j => s[i] # s[j]
  BY <1>6 DEF Injection, IsInjective
<1> QED BY <1>1, <1>5, <1>7 DEF Distinct, s, I, S

-----------------------------------------------------------------------------
(* The fan-out opens with the list of this poll. *)

\* The fan-out over the list of this poll, or its empty answer.
LEMMA FanOpened ==
  ASSUME CInv, main.at \notin {"idle", "fan"}, main.todo # {}, Collector = "device_details",
         FanOut(upstream.listing), UNCHANGED <<job, upstream, attempted>>,
         \A w \in Workers : get'[w] \in {get[w], NoGet},
         cache'.known => cache'.list = upstream.listing
  PROVE  /\ main' \in Mains /\ fan' \in Fans /\ history' \in Histories
         /\ InTurn' /\ ListRead' /\ ObjectsRead' /\ Account' /\ Fair' /\ Unshared'
         /\ ReportedAsRead' /\ CauseIsNamed'
<1> DEFINE list == upstream.listing
<1>1. /\ list \in Seq(Devices) /\ Distinct(list) /\ history \in Histories /\ fan \in Fans
      /\ fan.bytes <= MaxBytes
  BY ListDistinct DEF CInv, Typed, Reports, Account
<1>2. /\ main.todo \in SUBSET Kinds /\ Collector \in main.todo
      /\ history.last.collector \notin main.todo
  BY MainIn, CollectorIn DEF CInv, InTurn
<1>3. CASE list = <<>>
  <2>1. Report(history, "none", {}) /\ UNCHANGED fan
    BY <1>3 DEF FanOut
  <2>2. "none" \in Results /\ ToSet(list) = {}
    BY <1>3 DEF Results, ToSet
  <2>3. /\ main' \in Mains /\ main'.at = "next" /\ history' \in Histories
        /\ history'.last.collector = Collector /\ history'.last.kind = Kind("none", {})
        /\ history'.last.error = "none" /\ history'.last.found = {}
        /\ InTurn' /\ ListRead' /\ ObjectsRead' /\ Account' /\ Fair' /\ Unshared'
    BY <1>1, <1>2, <2>1, <2>2, Reported
  <2>4. Kind("none", {}) = "complete"
    BY DEF Kind
  <2>5. ReportedAsRead' /\ CauseIsNamed'
    BY <2>2, <2>3, <2>4 DEF ReportedAsRead, CauseIsNamed
  <2> QED BY <1>1, <2>1, <2>3, <2>5
<1>4. CASE list # <<>>
  <2> DEFINE order == StalestFirstOrder(list)
  <2>1. /\ main' = [at |-> "fan", todo |-> main.todo]
        /\ fan' = [NoFan EXCEPT !.list = list, !.order = order]
        /\ history' = [history EXCEPT !.answered = {}, !.refused = FALSE, !.over = FALSE, !.bytes = 0]
    BY <1>4 DEF FanOut
  <2>2. order \in Seq(Devices) /\ ToSet(order) \subseteq ToSet(list) /\ Ordered(order) /\ Distinct(order)
    BY <1>1, OrderOf DEF CInv, Typed
  <2> HIDE DEF order, list
  <2>3. main' \in Mains /\ main'.at = "fan" /\ main'.todo = main.todo
    BY <1>2, <2>1 DEF Mains
  <2>4. /\ fan' \in Fans /\ fan'.list = list /\ fan'.order = order /\ fan'.bytes = 0 /\ ~ fan'.over
        /\ fan'.found = {} /\ fan'.completed = {}
    <3>1. "none" \in Results
      BY DEF Results
    <3> QED BY <1>1, <2>1, <2>2, <3>1 DEF Fans, NoFan
  <2>5. /\ history' \in Histories /\ history'.answered = {} /\ ~ history'.refused /\ history'.bytes = 0
        /\ history'.last = history.last
    BY <1>1, <2>1 DEF Histories
  <2>6. InTurn'
    <3>1. Collector' = Collector
      BY <2>3 DEF Collector
    <3> QED BY <1>2, <2>3, <2>5, <3>1 DEF InTurn
  <2>7. ListRead' /\ ObjectsRead'
    BY <2>3, <2>4 DEF ListRead, ObjectsRead, list
  <2>8. Account'
    BY <2>3, <2>4, <2>5, ClientAssumption DEF Account
  <2>9. \A w \in Workers : job[w] = NoJob /\ get'[w] = NoGet
    BY NobodyWorks DEF CInv, Employed
  <2>10. Fair'
    <3>2. ~ Over(NoGet)
      BY NoGetIsFresh DEF Fresh
    <3>3. fan'.order = order /\ fan'.completed \subseteq history'.answered \cup Nameless
      BY <2>4
    <3>4. Ordered(fan.order)'
      BY <2>2, <3>3 DEF Ordered, Staleness
    <3> QED BY <2>9, <3>2, <3>3, <3>4 DEF Fair
  <2>11. Unshared'
    BY <2>2, <2>4, <2>9 DEF Unshared, Distinct
  <2>12. ReportedAsRead' /\ CauseIsNamed'
    <3>1. main'.at # "idle" /\ upstream' = upstream
      BY <2>3
    <3> QED BY <1>2, <2>5, <3>1 DEF CInv, ReportedAsRead, CauseIsNamed
  <2> QED BY <2>3, <2>4, <2>5, <2>6, <2>7, <2>8, <2>10, <2>11, <2>12
<1> QED BY <1>3, <1>4

-----------------------------------------------------------------------------
(* The steps of the poll. *)

\* The invariant holds at the start.
LEMMA InitKeeps ==
  ASSUME Init
  PROVE  CInv
<1>1. /\ clock = 0 /\ token = NoToken /\ get = [c \in Callers |-> NoGet] /\ job = [w \in Workers |-> NoJob]
      /\ main = Idle /\ fan = NoFan /\ cache = NoList /\ history = NoHistory
      /\ attempted = [poll |-> 0, of |-> [d \in Devices |-> 0]]
      /\ upstream \in [issued : {0}, accepted : {{}}, listing : Listings]
  BY DEF Init
<1>2. "none" \in Results /\ <<>> \in Seq(Devices) /\ 0 \in 0 .. PollTime /\ 0 \in Nat /\ 0 <= MaxBytes
  BY ClientAssumption DEF Results
<1>3. Calls
  BY <1>1, <1>2, NoGetIsFresh DEF Calls, NoToken, Fresh
<1>4. Reports
  BY <1>1, <1>2 DEF Reports, Mains, Fans, NoFan, NoList, NoHistory, Histories, Lasts, NoLast
<1>5. Tokens
  BY <1>1, NoGetIsFresh DEF Tokens, NoToken, Underway, NoGet
<1>6. Employed
  BY <1>1, ClientAssumption DEF Employed, Callers
<1>7. main.at = "idle"
  BY <1>1 DEF Idle
<1>8. history.last = NoLast /\ ~ history.refused /\ history.bytes = 0 /\ fan.bytes = 0
  BY <1>1 DEF NoHistory, NoLast, NoFan
<1>9. InTurn /\ ListRead /\ ObjectsRead /\ Fair /\ Unshared /\ Account
  BY <1>2, <1>7, <1>8 DEF InTurn, ListRead, ObjectsRead, Fair, Unshared, Account
<1>10. ReportedAsRead /\ CauseIsNamed
  BY <1>8 DEF ReportedAsRead, CauseIsNamed, NoLast
<1> QED BY <1>3, <1>4, <1>5, <1>6, <1>9, <1>10 DEF CInv, Typed

\* A new poll asks anew, without a list.
LEMMA BeginPollKeeps ==
  ASSUME CInv, BeginPoll
  PROVE  CInv'
<1>1. /\ main.at = "idle" /\ UNCHANGED <<clock, token, get, job, fan, attempted>> /\ cache' = NoList
      /\ history' = [history EXCEPT !.polls = @ + 1] /\ history \in Histories /\ clock \in 0 .. PollTime
  BY DEF BeginPoll, CInv, Typed, Calls, Reports
<1>2. PICK asked \in Groups : main' = [at |-> "next", todo |-> asked]
  BY DEF BeginPoll
<1>3. PICK l \in Listings : upstream' = [upstream EXCEPT !.listing = l]
  BY DEF BeginPoll
<1>4. asked \in SUBSET Kinds
  BY ClientAssumption DEF Kinds
<1>5. main' \in Mains /\ main'.at = "next" /\ main'.todo = asked
  BY <1>2, <1>4 DEF Mains
<1>6. /\ upstream' \in [issued : Nat, accepted : SUBSET Nat, listing : Listings]
      /\ upstream'.issued = upstream.issued
  BY <1>3 DEF CInv, Typed, Calls
<1>7. /\ history' \in Histories /\ history'.last = history.last /\ history'.refused = history.refused
      /\ history'.bytes = history.bytes
  BY <1>1 DEF Histories
<1>8. Alone
  BY <1>1, <1>6, NobodyWorks, Quiet
<1>9. Calls' /\ Tokens' /\ Employed' /\ job' \in [Workers -> {NoJob} \cup Jobs]
  BY <1>8, AloneKeeps
<1>10. Reports'
  BY <1>1, <1>5, <1>7, <1>9 DEF CInv, Typed, Reports, NoList
<1>11. history.last = NoLast /\ ~ history.refused
  BY <1>1 DEF CInv, InTurn
<1>12. NoLast.collector \notin Kinds
  BY DEF NoLast, Kinds
<1>13. InTurn'
  BY <1>4, <1>5, <1>7, <1>11, <1>12 DEF InTurn
<1>14. ListRead' /\ ObjectsRead' /\ Fair' /\ Unshared' /\ Account'
  BY <1>1, <1>5, <1>7 DEF ListRead, ObjectsRead, Fair, Unshared, Account, NoList, CInv
<1>15. ReportedAsRead' /\ CauseIsNamed'
  BY <1>7, <1>11 DEF ReportedAsRead, CauseIsNamed, NoLast
<1> QED BY <1>9, <1>10, <1>13, <1>14, <1>15 DEF CInv, Typed

\* The poll ends and forgets.
LEMMA EndPollKeeps ==
  ASSUME CInv, EndPoll
  PROVE  CInv'
<1>1. /\ main.at = "next" /\ UNCHANGED <<token, upstream, get, job, fan, cache, attempted>>
      /\ main' = Idle /\ clock' = 0 /\ history \in Histories
      /\ upstream \in [issued : Nat, accepted : SUBSET Nat, listing : Listings]
  BY DEF EndPoll, CInv, Typed, Calls, Reports
<1>2. main' \in Mains /\ main'.at = "idle"
  BY <1>1 DEF Mains, Idle
<1>3. history' \in Histories /\ history'.last = NoLast /\ ~ history'.refused /\ history'.bytes = 0
  <2>1. history' = [NoHistory EXCEPT !.polls = history.polls, !.faults = history.faults, !.expiries = history.expiries]
    BY DEF EndPoll
  <2> QED BY <1>1, <2>1 DEF Histories, NoHistory, Lasts, NoLast
<1>4. clock' \in 0 .. PollTime /\ 0 <= MaxBytes
  BY <1>1, ClientAssumption
<1>5. Alone
  BY <1>1, <1>4, NobodyWorks, Quiet
<1>6. Calls' /\ Tokens' /\ Employed' /\ job' \in [Workers -> {NoJob} \cup Jobs]
  BY <1>5, AloneKeeps
<1>7. Reports'
  BY <1>1, <1>2, <1>3, <1>6 DEF CInv, Typed, Reports
<1>8. InTurn' /\ ListRead' /\ ObjectsRead' /\ Fair' /\ Unshared' /\ Account'
  BY <1>1, <1>2, <1>3, <1>4 DEF InTurn, ListRead, ObjectsRead, Fair, Unshared, Account, CInv
<1>9. ReportedAsRead' /\ CauseIsNamed'
  BY <1>3 DEF ReportedAsRead, CauseIsNamed, NoLast
<1> QED BY <1>6, <1>7, <1>8, <1>9 DEF CInv, Typed

\* A walk starts at the first page.
LEMMA WalkStarted ==
  ASSUME CInv, main.at = "next", main.todo # {}, Collector \in {"devices", "device_details"}, main' = Walk,
         UNCHANGED <<job, upstream, fan, cache, attempted, history>>
  PROVE  /\ main' \in Mains /\ InTurn' /\ ListRead' /\ ObjectsRead' /\ Account' /\ Fair' /\ Unshared'
         /\ ReportedAsRead' /\ CauseIsNamed'
<1>1. main.todo \in SUBSET Kinds
  BY MainIn
<1>2. main' = [at |-> "page", todo |-> main.todo, page |-> 1, items |-> <<>>, bytes |-> 0]
  BY DEF Walk
<1>3. /\ main' \in Mains /\ main'.at = "page" /\ main'.todo = main.todo /\ main'.page = 1
      /\ main'.items = <<>>
  BY <1>1, <1>2 DEF Mains
<1>4. InTurn'
  <2>1. Collector' = Collector
    BY <1>3 DEF Collector
  <2> QED BY <1>3, <2>1 DEF CInv, InTurn
<1>5. ListRead'
  <2>1. (1 - 1) * PageSize = 0
    BY ClientAssumption
  <2>2. SubSeq(upstream.listing, 1, 0) = <<>>
    <3>1. 1 \in Int /\ 0 \in Int /\ 0 < 1
      OBVIOUS
    <3> QED BY <3>1, SubSeqEmpty
  <2> QED BY <1>3, <2>1, <2>2 DEF CInv, ListRead
<1>6. ObjectsRead' /\ Account' /\ Fair' /\ Unshared'
  BY <1>3 DEF CInv, ObjectsRead, Account, Fair, Unshared
<1>7. ReportedAsRead' /\ CauseIsNamed'
  BY <1>3 DEF CInv, ReportedAsRead, CauseIsNamed
<1> QED BY <1>3, <1>4, <1>5, <1>6, <1>7

\* The walk over the device list begins.
LEMMA CollectDevicesKeeps ==
  ASSUME CInv, CollectDevices
  PROVE  CInv'
<1>1. /\ main.at = "next" /\ main.todo # {} /\ Collector = "devices" /\ main' = Walk
      /\ UNCHANGED <<token, upstream, job, fan, cache, attempted, history>> /\ clock' = 0
      /\ upstream \in [issued : Nat, accepted : SUBSET Nat, listing : Listings]
  BY DEF CollectDevices, Starts, CInv, Typed, Calls
<1>2. clock' \in 0 .. PollTime
  BY <1>1, ClientAssumption
<1>3. Alone
  BY <1>1, <1>2, NobodyWorks, Quiet DEF CollectDevices, AskAfresh
<1>4. Calls' /\ Tokens' /\ Employed' /\ job' \in [Workers -> {NoJob} \cup Jobs]
  BY <1>3, AloneKeeps
<1>5. /\ main' \in Mains /\ InTurn' /\ ListRead' /\ ObjectsRead' /\ Account' /\ Fair' /\ Unshared'
      /\ ReportedAsRead' /\ CauseIsNamed'
  BY <1>1, WalkStarted
<1>6. Reports'
  BY <1>1, <1>4, <1>5 DEF CInv, Typed, Reports
<1> QED BY <1>4, <1>5, <1>6 DEF CInv, Typed

\* The details begin with the list of this poll, read before or now.
LEMMA CollectDetailsKeeps ==
  ASSUME CInv, CollectDetails
  PROVE  CInv'
<1>1. /\ main.at = "next" /\ main.todo # {} /\ Collector = "device_details"
      /\ UNCHANGED <<token, upstream, job, cache, attempted>> /\ clock' = 0
      /\ upstream \in [issued : Nat, accepted : SUBSET Nat, listing : Listings]
  BY DEF CollectDetails, Starts, CInv, Typed, Calls
<1>2. clock' \in 0 .. PollTime
  BY <1>1, ClientAssumption
<1>3. Alone
  BY <1>1, <1>2, NobodyWorks, Quiet DEF CollectDetails, AskAfresh
<1>4. Calls' /\ Tokens' /\ Employed' /\ job' \in [Workers -> {NoJob} \cup Jobs]
  BY <1>3, AloneKeeps
<1>5. /\ main' \in Mains /\ fan' \in Fans /\ history' \in Histories
      /\ InTurn' /\ ListRead' /\ ObjectsRead' /\ Account' /\ Fair' /\ Unshared'
      /\ ReportedAsRead' /\ CauseIsNamed'
  <2>1. cache.known => cache.list = upstream.listing
    BY <1>1 DEF CInv, ListRead
  <2>2. CASE cache.known
    <3>1. FanOut(upstream.listing) /\ UNCHANGED get
      BY <2>1, <2>2 DEF CollectDetails
    <3> QED BY <1>1, <2>1, <3>1, FanOpened
  <2>3. CASE ~ cache.known
    <3>1. main' = Walk /\ UNCHANGED <<fan, history>>
      BY <2>3 DEF CollectDetails
    <3>2. fan' \in Fans /\ history' \in Histories
      BY <3>1 DEF CInv, Typed, Reports
    <3> QED BY <1>1, <3>1, <3>2, WalkStarted
  <2> QED BY <2>2, <2>3
<1>6. Reports'
  BY <1>1, <1>4, <1>5 DEF CInv, Typed, Reports
<1> QED BY <1>4, <1>5, <1>6 DEF CInv, Typed

\* A fault spent leaves the rest of the memory alone.
LEMMA FaultCounted ==
  ASSUME history \in Histories
  PROVE  /\ SpendFault \in Histories /\ SpendFault.refused = history.refused /\ SpendFault.over = history.over
         /\ SpendFault.bytes = history.bytes /\ SpendFault.read = history.read
         /\ SpendFault.last = history.last
<1> DEFINE n == history.faults + 1
<1>1. n \in Nat /\ SpendFault = [history EXCEPT !.faults = n]
  BY DEF Histories, SpendFault
<1> HIDE DEF n
<1> QED BY <1>1 DEF Histories

\* A walk that fails reports its failure.
LEMMA WalkFailsKeeps ==
  ASSUME CInv, main.at = "page", NEW h \in {history, SpendFault}, NEW e \in Results \ {"none"}, WalkFails(h, e)
  PROVE  CInv'
<1>1. /\ Report(h, e, {}) /\ Forget /\ UNCHANGED <<clock, token, upstream, job, fan, attempted>>
      /\ cache' = (IF Collector = "devices" THEN NoList ELSE cache)
      /\ upstream \in [issued : Nat, accepted : SUBSET Nat, listing : Listings] /\ clock \in 0 .. PollTime
  BY DEF WalkFails, CInv, Typed, Calls
<1>2. /\ main.todo # {} /\ Collector \in {"devices", "device_details"} /\ Collector \in main.todo
      /\ ("device_details" \in main.todo => ~ history.refused)
  BY MainIn, CollectorIn DEF CInv, InTurn
<1>3. /\ h \in Histories /\ h.refused = history.refused /\ h.bytes = history.bytes
  BY FaultCounted DEF CInv, Typed, Reports
<1>4. /\ cache' \in [known : BOOLEAN, list : Seq(Devices), poll : Nat]
      /\ cache'.known => cache'.list = upstream.listing
  BY <1>1 DEF CInv, Typed, Reports, ListRead, NoList
<1>5. Alone
  BY <1>1, NobodyWorks, Quiet
<1>6. Calls' /\ Tokens' /\ Employed' /\ job' \in [Workers -> {NoJob} \cup Jobs]
  BY <1>5, AloneKeeps
<1>7. fan'.bytes <= MaxBytes /\ {} \in SUBSET Devices
  BY <1>1 DEF CInv, Account
<1>8. /\ main' \in Mains /\ main'.at = "next" /\ history' \in Histories
      /\ history'.refused = h.refused
      /\ history'.last.collector = Collector /\ history'.last.kind = Kind(e, {})
      /\ InTurn' /\ ListRead' /\ ObjectsRead' /\ Account' /\ Fair' /\ Unshared'
  BY <1>1, <1>2, <1>3, <1>4, <1>7, Reported
<1>9. Reports'
  BY <1>1, <1>4, <1>6, <1>8 DEF CInv, Typed, Reports
<1>10. Kind(e, {}) \notin {"complete", "unsupported"}
  BY <1>2, KindIn
<1>11. ReportedAsRead' /\ CauseIsNamed'
  BY <1>2, <1>3, <1>8, <1>10 DEF ReportedAsRead, CauseIsNamed
<1> QED BY <1>6, <1>8, <1>9, <1>11 DEF CInv, Typed

\* The three ways in which a walk fails.
LEMMA PageEndsKeeps ==
  ASSUME CInv, TooMuch \/ UnusablePage \/ PageFails
  PROVE  CInv'
<1>1. "invalid" \in Results \ {"none"}
  BY DEF Results
<1>2. ASSUME main.at = "page", get[Main].at = "failed" PROVE get[Main].error \in Results \ {"none"}
  <2>1. Request(get[Main])
    BY DEF CInv, Typed, Calls, Callers
  <2> QED BY <1>2, <2>1 DEF Request, NoGet, Underway, Over
<1>3. CASE TooMuch
  BY <1>1, <1>3, WalkFailsKeeps DEF TooMuch, Reading
<1>4. CASE UnusablePage
  BY <1>1, <1>4, WalkFailsKeeps DEF UnusablePage, Reading
<1>5. CASE PageFails
  BY <1>2, <1>5, WalkFailsKeeps DEF PageFails
<1> QED BY <1>3, <1>4, <1>5

\* A page follows the one before it.
LEMMA NextPageKeeps ==
  ASSUME CInv, NextPage
  PROVE  CInv'
<1>1. /\ main.at = "page" /\ ~ IsLast(main.page) /\ Ask
      /\ UNCHANGED <<clock, token, upstream, job, fan, cache, attempted, history>>
      /\ upstream \in [issued : Nat, accepted : SUBSET Nat, listing : Listings] /\ clock \in 0 .. PollTime
  BY DEF NextPage, Reading, CInv, Typed, Calls
<1>2. PICK size \in Sizes : main' = [main EXCEPT !.page = @ + 1, !.items = Items, !.bytes = @ + size]
  BY DEF NextPage
<1> DEFINE next == main.page + 1
           total == main.bytes + size
<1>3. /\ main.page \in Nat \ {0} /\ main.bytes \in Nat /\ size \in Nat /\ main.todo \in SUBSET Kinds
      /\ main \in Mains
  BY <1>1, MainIn, ClientAssumption DEF CInv, Typed, Reports
<1>4. next \in Nat \ {0} /\ next - 1 = main.page /\ total \in Nat
  BY <1>3
<1>5. main' = [main EXCEPT !.page = next, !.items = Items, !.bytes = total]
  BY <1>2
<1> HIDE DEF next, total
<1>6. /\ main.page * PageSize < Len(upstream.listing) /\ Items \in Seq(Devices)
      /\ Items = SubSeq(upstream.listing, 1, main.page * PageSize)
  BY <1>1, PageRead
<1>7. /\ main' \in Mains /\ main'.at = "page" /\ main'.todo = main.todo
      /\ main'.page = next /\ main'.items = Items
  <2>1. main \in [at : {"page"}, todo : SUBSET Kinds, page : Nat \ {0}, items : Seq(Devices), bytes : Nat]
    BY <1>1, <1>3 DEF Mains, Idle
  <2>2. main' \in [at : {"page"}, todo : SUBSET Kinds, page : Nat \ {0}, items : Seq(Devices), bytes : Nat]
    BY <1>4, <1>5, <1>6, <2>1
  <2>3. main' \in Mains
    BY <2>2 DEF Mains
  <2> QED BY <1>5, <2>1, <2>2, <2>3
<1>8. Alone
  BY <1>1, NobodyWorks, Quiet
<1>9. Calls' /\ Tokens' /\ Employed' /\ job' \in [Workers -> {NoJob} \cup Jobs]
  BY <1>8, AloneKeeps
<1>10. Reports'
  BY <1>1, <1>7, <1>9 DEF CInv, Typed, Reports
<1>11. InTurn'
  <2>1. Collector' = Collector
    BY <1>7 DEF Collector
  <2> QED BY <1>1, <1>7, <2>1 DEF CInv, InTurn
<1>12. ListRead'
  BY <1>1, <1>4, <1>6, <1>7 DEF CInv, ListRead
<1>13. ObjectsRead' /\ Account' /\ Fair' /\ Unshared'
  BY <1>1, <1>7 DEF CInv, ObjectsRead, Account, Fair, Unshared
<1>14. ReportedAsRead' /\ CauseIsNamed'
  BY <1>1, <1>7 DEF CInv, ReportedAsRead, CauseIsNamed
<1> QED BY <1>9, <1>10, <1>11, <1>12, <1>13, <1>14 DEF CInv, Typed

\* The last page completes the list.
LEMMA LastPageKeeps ==
  ASSUME CInv, LastPage
  PROVE  CInv'
<1>1. /\ main.at = "page" /\ IsLast(main.page) /\ Forget /\ cache' = Cached(Items)
      /\ UNCHANGED <<clock, token, upstream, job, attempted>>
      /\ upstream \in [issued : Nat, accepted : SUBSET Nat, listing : Listings] /\ clock \in 0 .. PollTime
      /\ history \in Histories /\ fan \in Fans
  BY DEF LastPage, Reading, CInv, Typed, Calls, Reports
<1>2. Items = upstream.listing /\ upstream.listing \in Seq(Devices)
  BY <1>1, PageRead
<1>3. /\ main.todo # {} /\ Collector \in {"devices", "device_details"}
  BY <1>1 DEF CInv, InTurn
<1>4. cache' \in [known : BOOLEAN, list : Seq(Devices), poll : Nat] /\ cache'.list = upstream.listing
  <2>1. cache' = [known |-> upstream.listing # <<>>, list |-> upstream.listing, poll |-> history.polls]
    BY <1>1, <1>2 DEF Cached
  <2>2. history.polls \in Nat
    BY <1>1 DEF Histories
  <2> QED BY <1>2, <2>1, <2>2
<1>5. Alone
  BY <1>1, NobodyWorks, Quiet
<1>6. Calls' /\ Tokens' /\ Employed' /\ job' \in [Workers -> {NoJob} \cup Jobs]
  BY <1>5, AloneKeeps
<1>7. \A w \in Workers : get'[w] \in {get[w], NoGet}
  BY <1>5 DEF Alone
<1>8. /\ main' \in Mains /\ fan' \in Fans /\ history' \in Histories
      /\ InTurn' /\ ListRead' /\ ObjectsRead' /\ Account' /\ Fair' /\ Unshared'
      /\ ReportedAsRead' /\ CauseIsNamed'
  <2>1. CASE Collector = "device_details"
    <3>1. FanOut(upstream.listing)
      BY <1>2, <2>1 DEF LastPage
    <3> QED BY <1>1, <1>3, <1>4, <1>7, <2>1, <3>1, FanOpened
  <2>2. CASE Collector = "devices"
    <3>1. Report(history, "none", ToSet(upstream.listing)) /\ UNCHANGED fan
      BY <1>2, <2>2 DEF LastPage
    <3>2. "none" \in Results /\ ToSet(upstream.listing) \in SUBSET Devices
      <4>1. ToSet(upstream.listing) \in SUBSET Devices
        BY <1>1 DEF Devices
      <4> QED BY <4>1 DEF Results
    <3>3. fan'.bytes <= MaxBytes
      BY <3>1 DEF CInv, Account
    <3>4. /\ main' \in Mains /\ main'.at = "next" /\ history' \in Histories
          /\ history'.last.collector = Collector /\ history'.last.kind = Kind("none", ToSet(upstream.listing))
          /\ history'.last.found = ToSet(upstream.listing)
          /\ InTurn' /\ ListRead' /\ ObjectsRead' /\ Account' /\ Fair' /\ Unshared'
      BY <1>1, <1>3, <1>4, <3>1, <3>2, <3>3, Reported
    <3>5. ReportedAsRead' /\ CauseIsNamed'
      <4>1. Kind("none", ToSet(upstream.listing)) = "complete"
        BY DEF Kind
      <4> QED BY <1>1, <2>2, <3>4, <4>1 DEF ReportedAsRead, CauseIsNamed
    <3> QED BY <1>1, <3>1, <3>4, <3>5
  <2> QED BY <1>3, <2>1, <2>2
<1>9. Reports'
  BY <1>1, <1>4, <1>6, <1>8 DEF CInv, Typed, Reports
<1> QED BY <1>6, <1>8, <1>9 DEF CInv, Typed

\* A fan-out that found every device found the whole list.
LEMMA NoneMissing ==
  ASSUME CInv, main.at = "fan", Missing = 0
  PROVE  fan.found = ToSet(upstream.listing)
<1> DEFINE S == ToSet(upstream.listing)
<1>1. fan.list = upstream.listing /\ fan.found \in SUBSET S
  BY DEF CInv, ListRead
<1>2. IsFiniteSet(S) /\ Cardinality(S) = Len(upstream.listing) /\ Len(upstream.listing) \in Nat
  BY ListDistinct
<1> HIDE DEF S
<1>3. IsFiniteSet(fan.found) /\ (Cardinality(S) = Cardinality(fan.found) => S = fan.found)
  BY <1>1, <1>2, FS_Subset
<1>4. Cardinality(fan.found) \in Nat
  BY <1>3, FS_CardinalityType
<1>5. Cardinality(fan.found) = Len(upstream.listing)
  BY <1>1, <1>2, <1>4 DEF Missing
<1> QED BY <1>2, <1>3, <1>5 DEF S

\* The end of a fan-out is reported with its cause.
LEMMA FanReported ==
  ASSUME CInv, FanOutDone, NEW e \in Results, NEW found \in SUBSET Devices, Report(history, e, found),
         UNCHANGED <<clock, token, upstream, get, job, cache>>, fan' = NoFan,
         attempted' \in [poll : Nat, of : [Devices -> Nat]],
         e = "none" => found = ToSet(upstream.listing),
         e # "none" /\ history.refused => AccountWide(e) \/ history.over
  PROVE  CInv'
<1>1. /\ main.at = "fan" /\ \A w \in Workers : job[w] = NoJob
      /\ upstream \in [issued : Nat, accepted : SUBSET Nat, listing : Listings] /\ clock \in 0 .. PollTime
      /\ history \in Histories
  BY DEF FanOutDone, CInv, Typed, Calls, Reports
<1>2. main.todo # {} /\ Collector = "device_details" /\ (cache'.known => cache'.list = upstream.listing)
  BY <1>1 DEF CInv, InTurn, ListRead
<1>3. fan' \in Fans /\ fan'.bytes <= MaxBytes
  <2>1. "none" \in Results /\ 0 <= MaxBytes
    BY ClientAssumption DEF Results
  <2> QED BY <2>1 DEF Fans, NoFan
<1>4. Alone
  BY <1>1, Quiet
<1>5. Calls' /\ Tokens' /\ Employed' /\ job' \in [Workers -> {NoJob} \cup Jobs]
  BY <1>4, AloneKeeps
<1>6. /\ main' \in Mains /\ main'.at = "next" /\ history' \in Histories
      /\ history'.refused = history.refused /\ history'.over = history.over
      /\ history'.last.collector = Collector /\ history'.last.kind = Kind(e, found)
      /\ history'.last.error = e /\ history'.last.found = found
      /\ InTurn' /\ ListRead' /\ ObjectsRead' /\ Account' /\ Fair' /\ Unshared'
  BY <1>1, <1>2, <1>3, Reported
<1>7. Reports'
  BY <1>1, <1>3, <1>5, <1>6 DEF CInv, Typed, Reports
<1>8. (Kind(e, found) = "complete" <=> e = "none") /\ Kind(e, found) # "unsupported"
  BY <1>2, KindIn
<1>9. ReportedAsRead'
  BY <1>1, <1>2, <1>6, <1>8 DEF ReportedAsRead
<1>10. CauseIsNamed'
  <2>1. Kind(e, found) \in {"partial", "failed"} => e # "none"
    BY <1>8
  <2> QED BY <1>6, <2>1 DEF CauseIsNamed
<1> QED BY <1>5, <1>6, <1>7, <1>9, <1>10 DEF CInv, Typed

\* The fan-out ends, and its attempts are recorded.
LEMMA FinishFanOutKeeps ==
  ASSUME CInv, FinishFanOut
  PROVE  CInv'
<1>1. /\ FanOutDone /\ main.at = "fan" /\ attempted' = Recorded /\ Report(history, Cause, fan.found)
      /\ fan' = NoFan /\ UNCHANGED <<clock, token, upstream, get, job, cache>> /\ fan \in Fans
      /\ attempted \in [poll : Nat, of : [Devices -> Nat]]
  BY DEF FinishFanOut, FanOutDone, CInv, Typed, Reports
<1>2. attempted' \in [poll : Nat, of : [Devices -> Nat]]
  <2> DEFINE n == attempted.poll + 1
  <2>1. n \in Nat
    BY <1>1
  <2>2. attempted' = [poll |-> n,
                      of |-> [d \in Devices |-> IF d \in Nameless \/ d \notin ToSet(fan.list) THEN 0
                                                ELSE IF d \in fan.completed THEN n ELSE attempted.of[d]]]
    BY <1>1 DEF Recorded
  <2> HIDE DEF n
  <2> QED BY <1>1, <2>1, <2>2
<1>3. Cause \in Results /\ fan.found \in SUBSET Devices
  BY <1>1 DEF Cause, Results, Fans
<1>4. Cause = "none" => fan.found = ToSet(upstream.listing)
  <2>1. Cause = "none" => Missing = 0
    BY DEF Cause
  <2> QED BY <1>1, <2>1, NoneMissing
<1>5. Cause # "none" /\ history.refused => AccountWide(Cause) \/ history.over
  <2>1. history.refused => AccountWide(fan.error)
    BY <1>1 DEF CInv, Account
  <2>2. AccountWide(fan.error) => Cause = "none" \/ Cause = fan.error
    BY NotAccountWide DEF Cause
  <2> QED BY <2>1, <2>2
<1> QED BY <1>1, <1>2, <1>3, <1>4, <1>5, FanReported

\* The fan-out ends over its budget.
LEMMA FanOutOverBudgetKeeps ==
  ASSUME CInv, FanOutOverBudget
  PROVE  CInv'
<1>1. /\ FanOutDone /\ main.at = "fan" /\ fan.over /\ Report(history, "invalid", {})
      /\ fan' = NoFan /\ UNCHANGED <<clock, token, upstream, get, job, cache, attempted>>
      /\ attempted \in [poll : Nat, of : [Devices -> Nat]]
  BY DEF FanOutOverBudget, FanOutDone, CInv, Typed, Reports
<1>2. history.over /\ "invalid" \in Results
  BY <1>1 DEF CInv, Account, Results
<1> QED BY <1>1, <1>2, FanReported

-----------------------------------------------------------------------------
(* The collectors of single objects. *)

\* A collector of single objects begins.
LEMMA CollectObjectsKeeps ==
  ASSUME CInv, NEW collector \in {"dns", "log_streaming"}, CollectObjects(collector)
  PROVE  CInv'
<1>1. /\ main.at = "next" /\ main.todo # {} /\ Collector = collector
      /\ main' = [at |-> collector, todo |-> main.todo, step |-> 0, read |-> 0, forbidden |-> 0]
      /\ history' = [history EXCEPT !.read = 0] /\ history \in Histories
      /\ UNCHANGED <<token, upstream, job, fan, cache, attempted>> /\ clock' = 0
      /\ upstream \in [issued : Nat, accepted : SUBSET Nat, listing : Listings]
  BY DEF CollectObjects, Starts, CInv, Typed, Calls, Reports
<1>2. clock' \in 0 .. PollTime
  BY <1>1, ClientAssumption
<1>3. Alone
  BY <1>1, <1>2, NobodyWorks, Quiet DEF CollectObjects, AskAfresh
<1>4. Calls' /\ Tokens' /\ Employed' /\ job' \in [Workers -> {NoJob} \cup Jobs]
  BY <1>3, AloneKeeps
<1>5. main.todo \in SUBSET Kinds
  BY <1>1, MainIn
<1>6. /\ main' \in Mains /\ main'.at = collector /\ main'.todo = main.todo /\ main'.step = 0
      /\ main'.read = 0 /\ main'.forbidden = 0
  BY <1>1, <1>5 DEF Mains
<1>7. /\ history' \in Histories /\ history'.last = history.last /\ history'.refused = history.refused
      /\ history'.over = history.over /\ history'.bytes = history.bytes /\ history'.read = 0
  BY <1>1 DEF Histories
<1>8. Reports'
  BY <1>1, <1>4, <1>6, <1>7 DEF CInv, Typed, Reports
<1>9. InTurn'
  <2>1. Collector' = Collector
    BY <1>6 DEF Collector
  <2> QED BY <1>1, <1>6, <1>7, <2>1 DEF CInv, InTurn
<1>10. ListRead' /\ ObjectsRead' /\ Account' /\ Fair' /\ Unshared'
  BY <1>1, <1>6, <1>7 DEF CInv, ListRead, ObjectsRead, Account, Fair, Unshared
<1>11. ReportedAsRead' /\ CauseIsNamed'
  BY <1>1, <1>6, <1>7 DEF CInv, ReportedAsRead, CauseIsNamed
<1> QED BY <1>4, <1>8, <1>9, <1>10, <1>11 DEF CInv, Typed

\* An object that answered counts.
LEMMA CountedIn ==
  ASSUME NEW h \in Histories, NEW e
  PROVE  /\ Counted(h, e) \in Histories /\ Counted(h, e).refused = h.refused /\ Counted(h, e).over = h.over
         /\ Counted(h, e).bytes = h.bytes /\ Counted(h, e).last = h.last
         /\ e = "none" => Counted(h, e).read = h.read + 1
         /\ e # "none" => Counted(h, e).read = h.read
<1> DEFINE n == h.read + IF e = "none" THEN 1 ELSE 0
<1>1. /\ n \in Nat /\ Counted(h, e) = [h EXCEPT !.read = n]
      /\ (e = "none" => n = h.read + 1) /\ (e # "none" => n = h.read)
  BY DEF Histories, Counted
<1> HIDE DEF n
<1> QED BY <1>1 DEF Histories

\* The answer to the request of Main, or its failure.
LEMMA AnswerIn ==
  ASSUME CInv, NEW e \in Results, NEW h \in {history, SpendFault}
  PROVE  /\ h \in Histories /\ h.refused = history.refused /\ h.over = history.over
         /\ h.bytes = history.bytes /\ h.last = history.last /\ h.read = history.read
BY FaultCounted DEF CInv, Typed, Reports

\* The next object is asked for.
LEMMA ObjectAsked ==
  ASSUME CInv, main.at \in {"dns", "log_streaming"},
         NEW step \in 0 .. 4, NEW read \in Nat, NEW forbidden \in Nat, AskNext(step, read, forbidden),
         UNCHANGED <<clock, token, upstream, job, fan, cache, attempted>>,
         history' \in Histories, history'.last = history.last, history'.refused = history.refused,
         history'.over = history.over, history'.bytes = history.bytes,
         main.at = "dns" => step > 0 /\ main.read + read = history'.read,
         main.at = "log_streaming" =>
           /\ step \in 1 .. 3 /\ main.forbidden + forbidden \in 0 .. 1
           /\ step < 2 => main.forbidden + forbidden = 0
           /\ main.forbidden + forbidden = 1 => history'.read = 0 \/ step = 3
  PROVE  CInv'
<1> DEFINE r == main.read + read
           f == main.forbidden + forbidden
<1>1. /\ main \in Mains /\ main.todo \in SUBSET Kinds /\ main.step \in 0 .. 4 /\ main.read \in Nat
      /\ main.forbidden \in Nat
      /\ upstream \in [issued : Nat, accepted : SUBSET Nat, listing : Listings] /\ clock \in 0 .. PollTime
  BY MainIn DEF CInv, Typed, Calls, Reports
<1>2. r \in Nat /\ f \in Nat
  BY <1>1
<1>3. main' = [main EXCEPT !.step = step, !.read = r, !.forbidden = f] /\ Ask
  BY DEF AskNext
<1>a. /\ main.at = "dns" => step > 0 /\ r = history'.read
      /\ main.at = "log_streaming" => /\ step \in 1 .. 3 /\ f \in 0 .. 1 /\ (step < 2 => f = 0)
                                      /\ f = 1 => history'.read = 0 \/ step = 3
  OBVIOUS
<1> HIDE DEF r, f
<1>4. /\ main' \in Mains /\ main'.at = main.at /\ main'.todo = main.todo /\ main'.step = step
      /\ main'.read = r /\ main'.forbidden = f
  <2> DEFINE T == [at : {"dns", "log_streaming"}, todo : SUBSET Kinds, step : 0 .. 4, read : Nat, forbidden : Nat]
  <2>1. main \in T
    BY <1>1 DEF Mains, Idle
  <2>2. main' \in T
    BY <1>2, <1>3, <2>1
  <2> QED BY <1>3, <2>1, <2>2 DEF Mains
<1>5. Alone
  BY <1>1, <1>3, NobodyWorks, Quiet
<1>6. Calls' /\ Tokens' /\ Employed' /\ job' \in [Workers -> {NoJob} \cup Jobs]
  BY <1>5, AloneKeeps
<1>7. Reports'
  BY <1>4, <1>6 DEF CInv, Typed, Reports
<1>8. InTurn'
  <2>1. Collector' = Collector
    BY <1>4 DEF Collector
  <2> QED BY <1>4, <2>1 DEF CInv, InTurn
<1>9. ObjectsRead'
  BY <1>a, <1>4 DEF ObjectsRead
<1>10. ListRead' /\ Account' /\ Fair' /\ Unshared'
  BY <1>4 DEF CInv, ListRead, Account, Fair, Unshared
<1>11. ReportedAsRead' /\ CauseIsNamed'
  BY <1>4 DEF CInv, ReportedAsRead, CauseIsNamed
<1> QED BY <1>6, <1>7, <1>8, <1>9, <1>10, <1>11 DEF CInv, Typed

\* The collector has what it asked for.
LEMMA ObjectsConcluded ==
  ASSUME CInv, main.at \in {"dns", "log_streaming"}, NEW h \in Histories, NEW e \in Results, Concludes(h, e),
         UNCHANGED <<clock, token, upstream, job, fan, cache, attempted>>,
         h.refused = history.refused, h.bytes = history.bytes,
         e \in {"forbidden", "missing"} => h.read = 0,
         main.at = "dns" /\ e = "none" => h.read > 0
  PROVE  CInv'
<1>1. /\ Report(h, e, {}) /\ Forget /\ main.todo # {} /\ Collector = main.at
      /\ upstream \in [issued : Nat, accepted : SUBSET Nat, listing : Listings] /\ clock \in 0 .. PollTime
      /\ fan'.bytes <= MaxBytes /\ (cache'.known => cache'.list = upstream.listing)
  BY DEF Concludes, CInv, Typed, Calls, InTurn, Account, ListRead
<1>2. /\ main' \in Mains /\ main'.at = "next" /\ history' \in Histories
      /\ history'.last.collector = Collector /\ history'.last.kind = Kind(e, {})
      /\ history'.last.read = h.read
      /\ InTurn' /\ ListRead' /\ ObjectsRead' /\ Account' /\ Fair' /\ Unshared'
  BY <1>1, Reported
<1>3. Alone
  BY <1>1, NobodyWorks, Quiet
<1>4. Calls' /\ Tokens' /\ Employed' /\ job' \in [Workers -> {NoJob} \cup Jobs]
  BY <1>3, AloneKeeps
<1>5. Reports'
  BY <1>2, <1>4 DEF CInv, Typed, Reports
<1>6. /\ Kind(e, {}) = "complete" <=> e = "none"
      /\ Kind(e, {}) = "unsupported" => e \in {"forbidden", "missing"}
  BY KindIn
<1>7. ReportedAsRead' /\ CauseIsNamed'
  BY <1>1, <1>2, <1>6 DEF ReportedAsRead, CauseIsNamed
<1> QED BY <1>2, <1>4, <1>5, <1>7 DEF CInv, Typed

\* The combined DNS endpoint, or the four of before.
LEMMA DNSAnswerKeeps ==
  ASSUME CInv, DNSAnswer
  PROVE  CInv'
<1>1. /\ main.at = "dns" /\ UNCHANGED <<clock, token, upstream, job, fan, cache, attempted>>
      /\ main.step \in 0 .. 4 /\ main.read = history.read /\ main.read \in Nat
      /\ main.step = 0 => history.read = 0
  BY MainIn DEF DNSAnswer, CInv, ObjectsRead
<1>2. PICK e \in Results, h \in {history, SpendFault} :
        \/ main.step = 0 /\ e # "missing" /\ Concludes(Counted(h, e), e)
        \/ main.step = 0 /\ e = "missing" /\ AskNext(1, 0, 0) /\ history' = h
        \/ main.step > 0 /\ e # "none" /\ ~IsUnsupported(e) /\ Concludes(h, e)
        \/ /\ main.step \in 1 .. 3 /\ (e = "none" \/ IsUnsupported(e))
           /\ AskNext(main.step + 1, IF e = "none" THEN 1 ELSE 0, 0) /\ history' = Counted(h, e)
        \/ /\ main.step = 4 /\ (e = "none" \/ IsUnsupported(e))
           /\ Concludes(Counted(h, e), IF e = "none" \/ main.read > 0 THEN "none" ELSE "missing")
  BY DEF DNSAnswer
<1>3. /\ h \in Histories /\ h.refused = history.refused /\ h.over = history.over
      /\ h.bytes = history.bytes /\ h.last = history.last /\ h.read = history.read
  BY AnswerIn
<1>4. /\ Counted(h, e) \in Histories /\ Counted(h, e).refused = history.refused
      /\ Counted(h, e).over = history.over /\ Counted(h, e).bytes = history.bytes
      /\ Counted(h, e).last = history.last
      /\ e = "none" => Counted(h, e).read = history.read + 1
      /\ e # "none" => Counted(h, e).read = history.read
  BY <1>3, CountedIn
<1>5. CASE main.step = 0 /\ e # "missing" /\ Concludes(Counted(h, e), e)
  BY <1>1, <1>4, <1>5, ObjectsConcluded
<1>6. CASE main.step = 0 /\ e = "missing" /\ AskNext(1, 0, 0) /\ history' = h
  <2>1. 1 \in 0 .. 4 /\ 0 \in Nat /\ main.read + 0 = h.read
    BY <1>1, <1>3
  <2> QED BY <1>1, <1>3, <1>6, <2>1, ObjectAsked
<1>7. CASE main.step > 0 /\ e # "none" /\ ~IsUnsupported(e) /\ Concludes(h, e)
  BY <1>1, <1>3, <1>7, ObjectsConcluded DEF IsUnsupported
<1>8. CASE /\ main.step \in 1 .. 3 /\ (e = "none" \/ IsUnsupported(e))
           /\ AskNext(main.step + 1, IF e = "none" THEN 1 ELSE 0, 0) /\ history' = Counted(h, e)
  <2> DEFINE step == main.step + 1
             read == IF e = "none" THEN 1 ELSE 0
  <2>1. /\ step \in 0 .. 4 /\ step > 0 /\ read \in Nat /\ 0 \in Nat /\ main.read + read = history'.read
        /\ AskNext(step, read, 0)
    BY <1>1, <1>4, <1>8
  <2> HIDE DEF step, read
  <2> QED BY <1>1, <1>4, <1>8, <2>1, ObjectAsked
<1>9. CASE /\ main.step = 4 /\ (e = "none" \/ IsUnsupported(e))
           /\ Concludes(Counted(h, e), IF e = "none" \/ main.read > 0 THEN "none" ELSE "missing")
  <2>1. {"none", "missing"} \subseteq Results
    BY DEF Results, Statuses
  <2>2. CASE e = "none" \/ main.read > 0
    <3>1. Concludes(Counted(h, e), "none")
      BY <1>9, <2>2
    <3>2. Counted(h, e).read > 0
      BY <1>1, <1>4, <2>2
    <3> QED BY <1>1, <1>4, <2>1, <3>1, <3>2, ObjectsConcluded
  <2>3. CASE ~ (e = "none" \/ main.read > 0)
    <3>1. Concludes(Counted(h, e), "missing")
      BY <1>9, <2>3
    <3>2. Counted(h, e).read = 0
      BY <1>1, <1>4, <2>3
    <3> QED BY <1>1, <1>4, <2>1, <3>1, <3>2, ObjectsConcluded
  <2> QED BY <2>2, <2>3
<1> QED BY <1>2, <1>5, <1>6, <1>7, <1>8, <1>9

\* The streams of the two logs, and their status.
LEMMA LogAnswerKeeps ==
  ASSUME CInv, LogAnswer
  PROVE  CInv'
<1>1. /\ main.at = "log_streaming" /\ UNCHANGED <<clock, token, upstream, job, fan, cache, attempted>>
      /\ main.step \in 0 .. 3 /\ main.forbidden \in 0 .. 1 /\ (main.step < 2 => main.forbidden = 0)
      /\ main.step = 0 \/ main.forbidden = 1 => history.read = 0 \/ main.step = 3
  BY DEF LogAnswer, CInv, ObjectsRead
<1> DEFINE status == main.step % 2 = 1
           kindDone(e) == status \/ IsUnsupported(e)
           forbidden(e) == IF ~status /\ e = "forbidden" THEN 1 ELSE 0
           tolerated(e) == e = "none" \/ IsUnsupported(e) \/ (status /\ e = "badGateway")
<1>2. PICK e \in Results, h \in {history, SpendFault} :
        \/ ~tolerated(e) /\ Concludes(Counted(h, e), e)
        \/ tolerated(e) /\ ~kindDone(e) /\ AskNext(main.step + 1, 0, 0) /\ history' = Counted(h, e)
        \/ /\ tolerated(e) /\ kindDone(e) /\ main.step < 2
           /\ AskNext(2, 0, forbidden(e)) /\ history' = Counted(h, e)
        \/ /\ tolerated(e) /\ kindDone(e) /\ main.step >= 2
           /\ Concludes(Counted(h, e), IF main.forbidden + forbidden(e) = 2 THEN "forbidden" ELSE "none")
  BY DEF LogAnswer
<1>3. status <=> main.step \in {1, 3}
  BY <1>1
<1> HIDE DEF status
<1>4. /\ Counted(h, e) \in Histories /\ Counted(h, e).refused = history.refused
      /\ Counted(h, e).over = history.over /\ Counted(h, e).bytes = history.bytes
      /\ Counted(h, e).last = history.last
      /\ e # "none" => Counted(h, e).read = history.read
  BY AnswerIn, CountedIn
<1>5. {"none", "forbidden"} \subseteq Results /\ {0, 1} \subseteq Nat /\ 2 \in 0 .. 4
  BY DEF Results, Statuses
<1>6. CASE ~tolerated(e) /\ Concludes(Counted(h, e), e)
  BY <1>1, <1>4, <1>6, ObjectsConcluded DEF IsUnsupported
<1>7. CASE tolerated(e) /\ ~kindDone(e) /\ AskNext(main.step + 1, 0, 0) /\ history' = Counted(h, e)
  <2> DEFINE step == main.step + 1
  <2>1. main.step \in {0, 2} /\ step \in {1, 3} /\ (step = 1 <=> main.step = 0)
    BY <1>1, <1>3, <1>7
  <2>2. AskNext(step, 0, 0)
    BY <1>7
  <2>3. /\ main.forbidden + 0 \in 0 .. 1 /\ (step < 2 => main.forbidden + 0 = 0)
        /\ main.forbidden + 0 = 1 => step = 3
    BY <1>1, <2>1
  <2>4. step \in 1 .. 3 /\ step \in 0 .. 4
    BY <2>1
  <2> HIDE DEF step
  <2> QED BY <1>1, <1>4, <1>5, <1>7, <2>2, <2>3, <2>4, ObjectAsked
<1>8. CASE /\ tolerated(e) /\ kindDone(e) /\ main.step < 2
           /\ AskNext(2, 0, forbidden(e)) /\ history' = Counted(h, e)
  <2> DEFINE f == forbidden(e)
  <2>1. f \in {0, 1} /\ AskNext(2, 0, f) /\ (f = 1 => e = "forbidden" /\ main.step = 0)
    BY <1>1, <1>3, <1>8
  <2>2. main.forbidden = 0
    BY <1>1, <1>8
  <2> HIDE DEF f
  <2>3. /\ main.forbidden + f \in 0 .. 1 /\ (2 < 2 => main.forbidden + f = 0) /\ 2 \in 1 .. 3
        /\ main.forbidden + f = 1 => f = 1
    BY <2>1, <2>2
  <2>4. main.forbidden + f = 1 => history'.read = 0
    BY <1>1, <1>4, <1>8, <2>1, <2>3
  <2> QED BY <1>1, <1>4, <1>5, <1>8, <2>1, <2>3, <2>4, ObjectAsked
<1>9. CASE /\ tolerated(e) /\ kindDone(e) /\ main.step >= 2
           /\ Concludes(Counted(h, e), IF main.forbidden + forbidden(e) = 2 THEN "forbidden" ELSE "none")
  <2>1. CASE main.forbidden + forbidden(e) = 2
    <3>1. Concludes(Counted(h, e), "forbidden")
      BY <1>9, <2>1
    <3>2. main.forbidden = 1 /\ main.step \in 2 .. 3 /\ forbidden(e) = 1
      BY <1>1, <1>9, <2>1
    <3>3. e = "forbidden" /\ main.step = 2
      BY <1>3, <3>2
    <3>4. Counted(h, e).read = 0
      BY <1>1, <1>4, <3>2, <3>3
    <3> QED BY <1>1, <1>4, <1>5, <3>1, <3>4, ObjectsConcluded
  <2>2. CASE main.forbidden + forbidden(e) # 2
    BY <1>1, <1>4, <1>5, <1>9, <2>2, ObjectsConcluded
  <2> QED BY <2>1, <2>2
<1> QED BY <1>2, <1>6, <1>7, <1>8, <1>9

-----------------------------------------------------------------------------
(* Every step keeps the invariant. *)

\* Every step keeps the invariant.
LEMMA NextKeeps ==
  ASSUME CInv, [Next]_vars
  PROVE  CInv'
<1>1. CASE UNCHANGED vars
  <2>1. UNCHANGED <<clock, token, upstream, get, job, main, fan, cache, attempted, history>>
    BY <1>1 DEF vars
  <2>2. Typed'
    BY <2>1 DEF CInv, Typed, Calls, Reports
  <2>3. Tokens' /\ Employed'
    BY <2>1 DEF CInv, Tokens, Employed
  <2>4. Framed
    BY <2>1 DEF CInv, Typed, Reports, Framed, Recalls
  <2>5. Fair'
    <3>1. (FanEnded' <=> FanEnded) /\ \A d : Staleness(d)' = Staleness(d)
      BY <2>1 DEF FanEnded, Staleness
    <3>2. main.at = "fan" => Ordered(fan.order)'
      BY <2>1, <3>1 DEF CInv, Fair, Ordered
    <3> QED BY <2>1, <3>1, <3>2 DEF CInv, Fair
  <2> QED BY <2>2, <2>3, <2>4, <2>5, FramedKeeps DEF CInv
<1>2. CASE BeginPoll
  BY <1>2, BeginPollKeeps
<1>3. CASE Polling
  <2>1. Main \in Callers
    BY DEF Callers
  <2> QED BY <1>3, <2>1, EndPollKeeps, CollectDevicesKeeps, CollectDetailsKeeps, CollectObjectsKeeps, LastPageKeeps,
             NextPageKeeps, PageEndsKeeps, FinishFanOutKeeps, FanOutOverBudgetKeeps, DNSAnswerKeeps,
             LogAnswerKeeps, CallKeeps DEF Polling
<1>4. CASE \E w \in Workers : Working(w)
  <2>1. PICK w \in Workers : Working(w)
    BY <1>4
  <2>2. w \in Callers
    BY DEF Callers
  <2> QED BY <2>1, <2>2, CallKeeps, WorkerKeeps DEF Working
<1>5. CASE Tick \/ Expire \/ Revoke
  BY <1>5, AmbientKeeps
<1> QED BY <1>1, <1>2, <1>3, <1>4, <1>5 DEF Next, Done

\* The invariant holds in every reachable state.
LEMMA Invariance == Spec => []CInv
<1>1. Init => CInv
  BY InitKeeps
<1>2. CInv /\ [Next]_vars => CInv'
  BY NextKeeps
<1> QED BY <1>1, <1>2, PTL DEF Spec

-----------------------------------------------------------------------------
(* What follows. *)

\* The attempt that follows a 401 never sends the token that was rejected: the
\* token cache holds only tokens newer than any that an attempt under way was
\* rejected with (getBody and accessToken).
THEOREM TokenNotResent == Spec => []RejectedTokenNotResent
<1>1. CInv => RejectedTokenNotResent
  <2>1. SUFFICES ASSUME CInv, NEW c \in Callers, get[c].at = "sent"
                 PROVE  get[c].used # get[c].rejected
    BY DEF RejectedTokenNotResent
  <2>2. Underway(get[c])
    BY <2>1, Begun DEF CInv, Typed
  <2>3. get[c].used > get[c].rejected /\ get[c].used \in Nat /\ get[c].rejected \in Nat
    BY <2>1, <2>2 DEF CInv, Tokens, Underway
  <2> QED BY <2>3
<1> QED BY <1>1, Invariance, PTL

\* What is reported of a collector is what was read of it, in this poll: no
\* page dropped, no list of an earlier poll, no device cut or refused
\* (allPagesWithOptions, deviceDetails, dns, logStreaming).
THEOREM ReportedWhole == Spec => []ReportedAsRead
<1>1. CInv => ReportedAsRead
  BY DEF CInv
<1> QED BY <1>1, Invariance, PTL

\* The responses that a fan-out counts stay within the limit of one
\* collection, whatever the workers answer (accountResponse).
THEOREM BudgetKept == Spec => []WithinBudget
<1>1. CInv => WithinBudget
  BY DEF CInv, Account, WithinBudget
<1> QED BY <1>1, Invariance, PTL

\* A fan-out stopped by a rate limit or a rejected credential reports that
\* cause (the collecting loop of deviceDetailsFromDevices).
THEOREM RefusalNamed == Spec => []CauseIsNamed
<1>1. CInv => CauseIsNamed
  BY DEF CInv
<1> QED BY <1>1, Invariance, PTL

\* One step of the fan-out hands out none but the stalest device, and records
\* as attempted none but those whose own request was answered.
NoOvertaking ==
  /\ \A w \in Workers : job[w] = NoJob /\ job'[w] # NoJob
       => \A d \in ToSet(fan'.order) \ Nameless : attempted.of[job'[w].device] <= attempted.of[d]
  /\ \A d \in Devices : attempted'.of[d] \notin {0, attempted.of[d]} => d \in history.answered

\* A worker takes the stalest device.
LEMMA WorkersInTurn ==
  ASSUME CInv, NEW w \in Workers,
         Dispatch(w) \/ DispatchNameless(w) \/ DetailRead(w) \/ DetailUnsupported(w)
         \/ DetailOverBudget(w) \/ DetailFails(w)
  PROVE  NoOvertaking
<1>1. Worked(w)
  BY DispatchStep, DispatchNamelessStep, DetailReadStep, DetailUnsupportedStep, DetailOverBudgetStep,
     DetailFailsStep
<1>2. attempted' = attempted /\ \A v \in Workers \ {w} : job'[v] = job[v]
  BY <1>1 DEF Worked
<1>3. ASSUME job[w] = NoJob, job'[w] # NoJob, NEW d \in ToSet(fan'.order) \ Nameless
      PROVE  attempted.of[job'[w].device] <= attempted.of[d]
  <2>1. HandOut(w)
    BY <1>1, <1>3 DEF Worked, PassOver, ReadOn, Finish
  <2>2. /\ fan.order \in Seq(Devices) /\ fan.order # <<>> /\ Ordered(fan.order)
        /\ fan'.order = Tail(fan.order) /\ job'[w].device = Head(fan.order)
        /\ Head(fan.order) \notin Nameless
    BY <1>1, <2>1 DEF Worked, HandOut, CInv, Fair, Typed, Reports, Fans
  <2>3. Staleness(Head(fan.order)) <= Staleness(d)
    BY <1>3, <2>2, TailOf
  <2> QED BY <1>3, <2>2, <2>3 DEF Staleness
<1> QED BY <1>2, <1>3 DEF NoOvertaking

\* What is recorded as attempted was answered.
LEMMA RecordedAnswered ==
  ASSUME CInv, FinishFanOut
  PROVE  NoOvertaking
<1>1. /\ main.at = "fan" /\ job' = job /\ attempted' = Recorded
      /\ fan.completed \subseteq history.answered \cup Nameless
  BY DEF FinishFanOut, FanOutDone, CInv, Fair
<1>2. ASSUME NEW d \in Devices, attempted'.of[d] \notin {0, attempted.of[d]}
      PROVE  d \in history.answered
  <2>1. attempted'.of[d] = IF d \in Nameless \/ d \notin ToSet(fan.list) THEN 0
                           ELSE IF d \in fan.completed THEN attempted.poll + 1 ELSE attempted.of[d]
    BY <1>1 DEF Recorded
  <2> QED BY <1>1, <1>2, <2>1
<1> QED BY <1>1, <1>2 DEF NoOvertaking

\* A deadline never starves the same tail of the list: the stalest device is
\* handed out first, and only an answer of its own moves a device back
\* (deviceDetailOrder and recordDeviceDetailAttempts).
THEOREM StalestFirst == Spec => NobodyOvertakes
<1>1. ASSUME CInv, [Next]_vars PROVE NoOvertaking
  <2>1. CASE UNCHANGED <<job, attempted>>
    BY <2>1 DEF NoOvertaking
  <2>2. CASE \E w \in Workers : Dispatch(w) \/ DispatchNameless(w) \/ DetailRead(w) \/ DetailUnsupported(w)
                               \/ DetailOverBudget(w) \/ DetailFails(w)
    BY <1>1, <2>2, WorkersInTurn
  <2>3. CASE FinishFanOut
    BY <1>1, <2>3, RecordedAnswered
  <2>4. ASSUME NEW c, Get(c) PROVE UNCHANGED <<job, attempted>>
    BY <2>4 DEF Get, UseToken, StartFetch, Fetched, FetchFails, Unauthorized, Refused, Lost, Wake, WaitCut
  <2>5. Polling => UNCHANGED <<job, attempted>> \/ FinishFanOut
    <3>1. TooMuch \/ UnusablePage \/ PageFails => UNCHANGED <<job, attempted>>
      BY DEF TooMuch, UnusablePage, PageFails, WalkFails
    <3>2. EndPoll \/ CollectDevices \/ CollectDetails => UNCHANGED <<job, attempted>>
      BY DEF EndPoll, CollectDevices, CollectDetails
    <3>3. LastPage \/ NextPage \/ FanOutOverBudget => UNCHANGED <<job, attempted>>
      BY DEF LastPage, NextPage, FanOutOverBudget
    <3>4. CollectObjects("dns") \/ CollectObjects("log_streaming") => UNCHANGED <<job, attempted>>
      BY DEF CollectObjects
    <3>5. DNSAnswer \/ LogAnswer => UNCHANGED <<job, attempted>>
      BY DEF DNSAnswer, LogAnswer
    <3> QED BY <2>4, <3>1, <3>2, <3>3, <3>4, <3>5 DEF Polling
  <2>6. BeginPoll \/ Tick \/ Expire \/ Revoke \/ Done \/ UNCHANGED vars => UNCHANGED <<job, attempted>>
    BY DEF BeginPoll, Tick, Expire, Revoke, Done, vars
  <2> QED BY <1>1, <2>1, <2>2, <2>3, <2>4, <2>5, <2>6 DEF Next, Working
<1>2. CInv /\ [Next]_vars => [NoOvertaking]_vars
  BY <1>1
<1>3. Spec => [][NoOvertaking]_vars
  BY <1>2, Invariance, PTL DEF Spec
<1> QED BY <1>3 DEF NobodyOvertakes, NoOvertaking

-----------------------------------------------------------------------------
(* The mutex of the token cache, and the bounds of the rest. *)

\* One caller at most fetches a token, and it holds the mutex; between its
\* collectors Main has no request.
Held ==
  /\ holder = {c \in Callers : get[c].at = "fetching"}
  /\ \A c, d \in holder : c = d
  /\ main.at \notin {"page", "dns", "log_streaming"} => get[Main] = NoGet
Issued == token.id <= upstream.issued /\ upstream.accepted \subseteq 1 .. upstream.issued
Bounded ==
  /\ main.at # "fan" => fan = NoFan
  /\ \A d \in Devices : attempted.of[d] <= attempted.poll
  /\ main.at = "page" => main.page <= MaxPages

MainStep == \/ EndPoll \/ CollectDevices \/ CollectDetails \/ CollectObjects("dns") \/ CollectObjects("log_streaming")
            \/ LastPage \/ NextPage \/ TooMuch \/ UnusablePage \/ PageFails
            \/ FinishFanOut \/ FanOutOverBudget \/ DNSAnswer \/ LogAnswer
WorkerStep(w) == Dispatch(w) \/ DispatchNameless(w) \/ DetailRead(w) \/ DetailUnsupported(w)
                 \/ DetailOverBudget(w) \/ DetailFails(w)

\* The steps, by who takes them.
LEMMA StepOf ==
  ASSUME [Next]_vars
  PROVE  \/ UNCHANGED vars \/ BeginPoll \/ MainStep \/ Tick \/ Expire \/ Revoke
         \/ \E w \in Workers : WorkerStep(w)
         \/ \E c \in Callers : Get(c)
BY DEF Next, Done, Working, Polling, MainStep, WorkerStep, Callers

\* What Main's steps leave alone, and the requests it leaves or begins.
LEMMA MainFrame ==
  ASSUME MainStep
  PROVE  /\ UNCHANGED <<token, holder, upstream, job>>
         /\ get' = get \/ Ask \/ AskAfresh \/ Forget
         /\ main.at \in {"next", "fan"} \/ get[Main].at \in {"sent", "failed"}
         /\ main.at = "fan" => get' = get
<1>1. CASE EndPoll \/ FinishFanOut \/ FanOutOverBudget
  BY <1>1 DEF EndPoll, FinishFanOut, FanOutOverBudget, FanOutDone
<1>2. CASE CollectDevices \/ CollectDetails \/ CollectObjects("dns") \/ CollectObjects("log_streaming")
  BY <1>2 DEF CollectDevices, CollectDetails, CollectObjects, Starts
<1>3. CASE LastPage \/ NextPage
  BY <1>3 DEF LastPage, NextPage, Reading, Answered
<1>4. CASE TooMuch \/ UnusablePage \/ PageFails
  BY <1>4 DEF TooMuch, UnusablePage, PageFails, WalkFails, Reading, Answered
<1>5. CASE DNSAnswer
  <2>1. (Ask \/ Forget) /\ UNCHANGED <<token, holder, upstream, job>> /\ main.at = "dns"
    BY <1>5 DEF DNSAnswer, Concludes, AskNext
  <2>2. get[Main].at \in {"sent", "failed"}
    BY <1>5 DEF DNSAnswer, Answers, Answered
  <2> QED BY <2>1, <2>2
<1>6. CASE LogAnswer
  <2>1. (Ask \/ Forget) /\ UNCHANGED <<token, holder, upstream, job>> /\ main.at = "log_streaming"
    BY <1>6 DEF LogAnswer, Concludes, AskNext
  <2>2. get[Main].at \in {"sent", "failed"}
    BY <1>6 DEF LogAnswer, Answers, Answered
  <2> QED BY <2>1, <2>2
<1> QED BY <1>1, <1>2, <1>3, <1>4, <1>5, <1>6 DEF MainStep

\* The next page has the next number.
LEMMA NextPageAt ==
  ASSUME CInv, NextPage
  PROVE  main'.at = "page" /\ main'.page = main.page + 1
<1>1. main.at = "page" /\ main \in Mains
  BY DEF NextPage, Reading, CInv, Typed, Reports
<1>2. PICK size \in Sizes : main' = [main EXCEPT !.page = @ + 1, !.items = Items, !.bytes = @ + size]
  BY DEF NextPage
<1> DEFINE next == main.page + 1
           total == main.bytes + size
<1>3. main' = [main EXCEPT !.page = next, !.items = Items, !.bytes = total]
  BY <1>2
<1>4. main \in [at : {"page"}, todo : SUBSET Kinds, page : Nat \ {0}, items : Seq(Devices), bytes : Nat]
  BY <1>1 DEF Mains, Idle
<1> HIDE DEF total
<1>5. main'.at = "page" /\ main'.page = next
  <2> HIDE DEF next
  <2> QED BY <1>3, <1>4
<1> QED BY <1>5

\* Where Main's request is left when the collector has ended.
LEMMA MainForgets ==
  ASSUME CInv, Held, MainStep, main'.at \notin {"page", "dns", "log_streaming"}
  PROVE  get'[Main] = NoGet
<1>1. Main \in Callers
  BY DEF Callers
<1>2. CASE EndPoll \/ FinishFanOut \/ FanOutOverBudget
  BY <1>2 DEF EndPoll, FinishFanOut, FanOutOverBudget, FanOutDone, Held
<1>3. CASE CollectDevices \/ CollectObjects("dns") \/ CollectObjects("log_streaming")
  BY <1>3 DEF CollectDevices, CollectObjects, Walk
<1>4. CASE CollectDetails
  BY <1>4 DEF CollectDetails, Walk, Starts, Held
<1>5. CASE LastPage \/ TooMuch \/ UnusablePage \/ PageFails
  BY <1>1, <1>5 DEF LastPage, TooMuch, UnusablePage, PageFails, WalkFails, Forget
<1>6. CASE NextPage
  BY <1>6, NextPageAt
<1>7. CASE DNSAnswer \/ LogAnswer
  <2>1. main.at \in {"dns", "log_streaming"} /\ (Forget \/ \E s, r, f : AskNext(s, r, f))
    <3>1. CASE DNSAnswer
      BY <3>1 DEF DNSAnswer, Concludes
    <3>2. CASE LogAnswer
      BY <3>2 DEF LogAnswer, Concludes
    <3> QED BY <1>7, <3>1, <3>2
  <2>2. ASSUME NEW s, NEW r, NEW f, AskNext(s, r, f) PROVE main'.at = main.at
    <3>1. main \in [at : {"dns", "log_streaming"}, todo : SUBSET Kinds, step : 0 .. 4, read : Nat, forbidden : Nat]
      BY <2>1 DEF CInv, Typed, Reports, Mains, Idle
    <3> DEFINE a == main.read + r
               b == main.forbidden + f
    <3>2. main' = [main EXCEPT !.step = s, !.read = a, !.forbidden = b]
      BY <2>2 DEF AskNext
    <3> HIDE DEF a, b
    <3> QED BY <3>1, <3>2
  <2> QED BY <1>1, <2>1, <2>2 DEF Forget
<1> QED BY <1>2, <1>3, <1>4, <1>5, <1>6, <1>7 DEF MainStep

\* What a worker leaves alone.
LEMMA WorkerFrame ==
  ASSUME CInv, NEW w \in Workers, WorkerStep(w)
  PROVE  /\ UNCHANGED <<token, holder, upstream, main, attempted>> /\ main.at = "fan"
         /\ get[w].at # "fetching"
         /\ \/ get' = get
            \/ get' = [get EXCEPT ![w] = NewGet]
            \/ get' = [get EXCEPT ![w] = NoGet]
<1>1. CASE Dispatch(w) \/ DispatchNameless(w)
  <2>1. get[w] = NoGet
    BY <1>1 DEF Dispatch, DispatchNameless, Dispatched, CInv, Employed
  <2> QED BY <1>1, <2>1 DEF Dispatch, DispatchNameless, Dispatched, NoGet
<1>2. CASE DetailRead(w) \/ DetailUnsupported(w)
  BY <1>2 DEF DetailRead, DetailUnsupported, Advance, Answered, CInv, Employed
<1>3. CASE DetailOverBudget(w) \/ DetailFails(w)
  BY <1>3 DEF DetailOverBudget, DetailFails, GiveUp, Answered, CInv, Employed
<1> QED BY <1>1, <1>2, <1>3 DEF WorkerStep

\* A request replaced by another, and neither fetches.
LEMMA HeldStill ==
  ASSUME Held, holder' = holder,
         \A c \in Callers : get'[c] = get[c] \/ (get[c].at # "fetching" /\ get'[c].at # "fetching"),
         main'.at \notin {"page", "dns", "log_streaming"} => get'[Main] = NoGet
  PROVE  Held'
<1>1. \A c \in Callers : get'[c].at = "fetching" <=> get[c].at = "fetching"
  OBVIOUS
<1> QED BY <1>1 DEF Held

\* The mutex changes hands only within a GET.
LEMMA HeldByGet ==
  ASSUME CInv, Held, NEW c \in Callers, Get(c)
  PROVE  Held'
<1>1. /\ \A d \in Callers \ {c} : get'[d] = get[d]
      /\ get[c] # NoGet /\ main' = main
  BY GetStep DEF Called, CInv, Typed
<1>2. main'.at \notin {"page", "dns", "log_streaming"} => get'[Main] = NoGet
  BY <1>1 DEF Held, Callers
<1>3. get = [d \in Callers |-> get[d]]
  BY DEF CInv, Typed, Calls
<1>4. Request(get[c])
  BY DEF CInv, Typed, Calls
<1>5. \A e, x : get' = [get EXCEPT ![c] = [at |-> "failed", error |-> e, cut |-> x]] => get'[c].at = "failed"
  BY <1>3
<1>6. \A e : get' = Fails(c, e) => get'[c].at = "failed"
  BY <1>5 DEF Fails
<1>7. \A e, delay : Underway(get[c]) /\ get' = Waits(c, delay, e) => get'[c].at = "waiting"
  <2>1. SUFFICES ASSUME NEW e, NEW delay, Underway(get[c]), get' = Waits(c, delay, e)
                 PROVE  get'[c].at = "waiting"
    OBVIOUS
  <2> DEFINE t == clock + delay
             g == [get[c] EXCEPT !.at = "waiting", !.wake = t, !.error = e, !.used = 0]
  <2>2. get' = [get EXCEPT ![c] = g]
    BY <1>3, <2>1 DEF Waits
  <2>3. g.at = "waiting"
    <3> HIDE DEF t
    <3> QED BY <2>1 DEF Underway
  <2> HIDE DEF g
  <2> QED BY <1>3, <2>2, <2>3
<1>8. \A e, delay : Underway(get[c]) /\ get' = RetriesWithinBudget(c, delay, e) => get'[c].at \in {"waiting", "failed"}
  BY <1>6, <1>7 DEF RetriesWithinBudget
<1>9. CASE UseToken(c) \/ Wake(c)
  <2>1. holder' = holder /\ Underway(get[c]) /\ get[c].at # "fetching" /\ get'[c].at \in {"sent", "token"}
    <3>1. CASE UseToken(c)
      <4>1. Underway(get[c]) /\ get' = [get EXCEPT ![c].at = "sent", ![c].used = token.id]
        BY <3>1, Begun DEF UseToken, CInv, Typed
      <4>2. get' = [get EXCEPT ![c] = [get[c] EXCEPT !.at = "sent", !.used = token.id]]
        BY <1>3, <4>1
      <4>3. get'[c].at = "sent"
        BY <1>3, <4>1, <4>2 DEF Underway
      <4> QED BY <3>1, <4>1, <4>3 DEF UseToken
    <3>2. CASE Wake(c)
      <4> DEFINE n == get[c].attempt + 1
      <4>1. Underway(get[c]) /\ get' = [get EXCEPT ![c].at = "token", ![c].attempt = n, ![c].wake = 0, ![c].error = "none"]
        BY <3>2, Begun DEF Wake, CInv, Typed
      <4> HIDE DEF n
      <4>2. get' = [get EXCEPT ![c] = [get[c] EXCEPT !.at = "token", !.attempt = n, !.wake = 0, !.error = "none"]]
        BY <1>3, <4>1
      <4>3. get'[c].at = "token"
        BY <1>3, <4>1, <4>2 DEF Underway
      <4> QED BY <3>2, <4>1, <4>3 DEF Wake
    <3> QED BY <1>9, <3>1, <3>2
  <2> QED BY <1>1, <1>2, <2>1, HeldStill
<1>10. CASE Unauthorized(c)
  <2>1. holder' = holder /\ Underway(get[c]) /\ get[c].at = "sent"
    BY <1>10, Begun DEF Unauthorized, CInv, Typed
  <2>2. get'[c].at \in {"token", "failed"}
    <3>1. CASE get[c].attempt = 0
      <4>1. get' = [get EXCEPT ![c].at = "token", ![c].attempt = 1, ![c].used = 0, ![c].rejected = get[c].used]
        BY <1>10, <3>1 DEF Unauthorized
      <4>2. get' = [get EXCEPT ![c] = [get[c] EXCEPT !.at = "token", !.attempt = 1, !.used = 0, !.rejected = get[c].used]]
        BY <1>3, <4>1
      <4> QED BY <1>3, <2>1, <4>2 DEF Underway
    <3>2. CASE get[c].attempt # 0
      BY <1>6, <1>10, <3>2 DEF Unauthorized
    <3> QED BY <3>1, <3>2
  <2> QED BY <1>1, <1>2, <2>1, <2>2, HeldStill
<1>11. CASE Refused(c) \/ Lost(c) \/ WaitCut(c)
  <2>1. holder' = holder /\ Underway(get[c]) /\ get[c].at # "fetching"
    BY <1>11, Begun DEF Refused, Lost, WaitCut, CInv, Typed
  <2>2. get'[c].at \in {"waiting", "failed"}
    BY <1>6, <1>7, <1>8, <1>11, <2>1 DEF Refused, Lost, WaitCut
  <2> QED BY <1>1, <1>2, <2>1, <2>2, HeldStill
<1>12. CASE StartFetch(c)
  <2>1. /\ holder = {} /\ holder' = {c} /\ Underway(get[c]) /\ get' = [get EXCEPT ![c].at = "fetching"]
    BY <1>12, Begun DEF StartFetch, CInv, Typed
  <2>2. get' = [get EXCEPT ![c] = [get[c] EXCEPT !.at = "fetching"]]
    BY <1>3, <2>1
  <2>3. get'[c].at = "fetching"
    BY <1>3, <2>1, <2>2 DEF Underway
  <2> QED BY <1>1, <1>2, <2>1, <2>3 DEF Held
<1>13. CASE Fetched(c) \/ FetchFails(c)
  <2>1. get[c].at = "fetching" /\ holder' = {} /\ Underway(get[c])
    BY <1>13, Begun DEF Fetched, FetchFails, CInv, Typed
  <2>2. get'[c].at # "fetching"
    <3>1. CASE Fetched(c)
      <4> DEFINE id == upstream.issued + 1
      <4>1. get' = [get EXCEPT ![c].at = "sent", ![c].used = id]
        BY <3>1 DEF Fetched
      <4> HIDE DEF id
      <4>2. get' = [get EXCEPT ![c] = [get[c] EXCEPT !.at = "sent", !.used = id]]
        BY <1>3, <4>1
      <4> QED BY <1>3, <2>1, <4>2 DEF Underway
    <3>2. CASE FetchFails(c)
      BY <1>6, <1>8, <2>1, <3>2 DEF FetchFails
    <3> QED BY <1>13, <3>1, <3>2
  <2>3. \A d \in Callers : get'[d].at # "fetching"
    BY <1>1, <2>1, <2>2 DEF Held
  <2> QED BY <1>2, <2>1, <2>3 DEF Held
<1> QED BY <1>9, <1>10, <1>11, <1>12, <1>13 DEF Get

\* The mutex has one holder, the caller that fetches.
LEMMA HeldKept ==
  ASSUME CInv, Held, [Next]_vars
  PROVE  Held'
<1>1. get = [c \in Callers |-> get[c]] /\ Main \in Callers /\ Main \notin Workers /\ NoGet.at # "fetching"
  BY ClientAssumption DEF CInv, Typed, Calls, Callers, NoGet
<1>2. CASE UNCHANGED vars \/ BeginPoll \/ Tick \/ Expire \/ Revoke
  <2>1. holder' = holder /\ get' = get /\ (main' = main \/ main.at = "idle")
    BY <1>2 DEF vars, BeginPoll, Tick, Expire, Revoke
  <2> QED BY <2>1, HeldStill DEF Held
<1>3. CASE MainStep
  <2>1. main'.at \notin {"page", "dns", "log_streaming"} => get'[Main] = NoGet
    BY <1>3, MainForgets
  <2>2. /\ holder' = holder
        /\ get' = get \/ Ask \/ AskAfresh \/ Forget
        /\ main.at \in {"next", "fan"} \/ get[Main].at \in {"sent", "failed"}
        /\ main.at = "fan" => get' = get
    BY <1>3, MainFrame
  <2>3. get[Main].at # "fetching"
    BY <1>1, <2>2 DEF Held
  <2>4. main.at # "fan" => \A w \in Workers : get[w] = NoGet
    BY NobodyWorks DEF CInv, Employed
  <2>5. \A c \in Callers : get'[c] = get[c] \/ (get[c].at # "fetching" /\ get'[c].at # "fetching")
    <3>1. CASE get' = get
      BY <3>1
    <3>2. CASE Ask \/ AskAfresh
      BY <1>1, <2>3, <3>2 DEF Ask, AskAfresh, NewGet
    <3>3. CASE Forget /\ main.at # "fan"
      BY <1>1, <2>3, <2>4, <3>3 DEF Forget, Callers
    <3> QED BY <2>2, <3>1, <3>2, <3>3
  <2> QED BY <2>1, <2>2, <2>5, HeldStill
<1>4. ASSUME NEW w \in Workers, WorkerStep(w) PROVE Held'
  <2>1. /\ holder' = holder /\ main' = main /\ get[w].at # "fetching" /\ w \in Callers
        /\ get' = get \/ get' = [get EXCEPT ![w] = NewGet] \/ get' = [get EXCEPT ![w] = NoGet]
    BY <1>4, WorkerFrame DEF Callers
  <2>2. \A c \in Callers : get'[c] = get[c] \/ (get[c].at # "fetching" /\ get'[c].at # "fetching")
    BY <1>1, <2>1 DEF NewGet
  <2>3. get'[Main] = get[Main]
    BY <1>1, <2>1
  <2> QED BY <2>1, <2>2, <2>3, HeldStill DEF Held
<1>5. ASSUME NEW c \in Callers, Get(c) PROVE Held'
  BY <1>5, HeldByGet
<1> QED BY <1>2, <1>3, <1>4, <1>5, StepOf

\* No token is cached or accepted that was not issued.
LEMMA IssuedKept ==
  ASSUME CInv, Issued, [Next]_vars
  PROVE  Issued'
<1>1. /\ token \in [id : Nat, usable : BOOLEAN]
      /\ upstream \in [issued : Nat, accepted : SUBSET Nat, listing : Listings]
  BY DEF CInv, Typed, Calls
<1>2. CASE token' \in {token, NoToken, [token EXCEPT !.usable = FALSE]}
           /\ upstream'.issued = upstream.issued /\ upstream'.accepted \in {upstream.accepted, {}}
  BY <1>1, <1>2 DEF Issued, NoToken
<1>3. BeginPoll => UNCHANGED token /\ upstream'.issued = upstream.issued /\ upstream'.accepted = upstream.accepted
  BY <1>1 DEF BeginPoll
<1>4. MainStep \/ UNCHANGED vars \/ Tick => UNCHANGED <<token, upstream>>
  BY MainFrame DEF vars, Tick
<1>5. Expire => UNCHANGED upstream /\ token' = [token EXCEPT !.usable = FALSE]
  BY DEF Expire
<1>6. Revoke => UNCHANGED token /\ upstream'.issued = upstream.issued /\ upstream'.accepted = {}
  BY <1>1 DEF Revoke
<1>7. ASSUME NEW w \in Workers, WorkerStep(w) PROVE UNCHANGED <<token, upstream>>
  BY <1>7, WorkerFrame
<1>8. ASSUME NEW c \in Callers, Get(c), ~ Fetched(c)
      PROVE  UNCHANGED upstream /\ token' \in {token, NoToken}
  BY <1>8 DEF Get, UseToken, StartFetch, FetchFails, Unauthorized, Refused, Lost, Wake, WaitCut
<1>9. ASSUME NEW c \in Callers, Fetched(c) PROVE Issued'
  <2> DEFINE id == upstream.issued + 1
  <2>1. /\ upstream' = [upstream EXCEPT !.issued = id, !.accepted = @ \cup {id}]
        /\ token' = [id |-> id, usable |-> TRUE]
    BY <1>9 DEF Fetched
  <2>2. id \in Nat /\ id >= 1 /\ upstream.issued < id
    BY <1>1
  <2> HIDE DEF id
  <2>3. upstream'.issued = id /\ upstream'.accepted = upstream.accepted \cup {id} /\ token'.id = id
    BY <1>1, <2>1
  <2>4. 1 .. upstream.issued \subseteq 1 .. id /\ id \in 1 .. id
    BY <1>1, <2>2
  <2> QED BY <2>2, <2>3, <2>4 DEF Issued
<1> QED BY <1>2, <1>3, <1>4, <1>5, <1>6, <1>7, <1>8, <1>9, StepOf

\* Where the fan-out, the pages and the record of the attempts end.
LEMMA BoundedKept ==
  ASSUME CInv, Bounded, [Next]_vars
  PROVE  Bounded'
<1>1. main \in Mains /\ attempted \in [poll : Nat, of : [Devices -> Nat]] /\ MaxPages \in Nat \ {0}
  BY ClientAssumption DEF CInv, Typed, Reports
<1>2. CASE UNCHANGED <<main, fan, attempted>>
  BY <1>2 DEF Bounded
<1>3. UNCHANGED vars \/ Tick \/ Expire \/ Revoke => UNCHANGED <<main, fan, attempted>>
  BY DEF vars, Tick, Expire, Revoke
<1>4. ASSUME NEW c \in Callers, Get(c) PROVE UNCHANGED <<main, fan, attempted>>
  BY <1>4, GetStep DEF Called, CInv, Typed
<1>5. ASSUME NEW w \in Workers, WorkerStep(w) PROVE Bounded'
  BY <1>5, WorkerFrame DEF Bounded
<1>6. CASE BeginPoll
  <2>1. main.at = "idle" /\ UNCHANGED <<fan, attempted>> /\ main'.at = "next"
    BY <1>6 DEF BeginPoll
  <2> QED BY <2>1 DEF Bounded
<1>7. CASE EndPoll
  BY <1>7 DEF EndPoll, Idle, Bounded
<1>8. ASSUME Walk = main', UNCHANGED <<fan, attempted>>, main.at # "fan" PROVE Bounded'
  BY <1>1, <1>8 DEF Bounded, Walk
<1>9. ASSUME NEW list, FanOut(list), attempted' = attempted, main.at # "fan" PROVE Bounded'
  BY <1>9 DEF FanOut, Report, Bounded
<1>10. CASE CollectDevices \/ CollectDetails
  <2>1. main.at # "fan" /\ attempted' = attempted
    BY <1>10 DEF CollectDevices, CollectDetails, Starts
  <2> QED BY <1>8, <1>9, <1>10, <2>1 DEF CollectDevices, CollectDetails
<1>11. CASE CollectObjects("dns") \/ CollectObjects("log_streaming")
  BY <1>11 DEF CollectObjects, Starts, Bounded
<1>12. CASE LastPage
  <2>1. main.at # "fan" /\ attempted' = attempted
    BY <1>12 DEF LastPage, Reading
  <2>2. CASE Collector = "devices"
    BY <1>12, <2>1, <2>2 DEF LastPage, Report, Bounded
  <2> QED BY <1>9, <1>12, <2>1, <2>2 DEF LastPage
<1>13. CASE NextPage
  <2>1. main'.at = "page" /\ main'.page = main.page + 1
    BY <1>13, NextPageAt
  <2>2. main.at = "page" /\ main.page < MaxPages /\ UNCHANGED <<fan, attempted>> /\ main.page \in Nat
    BY <1>13, MainIn DEF NextPage, Reading
  <2> QED BY <1>1, <2>1, <2>2 DEF Bounded
<1>14. CASE TooMuch \/ UnusablePage \/ PageFails
  BY <1>14 DEF TooMuch, UnusablePage, PageFails, Reading, WalkFails, Report, Bounded
<1>15. CASE FinishFanOut
  <2>1. fan' = NoFan /\ main'.at = "next" /\ attempted' = Recorded
    BY <1>15 DEF FinishFanOut, Report
  <2> DEFINE n == attempted.poll + 1
  <2>2. /\ attempted'.poll = n
        /\ \A d \in Devices : attempted'.of[d] \in {0, n, attempted.of[d]}
    BY <2>1 DEF Recorded
  <2>3. n \in Nat /\ n >= attempted.poll /\ \A d \in Devices : attempted.of[d] \in Nat
    BY <1>1
  <2>4. \A d \in Devices : attempted.of[d] <= n
    BY <1>1, <2>3 DEF Bounded
  <2> HIDE DEF n
  <2>5. \A d \in Devices : attempted'.of[d] <= attempted'.poll
    BY <2>2, <2>3, <2>4
  <2> QED BY <2>1, <2>5 DEF Bounded
<1>16. CASE FanOutOverBudget
  BY <1>16 DEF FanOutOverBudget, Report, Bounded
<1>17. CASE DNSAnswer \/ LogAnswer
  <2>1. main.at \in {"dns", "log_streaming"} /\ UNCHANGED <<fan, attempted>>
    BY <1>17 DEF DNSAnswer, LogAnswer
  <2>2. main'.at \in {"next", "dns", "log_streaming"}
    <3>1. (\E h, e : Concludes(h, e)) \/ (\E s, r, f : AskNext(s, r, f))
      BY <1>17 DEF DNSAnswer, LogAnswer
    <3>2. ASSUME NEW s, NEW r, NEW f, AskNext(s, r, f) PROVE main'.at = main.at
      <4>1. main \in [at : {"dns", "log_streaming"}, todo : SUBSET Kinds, step : 0 .. 4, read : Nat, forbidden : Nat]
        BY <2>1 DEF CInv, Typed, Reports, Mains, Idle
      <4> DEFINE a == main.read + r
                 b == main.forbidden + f
      <4>2. main' = [main EXCEPT !.step = s, !.read = a, !.forbidden = b]
        BY <3>2 DEF AskNext
      <4> HIDE DEF a, b
      <4> QED BY <4>1, <4>2
    <3> QED BY <2>1, <3>1, <3>2 DEF Concludes, Report
  <2> QED BY <2>1, <2>2 DEF Bounded
<1> QED BY <1>2, <1>3, <1>4, <1>5, <1>6, <1>7, <1>10, <1>11, <1>12, <1>13, <1>14, <1>15, <1>16, <1>17, StepOf
        DEF MainStep

\* The variables of the client keep their types: one caller at most holds the
\* mutex of the token cache, no device is read by two workers, and the budgets
\* of a request, a walk and a fan-out are kept.
THEOREM TypeCorrect == Spec => []TypeOK
<1>1. Init => CInv /\ Held /\ Issued /\ Bounded
  <2>1. ASSUME Init PROVE Held /\ Issued /\ Bounded
    <3>1. Held
      BY <2>1 DEF Init, Held, Callers, NoGet
    <3>2. Issued
      BY <2>1 DEF Init, Issued, NoToken
    <3>3. Bounded
      BY <2>1 DEF Init, Bounded, Idle
    <3> QED BY <3>1, <3>2, <3>3
  <2> QED BY <2>1, InitKeeps
<1>2. CInv /\ Held /\ Issued /\ Bounded /\ [Next]_vars => CInv' /\ Held' /\ Issued' /\ Bounded'
  BY NextKeeps, HeldKept, IssuedKept, BoundedKept
<1>3. CInv /\ Held /\ Issued /\ Bounded => TypeOK
  <2>1. SUFFICES ASSUME CInv, Held, Issued, Bounded PROVE TypeOK
    OBVIOUS
  <2>2. clock \in 0 .. PollTime /\ fan.bytes <= MaxBytes
    BY <2>1 DEF CInv, Typed, Calls, Account
  <2>a. holder = {c \in Callers : get[c].at = "fetching"}
    BY <2>1 DEF Held
  <2>3. Cardinality(holder) <= 1
    <3>1. CASE holder = {}
      BY <3>1, FS_EmptySet
    <3>2. CASE holder # {}
      <4>1. PICK c \in holder : TRUE
        BY <3>2
      <4>2. holder = {c}
        BY <2>1, <4>1 DEF Held
      <4>3. Cardinality({c}) = 1
        BY FS_Singleton
      <4> QED BY <4>2, <4>3
    <3> QED BY <3>1, <3>2
  <2>4. token.id \in 0 .. upstream.issued /\ upstream.accepted \subseteq 1 .. upstream.issued
    BY <2>1 DEF CInv, Typed, Calls, Issued
  <2>5. \A c \in Callers : get[c].at \in {"none", "token", "fetching", "sent", "waiting", "failed"}
    BY <2>1 DEF CInv, Typed, Calls, Request, NoGet, Underway, Over
  <2>6. \A c \in Callers : get[c].at \notin {"none", "failed"} => get[c].attempt < Attempts
    BY <2>1 DEF CInv, Typed, Calls, Request, NoGet, Over
  <2>7. fan.found \subseteq fan.completed
    BY <2>1 DEF CInv, Unshared, Bounded, NoFan
  <2>8. \A w \in Workers : job[w] # NoJob =>
          /\ job[w].device \in ToSet(fan.list) \ (ToSet(fan.order) \cup fan.found \cup fan.completed)
          /\ \A v \in Workers \ {w} : job[v] # NoJob => job[v].device # job[w].device
    BY <2>1, <2>7 DEF CInv, Employed, Unshared
  <2>9. \A d \in Devices : attempted.of[d] \in 0 .. attempted.poll
    BY <2>1 DEF CInv, Typed, Reports, Bounded
  <2>10. main.at = "page" => main.page \in 1 .. MaxPages
    <3>1. main.at = "page" => main.page \in Nat \ {0}
      BY <2>1, MainIn
    <3> QED BY <2>1, <3>1, ClientAssumption DEF Bounded
  <2> QED BY <2>2, <2>a, <2>3, <2>4, <2>5, <2>6, <2>7, <2>8, <2>9, <2>10 DEF TypeOK
<1> QED BY <1>1, <1>2, <1>3, PTL DEF Spec
=============================================================================
