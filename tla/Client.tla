------------------------------- MODULE Client -------------------------------
(***************************************************************************)
(* The Tailscale client of the monitor (tailscale/client.go, transport.go, *)
(* device_details.go, failure.go): the cached OAuth token, one GET with    *)
(* its retries, the walk over the pages of a collection, the per-poll      *)
(* device list, and the fan-out that reads every device's details.         *)
(*                                                                         *)
(* Main is the goroutine that polls; Workers are the fan-out's goroutines. *)
(* Each is a caller with at most one GET under way. Time is counted from   *)
(* the start of the poll, whose context ends at PollTime.                  *)
(***************************************************************************)
EXTENDS Integers, Sequences, FiniteSets, SequencesExt, FiniteSetsExt

CONSTANTS
  Main, Workers,      \* the callers
  Listings,           \* device lists the API may hold (sequences of devices)
  Nameless,           \* devices listed without an id
  Groups,             \* what a poll may ask for: sets of collectors
  Attempts,           \* attempts of one GET (4)
  RequestTime,        \* budget of one GET with its retries (30 s)
  PollTime,           \* deadline of a poll
  Delays,             \* Retry-After values the API may send
  MaxItems, MaxBytes, \* what one collection may retain
  MaxPages,           \* pages of one collection (100)
  PageSize,           \* devices on a page
  Sizes,              \* bytes of an answer
  MaxPolls, MaxFaults, MaxExpiries  \* bounds

Callers == {Main} \cup Workers
Devices == UNION {ToSet(l) : l \in Listings}

ASSUME ClientAssumption ==
  /\ Main \notin Workers /\ IsFiniteSet(Workers) /\ Workers # {}
  /\ {Attempts, RequestTime, PollTime, MaxItems, MaxBytes, MaxPages, PageSize} \subseteq Nat \ {0}
  /\ Attempts > 1
  /\ {MaxPolls, MaxFaults, MaxExpiries} \cup Delays \cup Sizes \subseteq Nat
  /\ \A l \in Listings : l \in Seq(Devices) /\ Cardinality(ToSet(l)) = Len(l)
  /\ Nameless \subseteq Devices
  /\ \A g \in Groups : g \subseteq {"devices", "device_details", "dns", "log_streaming"}

VARIABLES
  clock,
  token,      \* the cached token and whether its expiry is far enough away
  holder,     \* who holds the token mutex while a token is fetched, or none
  upstream,   \* the API: the tokens it issued and accepts, its device list
  get,        \* the GET of each caller
  job,        \* the device each worker reads
  main,       \* what Main is collecting
  fan,        \* the fan-out
  cache,      \* device list of this poll, and the poll that fetched it
  attempted,  \* detailPoll, and detailAttempt of each device
  history     \* polls, faults and expiries so far, and what the properties recall

vars == <<clock, token, holder, upstream, get, job, main, fan, cache, attempted, history>>

NoToken == [id |-> 0, usable |-> FALSE]
NoList == [known |-> FALSE, list |-> <<>>, poll |-> 0]
NoGet == [at |-> "none"]
NoJob == [detail |-> 0]
NoFan == [list |-> <<>>, order |-> <<>>, stopped |-> FALSE, bytes |-> 0, over |-> FALSE,
          found |-> {}, completed |-> {}, error |-> "none"]
Idle == [at |-> "idle"]
NoHistory == [polls |-> 0, faults |-> 0, expiries |-> 0, answered |-> {}, refused |-> FALSE, over |-> FALSE,
              bytes |-> 0, read |-> 0, last |-> [collector |-> "none", kind |-> "none"]]

Init ==
  /\ clock = 0 /\ token = NoToken /\ holder = {}
  /\ upstream \in [issued : {0}, accepted : {{}}, listing : Listings]
  /\ get = [c \in Callers |-> NoGet]
  /\ job = [w \in Workers |-> NoJob]
  /\ main = Idle /\ fan = NoFan /\ cache = NoList
  /\ attempted = [poll |-> 0, of |-> [d \in Devices |-> 0]]
  /\ history = NoHistory

-----------------------------------------------------------------------------
(* Failures. *)

\* Errors of a GET: HTTP statuses (502, and 503 or 504 as "unavailable"),
\* "refused" when the token endpoint rejects the credentials, and failures
\* without a status.
Statuses == {"unauthorized", "forbidden", "missing", "limited", "badGateway", "unavailable",
             "serverError"}
Results == Statuses \cup {"none", "invalid", "network", "refused", "timeout"}
TransientStatus == {"limited", "badGateway", "unavailable"}

\* FailureCategory, as far as the client tells categories apart.
Category(e) ==
  CASE e \in {"unauthorized", "forbidden", "refused"} -> "auth rejected"
    [] e = "limited" -> "rate limited"
    [] e = "missing" -> "unsupported"
    [] OTHER -> "failure"
AccountWide(e) == Category(e) \in {"auth rejected", "rate limited"}
IsUnsupported(e) == e \in {"forbidden", "missing"}
IsUnsupportedCollector(collector, e) ==
  collector \notin {"devices", "device_details"} /\ IsUnsupported(e)

-----------------------------------------------------------------------------
(* One GET: getBody with accessToken. *)

\* The context a caller's GET runs under: the poll's, and the fan-out's for a worker.
ContextEnded(c) == clock >= PollTime \/ (c \in Workers /\ fan.stopped)
Ended(c) == ContextEnded(c) \/ clock >= get[c].deadline

NewGet == [at |-> "token", attempt |-> 0, used |-> 0, rejected |-> 0, error |-> "none",
           deadline |-> Min({clock + RequestTime, PollTime}), wake |-> 0]
Fails(c, e) == [get EXCEPT ![c] = [at |-> "failed", error |-> e, cut |-> ContextEnded(c)]]
Retries(c) == get[c].attempt < Attempts - 1
Backoff(c) == 2 ^ get[c].attempt
Waits(c, delay, e) == [get EXCEPT ![c].at = "waiting", ![c].wake = clock + delay, ![c].error = e, ![c].used = 0]

\* waitWithinBudget: no wait that the request's deadline would cut short.
RetriesWithinBudget(c, delay, e) ==
  IF Retries(c) /\ get[c].deadline - clock > delay THEN Waits(c, delay, e) ELSE Fails(c, e)

Fault == history.faults < MaxFaults /\ history' = [history EXCEPT !.faults = @ + 1]

\* Bound: a feature the API lacks or withholds is not counted as a fault.
MayLack(c) == c = Main /\ main.at \in {"dns", "log_streaming"}

\* accessToken: the mutex is held from the check to the end of the fetch.
UseToken(c) ==
  /\ get[c].at = "token" /\ holder = {} /\ token.usable
  /\ get' = [get EXCEPT ![c].at = "sent", ![c].used = token.id]
  /\ UNCHANGED <<clock, token, holder, upstream, job, main, fan, cache, attempted, history>>


StartFetch(c) ==
  /\ get[c].at = "token" /\ holder = {} /\ ~token.usable
  /\ get' = [get EXCEPT ![c].at = "fetching"]
  /\ holder' = {c}
  /\ UNCHANGED <<clock, token, upstream, job, main, fan, cache, attempted, history>>

\* A token is used at once, with no second look at the cache.
Fetched(c) ==
  /\ get[c].at = "fetching"
  /\ LET id == upstream.issued + 1 IN
     /\ upstream' = [upstream EXCEPT !.issued = id, !.accepted = @ \cup {id}]
     /\ token' = [id |-> id, usable |-> TRUE]
     /\ get' = [get EXCEPT ![c].at = "sent", ![c].used = id]
  /\ holder' = {}
  /\ UNCHANGED <<clock, job, main, fan, cache, attempted, history>>

\* transientTokenDelay: a rate limit, a 5xx or a lost connection is retried.
FetchFails(c) ==
  /\ get[c].at = "fetching" /\ holder' = {}
  /\ \/ /\ Fault
        /\ \/ get' = Fails(c, "refused")
           \/ get' = Fails(c, "invalid")
           \/ get' = RetriesWithinBudget(c, Backoff(c), "network")
           \/ \E d \in Delays \cup {Backoff(c)} : get' = RetriesWithinBudget(c, d, "limited")
     \/ Ended(c) /\ get' = Fails(c, "timeout") /\ UNCHANGED history
  /\ UNCHANGED <<clock, token, upstream, job, main, fan, cache, attempted>>

\* A 2xx answer whose body is read. What it holds is decided by its reader,
\* in the same step: nothing the reader looks at can change in between that
\* could not have changed before.
Answered(c) == get[c].at = "sent" /\ get[c].used \in upstream.accepted /\ ~Ended(c)


\* (mutant) the rejected token stays in the cache.
UnauthorizedKeepingToken(c) ==
  /\ get[c].at = "sent" /\ get[c].used \notin upstream.accepted
  /\ get' = IF get[c].attempt = 0
            THEN [get EXCEPT ![c].at = "token", ![c].attempt = 1, ![c].used = 0, ![c].rejected = get[c].used]
            ELSE Fails(c, "unauthorized")
  /\ UNCHANGED <<clock, token, holder, upstream, job, main, fan, cache, attempted, history>>

\* A first 401 empties the token cache, whichever token it holds by now. The
\* response may be in before the mutex is free.
Unauthorized(c) ==
  /\ get[c].at = "sent" /\ IF get[c].attempt = 0 THEN holder = {} ELSE ~Ended(c)
  /\ IF get[c].used \in upstream.accepted THEN Fault ELSE UNCHANGED history
  /\ IF get[c].attempt = 0
     THEN /\ token' = NoToken
          /\ get' = [get EXCEPT ![c].at = "token", ![c].attempt = 1, ![c].used = 0, ![c].rejected = get[c].used]
     ELSE get' = Fails(c, "unauthorized") /\ UNCHANGED token
  /\ UNCHANGED <<clock, holder, upstream, job, main, fan, cache, attempted>>

\* Any other status: the transient ones wait while the budget allows.
Refused(c) ==
  /\ get[c].at = "sent" /\ ~Ended(c)
  /\ \E e \in Statuses \ {"unauthorized"} :
       /\ IF MayLack(c) /\ IsUnsupported(e) THEN UNCHANGED history ELSE Fault
       /\ IF e \in TransientStatus
          THEN \E d \in Delays \cup {Backoff(c)} : get' = RetriesWithinBudget(c, d, e)
          ELSE get' = Fails(c, e)
  /\ UNCHANGED <<clock, token, holder, upstream, job, main, fan, cache, attempted>>

\* No response: the next attempt waits its turn even past the budget, and is
\* then cut short. A body that cannot be read fails at once.
Lost(c) ==
  /\ get[c].at = "sent"
  /\ IF Ended(c) THEN UNCHANGED history ELSE Fault
  /\ \/ get' = IF Retries(c) THEN Waits(c, Backoff(c), "timeout") ELSE Fails(c, "network")
     \/ get' = Fails(c, IF Ended(c) THEN "timeout" ELSE "invalid")
  /\ UNCHANGED <<clock, token, holder, upstream, job, main, fan, cache, attempted>>

Wake(c) ==
  /\ get[c].at = "waiting" /\ clock >= get[c].wake
  /\ get' = [get EXCEPT ![c].at = "token", ![c].attempt = @ + 1, ![c].wake = 0, ![c].error = "none"]
  /\ UNCHANGED <<clock, token, holder, upstream, job, main, fan, cache, attempted, history>>

WaitCut(c) ==
  /\ get[c].at = "waiting" /\ Ended(c)
  /\ get' = Fails(c, get[c].error)
  /\ UNCHANGED <<clock, token, holder, upstream, job, main, fan, cache, attempted, history>>

Get(c) == UseToken(c) \/ StartFetch(c) \/ Fetched(c) \/ FetchFails(c)
          \/ Unauthorized(c) \/ Refused(c) \/ Lost(c) \/ Wake(c) \/ WaitCut(c)

-----------------------------------------------------------------------------
(* A poll, and what it makes of a collector's answer (monitor/poll.go). *)

\* collectorPriority: devices first, the others in the order of their names.
Priority == [devices |-> 0, device_details |-> 1, dns |-> 2, log_streaming |-> 3]
Collector == CHOOSE c \in main.todo : \A d \in main.todo : Priority[c] <= Priority[d]

\* (mutant) the device list outlives its poll.
BeginPollKeepingList ==
  /\ main.at = "idle" /\ history.polls < MaxPolls
  /\ \E asked \in Groups : main' = [at |-> "next", todo |-> asked]
  /\ \E l \in Listings : upstream' = [upstream EXCEPT !.listing = l]
  /\ history' = [history EXCEPT !.polls = @ + 1]
  /\ UNCHANGED <<clock, token, holder, get, job, fan, cache, attempted>>

\* The cached device list belongs to one poll only.
BeginPoll ==
  /\ main.at = "idle" /\ history.polls < MaxPolls
  /\ \E asked \in Groups : main' = [at |-> "next", todo |-> asked]
  /\ cache' = NoList
  /\ \E l \in Listings : upstream' = [upstream EXCEPT !.listing = l]  \* Bound: the devices change between polls only
  /\ history' = [history EXCEPT !.polls = @ + 1]
  /\ UNCHANGED <<clock, token, holder, get, job, fan, attempted>>

EndPoll ==
  /\ main.at = "next" /\ main.todo = {}
  /\ main' = Idle /\ clock' = 0
  /\ history' = [NoHistory EXCEPT !.polls = history.polls, !.faults = history.faults, !.expiries = history.expiries]
  /\ UNCHANGED <<token, holder, upstream, get, job, fan, cache, attempted>>

\* Each collector has a deadline of its own.
Starts(collector) == main.at = "next" /\ main.todo # {} /\ Collector = collector /\ clock' = 0
Ask == get' = [get EXCEPT ![Main] = NewGet]
AskAfresh == get' = [get EXCEPT ![Main] = [NewGet EXCEPT !.deadline = Min({RequestTime, PollTime})]]
Forget == get' = [c \in Callers |-> NoGet]

Kind(e, found) ==
  IF e = "none" THEN "complete"
  ELSE IF IsUnsupportedCollector(Collector, e) THEN "unsupported"
  ELSE IF found # {} THEN "partial" ELSE "failed"
Report(h, e, found) ==
  /\ main' = [at |-> "next", todo |-> main.todo \ {Collector}]
  /\ history' = [h EXCEPT !.last = [collector |-> Collector, kind |-> Kind(e, found), error |-> e, found |-> found,
                                       read |-> h.read]]
SpendFault == [history EXCEPT !.faults = @ + 1]

-----------------------------------------------------------------------------
(* The pages of the device list: allPagesWithOptions. *)

Walk == [at |-> "page", todo |-> main.todo, page |-> 1, items |-> <<>>, bytes |-> 0]

CollectDevices ==
  /\ Starts("devices") /\ AskAfresh
  /\ main' = Walk
  /\ UNCHANGED <<token, holder, upstream, job, fan, cache, attempted, history>>

PageOf(n) == SubSeq(upstream.listing, (n - 1) * PageSize + 1, Min({n * PageSize, Len(upstream.listing)}))
IsLast(n) == n * PageSize >= Len(upstream.listing)
Items == main.items \o PageOf(main.page)
Reading(at) == main.at = at /\ Answered(Main)
Fits(size) ==
  /\ size <= MaxBytes - main.bytes
  /\ Len(PageOf(main.page)) <= MaxItems - Len(main.items)

\* cacheDeviceMaps copies into nil: an empty list is not remembered.
Cached(list) == [known |-> list # <<>>, list |-> list, poll |-> history.polls]

\* deviceDetailOrder: a stable sort by the poll that last completed them.
Staleness(d) == IF d \in Nameless THEN 0 ELSE attempted.of[d]

\* (mutant) the details are read in the order of the list.
OrderOfTheList(list) == list

StalestFirstOrder(list) ==
  LET before(i, j) == \/ Staleness(list[i]) < Staleness(list[j])
                      \/ Staleness(list[i]) = Staleness(list[j]) /\ i < j
  IN  [n \in 1 .. Len(list) |-> list[CHOOSE i \in 1 .. Len(list) :
                                      Cardinality({j \in 1 .. Len(list) : before(j, i)}) = n - 1]]

FanOut(list) ==
  IF list = <<>>
  THEN Report(history, "none", {}) /\ UNCHANGED fan
  ELSE /\ main' = [at |-> "fan", todo |-> main.todo]
       /\ fan' = [NoFan EXCEPT !.list = list, !.order = StalestFirstOrder(list)]
       /\ history' = [history EXCEPT !.answered = {}, !.refused = FALSE, !.over = FALSE, !.bytes = 0]

LastPage ==
  /\ Reading("page") /\ IsLast(main.page) /\ \E size \in Sizes : Fits(size)
  /\ cache' = Cached(Items) /\ Forget
  /\ IF Collector = "devices" THEN Report(history, "none", ToSet(Items)) /\ UNCHANGED fan ELSE FanOut(Items)
  /\ UNCHANGED <<clock, token, holder, upstream, job, attempted>>

NextPage ==
  /\ Reading("page") /\ ~IsLast(main.page) /\ main.page < MaxPages
  /\ \E size \in Sizes :
       /\ Fits(size)
       /\ main' = [main EXCEPT !.page = @ + 1, !.items = Items, !.bytes = @ + size]
  /\ Ask
  /\ UNCHANGED <<clock, token, holder, upstream, job, fan, cache, attempted, history>>

\* A failed walk keeps no list; for devices it drops the one it had.
WalkFails(h, e) ==
  /\ Report(h, e, {}) /\ Forget
  /\ cache' = IF Collector = "devices" THEN NoList ELSE cache
  /\ UNCHANGED <<clock, token, holder, upstream, job, fan, attempted>>

\* Too much for one collection, or more pages than a walk follows.
TooMuch ==
  /\ Reading("page")
  /\ (\E size \in Sizes : ~Fits(size)) \/ (~IsLast(main.page) /\ main.page = MaxPages)
  /\ WalkFails(history, "invalid")

\* A page without the array, with an item that is no object, or with a link
\* out of the API or back to a page already read.
UnusablePage == Reading("page") /\ history.faults < MaxFaults /\ WalkFails(SpendFault, "invalid")

PageFails == main.at = "page" /\ get[Main].at = "failed" /\ WalkFails(history, get[Main].error)

-----------------------------------------------------------------------------
(* The details of every device: deviceDetails. *)

CollectDetails ==
  /\ Starts("device_details")
  /\ IF cache.known
     THEN FanOut(cache.list) /\ UNCHANGED get
     ELSE main' = Walk /\ AskAfresh /\ UNCHANGED <<fan, history>>
  /\ UNCHANGED <<token, holder, upstream, job, cache, attempted>>

\* The fan-out's context: cancelled, or past the poll's deadline.
FanEnded == fan.stopped \/ clock >= PollTime
Dispatched(w) == main.at = "fan" /\ job[w] = NoJob /\ fan.order # <<>> /\ ~FanEnded
Foremost == Head(fan.order)

Dispatch(w) ==
  /\ Dispatched(w) /\ Foremost \notin Nameless
  /\ fan' = [fan EXCEPT !.order = Tail(@)]
  /\ job' = [job EXCEPT ![w] = [detail |-> 1, device |-> Foremost]]
  /\ get' = [get EXCEPT ![w] = NewGet]
  /\ UNCHANGED <<clock, token, holder, upstream, main, cache, attempted, history>>


\* (mutant) the first failure is reported, whatever stopped the fan-out.
WithFirstFailure(f, d, e) ==
  [f EXCEPT !.completed = IF AccountWide(e) THEN @ ELSE @ \cup {d}, !.error = IF @ = "none" THEN e ELSE @]

\* What the collecting loop keeps of a device's failure.
WithFailure(f, d, e) ==
  [f EXCEPT !.completed = IF AccountWide(e) THEN @ ELSE @ \cup {d},
            !.error = IF @ = "none" \/ (AccountWide(e) /\ ~AccountWide(@)) THEN e ELSE @]

DispatchNameless(w) ==
  /\ Dispatched(w) /\ Foremost \in Nameless
  /\ fan' = WithFailure([fan EXCEPT !.order = Tail(@)], Foremost, "invalid")
  /\ UNCHANGED <<clock, token, holder, upstream, get, job, main, cache, attempted, history>>

\* The next of the two details of the device, or the device is read.
Advance(w) ==
  IF job[w].detail = 1
  THEN /\ job' = [job EXCEPT ![w].detail = 2]
       /\ get' = [get EXCEPT ![w] = NewGet]
  ELSE /\ job' = [job EXCEPT ![w] = NoJob]
       /\ get' = [get EXCEPT ![w] = NoGet]
Reads(f, w) ==
  IF job[w].detail = 1 THEN f
  ELSE [f EXCEPT !.found = @ \cup {job[w].device}, !.completed = @ \cup {job[w].device}]


\* (mutant) each response is held against the limit on its own.
DetailReadAlone(w) ==
  /\ job[w] # NoJob /\ Answered(w) /\ ~fan.over
  /\ \E size \in Sizes :
       /\ size <= MaxBytes
       /\ fan' = Reads([fan EXCEPT !.bytes = @ + size], w)
       /\ history' = [history EXCEPT !.bytes = @ + size,
                                     !.answered = IF job[w].detail = 2 THEN @ \cup {job[w].device} ELSE @]
  /\ Advance(w)
  /\ UNCHANGED <<clock, token, holder, upstream, main, cache, attempted>>

\* accountResponse: one budget for the whole fan-out, taken under budgetMu.
DetailRead(w) ==
  /\ job[w] # NoJob /\ Answered(w) /\ ~fan.over
  /\ \E size \in Sizes :
       /\ size <= MaxBytes - fan.bytes
       /\ fan' = Reads([fan EXCEPT !.bytes = @ + size], w)
       /\ history' = [history EXCEPT !.bytes = @ + size,
                                     !.answered = IF job[w].detail = 2 THEN @ \cup {job[w].device} ELSE @]
  /\ Advance(w)
  /\ UNCHANGED <<clock, token, holder, upstream, main, cache, attempted>>

\* A detail endpoint that answers 403 is recorded as unsupported.
DetailUnsupported(w) ==
  /\ job[w] # NoJob /\ get[w].at = "failed" /\ get[w].error = "forbidden" /\ ~fan.over
  /\ fan' = Reads(fan, w)
  /\ history' = [history EXCEPT !.answered = IF job[w].detail = 2 THEN @ \cup {job[w].device} ELSE @]
  /\ Advance(w)
  /\ UNCHANGED <<clock, token, holder, upstream, main, cache, attempted>>

GiveUp(w) == job' = [job EXCEPT ![w] = NoJob] /\ get' = [get EXCEPT ![w] = NoGet]

\* The answer that exceeds the budget, and every answer after it.
DetailOverBudget(w) ==
  /\ job[w] # NoJob
  /\ \/ Answered(w) /\ (fan.over \/ \E size \in Sizes : size > MaxBytes - fan.bytes)
     \/ get[w].at = "failed" /\ fan.over
  /\ fan' = [fan EXCEPT !.over = TRUE, !.stopped = TRUE]
  /\ history' = [history EXCEPT !.over = TRUE]
  /\ GiveUp(w)
  /\ UNCHANGED <<clock, token, holder, upstream, main, cache, attempted>>


\* A refusal of the whole account stops the fan-out. A device whose request
\* was cut by the stop or the deadline sends no result.
Settled(f, d, e) == IF (f.stopped \/ clock >= PollTime) /\ ~AccountWide(e) THEN f ELSE WithFailure(f, d, e)

DetailFails(w) ==
  /\ job[w] # NoJob /\ ~fan.over
  /\ \E e \in Results :
       LET d == job[w].device
           h == IF get[w].at = "failed" THEN history ELSE SpendFault
       IN  /\ \/ get[w].at = "failed" /\ e = get[w].error /\ e # "forbidden"
              \/ Answered(w) /\ e = "invalid" /\ history.faults < MaxFaults
           /\ fan' = Settled([fan EXCEPT !.stopped = @ \/ AccountWide(e)], d, e)
           /\ history' = [h EXCEPT !.refused = @ \/ AccountWide(e),
                                   !.answered = IF get[w].at = "failed" /\ get[w].cut THEN @ ELSE @ \cup {d}]
  /\ GiveUp(w)
  /\ UNCHANGED <<clock, token, holder, upstream, main, cache, attempted>>

\* recordDeviceDetailAttempts: devices no longer listed are forgotten.
Recorded ==
  [poll |-> attempted.poll + 1,
   of |-> [d \in Devices |-> IF d \in Nameless \/ d \notin ToSet(fan.list) THEN 0
                             ELSE IF d \in fan.completed THEN attempted.poll + 1 ELSE attempted.of[d]]]

\* Every device missing from the answer counts, dispatched or not.
Missing == Len(fan.list) - Cardinality(fan.found)
Cause == IF Missing = 0 THEN "none"
         ELSE IF fan.error # "none" THEN fan.error
         ELSE IF clock >= PollTime THEN "timeout" ELSE "invalid"

FanOutDone == main.at = "fan" /\ (\A w \in Workers : job[w] = NoJob) /\ (fan.order = <<>> \/ FanEnded)

FinishFanOut ==
  /\ FanOutDone /\ ~fan.over
  /\ attempted' = Recorded
  /\ Report(history, Cause, fan.found)
  /\ fan' = NoFan
  /\ UNCHANGED <<clock, token, holder, upstream, get, job, cache>>

\* Over its budget the collector reports nothing and records nothing.
FanOutOverBudget ==
  /\ FanOutDone /\ fan.over
  /\ Report(history, "invalid", {})
  /\ fan' = NoFan
  /\ UNCHANGED <<clock, token, holder, upstream, get, job, cache, attempted>>

-----------------------------------------------------------------------------
(* Collectors of several single objects: dns, legacyDNS, logStreaming. *)

CollectObjects(collector) ==
  /\ Starts(collector) /\ AskAfresh
  /\ main' = [at |-> collector, todo |-> main.todo, step |-> 0, read |-> 0, forbidden |-> 0]
  /\ history' = [history EXCEPT !.read = 0]
  /\ UNCHANGED <<token, holder, upstream, job, fan, cache, attempted>>

\* getObject: a body that is no JSON object is an error like the others.
Answers(e, h) ==
  \/ Answered(Main) /\ e = "none" /\ h = history
  \/ Answered(Main) /\ e = "invalid" /\ history.faults < MaxFaults /\ h = SpendFault
  \/ get[Main].at = "failed" /\ e = get[Main].error /\ h = history


AskNext(step, read, forbidden) ==
  /\ main' = [main EXCEPT !.step = step, !.read = @ + read, !.forbidden = @ + forbidden]
  /\ Ask
Counted(h, e) == [h EXCEPT !.read = @ + IF e = "none" THEN 1 ELSE 0]
Concludes(h, e) == Report(h, e, {}) /\ Forget

\* The combined DNS endpoint; without it, the four legacy endpoints in turn,
\* of which at least one must be supported.
DNSAnswer ==
  /\ main.at = "dns"
  /\ \E e \in Results, h \in {history, SpendFault} :
       /\ Answers(e, h)
       /\ \/ main.step = 0 /\ e # "missing" /\ Concludes(Counted(h, e), e)
          \/ main.step = 0 /\ e = "missing" /\ AskNext(1, 0, 0) /\ history' = h
          \/ main.step > 0 /\ e # "none" /\ ~IsUnsupported(e) /\ Concludes(h, e)
          \/ /\ main.step \in 1 .. 3 /\ (e = "none" \/ IsUnsupported(e))
             /\ AskNext(main.step + 1, IF e = "none" THEN 1 ELSE 0, 0) /\ history' = Counted(h, e)
          \/ /\ main.step = 4 /\ (e = "none" \/ IsUnsupported(e))
             /\ Concludes(Counted(h, e), IF e = "none" \/ main.read > 0 THEN "none" ELSE "missing")
  /\ UNCHANGED <<clock, token, holder, upstream, job, fan, cache, attempted>>

\* The stream and its status, for each of the two kinds of log: steps 0 and
\* 1, then 2 and 3. Forbidden for both, the collector is unsupported.
LogAnswer ==
  /\ main.at = "log_streaming"
  /\ \E e \in Results, h \in {history, SpendFault} :
       LET status == main.step % 2 = 1
           kindDone == status \/ IsUnsupported(e)
           forbidden == IF ~status /\ e = "forbidden" THEN 1 ELSE 0
           tolerated == e = "none" \/ IsUnsupported(e) \/ (status /\ e = "badGateway")
       IN  /\ Answers(e, h)
           /\ \/ ~tolerated /\ Concludes(Counted(h, e), e)
              \/ tolerated /\ ~kindDone /\ AskNext(main.step + 1, 0, 0) /\ history' = Counted(h, e)
              \/ /\ tolerated /\ kindDone /\ main.step < 2
                 /\ AskNext(2, 0, forbidden) /\ history' = Counted(h, e)
              \/ /\ tolerated /\ kindDone /\ main.step >= 2
                 /\ Concludes(Counted(h, e), IF main.forbidden + forbidden = 2 THEN "forbidden" ELSE "none")
  /\ UNCHANGED <<clock, token, holder, upstream, job, fan, cache, attempted>>

-----------------------------------------------------------------------------
(* Time and the API. *)

\* Bound: time stands still between polls and for a collector past its deadline.
Tick ==
  /\ main.at \notin {"idle", "next"} /\ clock < PollTime
  /\ clock' = clock + 1
  /\ UNCHANGED <<token, holder, upstream, get, job, main, fan, cache, attempted, history>>

\* The cached token comes within five minutes of its expiry, or the API stops
\* accepting every token issued so far.
Expire ==
  /\ token.usable /\ history.expiries < MaxExpiries /\ holder = {}
  /\ token' = [token EXCEPT !.usable = FALSE]
  /\ history' = [history EXCEPT !.expiries = @ + 1]
  /\ UNCHANGED <<clock, holder, upstream, get, job, main, fan, cache, attempted>>

Revoke ==
  /\ upstream.accepted # {} /\ history.expiries < MaxExpiries
  /\ upstream' = [upstream EXCEPT !.accepted = {}]
  /\ history' = [history EXCEPT !.expiries = @ + 1]
  /\ UNCHANGED <<clock, token, holder, get, job, main, fan, cache, attempted>>

\* Bound: after the last poll nothing more is asked.
Done == main.at = "idle" /\ history.polls = MaxPolls /\ UNCHANGED vars

Working(w) == Get(w) \/ Dispatch(w) \/ DispatchNameless(w) \/ DetailRead(w) \/ DetailUnsupported(w)
              \/ DetailOverBudget(w) \/ DetailFails(w)
Polling == \/ EndPoll \/ CollectDevices \/ CollectDetails \/ CollectObjects("dns") \/ CollectObjects("log_streaming")
           \/ LastPage \/ NextPage \/ TooMuch \/ UnusablePage \/ PageFails
           \/ FinishFanOut \/ FanOutOverBudget \/ DNSAnswer \/ LogAnswer
           \/ Get(Main)
Next == BeginPoll \/ Polling \/ (\E w \in Workers : Working(w)) \/ Tick \/ Expire \/ Revoke
        \/ Done

Spec == Init /\ [][Next]_vars

-----------------------------------------------------------------------------
(* Properties. *)

\* The mutex is held by the one caller that fetches a token, a worker reads a
\* device of the list that no other worker reads, and the budget is kept.
TypeOK ==
  /\ clock \in 0 .. PollTime
  /\ holder = {c \in Callers : get[c].at = "fetching"} /\ Cardinality(holder) <= 1
  /\ token.id \in 0 .. upstream.issued /\ upstream.accepted \subseteq 1 .. upstream.issued
  /\ \A c \in Callers : get[c].at \in {"none", "token", "fetching", "sent", "waiting", "failed"}
  /\ \A c \in Callers : get[c].at \notin {"none", "failed"} => get[c].attempt < Attempts
  /\ \A w \in Workers : job[w] # NoJob =>
       /\ job[w].device \in ToSet(fan.list) \ (ToSet(fan.order) \cup fan.found \cup fan.completed)
       /\ \A v \in Workers \ {w} : job[v] # NoJob => job[v].device # job[w].device
  /\ fan.found \subseteq fan.completed /\ fan.bytes <= MaxBytes
  /\ \A d \in Devices : attempted.of[d] \in 0 .. attempted.poll
  /\ main.at = "page" => main.page \in 1 .. MaxPages

\* The attempt that follows a 401 never sends the token that was rejected,
\* whichever tokens other callers fetched and emptied meanwhile.
RejectedTokenNotResent == \A c \in Callers : get[c].at = "sent" => get[c].used # get[c].rejected

\* What is reported of a collector is what was read of it.  A complete answer
\* covers the whole device list the API holds in this poll: no page dropped, no
\* list of an earlier poll, no device whose request was cut or refused; of the
\* collectors of several objects, one is unsupported only when no object could
\* be read, and a DNS answer is never made of refusals alone.
ReportedAsRead ==
  LET last == history.last IN
  /\ last.kind = "complete" /\ last.collector \in {"devices", "device_details"} /\ main.at # "idle"
       => last.found = ToSet(upstream.listing)
  /\ last.kind = "unsupported" /\ last.collector \in {"dns", "log_streaming"} => last.read = 0
  /\ last.kind = "complete" /\ last.collector = "dns" => last.read > 0

\* What a fan-out retains over all its workers stays within the limit of one
\* collection whenever it is reported.
WithinBudget ==
  history.last.collector = "device_details" /\ history.last.kind \in {"complete", "partial"}
    => history.bytes <= MaxBytes

\* A fan-out stopped by a rate limit or a rejected credential says so, even
\* when a device failed for another reason first.
CauseIsNamed ==
  history.last.collector = "device_details" /\ history.last.kind \in {"partial", "failed"} /\ history.refused
    => AccountWide(history.last.error) \/ history.over

\* A deadline never starves the same tail of the list: a device is handed out
\* only when none still waiting was completed longer ago, and it counts as
\* attempted only when its own request was answered, so that one cut by the
\* deadline or by the refusal of another keeps its place.
NobodyOvertakes ==
  [][/\ \A w \in Workers : job[w] = NoJob /\ job'[w] # NoJob
          => \A d \in ToSet(fan'.order) \ Nameless : attempted.of[job'[w].device] <= attempted.of[d]
     /\ \A d \in Devices : attempted'.of[d] \notin {0, attempted.of[d]} => d \in history.answered]_vars
=============================================================================
