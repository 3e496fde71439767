------------------------------- MODULE Access -------------------------------
(***************************************************************************)
(* Who may act on the web interface: setup, login, password reset and      *)
(* change (web/auth.go, account.go, credential_flow.go, store/auth.go),    *)
(* the one-time form challenge (challenge.go), the throttle (throttle.go), *)
(* sessions (store/sessions.go), API tokens (store/api_tokens.go) with the *)
(* one-time display of their secret (reveal.go), and the administrative    *)
(* record of each change (admin_audit.go).                                 *)
(*                                                                         *)
(* Requests run concurrently. A request's record says which step is next;  *)
(* a step is one transaction, one statement or one locked section.         *)
(***************************************************************************)
EXTENDS Integers, Sequences, FiniteSets, FiniteSetsExt, SequencesExt

CONSTANTS
  Requests,       \* requests the server handles at a time
  Clients,        \* browsers, each with an address of its own
  FormLife,       \* lifetime of a form challenge (5 minutes)
  SessionLife, IdleTimeout, TouchInterval,
  TokenLife,      \* lifetime of a setup, reset or API token
  RevealLife,     \* how long a new API token waits to be displayed
  FailureWindow, FailuresPerClient, GlobalBudget, BackoffMax,
  MaxTracked,     \* client buckets kept
  MaxConsumed,    \* spent challenges remembered
  PruneInterval,  \* how often spent challenges are pruned
  Slots,          \* password checks under way at a time
  MaxActive,      \* active API tokens
  MaxReveals,     \* secrets waiting to be displayed
  Operations,     \* bound: what requests may ask for
  MaxForms, MaxAsked, MaxSessions, MaxTokens, MaxPasswords, MaxIssued, MaxStarts, MaxClock  \* bounds

ASSUME AccessAssumption ==
  /\ {SessionLife, IdleTimeout, FormLife, TokenLife, RevealLife, FailureWindow, FailuresPerClient,
      GlobalBudget, BackoffMax, MaxTracked, MaxConsumed, Slots, MaxActive, MaxReveals, MaxSessions,
      MaxPasswords} \subseteq Nat \ {0}
  /\ {TouchInterval, PruneInterval, MaxForms, MaxAsked, MaxTokens, MaxIssued, MaxStarts, MaxClock} \subseteq Nat
  /\ TouchInterval < IdleTimeout /\ IsFiniteSet(Requests)
  /\ Operations \subseteq {"claim", "login", "reset", "change", "create", "view", "refresh", "logout",
                           "others", "revoke", "api"}

VARIABLES
  clock,
  admin,      \* version of the administrator's password, 0 when unclaimed
  offered,    \* auth_tokens: the setup and the reset token, id 0 for none
  sessions,   \* by id, in the order of sign-in
  tokens,     \* api_tokens, by id
  service,    \* which process serves: 0 when none; it names the challenge key
  forms,      \* challenges issued
  consumed,   \* spent challenges remembered, with prunedAt
  prunedAt,
  failures,   \* loginAttempts: times by action and client
  overall,    \* globalFailures: times by action
  noted,      \* history: all failures since the last success, by action and client
  evicted,    \* history: how many of those the throttle has forgotten with their bucket
  reveals,    \* new API tokens waiting to be displayed
  requests,
  trail,      \* admin_audit: event and what it is about
  history     \* what happened, for the properties alone

durable == <<admin, offered, sessions, tokens, trail>>
spent == <<consumed, prunedAt>>
throttle == <<failures, overall, noted, evicted>>
vars == <<clock, durable, service, forms, spent, throttle, reveals, requests, history>>

FormOperations == {"claim", "login", "reset"}
StepUps == {"change", "create"}          \* they ask for the current password
Throttles == FormOperations \cup {"password", "api"}
Buckets == Throttles \X Clients
NoFailures == [b \in Buckets |-> <<>>]
Free == [at |-> "free"]
None == [id |-> 0, expires |-> 0]
NoSession == [live |-> FALSE, made |-> 0, seen |-> 0]
NoToken == [live |-> FALSE, expires |-> 0]

\* A claimed installation starts with a session signed in.
Init ==
  /\ clock = 0 /\ admin \in {0, 1}
  /\ offered = [k \in {"setup", "reset"} |-> None]
  /\ sessions = [i \in 1 .. MaxSessions |-> [NoSession EXCEPT !.live = i <= admin]]
  /\ tokens = [i \in 1 .. MaxTokens |-> NoToken]
  /\ service = 0 /\ forms = <<>> /\ consumed = {} /\ prunedAt = 0
  /\ failures = NoFailures /\ noted = NoFailures /\ evicted = [b \in Buckets |-> 0]
  /\ overall = [a \in Throttles |-> <<>>]
  /\ reveals = {} /\ trail = {} /\ requests = [q \in Requests |-> Free]
  /\ history = [served |-> 0, asked |-> 0, issued |-> 0, signedIn |-> admin, created |-> 0,
                accepted |-> [f \in 1 .. MaxForms |-> 0], used |-> [i \in 1 .. MaxIssued |-> 0],
                active |-> [i \in 1 .. MaxSessions |-> 0],
                cut |-> [sessions |-> 0, tokens |-> 0], committed |-> {}, lost |-> {}]

\* What the history keeps of a committed change.
Asked == history.asked < MaxAsked /\ history' = [history EXCEPT !.asked = @ + 1]
Remember(h, event, about) == [h EXCEPT !.committed = @ \cup {<<event, about>>}]

-----------------------------------------------------------------------------
(* The process and the one-time tokens. *)

Offer(kind) == /\ history.issued < MaxIssued
               /\ offered' = [offered EXCEPT ![kind] = [id |-> history.issued + 1, expires |-> clock + TokenLife]]

\* Start: an unclaimed installation gets a fresh setup token. Challenges are
\* signed with a key of this process, and nothing in memory survives.
Start ==
  /\ service = 0 /\ history.served < MaxStarts
  /\ service' = history.served + 1
  /\ IF admin = 0
     THEN Offer("setup") /\ history' = [history EXCEPT !.served = @ + 1, !.issued = @ + 1]
     ELSE history' = [history EXCEPT !.served = @ + 1] /\ UNCHANGED offered
  /\ prunedAt' = 0
  /\ UNCHANGED <<clock, admin, sessions, tokens, trail, forms, consumed, throttle, reveals, requests>>

Pending(q) == IF "change" \in DOMAIN requests[q] THEN {requests[q].change} ELSE {}
Stop ==
  /\ service # 0 /\ service' = 0
  /\ consumed' = {} /\ reveals' = {}
  /\ failures' = NoFailures /\ noted' = NoFailures /\ evicted' = [b \in Buckets |-> 0]
  /\ overall' = [a \in Throttles |-> <<>>]
  /\ requests' = [q \in Requests |-> Free]
  /\ history' = [history EXCEPT !.lost = @ \cup UNION {Pending(q) : q \in Requests}]
  /\ UNCHANGED <<clock, durable, forms, prunedAt>>

\* admin reset: a process of its own.
IssueResetToken ==
  /\ admin > 0 /\ Offer("reset")
  /\ history' = [history EXCEPT !.issued = @ + 1]
  /\ UNCHANGED <<clock, admin, sessions, tokens, trail, service, forms, spent, throttle, reveals, requests>>

\* validateAuthToken, and the same checks inside the transaction.
Honoured(kind, id) == id > 0 /\ offered[kind].id = id /\ offered[kind].expires > clock

-----------------------------------------------------------------------------
(* The throttle. *)

\* Times are noted in order, so those outside the window come first.
Stale(times) == {i \in DOMAIN times : times[i] <= clock - FailureWindow}
Recent(times) == SubSeq(times, Cardinality(Stale(times)) + 1, Len(times))
Tracked(f) == {b \in DOMAIN f : f[b] # <<>>}
Oldest(f) == {b \in Tracked(f) : \A c \in Tracked(f) : f[b][1] <= f[c][1]}

\* pruneLoginAttemptsLocked: a bucket keeps what is in the window, and when
\* there are too many buckets one with the oldest failure goes.
InWindow(f) == [b \in DOMAIN f |-> Recent(f[b])]
Evictable(f) == IF Cardinality(Tracked(InWindow(f))) <= MaxTracked THEN {{}}
                ELSE {{b} : b \in Oldest(InWindow(f))}
Pruned(f, gone) == [b \in DOMAIN f |-> IF b \in gone THEN <<>> ELSE Recent(f[b])]
Forgotten(e, n, gone) == [b \in DOMAIN e |-> IF b \in gone THEN Len(n[b]) ELSE e[b]]

Backoff(excess) == Min({2 ^ excess, BackoffMax})
\* (mutant) one failure more than the limit
ThrottledLate(f, g, action, client) ==
  \/ Len(f[<<action, client>>]) > FailuresPerClient
  \/ Len(g[action]) >= GlobalBudget /\ Last(g[action]) + Backoff(Len(g[action]) - GlobalBudget) > clock
Throttled(f, g, action, client) ==
  \/ Len(f[<<action, client>>]) >= FailuresPerClient
  \/ Len(g[action]) >= GlobalBudget /\ Last(g[action]) + Backoff(Len(g[action]) - GlobalBudget) > clock

RecentOverall == [a \in Throttles |-> Recent(overall[a])]

Noted(f, action, client) == [f EXCEPT ![<<action, client>>] = Append(@, clock)]

RecordFailure(action, client) ==
  /\ \E before \in Evictable(failures) :
       LET f == Noted(Pruned(failures, before), action, client)
       IN \E after \in Evictable(f) :
            /\ failures' = Pruned(f, after)
            /\ noted' = Noted(noted, action, client)
            /\ evicted' = Forgotten(Forgotten(evicted, noted, before), noted', after)
  /\ overall' = [RecentOverall EXCEPT ![action] = Append(@, clock)]

ClearFailures(action, client) ==
  /\ failures' = [failures EXCEPT ![<<action, client>>] = <<>>]
  /\ noted' = [noted EXCEPT ![<<action, client>>] = <<>>]
  /\ evicted' = [evicted EXCEPT ![<<action, client>>] = 0]
  /\ UNCHANGED overall

\* What every look at the throttle does first.
Prune == /\ \E gone \in Evictable(failures) :
              failures' = Pruned(failures, gone) /\ evicted' = Forgotten(evicted, noted, gone)
         /\ overall' = RecentOverall
         /\ UNCHANGED noted

\* throttled: the request goes on to step "then" or is refused.
Admit(q, action, then) ==
  /\ Prune
  /\ requests' = [requests EXCEPT ![q] = IF Throttled(failures', overall', action, requests[q].client)
                                         THEN Free ELSE [@ EXCEPT !.at = then]]

Bucket(op) == IF op \in StepUps THEN "password" ELSE op

\* A form or a password change holds its place until it is answered; a
\* step-up gives it back once the password is checked.
Holds(r) == \/ r.at = "check"
            \/ r.at \in {"commit", "signin", "record"} /\ r.op \in FormOperations \cup {"change"}
SlotFree == Cardinality({q \in Requests : Holds(requests[q])}) < Slots

-----------------------------------------------------------------------------
(* The form challenge. *)

\* issueCredentialChallenge, for the browser that asks.
LoadForm(op, client) ==
  /\ service # 0 /\ Len(forms) < MaxForms
  /\ forms' = Append(forms, [op |-> op, client |-> client, expires |-> clock + FormLife, by |-> service])
  /\ UNCHANGED <<clock, durable, service, spent, throttle, reveals, requests, history>>

Authentic(f, op, client) ==
  /\ forms[f].by = service /\ forms[f].op = op /\ forms[f].client = client
  /\ forms[f].expires > clock

\* (mutant) a full cache evicts a challenge that may still be submitted
RememberedByEviction(f) ==
  IF Cardinality(consumed) >= MaxConsumed THEN consumed \ {Min(consumed)} ELSE consumed
\* What consumeCredentialChallenge keeps before it looks at a challenge.
Remembered(f) ==
  IF clock - prunedAt >= PruneInterval \/ Cardinality(consumed) >= MaxConsumed
  THEN {c \in consumed : forms[c].expires > clock} ELSE consumed

SubmitForm(q, op, client, f, guess) ==
  /\ service # 0 /\ requests[q] = Free /\ op \in Operations
  /\ op = "claim" => admin = 0
  /\ requests' = [requests EXCEPT ![q] = [at |-> "throttle", op |-> op, client |-> client, form |-> f,
                                          guess |-> guess]]
  /\ Asked
  /\ UNCHANGED <<clock, durable, service, forms, spent, throttle, reveals>>

Throttle(q) ==
  /\ requests[q].at = "throttle"
  /\ Admit(q, Bucket(requests[q].op), IF requests[q].op \in FormOperations THEN "challenge" ELSE "slot")
  /\ UNCHANGED <<clock, durable, service, forms, spent, reveals, history>>

\* A challenge is spent even when no slot is free afterwards.
Challenge(q) ==
  /\ requests[q].at = "challenge"
  /\ LET f == requests[q].form
         kept == Remembered(f)
         spendable == f \notin kept /\ Cardinality(kept) < MaxConsumed
     IN IF Authentic(f, requests[q].op, requests[q].client)
        THEN /\ consumed' = IF spendable THEN kept \cup {f} ELSE kept
             /\ prunedAt' = IF kept # consumed \/ clock - prunedAt >= PruneInterval THEN clock ELSE prunedAt
             /\ requests' = [requests EXCEPT ![q] = IF spendable THEN [@ EXCEPT !.at = "slot"] ELSE Free]
             /\ history' = IF spendable THEN [history EXCEPT !.accepted[f] = @ + 1] ELSE history
        ELSE requests' = [requests EXCEPT ![q] = Free] /\ UNCHANGED <<spent, history>>
  /\ UNCHANGED <<clock, durable, service, forms, throttle, reveals>>

\* A place among the password checks, or "busy".
TakeSlot(q) ==
  /\ requests[q].at = "slot"
  /\ requests' = [requests EXCEPT ![q] = IF SlotFree THEN [@ EXCEPT !.at = "check"] ELSE Free]
  /\ UNCHANGED <<clock, durable, service, forms, spent, throttle, reveals, history>>

-----------------------------------------------------------------------------
(* What the password or token decides. *)

Correct(r) == CASE r.op = "claim" -> Honoured("setup", r.guess)
                [] r.op = "reset" -> Honoured("reset", r.guess)
                [] OTHER -> admin > 0 /\ r.guess = admin

\* A refused submission counts against its bucket; a wrong password is
\* recorded, a wrong token only counted. Guess 0 is a wrong one, or a
\* confirmation that differs.
Refuse(q) ==
  /\ RecordFailure(Bucket(requests[q].op), requests[q].client)
  /\ requests' = [requests EXCEPT ![q] = Free]
  /\ trail' = IF requests[q].op \in {"claim", "reset"} THEN trail ELSE trail \cup {<<"refused", 0>>}

Check(q) ==
  /\ requests[q].at = "check"
  /\ IF Correct(requests[q])
     THEN /\ requests' = [requests EXCEPT ![q].at = IF requests[q].op = "login" THEN "signin" ELSE "commit"]
          /\ IF requests[q].op \in {"login", "create"}
             THEN ClearFailures(Bucket(requests[q].op), requests[q].client) ELSE UNCHANGED throttle
          /\ UNCHANGED trail
     ELSE Refuse(q)
  /\ UNCHANGED <<clock, admin, offered, sessions, tokens, service, forms, spent, reveals, history>>

Then(q, step, event, about) ==
  requests' = [requests EXCEPT ![q] = [at |-> step, op |-> @.op, client |-> @.client, change |-> <<event, about>>]]

\* Claim: the token is looked at again inside the transaction, and a second
\* administrator cannot be inserted.
CommitClaim(q) ==
  /\ requests[q].at = "commit" /\ requests[q].op = "claim"
  /\ IF Honoured("setup", requests[q].guess) /\ admin = 0
     THEN /\ admin' = 1 /\ offered' = [offered EXCEPT !["setup"] = None]
          /\ Then(q, "signin", "claim", 1)
          /\ history' = Remember([history EXCEPT !.used[requests[q].guess] = @ + 1], "claim", 1)
          /\ ClearFailures("claim", requests[q].client) /\ UNCHANGED trail
     ELSE Refuse(q) /\ UNCHANGED <<admin, offered, history>>
  /\ UNCHANGED <<clock, sessions, tokens, service, forms, spent, reveals>>

\* revokeActiveAPITokens
Revoked(ts) == [i \in DOMAIN ts |-> IF ts[i].expires > clock THEN [ts[i] EXCEPT !.live = FALSE] ELSE ts[i]]

\* A new password signs out every session, withdraws the reset token and
\* revokes every active API token.
NewPassword ==
  /\ admin' = admin + 1 /\ offered' = [offered EXCEPT !["reset"] = None]
  /\ sessions' = [i \in DOMAIN sessions |-> NoSession]
  /\ tokens' = Revoked(tokens)
Cut(h) == [h EXCEPT !.cut = [sessions |-> h.signedIn, tokens |-> h.created]]

StillHonoured(r) == Honoured("reset", r.guess)

CommitReset(q) ==
  /\ requests[q].at = "commit" /\ requests[q].op = "reset" /\ admin < MaxPasswords
  /\ IF StillHonoured(requests[q]) /\ admin > 0
     THEN /\ NewPassword /\ Then(q, "record", "reset", admin + 1)
          /\ history' = Remember(Cut([history EXCEPT !.used[requests[q].guess] = @ + 1]), "reset", admin + 1)
          /\ ClearFailures("reset", requests[q].client) /\ UNCHANGED trail
     ELSE Refuse(q) /\ UNCHANGED <<admin, offered, sessions, tokens, history>>
  /\ UNCHANGED <<clock, service, forms, spent, reveals>>

\* ChangePassword: the current password was checked before the transaction.
CommitChange(q) ==
  /\ requests[q].at = "commit" /\ requests[q].op = "change" /\ admin < MaxPasswords
  /\ NewPassword /\ Then(q, "record", "change", admin + 1)
  /\ history' = Remember(Cut(history), "change", admin + 1)
  /\ ClearFailures("password", requests[q].client)
  /\ UNCHANGED <<clock, trail, service, forms, spent, reveals>>

Active == {i \in DOMAIN tokens : tokens[i].live /\ tokens[i].expires > clock}
RoomForToken == Cardinality(Active) < MaxActive

CommitToken(q) ==
  /\ requests[q].at = "commit" /\ requests[q].op = "create" /\ history.created < MaxTokens
  /\ IF RoomForToken
     THEN LET i == history.created + 1
          IN /\ tokens' = [tokens EXCEPT ![i] = [live |-> TRUE, expires |-> clock + TokenLife]]
             /\ requests' = [requests EXCEPT ![q] = [at |-> "record", op |-> "create", client |-> @.client,
                                                     session |-> @.session, change |-> <<"create", i>>]]
             /\ history' = Remember([history EXCEPT !.created = i], "create", i)
     ELSE requests' = [requests EXCEPT ![q] = Free] /\ UNCHANGED <<tokens, history>>
  /\ UNCHANGED <<clock, admin, offered, sessions, trail, service, forms, spent, throttle, reveals>>

\* startSession. Login and claim are recorded after it; a password change was
\* recorded before.
SignIn(q) ==
  /\ requests[q].at = "signin" /\ history.signedIn < MaxSessions
  /\ LET i == history.signedIn + 1
         h == [history EXCEPT !.signedIn = i, !.active[i] = clock]
     IN /\ sessions' = [sessions EXCEPT ![i] = [live |-> TRUE, made |-> clock, seen |-> clock]]
        /\ CASE requests[q].op = "login" -> Then(q, "record", "login", i) /\ history' = Remember(h, "login", i)
             [] requests[q].op = "claim" -> Then(q, "record", "claim", 1) /\ history' = h
             [] OTHER -> requests' = [requests EXCEPT ![q] = Free] /\ history' = h
  /\ UNCHANGED <<clock, admin, offered, tokens, trail, service, forms, spent, throttle, reveals>>

AfterRecord(r) == CASE r.op = "change" -> "signin" [] r.op = "create" -> "reveal" [] OTHER -> "free"

\* recordAdmin: one transaction after the change's own.
Record(q) ==
  /\ requests[q].at = "record"
  /\ trail' = trail \cup {requests[q].change}
  /\ requests' = [requests EXCEPT ![q] = IF AfterRecord(@) = "free" THEN Free
                                         ELSE [@ EXCEPT !.at = AfterRecord(requests[q])]]
  /\ UNCHANGED <<clock, admin, offered, sessions, tokens, service, forms, spent, throttle, reveals, history>>

\* The secret of a new token waits for the page its session loads next. When
\* too many wait, it cannot be displayed at all.
Waiting == {r \in reveals : clock < r.expires}
Held(kept, r) == IF Cardinality(kept) >= MaxReveals THEN kept ELSE kept \cup {r}
HoldSecret(q) ==
  /\ requests[q].at = "reveal"
  /\ reveals' = Held(Waiting, [token |-> requests[q].change[2], session |-> requests[q].session,
                               expires |-> clock + RevealLife])
  /\ requests' = [requests EXCEPT ![q] = Free]
  /\ UNCHANGED <<clock, durable, service, forms, spent, throttle, history>>

-----------------------------------------------------------------------------
(* Requests of a session. A refresh is one the browser makes on its own. *)

Activity(op) == op # "refresh"

SubmitSession(q, op, client, s, guess) ==
  /\ service # 0 /\ requests[q] = Free /\ op \in Operations \ (FormOperations \cup {"api"})
  /\ requests' = [requests EXCEPT ![q] = [at |-> "auth", op |-> op, client |-> client, session |-> s,
                                          guess |-> guess]]
  /\ Asked
  /\ UNCHANGED <<clock, durable, service, forms, spent, throttle, reveals>>

Idle(r, s) == s.seen + IdleTimeout <= clock
Resume(r) == CASE r.op \in StepUps -> "throttle" [] OTHER -> "act"
\* (mutant) a refresh is written as last-seen time, too
EveryTouchDue(r, s) == clock - s.seen >= TouchInterval
TouchDue(r, s) == Activity(r.op) /\ clock - s.seen >= TouchInterval

\* AuthenticateSession reads the session on the read-only pool; the removal
\* of an idle session and the last-seen time are separate, bounded writes.
Authenticate(q) ==
  /\ requests[q].at = "auth"
  /\ LET r == requests[q]
         s == sessions[r.session]
     IN /\ requests' = [requests EXCEPT ![q] =
             IF ~s.live \/ s.made + SessionLife <= clock THEN Free
             ELSE IF Idle(r, s) THEN [at |-> "drop", session |-> r.session]
             ELSE IF TouchDue(r, s) THEN [at |-> "touch", op |-> r.op, client |-> r.client, session |-> r.session,
                                          guess |-> r.guess, since |-> clock]
             ELSE [@ EXCEPT !.at = Resume(r)]]
        /\ history' = IF s.live /\ s.made + SessionLife > clock /\ ~Idle(r, s) /\ Activity(r.op)
                      THEN [history EXCEPT !.active[r.session] = clock] ELSE history
  /\ UNCHANGED <<clock, durable, service, forms, spent, throttle, reveals>>

DropIdle(q) ==
  /\ requests[q].at = "drop"
  /\ sessions' \in {sessions, [sessions EXCEPT ![requests[q].session] = NoSession]}
  /\ requests' = [requests EXCEPT ![q] = Free]
  /\ UNCHANGED <<clock, admin, offered, tokens, trail, service, forms, spent, throttle, reveals, history>>

\* (mutant) the write puts back a session that was signed out meanwhile
TouchedAnyway(s, at) == [s EXCEPT !.live = TRUE, !.seen = at]
Touched(s, at) == IF s.live THEN [s EXCEPT !.seen = at] ELSE s

\* The write may fail; the request goes on.
Touch(q) ==
  /\ requests[q].at = "touch"
  /\ sessions' \in {sessions, [sessions EXCEPT ![requests[q].session] = Touched(@, requests[q].since)]}
  /\ requests' = [requests EXCEPT ![q] = [at |-> Resume(@), op |-> @.op, client |-> @.client,
                                          session |-> @.session, guess |-> @.guess]]
  /\ UNCHANGED <<clock, admin, offered, tokens, trail, service, forms, spent, throttle, reveals, history>>

\* (mutant) the change is answered without a record
FinishQuietly(q, changes) ==
  requests' = [requests EXCEPT ![q] = Free] /\ \E c \in changes : history' = Remember(history, c[1], c[2])
Finish(q, changes) ==
  IF changes = {} THEN requests' = [requests EXCEPT ![q] = Free] /\ UNCHANGED history
  ELSE \E c \in changes : Then(q, "record", c[1], c[2]) /\ history' = Remember(history, c[1], c[2])

LeftWaiting(r) == Waiting \ {r}

\* A page takes the secret its flash cookie names when its session made it.
View(q) ==
  /\ requests[q].at = "act" /\ requests[q].op \in {"view", "refresh"}
  /\ \/ UNCHANGED reveals
     \/ \E r \in Waiting : r.session = requests[q].session /\ reveals' = LeftWaiting(r)
  /\ requests' = [requests EXCEPT ![q] = Free]
  /\ UNCHANGED <<clock, durable, service, forms, spent, throttle, history>>

Logout(q) ==
  /\ requests[q].at = "act" /\ requests[q].op = "logout"
  /\ sessions' = [sessions EXCEPT ![requests[q].session] = NoSession]
  /\ Finish(q, {<<"logout", requests[q].session>>})
  /\ UNCHANGED <<clock, admin, offered, tokens, trail, service, forms, spent, throttle, reveals>>

RevokeOthers(q) ==
  /\ requests[q].at = "act" /\ requests[q].op = "others"
  /\ sessions' = [i \in DOMAIN sessions |-> IF i = requests[q].session THEN sessions[i] ELSE NoSession]
  /\ Finish(q, {<<"others", requests[q].session>>})
  /\ UNCHANGED <<clock, admin, offered, tokens, trail, service, forms, spent, throttle, reveals>>

RevokeToken(q) ==
  /\ requests[q].at = "act" /\ requests[q].op = "revoke"
  /\ \E i \in 1 .. history.created :
       /\ tokens' = [tokens EXCEPT ![i].live = FALSE]
       /\ Finish(q, IF tokens[i].live THEN {<<"revoke", i>>} ELSE {})
  /\ UNCHANGED <<clock, admin, offered, sessions, trail, service, forms, spent, throttle, reveals>>

\* apiAuthorize: a valid token is never held back by failures; an invalid one
\* is counted unless the client is throttled already.
CallAPI(q, client, i) ==
  /\ service # 0 /\ requests[q] = Free /\ "api" \in Operations /\ i \notin Active
  /\ Asked
  /\ Prune
  /\ requests' = IF Throttled(failures', overall', "api", client) THEN requests
                 ELSE [requests EXCEPT ![q] = [at |-> "refuse", op |-> "api", client |-> client]]
  /\ UNCHANGED <<clock, durable, service, forms, spent, reveals>>

RefuseAPI(q) ==
  /\ requests[q].at = "refuse"
  /\ RecordFailure("api", requests[q].client) /\ requests' = [requests EXCEPT ![q] = Free]
  /\ UNCHANGED <<clock, durable, service, forms, spent, reveals, history>>

Tick == /\ clock < MaxClock /\ clock' = clock + 1
        /\ UNCHANGED <<durable, service, forms, spent, throttle, reveals, requests, history>>

-----------------------------------------------------------------------------
Step(q) ==
  \/ Throttle(q) \/ Challenge(q) \/ TakeSlot(q) \/ Check(q) \/ CommitClaim(q) \/ CommitReset(q)
  \/ CommitChange(q) \/ CommitToken(q) \/ SignIn(q) \/ Record(q) \/ HoldSecret(q)
  \/ Authenticate(q) \/ DropIdle(q) \/ Touch(q) \/ View(q) \/ Logout(q) \/ RevokeOthers(q) \/ RevokeToken(q)
  \/ RefuseAPI(q)

Guesses(op) == CASE op \in {"claim", "reset"} -> {0, history.issued}
                 [] op \in {"login", "change", "create"} -> {0, admin}
                 [] OTHER -> {0}

Next ==
  \/ Start \/ Stop \/ IssueResetToken \/ Tick
  \/ \E op \in FormOperations \cap Operations, c \in Clients : LoadForm(op, c)
  \/ \E q \in Requests, c \in Clients :
       \/ \E f \in DOMAIN forms : \E g \in Guesses(forms[f].op) : SubmitForm(q, forms[f].op, c, f, g)
       \/ \E op \in Operations \ (FormOperations \cup {"api"}), s \in 1 .. history.signedIn :
            \E g \in Guesses(op) : SubmitSession(q, op, c, s, g)
       \/ \E i \in 0 .. history.created : CallAPI(q, c, i)
  \/ \E q \in Requests : Step(q)

Spec == Init /\ [][Next]_vars

-----------------------------------------------------------------------------
TypeOK ==
  /\ clock \in 0 .. MaxClock /\ admin \in 0 .. MaxPasswords
  /\ \A k \in {"setup", "reset"} : offered[k].id \in 0 .. MaxIssued
  /\ \A i \in DOMAIN sessions : sessions[i].made <= clock /\ sessions[i].seen \in sessions[i].made .. clock
  /\ consumed \subseteq DOMAIN forms /\ Cardinality(consumed) <= MaxConsumed
  /\ Cardinality(Tracked(failures)) <= MaxTracked
  /\ Cardinality(reveals) <= MaxReveals

(* What is to be used once is. A form is accepted once, although its       *)
(* server forgets challenges when it prunes, fills up or restarts          *)
(* (consumeCredentialChallenge); a setup or reset token sets one password, *)
(* however many requests hold it while passwords are hashed, and a claimed *)
(* installation offers no setup token (Claim, ResetWithToken,              *)
(* issueAuthToken).                                                        *)
UsedOnce ==
  /\ \A f \in DOMAIN history.accepted : history.accepted[f] <= 1
  /\ \A i \in DOMAIN history.used : history.used[i] <= 1
  /\ admin > 0 => offered["setup"] = None

(* A password change or reset ends every session and every active API token *)
(* that was there before it, whatever bookkeeping is still under way        *)
(* (ChangePassword, ResetWithToken). It says nothing of what a request that *)
(* checked the old password makes afterwards: see TokensOfCurrentPassword.  *)
NothingOutlivesPassword ==
  /\ \A i \in DOMAIN sessions : sessions[i].live => i > history.cut.sessions
  /\ \A i \in Active : i > history.cut.tokens

(* A session is honoured only within the idle timeout of something its     *)
(* user did, refreshes of an unattended tab aside (AuthenticateSession).   *)
IdleSessionsEnd ==
  [][\A q \in Requests :
       requests[q].at = "auth" /\ requests'[q].at \in {"touch", "act", "throttle"} =>
         LET s == requests[q].session
         IN /\ clock - history.active[s] < IdleTimeout
            /\ clock - sessions[s].made < SessionLife]_vars

(* A client's failures in a window, counted from its last success, from the *)
(* start of the process and from the time its bucket was evicted, are at    *)
(* most the limit and one more for each other request that was past the     *)
(* throttle already (throttled, recordFailure, clearFailures): pruning      *)
(* forgets no failure too early, and no other client's doing clears it. It  *)
(* does not bound what a client fails within a window in all, as            *)
(* docs/security.md:171 does: a success, a restart and the eviction of its  *)
(* bucket (pruneLoginAttemptsLocked) each start the count again.            *)
Fresh(b) == {i \in DOMAIN noted[b] : noted[b][i] > clock - FailureWindow}
MostFailures == FailuresPerClient + Cardinality(Requests) - 1
GuessesBounded ==
  \A b \in Buckets : Cardinality({i \in Fresh(b) : i > evicted[b]}) <= MostFailures

(* docs/security.md:139-142, store/api_tokens.go:240: a password reset or   *)
(* change revokes every active API token, so one made by whoever knew the   *)
(* old password does not outlive the recovery. A token is made in a         *)
(* transaction after the one that checked the password (checkStepUp,        *)
(* CreateAPIToken), and the reset may come between the two.                 *)
TokensOfCurrentPassword ==
  [][\A q \in Requests :
       requests[q].at = "commit" /\ requests[q].op = "create" /\ history'.created > history.created
         => requests[q].guess = admin]_vars

(* A committed change is on record, or its request has still to record it, *)
(* or the process stopped in between; nothing else is on record            *)
(* (recordAdmin).                                                          *)
ChangesOnRecord ==
  /\ trail \subseteq history.committed \cup {<<"refused", 0>>}
  /\ \A c \in history.committed \ (trail \cup history.lost) :
       \E q \in Requests : c \in Pending(q)
=============================================================================
