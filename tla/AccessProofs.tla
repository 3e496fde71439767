---------------------------- MODULE AccessProofs ----------------------------
(***************************************************************************)
(* Theorems of Access, with proofs: what may be used once is used once,    *)
(* nothing outlives a change of the password, every committed change is on *)
(* record or about to be, idle sessions end, and guesses are limited.      *)
(*                                                                         *)
(* A request reads, waits and writes at different times, so each property  *)
(* rests on what a request still knows when it comes to write: which of    *)
(* its changes are on record already, that a password was there when it    *)
(* was checked, and that the time it notes for a session is one at which   *)
(* the session's user was there (Placed).                                  *)
(***************************************************************************)
EXTENDS Access, FiniteSetTheorems, SequenceTheorems, TLAPS

(***************************************************************************)
(* The invariant.                                                          *)
(***************************************************************************)
Events == {"claim", "reset", "change", "login", "create", "logout", "others", "revoke"} \X Nat
SessionOperations == {"change", "create", "view", "refresh", "logout", "others", "revoke"}

Form == [op : FormOperations, client : Clients, expires : Nat, by : Nat \ {0}]
Histories ==
  [served : Nat, asked : Nat, issued : 0 .. MaxIssued, signedIn : 0 .. MaxSessions, created : 0 .. MaxTokens,
   accepted : [1 .. MaxForms -> Nat], used : [1 .. MaxIssued -> Nat], active : [1 .. MaxSessions -> Nat],
   cut : [sessions : Nat, tokens : Nat], committed : SUBSET Events, lost : SUBSET Events]

\* The records a request goes through.
FormRequests ==
  [at : {"throttle", "challenge", "slot", "check"}, op : FormOperations, client : Clients, form : Nat, guess : Nat]
  \cup [at : {"commit"}, op : {"claim", "reset"}, client : Clients, form : Nat, guess : Nat]
  \cup [at : {"signin"}, op : {"login"}, client : Clients, form : Nat, guess : Nat]
SessionRequests ==
  [at : {"auth", "act", "throttle", "slot", "check", "commit"}, op : SessionOperations, client : Clients,
   session : 1 .. MaxSessions, guess : Nat]
TouchRequests ==
  [at : {"touch"}, op : SessionOperations, client : Clients, session : 1 .. MaxSessions, guess : Nat, since : Nat]
ClosingRequests ==
  [at : {"drop"}, session : 1 .. MaxSessions] \cup [at : {"refuse"}, op : {"api"}, client : Clients]
Recorders ==
  [at : {"record"}, op : {"claim", "login", "reset", "change", "logout", "others", "revoke"}, client : Clients,
   change : Events]
  \cup [at : {"signin"}, op : {"claim", "change"}, client : Clients, change : Events]
Revealers ==
  [at : {"record", "reveal"}, op : {"create"}, client : Clients, session : 1 .. MaxSessions, change : Events]
AllRequests ==
  {Free} \cup FormRequests \cup SessionRequests \cup TouchRequests \cup ClosingRequests \cup Recorders
         \cup Revealers

Typed ==
  /\ clock \in Nat /\ admin \in Nat /\ service \in Nat
  /\ offered \in [{"setup", "reset"} -> [id : Nat, expires : Nat]]
  /\ sessions \in [1 .. MaxSessions -> [live : BOOLEAN, made : Nat, seen : Nat]]
  /\ tokens \in [1 .. MaxTokens -> [live : BOOLEAN, expires : Nat]]
  /\ forms \in Seq(Form) /\ Len(forms) <= MaxForms
  /\ history \in Histories
  /\ requests \in [Requests -> AllRequests]

\* What a request knows where it stands.
Placed(q) ==
  /\ requests[q] \in FormRequests => requests[q].form \in 1 .. Len(forms)
  /\ requests[q].at = "touch" => requests[q].since <= history.active[requests[q].session]
  /\ requests[q].at = "commit" /\ requests[q].op = "change" => admin > 0
  /\ requests[q] \in Recorders \cup Revealers => requests[q].change \in history.committed
  /\ requests[q].at = "signin" /\ requests[q].op = "claim" => requests[q].change = <<"claim", 1>>
  /\ requests[q].at = "signin" /\ requests[q].op = "change" => requests[q].change \in trail
  /\ requests[q].at = "reveal" => requests[q].change \in trail

\* An accepted form is remembered as long as it could be accepted again.
FormsSpent ==
  /\ service \in {0, history.served}
  /\ \A f \in 1 .. Len(forms) : forms[f].by <= history.served
  /\ \A f \in 1 .. MaxForms : history.accepted[f] > 0 =>
       /\ history.accepted[f] = 1 /\ f <= Len(forms)
       /\ f \in consumed \/ forms[f].expires <= clock \/ forms[f].by # service

\* A token that was used is not offered again.
OffersSpent ==
  /\ \A k \in {"setup", "reset"} : offered[k].id <= history.issued
  /\ offered["setup"].id = offered["reset"].id => offered["setup"].id = 0
  /\ \A i \in 1 .. MaxIssued : history.used[i] > 0 =>
       /\ history.used[i] = 1 /\ i <= history.issued
       /\ \A k \in {"setup", "reset"} : offered[k].id # i
  /\ admin > 0 => offered["setup"] = None

\* What a password change cut off is what was made before it, and a session
\* was not seen after its user was last there.
CutOff ==
  /\ history.cut.sessions <= history.signedIn /\ history.cut.tokens <= history.created
  /\ \A i \in 1 .. MaxSessions : history.active[i] <= clock
  /\ \A i \in 1 .. MaxSessions : sessions[i].live =>
       /\ i > history.cut.sessions
       /\ sessions[i].seen <= history.active[i]
  /\ \A i \in 1 .. MaxTokens : tokens[i].live /\ tokens[i].expires > clock => i > history.cut.tokens

AInv ==
  /\ Typed /\ FormsSpent /\ OffersSpent /\ CutOff /\ ChangesOnRecord
  /\ \A q \in Requests : Placed(q)

(***************************************************************************)
(* Requests.                                                               *)
(***************************************************************************)

\* Where a request stands tells which record it is.
LEMMA Stands ==
  ASSUME NEW r \in AllRequests
  PROVE  /\ r.at = "challenge" => r \in FormRequests
         /\ r.at \in {"throttle", "slot", "check"} => r \in FormRequests \cup SessionRequests
         /\ r.at = "commit" => r \in FormRequests \cup SessionRequests
         /\ r.at = "signin" => \/ r \in FormRequests /\ r.op = "login"
                               \/ r \in Recorders /\ r.op \in {"claim", "change"}
         /\ r.at = "record" => r \in Recorders \cup Revealers
         /\ r.at = "reveal" => r \in Revealers
         /\ r.at \in {"auth", "act"} => r \in SessionRequests
         /\ r.at = "touch" => r \in TouchRequests
         /\ r.at \in {"drop", "refuse"} => r \in ClosingRequests
         /\ r.at = "free" => r = Free
<1>1. CASE r = Free
  BY <1>1 DEF Free
<1>2. CASE r \in FormRequests
  BY <1>2 DEF FormRequests
<1>3. CASE r \in SessionRequests
  BY <1>3 DEF SessionRequests
<1>4. CASE r \in TouchRequests
  BY <1>4 DEF TouchRequests
<1>5. CASE r \in ClosingRequests
  BY <1>5 DEF ClosingRequests
<1>6. CASE r \in Recorders
  BY <1>6 DEF Recorders
<1>7. CASE r \in Revealers
  BY <1>7 DEF Revealers
<1> QED BY <1>1, <1>2, <1>3, <1>4, <1>5, <1>6, <1>7 DEF AllRequests

\* Only a request that has still to be recorded or revealed carries a change.
LEMMA Carries ==
  ASSUME NEW r \in AllRequests
  PROVE  "change" \in DOMAIN r <=> r \in Recorders \cup Revealers
<1>1. CASE r = Free
  BY <1>1 DEF Free, Recorders, Revealers
<1>2. CASE r \in FormRequests
  BY <1>2 DEF FormRequests, Recorders, Revealers
<1>3. CASE r \in SessionRequests
  BY <1>3 DEF SessionRequests, Recorders, Revealers
<1>4. CASE r \in TouchRequests
  BY <1>4 DEF TouchRequests, Recorders, Revealers
<1>5. CASE r \in ClosingRequests
  BY <1>5 DEF ClosingRequests, Recorders, Revealers
<1>6. CASE r \in Recorders \cup Revealers
  BY <1>6 DEF Recorders, Revealers
<1> QED BY <1>1, <1>2, <1>3, <1>4, <1>5, <1>6 DEF AllRequests

\* The kinds of request do not overlap.
LEMMA Apart ==
  /\ \A r \in FormRequests \cup SessionRequests \cup TouchRequests \cup ClosingRequests :
       r \notin Recorders \cup Revealers
  /\ \A r \in SessionRequests \cup TouchRequests \cup ClosingRequests \cup Recorders \cup Revealers :
       r \notin FormRequests
  /\ Free \notin FormRequests \cup Recorders \cup Revealers
BY DEF FormRequests, SessionRequests, TouchRequests, ClosingRequests, Recorders, Revealers, Free

\* Replacing one request.
LEMMA Replaced ==
  ASSUME requests \in [Requests -> AllRequests], NEW q \in Requests, NEW r \in AllRequests,
         requests' = [requests EXCEPT ![q] = r]
  PROVE  /\ requests' \in [Requests -> AllRequests]
         /\ requests'[q] = r
         /\ \A p \in Requests \ {q} : requests'[p] = requests[p]
OBVIOUS

(***************************************************************************)
(* What a step keeps, part by part.                                        *)
(***************************************************************************)

\* What a request relies on only grows.
Grows ==
  /\ Len(forms) <= Len(forms')
  /\ admin > 0 => admin' > 0
  /\ trail \subseteq trail' /\ history.committed \subseteq history'.committed
  /\ \A s \in 1 .. MaxSessions : history.active[s] <= history'.active[s]

\* The bounds are numbers.
LEMMA Bounds ==
  /\ MaxIssued \in Nat /\ MaxSessions \in Nat /\ MaxTokens \in Nat /\ MaxForms \in Nat /\ MaxPasswords \in Nat
  /\ TokenLife \in Nat /\ SessionLife \in Nat /\ IdleTimeout \in Nat /\ FormLife \in Nat
BY AccessAssumption

\* The fields of the history.
LEMMA HistoryFields ==
  ASSUME NEW h \in Histories
  PROVE  /\ h.served \in Nat /\ h.asked \in Nat /\ h.issued \in Nat /\ h.signedIn \in Nat /\ h.created \in Nat
         /\ h.issued <= MaxIssued /\ h.signedIn <= MaxSessions /\ h.created <= MaxTokens
         /\ h.accepted \in [1 .. MaxForms -> Nat] /\ h.used \in [1 .. MaxIssued -> Nat]
         /\ h.active \in [1 .. MaxSessions -> Nat]
         /\ h.cut.sessions \in Nat /\ h.cut.tokens \in Nat
         /\ h.committed \subseteq Events /\ h.lost \subseteq Events
<1>1. h.issued \in 0 .. MaxIssued /\ h.signedIn \in 0 .. MaxSessions /\ h.created \in 0 .. MaxTokens
  BY DEF Histories
<1>2. /\ h.served \in Nat /\ h.asked \in Nat
      /\ h.accepted \in [1 .. MaxForms -> Nat] /\ h.used \in [1 .. MaxIssued -> Nat]
      /\ h.active \in [1 .. MaxSessions -> Nat]
      /\ h.cut \in [sessions : Nat, tokens : Nat]
      /\ h.committed \subseteq Events /\ h.lost \subseteq Events
  BY DEF Histories
<1>3. MaxIssued \in Nat /\ MaxSessions \in Nat /\ MaxTokens \in Nat
  BY AccessAssumption
<1>4. /\ h.issued \in Nat /\ h.issued <= MaxIssued
      /\ h.signedIn \in Nat /\ h.signedIn <= MaxSessions
      /\ h.created \in Nat /\ h.created <= MaxTokens
  BY <1>1, <1>3
<1>5. h.cut.sessions \in Nat /\ h.cut.tokens \in Nat
  BY <1>2
<1> QED BY <1>2, <1>4, <1>5

\* The other requests keep what they know.
LEMMA OthersPlaced ==
  ASSUME Typed, Typed', Grows, NEW p \in Requests, Placed(p), requests'[p] = requests[p]
  PROVE  Placed(p)'
<1> DEFINE r == requests[p]
<1>1. r \in AllRequests
  BY DEF Typed
<1>2. /\ Len(forms) \in Nat /\ Len(forms') \in Nat /\ admin \in Nat
      /\ history.active \in [1 .. MaxSessions -> Nat] /\ history'.active \in [1 .. MaxSessions -> Nat]
  <2>1. forms \in Seq(Form) /\ forms' \in Seq(Form) /\ admin \in Nat /\ history \in Histories /\ history' \in Histories
    BY DEF Typed
  <2> QED BY <2>1, HistoryFields
<1>3. r \in FormRequests => r.form \in 1 .. Len(forms')
  BY <1>2 DEF Placed, Grows
<1>4. r.at = "touch" => r.since <= history'.active[r.session]
  <2>1. SUFFICES ASSUME r.at = "touch" PROVE r.since <= history'.active[r.session]
    OBVIOUS
  <2>2. r.session \in 1 .. MaxSessions /\ r.since \in Nat
    BY <1>1, <2>1, Stands DEF TouchRequests
  <2>3. r.since <= history.active[r.session] /\ history.active[r.session] <= history'.active[r.session]
    BY <2>1, <2>2 DEF Placed, Grows
  <2>4. history.active[r.session] \in Nat /\ history'.active[r.session] \in Nat
    BY <1>2, <2>2
  <2> HIDE DEF r
  <2> QED BY <2>2, <2>3, <2>4
<1>5. /\ r.at = "commit" /\ r.op = "change" => admin' > 0
      /\ r \in Recorders \cup Revealers => r.change \in history'.committed
      /\ r.at = "signin" /\ r.op = "claim" => r.change = <<"claim", 1>>
      /\ r.at = "signin" /\ r.op = "change" => r.change \in trail'
      /\ r.at = "reveal" => r.change \in trail'
  BY DEF Placed, Grows
<1> QED BY <1>3, <1>4, <1>5 DEF Placed

\* The record: what is committed and not yet there is carried by a request.
LEMMA StillOnRecord ==
  ASSUME Typed, ChangesOnRecord, NEW q \in Requests, NEW r \in AllRequests, requests' = [requests EXCEPT ![q] = r],
         trail \subseteq trail', trail' \subseteq history'.committed \cup {<<"refused", 0>>},
         history.committed \subseteq history'.committed, history.lost \subseteq history'.lost,
         requests[q] \in Recorders \cup Revealers =>
           \/ requests[q].change \in trail'
           \/ r \in Recorders \cup Revealers /\ r.change = requests[q].change,
         \A c \in history'.committed \ history.committed : r \in Recorders \cup Revealers /\ r.change = c
  PROVE  ChangesOnRecord'
<1>1. requests \in [Requests -> AllRequests]
  BY DEF Typed
<1>2. /\ requests' \in [Requests -> AllRequests] /\ requests'[q] = r
      /\ \A p \in Requests \ {q} : requests'[p] = requests[p]
  BY <1>1, Replaced
<1>3. \A p \in Requests : /\ Pending(p) = IF requests[p] \in Recorders \cup Revealers THEN {requests[p].change} ELSE {}
                          /\ Pending(p)' = IF requests'[p] \in Recorders \cup Revealers THEN {requests'[p].change} ELSE {}
  BY <1>1, <1>2, Carries DEF Pending
<1>4. SUFFICES ASSUME NEW c \in history'.committed \ (trail' \cup history'.lost)
               PROVE  \E p \in Requests : c \in Pending(p)'
  BY DEF ChangesOnRecord
<1>5. CASE c \notin history.committed
  <2>1. r \in Recorders \cup Revealers /\ r.change = c
    BY <1>5
  <2>2. c \in Pending(q)'
    BY <1>2, <1>3, <2>1
  <2> QED BY <2>2
<1>6. CASE c \in history.committed
  <2>1. PICK p \in Requests : c \in Pending(p)
    BY <1>6 DEF ChangesOnRecord
  <2>2. requests[p] \in Recorders \cup Revealers /\ requests[p].change = c
    BY <1>3, <2>1
  <2>3. requests'[p] \in Recorders \cup Revealers /\ requests'[p].change = c
    BY <1>2, <2>2
  <2>4. c \in Pending(p)'
    BY <1>3, <2>3
  <2> QED BY <2>4
<1> QED BY <1>5, <1>6

\* Challenges that are left alone.
LEMMA FormsKept ==
  ASSUME Typed, Typed', FormsSpent, clock <= clock', service' = service, forms' = forms, consumed \subseteq consumed',
         history'.served = history.served, history'.accepted = history.accepted
  PROVE  FormsSpent'
<1>1. clock \in Nat /\ clock' \in Nat /\ forms \in Seq(Form)
  BY DEF Typed
<1>2. service' \in {0, history'.served} /\ \A f \in 1 .. Len(forms') : forms'[f].by <= history'.served
  BY DEF FormsSpent
<1>3. SUFFICES ASSUME NEW f \in 1 .. MaxForms, history'.accepted[f] > 0
               PROVE  /\ history'.accepted[f] = 1 /\ f <= Len(forms')
                      /\ f \in consumed' \/ forms'[f].expires <= clock' \/ forms'[f].by # service'
  BY <1>2 DEF FormsSpent
<1>4. /\ history.accepted[f] = 1 /\ f <= Len(forms)
      /\ f \in consumed \/ forms[f].expires <= clock \/ forms[f].by # service
  BY <1>3 DEF FormsSpent
<1>5. f \in 1 .. Len(forms) /\ forms[f] \in Form
  BY <1>1, <1>4
<1>6. forms[f].expires \in Nat
  BY <1>5 DEF Form
<1> QED BY <1>1, <1>4, <1>6

\* One-time tokens that are left alone.
LEMMA OffersKept ==
  ASSUME OffersSpent, admin' > 0 => admin > 0, offered' = offered, history'.issued = history.issued,
         history'.used = history.used
  PROVE  OffersSpent'
BY DEF OffersSpent

\* Sessions and API tokens that end, or are seen when their user was there.
LEMMA CutShrinks ==
  ASSUME Typed, Typed', CutOff, clock <= clock',
         history'.cut = history.cut, history.signedIn <= history'.signedIn, history.created <= history'.created,
         history'.active = history.active,
         \A s \in 1 .. MaxSessions : sessions'[s].live => sessions[s].live /\ sessions'[s].seen <= history.active[s],
         \A i \in 1 .. MaxTokens : tokens'[i].live => tokens[i].live /\ tokens'[i].expires = tokens[i].expires
  PROVE  CutOff'
<1>1. clock \in Nat /\ clock' \in Nat /\ history \in Histories /\ history' \in Histories
  BY DEF Typed
<1>2. /\ history.cut.sessions \in Nat /\ history.cut.tokens \in Nat /\ history.signedIn \in Nat /\ history.created \in Nat
      /\ history'.signedIn \in Nat /\ history'.created \in Nat
  BY <1>1, HistoryFields
<1>3. \A s \in 1 .. MaxSessions : history.active[s] \in Nat
  <2>1. history.active \in [1 .. MaxSessions -> Nat]
    BY <1>1, HistoryFields
  <2> QED BY <2>1
<1>4. \A i \in 1 .. MaxTokens : tokens[i].expires \in Nat
  BY DEF Typed
<1>5. history'.cut.sessions <= history'.signedIn /\ history'.cut.tokens <= history'.created
  BY <1>2 DEF CutOff
<1>6. \A s \in 1 .. MaxSessions : history'.active[s] <= clock'
  BY <1>1, <1>3 DEF CutOff
<1>7. \A s \in 1 .. MaxSessions : sessions'[s].live => /\ s > history'.cut.sessions
                                                     /\ sessions'[s].seen <= history'.active[s]
  BY DEF CutOff
<1>8. \A i \in 1 .. MaxTokens : tokens'[i].live /\ tokens'[i].expires > clock' => i > history'.cut.tokens
  BY <1>1, <1>4 DEF CutOff
<1> QED BY <1>5, <1>6, <1>7, <1>8 DEF CutOff

\* Sessions and API tokens that are left alone.
LEMMA CutKept ==
  ASSUME Typed, Typed', CutOff, clock <= clock', sessions' = sessions, tokens' = tokens,
         history'.cut = history.cut, history.signedIn <= history'.signedIn, history.created <= history'.created,
         history'.active = history.active
  PROVE  CutOff'
<1>1. \A s \in 1 .. MaxSessions : sessions'[s].live => sessions[s].live /\ sessions'[s].seen <= history.active[s]
  BY DEF CutOff
<1>2. \A i \in 1 .. MaxTokens : tokens'[i].live => tokens[i].live /\ tokens'[i].expires = tokens[i].expires
  OBVIOUS
<1> QED BY <1>1, <1>2, CutShrinks

(***************************************************************************)
(* Steps that change a request and little else.                            *)
(***************************************************************************)

\* An answered request knows nothing.
LEMMA FreePlaced ==
  ASSUME NEW q \in Requests, requests'[q] = Free
  PROVE  Placed(q)'
<1>1. Free \notin FormRequests \cup Recorders \cup Revealers /\ Free.at = "free"
  BY Apart DEF Free
<1> QED BY <1>1 DEF Placed

\* A request under way knows its form, and a password change its password.
LEMMA WaitingPlaced ==
  ASSUME NEW q \in Requests, requests'[q] \in FormRequests \cup SessionRequests,
         requests'[q] \in FormRequests => requests'[q].form \in 1 .. Len(forms'),
         requests'[q].at = "commit" /\ requests'[q].op = "change" => admin' > 0
  PROVE  Placed(q)'
<1> DEFINE r == requests'[q]
<1>1. r \notin Recorders \cup Revealers
  BY Apart
<1>2. r.at \notin {"touch", "reveal"}
  BY DEF FormRequests, SessionRequests
<1>3. r.at = "signin" => r.op = "login"
  BY DEF FormRequests, SessionRequests
<1> QED BY <1>1, <1>2, <1>3 DEF Placed

\* A request that goes on to its next place.
LEMMA Moves ==
  ASSUME NEW o \in FormRequests \cup SessionRequests, o.at \in {"throttle", "challenge", "slot", "check"},
         NEW at \in {"challenge", "slot", "check", "commit", "signin"},
         at = "challenge" => o.op \in FormOperations,
         at = "commit" => o.op # "login",
         at = "signin" => o.op = "login"
  PROVE  /\ [o EXCEPT !.at = at] \in FormRequests \cup SessionRequests
         /\ [o EXCEPT !.at = at] \in FormRequests => o \in FormRequests
         /\ [o EXCEPT !.at = at].at = at /\ [o EXCEPT !.at = at].op = o.op
         /\ o \in FormRequests => [o EXCEPT !.at = at].form = o.form
<1>1. CASE o \in FormRequests
  <2>1. /\ o = [at |-> o.at, op |-> o.op, client |-> o.client, form |-> o.form, guess |-> o.guess]
        /\ o.op \in FormOperations /\ o.client \in Clients /\ o.form \in Nat /\ o.guess \in Nat
    BY <1>1 DEF FormRequests, FormOperations
  <2>2. [o EXCEPT !.at = at] = [at |-> at, op |-> o.op, client |-> o.client, form |-> o.form, guess |-> o.guess]
    BY <2>1
  <2>3. [o EXCEPT !.at = at] \in FormRequests
    BY <2>1, <2>2 DEF FormRequests, FormOperations
  <2> QED BY <1>1, <2>2, <2>3
<1>2. CASE o \in SessionRequests
  <2>1. /\ o = [at |-> o.at, op |-> o.op, client |-> o.client, session |-> o.session, guess |-> o.guess]
        /\ o.op \in SessionOperations /\ o.client \in Clients /\ o.session \in 1 .. MaxSessions /\ o.guess \in Nat
    BY <1>2 DEF SessionRequests
  <2>2. [o EXCEPT !.at = at] = [at |-> at, op |-> o.op, client |-> o.client, session |-> o.session, guess |-> o.guess]
    BY <2>1
  <2>3. at \in {"slot", "check", "commit"}
    BY <2>1 DEF SessionOperations, FormOperations
  <2>4. [o EXCEPT !.at = at] \in SessionRequests
    BY <2>1, <2>2, <2>3 DEF SessionRequests
  <2>5. o \notin FormRequests /\ [o EXCEPT !.at = at] \notin FormRequests
    BY <1>2, <2>4, Apart
  <2> QED BY <2>2, <2>4, <2>5
<1> QED BY <1>1, <1>2

Quiet ==
  /\ UNCHANGED <<clock, admin, offered, sessions, tokens, service, forms, consumed>>
  /\ trail' \in {trail, trail \cup {<<"refused", 0>>}}
  /\ history' \in {history, [history EXCEPT !.asked = @ + 1]}

\* A count of what was asked changes nothing else.
LEMMA AskedFields ==
  ASSUME history \in Histories, history' \in {history, [history EXCEPT !.asked = @ + 1]}
  PROVE  /\ history' \in Histories
         /\ history'.served = history.served /\ history'.issued = history.issued
         /\ history'.signedIn = history.signedIn /\ history'.created = history.created
         /\ history'.accepted = history.accepted /\ history'.used = history.used
         /\ history'.active = history.active /\ history'.cut = history.cut
         /\ history'.committed = history.committed /\ history'.lost = history.lost
<1> DEFINE n == history.asked + 1
<1>1. n \in Nat
  BY DEF Histories
<1>2. history' \in {history, [history EXCEPT !.asked = n]}
  OBVIOUS
<1> HIDE DEF n
<1> QED BY <1>1, <1>2 DEF Histories

\* Such a step keeps the invariant when it keeps the request's own part.
LEMMA QuietStep ==
  ASSUME AInv, NEW q \in Requests, NEW r \in AllRequests, requests' = [requests EXCEPT ![q] = r], Quiet, Placed(q)',
         requests[q] \in Recorders \cup Revealers => requests[q].change \in trail
  PROVE  AInv'
<1>1. /\ history' \in Histories
      /\ history'.served = history.served /\ history'.issued = history.issued
      /\ history'.signedIn = history.signedIn /\ history'.created = history.created
      /\ history'.accepted = history.accepted /\ history'.used = history.used
      /\ history'.active = history.active /\ history'.cut = history.cut
      /\ history'.committed = history.committed /\ history'.lost = history.lost
  BY AskedFields DEF Quiet, AInv, Typed
<1>2. /\ requests' \in [Requests -> AllRequests] /\ requests'[q] = r
      /\ \A p \in Requests \ {q} : requests'[p] = requests[p]
  BY Replaced DEF AInv, Typed
<1>3. Typed'
  BY <1>1, <1>2 DEF Quiet, AInv, Typed
<1>4. clock <= clock' /\ history.signedIn \in Nat /\ history.created \in Nat /\ Len(forms) \in Nat
      /\ \A s \in 1 .. MaxSessions : history.active[s] \in Nat
  <2>1. clock \in Nat /\ history \in Histories /\ forms \in Seq(Form) /\ clock' = clock
    BY DEF AInv, Typed, Quiet
  <2>2. history.signedIn \in Nat /\ history.created \in Nat /\ history.active \in [1 .. MaxSessions -> Nat]
    BY <2>1, HistoryFields
  <2>3. Len(forms) \in Nat
    BY <2>1
  <2>4. clock <= clock'
    BY <2>1
  <2>5. \A s \in 1 .. MaxSessions : history.active[s] \in Nat
    BY <2>2
  <2> QED BY <2>2, <2>3, <2>4, <2>5
<1>5. Grows
  BY <1>1, <1>4 DEF Quiet, Grows
<1>6. \A p \in Requests : Placed(p)'
  <2> SUFFICES ASSUME NEW p \in Requests PROVE Placed(p)'
    OBVIOUS
  <2>1. CASE p = q
    BY <2>1
  <2>2. CASE p # q
    BY <1>2, <1>3, <1>5, <2>2, OthersPlaced DEF AInv
  <2> QED BY <2>1, <2>2
<1>7. FormsSpent'
  BY <1>1, <1>3, <1>4, FormsKept DEF Quiet, AInv
<1>8. OffersSpent'
  BY <1>1, OffersKept DEF Quiet, AInv
<1>9. CutOff'
  BY <1>1, <1>3, <1>4, CutKept DEF Quiet, AInv
<1>10. ChangesOnRecord'
  <2>1. Typed /\ ChangesOnRecord
    BY DEF AInv
  <2>2. trail \subseteq trail' /\ trail' \subseteq history'.committed \cup {<<"refused", 0>>}
    BY <1>1, <2>1 DEF Quiet, ChangesOnRecord
  <2> QED BY <1>1, <2>1, <2>2, StillOnRecord
<1> QED BY <1>3, <1>6, <1>7, <1>8, <1>9, <1>10 DEF AInv

\* A request that is answered with no change of its own outstanding.
LEMMA Answered ==
  ASSUME AInv, NEW q \in Requests, requests' = [requests EXCEPT ![q] = Free], Quiet,
         requests[q] \in Recorders \cup Revealers => requests[q].change \in trail
  PROVE  AInv'
<1>1. Free \in AllRequests /\ requests \in [Requests -> AllRequests]
  BY DEF AllRequests, AInv, Typed
<1>2. requests'[q] = Free
  BY <1>1, Replaced
<1> QED BY <1>1, <1>2, FreePlaced, QuietStep

\* A request that goes on to its next place, nothing else being decided.
LEMMA GoesOn ==
  ASSUME AInv, NEW q \in Requests, requests[q].at \in {"throttle", "challenge", "slot", "check"},
         NEW at \in {"challenge", "slot", "check", "commit", "signin"},
         at = "challenge" => requests[q].op \in FormOperations,
         at = "commit" => requests[q].op # "login",
         at = "signin" => requests[q].op = "login",
         at = "commit" /\ requests[q].op = "change" => admin > 0,
         requests' = [requests EXCEPT ![q].at = at], Quiet
  PROVE  AInv'
<1> DEFINE o == requests[q]
           r == [o EXCEPT !.at = at]
<1>1. requests \in [Requests -> AllRequests] /\ o \in AllRequests
  BY DEF AInv, Typed
<1>2. o \in FormRequests \cup SessionRequests
  BY <1>1, Stands
<1>3. /\ r \in FormRequests \cup SessionRequests /\ r.at = at /\ r.op = o.op
      /\ r \in FormRequests => o \in FormRequests
      /\ o \in FormRequests => r.form = o.form
  BY <1>2, Moves
<1>4. requests' = [requests EXCEPT ![q] = r]
  OBVIOUS
<1>5. r \in AllRequests
  BY <1>3 DEF AllRequests
<1> HIDE DEF r
<1>6. requests'[q] = r
  BY <1>1, <1>4, <1>5, Replaced
<1>7. o \in FormRequests => o.form \in 1 .. Len(forms)
  BY DEF AInv, Placed
<1>8. forms' = forms /\ admin' = admin
  BY DEF Quiet
<1>9. Placed(q)'
  BY <1>3, <1>6, <1>7, <1>8, WaitingPlaced
<1>10. o \notin Recorders \cup Revealers
  BY <1>2, Apart
<1> QED BY <1>4, <1>5, <1>9, <1>10, QuietStep

\* A submission without a record of its own: its request has no change.
LEMMA Unrecorded ==
  ASSUME AInv, NEW q \in Requests,
         requests[q].at \notin {"signin", "record", "reveal"}
  PROVE  requests[q] \notin Recorders \cup Revealers
<1>1. requests[q] \in AllRequests
  BY DEF AInv, Typed
<1> QED BY DEF Recorders, Revealers

\* The throttle lets a request go on or answers it.
LEMMA ThrottleStep ==
  ASSUME AInv, NEW q \in Requests, Throttle(q)
  PROVE  AInv'
<1> DEFINE at == IF requests[q].op \in FormOperations THEN "challenge" ELSE "slot"
<1>1. /\ requests[q].at = "throttle" /\ UNCHANGED <<clock, durable, service, forms, spent, reveals, history>>
      /\ \/ requests' = [requests EXCEPT ![q] = Free]
         \/ requests' = [requests EXCEPT ![q].at = at]
  BY DEF Throttle, Admit
<1>2. Quiet
  BY <1>1 DEF Quiet, durable, spent
<1>3. CASE requests' = [requests EXCEPT ![q] = Free]
  BY <1>1, <1>2, <1>3, Unrecorded, Answered
<1>4. CASE requests' = [requests EXCEPT ![q].at = at]
  <2>1. at \in {"challenge", "slot"} /\ (at = "challenge" => requests[q].op \in FormOperations)
    OBVIOUS
  <2> HIDE DEF at
  <2> QED BY <1>1, <1>2, <1>4, <2>1, GoesOn
<1> QED BY <1>1, <1>3, <1>4

\* A place among the password checks, or "busy".
LEMMA TakeSlotStep ==
  ASSUME AInv, NEW q \in Requests, TakeSlot(q)
  PROVE  AInv'
<1>1. /\ requests[q].at = "slot" /\ UNCHANGED <<clock, durable, service, forms, spent, reveals, history>>
      /\ \/ requests' = [requests EXCEPT ![q] = Free]
         \/ requests' = [requests EXCEPT ![q].at = "check"]
  BY DEF TakeSlot
<1>2. Quiet
  BY <1>1 DEF Quiet, durable, spent
<1>3. CASE requests' = [requests EXCEPT ![q] = Free]
  BY <1>1, <1>2, <1>3, Unrecorded, Answered
<1>4. CASE requests' = [requests EXCEPT ![q].at = "check"]
  BY <1>1, <1>2, <1>4, GoesOn
<1> QED BY <1>1, <1>3, <1>4

\* What is refused is answered and counted.
LEMMA RefuseStep ==
  ASSUME AInv, NEW q \in Requests, Refuse(q), requests[q].at \in {"check", "commit"},
         UNCHANGED <<clock, admin, offered, sessions, tokens, service, forms, spent, history>>
  PROVE  AInv'
<1>1. requests' = [requests EXCEPT ![q] = Free] /\ trail' \in {trail, trail \cup {<<"refused", 0>>}}
  BY DEF Refuse
<1>2. Quiet
  BY <1>1 DEF Quiet, spent
<1> QED BY <1>1, <1>2, Unrecorded, Answered

\* The password check: a right one goes on, and then a password was there.
LEMMA CheckStep ==
  ASSUME AInv, NEW q \in Requests, Check(q)
  PROVE  AInv'
<1> DEFINE at == IF requests[q].op = "login" THEN "signin" ELSE "commit"
<1>1. requests[q].at = "check" /\ UNCHANGED <<clock, admin, offered, sessions, tokens, service, forms, spent, history>>
  BY DEF Check
<1>2. CASE Correct(requests[q])
  <2>1. requests' = [requests EXCEPT ![q].at = at] /\ trail' = trail
    BY <1>2 DEF Check
  <2>2. Quiet
    BY <1>1, <2>1 DEF Quiet, spent
  <2>3. requests[q].op = "change" => admin > 0
    BY <1>2 DEF Correct
  <2>4. /\ at \in {"commit", "signin"}
        /\ at = "commit" => requests[q].op # "login"
        /\ at = "signin" => requests[q].op = "login"
    OBVIOUS
  <2> HIDE DEF at
  <2> QED BY <1>1, <2>1, <2>2, <2>3, <2>4, GoesOn
<1>3. CASE ~ Correct(requests[q])
  <2>1. Refuse(q)
    BY <1>3 DEF Check
  <2> QED BY <1>1, <2>1, RefuseStep
<1> QED BY <1>2, <1>3

\* A page, and the secret that waits for one.
LEMMA PageStep ==
  ASSUME AInv, NEW q \in Requests, View(q) \/ HoldSecret(q) \/ RefuseAPI(q)
  PROVE  AInv'
<1>1. requests' = [requests EXCEPT ![q] = Free] /\ UNCHANGED <<clock, durable, service, forms, spent, history>>
  BY DEF View, HoldSecret, RefuseAPI
<1>2. Quiet
  BY <1>1 DEF Quiet, durable, spent
<1>3. requests[q].at \in {"act", "reveal", "refuse"}
  BY DEF View, HoldSecret, RefuseAPI
<1>4. requests[q] \in Recorders \cup Revealers => requests[q].change \in trail
  <2>1. CASE requests[q].at = "reveal"
    BY <2>1 DEF AInv, Placed
  <2>2. CASE requests[q].at # "reveal"
    BY <1>3, <2>2, Unrecorded
  <2> QED BY <2>1, <2>2
<1> QED BY <1>1, <1>2, <1>4, Answered

\* A form that is submitted.
LEMMA SubmitFormStep ==
  ASSUME AInv, NEW q \in Requests, NEW c \in Clients, NEW f \in DOMAIN forms, NEW g \in Guesses(forms[f].op),
         SubmitForm(q, forms[f].op, c, f, g)
  PROVE  AInv'
<1> DEFINE r == [at |-> "throttle", op |-> forms[f].op, client |-> c, form |-> f, guess |-> g]
<1>1. /\ requests[q] = Free /\ requests' = [requests EXCEPT ![q] = r] /\ Asked
      /\ UNCHANGED <<clock, durable, service, forms, spent>>
  BY DEF SubmitForm
<1>2. Quiet
  BY <1>1 DEF Quiet, Asked, durable, spent
<1>3. f \in 1 .. Len(forms) /\ f \in Nat /\ forms[f] \in Form /\ admin \in Nat /\ history \in Histories
      /\ requests \in [Requests -> AllRequests]
  BY DEF AInv, Typed
<1>4. g \in Nat
  BY <1>3, HistoryFields DEF Guesses
<1>5. r \in FormRequests
  BY <1>3, <1>4 DEF FormRequests, Form
<1>6. r.form = f /\ r.at = "throttle"
  OBVIOUS
<1> HIDE DEF r
<1>7. r \in AllRequests
  BY <1>5 DEF AllRequests
<1>8. requests'[q] = r
  BY <1>1, <1>3, <1>7, Replaced
<1>9. Placed(q)'
  BY <1>1, <1>3, <1>5, <1>6, <1>8, WaitingPlaced
<1>10. requests[q] \notin Recorders \cup Revealers
  BY <1>1, Apart
<1> QED BY <1>1, <1>2, <1>7, <1>9, <1>10, QuietStep

\* A request of a session.
LEMMA SubmitSessionStep ==
  ASSUME AInv, NEW q \in Requests, NEW c \in Clients, NEW op \in Operations \ (FormOperations \cup {"api"}),
         NEW s \in 1 .. history.signedIn, NEW g \in Guesses(op), SubmitSession(q, op, c, s, g)
  PROVE  AInv'
<1> DEFINE r == [at |-> "auth", op |-> op, client |-> c, session |-> s, guess |-> g]
<1>1. /\ requests[q] = Free /\ requests' = [requests EXCEPT ![q] = r] /\ Asked
      /\ UNCHANGED <<clock, durable, service, forms, spent>>
  BY DEF SubmitSession
<1>2. Quiet
  BY <1>1 DEF Quiet, Asked, durable, spent
<1>3. admin \in Nat /\ history \in Histories /\ requests \in [Requests -> AllRequests]
  BY DEF AInv, Typed
<1>4. g \in Nat
  BY <1>3, HistoryFields DEF Guesses
<1>5. s \in 1 .. MaxSessions
  <2>1. history.signedIn \in Nat /\ history.signedIn <= MaxSessions
    BY <1>3, HistoryFields
  <2>2. MaxSessions \in Nat
    BY AccessAssumption
  <2> QED BY <2>1, <2>2
<1>6. op \in SessionOperations
  BY AccessAssumption DEF SessionOperations, FormOperations
<1>7. r \in SessionRequests
  BY <1>4, <1>5, <1>6 DEF SessionRequests
<1>8. r.at = "auth"
  OBVIOUS
<1> HIDE DEF r
<1>9. r \in AllRequests /\ r \notin FormRequests
  BY <1>7, Apart DEF AllRequests
<1>10. requests'[q] = r
  BY <1>1, <1>3, <1>9, Replaced
<1>11. Placed(q)'
  BY <1>7, <1>8, <1>9, <1>10, WaitingPlaced
<1>12. requests[q] \notin Recorders \cup Revealers
  BY <1>1, Apart
<1> QED BY <1>1, <1>2, <1>9, <1>11, <1>12, QuietStep

\* A call with an invalid API token.
LEMMA CallAPIStep ==
  ASSUME AInv, NEW q \in Requests, NEW c \in Clients, NEW i \in 0 .. history.created, CallAPI(q, c, i)
  PROVE  AInv'
<1> DEFINE r == [at |-> "refuse", op |-> "api", client |-> c]
<1>1. /\ requests[q] = Free /\ Asked
      /\ UNCHANGED <<clock, durable, service, forms, spent>>
      /\ requests' = requests \/ requests' = [requests EXCEPT ![q] = r]
  BY DEF CallAPI
<1>2. Quiet
  BY <1>1 DEF Quiet, Asked, durable, spent
<1>3. requests \in [Requests -> AllRequests]
  BY DEF AInv, Typed
<1>4. r \in ClosingRequests /\ r.at = "refuse"
  BY DEF ClosingRequests
<1>5. requests[q] \notin Recorders \cup Revealers
  BY <1>1, Apart
<1>6. CASE requests' = requests
  <2>1. requests' = [requests EXCEPT ![q] = Free]
    BY <1>1, <1>3, <1>6
  <2> QED BY <1>2, <1>5, <2>1, Answered
<1> HIDE DEF r
<1>7. CASE requests' = [requests EXCEPT ![q] = r]
  <2>1. r \in AllRequests /\ r \notin FormRequests \cup Recorders \cup Revealers
    BY <1>4, Apart DEF AllRequests
  <2>2. requests'[q] = r
    BY <1>3, <1>7, <2>1, Replaced
  <2>3. Placed(q)'
    BY <1>4, <2>1, <2>2 DEF Placed
  <2> QED BY <1>2, <1>5, <1>7, <2>1, <2>3, QuietStep
<1> QED BY <1>1, <1>6, <1>7

(***************************************************************************)
(* The process, the one-time tokens and the clock.                         *)
(***************************************************************************)

\* A step that leaves the requests alone.
LEMMA NoneMoves ==
  ASSUME AInv, Typed', Grows, requests' = requests
  PROVE  \A p \in Requests : Placed(p)'
BY OthersPlaced DEF AInv

\* A step that records nothing and commits nothing.
LEMMA NoneRecorded ==
  ASSUME ChangesOnRecord, requests' = requests, trail' = trail, history'.committed = history.committed,
         history'.lost = history.lost
  PROVE  ChangesOnRecord'
BY DEF ChangesOnRecord, Pending

\* A new setup or reset token has a number of its own.
LEMMA OfferStep ==
  ASSUME Typed, OffersSpent, NEW kind \in {"setup", "reset"}, Offer(kind), kind = "setup" => admin = 0,
         admin' = admin, history'.issued = history.issued + 1, history'.used = history.used
  PROVE  /\ OffersSpent'
         /\ offered' \in [{"setup", "reset"} -> [id : Nat, expires : Nat]]
<1>1. /\ offered \in [{"setup", "reset"} -> [id : Nat, expires : Nat]] /\ clock \in Nat /\ history \in Histories
      /\ TokenLife \in Nat
  BY AccessAssumption DEF Typed
<1>2. history.issued \in Nat /\ history.used \in [1 .. MaxIssued -> Nat]
  BY <1>1, HistoryFields
<1> DEFINE n == history.issued + 1
           e == clock + TokenLife
<1>3. n \in Nat /\ n > history.issued /\ e \in Nat /\ n > 0
  BY <1>1, <1>2
<1>4. offered' = [offered EXCEPT ![kind] = [id |-> n, expires |-> e]] /\ history'.issued = n
  BY DEF Offer
<1> HIDE DEF n, e
<1>5. offered' \in [{"setup", "reset"} -> [id : Nat, expires : Nat]]
  BY <1>1, <1>3, <1>4
<1>6. \A k \in {"setup", "reset"} : offered'[k].id = n \/ (k # kind /\ offered'[k] = offered[k])
  BY <1>1, <1>4
<1>7. \A k \in {"setup", "reset"} : offered[k].id <= history.issued /\ offered[k].id \in Nat
  BY <1>1 DEF OffersSpent
<1>8. \A k \in {"setup", "reset"} : offered'[k].id <= history'.issued
  BY <1>2, <1>3, <1>4, <1>6, <1>7
<1>9. offered'["setup"].id = offered'["reset"].id => offered'["setup"].id = 0
  <2>1. CASE kind = "setup"
    BY <2>1, <1>1, <1>2, <1>3, <1>4, <1>7
  <2>2. CASE kind = "reset"
    BY <2>2, <1>1, <1>2, <1>3, <1>4, <1>7
  <2> QED BY <2>1, <2>2
<1>10. ASSUME NEW i \in 1 .. MaxIssued, history'.used[i] > 0
       PROVE  /\ history'.used[i] = 1 /\ i <= history'.issued
              /\ \A k \in {"setup", "reset"} : offered'[k].id # i
  <2>1. /\ history.used[i] = 1 /\ i <= history.issued
        /\ \A k \in {"setup", "reset"} : offered[k].id # i
    BY <1>10 DEF OffersSpent
  <2>2. i <= n /\ i # n
    BY <2>1, <1>2, <1>3
  <2> QED BY <2>1, <2>2, <1>4, <1>6
<1>11. admin' > 0 => offered'["setup"] = None
  <2>1. admin' > 0 => kind = "reset" /\ offered["setup"] = None
    BY <1>1 DEF OffersSpent, Typed
  <2> QED BY <2>1, <1>1, <1>4
<1> QED BY <1>5, <1>8, <1>9, <1>10, <1>11 DEF OffersSpent

\* Counting a start or an offer leaves the rest of the history alone.
LEMMA CountedFields ==
  ASSUME history \in Histories, NEW n \in Nat, NEW m \in 0 .. MaxIssued,
         history' = [history EXCEPT !.served = n, !.issued = m]
  PROVE  /\ history' \in Histories
         /\ history'.served = n /\ history'.issued = m
         /\ history'.signedIn = history.signedIn /\ history'.created = history.created
         /\ history'.accepted = history.accepted /\ history'.used = history.used
         /\ history'.active = history.active /\ history'.cut = history.cut
         /\ history'.committed = history.committed /\ history'.lost = history.lost
BY DEF Histories

\* A reset token, the process start: no challenge of an earlier process is
\* authentic any more.
LEMMA StartStep ==
  ASSUME AInv, Start \/ IssueResetToken
  PROVE  AInv'
<1>1. /\ Typed /\ FormsSpent /\ OffersSpent /\ CutOff /\ ChangesOnRecord
      /\ history \in Histories /\ clock \in Nat /\ admin \in Nat
      /\ offered \in [{"setup", "reset"} -> [id : Nat, expires : Nat]] /\ forms \in Seq(Form)
  BY DEF AInv, Typed
<1>2. /\ history.served \in Nat /\ history.issued \in Nat /\ history.signedIn \in Nat /\ history.created \in Nat
      /\ history.active \in [1 .. MaxSessions -> Nat] /\ Len(forms) \in Nat
      /\ \A s \in 1 .. MaxSessions : history.active[s] \in Nat
  <2>1. /\ history.served \in Nat /\ history.issued \in Nat /\ history.signedIn \in Nat /\ history.created \in Nat
        /\ history.active \in [1 .. MaxSessions -> Nat]
    BY <1>1, HistoryFields
  <2>2. Len(forms) \in Nat
    BY <1>1
  <2> QED BY <2>1, <2>2
<1>3. PICK n \in {history.served, history.served + 1}, m \in {history.issued, history.issued + 1} :
        /\ history' = [history EXCEPT !.served = n, !.issued = m]
        /\ \/ m = history.issued /\ offered' = offered
           \/ /\ m = history.issued + 1 /\ m \in 0 .. MaxIssued
              /\ \/ Offer("setup") /\ admin = 0
                 \/ Offer("reset")
        /\ \/ n = history.served /\ service' = service
           \/ n = history.served + 1 /\ service' = n
  <2>1. CASE IssueResetToken
    <3>1. Offer("reset") /\ history' = [history EXCEPT !.issued = history.issued + 1] /\ service' = service
      BY <2>1 DEF IssueResetToken
    <3>2. history.issued + 1 \in 0 .. MaxIssued
      <4>1. history.issued < MaxIssued
        BY <3>1 DEF Offer
      <4> QED BY <1>2, <4>1, Bounds
    <3>3. history' = [history EXCEPT !.served = history.served, !.issued = history.issued + 1]
      BY <1>1, <3>1 DEF Histories
    <3> QED BY <3>1, <3>2, <3>3
  <2>2. CASE Start /\ admin = 0
    <3>1. /\ Offer("setup") /\ service' = history.served + 1
          /\ history' = [history EXCEPT !.served = history.served + 1, !.issued = history.issued + 1]
      BY <2>2 DEF Start
    <3>2. history.issued + 1 \in 0 .. MaxIssued
      <4>1. history.issued < MaxIssued
        BY <3>1 DEF Offer
      <4> QED BY <1>2, <4>1, Bounds
    <3> QED BY <2>2, <3>1, <3>2
  <2>3. CASE Start /\ admin # 0
    <3>1. /\ offered' = offered /\ service' = history.served + 1
          /\ history' = [history EXCEPT !.served = history.served + 1]
      BY <2>3 DEF Start
    <3>2. history' = [history EXCEPT !.served = history.served + 1, !.issued = history.issued]
      BY <1>1, <3>1 DEF Histories
    <3> QED BY <3>1, <3>2
  <2> QED BY <2>1, <2>2, <2>3
<1>4. n \in Nat /\ n >= history.served
  BY <1>2
<1>5. m \in 0 .. MaxIssued
  <2>1. history.issued \in 0 .. MaxIssued
    BY <1>1 DEF Histories
  <2> QED BY <1>3, <2>1
<1>6. /\ history' \in Histories
      /\ history'.served = n /\ history'.issued = m
      /\ history'.signedIn = history.signedIn /\ history'.created = history.created
      /\ history'.accepted = history.accepted /\ history'.used = history.used
      /\ history'.active = history.active /\ history'.cut = history.cut
      /\ history'.committed = history.committed /\ history'.lost = history.lost
  BY <1>1, <1>3, <1>4, <1>5, CountedFields
<1>7. UNCHANGED <<clock, admin, sessions, tokens, trail, forms, consumed, requests>>
  BY DEF Start, IssueResetToken, spent
<1>8. offered' \in [{"setup", "reset"} -> [id : Nat, expires : Nat]] /\ OffersSpent'
  <2>1. CASE m = history.issued /\ offered' = offered
    <3>1. OffersSpent'
      BY <1>1, <1>6, <1>7, <2>1, OffersKept
    <3> QED BY <1>1, <2>1, <3>1
  <2>2. CASE m = history.issued + 1 /\ Offer("setup") /\ admin = 0
    BY <1>1, <1>6, <1>7, <2>2, OfferStep
  <2>3. CASE m = history.issued + 1 /\ Offer("reset")
    BY <1>1, <1>6, <1>7, <2>3, OfferStep
  <2> QED BY <1>3, <2>1, <2>2, <2>3
<1>9. service' \in Nat
  <2>1. service \in Nat
    BY <1>1 DEF Typed
  <2> QED BY <1>3, <1>4, <2>1
<1>10. Typed'
  BY <1>1, <1>6, <1>7, <1>8, <1>9 DEF Typed
<1>11. Grows
  <2>1. Len(forms) <= Len(forms') /\ (admin > 0 => admin' > 0)
    BY <1>2, <1>7
  <2>2. trail \subseteq trail' /\ history.committed \subseteq history'.committed
    BY <1>6, <1>7
  <2>3. \A s \in 1 .. MaxSessions : history.active[s] <= history'.active[s]
    BY <1>2, <1>6
  <2> QED BY <2>1, <2>2, <2>3 DEF Grows
<1>12. \A p \in Requests : Placed(p)'
  BY <1>7, <1>10, <1>11, NoneMoves
<1>13. FormsSpent'
  <2>1. \A f \in 1 .. Len(forms) : forms[f].by \in Nat \ {0} /\ forms[f].by <= history.served
    <3>1. \A f \in 1 .. Len(forms) : forms[f] \in Form
      BY <1>1
    <3> QED BY <1>1, <3>1 DEF FormsSpent, Form
  <2>2. service' \in {0, history'.served}
    BY <1>1, <1>2, <1>3, <1>6 DEF FormsSpent
  <2>3. \A f \in 1 .. Len(forms) : forms[f].by <= n
    BY <1>2, <1>4, <2>1
  <2>4. CASE service' = service
    BY <1>1, <1>6, <1>7, <2>2, <2>3, <2>4 DEF FormsSpent
  <2>5. CASE n = history.served + 1 /\ service' = n
    <3>1. \A f \in 1 .. Len(forms) : forms[f].by # service'
      BY <1>2, <2>1, <2>5
    <3>2. ASSUME NEW f \in 1 .. MaxForms, history.accepted[f] > 0
          PROVE  history.accepted[f] = 1 /\ f <= Len(forms) /\ forms[f].by # service'
      <4>1. history.accepted[f] = 1 /\ f <= Len(forms)
        BY <1>1, <3>2 DEF FormsSpent
      <4>2. f \in 1 .. Len(forms)
        BY <1>2, <4>1
      <4> QED BY <3>1, <4>1, <4>2
    <3> QED BY <1>6, <1>7, <2>2, <2>3, <3>2 DEF FormsSpent
  <2> QED BY <1>3, <2>4, <2>5
<1>14. CutOff'
  <2>1. clock <= clock'
    BY <1>1, <1>7
  <2>2. history.signedIn <= history'.signedIn /\ history.created <= history'.created
    BY <1>2, <1>6
  <2>3. \A s \in 1 .. MaxSessions : history.active[s] <= history'.active[s]
    BY <1>2, <1>6
  <2> QED BY <1>1, <1>6, <1>7, <1>10, <2>1, <2>2, <2>3, CutKept
<1>15. ChangesOnRecord'
  BY <1>1, <1>6, <1>7, NoneRecorded
<1> QED BY <1>8, <1>10, <1>12, <1>13, <1>14, <1>15 DEF AInv

\* What the invariant says of the types.
LEMMA Known ==
  ASSUME AInv
  PROVE  /\ Typed /\ FormsSpent /\ OffersSpent /\ CutOff /\ ChangesOnRecord
         /\ clock \in Nat /\ admin \in Nat /\ service \in Nat /\ history \in Histories
         /\ forms \in Seq(Form) /\ Len(forms) \in Nat /\ Len(forms) <= MaxForms
         /\ requests \in [Requests -> AllRequests]
         /\ history.served \in Nat /\ history.issued \in Nat /\ history.signedIn \in Nat /\ history.created \in Nat
         /\ \A s \in 1 .. MaxSessions : history.active[s] \in Nat
<1>1. /\ Typed /\ FormsSpent /\ OffersSpent /\ CutOff /\ ChangesOnRecord
      /\ clock \in Nat /\ admin \in Nat /\ service \in Nat /\ history \in Histories
      /\ forms \in Seq(Form) /\ Len(forms) <= MaxForms
      /\ requests \in [Requests -> AllRequests]
  BY DEF AInv, Typed
<1>2. /\ history.served \in Nat /\ history.issued \in Nat /\ history.signedIn \in Nat /\ history.created \in Nat
      /\ history.active \in [1 .. MaxSessions -> Nat]
  BY <1>1, HistoryFields
<1>3. Len(forms) \in Nat
  BY <1>1
<1> QED BY <1>1, <1>2, <1>3

\* A step that leaves forms, password and times alone.
LEMMA Steady ==
  ASSUME AInv, forms' = forms, admin' = admin, trail \subseteq trail',
         history.committed \subseteq history'.committed, history'.active = history.active
  PROVE  Grows
<1>1. Len(forms) \in Nat /\ \A s \in 1 .. MaxSessions : history.active[s] \in Nat
  BY Known
<1>2. Len(forms) <= Len(forms')
  BY <1>1
<1>3. \A s \in 1 .. MaxSessions : history.active[s] <= history'.active[s]
  BY <1>1
<1> QED BY <1>2, <1>3 DEF Grows

\* One request moves, the others keep what they know.
LEMMA OneMoves ==
  ASSUME AInv, Typed', Grows, NEW q \in Requests, NEW r \in AllRequests, requests' = [requests EXCEPT ![q] = r],
         Placed(q)'
  PROVE  \A p \in Requests : Placed(p)'
<1> SUFFICES ASSUME NEW p \in Requests PROVE Placed(p)'
  OBVIOUS
<1>1. requests \in [Requests -> AllRequests] /\ Typed /\ Placed(p)
  BY DEF AInv, Typed
<1>2. \A o \in Requests \ {q} : requests'[o] = requests[o]
  BY <1>1, Replaced
<1>3. CASE p = q
  BY <1>3
<1>4. CASE p # q
  BY <1>1, <1>2, <1>4, OthersPlaced
<1> QED BY <1>3, <1>4

\* The clock ticks: what has expired stays expired.
LEMMA TickStep ==
  ASSUME AInv, Tick
  PROVE  AInv'
<1> DEFINE n == clock + 1
<1>1. clock' = n /\ UNCHANGED <<durable, service, forms, spent, requests, history>>
  BY DEF Tick
<1>2. /\ Typed /\ FormsSpent /\ OffersSpent /\ CutOff /\ ChangesOnRecord /\ clock \in Nat
      /\ history.signedIn \in Nat /\ history.created \in Nat /\ \A s \in 1 .. MaxSessions : history.active[s] \in Nat
  BY Known
<1>3. n \in Nat /\ clock <= n
  BY <1>2
<1> HIDE DEF n
<1>4. UNCHANGED <<admin, offered, sessions, tokens, trail, service, forms, consumed, requests, history>>
  BY <1>1 DEF durable, spent
<1>5. Typed'
  BY <1>1, <1>2, <1>3, <1>4 DEF Typed
<1>6. Grows
  BY <1>4, Steady
<1>7. \A p \in Requests : Placed(p)'
  BY <1>4, <1>5, <1>6, NoneMoves
<1>8. FormsSpent'
  BY <1>1, <1>2, <1>3, <1>4, <1>5, FormsKept
<1>9. OffersSpent'
  BY <1>2, <1>4, OffersKept
<1>10. CutOff'
  <2>1. history.signedIn <= history'.signedIn /\ history.created <= history'.created
    BY <1>2, <1>4
  <2>2. \A s \in 1 .. MaxSessions : history.active[s] <= history'.active[s]
    BY <1>2, <1>4
  <2> QED BY <1>1, <1>2, <1>3, <1>4, <1>5, <2>1, <2>2, CutKept
<1>11. ChangesOnRecord'
  BY <1>2, <1>4, NoneRecorded
<1> QED BY <1>5, <1>7, <1>8, <1>9, <1>10, <1>11 DEF AInv

\* A form is issued: nobody has submitted it.
LEMMA LoadFormStep ==
  ASSUME AInv, NEW op \in FormOperations, NEW c \in Clients, LoadForm(op, c)
  PROVE  AInv'
<1> DEFINE until == clock + FormLife
           e == [op |-> op, client |-> c, expires |-> until, by |-> service]
<1>1. /\ service # 0 /\ Len(forms) < MaxForms /\ forms' = Append(forms, e)
      /\ UNCHANGED <<clock, durable, service, spent, requests, history>>
  BY DEF LoadForm
<1>2. /\ Typed /\ FormsSpent /\ OffersSpent /\ CutOff /\ ChangesOnRecord /\ clock \in Nat /\ service \in Nat
      /\ forms \in Seq(Form) /\ Len(forms) \in Nat /\ history \in Histories
      /\ history.signedIn \in Nat /\ history.created \in Nat /\ \A s \in 1 .. MaxSessions : history.active[s] \in Nat
  BY Known
<1>3. until \in Nat
  BY <1>2, Bounds
<1> HIDE DEF until
<1>4. e \in Form /\ e.by = service
  BY <1>1, <1>2, <1>3 DEF Form
<1> HIDE DEF e
<1>5. UNCHANGED <<clock, admin, offered, sessions, tokens, trail, service, consumed, requests, history>>
  BY <1>1 DEF durable, spent
<1>6. /\ forms' \in Seq(Form) /\ Len(forms') = Len(forms) + 1
      /\ \A f \in 1 .. Len(forms) : forms'[f] = forms[f]
      /\ forms'[Len(forms) + 1] = e
  BY <1>1, <1>2, <1>4
<1>7. Len(forms') <= MaxForms /\ Len(forms) <= Len(forms')
  BY <1>1, <1>2, <1>6, Bounds
<1>8. Typed'
  BY <1>2, <1>5, <1>6, <1>7 DEF Typed
<1>9. Grows
  <2>1. \A s \in 1 .. MaxSessions : history.active[s] <= history'.active[s]
    BY <1>2, <1>5
  <2> QED BY <1>5, <1>7, <2>1 DEF Grows
<1>10. \A p \in Requests : Placed(p)'
  BY <1>5, <1>8, <1>9, NoneMoves
<1>11. FormsSpent'
  <2>1. service' \in {0, history'.served} /\ service = history.served
    BY <1>1, <1>2, <1>5 DEF FormsSpent
  <2>2. ASSUME NEW f \in 1 .. Len(forms') PROVE forms'[f].by <= history'.served
    <3>1. CASE f \in 1 .. Len(forms)
      BY <1>2, <1>5, <1>6, <3>1 DEF FormsSpent
    <3>2. CASE f = Len(forms) + 1
      BY <1>2, <1>4, <1>5, <1>6, <2>1, <3>2
    <3>3. f \in 1 .. Len(forms) \/ f = Len(forms) + 1
      BY <1>2, <1>6
    <3> QED BY <3>1, <3>2, <3>3
  <2>3. ASSUME NEW f \in 1 .. MaxForms, history'.accepted[f] > 0
        PROVE  /\ history'.accepted[f] = 1 /\ f <= Len(forms')
               /\ f \in consumed' \/ forms'[f].expires <= clock' \/ forms'[f].by # service'
    <3>1. /\ history.accepted[f] = 1 /\ f <= Len(forms)
          /\ f \in consumed \/ forms[f].expires <= clock \/ forms[f].by # service
      BY <1>2, <1>5, <2>3 DEF FormsSpent
    <3>2. f \in 1 .. Len(forms) /\ f <= Len(forms')
      BY <1>2, <1>6, <3>1
    <3>3. forms'[f] = forms[f]
      BY <1>6, <3>2
    <3> QED BY <1>5, <3>1, <3>2, <3>3
  <2> QED BY <2>1, <2>2, <2>3 DEF FormsSpent
<1>12. OffersSpent'
  BY <1>2, <1>5, OffersKept
<1>13. CutOff'
  <2>1. history.signedIn <= history'.signedIn /\ history.created <= history'.created /\ clock <= clock'
    BY <1>2, <1>5
  <2>2. \A s \in 1 .. MaxSessions : history.active[s] <= history'.active[s]
    BY <1>2, <1>5
  <2> QED BY <1>2, <1>5, <1>8, <2>1, <2>2, CutKept
<1>14. ChangesOnRecord'
  BY <1>2, <1>5, NoneRecorded
<1> QED BY <1>8, <1>10, <1>11, <1>12, <1>13, <1>14 DEF AInv

\* The process stops: what its requests had not recorded is lost, and its
\* challenges are not authentic in the next one.
LEMMA StopStep ==
  ASSUME AInv, Stop
  PROVE  AInv'
<1> DEFINE gone == history.lost \cup UNION {Pending(q) : q \in Requests}
<1>1. /\ service' = 0 /\ requests' = [q \in Requests |-> Free]
      /\ history' = [history EXCEPT !.lost = gone]
      /\ UNCHANGED <<clock, admin, offered, sessions, tokens, trail, forms>>
  BY DEF Stop, durable
<1>2. /\ Typed /\ FormsSpent /\ OffersSpent /\ CutOff /\ ChangesOnRecord /\ clock \in Nat
      /\ forms \in Seq(Form) /\ Len(forms) \in Nat /\ history \in Histories /\ requests \in [Requests -> AllRequests]
      /\ history.served \in Nat
      /\ history.signedIn \in Nat /\ history.created \in Nat /\ \A s \in 1 .. MaxSessions : history.active[s] \in Nat
  BY Known
<1>3. gone \subseteq Events
  <2>1. \A q \in Requests : Pending(q) \subseteq Events
    <3> SUFFICES ASSUME NEW q \in Requests PROVE Pending(q) \subseteq Events
      OBVIOUS
    <3>1. requests[q] \in AllRequests
      BY <1>2
    <3>2. requests[q] \in Recorders \cup Revealers => requests[q].change \in Events
      BY DEF Recorders, Revealers
    <3> QED BY <3>1, <3>2, Carries DEF Pending
  <2>2. history.lost \subseteq Events
    BY <1>2 DEF Histories
  <2> QED BY <2>1, <2>2
<1>4. /\ history' \in Histories /\ history'.lost = gone
      /\ history'.served = history.served /\ history'.issued = history.issued
      /\ history'.signedIn = history.signedIn /\ history'.created = history.created
      /\ history'.accepted = history.accepted /\ history'.used = history.used
      /\ history'.active = history.active /\ history'.cut = history.cut
      /\ history'.committed = history.committed
  <2> HIDE DEF gone
  <2> QED BY <1>1, <1>2, <1>3 DEF Histories
<1>5. Typed'
  <2>1. requests' \in [Requests -> AllRequests]
    BY <1>1 DEF AllRequests
  <2> QED BY <1>1, <1>2, <1>4, <2>1 DEF Typed
<1>6. \A p \in Requests : Placed(p)'
  BY <1>1, FreePlaced
<1>7. FormsSpent'
  <2>1. \A f \in 1 .. Len(forms) : forms[f].by # 0
    <3>1. \A f \in 1 .. Len(forms) : forms[f] \in Form
      BY <1>2
    <3> QED BY <3>1 DEF Form
  <2>2. ASSUME NEW f \in 1 .. MaxForms, history.accepted[f] > 0
        PROVE  history.accepted[f] = 1 /\ f <= Len(forms) /\ forms[f].by # 0
    <3>1. history.accepted[f] = 1 /\ f <= Len(forms)
      BY <1>2, <2>2 DEF FormsSpent
    <3>2. f \in 1 .. Len(forms)
      BY <1>2, <3>1
    <3> QED BY <2>1, <3>1, <3>2
  <2>3. service' = 0 /\ forms' = forms
    BY <1>1
  <2> QED BY <1>2, <1>4, <2>2, <2>3 DEF FormsSpent
<1>8. OffersSpent'
  BY <1>1, <1>2, <1>4, OffersKept
<1>9. CutOff'
  <2>1. history.signedIn <= history'.signedIn /\ history.created <= history'.created /\ clock <= clock'
    BY <1>1, <1>2, <1>4
  <2>2. \A s \in 1 .. MaxSessions : history.active[s] <= history'.active[s]
    BY <1>2, <1>4
  <2> QED BY <1>1, <1>2, <1>4, <1>5, <2>1, <2>2, CutKept
<1>10. ChangesOnRecord'
  <2>1. \A c \in history.committed \ (trail \cup history.lost) : c \in gone
    BY <1>2 DEF ChangesOnRecord
  <2>2. history.lost \subseteq gone
    OBVIOUS
  <2>3. history'.committed \ (trail' \cup history'.lost) = {}
    BY <1>1, <1>4, <2>1, <2>2
  <2>4. trail' \subseteq history'.committed \cup {<<"refused", 0>>}
    BY <1>1, <1>2, <1>4 DEF ChangesOnRecord
  <2> QED BY <2>3, <2>4 DEF ChangesOnRecord
<1> QED BY <1>5, <1>6, <1>7, <1>8, <1>9, <1>10 DEF AInv

(***************************************************************************)
(* Challenges and records.                                                 *)
(***************************************************************************)

\* A step that leaves everything but one request, the record and the spent
\* challenges alone.
LEMMA Elsewhere ==
  ASSUME AInv, Typed', UNCHANGED <<clock, admin, offered, sessions, tokens, forms>>,
         trail \subseteq trail',
         history'.issued = history.issued, history'.used = history.used,
         history'.signedIn = history.signedIn, history'.created = history.created,
         history'.active = history.active, history'.cut = history.cut,
         history.committed \subseteq history'.committed
  PROVE  Grows /\ OffersSpent' /\ CutOff'
<1>1. /\ Typed /\ OffersSpent /\ CutOff /\ clock \in Nat
      /\ history.signedIn \in Nat /\ history.created \in Nat
  BY Known
<1>2. Grows
  BY Steady
<1>3. OffersSpent'
  BY <1>1, OffersKept
<1>4. history.signedIn <= history'.signedIn /\ history.created <= history'.created /\ clock <= clock'
  BY <1>1
<1>5. CutOff'
  BY <1>1, <1>4, CutKept
<1> QED BY <1>2, <1>3, <1>5

\* Accepting a form leaves the rest of the history alone.
LEMMA AcceptedFields ==
  ASSUME history \in Histories, NEW f \in 1 .. MaxForms, NEW n \in Nat,
         history' = [history EXCEPT !.accepted = [history.accepted EXCEPT ![f] = n]]
  PROVE  /\ history' \in Histories
         /\ history'.accepted = [history.accepted EXCEPT ![f] = n]
         /\ history'.served = history.served /\ history'.issued = history.issued
         /\ history'.signedIn = history.signedIn /\ history'.created = history.created
         /\ history'.used = history.used
         /\ history'.active = history.active /\ history'.cut = history.cut
         /\ history'.committed = history.committed /\ history'.lost = history.lost
<1>1. history.accepted \in [1 .. MaxForms -> Nat]
  BY HistoryFields
<1>2. [history.accepted EXCEPT ![f] = n] \in [1 .. MaxForms -> Nat]
  BY <1>1
<1> DEFINE a == [history.accepted EXCEPT ![f] = n]
<1>3. a \in [1 .. MaxForms -> Nat] /\ history' = [history EXCEPT !.accepted = a]
  BY <1>2
<1> HIDE DEF a
<1>4. /\ history' \in Histories /\ history'.accepted = a
      /\ history'.served = history.served /\ history'.issued = history.issued
      /\ history'.signedIn = history.signedIn /\ history'.created = history.created
      /\ history'.used = history.used
      /\ history'.active = history.active /\ history'.cut = history.cut
      /\ history'.committed = history.committed /\ history'.lost = history.lost
  BY <1>3 DEF Histories
<1> QED BY <1>4 DEF a

\* What is pruned from the spent challenges cannot be submitted again.
LEMMA PrunedCovers ==
  ASSUME Typed, FormsSpent, NEW f \in Nat, NEW g \in 1 .. MaxForms, history.accepted[g] > 0
  PROVE  /\ history.accepted[g] = 1 /\ g <= Len(forms)
         /\ g \in Remembered(f) \/ forms[g].expires <= clock \/ forms[g].by # service
<1>1. forms \in Seq(Form) /\ clock \in Nat
  BY DEF Typed
<1>2. /\ history.accepted[g] = 1 /\ g <= Len(forms)
      /\ g \in consumed \/ forms[g].expires <= clock \/ forms[g].by # service
  BY DEF FormsSpent
<1>3. g \in 1 .. Len(forms) /\ forms[g] \in Form
  BY <1>1, <1>2
<1>4. forms[g].expires \in Nat
  BY <1>3 DEF Form
<1>5. g \in consumed /\ forms[g].expires > clock => g \in Remembered(f)
  BY DEF Remembered
<1>6. forms[g].expires <= clock \/ forms[g].expires > clock
  BY <1>1, <1>4
<1> QED BY <1>2, <1>5, <1>6

\* A form is accepted once: whoever accepts it finds that nobody has.
LEMMA ChallengeStep ==
  ASSUME AInv, NEW q \in Requests, Challenge(q)
  PROVE  AInv'
<1> DEFINE f == requests[q].form
           kept == Remembered(f)
           spendable == f \notin kept /\ Cardinality(kept) < MaxConsumed
<1>1. requests[q].at = "challenge" /\ UNCHANGED <<clock, durable, service, forms, throttle, reveals>>
  BY DEF Challenge
<1>2. /\ Typed /\ FormsSpent /\ OffersSpent /\ CutOff /\ ChangesOnRecord /\ clock \in Nat
      /\ forms \in Seq(Form) /\ Len(forms) \in Nat /\ Len(forms) <= MaxForms
      /\ history \in Histories /\ requests \in [Requests -> AllRequests]
  BY Known
<1>3. requests[q] \in FormRequests /\ requests[q] \notin Recorders \cup Revealers
  BY <1>1, <1>2, Stands, Apart
<1>4. f \in 1 .. Len(forms) /\ f \in Nat /\ f \in 1 .. MaxForms
  <2>1. f \in 1 .. Len(forms)
    BY <1>3 DEF AInv, Placed
  <2> QED BY <2>1, <1>2, Bounds
<1>5. UNCHANGED <<clock, admin, offered, sessions, tokens, trail, service, forms>>
  BY <1>1 DEF durable
<1>6. CASE ~ Authentic(f, requests[q].op, requests[q].client)
  <2>1. requests' = [requests EXCEPT ![q] = Free] /\ UNCHANGED <<spent, history>>
    BY <1>6 DEF Challenge
  <2>2. Quiet
    BY <1>5, <2>1 DEF Quiet, spent
  <2> QED BY <1>3, <2>1, <2>2, Answered
<1>7. ASSUME NEW r \in AllRequests, requests' = [requests EXCEPT ![q] = r], Placed(q)', Typed', FormsSpent',
             history'.issued = history.issued, history'.used = history.used,
             history'.signedIn = history.signedIn, history'.created = history.created,
             history'.active = history.active, history'.cut = history.cut,
             history'.committed = history.committed, history'.lost = history.lost
      PROVE  AInv'
  <2>1. trail \subseteq trail' /\ history.committed \subseteq history'.committed
    BY <1>5, <1>7
  <2>2. Grows /\ OffersSpent' /\ CutOff'
    BY <1>5, <1>7, <2>1, Elsewhere
  <2>3. \A p \in Requests : Placed(p)'
    BY <1>7, <2>2, OneMoves
  <2>4. trail' \subseteq history'.committed \cup {<<"refused", 0>>}
    BY <1>2, <1>5, <1>7 DEF ChangesOnRecord
  <2>5. ChangesOnRecord'
    BY <1>2, <1>3, <1>7, <2>1, <2>4, StillOnRecord
  <2> QED BY <1>7, <2>2, <2>3, <2>5 DEF AInv
<1>8. ASSUME Authentic(f, requests[q].op, requests[q].client), ~ spendable
      PROVE  AInv'
  <2>1. consumed' = kept /\ requests' = [requests EXCEPT ![q] = Free] /\ history' = history
    BY <1>8 DEF Challenge
  <2>2. Free \in AllRequests
    BY DEF AllRequests
  <2>3. requests'[q] = Free /\ requests' \in [Requests -> AllRequests]
    BY <1>2, <2>1, <2>2, Replaced
  <2>4. Placed(q)'
    BY <2>3, FreePlaced
  <2>5. Typed'
    BY <1>2, <1>5, <2>1, <2>3 DEF Typed
  <2>6. FormsSpent'
    <3>1. \A g \in 1 .. MaxForms : history.accepted[g] > 0 =>
            /\ history.accepted[g] = 1 /\ g <= Len(forms)
            /\ g \in kept \/ forms[g].expires <= clock \/ forms[g].by # service
      BY <1>2, <1>4, PrunedCovers
    <3> HIDE DEF kept
    <3> QED BY <1>2, <1>5, <2>1, <3>1 DEF FormsSpent
  <2> QED BY <1>7, <2>1, <2>2, <2>4, <2>5, <2>6
<1>9. ASSUME Authentic(f, requests[q].op, requests[q].client), spendable
      PROVE  AInv'
  <2> DEFINE o == requests[q]
             r == [o EXCEPT !.at = "slot"]
             n == history.accepted[f] + 1
  <2>1. /\ consumed' = kept \cup {f} /\ requests' = [requests EXCEPT ![q] = r]
        /\ history' = [history EXCEPT !.accepted = [history.accepted EXCEPT ![f] = n]]
    <3>1. history' = [history EXCEPT !.accepted[f] = @ + 1]
      BY <1>9 DEF Challenge
    <3>2. history' = [history EXCEPT !.accepted = [history.accepted EXCEPT ![f] = n]]
      BY <1>2, <1>4, <3>1 DEF Histories
    <3> QED BY <1>9, <3>2 DEF Challenge
  <2>2. /\ r \in FormRequests \cup SessionRequests
        /\ r \in FormRequests => o \in FormRequests
        /\ r.at = "slot" /\ r.op = o.op
        /\ o \in FormRequests => r.form = o.form
    BY <1>1, <1>3, Moves
  <2>3. r \in AllRequests
    BY <2>2 DEF AllRequests
  <2> HIDE DEF r
  <2>4. requests'[q] = r /\ requests' \in [Requests -> AllRequests]
    BY <1>2, <2>1, <2>3, Replaced
  <2>5. Placed(q)'
    BY <1>3, <1>4, <1>5, <2>2, <2>4, WaitingPlaced
  <2>6. \A g \in 1 .. MaxForms : history.accepted[g] > 0 =>
          /\ history.accepted[g] = 1 /\ g <= Len(forms)
          /\ g \in kept \/ forms[g].expires <= clock \/ forms[g].by # service
    BY <1>2, <1>4, PrunedCovers
  <2>7. history.accepted \in [1 .. MaxForms -> Nat]
    BY <1>2, HistoryFields
  <2>8. history.accepted[f] = 0 /\ n = 1
    <3>1. forms[f] \in Form /\ forms[f].by = service /\ forms[f].expires > clock
      BY <1>2, <1>4, <1>9 DEF Authentic
    <3>2. ~ forms[f].expires <= clock
      BY <1>2, <3>1 DEF Form
    <3>3. ~ history.accepted[f] > 0
      BY <1>4, <1>9, <2>6, <3>1, <3>2
    <3> HIDE DEF f
    <3>4. history.accepted[f] \in Nat
      BY <1>4, <2>7
    <3>5. history.accepted[f] = 0
      BY <3>3, <3>4
    <3> QED BY <3>5
  <2> HIDE DEF n, f
  <2>9. /\ history' \in Histories
        /\ history'.accepted = [history.accepted EXCEPT ![f] = n]
        /\ history'.served = history.served /\ history'.issued = history.issued
        /\ history'.signedIn = history.signedIn /\ history'.created = history.created
        /\ history'.used = history.used
        /\ history'.active = history.active /\ history'.cut = history.cut
        /\ history'.committed = history.committed /\ history'.lost = history.lost
    <3>1. n \in Nat
      BY <2>8
    <3> QED BY <1>2, <1>4, <2>1, <3>1, AcceptedFields
  <2>10. Typed'
    BY <1>2, <1>5, <2>4, <2>9 DEF Typed
  <2> HIDE DEF kept
  <2>11. \A g \in 1 .. MaxForms : history'.accepted[g] > 0 =>
           /\ history'.accepted[g] = 1 /\ g <= Len(forms)
           /\ g \in consumed' \/ forms[g].expires <= clock \/ forms[g].by # service
    <3> SUFFICES ASSUME NEW g \in 1 .. MaxForms, history'.accepted[g] > 0
                 PROVE  /\ history'.accepted[g] = 1 /\ g <= Len(forms)
                        /\ g \in consumed' \/ forms[g].expires <= clock \/ forms[g].by # service
      OBVIOUS
    <3>1. CASE g = f
      BY <1>2, <1>4, <2>1, <2>7, <2>8, <2>9, <3>1
    <3>2. CASE g # f
      BY <2>1, <2>6, <2>7, <2>9, <3>2
    <3> QED BY <3>1, <3>2
  <2>12. FormsSpent'
    BY <1>2, <1>5, <2>9, <2>11 DEF FormsSpent
  <2> QED BY <1>7, <2>1, <2>3, <2>5, <2>9, <2>10, <2>12
<1> QED BY <1>6, <1>8, <1>9

\* The administrative record of a change, in a transaction of its own.
LEMMA RecordStep ==
  ASSUME AInv, NEW q \in Requests, Record(q)
  PROVE  AInv'
<1> DEFINE o == requests[q]
<1>1. /\ o.at = "record" /\ trail' = trail \cup {o.change}
      /\ UNCHANGED <<clock, admin, offered, sessions, tokens, service, forms, consumed, history>>
  BY DEF Record, spent
<1>2. /\ Typed /\ FormsSpent /\ ChangesOnRecord /\ clock \in Nat
      /\ history \in Histories /\ requests \in [Requests -> AllRequests]
  BY Known
<1>3. o \in Recorders \cup Revealers /\ o.change \in history.committed
  <2>1. o \in Recorders \cup Revealers
    BY <1>1, <1>2, Stands
  <2> QED BY <2>1 DEF AInv, Placed
<1>4. PICK r \in AllRequests :
        /\ requests' = [requests EXCEPT ![q] = r]
        /\ r = Free \/ (r.at = "signin" /\ r.op = "change" /\ r.change = o.change /\ r \in Recorders)
                    \/ (r.at = "reveal" /\ r.op = "create" /\ r.change = o.change /\ r \in Revealers)
  <2>1. CASE o.op = "change"
    <3>1. AfterRecord(o) = "signin"
      BY <2>1 DEF AfterRecord
    <3>2. requests' = [requests EXCEPT ![q] = [o EXCEPT !.at = "signin"]]
      BY <3>1 DEF Record
    <3>3. o \in Recorders
      BY <1>3, <2>1 DEF Revealers
    <3>4. o = [at |-> "record", op |-> "change", client |-> o.client, change |-> o.change]
          /\ o.client \in Clients /\ o.change \in Events
      BY <1>1, <2>1, <3>3 DEF Recorders
    <3>5. [o EXCEPT !.at = "signin"] = [at |-> "signin", op |-> "change", client |-> o.client, change |-> o.change]
      BY <3>4
    <3>6. [o EXCEPT !.at = "signin"] \in Recorders
      BY <3>4, <3>5 DEF Recorders
    <3> QED BY <3>2, <3>5, <3>6 DEF AllRequests
  <2>2. CASE o.op = "create"
    <3>1. AfterRecord(o) = "reveal"
      BY <2>2 DEF AfterRecord
    <3>2. requests' = [requests EXCEPT ![q] = [o EXCEPT !.at = "reveal"]]
      BY <3>1 DEF Record
    <3>3. o \in Revealers
      BY <1>3, <2>2 DEF Recorders
    <3>4. o = [at |-> "record", op |-> "create", client |-> o.client, session |-> o.session, change |-> o.change]
          /\ o.client \in Clients /\ o.session \in 1 .. MaxSessions /\ o.change \in Events
      BY <1>1, <2>2, <3>3 DEF Revealers
    <3>5. [o EXCEPT !.at = "reveal"] =
            [at |-> "reveal", op |-> "create", client |-> o.client, session |-> o.session, change |-> o.change]
      BY <3>4
    <3>6. [o EXCEPT !.at = "reveal"] \in Revealers
      BY <3>4, <3>5 DEF Revealers
    <3> QED BY <3>2, <3>5, <3>6 DEF AllRequests
  <2>3. CASE o.op \notin {"change", "create"}
    <3>1. AfterRecord(o) = "free"
      BY <2>3 DEF AfterRecord
    <3>2. requests' = [requests EXCEPT ![q] = Free]
      BY <3>1 DEF Record
    <3> QED BY <3>2 DEF AllRequests
  <2> QED BY <2>1, <2>2, <2>3
<1>5. requests'[q] = r /\ requests' \in [Requests -> AllRequests]
  BY <1>2, <1>4, Replaced
<1>6. Typed'
  BY <1>1, <1>2, <1>5 DEF Typed
<1>7. Placed(q)'
  <2>1. CASE r = Free
    BY <1>5, <2>1, FreePlaced
  <2>2. CASE r # Free
    <3>1. r \notin FormRequests /\ r.change \in trail' /\ r.change \in history'.committed
          /\ r.at \in {"signin", "reveal"} /\ (r.at = "signin" => r.op = "change")
      BY <1>1, <1>3, <1>4, <2>2, Apart
    <3> QED BY <1>5, <3>1 DEF Placed
  <2> QED BY <2>1, <2>2
<1>8. trail \subseteq trail' /\ history.committed \subseteq history'.committed
  BY <1>1
<1>9. Grows /\ OffersSpent' /\ CutOff'
  BY <1>1, <1>6, <1>8, Elsewhere
<1>10. \A p \in Requests : Placed(p)'
  BY <1>4, <1>6, <1>7, <1>9, OneMoves
<1>11. FormsSpent'
  BY <1>1, <1>2, <1>6, FormsKept
<1>12. ChangesOnRecord'
  <2>1. trail' \subseteq history'.committed \cup {<<"refused", 0>>} /\ o.change \in trail'
    BY <1>1, <1>2, <1>3 DEF ChangesOnRecord
  <2> QED BY <1>1, <1>2, <1>4, <1>8, <2>1, StillOnRecord
<1> QED BY <1>6, <1>9, <1>10, <1>11, <1>12 DEF AInv

(***************************************************************************)
(* Requests of a session.                                                  *)
(***************************************************************************)

\* Noting that a session's user was there leaves the rest alone.
LEMMA ActiveFields ==
  ASSUME history \in Histories, NEW s \in 1 .. MaxSessions, NEW t \in Nat,
         history' = [history EXCEPT !.active[s] = t]
  PROVE  /\ history' \in Histories
         /\ history'.active = [history.active EXCEPT ![s] = t]
         /\ history'.served = history.served /\ history'.issued = history.issued
         /\ history'.signedIn = history.signedIn /\ history'.created = history.created
         /\ history'.accepted = history.accepted /\ history'.used = history.used
         /\ history'.cut = history.cut
         /\ history'.committed = history.committed /\ history'.lost = history.lost
<1> DEFINE a == [history.active EXCEPT ![s] = t]
<1>1. a \in [1 .. MaxSessions -> Nat]
  <2>1. history.active \in [1 .. MaxSessions -> Nat]
    BY HistoryFields
  <2> QED BY <2>1
<1>2. history' = [history EXCEPT !.active = a]
  BY DEF Histories
<1> HIDE DEF a
<1>3. /\ history' \in Histories /\ history'.active = a
      /\ history'.served = history.served /\ history'.issued = history.issued
      /\ history'.signedIn = history.signedIn /\ history'.created = history.created
      /\ history'.accepted = history.accepted /\ history'.used = history.used
      /\ history'.cut = history.cut
      /\ history'.committed = history.committed /\ history'.lost = history.lost
  BY <1>1, <1>2 DEF Histories
<1> QED BY <1>3 DEF a

\* A session that is read: what its request notes of the time is when the
\* user was there.
LEMMA AuthenticateStep ==
  ASSUME AInv, NEW q \in Requests, Authenticate(q)
  PROVE  AInv'
<1> DEFINE o == requests[q]
           i == o.session
           s == sessions[i]
           honoured == s.live /\ s.made + SessionLife > clock /\ ~Idle(o, s) /\ Activity(o.op)
           touched == [at |-> "touch", op |-> o.op, client |-> o.client, session |-> i, guess |-> o.guess,
                       since |-> clock]
<1>1. /\ o.at = "auth" /\ UNCHANGED <<clock, admin, offered, sessions, tokens, trail, service, forms, consumed>>
      /\ requests' = [requests EXCEPT ![q] =
             IF ~s.live \/ s.made + SessionLife <= clock THEN Free
             ELSE IF Idle(o, s) THEN [at |-> "drop", session |-> i]
             ELSE IF TouchDue(o, s) THEN touched
             ELSE [o EXCEPT !.at = Resume(o)]]
      /\ history' = IF honoured THEN [history EXCEPT !.active[i] = clock] ELSE history
  BY DEF Authenticate, durable, spent
<1>2. /\ Typed /\ FormsSpent /\ OffersSpent /\ CutOff /\ ChangesOnRecord /\ clock \in Nat
      /\ history \in Histories /\ requests \in [Requests -> AllRequests]
      /\ history.signedIn \in Nat /\ history.created \in Nat /\ \A x \in 1 .. MaxSessions : history.active[x] \in Nat
      /\ Len(forms) \in Nat
  BY Known
<1>3. o \in SessionRequests /\ i \in 1 .. MaxSessions /\ o \notin Recorders \cup Revealers
  <2>1. o \in SessionRequests
    BY <1>1, <1>2, Stands
  <2> QED BY <2>1, Apart DEF SessionRequests
<1>4. s \in [live : BOOLEAN, made : Nat, seen : Nat] /\ s.made + SessionLife \in Nat
  <2>1. s \in [live : BOOLEAN, made : Nat, seen : Nat]
    BY <1>2, <1>3 DEF Typed
  <2>2. s.made \in Nat
    BY <2>1
  <2> HIDE DEF s
  <2> QED BY <2>1, <2>2, Bounds
<1>5. /\ history' \in Histories
      /\ history'.served = history.served /\ history'.issued = history.issued
      /\ history'.signedIn = history.signedIn /\ history'.created = history.created
      /\ history'.accepted = history.accepted /\ history'.used = history.used
      /\ history'.cut = history.cut
      /\ history'.committed = history.committed /\ history'.lost = history.lost
      /\ history'.active = history.active \/ history'.active = [history.active EXCEPT ![i] = clock]
      /\ honoured => history'.active = [history.active EXCEPT ![i] = clock]
  <2>1. CASE honoured
    <3>1. history' = [history EXCEPT !.active[i] = clock]
      BY <1>1, <2>1
    <3> QED BY <1>2, <1>3, <3>1, ActiveFields
  <2>2. CASE ~ honoured
    BY <1>1, <1>2, <2>2
  <2> QED BY <2>1, <2>2
<1>6. \A x \in 1 .. MaxSessions : /\ history.active[x] <= history'.active[x]
                                  /\ history'.active[x] <= clock
                                  /\ history'.active[x] \in Nat
  <2> SUFFICES ASSUME NEW x \in 1 .. MaxSessions
               PROVE  /\ history.active[x] <= history'.active[x]
                      /\ history'.active[x] <= clock
                      /\ history'.active[x] \in Nat
    OBVIOUS
  <2>1. history.active \in [1 .. MaxSessions -> Nat]
    BY <1>2, HistoryFields
  <2>2. history.active[x] \in Nat /\ history.active[x] <= clock
    BY <1>2 DEF CutOff
  <2>3. history'.active[x] = history.active[x] \/ history'.active[x] = clock
    BY <1>5, <2>1
  <2> QED BY <1>2, <2>2, <2>3
<1>7. PICK r \in AllRequests :
        /\ requests' = [requests EXCEPT ![q] = r]
        /\ r \notin FormRequests \cup Recorders \cup Revealers
        /\ r.at \in {"free", "drop", "touch", "throttle", "act"}
        /\ r.at = "touch" => r.session = i /\ r.since = clock /\ honoured
  <2>1. CASE ~s.live \/ s.made + SessionLife <= clock
    <3>1. requests' = [requests EXCEPT ![q] = Free]
      BY <1>1, <2>1
    <3>2. Free \in AllRequests /\ Free \notin FormRequests \cup Recorders \cup Revealers /\ Free.at = "free"
      BY Apart DEF AllRequests, Free
    <3> QED BY <3>1, <3>2
  <2> DEFINE late == s.made + SessionLife <= clock
  <2>2. CASE ~(~s.live \/ late) /\ Idle(o, s)
    <3> DEFINE r == [at |-> "drop", session |-> i]
    <3>1. requests' = [requests EXCEPT ![q] = r]
      BY <1>1, <2>2
    <3>2. r \in ClosingRequests /\ r.at = "drop"
      BY <1>3 DEF ClosingRequests
    <3> HIDE DEF r
    <3>3. r \in AllRequests /\ r \notin FormRequests \cup Recorders \cup Revealers
      BY <3>2, Apart DEF AllRequests
    <3> QED BY <3>1, <3>2, <3>3
  <2>3. CASE ~(~s.live \/ late) /\ ~Idle(o, s) /\ TouchDue(o, s)
    <3>1. requests' = [requests EXCEPT ![q] = touched]
      BY <1>1, <2>3
    <3>2. touched \in TouchRequests /\ touched.at = "touch" /\ touched.session = i /\ touched.since = clock
      BY <1>2, <1>3 DEF TouchRequests, SessionRequests
    <3>3. honoured
      <4>1. ~ s.made + SessionLife <= clock
        BY <2>3
      <4>2. s.made + SessionLife > clock
        BY <1>2, <1>4, <4>1
      <4>3. s.live /\ ~Idle(o, s) /\ Activity(o.op)
        BY <1>4, <2>3 DEF TouchDue
      <4> QED BY <4>2, <4>3
    <3> HIDE DEF touched, honoured
    <3>4. touched \in AllRequests /\ touched \notin FormRequests \cup Recorders \cup Revealers
      BY <3>2, Apart DEF AllRequests
    <3> QED BY <3>1, <3>2, <3>3, <3>4
  <2>4. CASE ~(~s.live \/ late) /\ ~Idle(o, s) /\ ~TouchDue(o, s)
    <3> DEFINE at == Resume(o)
               r == [o EXCEPT !.at = at]
    <3>1. requests' = [requests EXCEPT ![q] = r]
      BY <1>1, <2>4
    <3>2. at \in {"throttle", "act"}
      BY DEF Resume
    <3> HIDE DEF at
    <3>3. r \in SessionRequests /\ r.at = at
      BY <1>3, <3>2 DEF SessionRequests
    <3> HIDE DEF r
    <3>4. r \in AllRequests /\ r \notin FormRequests \cup Recorders \cup Revealers
      BY <3>3, Apart DEF AllRequests
    <3> QED BY <3>1, <3>2, <3>3, <3>4
  <2> QED BY <2>1, <2>2, <2>3, <2>4
<1> HIDE DEF honoured, touched
<1>8. requests'[q] = r /\ requests' \in [Requests -> AllRequests]
  BY <1>2, <1>7, Replaced
<1>9. Typed'
  BY <1>1, <1>2, <1>5, <1>8 DEF Typed
<1>10. Grows
  <2>1. Len(forms) <= Len(forms')
    BY <1>1, <1>2
  <2> QED BY <1>1, <1>5, <1>6, <2>1 DEF Grows
<1>11. Placed(q)'
  <2>1. r.at = "touch" => r.since <= history'.active[r.session]
    <3> SUFFICES ASSUME r.at = "touch" PROVE r.since <= history'.active[r.session]
      OBVIOUS
    <3>1. history.active \in [1 .. MaxSessions -> Nat]
      BY <1>2, HistoryFields
    <3>2. history'.active[i] = clock
      BY <1>3, <1>5, <1>7, <3>1
    <3> QED BY <1>2, <1>7, <3>2
  <2> QED BY <1>7, <1>8, <2>1 DEF Placed
<1>12. \A p \in Requests : Placed(p)'
  BY <1>7, <1>9, <1>10, <1>11, OneMoves
<1>13. clock <= clock'
  BY <1>1, <1>2
<1>14. FormsSpent'
  BY <1>1, <1>2, <1>5, <1>9, <1>13, FormsKept
<1>15. OffersSpent'
  BY <1>1, <1>2, <1>5, OffersKept
<1>16. CutOff'
  <2>1. \A x \in 1 .. MaxSessions : sessions[x].live => /\ x > history.cut.sessions
                                                       /\ sessions[x].seen <= history'.active[x]
    <3> SUFFICES ASSUME NEW x \in 1 .. MaxSessions, sessions[x].live
                 PROVE  x > history.cut.sessions /\ sessions[x].seen <= history'.active[x]
      OBVIOUS
    <3>1. sessions[x].seen \in Nat
      BY <1>2 DEF Typed
    <3>2. x > history.cut.sessions /\ sessions[x].seen <= history.active[x]
      BY <1>2 DEF CutOff
    <3>3. history.active[x] <= history'.active[x] /\ history.active[x] \in Nat /\ history'.active[x] \in Nat
      BY <1>2, <1>6
    <3> QED BY <3>1, <3>2, <3>3
  <2>2. \A x \in 1 .. MaxSessions : history'.active[x] <= clock'
    BY <1>1, <1>6
  <2> QED BY <1>1, <1>2, <1>5, <2>1, <2>2 DEF CutOff
<1>17. ChangesOnRecord'
  <2>1. trail \subseteq trail' /\ trail' \subseteq history'.committed \cup {<<"refused", 0>>}
    BY <1>1, <1>2, <1>5 DEF ChangesOnRecord
  <2> QED BY <1>2, <1>3, <1>5, <1>7, <2>1, StillOnRecord
<1> QED BY <1>9, <1>12, <1>14, <1>15, <1>16, <1>17 DEF AInv

\* A request after which sessions and API tokens are as they were, or have
\* ended, or were seen when their user was there.
LEMMA EndsStep ==
  ASSUME AInv, NEW q \in Requests, NEW r \in AllRequests, requests' = [requests EXCEPT ![q] = r], Placed(q)',
         requests[q] \notin Recorders \cup Revealers,
         UNCHANGED <<clock, admin, offered, trail, service, forms, consumed>>,
         sessions' \in [1 .. MaxSessions -> [live : BOOLEAN, made : Nat, seen : Nat]],
         tokens' \in [1 .. MaxTokens -> [live : BOOLEAN, expires : Nat]],
         history' \in Histories,
         history'.served = history.served, history'.issued = history.issued,
         history'.signedIn = history.signedIn, history'.created = history.created,
         history'.accepted = history.accepted, history'.used = history.used,
         history'.active = history.active, history'.cut = history.cut,
         history'.lost = history.lost, history.committed \subseteq history'.committed,
         \A c \in history'.committed \ history.committed : r \in Recorders \cup Revealers /\ r.change = c,
         \A s \in 1 .. MaxSessions : sessions'[s].live => sessions[s].live /\ sessions'[s].seen <= history.active[s],
         \A i \in 1 .. MaxTokens : tokens'[i].live => tokens[i].live /\ tokens'[i].expires = tokens[i].expires
  PROVE  AInv'
<1>1. /\ Typed /\ FormsSpent /\ OffersSpent /\ CutOff /\ ChangesOnRecord /\ clock \in Nat
      /\ requests \in [Requests -> AllRequests]
      /\ history.signedIn \in Nat /\ history.created \in Nat
  BY Known
<1>2. requests'[q] = r /\ requests' \in [Requests -> AllRequests]
  BY <1>1, Replaced
<1>3. Typed'
  BY <1>1, <1>2 DEF Typed
<1>4. Grows
  BY Steady
<1>5. \A p \in Requests : Placed(p)'
  BY <1>3, <1>4, OneMoves
<1>6. clock <= clock' /\ history.signedIn <= history'.signedIn /\ history.created <= history'.created
  BY <1>1
<1>7. FormsSpent'
  BY <1>1, <1>3, <1>6, FormsKept
<1>8. OffersSpent'
  BY <1>1, OffersKept
<1>9. CutOff'
  BY <1>1, <1>3, <1>6, CutShrinks
<1>10. ChangesOnRecord'
  <2>1. trail \subseteq trail' /\ trail' \subseteq history'.committed \cup {<<"refused", 0>>}
    BY <1>1 DEF ChangesOnRecord
  <2> QED BY <1>1, <2>1, StillOnRecord
<1> QED BY <1>3, <1>5, <1>7, <1>8, <1>9, <1>10 DEF AInv

\* Bookkeeping writes: they find the session ended or as their request read
\* it, and none of them makes one live.
LEMMA BookkeepingStep ==
  ASSUME AInv, NEW q \in Requests, DropIdle(q) \/ Touch(q)
  PROVE  AInv'
<1> DEFINE o == requests[q]
           i == o.session
<1>1. /\ UNCHANGED <<clock, admin, offered, tokens, trail, service, forms, consumed, history>>
      /\ o.at \in {"drop", "touch"}
  BY DEF DropIdle, Touch, spent
<1>2. /\ Typed /\ CutOff /\ history \in Histories /\ requests \in [Requests -> AllRequests]
      /\ sessions \in [1 .. MaxSessions -> [live : BOOLEAN, made : Nat, seen : Nat]]
      /\ tokens \in [1 .. MaxTokens -> [live : BOOLEAN, expires : Nat]]
  BY Known DEF Typed
<1>3. /\ i \in 1 .. MaxSessions /\ o \notin Recorders \cup Revealers
      /\ o.at = "touch" => o \in TouchRequests
  <2>1. CASE o.at = "drop"
    BY <1>2, <2>1, Stands, Apart DEF ClosingRequests
  <2>2. CASE o.at = "touch"
    BY <1>2, <2>2, Stands, Apart DEF TouchRequests
  <2> QED BY <1>1, <2>1, <2>2
<1>4. /\ sessions' \in [1 .. MaxSessions -> [live : BOOLEAN, made : Nat, seen : Nat]]
      /\ \A s \in 1 .. MaxSessions : sessions'[s].live => sessions[s].live /\ sessions'[s].seen <= history.active[s]
  <2>1. \A s \in 1 .. MaxSessions : sessions[s].live => sessions[s].seen <= history.active[s]
    BY <1>2 DEF CutOff
  <2>2. CASE sessions' = sessions
    BY <1>2, <2>1, <2>2
  <2>3. CASE sessions' = [sessions EXCEPT ![i] = NoSession]
    BY <1>2, <1>3, <2>1, <2>3 DEF NoSession
  <2>4. CASE o.at = "touch" /\ sessions' = [sessions EXCEPT ![i] = Touched(sessions[i], o.since)]
    <3>1. o.since \in Nat /\ o.since <= history.active[i]
      BY <1>3, <2>4 DEF AInv, Placed, TouchRequests
    <3> DEFINE s2 == Touched(sessions[i], o.since)
    <3>2. /\ s2 \in [live : BOOLEAN, made : Nat, seen : Nat]
          /\ s2.live => sessions[i].live /\ s2.seen <= history.active[i]
      BY <1>2, <1>3, <2>1, <3>1 DEF Touched
    <3> HIDE DEF s2
    <3> QED BY <1>2, <1>3, <2>1, <2>4, <3>2 DEF s2
  <2> QED BY <2>2, <2>3, <2>4 DEF DropIdle, Touch
<1>5. PICK r \in AllRequests :
        /\ requests' = [requests EXCEPT ![q] = r]
        /\ r = Free \/ (r \in SessionRequests /\ r.at \in {"throttle", "act"})
  <2>1. CASE DropIdle(q)
    BY <2>1 DEF DropIdle, AllRequests
  <2>2. CASE Touch(q)
    <3> DEFINE at == Resume(o)
               r == [at |-> at, op |-> o.op, client |-> o.client, session |-> o.session, guess |-> o.guess]
    <3>1. requests' = [requests EXCEPT ![q] = r] /\ o \in TouchRequests
      BY <1>3, <2>2 DEF Touch
    <3>2. at \in {"throttle", "act"}
      BY DEF Resume
    <3> HIDE DEF at
    <3>3. r \in SessionRequests /\ r.at = at
      BY <3>1, <3>2 DEF SessionRequests, TouchRequests
    <3> HIDE DEF r
    <3> QED BY <3>1, <3>2, <3>3 DEF AllRequests
  <2> QED BY <2>1, <2>2
<1>6. Placed(q)'
  <2>1. requests'[q] = r
    BY <1>2, <1>5, Replaced
  <2>2. CASE r = Free
    BY <2>1, <2>2, FreePlaced
  <2>3. CASE r \in SessionRequests /\ r.at \in {"throttle", "act"}
    BY <2>1, <2>3, Apart, WaitingPlaced
  <2> QED BY <1>5, <2>2, <2>3
<1> QED BY <1>1, <1>2, <1>3, <1>4, <1>5, <1>6, EndsStep

\* What is committed is added to the history, and nothing else.
LEMMA RememberFields ==
  ASSUME history \in Histories, NEW c \in Events, history' = Remember(history, c[1], c[2])
  PROVE  /\ history' \in Histories
         /\ history'.served = history.served /\ history'.issued = history.issued
         /\ history'.signedIn = history.signedIn /\ history'.created = history.created
         /\ history'.accepted = history.accepted /\ history'.used = history.used
         /\ history'.active = history.active /\ history'.cut = history.cut
         /\ history'.lost = history.lost /\ history'.committed = history.committed \cup {c}
<1>1. <<c[1], c[2]>> = c
  BY DEF Events
<1>2. history.committed \cup {c} \subseteq Events
  BY DEF Histories
<1> DEFINE k == history.committed \cup {c}
<1>3. history' = [history EXCEPT !.committed = k] /\ k \subseteq Events
  BY <1>1, <1>2 DEF Remember
<1> HIDE DEF k
<1>4. /\ history' \in Histories
      /\ history'.served = history.served /\ history'.issued = history.issued
      /\ history'.signedIn = history.signedIn /\ history'.created = history.created
      /\ history'.accepted = history.accepted /\ history'.used = history.used
      /\ history'.active = history.active /\ history'.cut = history.cut
      /\ history'.lost = history.lost /\ history'.committed = k
  BY <1>3 DEF Histories
<1> QED BY <1>4 DEF k

\* A change whose record follows.
LEMMA ToRecord ==
  ASSUME requests \in [Requests -> AllRequests], NEW q \in Requests, NEW c \in Events,
         NEW at \in {"record", "signin"},
         requests[q].client \in Clients,
         at = "record" => requests[q].op \in {"claim", "login", "reset", "change", "logout", "others", "revoke"},
         at = "signin" => requests[q].op = "claim" /\ c = <<"claim", 1>>,
         c \in history'.committed, Then(q, at, c[1], c[2])
  PROVE  /\ requests' = [requests EXCEPT ![q] = [at |-> at, op |-> requests[q].op, client |-> requests[q].client,
                                                 change |-> c]]
         /\ [at |-> at, op |-> requests[q].op, client |-> requests[q].client, change |-> c] \in Recorders
         /\ requests' \in [Requests -> AllRequests]
         /\ Placed(q)'
<1> DEFINE r == [at |-> at, op |-> requests[q].op, client |-> requests[q].client, change |-> c]
<1>1. <<c[1], c[2]>> = c
  BY DEF Events
<1>2. requests' = [requests EXCEPT ![q] = r]
  BY <1>1 DEF Then
<1>3. r \in Recorders /\ r.change = c /\ r.at = at /\ r.op = requests[q].op
  <2>1. CASE at = "record"
    BY <2>1 DEF Recorders
  <2>2. CASE at = "signin"
    BY <2>2 DEF Recorders
  <2> QED BY <2>1, <2>2
<1> HIDE DEF r
<1>4. r \in AllRequests /\ r \notin FormRequests
  BY <1>3, Apart DEF AllRequests
<1>5. requests'[q] = r /\ requests' \in [Requests -> AllRequests]
  BY <1>2, <1>4, Replaced
<1>6. Placed(q)'
  BY <1>3, <1>4, <1>5 DEF Placed
<1> QED BY <1>2, <1>3, <1>5, <1>6 DEF r

\* An operation of a session that ends sessions or API tokens.
LEMMA FinishStep ==
  ASSUME AInv, NEW q \in Requests, requests[q].at = "act", requests[q].op \in {"logout", "others", "revoke"},
         NEW changes \in SUBSET Events, Finish(q, changes),
         UNCHANGED <<clock, admin, offered, trail, service, forms, consumed>>,
         sessions' \in [1 .. MaxSessions -> [live : BOOLEAN, made : Nat, seen : Nat]],
         tokens' \in [1 .. MaxTokens -> [live : BOOLEAN, expires : Nat]],
         \A s \in 1 .. MaxSessions : sessions'[s].live => sessions[s].live /\ sessions'[s].seen <= history.active[s],
         \A i \in 1 .. MaxTokens : tokens'[i].live => tokens[i].live /\ tokens'[i].expires = tokens[i].expires
  PROVE  AInv'
<1>1. history \in Histories /\ requests \in [Requests -> AllRequests]
  BY Known
<1>2. requests[q] \in SessionRequests /\ requests[q] \notin Recorders \cup Revealers
  BY <1>1, Stands, Apart
<1>3. CASE changes = {}
  <2>1. requests' = [requests EXCEPT ![q] = Free] /\ history' = history /\ Free \in AllRequests
    BY <1>3 DEF Finish, AllRequests
  <2>2. Placed(q)'
    <3>1. requests'[q] = Free
      BY <1>1, <2>1, Replaced
    <3> QED BY <3>1, FreePlaced
  <2> QED BY <1>1, <1>2, <2>1, <2>2, EndsStep
<1>4. CASE changes # {}
  <2>1. PICK c \in changes : Then(q, "record", c[1], c[2]) /\ history' = Remember(history, c[1], c[2])
    BY <1>4 DEF Finish
  <2>2. c \in Events
    OBVIOUS
  <2>3. /\ history' \in Histories
        /\ history'.served = history.served /\ history'.issued = history.issued
        /\ history'.signedIn = history.signedIn /\ history'.created = history.created
        /\ history'.accepted = history.accepted /\ history'.used = history.used
        /\ history'.active = history.active /\ history'.cut = history.cut
        /\ history'.lost = history.lost /\ history'.committed = history.committed \cup {c}
    BY <1>1, <2>1, <2>2, RememberFields
  <2> DEFINE r == [at |-> "record", op |-> requests[q].op, client |-> requests[q].client, change |-> c]
  <2>4. requests' = [requests EXCEPT ![q] = r] /\ r \in Recorders /\ Placed(q)'
    <3>1. requests[q].client \in Clients /\ c \in history'.committed
      BY <1>2, <2>3 DEF SessionRequests
    <3> QED BY <1>1, <2>1, <2>2, <3>1, ToRecord
  <2>5. r.change = c /\ r \in AllRequests
    BY <2>4 DEF AllRequests
  <2> HIDE DEF r
  <2> QED BY <1>2, <2>3, <2>4, <2>5, EndsStep
<1> QED BY <1>3, <1>4

\* Sign-out, of this session or of all others.
LEMMA SignOutStep ==
  ASSUME AInv, NEW q \in Requests, Logout(q) \/ RevokeOthers(q)
  PROVE  AInv'
<1> DEFINE i == requests[q].session
<1>1. /\ requests[q].at = "act" /\ requests[q].op \in {"logout", "others"}
      /\ UNCHANGED <<clock, admin, offered, tokens, trail, service, forms, consumed>>
      /\ Finish(q, {<<"logout", i>>}) \/ Finish(q, {<<"others", i>>})
  BY DEF Logout, RevokeOthers, spent
<1>2. /\ Typed /\ CutOff /\ requests \in [Requests -> AllRequests]
      /\ sessions \in [1 .. MaxSessions -> [live : BOOLEAN, made : Nat, seen : Nat]]
      /\ tokens \in [1 .. MaxTokens -> [live : BOOLEAN, expires : Nat]]
  BY Known DEF Typed
<1>3. i \in 1 .. MaxSessions /\ i \in Nat
  <2>1. requests[q] \in SessionRequests
    BY <1>1, <1>2, Stands
  <2>2. i \in 1 .. MaxSessions
    BY <2>1 DEF SessionRequests
  <2> QED BY <2>2
<1>4. {<<"logout", i>>} \subseteq Events /\ {<<"others", i>>} \subseteq Events
  BY <1>3 DEF Events
<1>5. \A s \in 1 .. MaxSessions : sessions[s].live => sessions[s].seen <= history.active[s]
  BY <1>2 DEF CutOff
<1>6. /\ sessions' \in [1 .. MaxSessions -> [live : BOOLEAN, made : Nat, seen : Nat]]
      /\ \A s \in 1 .. MaxSessions : sessions'[s] = sessions[s] \/ sessions'[s] = NoSession
  <2> HIDE DEF i
  <2>1. CASE sessions' = [sessions EXCEPT ![i] = NoSession]
    BY <1>2, <1>3, <2>1 DEF NoSession
  <2>2. CASE sessions' = [s \in DOMAIN sessions |-> IF s = i THEN sessions[s] ELSE NoSession]
    BY <1>2, <1>3, <2>2 DEF NoSession
  <2> QED BY <2>1, <2>2 DEF Logout, RevokeOthers, i
<1>7. \A s \in 1 .. MaxSessions : sessions'[s].live => sessions[s].live /\ sessions'[s].seen <= history.active[s]
  BY <1>5, <1>6 DEF NoSession
<1>8. \A n \in 1 .. MaxTokens : tokens'[n].live => tokens[n].live /\ tokens'[n].expires = tokens[n].expires
  BY <1>1
<1> HIDE DEF i
<1> QED BY <1>1, <1>2, <1>4, <1>6, <1>7, <1>8, FinishStep

\* An API token that is revoked.
LEMMA RevokeTokenStep ==
  ASSUME AInv, NEW q \in Requests, RevokeToken(q)
  PROVE  AInv'
<1>1. PICK i \in 1 .. history.created :
        /\ tokens' = [tokens EXCEPT ![i].live = FALSE]
        /\ Finish(q, IF tokens[i].live THEN {<<"revoke", i>>} ELSE {})
  BY DEF RevokeToken
<1>2. /\ requests[q].at = "act" /\ requests[q].op = "revoke"
      /\ UNCHANGED <<clock, admin, offered, sessions, trail, service, forms, consumed>>
  BY DEF RevokeToken, spent
<1>3. /\ Typed /\ CutOff /\ history \in Histories
      /\ sessions \in [1 .. MaxSessions -> [live : BOOLEAN, made : Nat, seen : Nat]]
      /\ tokens \in [1 .. MaxTokens -> [live : BOOLEAN, expires : Nat]]
  BY Known DEF Typed
<1>4. i \in 1 .. MaxTokens /\ i \in Nat
  <2>1. history.created \in Nat /\ history.created <= MaxTokens
    BY <1>3, HistoryFields
  <2> QED BY <2>1, Bounds
<1>5. /\ tokens' \in [1 .. MaxTokens -> [live : BOOLEAN, expires : Nat]]
      /\ \A n \in 1 .. MaxTokens : tokens'[n].live => tokens[n].live /\ tokens'[n].expires = tokens[n].expires
  BY <1>1, <1>3, <1>4
<1>6. \A s \in 1 .. MaxSessions : sessions'[s].live => sessions[s].live /\ sessions'[s].seen <= history.active[s]
  BY <1>2, <1>3 DEF CutOff
<1> DEFINE changes == IF tokens[i].live THEN {<<"revoke", i>>} ELSE {}
<1>7. changes \in SUBSET Events /\ Finish(q, changes)
  BY <1>1, <1>4 DEF Events
<1> HIDE DEF changes
<1> QED BY <1>2, <1>3, <1>5, <1>6, <1>7, FinishStep

(***************************************************************************)
(* What is committed.                                                      *)
(***************************************************************************)

\* One request commits: the parts it has to prove itself.
LEMMA CommitStep ==
  ASSUME AInv, NEW q \in Requests, NEW r \in AllRequests, requests' = [requests EXCEPT ![q] = r], Placed(q)',
         UNCHANGED <<clock, trail, service, forms, consumed>>,
         Typed', OffersSpent', CutOff', admin > 0 => admin' > 0,
         history'.served = history.served, history'.accepted = history.accepted, history'.lost = history.lost,
         \A s \in 1 .. MaxSessions : history.active[s] <= history'.active[s],
         history.committed \subseteq history'.committed,
         \A c \in history'.committed \ history.committed : r \in Recorders \cup Revealers /\ r.change = c,
         requests[q] \in Recorders \cup Revealers =>
           \/ requests[q].change \in trail
           \/ r \in Recorders \cup Revealers /\ r.change = requests[q].change
  PROVE  AInv'
<1>1. /\ Typed /\ FormsSpent /\ ChangesOnRecord /\ clock \in Nat /\ Len(forms) \in Nat
  BY Known
<1>2. Grows
  <2>1. Len(forms) <= Len(forms')
    BY <1>1
  <2> QED BY <2>1 DEF Grows
<1>3. \A p \in Requests : Placed(p)'
  BY <1>2, OneMoves
<1>4. FormsSpent'
  <2>1. clock <= clock'
    BY <1>1
  <2> QED BY <1>1, <2>1, FormsKept
<1>5. ChangesOnRecord'
  <2>1. trail \subseteq trail' /\ trail' \subseteq history'.committed \cup {<<"refused", 0>>}
    BY <1>1 DEF ChangesOnRecord
  <2> QED BY <1>1, <2>1, StillOnRecord
<1> QED BY <1>3, <1>4, <1>5 DEF AInv

\* The fields a commit of the password writes.
LEMMA SpentFields ==
  ASSUME history \in Histories, NEW u \in [1 .. MaxIssued -> Nat], NEW cut \in [sessions : Nat, tokens : Nat],
         NEW k \in SUBSET Events, history' = [history EXCEPT !.used = u, !.cut = cut, !.committed = k]
  PROVE  /\ history' \in Histories
         /\ history'.used = u /\ history'.cut = cut /\ history'.committed = k
         /\ history'.served = history.served /\ history'.issued = history.issued
         /\ history'.signedIn = history.signedIn /\ history'.created = history.created
         /\ history'.accepted = history.accepted
         /\ history'.active = history.active /\ history'.lost = history.lost
BY DEF Histories

\* A token that is used was not used before, and is not offered afterwards.
LEMMA OfferUsed ==
  ASSUME Typed, OffersSpent, NEW kind \in {"setup", "reset"}, NEW g \in Nat, Honoured(kind, g),
         kind = "setup" \/ admin > 0, offered' = [offered EXCEPT ![kind] = None],
         history'.used = [history.used EXCEPT ![g] = history.used[g] + 1], history'.issued = history.issued
  PROVE  /\ g \in 1 .. MaxIssued /\ history.used[g] = 0
         /\ offered' \in [{"setup", "reset"} -> [id : Nat, expires : Nat]]
         /\ OffersSpent'
<1>1. /\ offered \in [{"setup", "reset"} -> [id : Nat, expires : Nat]] /\ history \in Histories
  BY DEF Typed
<1>2. history.issued \in Nat /\ history.issued <= MaxIssued /\ history.used \in [1 .. MaxIssued -> Nat]
  BY <1>1, HistoryFields
<1>3. g > 0 /\ offered[kind].id = g /\ g <= history.issued
  BY DEF Honoured, OffersSpent
<1>4. g \in 1 .. MaxIssued
  BY <1>2, <1>3, Bounds
<1>5. history.used[g] = 0
  <2>1. ~ history.used[g] > 0
    BY <1>3, <1>4 DEF OffersSpent
  <2>2. history.used[g] \in Nat
    BY <1>2, <1>4
  <2> QED BY <2>1, <2>2
<1>6. None.id = 0 /\ None \in [id : Nat, expires : Nat]
  BY DEF None
<1>7. /\ offered' \in [{"setup", "reset"} -> [id : Nat, expires : Nat]]
      /\ offered'[kind].id = 0
      /\ \A k \in {"setup", "reset"} \ {kind} : offered'[k] = offered[k]
  BY <1>1, <1>6
<1>8. \A k \in {"setup", "reset"} : offered'[k].id # g /\ offered'[k].id <= history'.issued
  <2> SUFFICES ASSUME NEW k \in {"setup", "reset"} PROVE offered'[k].id # g /\ offered'[k].id <= history'.issued
    OBVIOUS
  <2>1. CASE k = kind
    BY <1>2, <1>3, <1>7, <2>1
  <2>2. CASE k # kind
    <3>1. offered["setup"].id # offered["reset"].id
      BY <1>3 DEF OffersSpent
    <3>2. offered[k].id # offered[kind].id
      BY <2>2, <3>1
    <3> QED BY <1>3, <1>7, <2>2, <3>2 DEF OffersSpent
  <2> QED BY <2>1, <2>2
<1>9. offered'["setup"].id = offered'["reset"].id => offered'["setup"].id = 0
  BY <1>7
<1>10. ASSUME NEW i \in 1 .. MaxIssued, history'.used[i] > 0
       PROVE  /\ history'.used[i] = 1 /\ i <= history'.issued
              /\ \A k \in {"setup", "reset"} : offered'[k].id # i
  <2>1. CASE i = g
    <3>1. history'.used[g] = 1
      <4>1. history'.used[g] = history.used[g] + 1
        BY <1>2, <1>4
      <4> QED BY <4>1, <1>5
    <3> QED BY <1>3, <1>8, <2>1, <3>1
  <2>2. CASE i # g
    <3>1. history'.used[i] = history.used[i]
      BY <1>2, <1>4, <2>2
    <3>2. /\ history.used[i] = 1 /\ i <= history.issued
          /\ \A k \in {"setup", "reset"} : offered[k].id # i
      BY <1>10, <3>1 DEF OffersSpent
    <3>3. \A k \in {"setup", "reset"} : offered'[k].id # i
      BY <1>7, <3>2
    <3> QED BY <3>1, <3>2, <3>3
  <2> QED BY <2>1, <2>2
<1>11. admin' > 0 => offered'["setup"] = None
  <2>1. CASE kind = "setup"
    BY <1>1, <2>1
  <2>2. CASE kind = "reset"
    <3>1. offered["setup"] = None
      BY <2>2 DEF OffersSpent
    <3> QED BY <1>7, <2>2, <3>1
  <2> QED BY <2>1, <2>2
<1> QED BY <1>4, <1>5, <1>7, <1>8, <1>9, <1>10, <1>11 DEF OffersSpent

\* A new password cuts off all sessions and every active API token.
LEMMA PasswordCuts ==
  ASSUME AInv, NewPassword, clock' = clock, history'.cut = [sessions |-> history.signedIn, tokens |-> history.created],
         history'.signedIn = history.signedIn, history'.created = history.created, history'.active = history.active
  PROVE  /\ sessions' \in [1 .. MaxSessions -> [live : BOOLEAN, made : Nat, seen : Nat]]
         /\ tokens' \in [1 .. MaxTokens -> [live : BOOLEAN, expires : Nat]]
         /\ CutOff'
<1>1. /\ sessions \in [1 .. MaxSessions -> [live : BOOLEAN, made : Nat, seen : Nat]]
      /\ tokens \in [1 .. MaxTokens -> [live : BOOLEAN, expires : Nat]]
      /\ clock \in Nat /\ CutOff /\ history.signedIn \in Nat /\ history.created \in Nat
  BY Known DEF Typed
<1>2. \A s \in 1 .. MaxSessions : sessions'[s] = NoSession
  BY <1>1 DEF NewPassword
<1>3. sessions' \in [1 .. MaxSessions -> [live : BOOLEAN, made : Nat, seen : Nat]]
  BY <1>1 DEF NewPassword, NoSession
<1>4. tokens' = [i \in 1 .. MaxTokens |-> IF tokens[i].expires > clock THEN [tokens[i] EXCEPT !.live = FALSE]
                                                                    ELSE tokens[i]]
  BY <1>1 DEF NewPassword, Revoked
<1>5. tokens' \in [1 .. MaxTokens -> [live : BOOLEAN, expires : Nat]]
  BY <1>1, <1>4
<1>6. \A i \in 1 .. MaxTokens : ~(tokens'[i].live /\ tokens'[i].expires > clock')
  <2> SUFFICES ASSUME NEW i \in 1 .. MaxTokens PROVE ~(tokens'[i].live /\ tokens'[i].expires > clock')
    OBVIOUS
  <2>1. tokens[i] \in [live : BOOLEAN, expires : Nat]
    BY <1>1
  <2>2. CASE tokens[i].expires > clock
    <3>1. tokens'[i] = [tokens[i] EXCEPT !.live = FALSE]
      BY <1>4, <2>2
    <3> QED BY <2>1, <3>1
  <2>3. CASE ~ tokens[i].expires > clock
    <3>1. tokens'[i] = tokens[i]
      BY <1>4, <2>3
    <3> QED BY <2>3, <3>1
  <2> QED BY <2>2, <2>3
<1>7. \A s \in 1 .. MaxSessions : ~ sessions'[s].live
  BY <1>2 DEF NoSession
<1>8. history'.cut.sessions <= history'.signedIn /\ history'.cut.tokens <= history'.created
  BY <1>1
<1>9. \A s \in 1 .. MaxSessions : history'.active[s] <= clock'
  BY <1>1 DEF CutOff
<1> QED BY <1>3, <1>5, <1>6, <1>7, <1>8, <1>9 DEF CutOff

\* The installation is claimed.
LEMMA CommitClaimStep ==
  ASSUME AInv, NEW q \in Requests, CommitClaim(q)
  PROVE  AInv'
<1> DEFINE o == requests[q]
           g == o.guess
           c == <<"claim", 1>>
<1>1. /\ o.at = "commit" /\ o.op = "claim"
      /\ UNCHANGED <<clock, sessions, tokens, service, forms, consumed, prunedAt>>
  BY DEF CommitClaim, spent
<1>2. /\ Typed /\ OffersSpent /\ CutOff /\ ChangesOnRecord /\ clock \in Nat /\ admin \in Nat
      /\ history \in Histories /\ requests \in [Requests -> AllRequests]
      /\ history.signedIn \in Nat /\ history.created \in Nat /\ \A s \in 1 .. MaxSessions : history.active[s] \in Nat
  BY Known
<1>3. o \in FormRequests /\ g \in Nat /\ o.client \in Clients /\ o \notin Recorders \cup Revealers
  <2>1. o \in FormRequests \cup SessionRequests
    BY <1>1, <1>2, Stands
  <2>2. o \in FormRequests
    BY <1>1, <2>1 DEF SessionRequests, SessionOperations
  <2> QED BY <2>2, Apart DEF FormRequests
<1>4. CASE ~(Honoured("setup", g) /\ admin = 0)
  <2>1. Refuse(q) /\ UNCHANGED <<admin, offered, history>>
    BY <1>4 DEF CommitClaim
  <2> QED BY <1>1, <2>1, RefuseStep DEF spent
<1>5. CASE Honoured("setup", g) /\ admin = 0
  <2> DEFINE n == history.used[g] + 1
             u == [history.used EXCEPT ![g] = n]
             k == history.committed \cup {c}
  <2>1. /\ admin' = 1 /\ offered' = [offered EXCEPT !["setup"] = None] /\ Then(q, "signin", c[1], c[2])
        /\ history' = Remember([history EXCEPT !.used[g] = @ + 1], "claim", 1) /\ trail' = trail
    BY <1>5 DEF CommitClaim
  <2>2. g > 0 /\ offered["setup"].id = g
    BY <1>5 DEF Honoured
  <2>3. history.used \in [1 .. MaxIssued -> Nat] /\ history.issued \in Nat /\ history.issued <= MaxIssued
    BY <1>2, HistoryFields
  <2>4. g \in 1 .. MaxIssued
    BY <1>2, <1>3, <2>2, <2>3, Bounds DEF OffersSpent
  <2>5. history.used[g] \in Nat /\ n \in Nat
    <3>1. history.used[g] \in Nat
      BY <2>3, <2>4
    <3> HIDE DEF g
    <3> QED BY <3>1
  <2>6. u \in [1 .. MaxIssued -> Nat]
    <3> HIDE DEF n
    <3> QED BY <2>3, <2>4, <2>5
  <2>7. c \in Events /\ k \in SUBSET Events /\ history.cut \in [sessions : Nat, tokens : Nat]
    BY <1>2 DEF Events, Histories
  <2>8. history' = [history EXCEPT !.used = u, !.cut = history.cut, !.committed = k]
    BY <1>2, <2>1 DEF Histories, Remember
  <2>9. /\ history' \in Histories
        /\ history'.used = u /\ history'.cut = history.cut /\ history'.committed = k
        /\ history'.served = history.served /\ history'.issued = history.issued
        /\ history'.signedIn = history.signedIn /\ history'.created = history.created
        /\ history'.accepted = history.accepted
        /\ history'.active = history.active /\ history'.lost = history.lost
    <3> HIDE DEF u, k
    <3> QED BY <1>2, <2>6, <2>7, <2>8, SpentFields
  <2>10. offered' \in [{"setup", "reset"} -> [id : Nat, expires : Nat]] /\ OffersSpent'
    BY <1>2, <1>3, <1>5, <2>1, <2>9, OfferUsed
  <2> DEFINE r == [at |-> "signin", op |-> o.op, client |-> o.client, change |-> c]
  <2>11. requests' = [requests EXCEPT ![q] = r] /\ r \in Recorders /\ requests' \in [Requests -> AllRequests]
         /\ Placed(q)'
    <3>1. c \in history'.committed
      BY <2>9
    <3> HIDE DEF c
    <3>2. c = <<"claim", 1>>
      BY DEF c
    <3> QED BY <1>1, <1>2, <1>3, <2>1, <2>7, <3>1, <3>2, ToRecord
  <2>12. r.change = c /\ r \in AllRequests
    BY <2>11 DEF AllRequests
  <2> HIDE DEF r, c, u, n
  <2>13. Typed'
    BY <1>1, <1>2, <2>1, <2>9, <2>10, <2>11 DEF Typed
  <2>14. clock <= clock' /\ history.signedIn <= history'.signedIn /\ history.created <= history'.created
         /\ \A s \in 1 .. MaxSessions : history.active[s] <= history'.active[s]
    <3>1. clock <= clock'
      BY <1>1, <1>2
    <3>2. history.signedIn <= history'.signedIn /\ history.created <= history'.created
      BY <1>2, <2>9
    <3>3. \A s \in 1 .. MaxSessions : history.active[s] <= history'.active[s]
      BY <1>2, <2>9
    <3> QED BY <3>1, <3>2, <3>3
  <2>15. CutOff'
    BY <1>1, <1>2, <2>9, <2>13, <2>14, CutKept
  <2>16. admin > 0 => admin' > 0
    BY <2>1
  <2> QED BY <1>1, <1>3, <2>1, <2>9, <2>10, <2>11, <2>12, <2>13, <2>14, <2>15, <2>16, CommitStep
<1> QED BY <1>4, <1>5

\* A new password, set with a reset token or by its owner.
LEMMA PasswordStep ==
  ASSUME AInv, NEW q \in Requests, NEW event \in {"reset", "change"}, requests[q].op = event,
         requests[q].client \in Clients, requests[q] \notin Recorders \cup Revealers, admin > 0,
         NEW u \in [1 .. MaxIssued -> Nat],
         history' = Remember(Cut([history EXCEPT !.used = u]), event, admin + 1),
         offered' \in [{"setup", "reset"} -> [id : Nat, expires : Nat]],
         history'.used = u /\ history'.issued = history.issued => OffersSpent',
         NewPassword, Then(q, "record", event, admin + 1),
         UNCHANGED <<clock, trail, service, forms, consumed>>
  PROVE  AInv'
<1> DEFINE n == admin + 1
           c == <<event, n>>
           k == history.committed \cup {c}
           cut == [sessions |-> history.signedIn, tokens |-> history.created]
<1>1. /\ Typed /\ OffersSpent /\ CutOff /\ clock \in Nat /\ admin \in Nat
      /\ history \in Histories /\ requests \in [Requests -> AllRequests]
      /\ history.signedIn \in Nat /\ history.created \in Nat /\ \A s \in 1 .. MaxSessions : history.active[s] \in Nat
  BY Known
<1>2. n \in Nat /\ n > 0 /\ admin' = n
  BY <1>1 DEF NewPassword
<1>3. Then(q, "record", event, n) /\ history' = Remember(Cut([history EXCEPT !.used = u]), event, n)
  OBVIOUS
<1> HIDE DEF n
<1>4. c \in Events /\ c[1] = event /\ c[2] = n
  BY <1>2 DEF Events
<1>5. k \in SUBSET Events /\ cut \in [sessions : Nat, tokens : Nat]
  BY <1>1, <1>4 DEF Histories
<1>6. history' = [history EXCEPT !.used = u, !.cut = cut, !.committed = k]
  <2> DEFINE used == [history EXCEPT !.used = u]
             since == [used EXCEPT !.cut = cut]
  <2>1. used.signedIn = history.signedIn /\ used.created = history.created
    BY <1>1 DEF Histories
  <2>2. Cut(used) = since
    BY <2>1 DEF Cut
  <2>3. since.committed = history.committed
    BY <1>1 DEF Histories
  <2>4. history' = [since EXCEPT !.committed = @ \cup {c}]
    BY <1>3, <2>2 DEF Remember
  <2> HIDE DEF cut
  <2>5. history' = [since EXCEPT !.committed = k]
    BY <1>1, <2>3, <2>4 DEF Histories
  <2> HIDE DEF k
  <2> QED BY <1>1, <2>5 DEF Histories
<1> HIDE DEF k, cut
<1>7. /\ history' \in Histories
      /\ history'.used = u /\ history'.cut = cut /\ history'.committed = k
      /\ history'.served = history.served /\ history'.issued = history.issued
      /\ history'.signedIn = history.signedIn /\ history'.created = history.created
      /\ history'.accepted = history.accepted
      /\ history'.active = history.active /\ history'.lost = history.lost
  <2>1. /\ history \in Histories /\ u \in [1 .. MaxIssued -> Nat] /\ cut \in [sessions : Nat, tokens : Nat]
        /\ k \in SUBSET Events /\ history' = [history EXCEPT !.used = u, !.cut = cut, !.committed = k]
    BY <1>1, <1>5, <1>6
  <2> QED BY <2>1 DEF Histories
<1>8. /\ sessions' \in [1 .. MaxSessions -> [live : BOOLEAN, made : Nat, seen : Nat]]
      /\ tokens' \in [1 .. MaxTokens -> [live : BOOLEAN, expires : Nat]]
      /\ CutOff'
  BY <1>7, PasswordCuts DEF cut
<1> DEFINE r == [at |-> "record", op |-> requests[q].op, client |-> requests[q].client, change |-> c]
<1> HIDE DEF c
<1>9. requests' = [requests EXCEPT ![q] = r] /\ r \in Recorders /\ requests' \in [Requests -> AllRequests]
      /\ Placed(q)'
  <2>1. c \in history'.committed
    BY <1>7 DEF k
  <2>2. Then(q, "record", c[1], c[2])
    BY <1>3, <1>4
  <2> QED BY <1>1, <1>4, <2>1, <2>2, ToRecord
<1>10. r.change = c /\ r \in AllRequests
  BY <1>9 DEF AllRequests
<1> HIDE DEF r
<1>11. Typed'
  BY <1>1, <1>2, <1>7, <1>8, <1>9 DEF Typed
<1>12. \A s \in 1 .. MaxSessions : history.active[s] <= history'.active[s]
  BY <1>1, <1>7
<1>13. history.committed \subseteq history'.committed /\ \A x \in history'.committed \ history.committed : x = c
  BY <1>7 DEF k
<1> QED BY <1>2, <1>7, <1>8, <1>9, <1>10, <1>11, <1>12, <1>13, CommitStep

\* A password reset: its token is looked at again in the transaction.
LEMMA CommitResetStep ==
  ASSUME AInv, NEW q \in Requests, CommitReset(q)
  PROVE  AInv'
<1> DEFINE o == requests[q]
           g == o.guess
<1>1. o.at = "commit" /\ o.op = "reset" /\ UNCHANGED <<clock, service, forms, consumed, prunedAt>>
  BY DEF CommitReset, spent
<1>2. /\ Typed /\ OffersSpent /\ admin \in Nat
      /\ history \in Histories /\ requests \in [Requests -> AllRequests]
  BY Known
<1>3. o \in FormRequests /\ g \in Nat /\ o.client \in Clients /\ o \notin Recorders \cup Revealers
  <2>1. o \in FormRequests \cup SessionRequests
    BY <1>1, <1>2, Stands
  <2>2. o \in FormRequests
    BY <1>1, <2>1 DEF SessionRequests, SessionOperations
  <2> QED BY <2>2, Apart DEF FormRequests
<1>4. CASE ~(Honoured("reset", g) /\ admin > 0)
  <2>1. Refuse(q) /\ UNCHANGED <<admin, offered, sessions, tokens, history>>
    BY <1>4 DEF CommitReset, StillHonoured
  <2> QED BY <1>1, <2>1, RefuseStep DEF spent
<1>5. CASE Honoured("reset", g) /\ admin > 0
  <2> DEFINE n == history.used[g] + 1
             u == [history.used EXCEPT ![g] = n]
  <2>1. /\ NewPassword /\ Then(q, "record", "reset", admin + 1) /\ trail' = trail
        /\ history' = Remember(Cut([history EXCEPT !.used[g] = @ + 1]), "reset", admin + 1)
    BY <1>5 DEF CommitReset, StillHonoured
  <2>2. g > 0 /\ offered["reset"].id = g
    BY <1>5 DEF Honoured
  <2>3. history.used \in [1 .. MaxIssued -> Nat] /\ history.issued \in Nat /\ history.issued <= MaxIssued
    BY <1>2, HistoryFields
  <2>4. g \in 1 .. MaxIssued
    BY <1>2, <1>3, <2>2, <2>3, Bounds DEF OffersSpent
  <2>5. history.used[g] \in Nat /\ n \in Nat
    <3>1. history.used[g] \in Nat
      BY <2>3, <2>4
    <3> HIDE DEF g
    <3> QED BY <3>1
  <2>6. u \in [1 .. MaxIssued -> Nat]
    <3> HIDE DEF n
    <3> QED BY <2>3, <2>4, <2>5
  <2>7. history' = Remember(Cut([history EXCEPT !.used = u]), "reset", admin + 1)
    <3>1. [history EXCEPT !.used[g] = @ + 1] = [history EXCEPT !.used = u]
      BY <1>2 DEF Histories
    <3> QED BY <2>1, <3>1
  <2>8. offered' = [offered EXCEPT !["reset"] = None]
    BY <2>1 DEF NewPassword
  <2>9. offered' \in [{"setup", "reset"} -> [id : Nat, expires : Nat]]
    BY <1>2, <2>8 DEF Typed, None
  <2>10. history'.used = u /\ history'.issued = history.issued => OffersSpent'
    BY <1>2, <1>3, <1>5, <2>8, OfferUsed
  <2> HIDE DEF u
  <2> QED BY <1>1, <1>3, <1>5, <2>1, <2>6, <2>7, <2>9, <2>10, PasswordStep
<1> QED BY <1>4, <1>5

\* A password change by its owner: the check came before the transaction.
LEMMA CommitChangeStep ==
  ASSUME AInv, NEW q \in Requests, CommitChange(q)
  PROVE  AInv'
<1> DEFINE o == requests[q]
           u == history.used
<1>1. /\ o.at = "commit" /\ o.op = "change" /\ UNCHANGED <<clock, trail, service, forms, consumed>>
      /\ NewPassword /\ Then(q, "record", "change", admin + 1)
      /\ history' = Remember(Cut(history), "change", admin + 1)
  BY DEF CommitChange, spent
<1>2. /\ Typed /\ OffersSpent /\ admin \in Nat
      /\ history \in Histories /\ requests \in [Requests -> AllRequests]
  BY Known
<1>3. o.client \in Clients /\ o \notin Recorders \cup Revealers
  <2>1. o \in FormRequests \cup SessionRequests
    BY <1>1, <1>2, Stands
  <2> QED BY <2>1, Apart DEF FormRequests, SessionRequests
<1>4. admin > 0
  BY <1>1 DEF AInv, Placed
<1>5. u \in [1 .. MaxIssued -> Nat] /\ history = [history EXCEPT !.used = u]
  BY <1>2 DEF Histories
<1>6. history' = Remember(Cut([history EXCEPT !.used = u]), "change", admin + 1)
  BY <1>1, <1>5
<1>7. offered' = [offered EXCEPT !["reset"] = None]
  BY <1>1 DEF NewPassword
<1>8. /\ offered \in [{"setup", "reset"} -> [id : Nat, expires : Nat]]
      /\ offered' \in [{"setup", "reset"} -> [id : Nat, expires : Nat]]
      /\ offered'["reset"] = None /\ offered'["setup"] = offered["setup"]
  BY <1>2, <1>7 DEF Typed, None
<1>9. history'.used = u /\ history'.issued = history.issued => OffersSpent'
  <2> SUFFICES ASSUME history'.used = u, history'.issued = history.issued PROVE OffersSpent'
    OBVIOUS
  <2>1. history.issued \in Nat /\ None.id = 0
    BY <1>2, HistoryFields DEF None
  <2>2. offered["setup"] = None
    BY <1>2, <1>4 DEF OffersSpent
  <2>3. \A k \in {"setup", "reset"} : offered'[k] = None
    BY <1>8, <2>2
  <2>4. \A i \in 1 .. MaxIssued : history'.used[i] > 0 => history'.used[i] = 1 /\ i <= history'.issued /\ i # 0
    BY <1>2 DEF OffersSpent
  <2> QED BY <2>1, <2>3, <2>4 DEF OffersSpent
<1> HIDE DEF u
<1> QED BY <1>1, <1>3, <1>4, <1>5, <1>6, <1>8, <1>9, PasswordStep

\* A new API token comes after everything that was cut off.
LEMMA CommitTokenStep ==
  ASSUME AInv, NEW q \in Requests, CommitToken(q)
  PROVE  AInv'
<1> DEFINE o == requests[q]
           i == history.created + 1
           e == clock + TokenLife
           c == <<"create", i>>
           k == history.committed \cup {c}
           r == [at |-> "record", op |-> "create", client |-> o.client, session |-> o.session, change |-> c]
<1>1. /\ o.at = "commit" /\ o.op = "create" /\ history.created < MaxTokens
      /\ UNCHANGED <<clock, admin, offered, sessions, trail, service, forms, consumed>>
  BY DEF CommitToken, spent
<1>2. /\ Typed /\ OffersSpent /\ CutOff /\ clock \in Nat
      /\ history \in Histories /\ requests \in [Requests -> AllRequests]
      /\ history.signedIn \in Nat /\ history.created \in Nat /\ \A s \in 1 .. MaxSessions : history.active[s] \in Nat
      /\ tokens \in [1 .. MaxTokens -> [live : BOOLEAN, expires : Nat]]
  BY Known DEF Typed
<1>3. o.client \in Clients /\ o.session \in 1 .. MaxSessions /\ o \notin Recorders \cup Revealers
  <2>1. o \in FormRequests \cup SessionRequests
    BY <1>1, <1>2, Stands
  <2>2. o \in SessionRequests
    BY <1>1, <2>1 DEF FormRequests, FormOperations
  <2> QED BY <2>2, Apart DEF SessionRequests
<1>4. CASE ~RoomForToken
  <2>1. requests' = [requests EXCEPT ![q] = Free] /\ UNCHANGED <<tokens, history>>
    BY <1>4 DEF CommitToken
  <2>2. Quiet
    BY <1>1, <2>1 DEF Quiet
  <2> QED BY <1>3, <2>1, <2>2, Answered
<1>5. CASE RoomForToken
  <2>1. /\ tokens' = [tokens EXCEPT ![i] = [live |-> TRUE, expires |-> e]]
        /\ requests' = [requests EXCEPT ![q] = r]
        /\ history' = Remember([history EXCEPT !.created = i], "create", i)
    BY <1>5 DEF CommitToken
  <2>2. i \in Nat /\ i > history.created /\ i \in 1 .. MaxTokens /\ i \in 0 .. MaxTokens /\ e \in Nat
    BY <1>1, <1>2, Bounds
  <2> HIDE DEF i, e
  <2>3. c \in Events /\ k \in SUBSET Events
    BY <1>2, <2>2 DEF Events, Histories
  <2>4. history' = [history EXCEPT !.created = i, !.committed = k]
    BY <1>2, <2>1 DEF Histories, Remember
  <2> HIDE DEF k
  <2>5. /\ history' \in Histories
        /\ history'.created = i /\ history'.committed = k
        /\ history'.served = history.served /\ history'.issued = history.issued
        /\ history'.signedIn = history.signedIn
        /\ history'.accepted = history.accepted /\ history'.used = history.used
        /\ history'.active = history.active /\ history'.cut = history.cut /\ history'.lost = history.lost
    BY <1>2, <2>2, <2>3, <2>4 DEF Histories
  <2> HIDE DEF c
  <2>6. r \in Revealers /\ r.change = c /\ r.at = "record"
    BY <1>3, <2>3 DEF Revealers
  <2> HIDE DEF r
  <2>7. r \in AllRequests /\ r \notin FormRequests
    BY <2>6, Apart DEF AllRequests
  <2>8. requests'[q] = r /\ requests' \in [Requests -> AllRequests]
    BY <1>2, <2>1, <2>7, Replaced
  <2>9. Placed(q)'
    <3>1. r.change \in history'.committed
      BY <2>5, <2>6 DEF k
    <3> QED BY <2>6, <2>7, <2>8, <3>1 DEF Placed
  <2>10. /\ tokens' \in [1 .. MaxTokens -> [live : BOOLEAN, expires : Nat]]
         /\ \A x \in 1 .. MaxTokens \ {i} : tokens'[x] = tokens[x]
    BY <1>2, <2>1, <2>2
  <2>11. Typed'
    BY <1>1, <1>2, <2>5, <2>8, <2>10 DEF Typed
  <2>12. OffersSpent'
    BY <1>1, <1>2, <2>5, OffersKept
  <2>13. CutOff'
    <3>1. history.cut.sessions \in Nat /\ history.cut.tokens \in Nat
      BY <1>2, HistoryFields
    <3>2. /\ history.cut.sessions <= history.signedIn /\ history.cut.tokens <= history.created
          /\ \A s \in 1 .. MaxSessions : history.active[s] <= clock
          /\ \A s \in 1 .. MaxSessions : sessions[s].live => /\ s > history.cut.sessions
                                                           /\ sessions[s].seen <= history.active[s]
          /\ \A x \in 1 .. MaxTokens : tokens[x].live /\ tokens[x].expires > clock => x > history.cut.tokens
      BY <1>2 DEF CutOff
    <3>3. history.cut.tokens <= i /\ i > history.cut.tokens
      BY <1>2, <2>2, <3>1, <3>2
    <3>4. \A x \in 1 .. MaxTokens : tokens'[x].live /\ tokens'[x].expires > clock' => x > history.cut.tokens
      BY <1>1, <2>10, <3>2, <3>3
    <3> QED BY <1>1, <2>5, <3>2, <3>3, <3>4 DEF CutOff
  <2>14. /\ \A s \in 1 .. MaxSessions : history.active[s] <= history'.active[s]
         /\ history.committed \subseteq history'.committed
         /\ \A x \in history'.committed \ history.committed : x = c
    BY <1>2, <2>5 DEF k
  <2>15. admin > 0 => admin' > 0
    BY <1>1
  <2> QED BY <1>1, <1>3, <2>1, <2>5, <2>6, <2>7, <2>9, <2>11, <2>12, <2>13, <2>14, <2>15, CommitStep
<1> QED BY <1>4, <1>5

\* What a sign-in adds to the history.
LEMMA SignedInFields ==
  ASSUME history \in Histories, NEW i \in 1 .. MaxSessions, NEW t \in Nat, NEW k \in SUBSET Events,
         history' = [history EXCEPT !.signedIn = i, !.active = [history.active EXCEPT ![i] = t], !.committed = k]
  PROVE  /\ history' \in Histories
         /\ history'.signedIn = i /\ history'.active = [history.active EXCEPT ![i] = t] /\ history'.committed = k
         /\ history'.served = history.served /\ history'.issued = history.issued
         /\ history'.created = history.created
         /\ history'.accepted = history.accepted /\ history'.used = history.used
         /\ history'.cut = history.cut /\ history'.lost = history.lost
<1> DEFINE a == [history.active EXCEPT ![i] = t]
<1>1. history.active \in [1 .. MaxSessions -> Nat]
  BY HistoryFields
<1>2. a \in [1 .. MaxSessions -> Nat] /\ i \in 0 .. MaxSessions
  BY <1>1
<1>3. history' = [history EXCEPT !.signedIn = i, !.active = a, !.committed = k]
  OBVIOUS
<1> HIDE DEF a
<1>4. /\ history' \in Histories
      /\ history'.signedIn = i /\ history'.active = a /\ history'.committed = k
      /\ history'.served = history.served /\ history'.issued = history.issued
      /\ history'.created = history.created
      /\ history'.accepted = history.accepted /\ history'.used = history.used
      /\ history'.cut = history.cut /\ history'.lost = history.lost
  BY <1>2, <1>3 DEF Histories
<1> QED BY <1>4 DEF a

\* A session begins after everything that was cut off.
LEMMA SignInStep ==
  ASSUME AInv, NEW q \in Requests, SignIn(q)
  PROVE  AInv'
<1> DEFINE o == requests[q]
           i == history.signedIn + 1
           made == [live |-> TRUE, made |-> clock, seen |-> clock]
           h == [history EXCEPT !.signedIn = i, !.active[i] = clock]
<1>1. /\ o.at = "signin" /\ history.signedIn < MaxSessions
      /\ UNCHANGED <<clock, admin, offered, tokens, trail, service, forms, consumed>>
      /\ sessions' = [sessions EXCEPT ![i] = made]
  BY DEF SignIn, spent
<1>2. /\ Typed /\ OffersSpent /\ CutOff /\ clock \in Nat
      /\ history \in Histories /\ requests \in [Requests -> AllRequests]
      /\ history.signedIn \in Nat /\ history.created \in Nat /\ \A s \in 1 .. MaxSessions : history.active[s] \in Nat
      /\ sessions \in [1 .. MaxSessions -> [live : BOOLEAN, made : Nat, seen : Nat]]
  BY Known DEF Typed
<1>3. \/ o \in FormRequests /\ o.op = "login"
      \/ o \in Recorders /\ o.op \in {"claim", "change"}
  BY <1>1, <1>2, Stands
<1>4. /\ o.op = "login" => Then(q, "record", "login", i) /\ history' = Remember(h, "login", i)
      /\ o.op = "claim" => Then(q, "record", "claim", 1) /\ history' = h
      /\ o.op = "change" => requests' = [requests EXCEPT ![q] = Free] /\ history' = h
  BY DEF SignIn
<1>5. h = [history EXCEPT !.signedIn = i, !.active = [history.active EXCEPT ![i] = clock],
                          !.committed = history.committed]
  BY <1>2 DEF Histories
<1>6. i \in Nat /\ i > history.signedIn /\ i \in 1 .. MaxSessions
  BY <1>1, <1>2, Bounds
<1> DEFINE k == IF o.op = "login" THEN history.committed \cup {<<"login", i>>} ELSE history.committed
<1>7. history' = [history EXCEPT !.signedIn = i, !.active = [history.active EXCEPT ![i] = clock], !.committed = k]
  <2>1. CASE o.op = "login"
    <3>1. history' = [h EXCEPT !.committed = @ \cup {<<"login", i>>}]
      BY <1>4, <2>1 DEF Remember
    <3> HIDE DEF i
    <3> QED BY <1>2, <1>5, <2>1, <3>1 DEF Histories
  <2>2. CASE o.op # "login"
    <3>1. history' = h
      BY <1>3, <1>4, <2>2
    <3> HIDE DEF h, i
    <3> QED BY <1>5, <2>2, <3>1
  <2> QED BY <2>1, <2>2
<1> HIDE DEF i, h
<1>8. k \in SUBSET Events
  BY <1>2, <1>6 DEF Histories, Events
<1>9. /\ history' \in Histories
      /\ history'.signedIn = i /\ history'.active = [history.active EXCEPT ![i] = clock] /\ history'.committed = k
      /\ history'.served = history.served /\ history'.issued = history.issued
      /\ history'.created = history.created
      /\ history'.accepted = history.accepted /\ history'.used = history.used
      /\ history'.cut = history.cut /\ history'.lost = history.lost
  <2> HIDE DEF k
  <2> QED BY <1>2, <1>6, <1>7, <1>8, SignedInFields
<1>10. /\ history.committed \subseteq history'.committed
       /\ \A c \in history'.committed \ history.committed : o.op = "login" /\ c = <<"login", i>>
       /\ o.op = "login" => <<"login", i>> \in history'.committed
  BY <1>9
<1> HIDE DEF k
<1>11. PICK r \in AllRequests :
         /\ requests' = [requests EXCEPT ![q] = r] /\ Placed(q)'
         /\ o.op = "login" => r \in Recorders /\ r.change = <<"login", i>>
         /\ o \in Recorders \cup Revealers => \/ o.change \in trail
                                              \/ r \in Recorders \cup Revealers /\ r.change = o.change
  <2>1. CASE o \in FormRequests /\ o.op = "login"
    <3> DEFINE c == <<"login", i>>
    <3>1. c \in Events /\ c[1] = "login" /\ c[2] = i /\ c \in history'.committed
      BY <1>6, <1>10, <2>1 DEF Events
    <3>2. o.client \in Clients /\ o \notin Recorders \cup Revealers
      BY <2>1, Apart DEF FormRequests
    <3>3. Then(q, "record", c[1], c[2])
      BY <1>4, <2>1, <3>1
    <3> DEFINE r == [at |-> "record", op |-> o.op, client |-> o.client, change |-> c]
    <3>a. r.change = c
      OBVIOUS
    <3> HIDE DEF c
    <3>4. requests' = [requests EXCEPT ![q] = r] /\ r \in Recorders /\ Placed(q)'
      BY <1>2, <2>1, <3>1, <3>2, <3>3, ToRecord
    <3> HIDE DEF r
    <3>5. r \in AllRequests
      BY <3>4 DEF AllRequests
    <3> QED BY <3>a, <3>2, <3>4, <3>5 DEF c
  <2>2. CASE o \in Recorders /\ o.op = "claim"
    <3> DEFINE c == <<"claim", 1>>
    <3>1. c \in Events /\ c[1] = "claim" /\ c[2] = 1
      BY DEF Events
    <3>2. o.client \in Clients
      BY <2>2 DEF Recorders
    <3>3. Then(q, "record", c[1], c[2])
      BY <1>4, <2>2, <3>1
    <3>4. o.change = c /\ c \in history.committed
      BY <1>1, <2>2 DEF AInv, Placed
    <3>5. c \in history'.committed
      BY <1>10, <3>4
    <3> DEFINE r == [at |-> "record", op |-> o.op, client |-> o.client, change |-> c]
    <3>a. r.change = c
      OBVIOUS
    <3> HIDE DEF c
    <3>6. requests' = [requests EXCEPT ![q] = r] /\ r \in Recorders /\ Placed(q)'
      BY <1>2, <2>2, <3>1, <3>2, <3>3, <3>5, ToRecord
    <3> HIDE DEF r
    <3>7. r \in AllRequests
      BY <3>6 DEF AllRequests
    <3> QED BY <2>2, <3>a, <3>4, <3>6, <3>7
  <2>3. CASE o \in Recorders /\ o.op = "change"
    <3>1. requests' = [requests EXCEPT ![q] = Free] /\ Free \in AllRequests
      BY <1>4, <2>3 DEF AllRequests
    <3>2. requests'[q] = Free
      BY <1>2, <3>1, Replaced
    <3>3. Placed(q)'
      BY <3>2, FreePlaced
    <3>4. o.change \in trail
      BY <1>1, <2>3 DEF AInv, Placed
    <3> QED BY <2>3, <3>1, <3>3, <3>4
  <2> QED BY <1>3, <2>1, <2>2, <2>3
<1>12. requests' \in [Requests -> AllRequests]
  BY <1>2, <1>11, Replaced
<1>13. /\ made \in [live : BOOLEAN, made : Nat, seen : Nat] /\ made.seen = clock
       /\ sessions' \in [1 .. MaxSessions -> [live : BOOLEAN, made : Nat, seen : Nat]]
       /\ sessions'[i] = made /\ \A s \in 1 .. MaxSessions \ {i} : sessions'[s] = sessions[s]
  BY <1>1, <1>2, <1>6
<1>14. Typed'
  BY <1>1, <1>2, <1>9, <1>12, <1>13 DEF Typed
<1>15. /\ history'.active[i] = clock
       /\ \A s \in 1 .. MaxSessions \ {i} : history'.active[s] = history.active[s]
  <2>1. history.active \in [1 .. MaxSessions -> Nat]
    BY <1>2, HistoryFields
  <2> QED BY <1>6, <1>9, <2>1
<1>16. \A s \in 1 .. MaxSessions : history.active[s] <= clock
  BY <1>2 DEF CutOff
<1>17. \A s \in 1 .. MaxSessions : history.active[s] <= history'.active[s]
  <2> SUFFICES ASSUME NEW s \in 1 .. MaxSessions PROVE history.active[s] <= history'.active[s]
    OBVIOUS
  <2>1. CASE s = i
    BY <1>15, <1>16, <2>1
  <2>2. CASE s # i
    BY <1>2, <1>15, <2>2
  <2> QED BY <2>1, <2>2
<1>18. OffersSpent'
  BY <1>1, <1>2, <1>9, OffersKept
<1>19. CutOff'
  <2>1. history.cut.sessions \in Nat /\ history.cut.tokens \in Nat
    BY <1>2, HistoryFields
  <2>2. /\ history.cut.sessions <= history.signedIn /\ history.cut.tokens <= history.created
        /\ \A s \in 1 .. MaxSessions : sessions[s].live => /\ s > history.cut.sessions
                                                         /\ sessions[s].seen <= history.active[s]
        /\ \A x \in 1 .. MaxTokens : tokens[x].live /\ tokens[x].expires > clock => x > history.cut.tokens
    BY <1>2 DEF CutOff
  <2>3. history.cut.sessions <= i /\ i > history.cut.sessions
    BY <1>2, <1>6, <2>1, <2>2
  <2>4. \A s \in 1 .. MaxSessions : history'.active[s] <= clock'
    <3> SUFFICES ASSUME NEW s \in 1 .. MaxSessions PROVE history'.active[s] <= clock
      BY <1>1
    <3>1. CASE s = i
      BY <1>2, <1>15, <3>1
    <3>2. CASE s # i
      BY <1>15, <1>16, <3>2
    <3> QED BY <3>1, <3>2
  <2>5. \A s \in 1 .. MaxSessions : sessions'[s].live => /\ s > history.cut.sessions
                                                       /\ sessions'[s].seen <= history'.active[s]
    <3> SUFFICES ASSUME NEW s \in 1 .. MaxSessions, sessions'[s].live
                 PROVE  s > history.cut.sessions /\ sessions'[s].seen <= history'.active[s]
      OBVIOUS
    <3>1. CASE s = i
      BY <1>2, <1>13, <1>15, <2>3, <3>1
    <3>2. CASE s # i
      BY <1>13, <1>15, <2>2, <3>2
    <3> QED BY <3>1, <3>2
  <2> QED BY <1>1, <1>9, <2>2, <2>3, <2>4, <2>5 DEF CutOff
<1>20. admin > 0 => admin' > 0
  BY <1>1
<1> QED BY <1>1, <1>9, <1>10, <1>11, <1>14, <1>17, <1>18, <1>19, <1>20, CommitStep

(***************************************************************************)
(* The invariant holds.                                                    *)
(***************************************************************************)

\* At first nobody asks for anything and nothing was used.
LEMMA InitAInv == Init => AInv
<1> SUFFICES ASSUME Init PROVE AInv
  OBVIOUS
<1> USE Bounds
<1>1. /\ clock = 0 /\ admin \in {0, 1} /\ service = 0 /\ forms = <<>> /\ consumed = {} /\ trail = {}
      /\ offered = [k \in {"setup", "reset"} |-> None]
      /\ sessions = [i \in 1 .. MaxSessions |-> [NoSession EXCEPT !.live = i <= admin]]
      /\ tokens = [i \in 1 .. MaxTokens |-> NoToken]
      /\ requests = [q \in Requests |-> Free]
  BY DEF Init
<1>2. history = [served |-> 0, asked |-> 0, issued |-> 0, signedIn |-> admin, created |-> 0,
                 accepted |-> [f \in 1 .. MaxForms |-> 0], used |-> [i \in 1 .. MaxIssued |-> 0],
                 active |-> [i \in 1 .. MaxSessions |-> 0],
                 cut |-> [sessions |-> 0, tokens |-> 0], committed |-> {}, lost |-> {}]
  BY DEF Init
<1>3. /\ history.served = 0 /\ history.issued = 0 /\ history.committed = {} /\ history.lost = {}
      /\ history.accepted = [f \in 1 .. MaxForms |-> 0] /\ history.used = [i \in 1 .. MaxIssued |-> 0]
      /\ history.active = [i \in 1 .. MaxSessions |-> 0] /\ history.cut = [sessions |-> 0, tokens |-> 0]
      /\ history.signedIn = admin /\ history.created = 0
  BY <1>2
<1>4. history \in Histories
  <2>1. admin \in 0 .. MaxSessions
    <3>1. MaxSessions \in Nat \ {0}
      BY AccessAssumption
    <3>2. MaxSessions >= 1
      BY <3>1
    <3>3. admin = 0 \/ admin = 1
      BY <1>1
    <3> QED BY <3>1, <3>2, <3>3
  <2>2. 0 \in 0 .. MaxIssued /\ 0 \in 0 .. MaxTokens
    OBVIOUS
  <2>3. /\ [f \in 1 .. MaxForms |-> 0] \in [1 .. MaxForms -> Nat]
        /\ [i \in 1 .. MaxIssued |-> 0] \in [1 .. MaxIssued -> Nat]
        /\ [i \in 1 .. MaxSessions |-> 0] \in [1 .. MaxSessions -> Nat]
    OBVIOUS
  <2>4. [sessions |-> 0, tokens |-> 0] \in [sessions : Nat, tokens : Nat]
    OBVIOUS
  <2> QED BY <1>2, <2>1, <2>2, <2>3, <2>4 DEF Histories
<1>5. Free \in AllRequests /\ Free.at = "free" /\ Free \notin FormRequests \cup Recorders \cup Revealers
  BY Apart DEF AllRequests, Free
<1>6. Typed
  <2>1. forms \in Seq(Form) /\ Len(forms) <= MaxForms
    BY <1>1
  <2>2. requests \in [Requests -> AllRequests]
    BY <1>1, <1>5
  <2>3. /\ sessions \in [1 .. MaxSessions -> [live : BOOLEAN, made : Nat, seen : Nat]]
        /\ tokens \in [1 .. MaxTokens -> [live : BOOLEAN, expires : Nat]]
        /\ offered \in [{"setup", "reset"} -> [id : Nat, expires : Nat]]
    <3>1. \A i \in 1 .. MaxSessions : [NoSession EXCEPT !.live = i <= admin] \in [live : BOOLEAN, made : Nat, seen : Nat]
      <4>1. \A signed \in BOOLEAN : [NoSession EXCEPT !.live = signed] \in [live : BOOLEAN, made : Nat, seen : Nat]
        BY DEF NoSession
      <4>2. \A i \in 1 .. MaxSessions : (i <= admin) \in BOOLEAN
        OBVIOUS
      <4> QED BY <4>1, <4>2, Zenon
    <3>2. NoToken \in [live : BOOLEAN, expires : Nat] /\ None \in [id : Nat, expires : Nat]
      BY DEF NoToken, None
    <3> QED BY <1>1, <3>1, <3>2
  <2>4. clock \in Nat /\ admin \in Nat /\ service \in Nat
    BY <1>1
  <2> QED BY <1>4, <2>1, <2>2, <2>3, <2>4 DEF Typed
<1>7. FormsSpent
  <2>1. Len(forms) = 0
    BY <1>1
  <2>2. \A f \in 1 .. MaxForms : history.accepted[f] = 0
    BY <1>3
  <2> QED BY <1>1, <1>3, <2>1, <2>2 DEF FormsSpent
<1>8. OffersSpent
  <2>1. offered["setup"] = None /\ offered["reset"] = None /\ None.id = 0
    BY <1>1 DEF None
  <2>2. \A i \in 1 .. MaxIssued : history.used[i] = 0
    BY <1>3
  <2> QED BY <1>3, <2>1, <2>2 DEF OffersSpent
<1>9. CutOff
  <2>1. \A i \in 1 .. MaxSessions : history.active[i] = 0 /\ sessions[i].seen = 0
    BY <1>1, <1>3 DEF NoSession
  <2>2. \A i \in 1 .. MaxTokens : ~ tokens[i].live
    BY <1>1 DEF NoToken
  <2>3. history.cut.sessions = 0 /\ history.cut.tokens = 0
    BY <1>3
  <2>4. \A i \in 1 .. MaxSessions : i > 0
    OBVIOUS
  <2>5. /\ 0 <= history.signedIn /\ 0 <= history.created
        /\ \A i \in 1 .. MaxSessions : history.active[i] <= clock /\ sessions[i].seen <= history.active[i]
    <3>1. admin \in Nat /\ 0 <= admin
      BY <1>1
    <3>2. 0 <= history.signedIn /\ 0 <= history.created
      BY <1>3, <3>1
    <3>3. \A i \in 1 .. MaxSessions : history.active[i] <= clock /\ sessions[i].seen <= history.active[i]
      <4> TAKE i \in 1 .. MaxSessions
      <4>1. history.active[i] = 0 /\ sessions[i].seen = 0 /\ clock = 0
        BY <1>1, <2>1
      <4> QED BY <4>1
    <3> QED BY <3>2, <3>3
  <2> QED BY <2>2, <2>3, <2>4, <2>5 DEF CutOff
<1>10. ChangesOnRecord
  BY <1>1, <1>3 DEF ChangesOnRecord
<1>11. \A q \in Requests : Placed(q)
  BY <1>1, <1>5 DEF Placed
<1> QED BY <1>6, <1>7, <1>8, <1>9, <1>10, <1>11 DEF AInv

\* A step that changes nothing.
LEMMA StutterStep ==
  ASSUME AInv, UNCHANGED vars
  PROVE  AInv'
<1>1. UNCHANGED <<clock, admin, offered, sessions, tokens, trail, service, forms, consumed, requests, history>>
  BY DEF vars, durable, spent
<1>2. Typed' /\ FormsSpent' /\ OffersSpent' /\ CutOff'
  BY <1>1 DEF AInv, Typed, FormsSpent, OffersSpent, CutOff
<1>3. ChangesOnRecord'
  BY <1>1 DEF AInv, ChangesOnRecord, Pending
<1>4. \A q \in Requests : Placed(q)'
  BY <1>1 DEF AInv, Placed
<1> QED BY <1>2, <1>3, <1>4 DEF AInv

LEMMA NextAInv ==
  ASSUME AInv, [Next]_vars
  PROVE  AInv'
<1>1. CASE Start \/ IssueResetToken
  BY <1>1, StartStep
<1>2. CASE Stop
  BY <1>2, StopStep
<1>3. CASE Tick
  BY <1>3, TickStep
<1>4. ASSUME NEW op \in FormOperations \cap Operations, NEW c \in Clients, LoadForm(op, c)
      PROVE  AInv'
  BY <1>4, LoadFormStep
<1>5. ASSUME NEW q \in Requests, NEW c \in Clients, NEW f \in DOMAIN forms, NEW g \in Guesses(forms[f].op),
             SubmitForm(q, forms[f].op, c, f, g)
      PROVE  AInv'
  BY <1>5, SubmitFormStep
<1>6. ASSUME NEW q \in Requests, NEW c \in Clients, NEW op \in Operations \ (FormOperations \cup {"api"}),
             NEW s \in 1 .. history.signedIn, NEW g \in Guesses(op), SubmitSession(q, op, c, s, g)
      PROVE  AInv'
  BY <1>6, SubmitSessionStep
<1>7. ASSUME NEW q \in Requests, NEW c \in Clients, NEW i \in 0 .. history.created, CallAPI(q, c, i)
      PROVE  AInv'
  BY <1>7, CallAPIStep
<1>8. ASSUME NEW q \in Requests, Step(q)
      PROVE  AInv'
  <2>1. CASE Throttle(q)
    BY <2>1, ThrottleStep
  <2>2. CASE Challenge(q)
    BY <2>2, ChallengeStep
  <2>3. CASE TakeSlot(q)
    BY <2>3, TakeSlotStep
  <2>4. CASE Check(q)
    BY <2>4, CheckStep
  <2>5. CASE CommitClaim(q)
    BY <2>5, CommitClaimStep
  <2>6. CASE CommitReset(q)
    BY <2>6, CommitResetStep
  <2>7. CASE CommitChange(q)
    BY <2>7, CommitChangeStep
  <2>8. CASE CommitToken(q)
    BY <2>8, CommitTokenStep
  <2>9. CASE SignIn(q)
    BY <2>9, SignInStep
  <2>10. CASE Record(q)
    BY <2>10, RecordStep
  <2>11. CASE View(q) \/ HoldSecret(q) \/ RefuseAPI(q)
    BY <2>11, PageStep
  <2>12. CASE Authenticate(q)
    BY <2>12, AuthenticateStep
  <2>13. CASE DropIdle(q) \/ Touch(q)
    BY <2>13, BookkeepingStep
  <2>14. CASE Logout(q) \/ RevokeOthers(q)
    BY <2>14, SignOutStep
  <2>15. CASE RevokeToken(q)
    BY <2>15, RevokeTokenStep
  <2> QED BY <1>8, <2>1, <2>2, <2>3, <2>4, <2>5, <2>6, <2>7, <2>8, <2>9, <2>10, <2>11, <2>12, <2>13, <2>14,
             <2>15 DEF Step
<1>9. CASE UNCHANGED vars
  BY <1>9, StutterStep
<1> QED BY <1>1, <1>2, <1>3, <1>4, <1>5, <1>6, <1>7, <1>8, <1>9 DEF Next

(* Every state has the invariant: what is spent, cut off and on record, and *)
(* what each request under way still knows (the handlers of web/auth.go,    *)
(* account.go, credential_flow.go and the transactions of store/auth.go).   *)
THEOREM Inductive == Spec => []AInv
<1>1. Init => AInv
  BY InitAInv
<1>2. AInv /\ [Next]_vars => AInv'
  BY NextAInv
<1> QED BY <1>1, <1>2, PTL DEF Spec

(***************************************************************************)
(* The properties.                                                         *)
(***************************************************************************)

(* A form challenge is accepted once, a setup or reset token sets one      *)
(* password, and a claimed installation offers no setup token, whatever    *)
(* the server forgot of the challenges (consumeCredentialChallenge, Claim, *)
(* ResetWithToken).                                                        *)
THEOREM OnceOnly == Spec => []UsedOnce
<1>1. AInv => UsedOnce
  <2> SUFFICES ASSUME AInv PROVE UsedOnce
    OBVIOUS
  <2>1. FormsSpent /\ OffersSpent /\ history \in Histories
    BY Known
  <2>2. history.accepted \in [1 .. MaxForms -> Nat] /\ history.used \in [1 .. MaxIssued -> Nat]
    BY <2>1, HistoryFields
  <2>3. \A f \in 1 .. MaxForms : history.accepted[f] <= 1
    <3> SUFFICES ASSUME NEW f \in 1 .. MaxForms PROVE history.accepted[f] <= 1
      OBVIOUS
    <3>1. history.accepted[f] \in Nat /\ (history.accepted[f] > 0 => history.accepted[f] = 1)
      BY <2>1, <2>2 DEF FormsSpent
    <3> QED BY <3>1
  <2>4. \A i \in 1 .. MaxIssued : history.used[i] <= 1
    <3> SUFFICES ASSUME NEW i \in 1 .. MaxIssued PROVE history.used[i] <= 1
      OBVIOUS
    <3>1. history.used[i] \in Nat /\ (history.used[i] > 0 => history.used[i] = 1)
      BY <2>1, <2>2 DEF OffersSpent
    <3> QED BY <3>1
  <2>5. admin > 0 => offered["setup"] = None
    BY <2>1 DEF OffersSpent
  <2> QED BY <2>2, <2>3, <2>4, <2>5 DEF UsedOnce
<1> QED BY <1>1, Inductive, PTL

(* No session and no active API token is older than the last change or      *)
(* reset of the password, although the last-seen times and the removals of  *)
(* idle sessions are written after it, from what was read before            *)
(* (ChangePassword, ResetWithToken, AuthenticateSession).                   *)
THEOREM PasswordEndsSessions == Spec => []NothingOutlivesPassword
<1>1. AInv => NothingOutlivesPassword
  <2> SUFFICES ASSUME AInv PROVE NothingOutlivesPassword
    OBVIOUS
  <2>1. Typed /\ CutOff
    BY Known
  <2>2. DOMAIN sessions = 1 .. MaxSessions /\ DOMAIN tokens = 1 .. MaxTokens
    BY <2>1 DEF Typed
  <2> QED BY <2>1, <2>2 DEF NothingOutlivesPassword, CutOff, Active
<1> QED BY <1>1, Inductive, PTL

(* A committed change is on record, or its request has still to record it,  *)
(* or the process stopped in between; a record of a change that was not     *)
(* committed does not exist (recordAdmin).                                  *)
THEOREM ChangesRecorded == Spec => []ChangesOnRecord
<1>1. AInv => ChangesOnRecord
  BY DEF AInv
<1> QED BY <1>1, Inductive, PTL

\* Only AuthenticateSession answers whether a session is honoured.
LEMMA OnlyAuthenticated ==
  ASSUME requests \in [Requests -> AllRequests], [Next]_vars, NEW q \in Requests, requests[q].at = "auth",
         ~ Authenticate(q)
  PROVE  requests'[q] \in {requests[q], Free}
<1> DEFINE Settled == requests'[q] \in {requests[q], Free}
<1>1. CASE Start \/ IssueResetToken \/ Tick \/ UNCHANGED vars
  BY <1>1 DEF Start, IssueResetToken, Tick, vars
<1>2. CASE Stop
  BY <1>2 DEF Stop
<1>3. ASSUME NEW op \in FormOperations \cap Operations, NEW c \in Clients, LoadForm(op, c)
      PROVE  Settled
  BY <1>3 DEF LoadForm
<1>4. ASSUME NEW p \in Requests, NEW c \in Clients, NEW f \in DOMAIN forms, NEW g \in Guesses(forms[f].op),
             SubmitForm(p, forms[f].op, c, f, g)
      PROVE  Settled
  <2>1. requests[p].at = "free"
    BY <1>4 DEF SubmitForm, Free
  <2> QED BY <1>4, <2>1 DEF SubmitForm
<1>5. ASSUME NEW p \in Requests, NEW c \in Clients, NEW op \in Operations \ (FormOperations \cup {"api"}),
             NEW s \in 1 .. history.signedIn, NEW g \in Guesses(op), SubmitSession(p, op, c, s, g)
      PROVE  Settled
  <2>1. requests[p].at = "free"
    BY <1>5 DEF SubmitSession, Free
  <2> QED BY <1>5, <2>1 DEF SubmitSession
<1>6. ASSUME NEW p \in Requests, NEW c \in Clients, NEW i \in 0 .. history.created, CallAPI(p, c, i)
      PROVE  Settled
  <2>1. requests[p].at = "free"
    BY <1>6 DEF CallAPI, Free
  <2>2. p # q
    BY <2>1
  <2> QED BY <1>6, <2>2 DEF CallAPI
<1>7. ASSUME NEW p \in Requests, Step(p)
      PROVE  Settled
  <2>1. CASE Throttle(p)
    BY <2>1 DEF Throttle, Admit
  <2>2. CASE Challenge(p)
    <3>1. p # q
      BY <2>2 DEF Challenge
    <3>2. \E v : requests' = [requests EXCEPT ![p] = v]
      BY <2>2 DEF Challenge
    <3> QED BY <3>1, <3>2
  <2>3. CASE TakeSlot(p)
    BY <2>3 DEF TakeSlot
  <2>4. CASE Check(p)
    <3>1. p # q
      BY <2>4 DEF Check
    <3> QED BY <2>4, <3>1 DEF Check, Refuse
  <2>5. CASE CommitClaim(p)
    BY <2>5 DEF CommitClaim, Refuse, Then
  <2>6. CASE CommitReset(p)
    BY <2>6 DEF CommitReset, Refuse, Then
  <2>7. CASE CommitChange(p)
    BY <2>7 DEF CommitChange, Then
  <2>8. CASE CommitToken(p)
    BY <2>8 DEF CommitToken
  <2>9. CASE SignIn(p)
    <3>1. p # q
      BY <2>9 DEF SignIn
    <3> QED BY <2>9, <3>1 DEF SignIn, Then
  <2>10. CASE Record(p)
    BY <2>10 DEF Record
  <2>11. CASE View(p) \/ HoldSecret(p) \/ RefuseAPI(p)
    BY <2>11 DEF View, HoldSecret, RefuseAPI
  <2>12. CASE Authenticate(p)
    <3>1. p # q
      BY <2>12
    <3> QED BY <2>12, <3>1 DEF Authenticate
  <2>13. CASE DropIdle(p) \/ Touch(p)
    BY <2>13 DEF DropIdle, Touch
  <2>14. CASE Logout(p) \/ RevokeOthers(p) \/ RevokeToken(p)
    <3>1. p # q
      BY <2>14 DEF Logout, RevokeOthers, RevokeToken
    <3>2. \E changes : Finish(p, changes)
      BY <2>14 DEF Logout, RevokeOthers, RevokeToken
    <3> QED BY <3>1, <3>2 DEF Finish, Then
  <2> QED BY <1>7, <2>1, <2>2, <2>3, <2>4, <2>5, <2>6, <2>7, <2>8, <2>9, <2>10, <2>11, <2>12, <2>13, <2>14 DEF Step
<1> QED BY <1>1, <1>2, <1>3, <1>4, <1>5, <1>6, <1>7 DEF Next

(* A session is honoured only within the idle timeout of something its     *)
(* user did, and within its lifetime, whatever an unattended tab refreshes *)
(* and whichever last-seen times were lost or written late                 *)
(* (AuthenticateSession).                                                  *)
THEOREM IdleEnds == Spec => IdleSessionsEnd
<1> DEFINE Honours(q) == requests[q].at = "auth" /\ requests'[q].at \in {"touch", "act", "throttle"}
           Within(q) == LET s == requests[q].session
                        IN /\ clock - history.active[s] < IdleTimeout
                           /\ clock - sessions[s].made < SessionLife
<1>1. AInv /\ [Next]_vars => \A q \in Requests : Honours(q) => Within(q)
  <2> SUFFICES ASSUME AInv, [Next]_vars, NEW q \in Requests, Honours(q)
               PROVE  Within(q)
    OBVIOUS
  <2> DEFINE o == requests[q]
             i == o.session
             s == sessions[i]
  <2>1. /\ Typed /\ CutOff /\ clock \in Nat /\ requests \in [Requests -> AllRequests]
        /\ \A x \in 1 .. MaxSessions : history.active[x] \in Nat
    BY Known
  <2>2. Authenticate(q)
    <3> SUFFICES ASSUME ~ Authenticate(q) PROVE FALSE
      OBVIOUS
    <3>1. requests'[q] \in {o, Free}
      BY <2>1, OnlyAuthenticated
    <3> QED BY <3>1 DEF Free
  <2>3. requests' = [requests EXCEPT ![q] =
             IF ~s.live \/ s.made + SessionLife <= clock THEN Free
             ELSE IF Idle(o, s) THEN [at |-> "drop", session |-> i]
             ELSE IF TouchDue(o, s) THEN [at |-> "touch", op |-> o.op, client |-> o.client, session |-> i,
                                          guess |-> o.guess, since |-> clock]
             ELSE [o EXCEPT !.at = Resume(o)]]
    BY <2>2 DEF Authenticate
  <2>4. s.live /\ ~(s.made + SessionLife <= clock) /\ ~Idle(o, s)
    <3> DEFINE dropped == [at |-> "drop", session |-> i]
    <3>1. dropped.at = "drop" /\ Free.at = "free"
      BY DEF Free
    <3>2. requests'[q] # Free /\ requests'[q] # dropped
      BY <3>1
    <3> QED BY <2>1, <2>3, <3>2
  <2>5. i \in 1 .. MaxSessions
    BY <2>1, Stands DEF SessionRequests
  <2>6. s.made \in Nat /\ s.seen \in Nat /\ s.seen <= history.active[i] /\ history.active[i] \in Nat
    <3>1. s \in [live : BOOLEAN, made : Nat, seen : Nat]
      BY <2>1, <2>5 DEF Typed
    <3>2. s.seen <= history.active[i]
      BY <2>1, <2>4, <2>5 DEF CutOff
    <3> QED BY <2>1, <2>5, <3>1, <3>2
  <2>7. ~(s.seen + IdleTimeout <= clock)
    BY <2>4 DEF Idle
  <2> HIDE DEF o, s
  <2>8. clock - history.active[i] < IdleTimeout /\ clock - s.made < SessionLife
    BY <2>1, <2>4, <2>6, <2>7, Bounds
  <2> QED BY <2>8 DEF o, s
<1> QED BY <1>1, Inductive, PTL DEF Spec, IdleSessionsEnd

(***************************************************************************)
(* Guesses.                                                                *)
(*                                                                         *)
(* The throttle is asked before a guess is looked at and told after it, so *)
(* what bounds the failures of a client is not their number alone: each    *)
(* request between the two may still add one.                              *)
(***************************************************************************)
\* A request that may still fail against a bucket.
Attempts(r, b) ==
  r.at \in {"challenge", "slot", "check", "commit", "refuse"} /\ b = <<Bucket(r.op), r.client>>
Attempting(b) == {q \in Requests : Attempts(requests[q], b)}

Failed(b) == Len(Recent(failures[b]))
WithinLimit(b) == Failed(b) + Cardinality(Attempting(b)) <= FailuresPerClient + Cardinality(Requests) - 1
GuessInv == failures \in [Buckets -> Seq(Nat)] /\ \A b \in Buckets : WithinLimit(b)

\* The numbers the bound is made of.
LEMMA Limits ==
  /\ IsFiniteSet(Requests) /\ Cardinality(Requests) \in Nat
  /\ FailuresPerClient \in Nat /\ FailuresPerClient > 0 /\ FailureWindow \in Nat
<1>1. FailuresPerClient \in Nat \ {0} /\ FailureWindow \in Nat \ {0}
  BY AccessAssumption
<1>2. IsFiniteSet(Requests)
  BY AccessAssumption
<1>3. Cardinality(Requests) \in Nat
  BY <1>2, FS_CardinalityType
<1> QED BY <1>1, <1>2, <1>3

\* Leaving out as many entries as a set of their places has.
LEMMA LeftOut ==
  ASSUME NEW s \in Seq(Nat), NEW T \in SUBSET DOMAIN s
  PROVE  /\ IsFiniteSet(T) /\ Cardinality(T) \in Nat /\ Cardinality(T) <= Len(s)
         /\ SubSeq(s, Cardinality(T) + 1, Len(s)) \in Seq(Nat)
         /\ Len(SubSeq(s, Cardinality(T) + 1, Len(s))) = Len(s) - Cardinality(T)
<1>1. Len(s) \in Nat /\ DOMAIN s = 1 .. Len(s)
  BY LenProperties
<1>2. IsFiniteSet(DOMAIN s) /\ Cardinality(DOMAIN s) = Len(s)
  <2> DEFINE n == Len(s)
  <2>1. n \in Int /\ n >= 0
    BY <1>1
  <2> HIDE DEF n
  <2>2. IsFiniteSet(1 .. n) /\ Cardinality(1 .. n) = IF 1 > n THEN 0 ELSE n - 1 + 1
    BY <2>1, FS_Interval
  <2>3. Cardinality(1 .. n) = n
    BY <2>1, <2>2
  <2> QED BY <1>1, <2>2, <2>3 DEF n
<1>3. IsFiniteSet(T) /\ Cardinality(T) \in Nat /\ Cardinality(T) <= Len(s)
  BY <1>2, FS_Subset, FS_CardinalityType
<1> DEFINE k == Cardinality(T)
<1>4. k + 1 \in Int /\ Len(s) \in Int /\ \A i \in k + 1 .. Len(s) : s[i] \in Nat
  <2>1. \A i \in k + 1 .. Len(s) : i \in 1 .. Len(s)
    BY <1>1, <1>3
  <2> QED BY <1>1, <1>3, <2>1, ElementOfSeq
<1> HIDE DEF k
<1>5. SubSeq(s, k + 1, Len(s)) \in Seq(Nat)
      /\ Len(SubSeq(s, k + 1, Len(s))) = IF k + 1 <= Len(s) THEN (Len(s) - (k + 1)) + 1 ELSE 0
  BY <1>4, SubSeqProperties
<1>6. Len(SubSeq(s, k + 1, Len(s))) = Len(s) - k
  <2>1. k \in Nat /\ k <= Len(s)
    BY <1>3 DEF k
  <2> DEFINE m == Len(SubSeq(s, k + 1, Len(s)))
             n == Len(s)
  <2>2. n \in Nat /\ m = IF k + 1 <= n THEN (n - (k + 1)) + 1 ELSE 0
    BY <1>1, <1>5
  <2> HIDE DEF m, n
  <2>3. m = n - k
    BY <2>1, <2>2 DEF n
  <2> QED BY <2>3 DEF m, n
<1> QED BY <1>3, <1>5, <1>6 DEF k

\* What counts of the times that were noted.
LEMMA RecentIs ==
  ASSUME NEW s \in Seq(Nat)
  PROVE  /\ IsFiniteSet(Stale(s)) /\ Cardinality(Stale(s)) \in Nat /\ Len(s) \in Nat
         /\ Recent(s) \in Seq(Nat) /\ Len(Recent(s)) \in Nat
         /\ Len(Recent(s)) = Len(s) - Cardinality(Stale(s)) /\ Len(Recent(s)) <= Len(s)
<1>1. Stale(s) \in SUBSET DOMAIN s
  BY DEF Stale
<1>2. Len(s) \in Nat
  BY LenProperties
<1>3. /\ IsFiniteSet(Stale(s)) /\ Cardinality(Stale(s)) \in Nat /\ Cardinality(Stale(s)) <= Len(s)
      /\ Recent(s) \in Seq(Nat) /\ Len(Recent(s)) = Len(s) - Cardinality(Stale(s))
  BY <1>1, LeftOut DEF Recent
<1> QED BY <1>2, <1>3

\* A failure that is noted adds one at most.
LEMMA RecentAppend ==
  ASSUME NEW s \in Seq(Nat), clock \in Nat
  PROVE  Append(s, clock) \in Seq(Nat) /\ Len(Recent(Append(s, clock))) <= Len(Recent(s)) + 1
<1> DEFINE t == Append(s, clock)
<1>1. t \in Seq(Nat) /\ Len(t) = Len(s) + 1 /\ \A i \in 1 .. Len(s) : t[i] = s[i]
  BY AppendProperties
<1>2. DOMAIN s = 1 .. Len(s) /\ DOMAIN t = 1 .. Len(t) /\ Len(s) \in Nat
  BY <1>1, LenProperties
<1> HIDE DEF t
<1>3. Stale(s) \in SUBSET Stale(t)
  <2> SUFFICES ASSUME NEW i \in Stale(s) PROVE i \in Stale(t)
    OBVIOUS
  <2>1. i \in 1 .. Len(s) /\ s[i] <= clock - FailureWindow
    BY <1>2 DEF Stale
  <2>2. i \in 1 .. Len(t) /\ t[i] = s[i]
    BY <1>1, <1>2, <2>1
  <2> QED BY <1>2, <2>1, <2>2 DEF Stale
<1>4. /\ Len(Recent(s)) = Len(s) - Cardinality(Stale(s)) /\ Cardinality(Stale(s)) \in Nat
      /\ Len(Recent(t)) = Len(t) - Cardinality(Stale(t)) /\ Cardinality(Stale(t)) \in Nat /\ IsFiniteSet(Stale(t))
  BY <1>1, RecentIs
<1>5. Cardinality(Stale(s)) <= Cardinality(Stale(t))
  BY <1>3, <1>4, FS_Subset
<1>6. Len(Recent(t)) <= Len(Recent(s)) + 1
  BY <1>1, <1>2, <1>4, <1>5
<1> QED BY <1>1, <1>6 DEF t

\* Time only takes failures away.
LEMMA RecentLater ==
  ASSUME NEW s \in Seq(Nat), clock \in Nat
  PROVE  Cardinality({i \in DOMAIN s : s[i] <= clock - FailureWindow})
           <= Cardinality({i \in DOMAIN s : s[i] <= (clock + 1) - FailureWindow})
<1> DEFINE S == {i \in DOMAIN s : s[i] <= clock - FailureWindow}
           T == {i \in DOMAIN s : s[i] <= (clock + 1) - FailureWindow}
<1>1. DOMAIN s = 1 .. Len(s) /\ \A i \in 1 .. Len(s) : s[i] \in Nat
  BY LenProperties, ElementOfSeq
<1>2. S \in SUBSET T
  BY <1>1, Limits
<1>3. T \in SUBSET DOMAIN s
  OBVIOUS
<1> HIDE DEF S, T
<1>4. IsFiniteSet(T)
  BY <1>3, LeftOut
<1>5. Cardinality(S) <= Cardinality(T)
  BY <1>2, <1>4, FS_Subset
<1> QED BY <1>5 DEF S, T

\* No bucket holds failures at first, or after a stop.
LEMMA NoneRecent ==
  /\ <<>> \in Seq(Nat) /\ Len(Recent(<<>>)) = 0
<1>1. <<>> \in Seq(Nat) /\ Len(<<>>) = 0
  BY EmptySeq
<1>2. Len(Recent(<<>>)) \in Nat /\ Len(Recent(<<>>)) <= Len(<<>>)
  BY <1>1, RecentIs
<1> QED BY <1>1, <1>2

\* Pruning leaves no more than the recent failures of a bucket, and may
\* forget a bucket.
LEMMA PrunedIs ==
  ASSUME NEW f \in [Buckets -> Seq(Nat)], NEW gone
  PROVE  /\ Pruned(f, gone) \in [Buckets -> Seq(Nat)]
         /\ \A b \in Buckets :
              LET u == Pruned(f, gone)[b]
              IN /\ Len(u) \in Nat /\ Len(Recent(u)) \in Nat
                 /\ Len(Recent(u)) <= Len(u) /\ Len(u) <= Len(Recent(f[b]))
<1> DEFINE g == Pruned(f, gone)
<1>1. \A b \in Buckets : f[b] \in Seq(Nat) /\ Recent(f[b]) \in Seq(Nat)
  BY RecentIs
<1>2. g = [b \in Buckets |-> IF b \in gone THEN <<>> ELSE Recent(f[b])]
  BY DEF Pruned
<1> HIDE DEF g
<1>3. g \in [Buckets -> Seq(Nat)] /\ \A b \in Buckets : g[b] \in {Recent(f[b]), <<>>}
  BY <1>1, <1>2, NoneRecent
<1>4. ASSUME NEW b \in Buckets
      PROVE  Len(g[b]) \in Nat /\ Len(Recent(g[b])) \in Nat
             /\ Len(Recent(g[b])) <= Len(g[b]) /\ Len(g[b]) <= Len(Recent(f[b]))
  <2>1. g[b] \in Seq(Nat) /\ f[b] \in Seq(Nat)
    BY <1>3
  <2>2. Len(g[b]) \in Nat /\ Len(Recent(g[b])) \in Nat /\ Len(Recent(g[b])) <= Len(g[b]) /\ Len(Recent(f[b])) \in Nat
    BY <2>1, RecentIs
  <2>3. Len(g[b]) <= Len(Recent(f[b]))
    <3>1. CASE g[b] = Recent(f[b])
      BY <2>2, <3>1
    <3>2. CASE g[b] = <<>>
      <4>1. Len(g[b]) = 0
        BY <3>2, EmptySeq
      <4> QED BY <2>2, <4>1
    <3> QED BY <1>3, <3>1, <3>2
  <2> QED BY <2>2, <2>3
<1> QED BY <1>3, <1>4 DEF g

\* Requests that no longer attempt a bucket are not counted against it.
LEMMA AttemptsKept ==
  ASSUME NEW b \in Buckets, \A p \in Requests : Attempts(requests'[p], b) => Attempts(requests[p], b)
  PROVE  /\ Cardinality(Attempting(b)) \in Nat /\ Cardinality(Attempting(b)') \in Nat
         /\ Cardinality(Attempting(b)') <= Cardinality(Attempting(b))
<1> DEFINE A == {p \in Requests : Attempts(requests[p], b)}
           B == {p \in Requests : Attempts(requests'[p], b)}
<1>1. A = Attempting(b) /\ B = Attempting(b)'
  BY DEF Attempting, Attempts
<1>2. B \in SUBSET A /\ A \in SUBSET Requests
  OBVIOUS
<1> HIDE DEF A, B
<1>3. IsFiniteSet(A) /\ IsFiniteSet(B) /\ Cardinality(A) \in Nat /\ Cardinality(B) \in Nat
  BY <1>2, Limits, FS_Subset, FS_CardinalityType
<1>4. Cardinality(B) <= Cardinality(A)
  BY <1>2, <1>3, FS_Subset
<1> QED BY <1>1, <1>3, <1>4

\* At most every request attempts a bucket.
LEMMA AttemptsBounded ==
  ASSUME NEW b
  PROVE  Cardinality(Attempting(b)') \in Nat /\ Cardinality(Attempting(b)') <= Cardinality(Requests)
<1> DEFINE B == {p \in Requests : Attempts(requests'[p], b)}
<1>1. B = Attempting(b)'
  BY DEF Attempting, Attempts
<1>2. B \in SUBSET Requests
  OBVIOUS
<1> HIDE DEF B
<1>3. Cardinality(B) \in Nat /\ Cardinality(B) <= Cardinality(Requests)
  BY <1>2, Limits, FS_Subset, FS_CardinalityType
<1> QED BY <1>1, <1>3

\* A request that is refused is one attempt less.
LEMMA AttemptEnds ==
  ASSUME NEW b \in Buckets, NEW q \in Requests, Attempts(requests[q], b), ~Attempts(requests'[q], b),
         \A p \in Requests \ {q} : requests'[p] = requests[p]
  PROVE  /\ Cardinality(Attempting(b)) \in Nat /\ Cardinality(Attempting(b)') \in Nat
         /\ Cardinality(Attempting(b)') = Cardinality(Attempting(b)) - 1
<1> DEFINE A == {p \in Requests : Attempts(requests[p], b)}
           B == {p \in Requests : Attempts(requests'[p], b)}
<1>1. A = Attempting(b) /\ B = Attempting(b)'
  BY DEF Attempting, Attempts
<1>2. B = A \ {q} /\ q \in A /\ A \in SUBSET Requests
  OBVIOUS
<1> HIDE DEF A, B
<1>3. IsFiniteSet(A) /\ IsFiniteSet(B) /\ Cardinality(A) \in Nat /\ Cardinality(B) \in Nat
  BY <1>2, Limits, FS_Subset, FS_CardinalityType
<1>4. Cardinality(B) = Cardinality(A) - 1
  BY <1>2, <1>3, FS_RemoveElement
<1> QED BY <1>1, <1>3, <1>4

\* A bucket keeps its bound when it gains neither failures nor attempts.
LEMMA BucketKept ==
  ASSUME GuessInv, NEW b \in Buckets, failures' \in [Buckets -> Seq(Nat)], Failed(b)' <= Failed(b),
         \A p \in Requests : Attempts(requests'[p], b) => Attempts(requests[p], b)
  PROVE  WithinLimit(b)'
<1>1. Failed(b) \in Nat
  <2>1. failures[b] \in Seq(Nat)
    BY DEF GuessInv
  <2> QED BY <2>1, RecentIs DEF Failed
<1>2. Failed(b)' \in Nat
  <2>1. failures'[b] \in Seq(Nat)
    OBVIOUS
  <2> DEFINE T == {i \in DOMAIN failures'[b] : failures'[b][i] <= clock' - FailureWindow}
  <2>2. T \in SUBSET DOMAIN failures'[b]
    OBVIOUS
  <2>3. Failed(b)' = Len(SubSeq(failures'[b], Cardinality(T) + 1, Len(failures'[b])))
    BY DEF Failed, Recent, Stale
  <2> HIDE DEF T
  <2>4. SubSeq(failures'[b], Cardinality(T) + 1, Len(failures'[b])) \in Seq(Nat)
    BY <2>1, <2>2, LeftOut
  <2> QED BY <2>3, <2>4, LenProperties
<1>3. /\ Cardinality(Attempting(b)) \in Nat /\ Cardinality(Attempting(b)') \in Nat
      /\ Cardinality(Attempting(b)') <= Cardinality(Attempting(b))
  BY AttemptsKept
<1>4. Failed(b) + Cardinality(Attempting(b)) <= FailuresPerClient + Cardinality(Requests) - 1
  BY DEF GuessInv, WithinLimit
<1> DEFINE n == Failed(b)'
           m == Cardinality(Attempting(b)')
<1>5. WithinLimit(b)' <=> n + m <= FailuresPerClient + Cardinality(Requests) - 1
  BY DEF WithinLimit
<1>6. n \in Nat /\ m \in Nat /\ n <= Failed(b) /\ m <= Cardinality(Attempting(b))
  BY <1>2, <1>3
<1> HIDE DEF n, m
<1> QED BY <1>1, <1>3, <1>4, <1>5, <1>6, Limits

\* Failures at the same time.
LEMMA FailedNow ==
  ASSUME clock' = clock, NEW b \in Buckets
  PROVE  Failed(b)' = Len(Recent(failures'[b]))
BY DEF Failed, Recent, Stale

\* What a step may do to the buckets without noting a failure.
Forgiving ==
  /\ failures' \in [Buckets -> Seq(Nat)]
  /\ \A b \in Buckets : Failed(b)' <= Failed(b)

LEMMA UntouchedForgives ==
  ASSUME GuessInv, clock' = clock, failures' = failures
  PROVE  Forgiving
<1>1. ASSUME NEW b \in Buckets PROVE Failed(b)' <= Failed(b)
  <2>1. failures[b] \in Seq(Nat)
    BY DEF GuessInv
  <2>2. Len(Recent(failures[b])) \in Nat
    BY <2>1, RecentIs
  <2> QED BY <2>2, FailedNow DEF Failed
<1> QED BY <1>1 DEF Forgiving, GuessInv

LEMMA ClearForgives ==
  ASSUME GuessInv, clock' = clock, NEW action, NEW client, ClearFailures(action, client)
  PROVE  Forgiving
<1>1. failures \in [Buckets -> Seq(Nat)] /\ failures' = [failures EXCEPT ![<<action, client>>] = <<>>]
  BY DEF GuessInv, ClearFailures
<1>2. failures' \in [Buckets -> Seq(Nat)] /\ \A b \in Buckets : failures'[b] \in {failures[b], <<>>}
  BY <1>1, NoneRecent
<1>3. ASSUME NEW b \in Buckets PROVE Failed(b)' <= Failed(b)
  <2>1. failures[b] \in Seq(Nat)
    BY <1>1
  <2>2. Len(Recent(failures[b])) \in Nat
    BY <2>1, RecentIs
  <2>3. Len(Recent(failures'[b])) <= Len(Recent(failures[b]))
    <3>1. CASE failures'[b] = failures[b]
      BY <2>2, <3>1
    <3>2. CASE failures'[b] = <<>>
      <4>1. Len(Recent(failures'[b])) = 0
        BY <3>2, NoneRecent
      <4> QED BY <2>2, <4>1
    <3> QED BY <1>2, <3>1, <3>2
  <2> QED BY <2>3, FailedNow DEF Failed
<1> QED BY <1>2, <1>3 DEF Forgiving

LEMMA PruneForgives ==
  ASSUME GuessInv, clock' = clock, NEW gone, failures' = Pruned(failures, gone)
  PROVE  Forgiving
<1>1. failures \in [Buckets -> Seq(Nat)]
  BY DEF GuessInv
<1>2. /\ failures' \in [Buckets -> Seq(Nat)]
      /\ \A b \in Buckets : /\ Len(failures'[b]) \in Nat /\ Len(Recent(failures'[b])) \in Nat
                            /\ Len(Recent(failures'[b])) <= Len(failures'[b])
                            /\ Len(failures'[b]) <= Len(Recent(failures[b]))
  BY <1>1, PrunedIs
<1>3. ASSUME NEW b \in Buckets PROVE Failed(b)' <= Failed(b)
  <2>1. failures[b] \in Seq(Nat)
    BY <1>1
  <2>2. Len(Recent(failures[b])) \in Nat
    BY <2>1, RecentIs
  <2>3. Len(Recent(failures'[b])) <= Len(Recent(failures[b]))
    BY <1>2, <2>2
  <2> QED BY <2>3, FailedNow DEF Failed
<1> QED BY <1>2, <1>3 DEF Forgiving

\* A step that notes no failure, of a request that takes up no attempt.
LEMMA CalmStep ==
  ASSUME AInv, GuessInv, Forgiving, NEW q \in Requests, NEW r, requests' = [requests EXCEPT ![q] = r],
         \A b \in Buckets : Attempts(r, b) => Attempts(requests[q], b)
  PROVE  GuessInv'
<1>1. DOMAIN requests = Requests
  BY DEF AInv, Typed
<1>2. \A b \in Buckets : \A p \in Requests : Attempts(requests'[p], b) => Attempts(requests[p], b)
  BY <1>1
<1>3. ASSUME NEW b \in Buckets PROVE WithinLimit(b)'
  BY <1>2, BucketKept DEF Forgiving
<1>4. failures' \in [Buckets -> Seq(Nat)]
  BY DEF Forgiving
<1> QED BY <1>3, <1>4 DEF GuessInv, Buckets, Throttles

\* A step that notes no failure and leaves the requests alone.
LEMMA StillStep ==
  ASSUME AInv, GuessInv, Forgiving, requests' = requests
  PROVE  GuessInv'
<1>1. ASSUME NEW b \in Buckets PROVE WithinLimit(b)'
  BY BucketKept DEF Forgiving
<1>2. failures' \in [Buckets -> Seq(Nat)]
  BY DEF Forgiving
<1> QED BY <1>1, <1>2 DEF GuessInv, Buckets, Throttles

\* The bucket a request fails against is the only one it attempts.
LEMMA OwnBucket ==
  ASSUME NEW r, NEW b, Attempts(r, b)
  PROVE  b = <<Bucket(r.op), r.client>> /\ r.at \in {"challenge", "slot", "check", "commit", "refuse"}
BY DEF Attempts

\* A failure is noted for a request that was counted already.
LEMMA FailureStep ==
  ASSUME AInv, GuessInv, clock' = clock, NEW q \in Requests, requests' = [requests EXCEPT ![q] = Free],
         requests[q].at \in {"check", "commit", "refuse"},
         RecordFailure(Bucket(requests[q].op), requests[q].client)
  PROVE  GuessInv'
<1> DEFINE d == <<Bucket(requests[q].op), requests[q].client>>
<1>1. /\ failures \in [Buckets -> Seq(Nat)] /\ \A b \in Buckets : WithinLimit(b)
      /\ clock \in Nat /\ DOMAIN requests = Requests
  BY DEF GuessInv, AInv, Typed
<1>2. PICK before, after :
        failures' = Pruned([Pruned(failures, before) EXCEPT ![d] = Append(@, clock)], after)
  BY DEF RecordFailure, Noted
<1> DEFINE f == Pruned(failures, before)
           h == [f EXCEPT ![d] = Append(@, clock)]
<1>3. /\ f \in [Buckets -> Seq(Nat)]
      /\ \A b \in Buckets : /\ Len(f[b]) \in Nat /\ Len(Recent(f[b])) \in Nat
                            /\ Len(Recent(f[b])) <= Len(f[b]) /\ Len(f[b]) <= Len(Recent(failures[b]))
  BY <1>1, PrunedIs
<1>4. \A b \in Buckets : /\ Append(f[b], clock) \in Seq(Nat)
                         /\ Len(Recent(Append(f[b], clock))) <= Len(Recent(f[b])) + 1
  BY <1>1, <1>3, RecentAppend
<1> HIDE DEF f
<1>5. /\ h \in [Buckets -> Seq(Nat)]
      /\ \A b \in Buckets : h[b] = IF b = d THEN Append(f[b], clock) ELSE f[b]
  BY <1>3, <1>4
<1>6. failures' = Pruned(h, after)
  BY <1>2 DEF f
<1> HIDE DEF h, d
<1>7. /\ failures' \in [Buckets -> Seq(Nat)]
      /\ \A b \in Buckets : /\ Len(failures'[b]) \in Nat /\ Len(Recent(failures'[b])) \in Nat
                            /\ Len(Recent(failures'[b])) <= Len(failures'[b])
                            /\ Len(failures'[b]) <= Len(Recent(h[b]))
  BY <1>5, <1>6, PrunedIs
<1>8. requests'[q] = Free /\ \A p \in Requests \ {q} : requests'[p] = requests[p]
  BY <1>1
<1>9. \A b : ~Attempts(Free, b)
  BY DEF Attempts, Free
<1>10. ASSUME NEW b \in Buckets PROVE WithinLimit(b)'
  <2>1. Failed(b)' = Len(Recent(failures'[b])) /\ Failed(b)' \in Nat
    BY <1>7, FailedNow
  <2>2. Failed(b) \in Nat
    <3>1. failures[b] \in Seq(Nat)
      BY <1>1
    <3> QED BY <3>1, RecentIs DEF Failed
  <2>3. CASE b # d
    <3>1. Failed(b)' <= Failed(b)
      <4>1. h[b] = f[b]
        BY <1>5, <2>3
      <4>2. /\ Len(f[b]) \in Nat /\ Len(Recent(f[b])) \in Nat
            /\ Len(Recent(f[b])) <= Len(f[b]) /\ Len(f[b]) <= Failed(b)
            /\ Len(failures'[b]) \in Nat /\ Len(Recent(failures'[b])) \in Nat
            /\ Len(Recent(failures'[b])) <= Len(failures'[b]) /\ Len(failures'[b]) <= Len(Recent(f[b]))
        BY <1>3, <1>7, <4>1 DEF Failed
      <4> QED BY <2>1, <2>2, <4>2
    <3>2. \A p \in Requests : Attempts(requests'[p], b) => Attempts(requests[p], b)
      BY <1>8, <1>9
    <3> QED BY <1>7, <3>1, <3>2, BucketKept
  <2>4. CASE b = d
    <3>1. Failed(b)' <= Failed(b) + 1
      <4>1. h[b] = Append(f[b], clock)
        BY <1>5, <2>4
      <4>2. Len(Recent(h[b])) <= Len(Recent(f[b])) + 1 /\ Len(Recent(h[b])) \in Nat
        <5>1. h[b] \in Seq(Nat)
          BY <1>5
        <5>2. Len(Recent(h[b])) \in Nat
          BY <5>1, RecentIs
        <5> QED BY <1>4, <4>1, <5>2
      <4>3. /\ Len(f[b]) \in Nat /\ Len(Recent(f[b])) \in Nat
            /\ Len(Recent(f[b])) <= Len(f[b]) /\ Len(f[b]) <= Failed(b)
            /\ Len(failures'[b]) \in Nat /\ Len(Recent(failures'[b])) \in Nat
            /\ Len(Recent(failures'[b])) <= Len(failures'[b]) /\ Len(failures'[b]) <= Len(Recent(h[b]))
        BY <1>3, <1>7 DEF Failed
      <4> QED BY <2>1, <2>2, <4>2, <4>3
    <3>2. Attempts(requests[q], b) /\ ~Attempts(requests'[q], b)
      BY <1>8, <1>9, <2>4 DEF Attempts, d
    <3>3. /\ Cardinality(Attempting(b)) \in Nat /\ Cardinality(Attempting(b)') \in Nat
          /\ Cardinality(Attempting(b)') = Cardinality(Attempting(b)) - 1
      BY <1>8, <3>2, AttemptEnds
    <3>4. Failed(b) + Cardinality(Attempting(b)) <= FailuresPerClient + Cardinality(Requests) - 1
      BY <1>1 DEF WithinLimit
    <3> DEFINE n == Failed(b)'
               m == Cardinality(Attempting(b)')
    <3>5. WithinLimit(b)' <=> n + m <= FailuresPerClient + Cardinality(Requests) - 1
      BY DEF WithinLimit
    <3>6. n \in Nat /\ m \in Nat /\ n <= Failed(b) + 1 /\ m = Cardinality(Attempting(b)) - 1
      BY <2>1, <3>1, <3>3
    <3> HIDE DEF n, m
    <3> QED BY <2>2, <3>3, <3>4, <3>5, <3>6, Limits
  <2> QED BY <2>3, <2>4
<1> QED BY <1>7, <1>10 DEF GuessInv, Buckets, Throttles

\* The throttle lets a request pass when its bucket has room.
LEMMA AdmittedStep ==
  ASSUME AInv, GuessInv, clock' = clock, NEW q \in Requests, NEW r, requests' = [requests EXCEPT ![q] = r],
         NEW gone, failures' = Pruned(failures, gone), NEW d, ~(Len(failures'[d]) >= FailuresPerClient),
         \A b \in Buckets : Attempts(r, b) => b = d
  PROVE  GuessInv'
<1>1. failures \in [Buckets -> Seq(Nat)] /\ DOMAIN requests = Requests
  BY DEF GuessInv, AInv, Typed
<1>2. Forgiving
  BY PruneForgives
<1>3. /\ failures' \in [Buckets -> Seq(Nat)]
      /\ \A b \in Buckets : /\ Len(failures'[b]) \in Nat /\ Len(Recent(failures'[b])) \in Nat
                            /\ Len(Recent(failures'[b])) <= Len(failures'[b])
  BY <1>1, PrunedIs
<1>4. requests'[q] = r /\ \A p \in Requests \ {q} : requests'[p] = requests[p]
  BY <1>1
<1>5. ASSUME NEW b \in Buckets PROVE WithinLimit(b)'
  <2>1. CASE b # d
    <3>1. \A p \in Requests : Attempts(requests'[p], b) => Attempts(requests[p], b)
      BY <1>4, <2>1
    <3> QED BY <1>2, <3>1, BucketKept DEF Forgiving
  <2>2. CASE b = d
    <3> DEFINE n == Failed(b)'
               m == Cardinality(Attempting(b)')
    <3>1. WithinLimit(b)' <=> n + m <= FailuresPerClient + Cardinality(Requests) - 1
      BY DEF WithinLimit
    <3>2. n \in Nat /\ n < FailuresPerClient
      <4>1. n = Len(Recent(failures'[b]))
        BY FailedNow
      <4>2. ~(Len(failures'[b]) >= FailuresPerClient)
        BY <2>2
      <4> HIDE DEF n
      <4> QED BY <1>3, <4>1, <4>2, Limits
    <3>3. m \in Nat /\ m <= Cardinality(Requests)
      BY AttemptsBounded
    <3> HIDE DEF n, m
    <3> QED BY <3>1, <3>2, <3>3, Limits
  <2> QED BY <2>1, <2>2
<1> QED BY <1>3, <1>5 DEF GuessInv, Buckets, Throttles

\* A request that goes on keeps what it asks for.
LEMMA MovedFields ==
  ASSUME NEW o \in AllRequests, NEW at
  PROVE  /\ [o EXCEPT !.at = at].at = at
         /\ o.at \in {"throttle", "challenge", "slot", "check"} =>
              [o EXCEPT !.at = at].op = o.op /\ [o EXCEPT !.at = at].client = o.client
<1>1. CASE o = Free
  BY <1>1 DEF Free
<1>2. CASE o \in FormRequests
  BY <1>2 DEF FormRequests
<1>3. CASE o \in SessionRequests
  BY <1>3 DEF SessionRequests
<1>4. CASE o \in TouchRequests
  BY <1>4 DEF TouchRequests
<1>5. CASE o \in ClosingRequests
  BY <1>5 DEF ClosingRequests
<1>6. CASE o \in Recorders
  BY <1>6 DEF Recorders
<1>7. CASE o \in Revealers
  BY <1>7 DEF Revealers
<1> QED BY <1>1, <1>2, <1>3, <1>4, <1>5, <1>6, <1>7 DEF AllRequests

\* A request that is not, or no longer, past the throttle.
LEMMA AwayStep ==
  ASSUME AInv, GuessInv, Forgiving, NEW q \in Requests, NEW r, requests' = [requests EXCEPT ![q] = r],
         r.at \notin {"challenge", "slot", "check", "commit", "refuse"}
  PROVE  GuessInv'
<1>1. \A b \in Buckets : ~Attempts(r, b)
  BY DEF Attempts
<1> QED BY <1>1, CalmStep

\* Submissions wait for the throttle or for their session.
LEMMA SubmissionsCalm ==
  ASSUME AInv, GuessInv, NEW q \in Requests, NEW op, NEW c, NEW i, NEW g,
         SubmitForm(q, op, c, i, g) \/ SubmitSession(q, op, c, i, g)
  PROVE  GuessInv'
<1>1. Forgiving
  BY UntouchedForgives DEF SubmitForm, SubmitSession, throttle
<1>2. CASE SubmitForm(q, op, c, i, g)
  <2> DEFINE r == [at |-> "throttle", op |-> op, client |-> c, form |-> i, guess |-> g]
  <2>1. requests' = [requests EXCEPT ![q] = r] /\ r.at = "throttle"
    BY <1>2 DEF SubmitForm
  <2> HIDE DEF r
  <2> QED BY <1>1, <2>1, AwayStep
<1>3. CASE SubmitSession(q, op, c, i, g)
  <2> DEFINE r == [at |-> "auth", op |-> op, client |-> c, session |-> i, guess |-> g]
  <2>1. requests' = [requests EXCEPT ![q] = r] /\ r.at = "auth"
    BY <1>3 DEF SubmitSession
  <2> HIDE DEF r
  <2> QED BY <1>1, <2>1, AwayStep
<1> QED BY <1>2, <1>3

\* The steps of a session, before the throttle or after the guess.
LEMMA SessionCalm ==
  ASSUME AInv, GuessInv, NEW q \in Requests, Authenticate(q) \/ DropIdle(q) \/ Touch(q) \/ View(q) \/ HoldSecret(q)
  PROVE  GuessInv'
<1> DEFINE o == requests[q]
<1>1. Forgiving
  BY UntouchedForgives DEF Authenticate, DropIdle, Touch, View, HoldSecret, throttle
<1>2. o \in AllRequests
  BY DEF AInv, Typed
<1>3. Resume(o) \in {"throttle", "act"}
  BY DEF Resume
<1>4. CASE Authenticate(q)
  <2> DEFINE dropped == [at |-> "drop", session |-> o.session]
             touched == [at |-> "touch", op |-> o.op, client |-> o.client, session |-> o.session, guess |-> o.guess,
                         since |-> clock]
             on == [o EXCEPT !.at = Resume(o)]
             s == sessions[o.session]
             r == IF ~s.live \/ s.made + SessionLife <= clock THEN Free
                  ELSE IF Idle(o, s) THEN dropped ELSE IF TouchDue(o, s) THEN touched ELSE on
  <2>1. requests' = [requests EXCEPT ![q] = r]
    BY <1>4 DEF Authenticate
  <2>2. Free.at = "free" /\ dropped.at = "drop" /\ touched.at = "touch" /\ on.at = Resume(o)
    BY <1>2, MovedFields DEF Free
  <2>3. r \in {Free, dropped, touched, on}
    OBVIOUS
  <2> HIDE DEF r, dropped, touched, on
  <2>4. r.at \in {"free", "drop", "touch", "throttle", "act"}
    BY <1>3, <2>2, <2>3
  <2> QED BY <1>1, <2>1, <2>4, AwayStep
<1>5. CASE Touch(q)
  <2> DEFINE r == [at |-> Resume(o), op |-> o.op, client |-> o.client, session |-> o.session, guess |-> o.guess]
  <2>1. requests' = [requests EXCEPT ![q] = r] /\ r.at = Resume(o)
    BY <1>5 DEF Touch
  <2> HIDE DEF r
  <2> QED BY <1>1, <1>3, <2>1, AwayStep
<1>6. CASE DropIdle(q) \/ View(q) \/ HoldSecret(q)
  <2>1. requests' = [requests EXCEPT ![q] = Free] /\ Free.at = "free"
    BY <1>6 DEF DropIdle, View, HoldSecret, Free
  <2> QED BY <1>1, <2>1, AwayStep
<1> QED BY <1>4, <1>5, <1>6

\* A request that waits to be recorded, or to sign in.
LEMMA ThenAway ==
  ASSUME AInv, GuessInv, Forgiving, NEW q \in Requests, NEW step \in {"record", "signin"}, NEW event, NEW about,
         Then(q, step, event, about)
  PROVE  GuessInv'
<1> DEFINE r == [at |-> step, op |-> requests[q].op, client |-> requests[q].client, change |-> <<event, about>>]
<1>1. requests' = [requests EXCEPT ![q] = r] /\ r.at = step
  BY DEF Then
<1> HIDE DEF r
<1> QED BY <1>1, AwayStep

\* The changes of a session.
LEMMA ChangesCalm ==
  ASSUME AInv, GuessInv, NEW q \in Requests, Logout(q) \/ RevokeOthers(q) \/ RevokeToken(q)
  PROVE  GuessInv'
<1>1. Forgiving
  BY UntouchedForgives DEF Logout, RevokeOthers, RevokeToken, throttle
<1>2. \E changes : Finish(q, changes)
  BY DEF Logout, RevokeOthers, RevokeToken
<1>3. CASE requests' = [requests EXCEPT ![q] = Free]
  BY <1>1, <1>3, AwayStep DEF Free
<1>4. CASE \E event, about : Then(q, "record", event, about)
  BY <1>1, <1>4, ThenAway
<1> QED BY <1>2, <1>3, <1>4 DEF Finish

\* What follows a right guess.
LEMMA AfterwardsCalm ==
  ASSUME AInv, GuessInv, NEW q \in Requests, SignIn(q) \/ Record(q) \/ CommitToken(q)
  PROVE  GuessInv'
<1> DEFINE o == requests[q]
<1>1. Forgiving
  BY UntouchedForgives DEF SignIn, Record, CommitToken, throttle
<1>2. CASE requests' = [requests EXCEPT ![q] = Free]
  BY <1>1, <1>2, AwayStep DEF Free
<1>3. CASE \E event, about : Then(q, "record", event, about)
  BY <1>1, <1>3, ThenAway
<1>4. CASE SignIn(q)
  BY <1>2, <1>3, <1>4 DEF SignIn
<1>5. CASE Record(q)
  <2> DEFINE r == [o EXCEPT !.at = AfterRecord(o)]
  <2>1. requests' = [requests EXCEPT ![q] = Free] \/ requests' = [requests EXCEPT ![q] = r]
    BY <1>5 DEF Record
  <2>2. r.at = AfterRecord(o)
    BY MovedFields DEF AInv, Typed
  <2> HIDE DEF r
  <2>3. r.at \in {"signin", "reveal", "free"}
    BY <2>2 DEF AfterRecord
  <2>4. CASE requests' = [requests EXCEPT ![q] = r]
    BY <1>1, <2>3, <2>4, AwayStep
  <2> QED BY <1>2, <2>1, <2>4
<1>6. CASE CommitToken(q)
  <2> DEFINE r == [at |-> "record", op |-> "create", client |-> o.client, session |-> o.session,
                   change |-> <<"create", history.created + 1>>]
  <2>1. requests' = [requests EXCEPT ![q] = Free] \/ requests' = [requests EXCEPT ![q] = r]
    BY <1>6 DEF CommitToken
  <2>2. r.at = "record"
    OBVIOUS
  <2> HIDE DEF r
  <2>3. CASE requests' = [requests EXCEPT ![q] = r]
    BY <1>1, <2>2, <2>3, AwayStep
  <2> QED BY <1>2, <2>1, <2>3
<1> QED BY <1>4, <1>5, <1>6

\* A request that stays past the throttle.
LEMMA OnwardStep ==
  ASSUME AInv, GuessInv, Forgiving, NEW q \in Requests, requests[q].at \in {"challenge", "slot", "check"}, NEW at,
         requests' = [requests EXCEPT ![q] = [@ EXCEPT !.at = at]]
  PROVE  GuessInv'
<1> DEFINE o == requests[q]
           r == [o EXCEPT !.at = at]
<1>1. requests \in [Requests -> AllRequests]
  BY DEF AInv, Typed
<1>2. requests' = [requests EXCEPT ![q] = r]
  OBVIOUS
<1>3. r.op = o.op /\ r.client = o.client
  BY <1>1, MovedFields
<1> HIDE DEF r
<1>4. \A b \in Buckets : Attempts(r, b) => Attempts(o, b)
  BY <1>3 DEF Attempts
<1> QED BY <1>2, <1>4, CalmStep

\* A form's challenge and a place among the checks.
LEMMA WaitingCalm ==
  ASSUME AInv, GuessInv, NEW q \in Requests, Challenge(q) \/ TakeSlot(q)
  PROVE  GuessInv'
<1>1. Forgiving
  BY UntouchedForgives DEF Challenge, TakeSlot, throttle
<1>2. CASE requests' = [requests EXCEPT ![q] = Free]
  BY <1>1, <1>2, AwayStep DEF Free
<1>3. requests[q].at \in {"challenge", "slot"}
  BY DEF Challenge, TakeSlot
<1>4. \/ requests' = [requests EXCEPT ![q] = Free]
      \/ requests' = [requests EXCEPT ![q] = [@ EXCEPT !.at = "slot"]]
      \/ requests' = [requests EXCEPT ![q] = [@ EXCEPT !.at = "check"]]
  BY DEF Challenge, TakeSlot
<1> QED BY <1>1, <1>2, <1>3, <1>4, OnwardStep

\* The check of a guess.
LEMMA CheckCounted ==
  ASSUME AInv, GuessInv, NEW q \in Requests, Check(q)
  PROVE  GuessInv'
<1>1. requests[q].at = "check" /\ clock' = clock
  BY DEF Check
<1>2. CASE Correct(requests[q])
  <2> DEFINE at == IF requests[q].op = "login" THEN "signin" ELSE "commit"
  <2>1. requests' = [requests EXCEPT ![q] = [@ EXCEPT !.at = at]]
    BY <1>2 DEF Check
  <2>2. failures' = failures \/ ClearFailures(Bucket(requests[q].op), requests[q].client)
    BY <1>2 DEF Check, throttle
  <2> HIDE DEF at
  <2>3. Forgiving
    BY <1>1, <2>2, UntouchedForgives, ClearForgives
  <2> QED BY <1>1, <2>1, <2>3, OnwardStep
<1>3. CASE ~Correct(requests[q])
  <2>1. /\ RecordFailure(Bucket(requests[q].op), requests[q].client)
        /\ requests' = [requests EXCEPT ![q] = Free]
    BY <1>3 DEF Check, Refuse
  <2> QED BY <1>1, <2>1, FailureStep
<1> QED BY <1>2, <1>3

\* The commits of a claim, a reset and a change.
LEMMA CommitCounted ==
  ASSUME AInv, GuessInv, NEW q \in Requests, CommitClaim(q) \/ CommitReset(q) \/ CommitChange(q)
  PROVE  GuessInv'
<1>1. requests[q].at = "commit" /\ clock' = clock
  BY DEF CommitClaim, CommitReset, CommitChange
<1>2. CASE Refuse(q)
  <2>1. /\ RecordFailure(Bucket(requests[q].op), requests[q].client)
        /\ requests' = [requests EXCEPT ![q] = Free]
    BY <1>2 DEF Refuse
  <2> QED BY <1>1, <2>1, FailureStep
<1>3. CASE ~Refuse(q)
  <2>1. \E action : ClearFailures(action, requests[q].client)
    BY <1>3 DEF CommitClaim, CommitReset, CommitChange
  <2>2. \E step \in {"record", "signin"} : \E event, about : Then(q, step, event, about)
    BY <1>3 DEF CommitClaim, CommitReset, CommitChange
  <2>3. Forgiving
    BY <1>1, <2>1, ClearForgives
  <2> QED BY <2>2, <2>3, ThenAway
<1> QED BY <1>2, <1>3

\* The throttle.
LEMMA ThrottleCounted ==
  ASSUME AInv, GuessInv, NEW q \in Requests, Throttle(q)
  PROVE  GuessInv'
<1> DEFINE o == requests[q]
           d == <<Bucket(o.op), o.client>>
           at == IF o.op \in FormOperations THEN "challenge" ELSE "slot"
           r == [o EXCEPT !.at = at]
<1>1. o.at = "throttle" /\ clock' = clock /\ o \in AllRequests
  BY DEF Throttle, AInv, Typed
<1>2. /\ \E gone : failures' = Pruned(failures, gone)
      /\ requests' = [requests EXCEPT ![q] =
                        IF Throttled(failures', overall', Bucket(o.op), o.client) THEN Free ELSE r]
  BY DEF Throttle, Admit, Prune
<1>3. r.op = o.op /\ r.client = o.client
  BY <1>1, MovedFields
<1>4. CASE Throttled(failures', overall', Bucket(o.op), o.client)
  <2>1. requests' = [requests EXCEPT ![q] = Free]
    BY <1>2, <1>4
  <2> QED BY <1>1, <1>2, <2>1, PruneForgives, AwayStep DEF Free
<1>5. CASE ~Throttled(failures', overall', Bucket(o.op), o.client)
  <2>1. requests' = [requests EXCEPT ![q] = r]
    BY <1>2, <1>5
  <2>2. ~(Len(failures'[d]) >= FailuresPerClient)
    BY <1>5 DEF Throttled
  <2> HIDE DEF r
  <2>3. \A b \in Buckets : Attempts(r, b) => b = d
    BY <1>3 DEF Attempts
  <2> HIDE DEF d, o
  <2> QED BY <1>1, <1>2, <2>1, <2>2, <2>3, AdmittedStep
<1> QED BY <1>4, <1>5

\* A call with an invalid API token, let pass and then refused.
LEMMA CallsCounted ==
  ASSUME AInv, GuessInv, NEW q \in Requests, NEW c, NEW i, CallAPI(q, c, i)
  PROVE  GuessInv'
<1> DEFINE d == <<"api", c>>
           r == [at |-> "refuse", op |-> "api", client |-> c]
<1>1. clock' = clock /\ (\E gone : failures' = Pruned(failures, gone))
      /\ requests' = IF Throttled(failures', overall', "api", c) THEN requests
                     ELSE [requests EXCEPT ![q] = r]
  BY DEF CallAPI, Prune
<1>2. CASE Throttled(failures', overall', "api", c)
  BY <1>1, <1>2, PruneForgives, StillStep
<1>3. CASE ~Throttled(failures', overall', "api", c)
  <2>1. requests' = [requests EXCEPT ![q] = r]
    BY <1>1, <1>3
  <2>2. ~(Len(failures'[d]) >= FailuresPerClient)
    BY <1>3 DEF Throttled
  <2>3. \A b \in Buckets : Attempts(r, b) => b = d
    BY DEF Attempts, Bucket, StepUps
  <2> HIDE DEF r, d
  <2> QED BY <1>1, <2>1, <2>2, <2>3, AdmittedStep
<1> QED BY <1>2, <1>3

LEMMA RefusalsCounted ==
  ASSUME AInv, GuessInv, NEW q \in Requests, RefuseAPI(q)
  PROVE  GuessInv'
<1>1. /\ requests[q].at = "refuse" /\ clock' = clock /\ requests' = [requests EXCEPT ![q] = Free]
      /\ RecordFailure("api", requests[q].client)
  BY DEF RefuseAPI
<1>2. requests[q] \in ClosingRequests
  BY <1>1, Stands DEF AInv, Typed
<1>3. requests[q].op = "api"
  BY <1>1, <1>2 DEF ClosingRequests
<1>4. Bucket(requests[q].op) = "api"
  BY <1>3 DEF Bucket, StepUps
<1> QED BY <1>1, <1>4, FailureStep

\* A stop forgets the failures and the requests with them.
LEMMA StopCounted ==
  ASSUME AInv, GuessInv, Stop
  PROVE  GuessInv'
<1>1. /\ clock' = clock /\ requests' = [q \in Requests |-> Free] /\ failures' = [b \in Buckets |-> <<>>]
      /\ failures \in [Buckets -> Seq(Nat)]
  BY DEF Stop, GuessInv, NoFailures
<1>2. failures' \in [Buckets -> Seq(Nat)] /\ \A b \in Buckets : failures'[b] = <<>>
  BY <1>1, NoneRecent
<1>3. ASSUME NEW b \in Buckets PROVE Failed(b)' <= Failed(b)
  <2>1. failures[b] \in Seq(Nat)
    BY <1>1
  <2>2. Len(Recent(failures[b])) \in Nat /\ Len(Recent(failures'[b])) = 0
    BY <1>2, <2>1, RecentIs, NoneRecent
  <2> QED BY <1>1, <2>2, FailedNow DEF Failed
<1>4. \A b \in Buckets : \A p \in Requests : ~Attempts(requests'[p], b)
  BY <1>1 DEF Attempts, Free
<1>5. ASSUME NEW b \in Buckets PROVE WithinLimit(b)'
  BY <1>2, <1>3, <1>4, BucketKept
<1> QED BY <1>2, <1>5 DEF GuessInv, Buckets, Throttles

\* Time passes.
LEMMA TickCounted ==
  ASSUME AInv, GuessInv, Tick
  PROVE  GuessInv'
<1>1. /\ clock' = clock + 1 /\ clock \in Nat /\ failures' = failures /\ requests' = requests
      /\ failures \in [Buckets -> Seq(Nat)]
  BY DEF Tick, GuessInv, AInv, Typed, throttle
<1>2. ASSUME NEW b \in Buckets PROVE Failed(b)' <= Failed(b)
  <2> DEFINE s == failures[b]
             S == {i \in DOMAIN s : s[i] <= clock - FailureWindow}
             T == {i \in DOMAIN s : s[i] <= (clock + 1) - FailureWindow}
  <2>1. s \in Seq(Nat)
    BY <1>1
  <2>2. Failed(b) = Len(SubSeq(s, Cardinality(S) + 1, Len(s)))
    BY DEF Failed, Recent, Stale
  <2>3. Failed(b)' = Len(SubSeq(s, Cardinality(T) + 1, Len(s)))
    BY <1>1 DEF Failed, Recent, Stale
  <2>4. Cardinality(S) <= Cardinality(T)
    BY <1>1, <2>1, RecentLater
  <2>5. S \in SUBSET DOMAIN s /\ T \in SUBSET DOMAIN s
    OBVIOUS
  <2> HIDE DEF S, T, s
  <2>6. /\ Cardinality(S) \in Nat /\ Len(SubSeq(s, Cardinality(S) + 1, Len(s))) = Len(s) - Cardinality(S)
        /\ Cardinality(T) \in Nat /\ Len(SubSeq(s, Cardinality(T) + 1, Len(s))) = Len(s) - Cardinality(T)
    BY <2>1, <2>5, LeftOut
  <2>7. Len(s) \in Nat
    BY <2>1, LenProperties
  <2>8. Failed(b) = Len(s) - Cardinality(S) /\ Failed(b)' = Len(s) - Cardinality(T)
    BY <2>2, <2>3, <2>6
  <2> QED BY <2>4, <2>6, <2>7, <2>8
<1> QED BY <1>1, <1>2, StillStep DEF Forgiving

\* The process, the reset token and new forms have no part in it.
LEMMA RestCalm ==
  ASSUME AInv, GuessInv,
         \/ Start \/ IssueResetToken \/ UNCHANGED vars
         \/ \E op \in FormOperations \cap Operations, c \in Clients : LoadForm(op, c)
  PROVE  GuessInv'
<1>1. clock' = clock /\ failures' = failures /\ requests' = requests
  BY DEF Start, IssueResetToken, vars, LoadForm, throttle
<1> QED BY <1>1, UntouchedForgives, StillStep

LEMMA InitGuessInv == Init => GuessInv
<1> SUFFICES ASSUME Init PROVE GuessInv
  OBVIOUS
<1>1. failures = [b \in Buckets |-> <<>>] /\ \A q \in Requests : requests[q] = Free
  BY DEF Init, NoFailures
<1>2. failures \in [Buckets -> Seq(Nat)]
  BY <1>1, NoneRecent
<1>3. ASSUME NEW b \in Buckets PROVE WithinLimit(b)
  <2>1. Failed(b) = 0
    BY <1>1, NoneRecent DEF Failed
  <2>2. Attempting(b) = {}
    BY <1>1 DEF Attempting, Attempts, Free
  <2>3. Cardinality(Attempting(b)) = 0
    BY <2>2, FS_EmptySet
  <2> QED BY <2>1, <2>3, Limits DEF WithinLimit
<1> QED BY <1>2, <1>3 DEF GuessInv

LEMMA NextGuessInv ==
  ASSUME AInv, GuessInv, [Next]_vars
  PROVE  GuessInv'
<1>1. CASE \/ Start \/ IssueResetToken \/ UNCHANGED vars
           \/ \E op \in FormOperations \cap Operations, c \in Clients : LoadForm(op, c)
  BY <1>1, RestCalm
<1>2. CASE Stop
  BY <1>2, StopCounted
<1>3. CASE Tick
  BY <1>3, TickCounted
<1>4. ASSUME NEW q \in Requests, NEW c \in Clients, NEW f \in DOMAIN forms, NEW g \in Guesses(forms[f].op),
             SubmitForm(q, forms[f].op, c, f, g)
      PROVE  GuessInv'
  BY <1>4, SubmissionsCalm
<1>5. ASSUME NEW q \in Requests, NEW c \in Clients, NEW op \in Operations \ (FormOperations \cup {"api"}),
             NEW s \in 1 .. history.signedIn, NEW g \in Guesses(op), SubmitSession(q, op, c, s, g)
      PROVE  GuessInv'
  BY <1>5, SubmissionsCalm
<1>6. ASSUME NEW q \in Requests, NEW c \in Clients, NEW i \in 0 .. history.created, CallAPI(q, c, i)
      PROVE  GuessInv'
  BY <1>6, CallsCounted
<1>7. ASSUME NEW q \in Requests, Step(q)
      PROVE  GuessInv'
  <2>1. CASE Throttle(q)
    BY <2>1, ThrottleCounted
  <2>2. CASE Challenge(q) \/ TakeSlot(q)
    BY <2>2, WaitingCalm
  <2>3. CASE Check(q)
    BY <2>3, CheckCounted
  <2>4. CASE CommitClaim(q) \/ CommitReset(q) \/ CommitChange(q)
    BY <2>4, CommitCounted
  <2>5. CASE CommitToken(q) \/ SignIn(q) \/ Record(q)
    BY <2>5, AfterwardsCalm
  <2>6. CASE HoldSecret(q) \/ Authenticate(q) \/ DropIdle(q) \/ Touch(q) \/ View(q)
    BY <2>6, SessionCalm
  <2>7. CASE Logout(q) \/ RevokeOthers(q) \/ RevokeToken(q)
    BY <2>7, ChangesCalm
  <2>8. CASE RefuseAPI(q)
    BY <2>8, RefusalsCounted
  <2> QED BY <1>7, <2>1, <2>2, <2>3, <2>4, <2>5, <2>6, <2>7, <2>8 DEF Step
<1> QED BY <1>1, <1>2, <1>3, <1>4, <1>5, <1>6, <1>7 DEF Next

(***************************************************************************)
(* Failures that are no longer remembered.                                 *)
(*                                                                         *)
(* The count that the throttle looks at is the length of a bucket. That it *)
(* is the number of failures within the window is an invariant of its own: *)
(* a bucket is the end of all that was noted since the last success, and   *)
(* what is missing is out of the window or went with an evicted bucket.    *)
(***************************************************************************)
\* What the throttle still knows of the failures s that were noted against a
\* bucket: the last of them, u, in order. What it no longer knows is outside
\* the window at time t, or among the first e, which an eviction forgot.
Remembers(u, s, e, t) ==
  /\ u \in Seq(Nat) /\ s \in Seq(Nat) /\ e \in Nat /\ e <= Len(s) /\ Len(u) <= Len(s)
  /\ \A i \in 1 .. Len(u) : u[i] = s[Len(s) - Len(u) + i] /\ u[i] <= t
  /\ \A i, j \in 1 .. Len(u) : i <= j => u[i] <= u[j]
  /\ \A i \in 1 .. Len(s) - Len(u) : i <= e \/ s[i] <= t - FailureWindow

\* The same of every bucket.
Accounted(f, n, e, t) ==
  /\ f \in [Buckets -> Seq(Nat)] /\ n \in [Buckets -> Seq(Nat)] /\ e \in [Buckets -> Nat]
  /\ \A b \in Buckets : Remembers(f[b], n[b], e[b], t)
NotedInv == Accounted(failures, noted, evicted, clock)

\* Of times in order, those outside the window come first.
LEMMA StaleFirst ==
  ASSUME clock \in Nat, NEW u \in Seq(Nat), \A i, j \in 1 .. Len(u) : i <= j => u[i] <= u[j],
         NEW i \in 1 .. Len(u), i <= Cardinality(Stale(u))
  PROVE  u[i] <= clock - FailureWindow
<1> SUFFICES ASSUME ~(u[i] <= clock - FailureWindow) PROVE FALSE
  OBVIOUS
<1>1. Len(u) \in Nat /\ DOMAIN u = 1 .. Len(u) /\ \A j \in 1 .. Len(u) : u[j] \in Nat
  BY LenProperties, ElementOfSeq
<1>2. Stale(u) \in SUBSET (1 .. i - 1)
  <2> SUFFICES ASSUME NEW j \in Stale(u) PROVE j \in 1 .. i - 1
    OBVIOUS
  <2>1. j \in 1 .. Len(u) /\ u[j] <= clock - FailureWindow
    BY <1>1 DEF Stale
  <2>2. ~(i <= j)
    BY <1>1, <2>1, Limits
  <2> QED BY <1>1, <2>1, <2>2
<1>3. IsFiniteSet(1 .. i - 1) /\ Cardinality(1 .. i - 1) = i - 1
  <2>1. 1 \in Int /\ i - 1 \in Int /\ i - 1 >= 0
    BY <1>1
  <2>2. IsFiniteSet(1 .. i - 1) /\ Cardinality(1 .. i - 1) = IF 1 > i - 1 THEN 0 ELSE i - 1 - 1 + 1
    BY <2>1, FS_Interval
  <2> QED BY <2>1, <2>2
<1>4. Cardinality(Stale(u)) \in Nat /\ Cardinality(Stale(u)) <= i - 1
  <2>1. Cardinality(Stale(u)) <= Cardinality(1 .. i - 1)
    BY <1>2, <1>3, FS_Subset
  <2>2. Cardinality(Stale(u)) \in Nat
    BY RecentIs
  <2> QED BY <1>3, <2>1, <2>2
<1> QED BY <1>1, <1>4

\* A bucket's entries are numbers, and a part of it is its end.
LEMMA RecentEnd ==
  ASSUME NEW u \in Seq(Nat)
  PROVE  \A i \in 1 .. Len(Recent(u)) : Recent(u)[i] = u[Cardinality(Stale(u)) + i]
<1> DEFINE k == Cardinality(Stale(u))
           n == Len(u)
<1>1. k \in Nat /\ n \in Nat /\ Len(Recent(u)) = n - k /\ n - k >= 0
  BY RecentIs
<1>2. Recent(u) = SubSeq(u, k + 1, n)
  BY DEF Recent
<1> HIDE DEF k
<1>3. \A i \in k + 1 .. n : u[i] \in Nat
  <2>1. \A i \in k + 1 .. n : i \in 1 .. Len(u)
    BY <1>1
  <2> QED BY <2>1, ElementOfSeq
<1>4. \A i \in 1 .. n - k : SubSeq(u, k + 1, n)[i] = u[k + 1 + i - 1]
  <2>1. Len(SubSeq(u, k + 1, n)) = n - k
    BY <1>1, <1>2
  <2> HIDE DEF n
  <2>2. k + 1 \in Int /\ n \in Int
    BY <1>1
  <2>3. \A i \in 1 .. (n - (k + 1)) + 1 : SubSeq(u, k + 1, n)[i] = u[(k + 1) + i - 1]
    BY <1>3, <2>2, SubSeqProperties
  <2>4. (n - (k + 1)) + 1 = n - k
    BY <1>1
  <2> QED BY <2>3, <2>4
<1> HIDE DEF n
<1>5. \A i \in 1 .. n - k : k + 1 + i - 1 = k + i
  BY <1>1
<1> QED BY <1>1, <1>2, <1>4, <1>5 DEF k

\* Pruning a bucket leaves the end of what was noted.
LEMMA PruningRemembers ==
  ASSUME clock \in Nat, NEW u, NEW s, NEW e, Remembers(u, s, e, clock)
  PROVE  Remembers(Recent(u), s, e, clock)
<1> DEFINE k == Cardinality(Stale(u))
           v == Recent(u)
           m == Len(u)
           n == Len(s)
<1>1. u \in Seq(Nat) /\ s \in Seq(Nat) /\ e \in Nat /\ e <= n /\ m <= n /\ m \in Nat /\ n \in Nat
  BY LenProperties DEF Remembers
<1>2. k \in Nat /\ v \in Seq(Nat) /\ Len(v) = m - k /\ m - k \in Nat
  BY <1>1, RecentIs
<1>3. \A i \in 1 .. m - k : v[i] = u[k + i]
  BY <1>1, <1>2, RecentEnd
<1>4. \A i \in 1 .. k : u[i] <= clock - FailureWindow
  <2> SUFFICES ASSUME NEW i \in 1 .. k PROVE u[i] <= clock - FailureWindow
    OBVIOUS
  <2>1. \A a, b \in 1 .. m : a <= b => u[a] <= u[b]
    BY DEF Remembers
  <2>2. k <= m
    BY <1>1, <1>2
  <2> HIDE DEF k, m
  <2>3. i \in 1 .. m /\ i <= k
    BY <1>1, <1>2, <2>2
  <2> QED BY <1>1, <2>1, <2>3, StaleFirst DEF k, m
<1>5. /\ \A i \in 1 .. m : u[i] = s[n - m + i] /\ u[i] <= clock
      /\ \A i, j \in 1 .. m : i <= j => u[i] <= u[j]
      /\ \A i \in 1 .. n - m : i <= e \/ s[i] <= clock - FailureWindow
  BY DEF Remembers
<1> HIDE DEF k, v, m, n
<1>6. \A i \in 1 .. m - k : k + i \in 1 .. m /\ n - m + (k + i) = n - (m - k) + i
  BY <1>1, <1>2
<1>7. \A i \in 1 .. m - k : v[i] = s[n - (m - k) + i] /\ v[i] <= clock
  BY <1>3, <1>5, <1>6
<1>8. \A i, j \in 1 .. m - k : i <= j => v[i] <= v[j]
  <2> SUFFICES ASSUME NEW i \in 1 .. m - k, NEW j \in 1 .. m - k, i <= j PROVE v[i] <= v[j]
    OBVIOUS
  <2>1. k + i <= k + j
    BY <1>2
  <2> QED BY <1>3, <1>5, <1>6, <2>1
<1>9. ASSUME NEW i \in 1 .. n - (m - k), ~(i <= e)
      PROVE  s[i] <= clock - FailureWindow
  <2>1. CASE i <= n - m
    BY <1>1, <1>2, <1>5, <1>9, <2>1
  <2>2. CASE ~(i <= n - m)
    <3>1. i - (n - m) \in 1 .. k /\ i - (n - m) \in 1 .. m /\ n - m + (i - (n - m)) = i
      BY <1>1, <1>2, <2>2
    <3> QED BY <1>4, <1>5, <3>1
  <2> QED BY <2>1, <2>2
<1>10. m - k <= n
  BY <1>1, <1>2
<1> QED BY <1>1, <1>2, <1>7, <1>8, <1>9, <1>10 DEF Remembers, v, n

\* So does forgetting a bucket, when what it held counts as forgotten.
LEMMA EvictionRemembers ==
  ASSUME NEW u, NEW s, NEW e, NEW t, Remembers(u, s, e, t)
  PROVE  Remembers(<<>>, s, Len(s), t)
<1>1. s \in Seq(Nat) /\ Len(s) \in Nat /\ <<>> \in Seq(Nat) /\ Len(<<>>) = 0
  BY LenProperties, EmptySeq DEF Remembers
<1>2. \A i \in 1 .. Len(s) - 0 : i <= Len(s)
  BY <1>1
<1>3. \A i \in 1 .. 0 : FALSE
  OBVIOUS
<1> QED BY <1>1, <1>2, <1>3 DEF Remembers

LEMMA NothingNoted ==
  ASSUME NEW t
  PROVE  Remembers(<<>>, <<>>, 0, t)
<1>1. Len(<<>>) = 0 /\ <<>> \in Seq(Nat) /\ \A i \in 1 .. 0 : FALSE
  BY EmptySeq
<1> QED BY <1>1 DEF Remembers

\* A failure is the last one at either place.
LEMMA FailureRemembers ==
  ASSUME clock \in Nat, NEW u, NEW s, NEW e, Remembers(u, s, e, clock)
  PROVE  Remembers(Append(u, clock), Append(s, clock), e, clock)
<1> DEFINE v == Append(u, clock)
           r == Append(s, clock)
           m == Len(u)
           n == Len(s)
<1>1. u \in Seq(Nat) /\ s \in Seq(Nat) /\ e \in Nat /\ e <= n /\ m <= n /\ m \in Nat /\ n \in Nat
  BY LenProperties DEF Remembers
<1>2. /\ v \in Seq(Nat) /\ Len(v) = m + 1 /\ v[m + 1] = clock /\ \A i \in 1 .. m : v[i] = u[i]
      /\ r \in Seq(Nat) /\ Len(r) = n + 1 /\ r[n + 1] = clock /\ \A i \in 1 .. n : r[i] = s[i]
  BY <1>1, AppendProperties
<1>3. /\ \A i \in 1 .. m : u[i] = s[n - m + i] /\ u[i] <= clock
      /\ \A i, j \in 1 .. m : i <= j => u[i] <= u[j]
      /\ \A i \in 1 .. n - m : i <= e \/ s[i] <= clock - FailureWindow
  BY DEF Remembers
<1> HIDE DEF v, r, m, n
<1>4. (n + 1) - (m + 1) = n - m /\ e <= n + 1 /\ m + 1 <= n + 1
  BY <1>1
<1>5. ASSUME NEW i \in 1 .. m + 1
      PROVE  v[i] = r[n - m + i] /\ v[i] <= clock
  <2>1. CASE i = m + 1
    <3>1. n - m + i = n + 1
      BY <1>1, <2>1
    <3> QED BY <1>2, <2>1, <3>1
  <2>2. CASE i # m + 1
    <3>1. i \in 1 .. m /\ n - m + i \in 1 .. n
      BY <1>1, <2>2
    <3> QED BY <1>2, <1>3, <3>1
  <2> QED BY <2>1, <2>2
<1>6. ASSUME NEW i \in 1 .. m + 1, NEW j \in 1 .. m + 1, i <= j
      PROVE  v[i] <= v[j]
  <2>1. CASE j = m + 1
    BY <1>2, <1>5, <2>1
  <2>2. CASE j # m + 1
    <3>1. i \in 1 .. m /\ j \in 1 .. m
      BY <1>1, <1>6, <2>2
    <3> QED BY <1>2, <1>3, <1>6, <3>1
  <2> QED BY <2>1, <2>2
<1>7. ASSUME NEW i \in 1 .. n - m
      PROVE  i <= e \/ r[i] <= clock - FailureWindow
  <2>1. i \in 1 .. n
    BY <1>1
  <2> QED BY <1>2, <1>3, <2>1
<1>8. Remembers(v, r, e, clock)
  BY <1>1, <1>2, <1>4, <1>5, <1>6, <1>7 DEF Remembers
<1> QED BY <1>8 DEF v, r

\* What is outside the window stays outside.
LEMMA TimeRemembers ==
  ASSUME clock \in Nat, NEW u, NEW s, NEW e, Remembers(u, s, e, clock)
  PROVE  Remembers(u, s, e, clock + 1)
<1> DEFINE m == Len(u)
           n == Len(s)
<1>1. /\ u \in Seq(Nat) /\ s \in Seq(Nat) /\ m \in Nat /\ n \in Nat /\ m <= n
      /\ \A i \in 1 .. m : u[i] \in Nat
      /\ \A i \in 1 .. n : s[i] \in Nat
  BY LenProperties, ElementOfSeq DEF Remembers
<1>2. /\ \A i \in 1 .. m : u[i] <= clock
      /\ \A i \in 1 .. n - m : i <= e \/ s[i] <= clock - FailureWindow
  BY DEF Remembers
<1> HIDE DEF m, n
<1>3. \A i \in 1 .. m : u[i] <= clock + 1
  BY <1>1, <1>2
<1>4. ASSUME NEW i \in 1 .. n - m, ~(i <= e)
      PROVE  s[i] <= (clock + 1) - FailureWindow
  <2>1. i \in 1 .. n /\ s[i] <= clock - FailureWindow
    BY <1>1, <1>2, <1>4
  <2>2. s[i] \in Nat
    BY <1>1, <2>1
  <2> QED BY <2>1, <2>2, Limits
<1> QED BY <1>3, <1>4 DEF Remembers, m, n

\* Any choice of buckets to forget keeps the account of all of them.
LEMMA PruneAccounted ==
  ASSUME clock \in Nat, NEW f, NEW n, NEW e, Accounted(f, n, e, clock), NEW gone
  PROVE  Accounted(Pruned(f, gone), n, Forgotten(e, n, gone), clock)
<1>1. /\ f \in [Buckets -> Seq(Nat)] /\ n \in [Buckets -> Seq(Nat)] /\ e \in [Buckets -> Nat]
      /\ \A b \in Buckets : Remembers(f[b], n[b], e[b], clock)
  BY DEF Accounted
<1> DEFINE g == Pruned(f, gone)
           h == Forgotten(e, n, gone)
<1>2. \A b \in Buckets : g[b] = IF b \in gone THEN <<>> ELSE Recent(f[b])
  BY <1>1 DEF Pruned
<1>3. \A b \in Buckets : h[b] = IF b \in gone THEN Len(n[b]) ELSE e[b]
  BY <1>1 DEF Forgotten
<1>4. g \in [Buckets -> Seq(Nat)]
  BY <1>1, PrunedIs
<1>5. h \in [Buckets -> Nat]
  <2>1. DOMAIN h = Buckets /\ h = [b \in Buckets |-> h[b]]
    BY <1>1 DEF Forgotten
  <2>2. \A b \in Buckets : Len(n[b]) \in Nat
    BY <1>1, LenProperties
  <2>3. \A b \in Buckets : h[b] \in Nat
    BY <1>1, <1>3, <2>2
  <2> HIDE DEF h
  <2> QED BY <2>1, <2>3
<1> HIDE DEF g, h
<1>6. ASSUME NEW b \in Buckets PROVE Remembers(g[b], n[b], h[b], clock)
  <2>1. Remembers(f[b], n[b], e[b], clock)
    BY <1>1
  <2>2. CASE b \in gone
    BY <1>2, <1>3, <2>1, <2>2, EvictionRemembers
  <2>3. CASE b \notin gone
    BY <1>2, <1>3, <2>1, <2>3, PruningRemembers
  <2> QED BY <2>2, <2>3
<1> QED BY <1>1, <1>4, <1>5, <1>6 DEF Accounted, g, h

\* So does a failure, whatever bucket it counts against.
LEMMA NotingAccounted ==
  ASSUME clock \in Nat, NEW f, NEW n, NEW e, Accounted(f, n, e, clock), NEW action, NEW client
  PROVE  Accounted(Noted(f, action, client), Noted(n, action, client), e, clock)
<1>1. /\ f \in [Buckets -> Seq(Nat)] /\ n \in [Buckets -> Seq(Nat)] /\ e \in [Buckets -> Nat]
      /\ \A b \in Buckets : Remembers(f[b], n[b], e[b], clock)
  BY DEF Accounted
<1> DEFINE d == <<action, client>>
           g == Noted(f, action, client)
           h == Noted(n, action, client)
<1>2. \A b \in Buckets : Append(f[b], clock) \in Seq(Nat) /\ Append(n[b], clock) \in Seq(Nat)
  BY <1>1, AppendProperties
<1>3. /\ g = [f EXCEPT ![d] = Append(f[d], clock)]
      /\ h = [n EXCEPT ![d] = Append(n[d], clock)]
  BY DEF Noted
<1> HIDE DEF g, h, d
<1>4. /\ g \in [Buckets -> Seq(Nat)] /\ h \in [Buckets -> Seq(Nat)]
      /\ \A b \in Buckets : g[b] = IF b = d THEN Append(f[b], clock) ELSE f[b]
      /\ \A b \in Buckets : h[b] = IF b = d THEN Append(n[b], clock) ELSE n[b]
  BY <1>1, <1>2, <1>3
<1>5. ASSUME NEW b \in Buckets PROVE Remembers(g[b], h[b], e[b], clock)
  <2>1. Remembers(f[b], n[b], e[b], clock)
    BY <1>1
  <2>2. Remembers(Append(f[b], clock), Append(n[b], clock), e[b], clock)
    BY <2>1, FailureRemembers
  <2> QED BY <1>4, <2>1, <2>2
<1> QED BY <1>1, <1>4, <1>5 DEF Accounted, g, h

\* What may happen to the throttle.
LEMMA ThrottleUses ==
  ASSUME AInv, Next
  PROVE  \/ Stop \/ Tick
         \/ /\ clock' = clock
            /\ \/ UNCHANGED throttle \/ Prune
               \/ \E action, client : RecordFailure(action, client) \/ ClearFailures(action, client)
<1>1. CASE Start \/ Stop \/ IssueResetToken \/ Tick
  BY <1>1 DEF Start, IssueResetToken
<1>2. CASE \E op \in FormOperations \cap Operations, c \in Clients : LoadForm(op, c)
  BY <1>2 DEF LoadForm
<1>3. ASSUME NEW q, NEW op, NEW c, NEW i, NEW g, SubmitForm(q, op, c, i, g) \/ SubmitSession(q, op, c, i, g)
      PROVE  clock' = clock /\ UNCHANGED throttle
  BY <1>3 DEF SubmitForm, SubmitSession
<1>4. ASSUME NEW q, NEW c, NEW i, CallAPI(q, c, i)
      PROVE  clock' = clock /\ Prune
  BY <1>4 DEF CallAPI
<1>5. ASSUME NEW q \in Requests, Step(q)
      PROVE  /\ clock' = clock
             /\ \/ UNCHANGED throttle \/ Prune
                \/ \E action, client : RecordFailure(action, client) \/ ClearFailures(action, client)
  <2>1. CASE Throttle(q)
    BY <2>1 DEF Throttle, Admit
  <2>2. CASE Challenge(q) \/ TakeSlot(q)
    BY <2>2 DEF Challenge, TakeSlot
  <2>3. CASE Check(q)
    BY <2>3 DEF Check, Refuse
  <2>4. CASE CommitClaim(q) \/ CommitReset(q) \/ CommitChange(q)
    BY <2>4 DEF CommitClaim, CommitReset, CommitChange, Refuse
  <2>5. CASE CommitToken(q) \/ SignIn(q) \/ Record(q) \/ HoldSecret(q)
    BY <2>5 DEF CommitToken, SignIn, Record, HoldSecret
  <2>6. CASE Authenticate(q) \/ DropIdle(q) \/ Touch(q) \/ View(q)
    BY <2>6 DEF Authenticate, DropIdle, Touch, View
  <2>7. CASE Logout(q) \/ RevokeOthers(q) \/ RevokeToken(q)
    BY <2>7 DEF Logout, RevokeOthers, RevokeToken
  <2>8. CASE RefuseAPI(q)
    BY <2>8 DEF RefuseAPI
  <2> QED BY <1>5, <2>1, <2>2, <2>3, <2>4, <2>5, <2>6, <2>7, <2>8 DEF Step
<1> QED BY <1>1, <1>2, <1>3, <1>4, <1>5 DEF Next

LEMMA NextNotedInv ==
  ASSUME AInv, NotedInv, [Next]_vars
  PROVE  NotedInv'
<1>1. clock \in Nat /\ Accounted(failures, noted, evicted, clock)
  BY DEF AInv, Typed, NotedInv
<1>2. SUFFICES Accounted(failures', noted', evicted', clock')
  BY DEF Accounted, NotedInv, Buckets, Throttles, Remembers
<1>3. CASE clock' = clock /\ UNCHANGED throttle
  BY <1>1, <1>3 DEF throttle
<1>4. CASE clock' = clock /\ Prune
  BY <1>1, <1>4, PruneAccounted DEF Prune
<1>5. ASSUME clock' = clock, NEW action, NEW client, RecordFailure(action, client)
      PROVE  Accounted(failures', noted', evicted', clock')
  <2>1. PICK before, after :
          /\ failures' = Pruned(Noted(Pruned(failures, before), action, client), after)
          /\ noted' = Noted(noted, action, client)
          /\ evicted' = Forgotten(Forgotten(evicted, noted, before), noted', after)
    BY <1>5 DEF RecordFailure
  <2>2. Accounted(Pruned(failures, before), noted, Forgotten(evicted, noted, before), clock)
    BY <1>1, PruneAccounted
  <2>3. Accounted(Noted(Pruned(failures, before), action, client), noted', Forgotten(evicted, noted, before), clock)
    BY <1>1, <2>1, <2>2, NotingAccounted
  <2>4. Accounted(failures', noted', evicted', clock)
    BY <1>1, <2>1, <2>3, PruneAccounted
  <2> QED BY <1>5, <2>4
<1>6. ASSUME clock' = clock, NEW action, NEW client, ClearFailures(action, client)
      PROVE  Accounted(failures', noted', evicted', clock')
  <2> DEFINE d == <<action, client>>
  <2>1. /\ failures' = [failures EXCEPT ![d] = <<>>] /\ noted' = [noted EXCEPT ![d] = <<>>]
        /\ evicted' = [evicted EXCEPT ![d] = 0]
    BY <1>6 DEF ClearFailures
  <2>2. /\ failures \in [Buckets -> Seq(Nat)] /\ noted \in [Buckets -> Seq(Nat)] /\ evicted \in [Buckets -> Nat]
        /\ \A b \in Buckets : Remembers(failures[b], noted[b], evicted[b], clock)
    BY <1>1 DEF Accounted
  <2> HIDE DEF d
  <2>3. failures' \in [Buckets -> Seq(Nat)] /\ noted' \in [Buckets -> Seq(Nat)] /\ evicted' \in [Buckets -> Nat]
    BY <2>1, <2>2, EmptySeq
  <2>4. ASSUME NEW b \in Buckets PROVE Remembers(failures'[b], noted'[b], evicted'[b], clock)
    <3>1. CASE b = d
      <4>1. failures'[b] = <<>> /\ noted'[b] = <<>> /\ evicted'[b] = 0
        BY <2>1, <2>2, <3>1
      <4> QED BY <4>1, NothingNoted
    <3>2. CASE b # d
      BY <2>1, <2>2, <3>2
    <3> QED BY <3>1, <3>2
  <2> QED BY <1>6, <2>3, <2>4 DEF Accounted
<1>7. CASE Stop
  <2>1. /\ failures' = [b \in Buckets |-> <<>>] /\ noted' = [b \in Buckets |-> <<>>]
        /\ evicted' = [b \in Buckets |-> 0]
    BY <1>7 DEF Stop, NoFailures
  <2> QED BY <2>1, NothingNoted, EmptySeq DEF Accounted
<1>8. CASE Tick
  <2>1. clock' = clock + 1 /\ failures' = failures /\ noted' = noted /\ evicted' = evicted
    BY <1>8 DEF Tick, throttle
  <2>2. \A b \in Buckets : Remembers(failures[b], noted[b], evicted[b], clock + 1)
    BY <1>1, TimeRemembers DEF Accounted
  <2> QED BY <1>1, <2>1, <2>2 DEF Accounted
<1>9. CASE UNCHANGED vars
  BY <1>3, <1>9 DEF vars
<1> QED BY <1>3, <1>4, <1>5, <1>6, <1>7, <1>8, <1>9, ThrottleUses

LEMMA InitNotedInv == Init => NotedInv
<1> SUFFICES ASSUME Init PROVE NotedInv
  OBVIOUS
<1>1. failures = [b \in Buckets |-> <<>>] /\ noted = [b \in Buckets |-> <<>>] /\ evicted = [b \in Buckets |-> 0]
  BY DEF Init, NoFailures
<1> QED BY <1>1, NothingNoted, EmptySeq DEF NotedInv, Accounted

\* The failures in the window that were not evicted are all remembered.
LEMMA FreshRemembered ==
  ASSUME clock \in Nat, NEW b \in Buckets, Remembers(failures[b], noted[b], evicted[b], clock)
  PROVE  Cardinality({i \in Fresh(b) : i > evicted[b]}) <= Failed(b)
<1> DEFINE v == Recent(failures[b])
           m == Len(v)
           s == noted[b]
           n == Len(s)
           F == {i \in Fresh(b) : i > evicted[b]}
<1>1. Remembers(v, s, evicted[b], clock)
  BY PruningRemembers
<1>2. /\ v \in Seq(Nat) /\ s \in Seq(Nat) /\ m \in Nat /\ n \in Nat /\ m <= n /\ evicted[b] \in Nat
      /\ \A i \in 1 .. n : s[i] \in Nat
  BY <1>1, LenProperties, ElementOfSeq DEF Remembers
<1>3. \A i \in 1 .. n - m : i <= evicted[b] \/ s[i] <= clock - FailureWindow
  BY <1>1 DEF Remembers
<1>4. \A i \in F : i \in 1 .. n /\ s[i] > clock - FailureWindow /\ i > evicted[b]
  BY <1>2, LenProperties DEF Fresh
<1> HIDE DEF v, m, s, n, F
<1>5. F \in SUBSET (n - m + 1 .. n)
  <2> SUFFICES ASSUME NEW i \in F PROVE i \in n - m + 1 .. n
    OBVIOUS
  <2>1. i \in 1 .. n /\ s[i] > clock - FailureWindow /\ i > evicted[b] /\ s[i] \in Nat
    BY <1>2, <1>4
  <2>2. ~(i <= n - m)
    <3>1. CASE i <= n - m
      <4>1. i <= evicted[b] \/ s[i] <= clock - FailureWindow
        BY <1>2, <1>3, <2>1, <3>1
      <4> QED BY <1>2, <2>1, <4>1, Limits
    <3> QED BY <3>1
  <2> QED BY <1>2, <2>1, <2>2
<1>6. IsFiniteSet(n - m + 1 .. n) /\ Cardinality(n - m + 1 .. n) = m
  <2>1. n - m + 1 \in Int /\ n \in Int
    BY <1>2
  <2>2. /\ IsFiniteSet(n - m + 1 .. n)
        /\ Cardinality(n - m + 1 .. n) = IF n - m + 1 > n THEN 0 ELSE n - (n - m + 1) + 1
    BY <2>1, FS_Interval
  <2>3. (IF n - m + 1 > n THEN 0 ELSE n - (n - m + 1) + 1) = m
    BY <1>2
  <2> QED BY <2>2, <2>3
<1>7. Cardinality(F) <= m
  BY <1>5, <1>6, FS_Subset
<1> QED BY <1>7 DEF F, m, v, Failed

(* Of the failures of a client in a window, counted from its last success, *)
(* from the start of the process and from the eviction of its bucket, there *)
(* are at most the limit, and one more for each other request that was past *)
(* the throttle already. The throttle is asked before a guess is checked   *)
(* and told after it, so requests under way pass it together, but no more  *)
(* of them than the server handles at a time; and it forgets nothing else  *)
(* that is still in the window (throttled, recordFailure, clearFailures,   *)
(* pruneLoginAttemptsLocked).                                              *)
THEOREM GuessingLimited == Spec => []GuessesBounded
<1>1. Init => AInv /\ GuessInv /\ NotedInv
  BY InitAInv, InitGuessInv, InitNotedInv
<1>2. AInv /\ GuessInv /\ NotedInv /\ [Next]_vars => (AInv /\ GuessInv /\ NotedInv)'
  BY NextAInv, NextGuessInv, NextNotedInv
<1>3. AInv /\ GuessInv /\ NotedInv => GuessesBounded
  <2> SUFFICES ASSUME AInv, GuessInv, NotedInv, NEW b \in Buckets
               PROVE  Cardinality({i \in Fresh(b) : i > evicted[b]}) <= MostFailures
    BY DEF GuessesBounded
  <2> DEFINE F == {i \in Fresh(b) : i > evicted[b]}
             A == Attempting(b)
             f == Cardinality(F)
             n == Cardinality(A)
  <2>1. clock \in Nat /\ noted[b] \in Seq(Nat) /\ failures[b] \in Seq(Nat)
    BY DEF AInv, Typed, NotedInv, Accounted
  <2>2. f <= Failed(b)
    BY <2>1, FreshRemembered DEF NotedInv, Accounted
  <2>3. Failed(b) + n <= FailuresPerClient + Cardinality(Requests) - 1 /\ Failed(b) \in Nat
    BY <2>1, RecentIs DEF GuessInv, WithinLimit, Failed
  <2>4. n \in Nat
    <3>1. A \in SUBSET Requests
      BY DEF Attempting
    <3> HIDE DEF A
    <3> QED BY <3>1, Limits, FS_Subset, FS_CardinalityType
  <2>5. f \in Nat
    <3>1. F \in SUBSET DOMAIN noted[b]
      BY DEF Fresh
    <3> HIDE DEF F
    <3> QED BY <2>1, <3>1, LeftOut
  <2> HIDE DEF f, n
  <2>6. f <= FailuresPerClient + Cardinality(Requests) - 1
    BY <2>2, <2>3, <2>4, <2>5, Limits
  <2> QED BY <2>6 DEF MostFailures, f, F
<1> QED BY <1>1, <1>2, <1>3, PTL DEF Spec
=============================================================================
