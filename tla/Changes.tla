------------------------------- MODULE Changes -------------------------------
(***************************************************************************)
(* What two answers about a device become: the fields that differ, how     *)
(* severe the change is, and who is credited with it.  Sources:            *)
(* internal/model/{model,severity,shares,attribution}.go,                  *)
(* internal/store/attribution.go and the parts of internal/store/          *)
(* snapshots.go that call them.                                            *)
(*                                                                         *)
(* A behaviour is about one device as one collector describes it: devices  *)
(* (authorized, client version, tags) or device_details (posture           *)
(* attributes, share invites).  Administrators edit the device, and each   *)
(* edit enters the tailnet's audit log; the node upgrades itself, which    *)
(* does not.  A poll reads the collector for a while, then the others,     *)
(* then the audit log over a window, and records what differs.             *)
(*                                                                         *)
(* A document is what normalizeFor leaves of an answer: the volatile       *)
(* fields are gone and a list is sorted, hence a set here.  Clocks agree,  *)
(* and no two audit entries have the same time.                            *)
(***************************************************************************)
EXTENDS Integers, Sequences, FiniteSets, FiniteSetsExt

CONSTANTS
  Null, Missing,   \* a JSON null; a field or element that is not there
  Ids,             \* ids of share invites; 0 stands for one without an id
  EditedIds,       \* bound: the invites that are edited
  Drifts,          \* what was stored of the device, and what it is by now
  MaxFields,       \* maxDiffFields
  Skew,            \* AttributionClockSkew
  ReadTime,        \* collectorPollTimeout: the longest a collector reads
  Lookback,        \* RemovalLookback: the polling interval
  MaxWindow,       \* MaxAttributionWindow
  MaxTime,         \* bound: the clock
  MaxEdits         \* bound: entries in the audit log

\* What a collector may tell of a device.
None == [kind |-> "none"]
Invites == [id : Ids \cup {0}, accepted : BOOLEAN, allowExitNode : BOOLEAN, lastEmailSentAt : Nat]
Lists == {Null, Missing} \cup SUBSET Invites
DeviceDocs == [authorized : BOOLEAN, clientVersion : Nat, tags : SUBSET {"tag"}]
DetailDocs == [postureAttributes : Int, deviceInvites : Lists]

ASSUME ChangesAssumption ==
  /\ Ids \subseteq Nat \ {0} /\ IsFiniteSet(Ids) /\ EditedIds \subseteq Ids
  /\ MaxFields \in Nat \ {0} /\ Lookback \in Nat /\ MaxWindow \in Nat
  /\ ReadTime \in Nat /\ Skew \in Nat /\ ReadTime <= Skew
  /\ Missing \notin Invites
  /\ Drifts \subseteq {"devices"} \X (DeviceDocs \cup {None}) \X (DeviceDocs \cup {None})
                    \cup {"device_details"} \X DetailDocs \X DetailDocs

VARIABLES
  collector,    \* the collector, the same throughout
  now,          \* the clock
  live,         \* what the collector would answer: a document or None
  log,          \* the configuration audit log
  stored,       \* the snapshots row
  view,         \* history: the document the recorded changes add up to
  lastSuccess,  \* collector_state.last_success
  guard,        \* its failures and error, and the removal guard's mark
  poll,         \* the poll under way
  record        \* what the last step recorded

vars == <<collector, now, live, log, stored, view, lastSuccess, guard, poll, record>>

Subfields == {"accepted", "allowExitNode", "lastEmailSentAt"}
Never == -1
FailureCap == 2     \* more failures make no difference to the guard

-----------------------------------------------------------------------------
(* The difference of two documents.  A path is <<field, id, subfield>>     *)

IsList(v) == v \notin {Null, Missing}
Listed(v) == IF IsList(v) THEN v ELSE {}
Element(v, id) ==
  IF \E e \in Listed(v) : e.id = id
  THEN CHOOSE e \in Listed(v) : e.id = id ELSE Missing
Lookup(doc, path) ==
  LET e == Element(doc[path[1]], path[2])
  IN  IF path[2] = 0 THEN doc[path[1]]
      ELSE IF path[3] = "" \/ e = Missing THEN e ELSE e[path[3]]

\* every element of the list has an id of its own
IdentifiedBy(list) ==
  /\ \A e \in list : e.id # 0
  /\ \A e, f \in list : e.id = f.id => e = f

\* (mutant) elements without an id are matched like the others
KeyedRegardless(a, b) == IsList(a) /\ IsList(b)

\* are two lists compared element by element?
ArrayIdentity(a, b) ==
  /\ \/ IsList(a) /\ IsList(b)
     \/ ~ IsList(a) /\ IsList(b) /\ b # {}
     \/ IsList(a) /\ a # {} /\ ~ IsList(b)
  /\ IdentifiedBy(Listed(a)) /\ IdentifiedBy(Listed(b))

ElementPaths(a, b, id) ==
  LET e == Element(a, id)
      f == Element(b, id)
  IN  IF e = Missing /\ f = Missing THEN {}
      ELSE IF e = Missing \/ f = Missing THEN {<<"deviceInvites", id, "">>}
      ELSE {<<"deviceInvites", id, s>> : s \in {t \in Subfields : e[t] # f[t]}}

InvitePaths(a, b) ==
  IF ArrayIdentity(a, b) THEN UNION {ElementPaths(a, b, id) : id \in Ids}
  ELSE IF a = b THEN {} ELSE {<<"deviceInvites", 0, "">>}

\* DiffDetailed: the paths at which two documents differ
Diff(old, new) ==
  UNION {IF f = "deviceInvites" THEN InvitePaths(old[f], new[f])
         ELSE IF old[f] = new[f] THEN {} ELSE {<<f, 0, "">>} : f \in DOMAIN old}

\* fields are visited in alphabetical order, and elements in that of their ids
Alphabet == <<"", "accepted", "allowExitNode", "authorized", "clientVersion",
              "deviceInvites", "lastEmailSentAt", "postureAttributes", "tags">>
Rank == [name \in {Alphabet[i] : i \in DOMAIN Alphabet} |->
           CHOOSE i \in DOMAIN Alphabet : Alphabet[i] = name]
Precedes(p, q) ==
  \/ Rank[p[1]] < Rank[q[1]]
  \/ p[1] = q[1] /\ p[2] < q[2]
  \/ p[1] = q[1] /\ p[2] = q[2] /\ Rank[p[3]] < Rank[q[3]]
Kept(paths) ==
  IF Cardinality(paths) <= MaxFields THEN paths
  ELSE {p \in paths : Cardinality({q \in paths : Precedes(q, p)}) < MaxFields}

-----------------------------------------------------------------------------
(* Severity: 1 is low, 2 medium, 3 high                                    *)

SwitchedOn(old, new) == old \in {FALSE, Missing} /\ new = TRUE

\* FieldSeverity of one changed field of an invite
FieldSeverity(subfield, old, new) ==
  IF subfield = "lastEmailSentAt" THEN 1 ELSE IF SwitchedOn(old, new) THEN 3 ELSE 2

\* ShareTransition.Severity of one reported path below deviceInvites
ShareSeverity(path, old, new) ==
  LET a == Lookup(old, path)
      b == Lookup(new, path)
  IN  IF path[3] # "" THEN FieldSeverity(path[3], a, b)
      ELSE IF a = Missing /\ (b.allowExitNode \/ b.accepted) THEN 3 ELSE 2

ClassifyDeviceDetails(paths, old, new) ==
  Max({1} \cup {IF p[2] = 0 THEN 2 ELSE ShareSeverity(p, old, new) : p \in paths})

ClassifyDeviceFields(paths, old, new) ==
  IF \E p \in paths : \/ p[1] = "tags"
                      \/ /\ p[1] = "authorized"
                         /\ SwitchedOn(Lookup(old, p), Lookup(new, p)) THEN 3
  ELSE IF \E p \in paths : p[1] # "clientVersion" THEN 2
  ELSE 1

\* (mutant) the fields that are shown decide, however many are left out
ClassifyShown(c, kind, old, new) ==
  LET all   == Diff(old, new)
  IN  CASE kind = "created" -> IF new.tags # {} THEN 3 ELSE 2
        [] kind = "removed" -> 2
        [] OTHER -> IF c = "devices" THEN ClassifyDeviceFields(Kept(all), old, new)
                    ELSE ClassifyDeviceDetails(Kept(all), old, new)

Classify(c, kind, old, new) ==
  LET all   == Diff(old, new)
      shown == IF c = "devices" THEN ClassifyDeviceFields(Kept(all), old, new)
               ELSE ClassifyDeviceDetails(Kept(all), old, new)
  IN  CASE kind = "created" -> IF new.tags # {} THEN 3 ELSE 2
        [] kind = "removed" -> 2
        [] OTHER -> Max({shown} \cup {2 : p \in all \ Kept(all)})

-----------------------------------------------------------------------------
(* Attribution                                                             *)

ShareTarget(e) == e.type = "INVITE"
InviteIds(paths) == {p[2] : p \in paths} \ {0}

\* the device, id 0 of an INVITE entry, or one of the changed invites
ShareEntryFits(paths, e) ==
  InviteIds(paths) # {} /\ e.target \in InviteIds(paths) \cup {0}

PropertyOf(field) ==
  CASE field = "tags" -> {"ACL_TAGS"}
    [] field = "postureAttributes" -> {"ATTRIBUTES"}
    [] OTHER -> {}

\* entryFitsKind, for an entry that names the device's node
EntryFitsKind(change, e) ==
  CASE change.kind = "created" -> e.action \in {"CREATE", "APPROVE"}
    [] change.kind = "removed" -> e.action = "DELETE"
    [] change.kind = "changed" ->
         IF change.shown # change.paths THEN InviteIds(change.shown) = {}
         ELSE \E p \in change.shown :
                \/ p[1] = "authorized" /\ e.action = "APPROVE"
                \/ e.property \in PropertyOf(p[1])

Explains(c, change, e) ==
  /\ ~ e.failed
  /\ IF c = "device_details" /\ ShareTarget(e)
     THEN ShareEntryFits(change.shown, e)
     ELSE e.type = "NODE" /\ EntryFitsKind(change, e)

KindRank(change, e) ==
  IF \/ change.kind = "created" /\ e.action = "CREATE"
     \/ change.kind = "removed" /\ e.action = "DELETE" THEN 1 ELSE 0

\* Attribute: the entries of the window that explain the change best
Best(c, change, start, notAfter) ==
  LET candidates == {k \in DOMAIN log : /\ log[k].at \in start..notAfter
                                        /\ Explains(c, change, log[k])}
  IN  {k \in candidates : \A j \in candidates :
         \/ KindRank(change, log[k]) > KindRank(change, log[j])
         \/ /\ KindRank(change, log[k]) = KindRank(change, log[j])
            /\ log[k].at >= log[j].at}

\* (mutant) the tolerance for late entries is given to all of them
BestWithTolerance(c, change, start, observed) ==
  Best(c, change, start, observed + Skew)

\* attributeChange: an entry after the fetch only if none before it explains
Credits(c, change, start, observed) ==
  LET before == Best(c, change, start, observed)
  IN  IF before # {} THEN before
      ELSE Best(c, change, start, observed + Skew)

-----------------------------------------------------------------------------
(* The tailnet                                                             *)

World == <<live, log>>
State == <<stored, view, lastSuccess, guard>>
NoRecord == record' = None /\ UNCHANGED collector

\* an audit entry of this instant; did (history) is the share it was about
Logged(type, target, did, action, property, failed) ==
  /\ live # None \/ action = "CREATE"
  /\ Len(log) < MaxEdits
  /\ \A k \in DOMAIN log : log[k].at < now
  /\ log' = Append(log, [at |-> now, type |-> type, target |-> target,
                         did |-> did, action |-> action,
                         property |-> property, failed |-> failed])
  /\ NoRecord /\ UNCHANGED <<now, poll, State>>

Join(tags) ==
  /\ collector = "devices" /\ live = None /\ log = <<>>
  /\ Logged("NODE", 0, 0, "CREATE", "", FALSE)
  /\ live' = [authorized |-> FALSE, clientVersion |-> 0, tags |-> tags]

Remove ==
  /\ collector = "devices"
  /\ Logged("NODE", 0, 0, "DELETE", "", FALSE)
  /\ live' = None

Approve ==
  /\ collector = "devices" /\ live # None /\ ~ live.authorized
  /\ Logged("NODE", 0, 0, "APPROVE", "", FALSE)
  /\ live' = [live EXCEPT !.authorized = TRUE]

\* the audit log shows it whichever collector answers
Retag(failed) ==
  /\ Logged("NODE", 0, 0, "UPDATE", "ACL_TAGS", failed)
  /\ live' = IF failed \/ collector # "devices" THEN live
             ELSE [live EXCEPT !.tags = {"tag"} \ @]

\* the node's own doing
Upgrade ==
  /\ collector = "devices" /\ live # None /\ live.clientVersion = 0
  /\ live' = [live EXCEPT !.clientVersion = 1]
  /\ NoRecord /\ UNCHANGED <<now, log, poll, State>>

SetAttribute ==
  /\ collector = "device_details"
  /\ Logged("NODE", 0, 0, "UPDATE", "ATTRIBUTES", FALSE)
  /\ live' = [live EXCEPT !.postureAttributes = 1 - @]

EditShares(list, id, target, action) ==
  /\ Logged("INVITE", target, id, action, "", FALSE)
  /\ live' = [live EXCEPT !.deviceInvites = list]

Share(id, exit) ==
  /\ collector = "device_details" /\ Element(live.deviceInvites, id) = Missing
  /\ EditShares(Listed(live.deviceInvites) \cup
                   {[id |-> id, accepted |-> FALSE, allowExitNode |-> exit,
                     lastEmailSentAt |-> 0]}, id, id, "CREATE")

Unshare(id) ==
  /\ collector = "device_details" /\ Element(live.deviceInvites, id) # Missing
  /\ LET left == live.deviceInvites \ {Element(live.deviceInvites, id)}
     IN  \E list \in {left} \cup {v \in {Missing} : left = {}} :
           EditShares(list, id, id, "DELETE")

\* accept a share, switch its exit node, send its e-mail again; the entry names
\* the invite, or the device
UpdateShare(id) ==
  /\ collector = "device_details" /\ Element(live.deviceInvites, id) # Missing
  /\ LET e == Element(live.deviceInvites, id)
     IN  \E f \in {[e EXCEPT !.accepted = TRUE],
                   [e EXCEPT !.allowExitNode = ~ @],
                   [e EXCEPT !.lastEmailSentAt = 1]} \ {e}, target \in {id, 0} :
           EditShares((live.deviceInvites \ {e}) \cup {f}, id, target, "UPDATE")

-----------------------------------------------------------------------------
(* A poll                                                                  *)

Idle == [step |-> "idle"]
Ok(doc) == IF doc = None THEN [kind |-> "gone"] ELSE [kind |-> "ok", doc |-> doc]
Omitted == [kind |-> "omitted"]      \* a partial answer without this device

BeginPoll ==
  /\ poll = Idle
  /\ \E answer \in {Ok(live)} \cup {a \in {Omitted} : collector = "device_details"} :
       poll' = [step |-> "reading", began |-> now, answer |-> answer,
                upto |-> Len(log), observed |-> now]
  /\ NoRecord /\ UNCHANGED <<now, World, State>>

\* the collector does not answer; only its health is recorded
FailPoll ==
  /\ poll = Idle
  /\ guard' = [guard EXCEPT !.failures = Min({@ + 1, FailureCap}), !.error = "other"]
  /\ stored' = IF stored = None THEN None
               ELSE [stored EXCEPT !.broken = @ \/ (guard.error = "guard")]
  /\ NoRecord /\ UNCHANGED <<now, World, view, lastSuccess, poll>>

EndRead ==
  /\ poll.step = "reading"
  /\ poll' = [poll EXCEPT !.step = "fetched", !.observed = now]
  /\ NoRecord /\ UNCHANGED <<now, World, State>>

Tick ==
  /\ now < MaxTime
  /\ poll.step = "reading" => now - poll.began < ReadTime
  /\ now' = now + 1
  /\ NoRecord /\ UNCHANGED <<World, State, poll>>

Answered(kind) == poll.answer.kind = kind
Removal == Answered("gone") /\ stored # None /\ stored.missing = 1

Change ==
  LET doc   == poll.answer.doc
      paths == Diff(stored.doc, doc)
      Lifecycle(kind, old, new) ==
        [kind |-> kind, old |-> old, new |-> new, paths |-> {}, shown |-> {}]
  IN  CASE Answered("ok") /\ stored = None -> Lifecycle("created", None, doc)
        [] Answered("ok") /\ stored # None /\ stored.doc # doc ->
             [kind |-> "changed", old |-> stored.doc, new |-> doc,
              paths |-> paths, shown |-> Kept(paths)]
        [] Removal -> Lifecycle("removed", stored.doc, None)
        [] OTHER -> None

\* (mutant) a removal is searched from where a change would be
WindowOfAChange == Max({now + Skew - MaxWindow, lastSuccess - Skew})

\* attributionWindow: from where the audit log is searched
Oldest == now + Skew - MaxWindow
WindowStart ==
  LET since == Min({lastSuccess} \cup {t \in {guard.mark} : Removal /\ t # Never})
  IN  Max({Oldest, since - Skew - (IF Removal THEN Lookback ELSE 0)})

\* the answer leaves out most devices and the guard still holds
MayGuard == /\ Answered("gone") /\ stored # None /\ stored.missing = 0
            /\ guard.error # "guard" \/ guard.failures < 2

Health(held, row) ==
  CASE held -> [failures |-> Min({guard.failures + 1, FailureCap}), error |-> "guard",
                mark |-> IF guard.error = "guard" THEN guard.mark ELSE lastSuccess]
    [] Answered("omitted") -> guard
    [] OTHER -> [failures |-> 0, error |-> "",
                 mark |-> IF row = None \/ row.missing = 0 THEN Never ELSE guard.mark]

\* the row after the answer; late and broken are history
Row(held) ==
  CASE Answered("ok") -> [doc |-> poll.answer.doc, missing |-> 0, upto |-> poll.upto,
                          late |-> FALSE, broken |-> FALSE]
    [] Answered("gone") /\ stored # None ->
         IF Removal THEN None
         ELSE [stored EXCEPT
                 !.missing = IF held THEN 0 ELSE 1,
                 !.late = @ \/ (poll.observed - lastSuccess > Lookback)]
    [] Answered("omitted") /\ stored # None -> [stored EXCEPT !.broken = TRUE]
    [] OTHER -> stored

\* history: applying the reported fields to a document
Rebuild(doc, paths, new) ==
  LET added == {Element(new.deviceInvites, p[2]) :
                  p \in {q \in paths : q[2] # 0 /\ q[3] = ""}} \ {Missing}
      kept  == {e \in Listed(doc.deviceInvites) : <<"deviceInvites", e.id, "">> \notin paths}
      Updated(e) == [s \in DOMAIN e |->
                       IF <<"deviceInvites", e.id, s>> \in paths
                       THEN Lookup(new, <<"deviceInvites", e.id, s>>) ELSE e[s]]
  IN  [f \in DOMAIN doc |->
        IF <<f, 0, "">> \in paths THEN new[f]
        ELSE IF f = "deviceInvites" /\ InviteIds(paths) # {}
        THEN added \cup {Updated(e) : e \in kept}
        ELSE doc[f]]

View(change) ==
  CASE change = None -> view
    [] change # None /\ change.kind # "changed" -> change.new
    [] OTHER -> IF change.shown = change.paths
                THEN Rebuild(view, change.shown, change.new) ELSE change.new

\* ApplyBatch: the audit log is read in time and whole, or not at all
Apply(held) ==
  /\ poll.step = "fetched"
  /\ held => MayGuard
  /\ stored' = Row(held)
  /\ lastSuccess' = poll.observed
  /\ guard' = Health(held, Row(held))
  /\ LET change == Change
         best   == Credits(collector, change, WindowStart, poll.observed)
     IN  /\ view' = View(change)
         /\ \/ change = None /\ record' = None
            \/ change # None /\ \E complete \in BOOLEAN :
                 \E credit \in IF complete /\ best # {} THEN best ELSE {0} :
                   record' =
                     [change |-> change, complete |-> complete, credit |-> credit,
                      severity |-> Classify(collector, change.kind, change.old, change.new),
                      start |-> WindowStart, oldest |-> Oldest,
                      after |-> IF stored = None THEN 0 ELSE stored.upto,
                      upto |-> poll.upto, observed |-> poll.observed,
                      beyond |-> /\ stored # None
                                 /\ stored.broken \/ (stored.late /\ guard.mark = Never)]
  /\ poll' = Idle
  /\ UNCHANGED <<collector, now, World>>

\* a device that has not joined yet, or one that was stored and may have
\* changed since, longer ago than the audit log reaches
Init ==
  /\ now = 0 /\ log = <<>>
  /\ \E drift \in Drifts :
       /\ collector = drift[1] /\ view = drift[2] /\ live = drift[3]
       /\ stored = IF view = None THEN None
                   ELSE [doc |-> view, missing |-> 0, upto |-> 0,
                         late |-> FALSE, broken |-> FALSE]
  /\ lastSuccess = 0
  /\ guard = [failures |-> 0, error |-> "", mark |-> Never]
  /\ poll = Idle /\ record = None

Next ==
  \/ Tick
  \/ \E tags \in SUBSET {"tag"} : Join(tags)
  \/ Remove \/ Approve \/ SetAttribute \/ Upgrade
  \/ \E failed \in BOOLEAN : Retag(failed)
  \/ \E id \in EditedIds : UpdateShare(id) \/ Unshare(id)
  \/ \E id \in EditedIds, exit \in BOOLEAN : Share(id, exit)
  \/ BeginPoll \/ FailPoll \/ EndRead
  \/ \E held \in BOOLEAN : Apply(held)

Spec == Init /\ [][Next]_vars

-----------------------------------------------------------------------------
(* Properties                                                              *)

Collectors == {"devices", "device_details"}
Docs(c) == IF c = "devices" THEN DeviceDocs ELSE DetailDocs
Snapshot(c) == [doc : Docs(c), missing : {0, 1}, upto : Nat, late : BOOLEAN, broken : BOOLEAN]
Answers(c) == [kind : {"gone", "omitted"}] \cup [kind : {"ok"}, doc : Docs(c)]
Entries ==
  [at : Nat, type : {"NODE", "INVITE"}, target : Ids \cup {0}, did : Ids \cup {0},
   action : {"CREATE", "DELETE", "APPROVE", "UPDATE"},
   property : {"", "ACL_TAGS", "ATTRIBUTES"}, failed : BOOLEAN]

\* A details answer is never that the device is gone: it is there or left out.
TypeOK ==
  /\ collector \in Collectors
  /\ now \in Nat
  /\ live \in Docs(collector) \cup {d \in {None} : collector = "devices"}
  /\ log \in Seq(Entries)
  /\ stored \in Snapshot(collector) \cup {None}
  /\ view \in Docs(collector) \cup {None}
  /\ lastSuccess \in Nat
  /\ guard \in [failures : 0..FailureCap, error : {"", "other", "guard"}, mark : Nat \cup {Never}]
  /\ poll \in [step : {"reading", "fetched"}, began : Nat, answer : Answers(collector),
               upto : Nat, observed : Nat] \cup {Idle}

\* documents up to the form of an empty share list
SameDocument(a, b) ==
  IF a = None \/ b = None THEN a = b
  ELSE \A f \in DOMAIN a : IF f = "deviceInvites" THEN Listed(a[f]) = Listed(b[f])
                           ELSE a[f] = b[f]

\* Whoever applies the recorded fields, one change after the other, arrives at
\* the snapshot that is stored: no difference is lost between lists with and
\* without ids, null, empty and absent ones, and no change is without a field.
FieldsExplainSnapshots ==
  /\ stored = None <=> view = None
  /\ stored # None => SameDocument(view, stored.doc)
  /\ record # None /\ record.change.kind = "changed" => record.change.shown # {}

\* docs/notifications.md, "Severity and routing", read off the two documents
Access(e) == {f \in {"accepted", "allowExitNode"} : e # Missing /\ e[f]}
WorstOfDevice(old, new) ==
  IF old.tags # new.tags \/ (new.authorized /\ ~ old.authorized) THEN 3
  ELSE IF old.authorized # new.authorized THEN 2
  ELSE 1
WorstOfDetails(old, new) ==
  LET a == Listed(old.deviceInvites)
      b == Listed(new.deviceInvites)
      alike == /\ old.postureAttributes = new.postureAttributes
               /\ {e.id : e \in a} = {f.id : f \in b}
               /\ \A f \in b : Access(f) = Access(Element(a, f.id))
               /\ a = {} /\ b = {} => old.deviceInvites = new.deviceInvites
  IN  IF ~ (IdentifiedBy(a) /\ IdentifiedBy(b)) THEN 2
      ELSE IF \E f \in b : ~ (Access(f) \subseteq Access(Element(a, f.id))) THEN 3
      ELSE IF alike THEN 1
      ELSE 2

\* A recorded change is as severe as the worst thing that happened between the
\* two documents, in whatever form its fields were recorded; one whose fields
\* were cut off is never below medium, and never above what happened.
SeverityIsWorst ==
  record # None /\ record.change.kind = "changed" =>
    LET ch    == record.change
        worst == IF collector = "devices" THEN WorstOfDevice(ch.old, ch.new)
                 ELSE WorstOfDetails(ch.old, ch.new)
    IN  IF ch.shown = ch.paths THEN record.severity = worst
        ELSE record.severity \in 2..Max({2, worst})

\* did this successful edit bring about the change, at one of these paths?
Touches(e, change, paths) ==
  LET of(fields) == \E p \in paths : p[1] \in fields
  IN  /\ ~ e.failed
      /\ \/ change.kind = "created" /\ e.action = "CREATE" /\ e.type = "NODE"
         \/ change.kind = "removed" /\ e.action = "DELETE" /\ e.type = "NODE"
         \/ e.action = "APPROVE" /\ of({"authorized"})
         \/ e.property = "ACL_TAGS" /\ of({"tags"})
         \/ e.property = "ATTRIBUTES" /\ of({"postureAttributes"})
         \/ e.type = "INVITE" /\ e.did \in InviteIds(paths)

\* the edits between the two documents that the search reaches
Editors(r) ==
  {k \in r.after + 1..r.upto : log[k].at >= r.oldest /\ Touches(log[k], r.change, r.change.shown)}

\* When the audit log answers, a change somebody made is credited to somebody,
\* through failed polls, polls that take long, removals confirmed one poll late
\* and removals held back by the guard.  Not so after a partial answer without
\* the device (it moves last_success on), when the polls before and after a
\* removal are further apart than the interval, or when a failed poll makes the
\* guard engage again.
EditorsAreNamed ==
  LET r == record IN
    r # None /\ r.complete /\ ~ r.beyond /\ Editors(r) # {} =>
      r.credit # 0

\* Who may be credited without having touched what changed.  A share entry that
\* names the device and not the invite fits a change of any of its invites; an
\* approval stands in for the creation of a device; and when the list of fields
\* was cut off, any edit of the device's node fits, unless invites are listed.
NamesDeviceOnly(e, change) ==
  e.type = "INVITE" /\ e.target = 0 /\ InviteIds(change.shown) # {}
StandsInForCreation(e, change) ==
  change.kind = "created" /\ e.type = "NODE" /\ e.action = "APPROVE"
FitsCutOffList(e, change) ==
  /\ change.kind = "changed" /\ change.shown # change.paths
  /\ InviteIds(change.shown) = {} /\ e.type = "NODE"

\* Whoever is credited made a successful edit of the device after the snapshot
\* that the change is compared with.  The edit is of a part that changed, but for
\* the three exceptions above; an approval stands in only if the search reaches
\* no creation, and an edit after the fetch is credited only if it reaches no
\* edit of what changed before it.  docs/monitoring.md:192 names no exceptions.
OnlyEditorsCredited ==
  LET r == record IN
    r # None /\ r.credit # 0 =>
      LET e     == log[r.credit]
          first == {k \in Editors(r) : log[k].at >= r.start}
      IN  /\ r.credit > r.after /\ ~ e.failed
          /\ \/ Touches(e, r.change, r.change.paths)
             \/ NamesDeviceOnly(e, r.change)
             \/ StandsInForCreation(e, r.change) /\ first = {}
             \/ FitsCutOffList(e, r.change)
          /\ e.at > r.observed => first = {}
=============================================================================
