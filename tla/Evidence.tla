------------------------------ MODULE Evidence ------------------------------
(***************************************************************************)
(* The evidence ledger: a hash chain with one entry per recorded event     *)
(* batch (store/signing.go), the packs exported from it (evidence.go) and  *)
(* their verifier (evidence_verify.go), the online audit (audit.go), and   *)
(* the retention that removes batches while others read them (status.go).  *)
(*                                                                         *)
(* A reader (an export, or an audit in a process of its own) issues one    *)
(* statement at a time; every other operation is one transaction.          *)
(***************************************************************************)
EXTENDS Integers, Sequences, FiniteSets, FiniteSetsExt, SequencesExt

CONSTANTS
  MaxBatch,      \* bound: batch ids are 1..MaxBatch
  Legacy,        \* batches 1..Legacy were stored before there was a ledger
  Cutoff,        \* the backfill boundary the migration authorised, or 0
  Chunk,         \* batches per backfill transaction (64 in the code)
  Kinds,         \* kinds of events; a batch has at most one of each
  Contents,      \* what a poll may record: its kinds of events and trigger ids
  PageLimit,     \* batches per exported page (100 in the code)
  PageBudget,    \* read budget of a page, in events
  MaxEvents,     \* events per pack (2,000 in the code)
  MaxLinks,      \* ledger links per pack (10,000 in the code)
  MaxPack,       \* encoded size of a pack, in events and links
  AuditPage,     \* entries per audit page
  DeleteLimit    \* events one retention transaction removes

ASSUME EvidenceAssumption ==
  /\ {MaxBatch, PageLimit, MaxEvents, AuditPage, Chunk} \subseteq Nat \ {0}
  /\ {Legacy, Cutoff, PageBudget, MaxPack, DeleteLimit} \subseteq Nat
  /\ MaxLinks \in Nat /\ MaxLinks >= 2
  /\ Cutoff <= Legacy /\ Legacy <= MaxBatch
  /\ Contents \subseteq [events : (SUBSET Kinds) \ {{}}, triggers : SUBSET (Nat \ {0})]
  /\ IsFiniteSet(Kinds)

VARIABLES
  rows,        \* event_batches: count and first trigger, or NoRow
  events,      \* the kinds of the events of each batch
  links,       \* event_batch_triggers of each batch
  ledger,      \* evidence_ledger, by sequence
  head,        \* meta.evidence_ledger_head, or the empty hash
  boot,        \* where the service is in its start
  cursor,      \* meta.evidence_ledger_backfill_cursor
  backfilled,  \* meta.evidence_ledger_backfilled_at is set
  reader,      \* the export or audit under way
  chain        \* the paginated export the operator is following

dbvars == <<rows, events, links, ledger, head>>
bootvars == <<boot, cursor, backfilled>>
vars == <<dbvars, bootvars, reader, chain>>

Ids == 1 .. MaxBatch
NoRow == [count |-> 0, first |-> 0]
All == "all"                        \* the filter that selects every event
Filters == Kinds \cup {All}
NoChain == [filter |-> All, next |-> 0, top |-> 0, parts |-> <<>>]
Idle == [at |-> "idle"]

\* Element n of a set of numbers, from the smallest on.
Nth(S, n) == CHOOSE x \in S : Cardinality({y \in S : y <= x}) = n

Stored == {b \in Ids : rows[b] # NoRow}
NextId == 1 + Max({Legacy} \cup {ledger[i].batch : i \in DOMAIN ledger})
FirstTrigger(ts) == IF ts = {} THEN 0 ELSE Min(ts)

-----------------------------------------------------------------------------
(* The chain. A hash is the sequence of payloads it covers, so equal hashes *)
(* mean equal histories; the empty sequence is the missing predecessor.     *)

Digest(previous, payload) == Append(previous, payload)

Payload(b, row, ts, es) ==
  [batch |-> b, count |-> row.count, events |-> es,
   triggers |-> IF ts = {} /\ row.first > 0 THEN {row.first} ELSE ts]

LedgerHead(l, h) == IF l # <<>> THEN l[Len(l)].hash ELSE h

Sequence(b) == IF \E i \in DOMAIN ledger : ledger[i].batch = b
               THEN CHOOSE i \in DOMAIN ledger : ledger[i].batch = b ELSE 0

Entry(previous, payload) ==
  [batch |-> payload.batch, prev |-> previous, hash |-> Digest(previous, payload)]

\* The ledger after the batches of some payloads are appended in the order of
\* their ids; a batch that has an entry keeps it.
Appended(payloads) ==
  LET fresh == {b \in DOMAIN payloads : Sequence(b) = 0}
      before == LedgerHead(ledger, head)
      Hash(n) == before \o [i \in 1 .. n |-> payloads[Nth(fresh, i)]]
  IN ledger \o [i \in 1 .. Cardinality(fresh) |-> Entry(Hash(i - 1), payloads[Nth(fresh, i)])]

\* Batches a backfill may give a historical position: complete ones.
Eligible(b) == rows[b].count > 0 /\ Cardinality(events[b]) = rows[b].count

-----------------------------------------------------------------------------
(* Start and backfill. *)

Init ==
  /\ \E complete \in [1 .. Legacy -> BOOLEAN], kinds \in [1 .. Legacy -> {c.events : c \in Contents}] :
       /\ events = [b \in Ids |-> IF b > Legacy THEN {} ELSE kinds[b]]
       /\ rows = [b \in Ids |-> IF b > Legacy THEN NoRow
                                ELSE [count |-> Cardinality(kinds[b]) + (IF complete[b] THEN 0 ELSE 1),
                                      first |-> 0]]
  /\ links = [b \in Ids |-> {}]
  /\ ledger = <<>> /\ head = <<>>
  /\ boot = "down" /\ cursor = 0 /\ backfilled = FALSE
  /\ reader = Idle /\ chain = NoChain

\* Open: the backfill runs unless its marker is there or nothing is authorised.
Start ==
  /\ boot = "down"
  /\ boot' = IF backfilled THEN "serving" ELSE IF Cutoff = 0 THEN "mark" ELSE "backfill"
  /\ UNCHANGED <<dbvars, cursor, backfilled, reader, chain>>

Backlog == {b \in cursor + 1 .. Cutoff : Eligible(b)}
NextChunk == {b \in Backlog : Cardinality({c \in Backlog : c < b}) < Chunk}
CurrentPayload(b) == Payload(b, rows[b], links[b], events[b])

\* (mutant) the cursor is stored as the boundary instead of the last batch
ProgressToCutoff(chunk) == Cutoff
Progress(chunk) == Max(chunk)

BackfillChunk ==
  /\ boot = "backfill" /\ Backlog # {}
  /\ ledger' = Appended([b \in NextChunk |-> CurrentPayload(b)])
  /\ head' = LedgerHead(ledger', head)
  /\ cursor' = Progress(NextChunk)
  /\ UNCHANGED <<rows, events, links, boot, backfilled, reader, chain>>

BackfillClear ==
  /\ boot = "backfill" /\ Backlog = {}
  /\ cursor' = 0 /\ boot' = "mark"
  /\ UNCHANGED <<dbvars, backfilled, reader, chain>>

BackfillMark ==
  /\ boot = "mark"
  /\ backfilled' = TRUE /\ boot' = "serving"
  /\ UNCHANGED <<dbvars, cursor, reader, chain>>

\* An audit is a process of its own and survives.
Crash ==
  /\ boot # "down" /\ boot' = "down"
  /\ reader' = IF reader.at # "idle" /\ reader.kind = "export" THEN Idle ELSE reader
  /\ UNCHANGED <<dbvars, cursor, backfilled, chain>>

-----------------------------------------------------------------------------
(* The service's own writes. *)

\* recordChangeBatch: the batch, its events, its trigger links, its entry.
RecordBatch(es, ts) ==
  /\ boot = "serving" /\ NextId <= MaxBatch
  /\ LET b == NextId
         row == [count |-> Cardinality(es), first |-> FirstTrigger(ts)]
     IN /\ rows' = [rows EXCEPT ![b] = row]
        /\ events' = [events EXCEPT ![b] = es]
        /\ links' = [links EXCEPT ![b] = ts]
        /\ ledger' = Appended([c \in {b} |-> Payload(c, row, ts, es)])
        /\ head' = LedgerHead(ledger', head)
  /\ UNCHANGED <<bootvars, reader, chain>>

\* (mutant) events first and the batch row in a later transaction
DeleteEventsFirst ==
  /\ boot = "serving"
  /\ \E b \in Stored :
       IF events[b] # {}
       THEN events' = [events EXCEPT ![b] = {}] /\ UNCHANGED rows
       ELSE rows' = [rows EXCEPT ![b] = NoRow] /\ UNCHANGED events
  /\ UNCHANGED <<links, ledger, head, bootvars, reader, chain>>

\* The oldest batches, up to the limit of events but always one, with all
\* their events. Which batches have expired is any prefix.
Expiring(b) == {c \in Stored : c <= b}
Taken(gone) == \/ Cardinality(gone) = 1
               \/ MapThenSumSet(LAMBDA c : Cardinality(events[c]), gone) <= DeleteLimit
DeleteExpiredBatches ==
  /\ boot = "serving"
  /\ \E b \in Stored :
       /\ Taken(Expiring(b))
       /\ rows' = [c \in Ids |-> IF c \in Expiring(b) THEN NoRow ELSE rows[c]]
       /\ events' = [c \in Ids |-> IF c \in Expiring(b) THEN {} ELSE events[c]]
  /\ UNCHANGED <<links, ledger, head, bootvars, reader, chain>>

\* Links go later, oldest first, and only without their batch.
DeleteTriggerLinks ==
  /\ boot = "serving"
  /\ LET loose == {b \in Ids : links[b] # {} /\ rows[b] = NoRow}
     IN loose # {} /\ links' = [links EXCEPT ![Min(loose)] = {}]
  /\ UNCHANGED <<rows, events, ledger, head, bootvars, reader, chain>>

-----------------------------------------------------------------------------
(* Reading. A reader's record says which statement is next ("at"); payload  *)
(* is what evidenceLedgerPayload has read so far.                           *)

Matching(b, f) == IF f = All THEN events[b] ELSE events[b] \cap {f}
\* (mutant) the cursor is inclusive
SelectedFrom(f, below) == {b \in Stored : (below = 0 \/ b <= below) /\ (f = All \/ Matching(b, f) # {})}
Selected(f, below) == {b \in Stored : (below = 0 \/ b < below) /\ (f = All \/ Matching(b, f) # {})}
Newest(S, n) == {b \in S : Cardinality({c \in S : c > b}) < n}
Estimate(b, f) == Cardinality(Matching(b, f)) + Cardinality(events[b])
Unread == [batch |-> 0, count |-> 0, first |-> 0, triggers |-> {}, events |-> {}]

\* listHistory's selection: of a new export, or of the part after chain.next.
Export(f) ==
  /\ boot = "serving" /\ reader = Idle
  /\ chain.next > 0 => f = chain.filter
  /\ LET found == Selected(f, chain.next)
         page == Newest(found, PageLimit)
     IN /\ reader' = [kind |-> "export", at |-> IF page = {} THEN "pack" ELSE "batch",
                      filter |-> f, todo |-> page, spent |-> 0, more |-> found # page,
                      full |-> FALSE, got |-> <<>>, ts |-> {}, payload |-> Unread]
        /\ chain' = IF chain.next > 0 THEN chain
                    ELSE [NoChain EXCEPT !.filter = f, !.top = IF found = {} THEN 0 ELSE Max(found)]
  /\ UNCHANGED <<dbvars, bootvars>>

Current == Max(reader.todo)

\* The byte estimate, the trigger links and the ledger row of one batch.
ReadBatch ==
  /\ reader.at = "batch"
  /\ reader' = IF Estimate(Current, reader.filter) > PageBudget - reader.spent
               THEN [reader EXCEPT !.at = "pack", !.full = TRUE]
               ELSE [reader EXCEPT !.at = IF Sequence(Current) > 0 THEN "row" ELSE "events",
                                   !.ts = links[Current], !.payload = Unread]
  /\ UNCHANGED <<dbvars, bootvars, chain>>

\* evidenceLedgerPayload: three statements, outside a transaction. The batch
\* is the export's current one, or the audited entry's.
Subject == IF reader.kind = "export" THEN Current ELSE ledger[reader.entry].batch

ReadRow ==
  /\ reader.at = "row"
  /\ reader' = IF rows[Subject] # NoRow
               THEN [reader EXCEPT !.at = "links",
                                   !.payload = [Unread EXCEPT !.batch = Subject, !.count = rows[Subject].count,
                                                              !.first = rows[Subject].first]]
               ELSE IF reader.kind = "export" THEN Idle
               ELSE [reader EXCEPT !.at = "entry", !.entry = @ + 1]
  /\ UNCHANGED <<dbvars, bootvars, chain>>

ReadLinks ==
  /\ reader.at = "links"
  /\ reader' = [reader EXCEPT !.at = "payload", !.payload.triggers = links[Subject]]
  /\ UNCHANGED <<dbvars, bootvars, chain>>

ReadPayload == Payload(reader.payload.batch, [count |-> reader.payload.count, first |-> reader.payload.first],
                       reader.payload.triggers, events[Subject])

ReadEvents ==
  /\ reader.at = "payload"
  /\ reader' = IF reader.kind = "export"
               THEN [reader EXCEPT !.at = "events", !.payload.events = events[Subject]]
               ELSE IF Digest(ledger[reader.entry].prev, ReadPayload) = ledger[reader.entry].hash
               THEN [reader EXCEPT !.at = "entry", !.entry = @ + 1]
               ELSE [reader EXCEPT !.at = "alarm"]
  /\ UNCHANGED <<dbvars, bootvars, chain>>

\* The events of the page. A batch that lost them since is left out.
Loaded ==
  LET s == Sequence(Current)
      p == reader.payload
  IN [id |-> Current, events |-> Matching(Current, reader.filter), seq |-> s,
      triggers |-> Payload(Current, rows[Current], reader.ts, {}).triggers,
      prev |-> IF s > 0 THEN ledger[s].prev ELSE <<>>, hash |-> IF s > 0 THEN ledger[s].hash ELSE <<>>,
      payload |-> Payload(p.batch, [count |-> p.count, first |-> p.first], p.triggers, p.events)]

ReadPage ==
  /\ reader.at = "events"
  /\ LET rest == reader.todo \ {Current}
         got == IF Loaded.events = {} THEN reader.got ELSE Append(reader.got, Loaded)
     IN reader' = [reader EXCEPT !.at = IF rest = {} THEN "pack" ELSE "batch",
                                 !.todo = rest, !.got = got,
                                 !.spent = IF Loaded.events = {} THEN @ ELSE @ + Estimate(Current, reader.filter)]
  /\ UNCHANGED <<dbvars, bootvars, chain>>

-----------------------------------------------------------------------------
(* Packs: what ExportEvidencePack builds from a page, and what the verifier *)
(* asks of it. Signatures are all by the one key of the instance.          *)

Sequences(got) == {got[i].seq : i \in DOMAIN got} \ {0}
CheckpointSequence(n) == IF n > 1 THEN n - 1 ELSE n

\* The chain segment read for a page: its newest links, up to the limit.
Segment(got) ==
  IF Sequences(got) = {} THEN {}
  ELSE Newest(CheckpointSequence(Min(Sequences(got))) .. Max(Sequences(got)), MaxLinks)

\* The part of the segment that spans some of the batches.
Spanning(got, segment) ==
  IF Sequences(got) = {} THEN {}
  ELSE segment \cap (CheckpointSequence(Min(Sequences(got))) .. Max(Sequences(got)))

EventCount(got) == Cardinality(UNION {{i} \X got[i].events : i \in DOMAIN got})
Prefix(got, n) == SubSeq(got, 1, n)

\* (mutant) the segment may stop short of the last batch's predecessor
WithinCapsOfBatch(got, n) ==
  /\ EventCount(Prefix(got, n)) <= MaxEvents
  /\ \A i \in 1 .. n : got[i].seq > 0 => got[i].seq >= Min(Segment(got))
WithinCaps(got, n) ==
  /\ EventCount(Prefix(got, n)) <= MaxEvents
  /\ \A i \in 1 .. n : got[i].seq > 0 => CheckpointSequence(got[i].seq) >= Min(Segment(got))

Fit(got) == Max({n \in 0 .. Len(got) : WithinCaps(got, n)})

Encoded(got, n) == EventCount(Prefix(got, n)) + Cardinality(Spanning(Prefix(got, n), Segment(got)))
\* The largest prefix that fits the caps and the encoded size; 0 is too large.
Fitting(got) == LET small == {n \in 1 .. Fit(got) : Encoded(got, n) <= MaxPack}
                IN IF small = {} THEN 0 ELSE Max(small)

Link(s) == [seq |-> s, batch |-> ledger[s].batch, prev |-> ledger[s].prev, hash |-> ledger[s].hash]
Build(got, n, hasNext, next) ==
  [batches |-> Prefix(got, n), truncated |-> hasNext \/ n < Len(got),
   next |-> IF n < Len(got) THEN got[n].id ELSE next,
   links |-> LET span == Spanning(Prefix(got, n), Segment(got))
             IN [i \in 1 .. Cardinality(span) |-> Link(Nth(span, i))]]

\* A truncated part ends at its continuation cursor.
Continues(p) == p.truncated => p.batches # <<>> /\ Last(p.batches).id = p.next
Unmixed(got) == \A i, j \in DOMAIN got : got[i].seq > 0 <=> got[j].seq > 0

\* verifyLedgerPayloadBinding: the visible batch is a projection of the
\* payload its entry signs.
Bound(r) ==
  /\ r.payload.batch = r.id
  /\ Cardinality(r.payload.events) = r.payload.count
  /\ r.payload.triggers = r.triggers
  /\ r.events \subseteq r.payload.events
  /\ Digest(r.prev, r.payload) = r.hash

\* verifyLedgerLinks: contiguous from the predecessor of the oldest batch to
\* the newest one, each link chained to the one before.
Linked(p) ==
  LET seqs == Sequences(p.batches)
  IN /\ p.links # <<>>
     /\ p.links[1].seq = CheckpointSequence(Min(seqs)) /\ Last(p.links).seq = Max(seqs)
     /\ p.links[1].seq = 1 => p.links[1].prev = <<>>
     /\ \A i \in 2 .. Len(p.links) : /\ p.links[i].seq = p.links[i - 1].seq + 1
                                     /\ p.links[i].prev = p.links[i - 1].hash
     /\ \A i \in DOMAIN p.batches : \E j \in DOMAIN p.links :
          /\ p.links[j].seq = p.batches[i].seq /\ p.links[j].batch = p.batches[i].id
          /\ p.links[j].prev = p.batches[i].prev /\ p.links[j].hash = p.batches[i].hash

Verifies(p) ==
  /\ IF p.truncated THEN p.next > 0 /\ Continues(p) ELSE p.next = 0
  /\ Unmixed(p.batches)
  /\ \A i, j \in DOMAIN p.batches : i # j /\ p.batches[i].seq > 0 => p.batches[i].seq # p.batches[j].seq
  /\ IF Sequences(p.batches) = {} THEN p.links = <<>>
     ELSE Linked(p) /\ \A i \in DOMAIN p.batches : Bound(p.batches[i])

\* Links, caps, the continuation check and the signature.
Pack ==
  /\ reader.at = "pack"
  /\ LET got == reader.got
         hasNext == reader.more \/ reader.full
         next == IF ~hasNext THEN 0
                 ELSE IF got # <<>> THEN Last(got).id
                 ELSE IF reader.todo # {} THEN Current + 1 ELSE 1
         p == Build(got, Fitting(got), hasNext, next)
     IN reader' = IF \/ got = <<>> /\ reader.full
                     \/ ~Unmixed(got)
                     \/ got # <<>> /\ Fitting(got) = 0
                     \/ ~Continues(p)
                  THEN Idle ELSE [kind |-> "export", at |-> "signed", pack |-> p]
  /\ UNCHANGED <<dbvars, bootvars, chain>>

PartIds(p) == [i \in DOMAIN p.batches |-> p.batches[i].id]

\* The operator has a part; a complete one ends the chain.
Deliver ==
  /\ reader.at = "signed" /\ reader' = Idle
  /\ chain' = IF reader.pack.truncated
              THEN [chain EXCEPT !.next = reader.pack.next, !.parts = @ \o PartIds(reader.pack)]
              ELSE NoChain
  /\ UNCHANGED <<dbvars, bootvars>>

Abandon ==
  /\ reader = Idle /\ chain # NoChain /\ chain' = NoChain
  /\ UNCHANGED <<dbvars, bootvars, reader>>

-----------------------------------------------------------------------------
(* The audit: pages of entries, each read after the heads. *)

Heads(from) == [kind |-> "audit", at |-> "entries", entry |-> from + 1, upto |-> 0, payload |-> Unread,
                latest |-> Len(ledger), stored |-> head, observed |-> LedgerHead(ledger, <<>>)]

Audit ==
  /\ reader = Idle /\ reader' = Heads(0)
  /\ UNCHANGED <<dbvars, bootvars, chain>>

AuditEntries ==
  /\ reader.at = "entries"
  /\ reader' = [reader EXCEPT !.at = "entry", !.upto = Min({Len(ledger), reader.entry - 1 + AuditPage})]
  /\ UNCHANGED <<dbvars, bootvars, chain>>

Chained(i) == ledger[i].prev = IF i = 1 THEN <<>> ELSE ledger[i - 1].hash

AuditEntry ==
  /\ reader.at = "entry"
  /\ reader' = IF reader.entry <= reader.upto
               THEN [reader EXCEPT !.at = IF Chained(reader.entry) THEN "row" ELSE "alarm"]
               ELSE IF reader.upto < reader.latest THEN Heads(reader.upto)
               ELSE IF reader.stored # reader.observed THEN [reader EXCEPT !.at = "alarm"]
               ELSE Idle
  /\ UNCHANGED <<dbvars, bootvars, chain>>

AuditEnd ==
  /\ reader.at = "alarm" /\ reader' = Idle
  /\ UNCHANGED <<dbvars, bootvars, chain>>

-----------------------------------------------------------------------------
Read == \/ ReadBatch \/ ReadRow \/ ReadLinks \/ ReadEvents \/ ReadPage \/ Pack \/ Deliver
        \/ AuditEntries \/ AuditEntry \/ AuditEnd
Backfill == BackfillChunk \/ BackfillClear \/ BackfillMark

Next ==
  \/ Start \/ Backfill \/ Crash
  \/ \E c \in Contents : RecordBatch(c.events, c.triggers)
  \/ DeleteExpiredBatches \/ DeleteTriggerLinks
  \/ \E f \in Filters : Export(f)
  \/ Read \/ Abandon \/ Audit

Spec == Init /\ [][Next]_vars

-----------------------------------------------------------------------------
TypeOK ==
  /\ rows \in [Ids -> [count : 0 .. Cardinality(Kinds) + 1, first : Nat]]
  /\ events \in [Ids -> SUBSET Kinds] /\ links \in [Ids -> {{}} \cup {c.triggers : c \in Contents}]
  /\ boot \in {"down", "backfill", "mark", "serving"} /\ cursor \in 0 .. Cutoff /\ backfilled \in BOOLEAN
  /\ head = LedgerHead(ledger, <<>>)

(* A backfill that crashes and is run again, with live batches recorded    *)
(* after it, leaves one entry per batch in the order of batches, every     *)
(* entry chained to the one before (appendEvidenceLedgerTx); once the      *)
(* service serves, every batch it recorded and every complete one the      *)
(* migration authorised has its entry, and no other has                    *)
(* (backfillEvidenceLedgerUpTo and its cutoff).                            *)
EntryIffAuthorised ==
  /\ \A i \in 2 .. Len(ledger) : ledger[i].batch > ledger[i - 1].batch /\ Chained(i)
  /\ boot = "serving" =>
       \A b \in Stored : Sequence(b) > 0 <=> b > Legacy \/ (b <= Cutoff /\ Eligible(b))

(* What an export signs, its own verifier accepts, whatever retention      *)
(* removed between the statements of the export.                           *)
SignedPacksVerify == reader.at = "signed" => Verifies(reader.pack)

(* The parts of a paginated export cover every matching batch that is      *)
(* still stored exactly once (ExportEvidencePack's comment).               *)
ChainCoversOnce ==
  reader.at = "signed" =>
    LET all == chain.parts \o PartIds(reader.pack)
    IN /\ \A i \in 2 .. Len(all) : all[i] < all[i - 1]
       /\ ~reader.pack.truncated =>
            \A b \in Stored : b <= chain.top /\ Matching(b, chain.filter) # {} => b \in ToSet(all)

(* An audit never raises an alarm over a batch that is stored. It may raise *)
(* one over a batch that retention removed since the audit read its row:   *)
(* NeverPartlyDeleted is what the documentation says of those, too.        *)
StoredBatchesAudit == reader.at = "alarm" => reader.entry <= Len(ledger) /\ rows[Subject] = NoRow

(* docs/operations.md:298: audits "never see a partly deleted batch: a     *)
(* batch is either complete and verifies, or gone and its ledger entry     *)
(* counts as unverifiable". Nothing but retention touches a batch here, so *)
(* no audit has reason for an alarm; but it reads the row, its links and   *)
(* its events in three statements (AuditEvidenceLedger).                   *)
NeverPartlyDeleted == reader.at # "alarm"
=============================================================================
