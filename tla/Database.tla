------------------------------ MODULE Database ------------------------------
(***************************************************************************)
(* The database file and the processes that open it (cmd/tailstate/main.go *)
(* over internal/store): the service with its schema bootstrap, migrations *)
(* and signing key (store.go, migrations*.go, signing.go), the commands    *)
(* that write while it serves (admin reset, evidence checkpoint), those    *)
(* that need it stopped (admin rekey, admin compact) and admin backup; the *)
(* two advisory locks between them (lock_unix.go), and the signed ledger   *)
(* checkpoints the service sends (checkpoint.go).                          *)
(*                                                                         *)
(* A database file is a record; compaction replaces the live file, and a   *)
(* process keeps the file it opened. Each action is one transaction, one   *)
(* statement outside a transaction, or one system call; a process may die  *)
(* between any two, and the kernel then releases its locks.                *)
(***************************************************************************)
EXTENDS Integers, Sequences, FiniteSets, SequencesExt

CONSTANTS
  Procs,        \* processes that may run at the same time
  Commands,     \* what they may be
  Keys, NoKey,  \* master keys
  Founded,      \* the databases the first process may find
  Chunk,        \* rows per migration transaction (64 in the code)
  MaxCommits,   \* bound: writes acknowledged
  MaxFiles      \* bound: the original file and its replacements

DatabaseAssumption ==
  /\ {Chunk, MaxCommits, MaxFiles} \subseteq Nat \ {0}
  /\ NoKey \notin Keys /\ IsFiniteSet(Procs)
ASSUME DatabaseAssumption

VARIABLES
  files,      \* every file that was the database; the last one is live
  procs,      \* what each process is doing
  published,  \* the backup target, or NoBackup
  checksum,   \* what the .sha256 beside it was computed from, or NoBackup
  committed,  \* history: writes acknowledged
  sent        \* history: ledger sequences of the checkpoints enqueued

vars == <<files, procs, published, checksum, committed, sent>>

Current == 17
Live == Len(files)
Idle == [op |-> "idle"]
NoScan == [table |-> 0, cursor |-> 0]

-----------------------------------------------------------------------------
(* A database. "sealed" names the key of each encrypted value; "removed" is *)
(* the URL of a deleted destination. "rows" is how many rows of each table  *)
(* an older release left, "upgraded" which of them each version rewrote.    *)

Places == {"settings", "destination", "removed", "signing", "check"}
Unsealed == [q \in Places |-> NoKey]

Empty == [version |-> 0, tables |-> FALSE, rows |-> 0, upgraded |-> {}, progress |-> NoScan,
          sealed |-> Unsealed, ledger |-> 0, target |-> FALSE, anchored |-> 0, commits |-> 0]

NoBackup == [db |-> Empty, key |-> NoKey]

TableNames == {"events", "triggers", "tokens", "sessions", "snapshots", "outbox"}

Databases ==
  [version : 0 .. Current, tables : BOOLEAN, rows : Nat, upgraded : SUBSET (Nat \X TableNames \X Nat),
   progress : [table : Nat, cursor : Nat], sealed : [Places -> Keys \cup {NoKey}],
   ledger : Nat, target : BOOLEAN, anchored : Nat, commits : Nat]

SealedUnder(db) == {db.sealed[q] : q \in Places} \ {NoKey}

CheckFits(db, k) == db.sealed.check = k
\* A database without a key check is checked by its other sealed values.
KeyFits(db, k) == IF db.sealed.check # NoKey THEN CheckFits(db, k) ELSE SealedUnder(db) \subseteq {k}

\* Neither a marker table without its one row nor an unversioned database.
Preflight(db) == db.version > 0 \/ ~db.tables

-----------------------------------------------------------------------------
(* Migrations: the tables whose rows the step to a version rewrites.        *)

\* Batches for stored events, webhook triggers, and their durable state.
HistorySteps == [v \in 3 .. 5 |-> CASE v = 3 -> <<"events">> [] v = 4 -> <<>> [] v = 5 -> <<"triggers">>]
\* The evidence ledger, hashed tokens, and the ledger's backfill cutoff.
LedgerSteps == [v \in 6 .. 8 |-> IF v = 7 THEN <<"tokens">> ELSE <<>>]
\* Columns for lease fencing.
FencingSteps == [v \in 9 .. 11 |-> <<>>]
\* Session activity, the audit trail, API tokens, and attribution.
SecuritySteps == [v \in 15 .. 16 |-> IF v = 15 THEN <<"sessions">> ELSE <<>>]
\* The steps that rewrite rows in chunks.
HistoryMetadata == <<"snapshots", "events">>
Severities == <<"events">>
Timestamps == <<"sessions", "outbox">>

Chunked == {12, 14, 17}
Tables ==
  [v \in 2 .. Current |->
     CASE v \in 3 .. 5 -> HistorySteps[v]
       [] v \in 6 .. 8 -> LedgerSteps[v]
       [] v \in 9 .. 11 -> FencingSteps[v]
       [] v \in 15 .. 16 -> SecuritySteps[v]
       [] v = 12 -> HistoryMetadata
       [] v = 14 -> Severities
       [] v = 17 -> Timestamps
       [] OTHER -> <<>>]

Rewritten(v, t, is) == {<<v, t, i>> : i \in is}
AllRows(db, v) == UNION {Rewritten(v, t, 1 .. db.rows) : t \in ToSet(Tables[v])}

\* The step to version 2 moves the notification URL to a destination.
MovesURL(db, v) == v = 2 /\ db.sealed.settings # NoKey
\* The step to version 13 scrubs the URLs of deleted destinations.
Sealed(db, v, k) ==
  [db.sealed EXCEPT !.destination = IF MovesURL(db, v) THEN k ELSE @,
                    !.removed = IF v = 13 THEN NoKey ELSE @]

InOneTransaction(db, v, k) ==
  [db EXCEPT !.version = v, !.upgraded = @ \cup AllRows(db, v), !.sealed = Sealed(db, v, k)]

\* Rows of a chunk. Version 14 skips the rows it has classified before; the
\* others rewrite every row after the cursor.
Pending(db, v, s) ==
  {i \in s.cursor + 1 .. db.rows : v = 14 => <<v, Tables[v][s.table], i>> \notin db.upgraded}
NextRows(db, v, s) ==
  {i \in Pending(db, v, s) : Cardinality({j \in Pending(db, v, s) : j < i}) < Chunk}

\* Version 12 stores its cursor with each chunk; the others start again.
Stored(v, db, s) == IF v = 12 THEN [db EXCEPT !.progress = s] ELSE db

\* (mutant) the cursor of the previous table is kept
OnwardFromCursor(s) == [s EXCEPT !.table = @ + 1]
Onward(s) == [table |-> s.table + 1, cursor |-> 0]

Finished(db) == [db EXCEPT !.version = @ + 1, !.progress = NoScan]

\* What a scan at table s.table of the step to version v has rewritten.
Passed(db, v, s) ==
  /\ s.table \in 1 .. Len(Tables[v])
  /\ \A n \in 1 .. s.table :
       Rewritten(v, Tables[v][n], {i \in 1 .. db.rows : n < s.table \/ i <= s.cursor}) \subseteq db.upgraded

\* A database that says it is of a version has every row rewritten by every
\* step up to it.
Whole(db) ==
  /\ \A v \in 2 .. db.version : AllRows(db, v) \subseteq db.upgraded
  /\ db.version = 0 => db.rows = 0
  /\ db.progress # NoScan => db.version = 11 /\ Passed(db, 12, db.progress)

\* No two of its values are sealed under different keys.
OneKey(db) == \A q, r \in Places : NoKey \notin {db.sealed[q], db.sealed[r]} => db.sealed[q] = db.sealed[r]

\* Releases up to this one upgraded in the same steps, rotated keys in one
\* transaction, and left anything or nothing in the file.
FoundedAssumption == \A db \in Founded : db \in Databases /\ Whole(db) /\ OneKey(db) /\ db.commits = 0
ASSUME FoundedAssumption

-----------------------------------------------------------------------------
(* Processes. *)

At(p, ops, at) == procs[p] # Idle /\ procs[p].op \in ops /\ procs[p].at = at
Become(p, r) == procs' = [procs EXCEPT ![p] = r]
GoTo(p, at) == Become(p, [procs[p] EXCEPT !.at = at])
Exit(p) == Become(p, Idle)

Db(p) == files[procs[p].file]
Write(p, db) == files' = [files EXCEPT ![procs[p].file] = db]
\* A write its caller is told of.
Commit(p, db) ==
  /\ committed < MaxCommits /\ committed' = committed + 1
  /\ Write(p, [db EXCEPT !.commits = @ + 1])

Holds(p, lock) == procs[p] # Idle /\ lock \in procs[p].locks
Others(p) == Procs \ {p}

\* (mutant) rekey does not take the lock
ServiceFreeForRekey(p) == procs[p].op = "rekey" \/ \A q \in Others(p) : ~Holds(q, "service")
ServiceFree(p) == \A q \in Others(p) : ~Holds(q, "service")

\* (mutant) compact and the commands beside the service do not exclude each other
MaintenanceAnyway(p, lock) == \A q \in Others(p) : lock = "exclusive" => ~Holds(q, lock)
MaintenanceFree(p, lock) ==
  \A q \in Others(p) : ~Holds(q, "exclusive") /\ (lock = "exclusive" => ~Holds(q, "shared"))

Init ==
  /\ \E db \in Founded : files = <<db>>
  /\ procs = [p \in Procs |-> Idle]
  /\ published = NoBackup /\ checksum = NoBackup
  /\ committed = 0 /\ sent = <<>>

Process(op, at, k) ==
  [op |-> op, at |-> at, key |-> k, new |-> NoKey, file |-> 0, locks |-> {}, scan |-> NoScan, copy |-> Empty]

Stays == UNCHANGED <<published, checksum, committed, sent>>

\* Each command up to its first lock or file. The configured key may be any
\* key at any time; serve and rekey read it once they hold the service lock.
LaunchServe(p) == Become(p, Process("serve", "service", NoKey))
LaunchRekey(p) == \E k \in Keys : Become(p, [Process("rekey", "service", NoKey) EXCEPT !.new = k])
LaunchCompact(p) == \E k \in Keys : Become(p, Process("compact", "service", k))
\* admin reset, and a change of the checkpoint settings
LaunchChange(p) == \E k \in Keys : Become(p, Process("change", "maintain", k))
\* doctor and evidence audit
LaunchInspect(p) == \E k \in Keys : Become(p, Process("inspect", "open", k))
\* The target and the checksum beside it must not exist.
LaunchBackup(p) ==
  /\ published = NoBackup /\ checksum = NoBackup
  /\ \E k \in Keys : Become(p, Process("backup", "open", k))

Launch(p) ==
  /\ procs[p] = Idle
  /\ \/ "serve" \in Commands /\ LaunchServe(p)
     \/ "rekey" \in Commands /\ LaunchRekey(p)
     \/ "compact" \in Commands /\ LaunchCompact(p)
     \/ "change" \in Commands /\ LaunchChange(p)
     \/ "inspect" \in Commands /\ LaunchInspect(p)
     \/ "backup" \in Commands /\ LaunchBackup(p)
  /\ UNCHANGED files /\ Stays

\* Without waiting. serve and rekey read the configured key once they hold it.
LockService(p) ==
  /\ At(p, {"serve", "compact", "rekey"}, "service")
  /\ IF ~ServiceFree(p) THEN Exit(p)
     ELSE \E k \in IF procs[p].op = "compact" THEN {procs[p].key} ELSE Keys :
            Become(p, [procs[p] EXCEPT !.locks = {"service"}, !.key = k,
                                       !.at = IF procs[p].op = "compact" THEN "maintain" ELSE "open"])
  /\ UNCHANGED files /\ Stays

LockMaintenance(p) ==
  /\ At(p, {"change", "compact"}, "maintain")
  /\ LET lock == IF procs[p].op = "compact" THEN "exclusive" ELSE "shared"
     IN IF MaintenanceFree(p, lock)
        THEN Become(p, [procs[p] EXCEPT !.locks = @ \cup {lock}, !.at = "open"]) ELSE Exit(p)
  /\ UNCHANGED files /\ Stays

\* OpenExisting: an initialised database of the current version.
Existing(db, k) == KeyFits(db, k) /\ db.version = Current /\ db.sealed.check # NoKey

\* OpenReadOnly, and what serve and backup check before they go on.
ReadOnly(db, k) == KeyFits(db, k) /\ Preflight(db)

Admits(op, db, k) ==
  CASE op \in {"serve", "inspect"} -> ReadOnly(db, k)
    [] op = "backup" -> ReadOnly(db, k) /\ db.version > 0
    [] OTHER -> Existing(db, k)

After == [serve |-> "schema", change |-> "write", compact |-> "copy", rekey |-> "reseal", backup |-> "copy",
          inspect |-> "read"]

Open(p) ==
  /\ procs[p] # Idle /\ procs[p].at = "open"
  /\ IF Admits(procs[p].op, files[Live], procs[p].key)
     THEN Become(p, [procs[p] EXCEPT !.file = Live, !.at = After[procs[p].op]]) ELSE Exit(p)
  /\ UNCHANGED files /\ Stays

\* A process that dies or stops; what it committed stays, what it held is free.
Crash(p) == procs[p] # Idle /\ Exit(p) /\ UNCHANGED files /\ Stays

-----------------------------------------------------------------------------
(* serve: bootstrap, migrations, keys. *)

CreateMarkerTable(p) ==
  /\ At(p, {"serve"}, "schema") /\ ~Db(p).tables
  /\ Write(p, [Db(p) EXCEPT !.tables = TRUE])
  /\ UNCHANGED procs /\ Stays

InsertMarker(p) ==
  /\ At(p, {"serve"}, "schema") /\ Db(p).tables
  /\ Write(p, [Db(p) EXCEPT !.version = IF @ = 0 THEN Current ELSE @])
  /\ GoTo(p, "migrate") /\ Stays

Migrating(p) == At(p, {"serve"}, "migrate") /\ Db(p).version < Current
Reaching(p) == Db(p).version + 1

MigrateOnce(p) ==
  /\ Migrating(p) /\ Reaching(p) \notin Chunked
  /\ IF MovesURL(Db(p), Reaching(p)) /\ Db(p).sealed.settings # procs[p].key
     THEN Exit(p) /\ UNCHANGED files
     ELSE Write(p, InOneTransaction(Db(p), Reaching(p), procs[p].key)) /\ UNCHANGED procs
  /\ Stays

Scanning(p) == Migrating(p) /\ procs[p].scan # NoScan
Scan(p, s) == Become(p, [procs[p] EXCEPT !.scan = s])
Rows(p) == NextRows(Db(p), Reaching(p), procs[p].scan)

BeginScan(p) ==
  /\ Migrating(p) /\ Reaching(p) \in Chunked /\ procs[p].scan = NoScan
  /\ LET s == IF Db(p).progress # NoScan THEN Db(p).progress ELSE [table |-> 1, cursor |-> 0]
     IN Scan(p, s) /\ Write(p, Stored(Reaching(p), Db(p), s))
  /\ Stays

MigrateChunk(p) ==
  /\ Scanning(p) /\ Rows(p) # {}
  /\ LET s == [procs[p].scan EXCEPT !.cursor = CHOOSE i \in Rows(p) : \A j \in Rows(p) : j <= i]
         t == Tables[Reaching(p)][s.table]
     IN /\ Scan(p, s)
        /\ Write(p, Stored(Reaching(p), [Db(p) EXCEPT !.upgraded = @ \cup Rewritten(Reaching(p), t, Rows(p))], s))
  /\ Stays

LastTable(p) == procs[p].scan.table = Len(Tables[Reaching(p)])

NextTable(p) ==
  /\ Scanning(p) /\ Rows(p) = {} /\ ~LastTable(p)
  /\ Scan(p, Onward(procs[p].scan))
  /\ Write(p, Stored(Reaching(p), Db(p), Onward(procs[p].scan)))
  /\ Stays

FinishScan(p) ==
  /\ Scanning(p) /\ Rows(p) = {} /\ LastTable(p)
  /\ Write(p, Finished(Db(p))) /\ Scan(p, NoScan)
  /\ Stays

\* The key check, if there is none.
SealCheck(p) ==
  /\ At(p, {"serve"}, "migrate") /\ Db(p).version = Current
  /\ IF Db(p).sealed.check \in {NoKey, procs[p].key}
     THEN Write(p, [Db(p) EXCEPT !.sealed.check = procs[p].key]) /\ GoTo(p, "sign")
     ELSE Exit(p) /\ UNCHANGED files
  /\ Stays

LoadSigningKey(p) ==
  /\ At(p, {"serve"}, "sign")
  /\ IF Db(p).sealed.signing \in {NoKey, procs[p].key}
     THEN Write(p, [Db(p) EXCEPT !.sealed.signing = procs[p].key]) /\ GoTo(p, "serving")
     ELSE Exit(p) /\ UNCHANGED files
  /\ Stays

-----------------------------------------------------------------------------
(* What the service writes. *)

Serving(p) == At(p, {"serve"}, "serving")
Quiet == UNCHANGED <<procs, published, checksum>>

\* A poll that finds changes extends the ledger.
Record(p) ==
  /\ Serving(p)
  /\ Commit(p, [Db(p) EXCEPT !.ledger = @ + 1])
  /\ Quiet /\ UNCHANGED sent

\* Settings and destinations are sealed under the key read at start.
Configure(p) ==
  /\ Serving(p)
  /\ \E q \in {"settings", "destination"} : Commit(p, [Db(p) EXCEPT !.sealed[q] = procs[p].key])
  /\ Quiet /\ UNCHANGED sent

\* A destination is chosen, and there are entries after the last checkpoint;
\* whether the interval has passed is left open.
CheckpointDue(db) == db.target /\ db.ledger > db.anchored

Checkpoint(p) ==
  /\ Serving(p) /\ CheckpointDue(Db(p))
  /\ Write(p, [Db(p) EXCEPT !.anchored = Db(p).ledger])
  /\ sent' = Append(sent, Db(p).ledger)
  /\ Quiet /\ UNCHANGED committed

-----------------------------------------------------------------------------
(* The commands. *)

\* (mutant) turning checkpoints off forgets the last one
ClearedWhole(db) == [db EXCEPT !.target = FALSE, !.anchored = 0]
Cleared(db) == [db EXCEPT !.target = FALSE]
Chosen(db) == [db EXCEPT !.target = TRUE]

\* One write: a reset token, or the checkpoint destination set or cleared.
Change(p) ==
  /\ At(p, {"change"}, "write")
  /\ \/ Commit(p, Db(p))
     \/ Db(p).sealed.destination # NoKey /\ Commit(p, Chosen(Db(p)))
     \/ Commit(p, Cleared(Db(p)))
  /\ Exit(p)
  /\ UNCHANGED <<published, checksum, sent>>

\* Every sealed value opens under the old key and is sealed under the new one.
Resealed(db, k) == [db EXCEPT !.sealed = [q \in Places |-> IF @[q] = NoKey THEN NoKey ELSE k]]

Rekey(p) ==
  /\ At(p, {"rekey"}, "reseal")
  /\ IF SealedUnder(Db(p)) \subseteq {procs[p].key}
     THEN Commit(p, Resealed(Db(p), procs[p].new)) ELSE UNCHANGED <<files, committed>>
  /\ Exit(p)
  /\ UNCHANGED <<published, checksum, sent>>

\* VACUUM INTO reads one snapshot of the file the process has open.
Copy(p) ==
  /\ At(p, {"backup", "compact"}, "copy")
  /\ Become(p, [procs[p] EXCEPT !.copy = Db(p), !.at = "verify", !.file = IF procs[p].op = "backup" THEN 0 ELSE @])
  /\ UNCHANGED files /\ Stays

\* (mutant) the copy's key is not checked
VerifiedUnseen(db, k) == TRUE
Verified(db, k) == KeyFits(db, k)

Verify(p) ==
  /\ At(p, {"backup", "compact"}, "verify")
  /\ IF Verified(procs[p].copy, procs[p].key)
     THEN GoTo(p, IF procs[p].op = "backup" THEN "recheck" ELSE "close") ELSE Exit(p)
  /\ UNCHANGED files /\ Stays

\* A sidecar that outlives the close means somebody else has the file open.
Close(p) ==
  /\ At(p, {"compact"}, "close")
  /\ IF \E q \in Others(p) : procs[q] # Idle /\ procs[q].file = Live
     THEN Exit(p) ELSE Become(p, [procs[p] EXCEPT !.file = 0, !.at = "replace"])
  /\ UNCHANGED files /\ Stays

Replace(p) ==
  /\ At(p, {"compact"}, "replace") /\ Len(files) < MaxFiles
  /\ files' = Append(files, procs[p].copy)
  /\ Exit(p) /\ Stays

Recheck(p) ==
  /\ At(p, {"backup"}, "recheck")
  /\ IF published = NoBackup THEN GoTo(p, "publish") ELSE Exit(p)
  /\ UNCHANGED files /\ Stays

\* A rename replaces its target.
Publish(p) ==
  /\ At(p, {"backup"}, "publish")
  /\ published' = [db |-> procs[p].copy, key |-> procs[p].key]
  /\ GoTo(p, "checksum")
  /\ UNCHANGED <<files, checksum, committed, sent>>

\* The checksum file is created, never replaced.
WriteChecksum(p) ==
  /\ At(p, {"backup"}, "checksum")
  /\ checksum' = IF checksum = NoBackup THEN [db |-> procs[p].copy, key |-> procs[p].key] ELSE checksum
  /\ Exit(p)
  /\ UNCHANGED <<files, published, committed, sent>>

-----------------------------------------------------------------------------
(* The operator. *)

MoveBackupAway ==
  /\ published # NoBackup /\ \A p \in Procs : procs[p] = Idle \/ procs[p].op # "backup"
  /\ published' = NoBackup /\ checksum' = NoBackup
  /\ UNCHANGED <<files, procs, committed, sent>>

Start(p) == Launch(p) \/ LockService(p) \/ LockMaintenance(p) \/ Open(p)
Upgrade(p) ==
  \/ CreateMarkerTable(p) \/ InsertMarker(p) \/ MigrateOnce(p) \/ BeginScan(p) \/ MigrateChunk(p)
  \/ NextTable(p) \/ FinishScan(p) \/ SealCheck(p) \/ LoadSigningKey(p)
Serve(p) == Record(p) \/ Configure(p) \/ Checkpoint(p)
Command(p) ==
  \/ Change(p) \/ Rekey(p) \/ Copy(p) \/ Verify(p) \/ Close(p) \/ Replace(p)
  \/ Recheck(p) \/ Publish(p) \/ WriteChecksum(p)

Next ==
  \/ \E p \in Procs : Start(p) \/ Upgrade(p) \/ Serve(p) \/ Command(p) \/ Crash(p)
  \/ MoveBackupAway

Spec == Init /\ [][Next]_vars

-----------------------------------------------------------------------------
\* The one key of a database; two keys are no key at all.
KeyOf(db) == IF SealedUnder(db) = {} THEN NoKey
             ELSE IF Cardinality(SealedUnder(db)) = 1 THEN CHOOSE k \in SealedUnder(db) : TRUE ELSE "mixed"

V == INSTANCE Vault WITH version <- files[Live].version, key <- KeyOf(files[Live]),
                         kept <- files[Live].commits

TypeOK ==
  /\ committed \in 0 .. MaxCommits /\ Len(files) \in 1 .. MaxFiles
  /\ \A db \in ToSet(files) :
       /\ db \in Databases
       /\ db.progress # NoScan => db.version = 11
  /\ \A p \in Procs : procs[p] # Idle => procs[p].file \in 0 .. Live /\ procs[p].locks \subseteq {"service", "shared", "exclusive"}

(* Processes that crash, race and replace the file under each other leave   *)
(* what a Vault leaves: a version that only grows, one key that only a      *)
(* rotation changes, and every acknowledged write (LockMaintenanceShared's  *)
(* comment; Rekey's; Compact's).                                            *)
IsAVault == V!Spec

(* The service seals what it stores under the key of the database it has    *)
(* open, and has the live file open: no rotation and no replacement happens *)
(* under it (adminRekey, Compact).                                          *)
ServesTheLiveKey ==
  \A p \in Procs : Serving(p) => procs[p].file = Live /\ KeyOf(files[Live]) = procs[p].key

(* A database that says it is of a version has had every row rewritten by   *)
(* every step up to it, wherever its upgrades were interrupted              *)
(* (schema_migration_progress, and the steps that start over).              *)
UpgradedWhole ==
  \A db \in ToSet(files) \cup {published.db} :
    \A v \in 2 .. db.version : AllRows(db, v) \subseteq db.upgraded

(* No ledger sequence is sent twice, across restarts, compactions and       *)
(* checkpoints that are turned off and on again                             *)
(* (EnqueueLedgerCheckpointIfDue, ClearEvidenceCheckpointDestination).      *)
CheckpointsAdvance == \A i \in 2 .. Len(sent) : sent[i] > sent[i - 1]

(* A published backup opens with the key its command was given and starts:  *)
(* rotations and migrations may commit while it is taken (Backup). It is    *)
(* not "never replaced" (store/backup.go:153): the recheck and the rename   *)
(* are two calls, and another backup may publish between them.              *)
BackupsOpen ==
  published # NoBackup =>
    SealedUnder(published.db) \subseteq {published.key} /\ Admits("serve", published.db, published.key)
=============================================================================
