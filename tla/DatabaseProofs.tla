--------------------------- MODULE DatabaseProofs ---------------------------
(***************************************************************************)
(* What Database keeps for every set of processes, keys and founding       *)
(* databases: migrations that may be cut anywhere leave no row behind, the *)
(* service serves the live file under its one key, checkpoints only        *)
(* advance, published backups open, and the whole implements a Vault.      *)
(***************************************************************************)
EXTENDS Database, FiniteSetTheorems, NaturalsInduction, WellFoundedInduction, TLAPS

-----------------------------------------------------------------------------
(* The inductive invariant.                                                 *)

Ops == {"serve", "rekey", "compact", "change", "inspect", "backup"}
LockNames == {"service", "shared", "exclusive"}
Points == {"service", "maintain", "open", "schema", "migrate", "sign", "serving", "reseal", "write", "read",
           "copy", "verify", "close", "replace", "recheck", "publish", "checksum"}
Processes ==
  [op : Ops, at : Points, key : Keys \cup {NoKey}, new : Keys \cup {NoKey}, file : Nat,
   locks : SUBSET LockNames, scan : [table : Nat, cursor : Nat], copy : Databases]

Sound(db) == db \in Databases /\ Whole(db) /\ OneKey(db)

Typed ==
  /\ files \in Seq(Databases) /\ Live > 0
  /\ \A i \in 1 .. Live : Sound(files[i])
  /\ procs \in [Procs -> Processes \cup {Idle}]
  /\ published \in [db : Databases, key : Keys \cup {NoKey}] /\ Sound(published.db)
  /\ committed \in Nat /\ sent \in Seq(Nat)

\* Where a command can be, and the locks it holds there.
Stages(op) ==
  CASE op = "serve" -> {"service", "open", "schema", "migrate", "sign", "serving"}
    [] op = "rekey" -> {"service", "open", "reseal"}
    [] op = "compact" -> {"service", "maintain", "open", "copy", "verify", "close", "replace"}
    [] op = "change" -> {"maintain", "open", "write"}
    [] op = "inspect" -> {"open", "read"}
    [] OTHER -> {"open", "copy", "verify", "recheck", "publish", "checksum"}
LocksAt(op, at) ==
  (IF op \in {"serve", "rekey", "compact"} /\ at # "service" THEN {"service"} ELSE {})
  \cup (IF op = "compact" /\ at \notin {"service", "maintain"} THEN {"exclusive"} ELSE {})
  \cup (IF op = "change" /\ at # "maintain" THEN {"shared"} ELSE {})
Staged(p) ==
  procs[p] # Idle => /\ procs[p].at \in Stages(procs[p].op)
                     /\ procs[p].locks = LocksAt(procs[p].op, procs[p].at)

\* The two locks exclude each other's holders.
Excluded ==
  \A p, q \in Procs : p # q =>
    /\ ~(Holds(p, "service") /\ Holds(q, "service"))
    /\ ~(Holds(p, "exclusive") /\ (Holds(q, "exclusive") \/ Holds(q, "shared")))

\* The stages in which a process has the live file open and may write it, or
\* stands by its copy of it.
Writing(p) ==
  \/ At(p, {"serve"}, "schema") \/ At(p, {"serve"}, "migrate")
  \/ At(p, {"serve"}, "sign") \/ At(p, {"serve"}, "serving")
  \/ At(p, {"rekey"}, "reseal") \/ At(p, {"change"}, "write")
  \/ At(p, {"compact"}, "copy") \/ At(p, {"compact"}, "verify") \/ At(p, {"compact"}, "close")

\* Every sealed value is under k.
Under(db, k) == \A q \in Places : db.sealed[q] \in {NoKey, k}

ServeKnows(p) ==
  procs[p] # Idle /\ procs[p].op = "serve" =>
    /\ procs[p].at # "service" => procs[p].key \in Keys
    /\ procs[p].at \in {"service", "open", "schema"} => procs[p].scan = NoScan
    /\ procs[p].at \notin {"service", "open"} => Under(files[Live], procs[p].key)
    /\ procs[p].at \in {"sign", "serving"} => files[Live].sealed.check = procs[p].key
    /\ procs[p].at = "migrate" => files[Live].version > 0
    /\ procs[p].at = "migrate" /\ procs[p].scan # NoScan =>
         /\ files[Live].version + 1 \in Chunked
         /\ Passed(files[Live], files[Live].version + 1, procs[p].scan)
         /\ files[Live].version = 11 => files[Live].progress = procs[p].scan

RekeyKnows(p) ==
  /\ procs[p] # Idle /\ procs[p].op = "rekey" => procs[p].new \in Keys
  /\ At(p, {"rekey"}, "reseal") => files[Live].version = Current /\ files[Live].sealed.check # NoKey

CopyIsLive(p) ==
  procs[p] # Idle /\ procs[p].op = "compact" /\ procs[p].at \in {"verify", "close", "replace"} =>
    procs[p].copy = files[Live]

BackupKnows(p) ==
  procs[p] # Idle /\ procs[p].op = "backup" =>
    /\ procs[p].at = "copy" => procs[p].file \in 1 .. Live /\ files[procs[p].file].version > 0
    /\ procs[p].at \in {"verify", "recheck", "publish", "checksum"} => procs[p].copy.version > 0
    /\ procs[p].at \in {"recheck", "publish", "checksum"} => KeyFits(procs[p].copy, procs[p].key)

Local(p) ==
  /\ Staged(p)
  /\ Writing(p) => procs[p].file = Live
  /\ procs[p] # Idle => Sound(procs[p].copy)
  /\ ServeKnows(p) /\ RekeyKnows(p) /\ CopyIsLive(p) /\ BackupKnows(p)

\* What was sent is at or below the mark of the last checkpoint.
SentBelowMark == \A i \in 1 .. Len(sent) : sent[i] <= files[Live].anchored

DInv ==
  /\ Typed /\ Excluded /\ SentBelowMark
  /\ \A p \in Procs : Local(p)
  /\ CheckpointsAdvance /\ BackupsOpen
-----------------------------------------------------------------------------
(* Migration steps and the rows they rewrite.                               *)

\* Every step scans a sequence of tables, a chunked one at least one.
LEMMA StepTables ==
  /\ \A v \in 2 .. Current : Tables[v] \in Seq(TableNames)
  /\ \A v \in Chunked : v \in 2 .. Current /\ Len(Tables[v]) \in Nat \ {0}
<1> DEFINE T == TableNames
<1>1. /\ <<>> \in Seq(T) /\ <<"events">> \in Seq(T) /\ <<"triggers">> \in Seq(T)
      /\ <<"tokens">> \in Seq(T) /\ <<"sessions">> \in Seq(T)
  BY DEF TableNames
<1>2. HistoryMetadata \in Seq(T) /\ Severities \in Seq(T) /\ Timestamps \in Seq(T)
  BY DEF HistoryMetadata, Severities, Timestamps, TableNames
<1> HIDE DEF T
<1>3. /\ \A v \in 3 .. 5 : HistorySteps[v] \in Seq(T)
      /\ \A v \in 6 .. 8 : LedgerSteps[v] \in Seq(T)
      /\ \A v \in 9 .. 11 : FencingSteps[v] \in Seq(T)
      /\ \A v \in 15 .. 16 : SecuritySteps[v] \in Seq(T)
  <2>1. ASSUME NEW v \in 3 .. 5 PROVE v = 3 \/ v = 4 \/ v = 5
    OBVIOUS
  <2>2. ASSUME NEW v \in 3 .. 5 PROVE HistorySteps[v] \in Seq(T)
    BY <1>1, <2>1 DEF HistorySteps
  <2> QED BY <1>1, <2>2 DEF LedgerSteps, FencingSteps, SecuritySteps
<1>4. ASSUME NEW v \in 2 .. Current
      PROVE  Tables[v] \in Seq(T)
  BY <1>1, <1>2, <1>3 DEF Tables
<1>5. ASSUME NEW v \in Chunked
      PROVE  v \in 2 .. Current /\ Len(Tables[v]) \in Nat \ {0}
  BY DEF Chunked, Current, Tables, HistoryMetadata, Severities, Timestamps
<1> QED BY <1>4, <1>5 DEF T

\* What a step rewrites of a database is a set of rows of the file, the same
\* for any two databases with the same rows.
LEMMA RowsTyped ==
  ASSUME NEW db \in Databases, NEW v \in 2 .. Current
  PROVE  /\ AllRows(db, v) \in SUBSET (Nat \X TableNames \X Nat)
         /\ \A d : d.rows = db.rows => AllRows(d, v) = AllRows(db, v)
<1>1. Tables[v] \in Seq(TableNames)
  BY StepTables
<1>2. ToSet(Tables[v]) \subseteq TableNames
  BY <1>1 DEF ToSet
<1>3. db.rows \in Nat /\ v \in Nat
  BY DEF Databases, Current
<1> QED BY <1>2, <1>3 DEF AllRows, Rewritten

\* A row is among a step's rows if its table is one the step scans.
LEMMA RowOfTable ==
  ASSUME NEW db \in Databases, NEW v \in 2 .. Current, NEW x
  PROVE  x \in AllRows(db, v) <=>
           \E n \in 1 .. Len(Tables[v]), i \in 1 .. db.rows : x = <<v, Tables[v][n], i>>
<1>1. ToSet(Tables[v]) = {Tables[v][n] : n \in 1 .. Len(Tables[v])}
  BY StepTables DEF ToSet
<1> QED BY <1>1 DEF AllRows, Rewritten

-----------------------------------------------------------------------------
(* Scans.                                                                   *)

\* A set of rows has a first and a last one.
LEMMA FirstRow ==
  ASSUME NEW S \in SUBSET Nat, S # {}
  PROVE  \E i \in S : \A j \in S : i <= j
<1>1. \E i \in S : \A j \in S : ~(<<j, i>> \in OpToRel(<, Nat))
  BY NatLessThanWellFounded, WFMin
<1>2. \A i, j \in Nat : <<j, i>> \notin OpToRel(<, Nat) => i <= j
  BY DEF OpToRel
<1> QED BY <1>1, <1>2

\* A set of positions that is not empty has a last one.
LEMMA LastRow ==
  ASSUME NEW n \in Nat, NEW S \in SUBSET (1 .. n), S # {}
  PROVE  \E i \in S : \A j \in S : j <= i
<1> DEFINE T == {n - i : i \in S}
<1>1. T \in SUBSET Nat /\ T # {}
  <2>1. \A i \in S : n - i \in Nat
    OBVIOUS
  <2> QED BY <2>1
<1>2. PICK t \in T : \A u \in T : t <= u
  BY <1>1, FirstRow
<1>3. PICK i \in S : t = n - i
  BY <1>2
<1>4. \A j \in S : n - i <= n - j
  BY <1>2, <1>3
<1> QED BY <1>4

Scans == [table : Nat, cursor : Nat]

\* A chunk is a beginning of what is pending, and none only if nothing is.
LEMMA ChunkIsFirst ==
  ASSUME NEW db \in Databases, NEW v \in Chunked, NEW s \in Scans
  PROVE  /\ Pending(db, v, s) \in SUBSET (1 .. db.rows)
         /\ NextRows(db, v, s) \in SUBSET Pending(db, v, s)
         /\ NextRows(db, v, s) = {} => Pending(db, v, s) = {}
         /\ \A i \in Pending(db, v, s), j \in NextRows(db, v, s) : i <= j => i \in NextRows(db, v, s)
<1> DEFINE P == Pending(db, v, s)
           Below(i) == {j \in P : j < i}
<1>1. db.rows \in Nat /\ s.cursor \in Nat
  BY DEF Databases, Scans
<1>2. P \in SUBSET (1 .. db.rows) /\ NextRows(db, v, s) = {i \in P : Cardinality(Below(i)) < Chunk}
  BY <1>1 DEF Pending, NextRows
<1>3. IsFiniteSet(1 .. db.rows)
  BY <1>1, FS_Interval
<1>4. IsFiniteSet(P)
  BY <1>2, <1>3, FS_Subset
<1> HIDE DEF P
<1>5. P # {} => NextRows(db, v, s) # {}
  <2> SUFFICES ASSUME P # {} PROVE NextRows(db, v, s) # {}
    OBVIOUS
  <2>1. PICK i \in P : \A j \in P : i <= j
    BY <1>2, FirstRow
  <2>2. Below(i) = {}
    <3>1. \A j \in P : i \in Nat /\ j \in Nat /\ ~(j < i)
      BY <2>1, <1>1, <1>2
    <3> QED BY <3>1
  <2>3. Cardinality(Below(i)) = 0 /\ Chunk \in Nat \ {0}
    BY <2>2, FS_EmptySet, DatabaseAssumption DEF DatabaseAssumption
  <2> QED BY <2>1, <2>3, <1>2
<1>6. ASSUME NEW i \in P, NEW j \in NextRows(db, v, s), i <= j
      PROVE  i \in NextRows(db, v, s)
  <2>1. j \in P /\ Cardinality(Below(j)) < Chunk
    BY <1>2
  <2>2. i \in Nat /\ j \in Nat
    BY <1>2, <2>1
  <2>3. Below(i) \subseteq Below(j)
    <3>1. \A k \in P : k \in Nat
      BY <1>2
    <3>2. \A k \in P : k < i => k < j
      BY <3>1, <1>6, <2>2
    <3> QED BY <3>2
  <2>4. IsFiniteSet(Below(j)) /\ IsFiniteSet(Below(i))
    BY <1>4, FS_Subset
  <2>5. Cardinality(Below(i)) <= Cardinality(Below(j)) /\ Cardinality(Below(i)) \in Nat /\ Cardinality(Below(j)) \in Nat
    BY <2>3, <2>4, FS_Subset, FS_CardinalityType
  <2>6. Chunk \in Nat
    BY DatabaseAssumption DEF DatabaseAssumption
  <2> QED BY <1>2, <2>1, <2>5, <2>6
<1> QED BY <1>2, <1>5, <1>6 DEF P

\* One chunk takes the scan to its last row.
LEMMA ChunkPasses ==
  ASSUME NEW db \in Databases, NEW v \in Chunked, NEW s \in Scans, NEW d \in Databases,
         Passed(db, v, s), NextRows(db, v, s) # {}, d.rows = db.rows,
         d.upgraded = db.upgraded \cup Rewritten(v, Tables[v][s.table], NextRows(db, v, s)),
         NEW c, c = CHOOSE i \in NextRows(db, v, s) : \A j \in NextRows(db, v, s) : j <= i
  PROVE  /\ [s EXCEPT !.cursor = c] \in Scans
         /\ Passed(d, v, [s EXCEPT !.cursor = c])
<1> DEFINE R == NextRows(db, v, s)
           P == Pending(db, v, s)
<1>1. db.rows \in Nat /\ s.cursor \in Nat /\ s.table \in Nat
  BY DEF Databases, Scans
<1>2. P \in SUBSET (1 .. db.rows) /\ R \in SUBSET P /\ \A i \in P, j \in R : i <= j => i \in R
  BY ChunkIsFirst
<1>3. c \in R /\ \A j \in R : j <= c
  <2>1. \E i \in R : \A j \in R : j <= i
    BY <1>1, <1>2, LastRow
  <2> QED BY <2>1
<1>4. c \in Nat
  BY <1>1, <1>2, <1>3
<1>5. [s EXCEPT !.cursor = c] \in Scans /\ [s EXCEPT !.cursor = c].table = s.table
      /\ [s EXCEPT !.cursor = c].cursor = c
  BY <1>4 DEF Scans
<1>6. \A i \in 1 .. db.rows :
        i \in P <=> i > s.cursor /\ (v = 14 => <<v, Tables[v][s.table], i>> \notin db.upgraded)
  BY <1>1 DEF Pending
<1>7. /\ s.table \in 1 .. Len(Tables[v])
      /\ \A n \in 1 .. s.table, i \in 1 .. db.rows :
           n < s.table \/ i <= s.cursor => <<v, Tables[v][n], i>> \in db.upgraded
  BY DEF Passed, Rewritten
<1>8. ASSUME NEW n \in 1 .. s.table, NEW i \in 1 .. db.rows, n < s.table \/ i <= c
      PROVE  <<v, Tables[v][n], i>> \in d.upgraded
  <2>1. CASE n < s.table \/ i <= s.cursor
    BY <2>1, <1>7
  <2>2. CASE n = s.table /\ i > s.cursor /\ <<v, Tables[v][n], i>> \in db.upgraded
    BY <2>2
  <2>3. CASE n = s.table /\ i > s.cursor /\ <<v, Tables[v][n], i>> \notin db.upgraded
    <3>1. i \in P /\ i <= c
      BY <2>3, <1>6, <1>8, <1>1
    <3>2. i \in R
      BY <3>1, <1>2, <1>3
    <3> QED BY <3>2, <2>3 DEF Rewritten
  <2> QED BY <2>1, <2>2, <2>3, <1>1
<1> HIDE DEF R, P
<1>9. ASSUME NEW n \in 1 .. s.table
      PROVE  Rewritten(v, Tables[v][n], {i \in 1 .. d.rows : n < s.table \/ i <= c}) \subseteq d.upgraded
  BY <1>8 DEF Rewritten
<1> QED BY <1>5, <1>7, <1>9 DEF Passed

\* With nothing pending a scan has passed its table: it may begin the next,
\* and after the last the step has rewritten every row.
LEMMA TablePassed ==
  ASSUME NEW db \in Databases, NEW v \in Chunked, NEW s \in Scans,
         Passed(db, v, s), NextRows(db, v, s) = {}
  PROVE  /\ s.table # Len(Tables[v]) => Onward(s) \in Scans /\ Passed(db, v, Onward(s))
         /\ s.table = Len(Tables[v]) => AllRows(db, v) \subseteq db.upgraded
<1>1. db.rows \in Nat /\ s.cursor \in Nat /\ s.table \in Nat /\ v \in 2 .. Current /\ Len(Tables[v]) \in Nat
  BY StepTables DEF Databases, Scans
<1>2. Pending(db, v, s) = {}
  BY ChunkIsFirst
<1>3. /\ s.table \in 1 .. Len(Tables[v])
      /\ \A n \in 1 .. s.table, i \in 1 .. db.rows :
           n < s.table \/ i <= s.cursor => <<v, Tables[v][n], i>> \in db.upgraded
  BY DEF Passed, Rewritten
<1>4. ASSUME NEW n \in 1 .. s.table, NEW i \in 1 .. db.rows
      PROVE  <<v, Tables[v][n], i>> \in db.upgraded
  <2>1. CASE n < s.table \/ i <= s.cursor
    BY <2>1, <1>3
  <2>2. CASE n = s.table /\ i > s.cursor
    BY <1>2, <1>1, <2>2 DEF Pending
  <2> QED BY <2>1, <2>2, <1>1
<1>5. ASSUME s.table # Len(Tables[v])
      PROVE  Onward(s) \in Scans /\ Passed(db, v, Onward(s))
  <2>1. Onward(s) \in Scans /\ Onward(s).table = s.table + 1 /\ Onward(s).cursor = 0
    BY <1>1 DEF Onward, Scans
  <2>2. ASSUME NEW n \in 1 .. s.table + 1, NEW i \in 1 .. db.rows, n < s.table + 1 \/ i <= 0
        PROVE  <<v, Tables[v][n], i>> \in db.upgraded
    BY <2>2, <1>1, <1>4
  <2>3. s.table + 1 \in 1 .. Len(Tables[v])
    BY <1>1, <1>3, <1>5
  <2> QED BY <2>1, <2>2, <2>3 DEF Passed, Rewritten
<1>6. ASSUME s.table = Len(Tables[v])
      PROVE  AllRows(db, v) \subseteq db.upgraded
  BY <1>1, <1>4, <1>6, RowOfTable
<1> QED BY <1>5, <1>6

\* A scan that begins has passed nothing, and asks nothing of the rows.
LEMMA ScanBegins ==
  ASSUME NEW db \in Databases, NEW v \in Chunked
  PROVE  [table |-> 1, cursor |-> 0] \in Scans /\ Passed(db, v, [table |-> 1, cursor |-> 0])
<1>1. db.rows \in Nat /\ Len(Tables[v]) \in Nat \ {0}
  BY StepTables DEF Databases
<1> QED BY <1>1 DEF Passed, Rewritten, Scans

\* What a scan has passed stays passed while rows are only added to what the
\* steps have rewritten.
LEMMA PassedStays ==
  ASSUME NEW db, NEW d, NEW v, NEW s, Passed(db, v, s), d.rows = db.rows, db.upgraded \subseteq d.upgraded
  PROVE  Passed(d, v, s)
BY DEF Passed

-----------------------------------------------------------------------------
(* What is written keeps a database sound.                                  *)

\* Values under one key are values under no two.
LEMMA UnderIsOneKey ==
  ASSUME NEW db, NEW k, Under(db, k) PROVE OneKey(db)
BY DEF Under, OneKey

\* A database is sound after a write that leaves its version, rows and
\* progress and takes back no rewritten row.
LEMMA SoundKept ==
  ASSUME NEW db, NEW d \in Databases, Sound(db), OneKey(d),
         d.version = db.version, d.rows = db.rows, d.progress = db.progress, db.upgraded \subseteq d.upgraded
  PROVE  Sound(d)
<1>1. db \in Databases /\ Whole(db)
  BY DEF Sound
<1>2. ASSUME NEW v \in 2 .. d.version
      PROVE  AllRows(d, v) \subseteq d.upgraded
  <2>1. v \in 2 .. Current
    BY DEF Databases, Current
  <2>2. AllRows(d, v) = AllRows(db, v)
    BY <1>1, <2>1, RowsTyped
  <2> QED BY <1>1, <2>2 DEF Whole
<1>3. d.progress # NoScan => d.version = 11 /\ Passed(d, 12, d.progress)
  BY <1>1, PassedStays DEF Whole
<1> QED BY <1>1, <1>2, <1>3 DEF Sound, Whole

\* The marker of a file without a version: there are no rows to rewrite.
LEMMA MarkerSound ==
  ASSUME NEW db, Sound(db), NEW d, d = [db EXCEPT !.version = IF @ = 0 THEN Current ELSE @]
  PROVE  /\ Sound(d) /\ d.version = IF db.version = 0 THEN Current ELSE db.version
         /\ d.sealed = db.sealed /\ d.commits = db.commits /\ d.anchored = db.anchored
<1>1. db \in Databases /\ Whole(db) /\ OneKey(db)
  BY DEF Sound
<1>2. d \in Databases
  BY <1>1 DEF Databases, Current
<1>3. /\ d.sealed = db.sealed /\ d.rows = db.rows /\ d.progress = db.progress /\ d.upgraded = db.upgraded
      /\ d.version = (IF db.version = 0 THEN Current ELSE db.version)
      /\ d.commits = db.commits /\ d.anchored = db.anchored
  BY <1>1 DEF Databases
<1>4. OneKey(d)
  BY <1>1, <1>3 DEF OneKey
<1>5. ASSUME db.version # 0 PROVE Sound(d)
  BY <1>2, <1>3, <1>4, <1>5, SoundKept
<1>6. ASSUME db.version = 0 PROVE Sound(d)
  <2>1. d.rows = 0 /\ d.progress = NoScan /\ d.version = Current
    BY <1>1, <1>3, <1>6 DEF Whole
  <2>2. ASSUME NEW v \in 2 .. d.version
        PROVE  AllRows(d, v) \subseteq d.upgraded
    <3>1. v \in 2 .. Current /\ 1 .. d.rows = {}
      BY <2>1
    <3> QED BY <1>2, <3>1, RowOfTable
  <2> QED BY <1>2, <1>4, <2>1, <2>2 DEF Sound, Whole, Current
<1> QED BY <1>3, <1>5, <1>6

\* A step of one transaction, under the key of the database.
LEMMA TransactionSound ==
  ASSUME NEW db, Sound(db), NEW k \in Keys, Under(db, k), db.version > 0, NEW v, v = db.version + 1, v <= Current,
         v \notin Chunked, MovesURL(db, v) => db.sealed.settings = k
  PROVE  /\ Sound(InOneTransaction(db, v, k)) /\ Under(InOneTransaction(db, v, k), k)
         /\ InOneTransaction(db, v, k).version = v
         /\ InOneTransaction(db, v, k).commits = db.commits /\ InOneTransaction(db, v, k).anchored = db.anchored
<1> DEFINE d == InOneTransaction(db, v, k)
<1>1. db \in Databases /\ Whole(db) /\ OneKey(db)
  BY DEF Sound
<1>2. v \in 2 .. Current /\ db.version \in Nat /\ v \in Nat
  BY <1>1 DEF Databases, Current
<1>3. Sealed(db, v, k) \in [Places -> Keys \cup {NoKey}] /\ \A q \in Places : Sealed(db, v, k)[q] \in {NoKey, k}
  BY <1>1 DEF Sealed, Databases, Under, Places
<1>4. AllRows(db, v) \in SUBSET (Nat \X TableNames \X Nat)
  BY <1>1, <1>2, RowsTyped
<1>5. d \in Databases
  <2> DEFINE sealed == Sealed(db, v, k)
             rows == AllRows(db, v)
  <2>1. d = [db EXCEPT !.version = v, !.upgraded = @ \cup rows, !.sealed = sealed]
    BY DEF InOneTransaction
  <2>2. sealed \in [Places -> Keys \cup {NoKey}] /\ rows \in SUBSET (Nat \X TableNames \X Nat) /\ v \in 0 .. Current
    BY <1>2, <1>3, <1>4
  <2> HIDE DEF sealed, rows, d
  <2> QED BY <1>1, <2>1, <2>2 DEF Databases
<1>6. /\ d.version = v /\ d.sealed = Sealed(db, v, k) /\ d.rows = db.rows /\ d.progress = db.progress
      /\ d.upgraded = db.upgraded \cup AllRows(db, v) /\ d.commits = db.commits /\ d.anchored = db.anchored
  BY <1>1 DEF InOneTransaction, Databases
<1> HIDE DEF d
<1>7. Under(d, k) /\ OneKey(d)
  BY <1>3, <1>6, UnderIsOneKey DEF Under
<1>8. ASSUME NEW u \in 2 .. d.version
      PROVE  AllRows(d, u) \subseteq d.upgraded
  <2>1. u \in 2 .. Current /\ (u = v \/ u \in 2 .. db.version)
    BY <1>2, <1>6 DEF Current
  <2>2. AllRows(d, u) = AllRows(db, u)
    BY <1>1, <1>6, <2>1, RowsTyped
  <2> QED BY <1>1, <1>6, <2>1, <2>2 DEF Whole
<1>9. d.progress = NoScan /\ d.version # 0
  BY <1>1, <1>2, <1>6 DEF Whole, Chunked
<1> QED BY <1>5, <1>6, <1>7, <1>8, <1>9 DEF Sound, Whole, d

\* The cursor a step to version 12 stores with its chunk; the other steps
\* store none.
LEMMA StoredSound ==
  ASSUME NEW db, Sound(db), NEW v \in Chunked, v = db.version + 1, NEW s \in Scans, Passed(db, v, s)
  PROVE  /\ Sound(Stored(v, db, s)) /\ Passed(Stored(v, db, s), v, s)
         /\ Stored(v, db, s).version = db.version /\ Stored(v, db, s).sealed = db.sealed
         /\ Stored(v, db, s).commits = db.commits /\ Stored(v, db, s).anchored = db.anchored
         /\ v = 12 => Stored(v, db, s).progress = s
<1> DEFINE d == [db EXCEPT !.progress = s]
<1>1. db \in Databases /\ Whole(db) /\ OneKey(db)
  BY DEF Sound
<1>2. CASE v # 12
  BY <1>2 DEF Stored
<1>3. CASE v = 12
  <2>1. d \in Databases
    BY <1>1 DEF Databases, Scans
  <2>2. /\ d.version = db.version /\ d.sealed = db.sealed /\ d.rows = db.rows /\ d.upgraded = db.upgraded
        /\ d.commits = db.commits /\ d.anchored = db.anchored /\ d.progress = s
    BY <1>1 DEF Databases
  <2>3. Stored(v, db, s) = d
    BY <1>3 DEF Stored
  <2> HIDE DEF d
  <2>4. db.version = 11 /\ Passed(d, 12, s) /\ Passed(d, v, s)
    BY <1>1, <1>3, <2>2, PassedStays DEF Databases
  <2>5. ASSUME NEW u \in 2 .. d.version
        PROVE  AllRows(d, u) \subseteq d.upgraded
    <3>1. u \in 2 .. Current
      BY <2>2, <2>4 DEF Current
    <3>2. AllRows(d, u) = AllRows(db, u)
      BY <1>1, <2>2, <3>1, RowsTyped
    <3> QED BY <1>1, <2>2, <3>2 DEF Whole
  <2>6. OneKey(d)
    BY <1>1, <2>2 DEF OneKey
  <2> QED BY <2>1, <2>2, <2>3, <2>4, <2>5, <2>6 DEF Sound, Whole
<1> QED BY <1>2, <1>3

\* A chunk's rows.
LEMMA ChunkSound ==
  ASSUME NEW db, Sound(db), NEW v \in Chunked, NEW s \in Scans, Passed(db, v, s),
         NEW d, d = [db EXCEPT !.upgraded = @ \cup Rewritten(v, Tables[v][s.table], NextRows(db, v, s))]
  PROVE  /\ Sound(d)
         /\ d.version = db.version /\ d.sealed = db.sealed /\ d.rows = db.rows
         /\ d.commits = db.commits /\ d.anchored = db.anchored /\ d.progress = db.progress
         /\ d.upgraded = db.upgraded \cup Rewritten(v, Tables[v][s.table], NextRows(db, v, s))
<1> DEFINE R == Rewritten(v, Tables[v][s.table], NextRows(db, v, s))
<1>1. db \in Databases /\ Whole(db) /\ OneKey(db)
  BY DEF Sound
<1>2. NextRows(db, v, s) \subseteq 1 .. db.rows /\ db.rows \in Nat
  BY <1>1, ChunkIsFirst DEF Databases
<1>3. Tables[v] \in Seq(TableNames) /\ v \in Nat /\ s.table \in 1 .. Len(Tables[v])
  <2>1. v \in 2 .. Current
    BY StepTables
  <2>2. Tables[v] \in Seq(TableNames)
    BY <2>1, StepTables
  <2> QED BY <2>1, <2>2 DEF Current, Passed
<1>4. Tables[v][s.table] \in TableNames
  BY <1>3
<1>5. R \in SUBSET (Nat \X TableNames \X Nat)
  BY <1>2, <1>3, <1>4 DEF Rewritten
<1> HIDE DEF R
<1>6. d = [db EXCEPT !.upgraded = @ \cup R]
  BY DEF R
<1>7. /\ d \in Databases
      /\ d.version = db.version /\ d.sealed = db.sealed /\ d.rows = db.rows /\ d.progress = db.progress
      /\ d.commits = db.commits /\ d.anchored = db.anchored /\ d.upgraded = db.upgraded \cup R
  BY <1>1, <1>5, <1>6 DEF Databases
<1>8. OneKey(d)
  BY <1>1, <1>7 DEF OneKey
<1>9. Sound(d)
  BY <1>7, <1>8, SoundKept
<1> QED BY <1>7, <1>9 DEF R

\* A step whose scan is over.
LEMMA FinishedSound ==
  ASSUME NEW db, Sound(db), NEW v \in Chunked, v = db.version + 1, AllRows(db, v) \subseteq db.upgraded
  PROVE  /\ Sound(Finished(db)) /\ Finished(db).version = v /\ Finished(db).sealed = db.sealed
         /\ Finished(db).commits = db.commits /\ Finished(db).anchored = db.anchored
<1> DEFINE d == Finished(db)
<1>1. db \in Databases /\ Whole(db) /\ OneKey(db)
  BY DEF Sound
<1>2. v \in 2 .. Current /\ v \in Nat /\ db.version \in Nat
  <2>1. v \in 2 .. Current
    BY StepTables
  <2> QED BY <1>1, <2>1 DEF Databases, Current
<1>3. /\ d \in Databases
      /\ d.version = v /\ d.sealed = db.sealed /\ d.rows = db.rows /\ d.progress = NoScan
      /\ d.commits = db.commits /\ d.anchored = db.anchored /\ d.upgraded = db.upgraded
  <2>1. NoScan \in [table : Nat, cursor : Nat]
    BY DEF NoScan
  <2>2. db.version + 1 \in 0 .. Current
    BY <1>2
  <2> QED BY <1>1, <2>1, <2>2 DEF Finished, Databases
<1> HIDE DEF d
<1>4. ASSUME NEW u \in 2 .. d.version
      PROVE  AllRows(d, u) \subseteq d.upgraded
  <2>1. u \in 2 .. Current /\ (u = v \/ u \in 2 .. db.version)
    BY <1>2, <1>3 DEF Current
  <2>2. AllRows(d, u) = AllRows(db, u)
    BY <1>1, <1>3, <2>1, RowsTyped
  <2> QED BY <1>1, <1>3, <2>1, <2>2 DEF Whole
<1>5. OneKey(d)
  BY <1>1, <1>3 DEF OneKey
<1>6. Sound(d)
  BY <1>2, <1>3, <1>4, <1>5 DEF Sound, Whole
<1> QED BY <1>3, <1>6 DEF d

-----------------------------------------------------------------------------
(* What one process may do to the file under the others.                    *)

Successor(db, d) == Sound(d) /\ d.version >= db.version /\ d.anchored >= db.anchored

\* What a command beside the service leaves alone.
Beside(db, d) ==
  /\ d.version = db.version /\ d.sealed = db.sealed
  /\ d.rows = db.rows /\ d.upgraded = db.upgraded /\ d.progress = db.progress

\* The live file is written under one of the two locks, and replaced, by
\* itself, only under both.
FileStep(p) ==
  \/ UNCHANGED files
  \/ \E d \in Databases :
       /\ Successor(files[Live], d) /\ files' = [files EXCEPT ![Live] = d]
       /\ Holds(p, "service") \/ (Holds(p, "shared") /\ Beside(files[Live], d))
  \/ Holds(p, "service") /\ Holds(p, "exclusive") /\ files' = Append(files, files[Live])

\* What every step of a process does to the files: each stays sound, none goes
\* back in version, and the live file keeps its mark.
LEMMA FilesKept ==
  ASSUME Typed, NEW p \in Procs, FileStep(p)
  PROVE  /\ files' \in Seq(Databases) /\ Live \in Nat \ {0} /\ Live' \in Nat \ {0} /\ Live <= Live'
         /\ \A i \in 1 .. Live' : Sound(files'[i])
         /\ \A i \in 1 .. Live : files'[i].version >= files[i].version
         /\ files'[Live'].anchored >= files[Live].anchored
<1>1. files \in Seq(Databases) /\ Live \in Nat \ {0} /\ \A i \in 1 .. Live : Sound(files[i])
  BY DEF Typed, Live
<1>2. \A i \in 1 .. Live : files[i] \in Databases /\ files[i].version \in Nat /\ files[i].anchored \in Nat
  <2>1. \A i \in 1 .. Live : files[i] \in Databases
    BY <1>1 DEF Live
  <2>2. \A db \in Databases : db.version \in Nat /\ db.anchored \in Nat
    BY DEF Databases, Current
  <2> QED BY <2>1, <2>2
<1>3. CASE UNCHANGED files
  BY <1>1, <1>2, <1>3 DEF Live
<1>4. ASSUME NEW d \in Databases, Successor(files[Live], d), files' = [files EXCEPT ![Live] = d]
      PROVE  /\ files' \in Seq(Databases) /\ Live' = Live
             /\ \A i \in 1 .. Live' : Sound(files'[i])
             /\ \A i \in 1 .. Live : files'[i].version >= files[i].version
             /\ files'[Live'].anchored >= files[Live].anchored
  <2>1. files' \in Seq(Databases) /\ Live' = Live /\ files'[Live] = d /\ \A i \in 1 .. Live \ {Live} : files'[i] = files[i]
    BY <1>1, <1>4 DEF Live
  <2> QED BY <1>1, <1>2, <1>4, <2>1 DEF Successor
<1>5. CASE files' = Append(files, files[Live])
  <2>1. files[Live] \in Databases /\ Sound(files[Live])
    BY <1>1, <1>2
  <2>2. files' \in Seq(Databases) /\ Live' = Live + 1 /\ files'[Live + 1] = files[Live]
        /\ \A i \in 1 .. Live : files'[i] = files[i]
    BY <1>1, <2>1, <1>5 DEF Live
  <2>3. \A i \in 1 .. Live + 1 : i \in 1 .. Live \/ i = Live + 1
    BY <1>1
  <2>4. \A i \in 1 .. Live' : Sound(files'[i])
    BY <1>1, <2>1, <2>2, <2>3
  <2>5. \A i \in 1 .. Live : files'[i].version >= files[i].version
    BY <1>2, <2>2
  <2>6. Live \in 1 .. Live
    BY <1>1
  <2>7. files'[Live'].anchored >= files[Live].anchored
    BY <1>2, <2>2, <2>6
  <2>8. Live' \in Nat \ {0} /\ Live <= Live'
    BY <1>1, <2>2
  <2> QED BY <1>1, <2>2, <2>4, <2>5, <2>7, <2>8
<1>6. CASE \E d \in Databases : Successor(files[Live], d) /\ files' = [files EXCEPT ![Live] = d]
  <2>1. PICK d \in Databases : Successor(files[Live], d) /\ files' = [files EXCEPT ![Live] = d]
    BY <1>6
  <2>2. /\ files' \in Seq(Databases) /\ Live' = Live
        /\ \A i \in 1 .. Live' : Sound(files'[i])
        /\ \A i \in 1 .. Live : files'[i].version >= files[i].version
        /\ files'[Live'].anchored >= files[Live].anchored
    BY <1>4, <2>1
  <2>3. Live' \in Nat \ {0} /\ Live <= Live'
    BY <1>1, <2>2
  <2> QED BY <1>1, <2>2, <2>3
<1> QED BY <1>3, <1>5, <1>6 DEF FileStep

\* The locks of a process that is past the point where it takes them.
LEMMA LocksHeld ==
  ASSUME NEW q \in Procs, Staged(q), procs[q] # Idle
  PROVE  /\ procs[q].op \in {"serve", "rekey", "compact"} /\ procs[q].at # "service" => Holds(q, "service")
         /\ procs[q].op = "compact" /\ procs[q].at \notin {"service", "maintain"} => Holds(q, "exclusive")
         /\ procs[q].op = "change" /\ procs[q].at # "maintain" => Holds(q, "shared")
BY DEF Staged, LocksAt, Holds

\* Whatever another process does to the file, a process keeps what it knows.
LEMMA OthersKeep ==
  ASSUME Typed, Excluded, NEW p \in Procs, NEW q \in Procs \ {p}, FileStep(p), Local(q), procs'[q] = procs[q]
  PROVE  Local(q)'
<1> DEFINE r == procs[q]
<1>0. CASE r = Idle
  BY <1>0 DEF Local, Staged, Writing, At, ServeKnows, RekeyKnows, CopyIsLive, BackupKnows
<1> SUFFICES ASSUME r # Idle PROVE Local(q)'
  BY <1>0
<1>1. /\ Staged(q) /\ (Writing(q) => r.file = Live) /\ Sound(r.copy)
      /\ ServeKnows(q) /\ RekeyKnows(q) /\ CopyIsLive(q) /\ BackupKnows(q)
  BY DEF Local
<1>2. /\ r.op \in {"serve", "rekey", "compact"} /\ r.at # "service" => Holds(q, "service")
      /\ r.op = "compact" /\ r.at \notin {"service", "maintain"} => Holds(q, "exclusive")
      /\ r.op = "change" /\ r.at # "maintain" => Holds(q, "shared")
  BY <1>1, LocksHeld
<1>3. /\ ~(Holds(p, "service") /\ Holds(q, "service"))
      /\ ~(Holds(p, "shared") /\ Holds(q, "exclusive"))
      /\ ~(Holds(p, "exclusive") /\ Holds(q, "shared"))
  BY DEF Excluded
<1>4. Staged(q)' /\ Sound(procs'[q].copy)
  BY <1>1 DEF Staged
<1>5. files' \in Seq(Databases) /\ Live \in Nat \ {0} /\ Live' \in Nat \ {0} /\ Live <= Live'
      /\ \A i \in 1 .. Live : files'[i].version >= files[i].version /\ files[i].version \in Nat /\ files'[i].version \in Nat
  <2>1. \A i \in 1 .. Live : files[i] \in Databases
    BY DEF Typed, Live
  <2>2. /\ files' \in Seq(Databases) /\ Live \in Nat \ {0} /\ Live' \in Nat \ {0} /\ Live <= Live'
        /\ \A i \in 1 .. Live : files'[i].version >= files[i].version
    BY FilesKept
  <2>3. \A i \in 1 .. Live : files'[i] \in Databases
    BY <2>2 DEF Live
  <2>4. \A db \in Databases : db.version \in Nat
    BY DEF Databases, Current
  <2> QED BY <2>1, <2>2, <2>3, <2>4
<1>6. BackupKnows(q)'
  <2>1. ASSUME r.op = "backup", r.at = "copy"
        PROVE  r.file \in 1 .. Live' /\ files'[r.file].version > 0
    <3>1. r.file \in 1 .. Live /\ files[r.file].version > 0
      BY <1>1, <2>1 DEF BackupKnows
    <3> QED BY <1>5, <3>1
  <2>2. r.op = "backup" => /\ r.at \in {"verify", "recheck", "publish", "checksum"} => r.copy.version > 0
                           /\ r.at \in {"recheck", "publish", "checksum"} => KeyFits(r.copy, r.key)
    BY <1>1 DEF BackupKnows
  <2>3. procs'[q] = r
    OBVIOUS
  <2> HIDE DEF r
  <2>4. r.op = "backup" => /\ r.at = "copy" => r.file \in 1 .. Live' /\ files'[r.file].version > 0
                           /\ r.at \in {"verify", "recheck", "publish", "checksum"} => r.copy.version > 0
                           /\ r.at \in {"recheck", "publish", "checksum"} => KeyFits(r.copy, r.key)
    BY <2>1, <2>2
  <2> QED BY <2>3, <2>4 DEF BackupKnows
<1>7. CASE UNCHANGED files
  <2>1. procs'[q] = procs[q] /\ files' = files /\ Live' = Live
    BY <1>7 DEF Live
  <2>2. Writing(q)' => r.file = Live'
    BY <1>1, <2>1 DEF Writing, At
  <2>3. ServeKnows(q)'
    <3> DEFINE db == files[Live]
               db2 == files'[Live']
               s == r.scan
    <3>1. db2 = db
      BY <2>1
    <3>2. r.op = "serve" => /\ r.at # "service" => r.key \in Keys
                            /\ r.at \in {"service", "open", "schema"} => s = NoScan
                            /\ r.at \notin {"service", "open"} => Under(db, r.key)
                            /\ r.at \in {"sign", "serving"} => db.sealed.check = r.key
                            /\ r.at = "migrate" => db.version > 0
                            /\ r.at = "migrate" /\ s # NoScan =>
                                 /\ db.version + 1 \in Chunked
                                 /\ Passed(db, db.version + 1, s)
                                 /\ db.version = 11 => db.progress = s
      BY <1>1 DEF ServeKnows
    <3> HIDE DEF db, db2
    <3>3. \A k : Under(db, k) => Under(db2, k)
      BY <3>1 DEF Under
    <3>4. \A v, x : Passed(db, v, x) => Passed(db2, v, x)
      BY <3>1 DEF Passed
    <3>5. r.op = "serve" => /\ r.at # "service" => r.key \in Keys
                            /\ r.at \in {"service", "open", "schema"} => s = NoScan
                            /\ r.at \notin {"service", "open"} => Under(db2, r.key)
                            /\ r.at \in {"sign", "serving"} => db2.sealed.check = r.key
                            /\ r.at = "migrate" => db2.version > 0
                            /\ r.at = "migrate" /\ s # NoScan =>
                                 /\ db2.version + 1 \in Chunked
                                 /\ Passed(db2, db2.version + 1, s)
                                 /\ db2.version = 11 => db2.progress = s
      BY <3>1, <3>2, <3>3, <3>4
    <3> QED BY <2>1, <3>5 DEF ServeKnows, db2
  <2>4. RekeyKnows(q)' /\ CopyIsLive(q)'
    BY <1>1, <2>1 DEF RekeyKnows, CopyIsLive, At
  <2> QED BY <1>4, <1>6, <2>1, <2>2, <2>3, <2>4 DEF Local
<1>8. CASE Holds(p, "service") /\ files' # files
  <2>1. ~(r.op \in {"serve", "rekey", "compact"} /\ r.at # "service")
    BY <1>2, <1>3, <1>8
  <2>2. ServeKnows(q)' /\ RekeyKnows(q)' /\ CopyIsLive(q)'
    BY <1>1, <2>1 DEF ServeKnows, RekeyKnows, CopyIsLive, At
  <2>3. Writing(q)' => At(q, {"change"}, "write") /\ Writing(q)
    BY <2>1 DEF Writing, At
  <2>4. At(q, {"change"}, "write") => ~Holds(p, "exclusive")
    BY <1>2, <1>3 DEF At
  <2>5. ~Holds(p, "exclusive") => Live' = Live
    BY <1>8, Typed DEF FileStep, Typed, Live
  <2> QED BY <1>1, <1>4, <1>6, <2>2, <2>3, <2>4, <2>5 DEF Local
<1>9. ASSUME NEW d \in Databases, files' = [files EXCEPT ![Live] = d], Holds(p, "shared"), Beside(files[Live], d)
      PROVE  Local(q)'
  <2>1. ~(r.op = "compact" /\ r.at \notin {"service", "maintain"})
    BY <1>2, <1>3, <1>9
  <2>2. Live' = Live /\ files'[Live] = d
    BY <1>9 DEF Typed, Live
  <2>3. CopyIsLive(q)'
    BY <2>1 DEF CopyIsLive
  <2>4. RekeyKnows(q)'
    BY <1>1, <1>9, <2>2 DEF RekeyKnows, At, Beside
  <2>5. ServeKnows(q)'
    BY <1>1, <1>9, <2>2 DEF ServeKnows, Beside, Under, Passed
  <2>6. Writing(q)' => r.file = Live'
    BY <1>1, <2>2 DEF Writing, At
  <2> QED BY <1>4, <1>6, <2>3, <2>4, <2>5, <2>6 DEF Local
<1> QED BY <1>7, <1>8, <1>9 DEF FileStep

-----------------------------------------------------------------------------
(* One process at a time: what it leaves behind.                            *)

Known == Typed /\ Excluded /\ \A p \in Procs : Local(p)

Own(p) ==
  /\ FileStep(p) /\ procs' \in [Procs -> Processes \cup {Idle}]
  /\ \A q \in Procs \ {p} : procs'[q] = procs[q]
  /\ Local(p)' /\ Excluded'

\* The definitions that say what a process at some point knows.
LEMMA BusyIsTyped ==
  ASSUME Known, NEW p \in Procs, procs[p] # Idle
  PROVE  procs[p] \in Processes /\ Local(p)
BY DEF Known, Typed

\* A process slot is free or taken, never both.
LEMMA IdleIsNoProcess == Idle \notin Processes
BY DEF Idle, Processes, Ops

\* A database nobody has written is sound, and so is the copy of a command
\* that has not made one.
LEMMA EmptySound == Sound(Empty)
<1>1. Unsealed \in [Places -> Keys \cup {NoKey}] /\ \A q \in Places : Unsealed[q] = NoKey
  BY DEF Unsealed
<1>2. NoScan \in [table : Nat, cursor : Nat] /\ 0 \in 0 .. Current
  BY DEF NoScan, Current
<1>3. Empty \in Databases
  BY <1>1, <1>2 DEF Empty, Databases
<1>4. OneKey(Empty)
  BY <1>1 DEF OneKey, Empty
<1>5. Empty.version = 0 /\ Empty.rows = 0 /\ Empty.progress = NoScan
  BY DEF Empty
<1> QED BY <1>3, <1>4, <1>5 DEF Sound, Whole

\* A process that comes to hold no lock it did not hold excludes no more.
LEMMA NoNewLocks ==
  ASSUME Known, NEW p \in Procs, NEW r \in Processes \cup {Idle}, Become(p, r),
         r # Idle => r.locks = {} \/ (procs[p] # Idle /\ r.locks \subseteq procs[p].locks)
  PROVE  Excluded'
<1>1. procs'[p] = r /\ \A q \in Procs \ {p} : procs'[q] = procs[q]
  BY DEF Known, Typed, Become
<1>2. \A lock : Holds(p, lock)' => Holds(p, lock)
  BY <1>1 DEF Holds
<1>3. \A q \in Procs : \A lock : Holds(q, lock)' => Holds(q, lock)
  BY <1>1, <1>2 DEF Holds
<1> QED BY <1>3 DEF Known, Excluded

\* A process that ends keeps the invariant when it writes the files as it may.
LEMMA Exits ==
  ASSUME Known, NEW p \in Procs, Exit(p), FileStep(p)
  PROVE  Own(p)
<1>1. procs' \in [Procs -> Processes \cup {Idle}] /\ procs'[p] = Idle /\ \A q \in Procs \ {p} : procs'[q] = procs[q]
  BY DEF Known, Typed, Exit, Become
<1>2. Local(p)'
  BY <1>1 DEF Local, Staged, Writing, At, ServeKnows, RekeyKnows, CopyIsLive, BackupKnows
<1>3. Excluded'
  BY NoNewLocks DEF Exit
<1> QED BY <1>1, <1>2, <1>3 DEF Own

\* So does a process that moves on without a new lock.
LEMMA Moves ==
  ASSUME Known, NEW p \in Procs, NEW r \in Processes, Become(p, r), FileStep(p), Local(p)',
         r.locks = {} \/ (procs[p] # Idle /\ r.locks \subseteq procs[p].locks)
  PROVE  Own(p)
<1>1. procs' \in [Procs -> Processes \cup {Idle}] /\ \A q \in Procs \ {p} : procs'[q] = procs[q]
  BY DEF Known, Typed, Become
<1>2. Excluded'
  BY NoNewLocks
<1> QED BY <1>1, <1>2 DEF Own

\* A command starts without a lock, and before it has looked at the file.
LEMMA Launched ==
  ASSUME Known, NEW p \in Procs, NEW r \in Processes, Become(p, r), UNCHANGED files,
         r.locks = {}, r.at \in {"service", "maintain", "open"}, r.copy = Empty, r.scan = NoScan,
         r.at \in Stages(r.op), LocksAt(r.op, r.at) = {}, r.op = "rekey" => r.new \in Keys,
         r.op = "serve" => r.at = "service"
  PROVE  Own(p)
<1>1. procs'[p] = r
  BY DEF Known, Typed, Become
<1>2. Local(p)'
  <2>1. Staged(p)' /\ Sound(procs'[p].copy)
    BY <1>1, EmptySound DEF Staged
  <2>2. ~Writing(p)'
    BY <1>1 DEF Writing, At
  <2>3. ServeKnows(p)' /\ RekeyKnows(p)'
    BY <1>1 DEF ServeKnows, RekeyKnows, At, Stages
  <2>4. CopyIsLive(p)' /\ BackupKnows(p)'
    BY <1>1 DEF CopyIsLive, BackupKnows
  <2> QED BY <2>1, <2>2, <2>3, <2>4 DEF Local
<1>3. FileStep(p)
  BY DEF FileStep
<1> QED BY <1>2, <1>3, Moves

\* A new process has opened nothing and holds nothing.
LEMMA LaunchOwn ==
  ASSUME Known, NEW p \in Procs, Launch(p)
  PROVE  Own(p)
<1>1. Empty \in Databases /\ NoScan \in [table : Nat, cursor : Nat]
  BY EmptySound DEF Sound, NoScan
<1>2. ASSUME NEW op \in Ops, NEW at \in Points, NEW k \in Keys \cup {NoKey}
      PROVE  /\ Process(op, at, k) \in Processes
             /\ Process(op, at, k).op = op /\ Process(op, at, k).at = at /\ Process(op, at, k).locks = {}
             /\ Process(op, at, k).copy = Empty /\ Process(op, at, k).scan = NoScan
  BY <1>1 DEF Process, Processes
<1>3. UNCHANGED files
  BY DEF Launch
<1>4. CASE LaunchServe(p)
  <2> DEFINE r == Process("serve", "service", NoKey)
  <2>1. r \in Processes /\ r.op = "serve" /\ r.at = "service" /\ r.locks = {} /\ r.copy = Empty /\ r.scan = NoScan
    BY <1>2 DEF Ops, Points
  <2>2. Become(p, r)
    BY <1>4 DEF LaunchServe
  <2> HIDE DEF r
  <2> QED BY <1>3, <2>1, <2>2, Launched DEF Stages, LocksAt, r
<1>5. CASE LaunchRekey(p)
  <2>1. PICK k \in Keys : Become(p, [Process("rekey", "service", NoKey) EXCEPT !.new = k])
    BY <1>5 DEF LaunchRekey
  <2> DEFINE r == [Process("rekey", "service", NoKey) EXCEPT !.new = k]
  <2>2. r \in Processes /\ r.op = "rekey" /\ r.at = "service" /\ r.locks = {} /\ r.copy = Empty /\ r.scan = NoScan /\ r.new = k
    <3>1. Process("rekey", "service", NoKey) \in Processes
      BY <1>2 DEF Ops, Points
    <3> QED BY <3>1, <1>1 DEF Process, Processes
  <2>3. Become(p, r)
    BY <2>1
  <2> HIDE DEF r
  <2> QED BY <1>3, <2>2, <2>3, Launched DEF Stages, LocksAt
<1>6. CASE LaunchCompact(p)
  <2>1. PICK k \in Keys : Become(p, Process("compact", "service", k))
    BY <1>6 DEF LaunchCompact
  <2> DEFINE r == Process("compact", "service", k)
  <2>2. r \in Processes /\ r.op = "compact" /\ r.at = "service" /\ r.locks = {} /\ r.copy = Empty /\ r.scan = NoScan
    BY <1>2 DEF Ops, Points
  <2> HIDE DEF r
  <2> QED BY <1>3, <2>1, <2>2, Launched DEF Stages, LocksAt, r
<1>7. CASE LaunchChange(p)
  <2>1. PICK k \in Keys : Become(p, Process("change", "maintain", k))
    BY <1>7 DEF LaunchChange
  <2> DEFINE r == Process("change", "maintain", k)
  <2>2. r \in Processes /\ r.op = "change" /\ r.at = "maintain" /\ r.locks = {} /\ r.copy = Empty /\ r.scan = NoScan
    BY <1>2 DEF Ops, Points
  <2> HIDE DEF r
  <2> QED BY <1>3, <2>1, <2>2, Launched DEF Stages, LocksAt, r
<1>8. CASE LaunchInspect(p)
  <2>1. PICK k \in Keys : Become(p, Process("inspect", "open", k))
    BY <1>8 DEF LaunchInspect
  <2> DEFINE r == Process("inspect", "open", k)
  <2>2. r \in Processes /\ r.op = "inspect" /\ r.at = "open" /\ r.locks = {} /\ r.copy = Empty /\ r.scan = NoScan
    BY <1>2 DEF Ops, Points
  <2> HIDE DEF r
  <2> QED BY <1>3, <2>1, <2>2, Launched DEF Stages, LocksAt, r
<1>9. CASE LaunchBackup(p)
  <2>1. PICK k \in Keys : Become(p, Process("backup", "open", k))
    BY <1>9 DEF LaunchBackup
  <2> DEFINE r == Process("backup", "open", k)
  <2>2. r \in Processes /\ r.op = "backup" /\ r.at = "open" /\ r.locks = {} /\ r.copy = Empty /\ r.scan = NoScan
    BY <1>2 DEF Ops, Points
  <2> HIDE DEF r
  <2> QED BY <1>3, <2>1, <2>2, Launched DEF Stages, LocksAt, r
<1> QED BY <1>4, <1>5, <1>6, <1>7, <1>8, <1>9 DEF Launch

\* The service lock is free when a process takes it.
LEMMA LockServiceOwn ==
  ASSUME Known, NEW p \in Procs, LockService(p)
  PROVE  Own(p)
<1>1. procs[p] \in Processes /\ procs[p] # Idle /\ Local(p) /\ procs[p].op \in {"serve", "compact", "rekey"}
      /\ procs[p].at = "service"
  BY BusyIsTyped DEF LockService, At
<1>2. FileStep(p)
  BY DEF LockService, FileStep
<1>3. CASE ~ServiceFree(p)
  BY <1>2, <1>3, Exits DEF LockService
<1>4. CASE ServiceFree(p)
  <2>1. PICK k \in IF procs[p].op = "compact" THEN {procs[p].key} ELSE Keys :
          Become(p, [procs[p] EXCEPT !.locks = {"service"}, !.key = k,
                                     !.at = IF procs[p].op = "compact" THEN "maintain" ELSE "open"])
    BY <1>4 DEF LockService
  <2> DEFINE r == [procs[p] EXCEPT !.locks = {"service"}, !.key = k,
                                   !.at = IF procs[p].op = "compact" THEN "maintain" ELSE "open"]
  <2>2. k \in Keys \cup {NoKey} /\ (procs[p].op # "compact" => k \in Keys)
    BY <1>1, <2>1 DEF Processes
  <2>3. /\ r \in Processes /\ r.op = procs[p].op /\ r.locks = {"service"} /\ r.copy = procs[p].copy
        /\ r.at = (IF procs[p].op = "compact" THEN "maintain" ELSE "open") /\ r.key = k /\ r.scan = procs[p].scan
        /\ r.new = procs[p].new
    BY <1>1, <2>2 DEF Processes, Points, LockNames
  <2>4. Become(p, r)
    BY <2>1
  <2> HIDE DEF r
  <2>5. procs'[p] = r /\ procs' \in [Procs -> Processes \cup {Idle}] /\ \A q \in Procs \ {p} : procs'[q] = procs[q]
    BY <2>3, <2>4 DEF Become, Known, Typed
  <2>6. Staged(p)' /\ ~Writing(p)' /\ Sound(procs'[p].copy)
    BY <1>1, <2>3, <2>5 DEF Staged, Stages, LocksAt, Writing, At, Local
  <2>7. ServeKnows(p)' /\ RekeyKnows(p)' /\ CopyIsLive(p)' /\ BackupKnows(p)'
    BY <1>1, <2>2, <2>3, <2>5 DEF Local, ServeKnows, RekeyKnows, CopyIsLive, BackupKnows, At
  <2>8. Local(p)'
    BY <2>6, <2>7 DEF Local
  <2>9. Excluded'
    <3>1. \A q \in Procs : \A lock : q # p /\ Holds(q, lock)' => Holds(q, lock)
      BY <2>5 DEF Holds
    <3>2. \A lock : Holds(p, lock)' => lock = "service"
      BY <2>3, <2>5 DEF Holds
    <3> QED BY <1>4, <3>1, <3>2 DEF Known, Excluded, ServiceFree, Others
  <2> QED BY <1>2, <2>5, <2>8, <2>9 DEF Own
<1> QED BY <1>3, <1>4

\* The maintenance lock excludes what it must when a process takes it.
LEMMA LockMaintenanceOwn ==
  ASSUME Known, NEW p \in Procs, LockMaintenance(p)
  PROVE  Own(p)
<1> DEFINE lock == IF procs[p].op = "compact" THEN "exclusive" ELSE "shared"
           r == [procs[p] EXCEPT !.locks = @ \cup {lock}, !.at = "open"]
<1>1. procs[p] \in Processes /\ procs[p] # Idle /\ Local(p) /\ procs[p].op \in {"change", "compact"}
      /\ procs[p].at = "maintain"
  BY BusyIsTyped DEF LockMaintenance, At
<1>2. FileStep(p)
  BY DEF LockMaintenance, FileStep
<1>3. CASE ~MaintenanceFree(p, lock)
  BY <1>2, <1>3, Exits DEF LockMaintenance
<1>4. CASE MaintenanceFree(p, lock)
  <2>1. Become(p, r)
    BY <1>4 DEF LockMaintenance
  <2>2. procs[p].locks = IF procs[p].op = "compact" THEN {"service"} ELSE {}
    BY <1>1 DEF Local, Staged, LocksAt
  <2>3. /\ r \in Processes /\ r.op = procs[p].op /\ r.locks = procs[p].locks \cup {lock} /\ r.copy = procs[p].copy
        /\ r.at = "open"
    BY <1>1 DEF Processes, Points, LockNames
  <2> HIDE DEF r
  <2>4. procs'[p] = r /\ procs' \in [Procs -> Processes \cup {Idle}] /\ \A q \in Procs \ {p} : procs'[q] = procs[q]
    BY <2>1, <2>3 DEF Become, Known, Typed
  <2>5. Staged(p)' /\ ~Writing(p)' /\ Sound(procs'[p].copy)
    BY <1>1, <2>2, <2>3, <2>4 DEF Staged, Stages, LocksAt, Writing, At, Local
  <2>6. ServeKnows(p)' /\ RekeyKnows(p)' /\ CopyIsLive(p)' /\ BackupKnows(p)'
    BY <1>1, <2>3, <2>4 DEF ServeKnows, RekeyKnows, CopyIsLive, BackupKnows, At
  <2>7. Local(p)'
    BY <2>5, <2>6 DEF Local
  <2>8. Excluded'
    <3>1. \A q \in Procs : \A l : q # p /\ Holds(q, l)' => Holds(q, l)
      BY <2>4 DEF Holds
    <3>2. \A l : Holds(p, l)' => Holds(p, l) \/ l = lock
      BY <1>1, <2>3, <2>4 DEF Holds
    <3>3. \A q \in Procs : q # p => ~Holds(q, "exclusive") /\ (lock = "exclusive" => ~Holds(q, "shared"))
      BY <1>4 DEF MaintenanceFree, Others
    <3>4. lock \in {"exclusive", "shared"}
      OBVIOUS
    <3> HIDE DEF lock
    <3> QED BY <3>1, <3>2, <3>3, <3>4 DEF Known, Excluded
  <2> QED BY <1>2, <2>4, <2>7, <2>8 DEF Own
<1> QED BY <1>3, <1>4

\* A key that opens a database of one key is the key of all its values.
LEMMA FitsIsUnder ==
  ASSUME NEW db \in Databases, OneKey(db), NEW k, KeyFits(db, k)
  PROVE  Under(db, k)
<1>1. CASE db.sealed.check # NoKey
  <2>1. db.sealed["check"] = k /\ "check" \in Places
    BY <1>1 DEF KeyFits, CheckFits, Places
  <2> QED BY <1>1, <2>1 DEF OneKey, Under
<1>2. CASE db.sealed.check = NoKey
  BY <1>2 DEF KeyFits, SealedUnder, Under
<1> QED BY <1>1, <1>2

\* A process opens the live file, and passes the preflight or ends.
LEMMA OpenOwn ==
  ASSUME Known, NEW p \in Procs, Open(p)
  PROVE  Own(p)
<1> DEFINE db == files[Live]
           r == [procs[p] EXCEPT !.file = Live, !.at = After[procs[p].op]]
<1>1. procs[p] \in Processes /\ procs[p] # Idle /\ Local(p) /\ procs[p].at = "open"
  BY BusyIsTyped DEF Open
<1>2. FileStep(p)
  BY DEF Open, FileStep
<1>3. CASE ~Admits(procs[p].op, db, procs[p].key)
  BY <1>2, <1>3, Exits DEF Open
<1>4. CASE Admits(procs[p].op, db, procs[p].key)
  <2>1. Become(p, r)
    BY <1>4 DEF Open
  <2>2. Live \in Nat \ {0} /\ db \in Databases /\ OneKey(db)
    BY DEF Known, Typed, Live, Sound
  <2>3. procs[p].op \in Ops /\ procs[p].op # "idle"
    BY <1>1 DEF Processes, Ops
  <2>4. After[procs[p].op] \in Points
    BY <2>3 DEF After, Points, Ops
  <2>5. /\ r \in Processes /\ r.op = procs[p].op /\ r.locks = procs[p].locks /\ r.copy = procs[p].copy
        /\ r.at = After[procs[p].op] /\ r.file = Live /\ r.key = procs[p].key /\ r.scan = procs[p].scan
        /\ r.new = procs[p].new
    BY <1>1, <2>2, <2>4 DEF Processes
  <2> HIDE DEF r, db
  <2>6. procs'[p] = r /\ files' = files
    BY <2>1 DEF Become, Known, Typed, Open
  <2>7. r.op = "serve" => Under(db, r.key)
    BY <1>4, <2>2, <2>5, FitsIsUnder DEF Admits, ReadOnly
  <2>8. r.op = "rekey" => db.version = Current /\ db.sealed.check # NoKey
    BY <1>4, <2>5 DEF Admits, Existing
  <2>9. r.op = "backup" => db.version > 0
    BY <1>4, <2>5 DEF Admits
  <2>10. Staged(p)' /\ Sound(procs'[p].copy)
    BY <1>1, <2>3, <2>5, <2>6 DEF Local, Staged, Stages, LocksAt, After, Ops
  <2>11. Writing(p)' => procs'[p].file = Live'
    BY <2>5, <2>6 DEF Live
  <2>12. ServeKnows(p)'
    BY <1>1, <2>5, <2>6, <2>7 DEF Local, ServeKnows, After, db, Live
  <2>13. RekeyKnows(p)' /\ CopyIsLive(p)'
    BY <1>1, <2>5, <2>6, <2>8 DEF Local, RekeyKnows, CopyIsLive, After, db, At, Live
  <2>14. BackupKnows(p)'
    BY <1>1, <2>2, <2>5, <2>6, <2>9 DEF BackupKnows, After, db, Live
  <2>15. Local(p)'
    BY <2>10, <2>11, <2>12, <2>13, <2>14 DEF Local
  <2> QED BY <1>1, <1>2, <2>1, <2>5, <2>15, Moves
<1> QED BY <1>3, <1>4

\* Sealing one more value under the key of the others.
LEMMA SealSound ==
  ASSUME NEW db, Sound(db), NEW k \in Keys, Under(db, k), NEW q \in Places,
         NEW w, w = [db.sealed EXCEPT ![q] = k], NEW d, d = [db EXCEPT !.sealed = w]
  PROVE  /\ Sound(d) /\ Under(d, k) /\ d.sealed = [db.sealed EXCEPT ![q] = k]
         /\ d.version = db.version /\ d.anchored = db.anchored /\ d.commits = db.commits
<1>1. db \in Databases
  BY DEF Sound
<1>2. [db.sealed EXCEPT ![q] = k] \in [Places -> Keys \cup {NoKey}]
  BY <1>1 DEF Databases
<1>3. /\ d \in Databases /\ d.sealed = [db.sealed EXCEPT ![q] = k] /\ d.version = db.version
      /\ d.anchored = db.anchored /\ d.commits = db.commits /\ d.rows = db.rows /\ d.progress = db.progress
      /\ d.upgraded = db.upgraded
  BY <1>1, <1>2 DEF Databases
<1>4. Under(d, k)
  BY <1>1, <1>3 DEF Under, Databases
<1>5. Sound(d)
  <2>1. OneKey(d)
    BY <1>4, UnderIsOneKey
  <2>2. db.upgraded \subseteq d.upgraded
    BY <1>3
  <2> QED BY <1>3, <2>1, <2>2, SoundKept
<1> QED BY <1>3, <1>4, <1>5

\* A write touches the live file, and with the lock is a step of the file.
LEMMA Writes ==
  ASSUME Known, NEW p \in Procs, procs[p] # Idle, Writing(p), NEW d, Write(p, d), Successor(Db(p), d),
         Holds(p, "service") \/ (Holds(p, "shared") /\ Beside(Db(p), d))
  PROVE  FileStep(p) /\ Db(p) = files[Live] /\ Live' = Live /\ files'[Live] = d
<1>1. procs[p].file = Live
  BY DEF Known, Local
<1>2. d \in Databases
  BY DEF Successor, Sound
<1>3. files' = [files EXCEPT ![Live] = d] /\ Db(p) = files[Live]
  BY <1>1 DEF Write, Db
<1>4. Live' = Live /\ files'[Live] = d
  BY <1>3 DEF Known, Typed, Live
<1> QED BY <1>2, <1>3, <1>4 DEF FileStep

\* A step of the service that writes and goes on.
LEMMA ServeStep ==
  ASSUME Known, NEW p \in Procs, procs[p] # Idle, procs[p].op = "serve", procs[p].at \notin {"service", "open"},
         NEW r \in Processes, procs' = [procs EXCEPT ![p] = r],
         r.op = "serve", r.at \in {"schema", "migrate", "sign", "serving"}, r.locks = procs[p].locks,
         r.file = procs[p].file, r.key = procs[p].key, r.copy = procs[p].copy,
         NEW d, Write(p, d), Successor(Db(p), d), Under(d, r.key),
         r.at \in {"sign", "serving"} => d.sealed.check = r.key,
         r.at = "schema" => r.scan = NoScan,
         r.at = "migrate" => d.version > 0,
         r.at = "migrate" /\ r.scan # NoScan =>
           /\ d.version + 1 \in Chunked /\ Passed(d, d.version + 1, r.scan)
           /\ d.version = 11 => d.progress = r.scan
  PROVE  Own(p)
<1>1. procs[p] \in Processes /\ Local(p)
  BY BusyIsTyped
<1>2. Holds(p, "service") /\ procs[p].at \in {"schema", "migrate", "sign", "serving"}
  BY <1>1, LocksHeld DEF Local, Staged, Stages
<1>3. Writing(p)
  BY <1>2 DEF Writing, At
<1>4. FileStep(p) /\ Live' = Live /\ files'[Live] = d
  BY <1>2, <1>3, Writes
<1>5. procs'[p] = r
  BY DEF Known, Typed
<1>6. Staged(p)' /\ Sound(procs'[p].copy)
  BY <1>1, <1>2, <1>5 DEF Local, Staged, Stages, LocksAt
<1>7. procs'[p].file = Live'
  BY <1>1, <1>3, <1>4, <1>5 DEF Local
<1>8. ServeKnows(p)'
  <2>1. procs[p].key \in Keys
    BY <1>1, <1>2 DEF Local, ServeKnows
  <2> QED BY <1>4, <1>5, <2>1 DEF ServeKnows
<1>9. RekeyKnows(p)' /\ CopyIsLive(p)' /\ BackupKnows(p)'
  BY <1>5 DEF RekeyKnows, CopyIsLive, BackupKnows, At
<1>10. Local(p)'
  BY <1>6, <1>7, <1>8, <1>9 DEF Local
<1> QED BY <1>4, <1>10, Moves DEF Become

\* Where the service is, and what it knows there.
LEMMA AtServe ==
  ASSUME Known, NEW p \in Procs, NEW at, At(p, {"serve"}, at), at \in {"schema", "migrate", "sign", "serving"}
  PROVE  /\ procs[p] \in Processes /\ procs[p] # Idle /\ procs[p].op = "serve" /\ procs[p].at = at
         /\ procs[p].file = Live /\ Db(p) = files[Live] /\ Sound(Db(p)) /\ Db(p).version \in Nat
         /\ procs[p].key \in Keys /\ Under(Db(p), procs[p].key) /\ Db(p).anchored \in Nat
         /\ at \in {"sign", "serving"} => Db(p).sealed.check = procs[p].key
         /\ at = "schema" => procs[p].scan = NoScan
         /\ at = "migrate" => Db(p).version > 0
         /\ at = "migrate" /\ procs[p].scan # NoScan =>
              /\ Db(p).version + 1 \in Chunked
              /\ Passed(Db(p), Db(p).version + 1, procs[p].scan)
              /\ Db(p).version = 11 => Db(p).progress = procs[p].scan
<1>1. procs[p] \in Processes /\ procs[p] # Idle /\ procs[p].op = "serve" /\ procs[p].at = at /\ Local(p)
  BY BusyIsTyped DEF At
<1>2. Writing(p)
  BY DEF Writing
<1>3. procs[p].file = Live /\ Db(p) = files[Live]
  BY <1>1, <1>2 DEF Local, Db
<1>4. Live \in 1 .. Live
  BY DEF Known, Typed, Live
<1>5. Sound(Db(p))
  BY <1>3, <1>4 DEF Known, Typed
<1>6. Db(p).version \in Nat /\ Db(p).anchored \in Nat
  BY <1>5 DEF Sound, Databases, Current
<1>7. ServeKnows(p)
  BY <1>1 DEF Local
<1> QED BY <1>1, <1>3, <1>5, <1>6, <1>7 DEF ServeKnows

\* The schema: the marker table, the marker, and one step after another.
LEMMA CreateMarkerTableOwn ==
  ASSUME Known, NEW p \in Procs, CreateMarkerTable(p)
  PROVE  Own(p)
<1> DEFINE d == [Db(p) EXCEPT !.tables = TRUE]
<1>1. At(p, {"serve"}, "schema") /\ Write(p, d) /\ procs' = procs
  BY DEF CreateMarkerTable
<1>2. /\ procs[p] \in Processes /\ procs[p] # Idle /\ procs[p].op = "serve" /\ procs[p].at = "schema"
      /\ Sound(Db(p)) /\ Db(p).version \in Nat /\ Db(p).anchored \in Nat
      /\ Under(Db(p), procs[p].key) /\ procs[p].scan = NoScan
  BY <1>1, AtServe
<1>3. /\ d \in Databases /\ d.sealed = Db(p).sealed /\ d.version = Db(p).version /\ d.anchored = Db(p).anchored
      /\ d.rows = Db(p).rows /\ d.upgraded = Db(p).upgraded /\ d.progress = Db(p).progress
  BY <1>2 DEF Sound, Databases
<1> HIDE DEF d
<1>4. Under(d, procs[p].key) /\ OneKey(d)
  BY <1>2, <1>3, UnderIsOneKey DEF Under
<1>5. Sound(d)
  BY <1>2, <1>3, <1>4, SoundKept
<1>6. Successor(Db(p), d)
  BY <1>2, <1>3, <1>5 DEF Successor
<1>7. procs' = [procs EXCEPT ![p] = procs[p]]
  BY <1>1 DEF Known, Typed
<1> QED BY <1>1, <1>2, <1>4, <1>6, <1>7, ServeStep

\* The first version marker is written once.
LEMMA InsertMarkerOwn ==
  ASSUME Known, NEW p \in Procs, InsertMarker(p)
  PROVE  Own(p)
<1> DEFINE d == [Db(p) EXCEPT !.version = IF @ = 0 THEN Current ELSE @]
           r == [procs[p] EXCEPT !.at = "migrate"]
<1>1. At(p, {"serve"}, "schema") /\ Write(p, d) /\ procs' = [procs EXCEPT ![p] = r]
  BY DEF InsertMarker, GoTo, Become
<1>2. /\ procs[p] \in Processes /\ procs[p] # Idle /\ procs[p].op = "serve" /\ procs[p].at = "schema"
      /\ Sound(Db(p)) /\ Db(p).version \in Nat /\ Db(p).anchored \in Nat
      /\ Under(Db(p), procs[p].key) /\ procs[p].scan = NoScan
  BY <1>1, AtServe
<1>3. /\ Sound(d) /\ d.version = (IF Db(p).version = 0 THEN Current ELSE Db(p).version)
      /\ d.sealed = Db(p).sealed /\ d.anchored = Db(p).anchored
  BY <1>2, MarkerSound
<1>4. /\ r \in Processes /\ r.op = "serve" /\ r.at = "migrate" /\ r.locks = procs[p].locks
      /\ r.file = procs[p].file /\ r.key = procs[p].key /\ r.copy = procs[p].copy /\ r.scan = NoScan
  BY <1>2 DEF Processes, Points
<1> HIDE DEF d, r
<1>5. Under(d, r.key)
  BY <1>2, <1>3, <1>4 DEF Under
<1>6. Successor(Db(p), d) /\ d.version > 0
  BY <1>2, <1>3 DEF Successor, Current
<1> QED BY <1>1, <1>2, <1>4, <1>5, <1>6, ServeStep

\* A migration step of one transaction moves the file one version on.
LEMMA MigrateOnceOwn ==
  ASSUME Known, NEW p \in Procs, MigrateOnce(p)
  PROVE  Own(p)
<1> DEFINE v == Db(p).version + 1
           k == procs[p].key
           d == InOneTransaction(Db(p), v, k)
<1>1. At(p, {"serve"}, "migrate") /\ Db(p).version < Current /\ v \notin Chunked
  BY DEF MigrateOnce, Migrating, Reaching
<1>2. /\ procs[p] \in Processes /\ procs[p] # Idle /\ procs[p].op = "serve" /\ procs[p].at = "migrate"
      /\ Sound(Db(p)) /\ Db(p).version \in Nat /\ Db(p).anchored \in Nat
      /\ Under(Db(p), k) /\ k \in Keys /\ Db(p).version > 0
      /\ (procs[p].scan # NoScan => v \in Chunked)
  BY <1>1, AtServe
<1>3. CASE MovesURL(Db(p), v) /\ Db(p).sealed.settings # k
  <2>1. Exit(p) /\ FileStep(p)
    BY <1>3 DEF MigrateOnce, Reaching, FileStep
  <2> QED BY <2>1, Exits
<1>4. CASE ~(MovesURL(Db(p), v) /\ Db(p).sealed.settings # k)
  <2>1. Write(p, d) /\ procs' = procs
    BY <1>4 DEF MigrateOnce, Reaching
  <2>2. v <= Current
    BY <1>1, <1>2 DEF Current
  <2>3. Sound(d) /\ Under(d, k) /\ d.version = v /\ d.anchored = Db(p).anchored
    BY <1>1, <1>2, <1>4, <2>2, TransactionSound
  <2> HIDE DEF d
  <2>4. Successor(Db(p), d) /\ d.version > 0
    BY <1>2, <2>3 DEF Successor
  <2>5. procs' = [procs EXCEPT ![p] = procs[p]]
    BY <2>1 DEF Known, Typed
  <2>6. procs[p].scan = NoScan
    BY <1>1, <1>2
  <2> QED BY <1>2, <2>1, <2>3, <2>4, <2>5, <2>6, ServeStep
<1> QED BY <1>3, <1>4

\* What the service knows while it scans.
LEMMA AtScan ==
  ASSUME Known, NEW p \in Procs, Scanning(p)
  PROVE  /\ procs[p] \in Processes /\ procs[p] # Idle /\ procs[p].op = "serve" /\ procs[p].at = "migrate"
         /\ Sound(Db(p)) /\ Db(p) \in Databases /\ Db(p).version \in Nat /\ Db(p).anchored \in Nat
         /\ procs[p].key \in Keys /\ Under(Db(p), procs[p].key) /\ Db(p).version > 0
         /\ procs[p].scan \in Scans /\ Reaching(p) = Db(p).version + 1 /\ Reaching(p) \in Chunked
         /\ Passed(Db(p), Reaching(p), procs[p].scan)
<1>1. At(p, {"serve"}, "migrate") /\ procs[p].scan # NoScan
  BY DEF Scanning, Migrating
<1>2. procs[p].scan \in Scans
  BY <1>1, AtServe DEF Processes, Scans
<1> QED BY <1>1, <1>2, AtServe DEF Reaching, Sound

\* A scan goes on: what it stores, and the scan it is at.
LEMMA ScanStep ==
  ASSUME Known, NEW p \in Procs, At(p, {"serve"}, "migrate"), Reaching(p) \in Chunked,
         NEW s \in Scans, Scan(p, s), NEW e, Sound(e), Passed(e, Reaching(p), s),
         e.version = Db(p).version, e.sealed = Db(p).sealed, e.anchored = Db(p).anchored,
         Write(p, Stored(Reaching(p), e, s))
  PROVE  Own(p)
<1> DEFINE v == Reaching(p)
           d == Stored(v, e, s)
           r == [procs[p] EXCEPT !.scan = s]
<1>1. /\ procs[p] \in Processes /\ procs[p] # Idle /\ procs[p].op = "serve" /\ procs[p].at = "migrate"
      /\ Db(p).version \in Nat /\ Db(p).anchored \in Nat /\ Under(Db(p), procs[p].key) /\ Db(p).version > 0
  BY AtServe
<1>2. v = e.version + 1
  BY DEF Reaching
<1>3. /\ Sound(d) /\ Passed(d, v, s) /\ d.version = e.version /\ d.sealed = e.sealed /\ d.anchored = e.anchored
      /\ v = 12 => d.progress = s
  BY <1>2, StoredSound
<1>4. /\ r \in Processes /\ r.op = "serve" /\ r.at = "migrate" /\ r.locks = procs[p].locks /\ r.scan = s
      /\ r.file = procs[p].file /\ r.key = procs[p].key /\ r.copy = procs[p].copy
  BY <1>1 DEF Processes, Scans
<1>5. procs' = [procs EXCEPT ![p] = r] /\ Write(p, d)
  BY DEF Scan, Become
<1> HIDE DEF d, r
<1>6. Under(d, r.key) /\ Successor(Db(p), d) /\ d.version > 0
  BY <1>1, <1>3, <1>4 DEF Under, Successor
<1>7. d.version + 1 \in Chunked /\ Passed(d, d.version + 1, r.scan) /\ (d.version = 11 => d.progress = r.scan)
  BY <1>2, <1>3, <1>4
<1> HIDE DEF v
<1> QED BY <1>1, <1>4, <1>5, <1>6, <1>7, ServeStep

\* A chunked step begins at its first table.
LEMMA BeginScanOwn ==
  ASSUME Known, NEW p \in Procs, BeginScan(p)
  PROVE  Own(p)
<1> DEFINE s == IF Db(p).progress # NoScan THEN Db(p).progress ELSE [table |-> 1, cursor |-> 0]
<1>1. At(p, {"serve"}, "migrate") /\ Reaching(p) \in Chunked /\ Scan(p, s) /\ Write(p, Stored(Reaching(p), Db(p), s))
  BY DEF BeginScan, Migrating
<1>2. Sound(Db(p)) /\ Db(p) \in Databases
  BY <1>1, AtServe DEF Sound
<1>3. s \in Scans /\ Passed(Db(p), Reaching(p), s)
  <2>1. CASE Db(p).progress # NoScan
    <3>1. Db(p).version = 11 /\ Passed(Db(p), 12, Db(p).progress)
      BY <1>2, <2>1 DEF Sound, Whole
    <3> QED BY <1>2, <2>1, <3>1 DEF Reaching, Databases, Scans
  <2>2. CASE Db(p).progress = NoScan
    BY <1>1, <1>2, <2>2, ScanBegins
  <2> QED BY <2>1, <2>2
<1> HIDE DEF s
<1> QED BY <1>1, <1>2, <1>3, ScanStep

\* A chunk moves the cursor and rewrites no key.
LEMMA MigrateChunkOwn ==
  ASSUME Known, NEW p \in Procs, MigrateChunk(p)
  PROVE  Own(p)
<1> DEFINE v == Reaching(p)
           s == procs[p].scan
           c == CHOOSE i \in Rows(p) : \A j \in Rows(p) : j <= i
           t == [s EXCEPT !.cursor = c]
           e == [Db(p) EXCEPT !.upgraded = @ \cup Rewritten(v, Tables[v][s.table], Rows(p))]
<1>1. Scanning(p) /\ Rows(p) # {} /\ Scan(p, t) /\ Write(p, Stored(v, e, t))
  BY DEF MigrateChunk
<1>2. Rows(p) = NextRows(Db(p), v, s)
  BY DEF Rows
<1>3. /\ Sound(Db(p)) /\ Db(p) \in Databases /\ s \in Scans /\ v \in Chunked /\ Passed(Db(p), v, s)
      /\ At(p, {"serve"}, "migrate")
  BY <1>1, AtScan DEF Scanning, Migrating
<1>4. /\ Sound(e) /\ e.version = Db(p).version /\ e.sealed = Db(p).sealed /\ e.rows = Db(p).rows
      /\ e.anchored = Db(p).anchored
      /\ e.upgraded = Db(p).upgraded \cup Rewritten(v, Tables[v][s.table], NextRows(Db(p), v, s))
  BY <1>2, <1>3, ChunkSound
<1>5. e \in Databases
  BY <1>4 DEF Sound
<1> HIDE DEF e
<1>6. t \in Scans /\ Passed(e, v, t)
  BY <1>1, <1>2, <1>3, <1>4, <1>5, ChunkPasses
<1> HIDE DEF t
<1> QED BY <1>1, <1>3, <1>4, <1>6, ScanStep

\* A finished table passes to the next.
LEMMA NextTableOwn ==
  ASSUME Known, NEW p \in Procs, NextTable(p)
  PROVE  Own(p)
<1> DEFINE s == Onward(procs[p].scan)
<1>1. /\ Scanning(p) /\ Rows(p) = {} /\ ~LastTable(p) /\ Scan(p, s) /\ Write(p, Stored(Reaching(p), Db(p), s))
      /\ At(p, {"serve"}, "migrate")
  BY DEF NextTable, Scanning, Migrating
<1>2. /\ Sound(Db(p)) /\ Db(p) \in Databases /\ procs[p].scan \in Scans /\ Reaching(p) \in Chunked
      /\ Passed(Db(p), Reaching(p), procs[p].scan)
  BY <1>1, AtScan
<1>3. s \in Scans /\ Passed(Db(p), Reaching(p), s)
  BY <1>1, <1>2, TablePassed DEF Rows, LastTable
<1> HIDE DEF s
<1> QED BY <1>1, <1>2, <1>3, ScanStep

\* The last table ends a chunked step with its version.
LEMMA FinishScanOwn ==
  ASSUME Known, NEW p \in Procs, FinishScan(p)
  PROVE  Own(p)
<1> DEFINE d == Finished(Db(p))
           r == [procs[p] EXCEPT !.scan = NoScan]
<1>1. Scanning(p) /\ Rows(p) = {} /\ LastTable(p) /\ Write(p, d) /\ procs' = [procs EXCEPT ![p] = r]
  BY DEF FinishScan, Scan, Become
<1>2. /\ procs[p] \in Processes /\ procs[p] # Idle /\ procs[p].op = "serve" /\ procs[p].at = "migrate"
      /\ Sound(Db(p)) /\ Db(p) \in Databases /\ procs[p].scan \in Scans /\ Reaching(p) \in Chunked
      /\ Passed(Db(p), Reaching(p), procs[p].scan) /\ Reaching(p) = Db(p).version + 1
      /\ Under(Db(p), procs[p].key) /\ Db(p).version \in Nat /\ Db(p).anchored \in Nat
  BY <1>1, AtScan
<1>3. AllRows(Db(p), Reaching(p)) \subseteq Db(p).upgraded
  BY <1>1, <1>2, TablePassed DEF Rows, LastTable
<1>4. Sound(d) /\ d.version = Db(p).version + 1 /\ d.sealed = Db(p).sealed /\ d.anchored = Db(p).anchored
  BY <1>2, <1>3, FinishedSound
<1>5. /\ r \in Processes /\ r.op = "serve" /\ r.at = "migrate" /\ r.locks = procs[p].locks /\ r.scan = NoScan
      /\ r.file = procs[p].file /\ r.key = procs[p].key /\ r.copy = procs[p].copy
  BY <1>2 DEF Processes, NoScan
<1> HIDE DEF d, r
<1>6. Under(d, r.key) /\ Successor(Db(p), d) /\ d.version > 0
  BY <1>2, <1>4, <1>5 DEF Under, Successor
<1> QED BY <1>1, <1>2, <1>5, <1>6, ServeStep

\* The keys, and what the service writes once it serves.
LEMMA SealOwn ==
  ASSUME Known, NEW p \in Procs, NEW at \in {"migrate", "sign"}, At(p, {"serve"}, at),
         NEW q \in Places, q = (IF at = "migrate" THEN "check" ELSE "signing"),
         NEW to \in {"sign", "serving"}, GoTo(p, to), Write(p, [Db(p) EXCEPT !.sealed = [@ EXCEPT ![q] = procs[p].key]])
  PROVE  Own(p)
<1> DEFINE k == procs[p].key
           w == [Db(p).sealed EXCEPT ![q] = k]
           d == [Db(p) EXCEPT !.sealed = w]
           r == [procs[p] EXCEPT !.at = to]
<1>1. /\ procs[p] \in Processes /\ procs[p] # Idle /\ procs[p].op = "serve" /\ procs[p].at = at
      /\ Sound(Db(p)) /\ Db(p).version \in Nat /\ Db(p).anchored \in Nat
      /\ Under(Db(p), k) /\ k \in Keys /\ (at = "sign" => Db(p).sealed.check = k)
  BY AtServe
<1>2. /\ Sound(d) /\ Under(d, k) /\ d.sealed = [Db(p).sealed EXCEPT ![q] = k]
      /\ d.version = Db(p).version /\ d.anchored = Db(p).anchored
  <2> DEFINE b == Db(p)
  <2>1. Sound(b) /\ Under(b, k) /\ k \in Keys /\ w = [b.sealed EXCEPT ![q] = k] /\ d = [b EXCEPT !.sealed = w]
    BY <1>1
  <2> HIDE DEF b, w, d, k
  <2>2. /\ Sound(d) /\ Under(d, k) /\ d.sealed = [b.sealed EXCEPT ![q] = k]
        /\ d.version = b.version /\ d.anchored = b.anchored
    BY <2>1, SealSound
  <2> QED BY <2>2 DEF b
<1>3. /\ r \in Processes /\ r.op = "serve" /\ r.at = to /\ r.locks = procs[p].locks
      /\ r.file = procs[p].file /\ r.key = k /\ r.copy = procs[p].copy
  BY <1>1 DEF Processes, Points
<1>4. procs' = [procs EXCEPT ![p] = r] /\ Write(p, d)
  BY DEF GoTo, Become
<1> HIDE DEF w, d, r
<1>5. d.sealed.check = k
  <2>1. Db(p).sealed \in [Places -> Keys \cup {NoKey}]
    BY <1>1 DEF Sound, Databases
  <2> QED BY <1>1, <1>2, <2>1 DEF Places
<1>6. Successor(Db(p), d) /\ Under(d, r.key)
  BY <1>1, <1>2, <1>3 DEF Successor
<1> QED BY <1>1, <1>3, <1>4, <1>5, <1>6, ServeStep

\* The key check is written under the key that opened the file, or refuses it.
LEMMA SealCheckOwn ==
  ASSUME Known, NEW p \in Procs, SealCheck(p)
  PROVE  Own(p)
<1>1. At(p, {"serve"}, "migrate")
  BY DEF SealCheck
<1>2. CASE Db(p).sealed.check \in {NoKey, procs[p].key}
  BY <1>1, <1>2, SealOwn DEF SealCheck, Places
<1>3. CASE Db(p).sealed.check \notin {NoKey, procs[p].key}
  BY <1>3, Exits DEF SealCheck, FileStep
<1> QED BY <1>2, <1>3

\* The signing key is read under that key, or sealed with it.
LEMMA LoadSigningKeyOwn ==
  ASSUME Known, NEW p \in Procs, LoadSigningKey(p)
  PROVE  Own(p)
<1>1. At(p, {"serve"}, "sign")
  BY DEF LoadSigningKey
<1>2. CASE Db(p).sealed.signing \in {NoKey, procs[p].key}
  BY <1>1, <1>2, SealOwn DEF LoadSigningKey, Places
<1>3. CASE Db(p).sealed.signing \notin {NoKey, procs[p].key}
  BY <1>3, Exits DEF LoadSigningKey, FileStep
<1> QED BY <1>2, <1>3

\* A write beside the schema and the keys leaves a database sound.
LEMMA BesideSound ==
  ASSUME NEW db, Sound(db), NEW d \in Databases, Beside(db, d)
  PROVE  Sound(d) /\ \A k : Under(db, k) => Under(d, k)
<1>1. OneKey(d)
  BY DEF Sound, OneKey, Beside
<1> QED BY <1>1, SoundKept DEF Beside, Under

\* A transaction that seals nothing keeps a file sound.
LEMMA CommitSound ==
  ASSUME NEW db, Sound(db), NEW d, d = [db EXCEPT !.commits = @ + 1]
  PROVE  /\ Sound(d) /\ Beside(db, d) /\ d.anchored = db.anchored /\ d.commits = db.commits + 1
         /\ \A k : Under(db, k) => Under(d, k)
<1>1. d \in Databases /\ Beside(db, d) /\ d.anchored = db.anchored /\ d.commits = db.commits + 1
  BY DEF Sound, Databases, Beside
<1> QED BY <1>1, BesideSound

\* A write of the service that is acknowledged or not, and leaves it serving.
LEMMA ServingStep ==
  ASSUME Known, NEW p \in Procs, Serving(p), procs' = procs, NEW d, Write(p, d), Sound(d),
         Under(d, procs[p].key), d.version = Db(p).version, d.anchored >= Db(p).anchored,
         d.sealed.check = Db(p).sealed.check
  PROVE  Own(p)
<1>1. At(p, {"serve"}, "serving")
  BY DEF Serving
<1>2. /\ procs[p] \in Processes /\ procs[p] # Idle /\ procs[p].op = "serve" /\ procs[p].at = "serving"
      /\ Db(p).version \in Nat /\ Db(p).sealed.check = procs[p].key
  BY <1>1, AtServe
<1>3. Successor(Db(p), d)
  BY <1>2 DEF Successor
<1>4. procs' = [procs EXCEPT ![p] = procs[p]]
  BY DEF Known, Typed
<1> QED BY <1>2, <1>3, <1>4, ServeStep

\* The service records a change.
LEMMA RecordOwn ==
  ASSUME Known, NEW p \in Procs, Record(p)
  PROVE  Own(p)
<1> DEFINE e == [Db(p) EXCEPT !.ledger = @ + 1]
           d == [e EXCEPT !.commits = @ + 1]
<1>1. Serving(p) /\ Write(p, d) /\ procs' = procs
  BY DEF Record, Commit, Quiet
<1>2. Sound(Db(p)) /\ Under(Db(p), procs[p].key) /\ Db(p).anchored \in Nat
  BY <1>1, AtServe DEF Serving
<1>3. e \in Databases /\ Beside(Db(p), e) /\ e.anchored = Db(p).anchored
  BY <1>2 DEF Sound, Databases, Beside
<1> HIDE DEF e
<1>4. Sound(e) /\ Under(e, procs[p].key)
  BY <1>2, <1>3, BesideSound
<1>5. Sound(d) /\ Beside(e, d) /\ d.anchored = e.anchored /\ Under(d, procs[p].key)
  BY <1>4, CommitSound
<1> HIDE DEF d
<1> QED BY <1>1, <1>2, <1>3, <1>5, ServingStep DEF Beside

\* The service seals a value with the key it was started with.
LEMMA ConfigureOwn ==
  ASSUME Known, NEW p \in Procs, Configure(p)
  PROVE  Own(p)
<1>1. PICK q \in {"settings", "destination"} : Commit(p, [Db(p) EXCEPT !.sealed[q] = procs[p].key])
  BY DEF Configure
<1> DEFINE k == procs[p].key
           w == [Db(p).sealed EXCEPT ![q] = k]
           e == [Db(p) EXCEPT !.sealed = w]
           d == [e EXCEPT !.commits = @ + 1]
<1>2. Serving(p) /\ Write(p, d) /\ procs' = procs
  BY <1>1 DEF Configure, Commit, Quiet
<1>3. Sound(Db(p)) /\ Under(Db(p), k) /\ Db(p).anchored \in Nat /\ k \in Keys
  BY <1>2, AtServe DEF Serving
<1>4. q \in Places
  BY DEF Places
<1>5. /\ Sound(e) /\ Under(e, k) /\ e.sealed = [Db(p).sealed EXCEPT ![q] = k]
      /\ e.version = Db(p).version /\ e.anchored = Db(p).anchored
  <2> DEFINE b == Db(p)
  <2>1. Sound(b) /\ Under(b, k) /\ k \in Keys /\ w = [b.sealed EXCEPT ![q] = k] /\ e = [b EXCEPT !.sealed = w]
    BY <1>3
  <2> HIDE DEF b, w, e, k
  <2>2. /\ Sound(e) /\ Under(e, k) /\ e.sealed = [b.sealed EXCEPT ![q] = k]
        /\ e.version = b.version /\ e.anchored = b.anchored
    BY <1>4, <2>1, SealSound
  <2> QED BY <2>2 DEF b
<1>6. e.sealed.check = Db(p).sealed.check
  <2>1. Db(p).sealed \in [Places -> Keys \cup {NoKey}]
    BY <1>3 DEF Sound, Databases
  <2> HIDE DEF w, e
  <2> QED BY <1>5, <2>1 DEF Places
<1> HIDE DEF w, e
<1>7. Sound(d) /\ Beside(e, d) /\ d.anchored = e.anchored /\ Under(d, k)
  BY <1>5, CommitSound
<1> HIDE DEF d
<1>8. d.version = Db(p).version /\ d.anchored >= Db(p).anchored /\ d.sealed.check = Db(p).sealed.check
  BY <1>3, <1>5, <1>6, <1>7 DEF Beside
<1> QED BY <1>2, <1>7, <1>8, ServingStep

\* The service anchors the newest entry and writes it down.
LEMMA CheckpointOwn ==
  ASSUME Known, NEW p \in Procs, Checkpoint(p)
  PROVE  Own(p)
<1> DEFINE d == [Db(p) EXCEPT !.anchored = Db(p).ledger]
<1>1. Serving(p) /\ Write(p, d) /\ procs' = procs /\ Db(p).ledger > Db(p).anchored
  BY DEF Checkpoint, Quiet, CheckpointDue
<1>2. Sound(Db(p)) /\ Under(Db(p), procs[p].key) /\ Db(p).anchored \in Nat
  BY <1>1, AtServe DEF Serving
<1>3. d \in Databases /\ Beside(Db(p), d) /\ d.anchored = Db(p).ledger /\ Db(p).ledger \in Nat
  BY <1>2 DEF Sound, Databases, Beside
<1> HIDE DEF d
<1>4. Sound(d) /\ Under(d, procs[p].key)
  BY <1>2, <1>3, BesideSound
<1> QED BY <1>1, <1>2, <1>3, <1>4, ServingStep DEF Beside

\* The commands.
LEMMA AtWriting ==
  ASSUME Known, NEW p \in Procs, procs[p] # Idle, Writing(p)
  PROVE  /\ procs[p] \in Processes /\ procs[p].file = Live /\ Db(p) = files[Live] /\ Live \in Nat \ {0}
         /\ Sound(Db(p)) /\ Db(p) \in Databases /\ Db(p).version \in Nat /\ Db(p).anchored \in Nat
<1>1. procs[p] \in Processes /\ procs[p].file = Live
  BY BusyIsTyped DEF Local
<1>2. Db(p) = files[Live] /\ Live \in Nat \ {0} /\ Live \in 1 .. Live
  BY <1>1 DEF Db, Known, Typed, Live
<1>3. Sound(Db(p))
  BY <1>2 DEF Known, Typed
<1> QED BY <1>1, <1>2, <1>3 DEF Sound, Databases, Current

\* A command changes the file under the lock.
LEMMA ChangeOwn ==
  ASSUME Known, NEW p \in Procs, Change(p)
  PROVE  Own(p)
<1>1. At(p, {"change"}, "write") /\ procs[p] # Idle /\ Exit(p)
  BY DEF Change, At
<1>2. Writing(p)
  BY <1>1 DEF Writing
<1>3. Sound(Db(p)) /\ Db(p) \in Databases /\ Db(p).version \in Nat /\ Db(p).anchored \in Nat
  BY <1>1, <1>2, AtWriting
<1>4. Holds(p, "shared")
  BY <1>1, BusyIsTyped, LocksHeld DEF Local, At
<1>5. ASSUME NEW e \in {Db(p), Chosen(Db(p)), Cleared(Db(p))}, Commit(p, e)
      PROVE  Own(p)
  <2> DEFINE d == [e EXCEPT !.commits = @ + 1]
  <2>1. e \in Databases /\ Beside(Db(p), e) /\ e.anchored = Db(p).anchored
    BY <1>3 DEF Databases, Chosen, Cleared, Beside
  <2>2. Sound(e)
    BY <1>3, <2>1, BesideSound
  <2>3. Sound(d) /\ Beside(e, d) /\ d.anchored = e.anchored
    BY <2>2, CommitSound
  <2>4. Write(p, d)
    BY <1>5 DEF Commit
  <2> HIDE DEF d
  <2>5. Successor(Db(p), d) /\ Beside(Db(p), d)
    BY <1>3, <2>1, <2>3 DEF Successor, Beside
  <2>6. FileStep(p)
    BY <1>1, <1>2, <1>4, <2>4, <2>5, Writes
  <2> QED BY <1>1, <2>6, Exits
<1> QED BY <1>5 DEF Change

\* A file sealed anew is under the new key alone.
LEMMA ResealedSound ==
  ASSUME NEW db, Sound(db), NEW k \in Keys, NEW d, d = Resealed(db, k)
  PROVE  /\ Sound(d) /\ Under(d, k) /\ d.version = db.version /\ d.anchored = db.anchored
         /\ d.commits = db.commits /\ \A q \in Places : db.sealed[q] # NoKey => d.sealed[q] = k
<1> DEFINE w == [q \in Places |-> IF db.sealed[q] = NoKey THEN NoKey ELSE k]
<1>1. db \in Databases /\ w \in [Places -> Keys \cup {NoKey}]
  BY DEF Sound
<1>2. d = [db EXCEPT !.sealed = w]
  BY DEF Resealed
<1>3. \A q \in Places : w[q] \in {NoKey, k} /\ (db.sealed[q] # NoKey => w[q] = k)
  OBVIOUS
<1> HIDE DEF w
<1>4. /\ d \in Databases /\ d.sealed = w /\ d.version = db.version /\ d.anchored = db.anchored
      /\ d.commits = db.commits /\ d.rows = db.rows /\ d.progress = db.progress /\ d.upgraded = db.upgraded
  BY <1>1, <1>2 DEF Databases
<1>5. Under(d, k)
  BY <1>3, <1>4 DEF Under
<1>6. OneKey(d)
  BY <1>5, UnderIsOneKey
<1>7. Sound(d)
  BY <1>4, <1>6, SoundKept
<1> QED BY <1>3, <1>4, <1>5, <1>7

\* A rotation reseals every value in one transaction.
LEMMA RekeyOwn ==
  ASSUME Known, NEW p \in Procs, Rekey(p)
  PROVE  Own(p)
<1>1. At(p, {"rekey"}, "reseal") /\ procs[p] # Idle /\ Exit(p)
  BY DEF Rekey, At
<1>2. Writing(p)
  BY <1>1 DEF Writing
<1>3. Sound(Db(p)) /\ Db(p).version \in Nat /\ Db(p).anchored \in Nat
  BY <1>1, <1>2, AtWriting
<1>4. Holds(p, "service") /\ procs[p].new \in Keys
  BY <1>1, BusyIsTyped, LocksHeld DEF Local, At, RekeyKnows
<1>5. CASE UNCHANGED files
  BY <1>1, <1>5, Exits DEF FileStep
<1>6. CASE Commit(p, Resealed(Db(p), procs[p].new))
  <2> DEFINE e == Resealed(Db(p), procs[p].new)
             d == [e EXCEPT !.commits = @ + 1]
  <2>1. Sound(e) /\ e.version = Db(p).version /\ e.anchored = Db(p).anchored
    <3> DEFINE b == Db(p)
               k == procs[p].new
    <3>1. Sound(b) /\ k \in Keys /\ e = Resealed(b, k)
      BY <1>3, <1>4
    <3> HIDE DEF b, k, e
    <3>2. Sound(e) /\ e.version = b.version /\ e.anchored = b.anchored
      BY <3>1, ResealedSound
    <3> QED BY <3>2 DEF b
  <2> HIDE DEF e
  <2>2. Sound(d) /\ Beside(e, d) /\ d.anchored = e.anchored
    BY <2>1, CommitSound
  <2>3. Write(p, d)
    BY <1>6 DEF Commit, e
  <2> HIDE DEF d
  <2>4. Successor(Db(p), d)
    BY <1>3, <2>1, <2>2 DEF Successor, Beside
  <2>5. FileStep(p)
    BY <1>1, <1>2, <1>4, <2>3, <2>4, Writes
  <2> QED BY <1>1, <2>5, Exits
<1> QED BY <1>5, <1>6 DEF Rekey

\* A copy is what the live file was at that moment.
LEMMA CopyOwn ==
  ASSUME Known, NEW p \in Procs, Copy(p)
  PROVE  Own(p)
<1> DEFINE r == [procs[p] EXCEPT !.copy = Db(p), !.at = "verify",
                                 !.file = IF procs[p].op = "backup" THEN 0 ELSE @]
<1>1. /\ procs[p] \in Processes /\ procs[p] # Idle /\ procs[p].op \in {"backup", "compact"} /\ procs[p].at = "copy"
      /\ Local(p)
  BY BusyIsTyped DEF Copy, At
<1>2. Become(p, r) /\ files' = files
  BY DEF Copy
<1>3. procs[p].file \in 1 .. Live /\ (procs[p].op = "compact" => procs[p].file = Live)
      /\ (procs[p].op = "backup" => Db(p).version > 0)
  <2>1. CASE procs[p].op = "backup"
    BY <1>1, <2>1 DEF Local, BackupKnows, Db
  <2>2. CASE procs[p].op = "compact"
    <3>1. Writing(p)
      BY <1>1, <2>2 DEF Writing, At
    <3> QED BY <1>1, <2>2, <3>1, AtWriting
  <2> QED BY <1>1, <2>1, <2>2
<1>4. Sound(Db(p)) /\ Db(p) \in Databases
  BY <1>3 DEF Db, Known, Typed, Sound
<1>5. /\ r \in Processes /\ r.op = procs[p].op /\ r.at = "verify" /\ r.locks = procs[p].locks
      /\ r.copy = Db(p) /\ r.file = IF procs[p].op = "backup" THEN 0 ELSE procs[p].file
  BY <1>1, <1>4 DEF Processes, Points
<1> HIDE DEF r
<1>6. procs'[p] = r
  BY <1>2 DEF Known, Typed, Become
<1>7. Staged(p)' /\ Sound(procs'[p].copy)
  BY <1>1, <1>4, <1>5, <1>6 DEF Local, Staged, Stages, LocksAt
<1>8. Writing(p)' => procs'[p].file = Live'
  BY <1>1, <1>2, <1>3, <1>5, <1>6 DEF Writing, At, Live
<1>9. CopyIsLive(p)'
  BY <1>2, <1>3, <1>5, <1>6 DEF CopyIsLive, Db, Live
<1>10. BackupKnows(p)' /\ ServeKnows(p)' /\ RekeyKnows(p)'
  BY <1>1, <1>3, <1>5, <1>6 DEF BackupKnows, ServeKnows, RekeyKnows, At
<1>11. Local(p)'
  BY <1>7, <1>8, <1>9, <1>10 DEF Local
<1> QED BY <1>1, <1>2, <1>5, <1>11, Moves DEF FileStep

\* A backup that goes on knows that its copy opens.
LEMMA BackupStep ==
  ASSUME Known, NEW p \in Procs, procs[p] # Idle, procs[p].op = "backup", UNCHANGED files,
         procs[p].at \in {"verify", "recheck", "publish"}, NEW at \in {"recheck", "publish", "checksum"}, GoTo(p, at),
         procs[p].at = "verify" => KeyFits(procs[p].copy, procs[p].key)
  PROVE  Own(p)
<1> DEFINE r == [procs[p] EXCEPT !.at = at]
<1>1. procs[p] \in Processes /\ Local(p)
  BY BusyIsTyped
<1>2. /\ r \in Processes /\ r.op = "backup" /\ r.at = at /\ r.locks = procs[p].locks /\ r.copy = procs[p].copy
      /\ r.key = procs[p].key
  BY <1>1 DEF Processes, Points
<1>3. Become(p, r)
  BY DEF GoTo
<1> HIDE DEF r
<1>4. procs'[p] = r
  BY <1>3 DEF Known, Typed, Become
<1>5. Staged(p)' /\ Sound(procs'[p].copy) /\ ~Writing(p)'
  BY <1>1, <1>2, <1>4 DEF Local, Staged, Stages, LocksAt, Writing, At
<1>6. BackupKnows(p)' /\ ServeKnows(p)' /\ RekeyKnows(p)' /\ CopyIsLive(p)'
  BY <1>1, <1>2, <1>4 DEF Local, BackupKnows, ServeKnows, RekeyKnows, CopyIsLive, At
<1>7. Local(p)'
  BY <1>5, <1>6 DEF Local
<1> QED BY <1>2, <1>3, <1>7, Moves DEF FileStep

\* A compaction that goes on stands by its copy of the live file.
LEMMA CompactStep ==
  ASSUME Known, NEW p \in Procs, procs[p] # Idle, procs[p].op = "compact", UNCHANGED files,
         procs[p].at \in {"verify", "close"}, NEW r \in Processes, Become(p, r),
         (r.at = "close" /\ r.file = procs[p].file) \/ r.at = "replace",
         r.op = "compact", r.locks = procs[p].locks, r.copy = procs[p].copy
  PROVE  Own(p)
<1>1. procs[p] \in Processes /\ Local(p)
  BY BusyIsTyped
<1>2. procs[p].file = Live
  BY <1>1 DEF Local, Writing, At
<1>3. procs'[p] = r
  BY DEF Known, Typed, Become
<1>4. Staged(p)' /\ Sound(procs'[p].copy)
  BY <1>1, <1>3 DEF Local, Staged, Stages, LocksAt
<1>5. Writing(p)' => procs'[p].file = Live'
  BY <1>2, <1>3 DEF Writing, At, Live
<1>6. BackupKnows(p)' /\ ServeKnows(p)' /\ RekeyKnows(p)' /\ CopyIsLive(p)'
  BY <1>1, <1>3 DEF Local, BackupKnows, ServeKnows, RekeyKnows, CopyIsLive, At, Live
<1>7. Local(p)'
  BY <1>4, <1>5, <1>6 DEF Local
<1> QED BY <1>7, Moves DEF FileStep

\* A verified copy opens with its key.
LEMMA VerifyOwn ==
  ASSUME Known, NEW p \in Procs, Verify(p)
  PROVE  Own(p)
<1>1. /\ procs[p] \in Processes /\ procs[p] # Idle /\ procs[p].op \in {"backup", "compact"}
      /\ procs[p].at = "verify" /\ UNCHANGED files
  BY BusyIsTyped DEF Verify, At
<1>2. CASE ~Verified(procs[p].copy, procs[p].key)
  BY <1>1, <1>2, Exits DEF Verify, FileStep
<1>3. CASE Verified(procs[p].copy, procs[p].key) /\ procs[p].op = "backup"
  BY <1>1, <1>3, BackupStep DEF Verify, Verified
<1>4. CASE Verified(procs[p].copy, procs[p].key) /\ procs[p].op = "compact"
  <2> DEFINE r == [procs[p] EXCEPT !.at = "close"]
  <2>1. /\ r \in Processes /\ r.at = "close" /\ r.file = procs[p].file /\ r.op = "compact"
        /\ r.locks = procs[p].locks /\ r.copy = procs[p].copy
    BY <1>1, <1>4 DEF Processes, Points
  <2>2. Become(p, r)
    BY <1>1, <1>4 DEF Verify, GoTo
  <2> HIDE DEF r
  <2> QED BY <1>1, <1>4, <2>1, <2>2, CompactStep
<1> QED BY <1>1, <1>2, <1>3, <1>4

\* Closing a copy changes nothing of it.
LEMMA CloseOwn ==
  ASSUME Known, NEW p \in Procs, Close(p)
  PROVE  Own(p)
<1>1. /\ procs[p] \in Processes /\ procs[p] # Idle /\ procs[p].op = "compact"
      /\ procs[p].at = "close" /\ UNCHANGED files
  BY BusyIsTyped DEF Close, At
<1>2. CASE Exit(p)
  BY <1>1, <1>2, Exits DEF FileStep
<1>3. CASE Become(p, [procs[p] EXCEPT !.file = 0, !.at = "replace"])
  <2> DEFINE r == [procs[p] EXCEPT !.file = 0, !.at = "replace"]
  <2>1. /\ r \in Processes /\ r.at = "replace" /\ r.op = "compact"
        /\ r.locks = procs[p].locks /\ r.copy = procs[p].copy
    BY <1>1 DEF Processes, Points
  <2>2. Become(p, r)
    BY <1>3
  <2> HIDE DEF r
  <2> QED BY <1>1, <2>1, <2>2, CompactStep
<1> QED BY <1>2, <1>3 DEF Close

\* The compacted copy replaces the file it was made from.
LEMMA ReplaceOwn ==
  ASSUME Known, NEW p \in Procs, Replace(p)
  PROVE  Own(p) /\ procs[p].copy = files[Live]
<1>1. procs[p] # Idle /\ procs[p].op = "compact" /\ procs[p].at = "replace" /\ Local(p)
  BY BusyIsTyped DEF Replace, At
<1>2. Holds(p, "service") /\ Holds(p, "exclusive")
  BY <1>1, LocksHeld DEF Local
<1>3. procs[p].copy = files[Live]
  BY <1>1 DEF Local, CopyIsLive
<1>4. FileStep(p)
  BY <1>2, <1>3 DEF Replace, FileStep
<1> QED BY <1>3, <1>4, Exits DEF Replace

\* Publishing a backup leaves the files alone.
LEMMA PublicationOwn ==
  ASSUME Known, NEW p \in Procs, Recheck(p) \/ Publish(p) \/ WriteChecksum(p)
  PROVE  Own(p)
<1>1. CASE Recheck(p)
  <2>1. procs[p] # Idle /\ procs[p].op = "backup" /\ procs[p].at = "recheck" /\ UNCHANGED files
    BY <1>1 DEF Recheck, At
  <2> QED BY <1>1, <2>1, Exits, BackupStep DEF Recheck, FileStep
<1>2. CASE Publish(p)
  <2>1. procs[p] # Idle /\ procs[p].op = "backup" /\ procs[p].at = "publish" /\ UNCHANGED files
    BY <1>2 DEF Publish, At
  <2> QED BY <1>2, <2>1, BackupStep DEF Publish
<1>3. CASE WriteChecksum(p)
  BY <1>3, Exits DEF WriteChecksum, FileStep
<1> QED BY <1>1, <1>2, <1>3

\* Every step of a process.
LEMMA ProcessOwn ==
  ASSUME Known, NEW p \in Procs, Start(p) \/ Upgrade(p) \/ Serve(p) \/ Command(p) \/ Crash(p)
  PROVE  Own(p)
<1>1. CASE Start(p)
  BY <1>1, LaunchOwn, LockServiceOwn, LockMaintenanceOwn, OpenOwn DEF Start
<1>2. CASE Upgrade(p)
  BY <1>2, CreateMarkerTableOwn, InsertMarkerOwn, MigrateOnceOwn, BeginScanOwn, MigrateChunkOwn,
     NextTableOwn, FinishScanOwn, SealCheckOwn, LoadSigningKeyOwn DEF Upgrade
<1>3. CASE Serve(p)
  BY <1>3, RecordOwn, ConfigureOwn, CheckpointOwn DEF Serve
<1>4. CASE Command(p)
  BY <1>4, ChangeOwn, RekeyOwn, CopyOwn, VerifyOwn, CloseOwn, ReplaceOwn, PublicationOwn DEF Command
<1>5. CASE Crash(p)
  BY <1>5, Exits DEF Crash, FileStep
<1> QED BY <1>1, <1>2, <1>3, <1>4, <1>5

-----------------------------------------------------------------------------
(* The invariant holds.                                                     *)

\* What the operator and the histories see of a step of a process.
LEMMA Histories ==
  ASSUME Known, NEW p \in Procs, Start(p) \/ Upgrade(p) \/ Serve(p) \/ Command(p) \/ Crash(p)
  PROVE  /\ published' = published \/ Publish(p)
         /\ sent' = sent \/ Checkpoint(p)
         /\ committed' \in Nat
<1>1. committed \in Nat
  BY DEF Known, Typed
<1>2. CASE Start(p) \/ Crash(p)
  BY <1>1, <1>2 DEF Start, Launch, LockService, LockMaintenance, Open, Crash, Stays
<1>3. CASE Upgrade(p)
  BY <1>1, <1>3 DEF Upgrade, CreateMarkerTable, InsertMarker, MigrateOnce, BeginScan, MigrateChunk, NextTable,
     FinishScan, SealCheck, LoadSigningKey, Stays
<1>4. CASE Serve(p)
  BY <1>1, <1>4 DEF Serve, Record, Configure, Checkpoint, Commit, Quiet
<1>5. CASE Command(p)
  BY <1>1, <1>5 DEF Command, Change, Rekey, Copy, Verify, Close, Replace, Recheck, Publish, WriteChecksum, Commit, Stays
<1> QED BY <1>2, <1>3, <1>4, <1>5

\* The invariant holds at the start.
LEMMA InitDInv == Init => DInv
<1> SUFFICES ASSUME Init PROVE DInv
  OBVIOUS
<1>1. PICK db \in Founded : files = <<db>>
  BY DEF Init
<1>2. Sound(db)
  BY <1>1, FoundedAssumption DEF FoundedAssumption, Sound
<1>3. files \in Seq(Databases) /\ Live = 1 /\ files[1] = db
  BY <1>1, <1>2 DEF Live, Sound
<1>4. NoBackup \in [db : Databases, key : Keys \cup {NoKey}] /\ Sound(NoBackup.db)
  BY EmptySound DEF NoBackup, Sound
<1>5. Typed
  BY <1>2, <1>3, <1>4 DEF Init, Typed
<1>6. \A p \in Procs : procs[p] = Idle
  BY DEF Init
<1>7. Excluded /\ \A p \in Procs : Local(p)
  BY <1>6 DEF Excluded, Holds, Local, Staged, Writing, At, ServeKnows, RekeyKnows, CopyIsLive, BackupKnows
<1>8. SentBelowMark /\ CheckpointsAdvance /\ BackupsOpen
  BY DEF Init, SentBelowMark, CheckpointsAdvance, BackupsOpen
<1> QED BY <1>5, <1>7, <1>8 DEF DInv

\* What a process knows survives the step of another.
LEMMA KnownKept ==
  ASSUME Known, NEW p \in Procs, Own(p), committed' \in Nat, sent' \in Seq(Nat),
         published' \in [db : Databases, key : Keys \cup {NoKey}], Sound(published'.db)
  PROVE  Known'
<1>1. /\ files' \in Seq(Databases) /\ Live' \in Nat \ {0} /\ \A i \in 1 .. Live' : Sound(files'[i])
  BY FilesKept DEF Own, Known
<1>2. Typed'
  BY <1>1 DEF Typed, Own, Live
<1>3. ASSUME NEW q \in Procs
      PROVE  Local(q)'
  <2>1. CASE q = p
    BY <2>1 DEF Own
  <2>2. CASE q # p
    <3>1. procs'[q] = procs[q] /\ FileStep(p) /\ Local(q) /\ q \in Procs \ {p} /\ Typed /\ Excluded
      BY <2>2 DEF Own, Known
    <3> QED BY <3>1, OthersKeep
  <2> QED BY <2>1, <2>2
<1> QED BY <1>2, <1>3 DEF Known, Own

\* A backup is published only after its copy was opened with its key.
LEMMA PublishOpens ==
  ASSUME Known, NEW p \in Procs, Publish(p)
  PROVE  /\ BackupsOpen' /\ Sound(published'.db)
         /\ published' \in [db : Databases, key : Keys \cup {NoKey}]
<1> DEFINE copy == procs[p].copy
           key == procs[p].key
<1>1. procs[p] \in Processes /\ Local(p) /\ procs[p].op = "backup" /\ procs[p].at = "publish" /\ procs[p] # Idle
  BY BusyIsTyped DEF Publish, At
<1>2. Sound(copy) /\ copy.version > 0 /\ KeyFits(copy, key) /\ key \in Keys \cup {NoKey}
  BY <1>1 DEF Local, BackupKnows, Processes
<1>3. Under(copy, key)
  BY <1>2, FitsIsUnder DEF Sound
<1>4. published' = [db |-> copy, key |-> key]
  BY DEF Publish
<1> HIDE DEF copy, key
<1>5. SealedUnder(copy) \subseteq {key}
  BY <1>3 DEF Under, SealedUnder
<1>6. Admits("serve", copy, key)
  BY <1>2 DEF Admits, ReadOnly, Preflight
<1>7. published'.db = copy /\ published'.key = key
  BY <1>4
<1> QED BY <1>2, <1>4, <1>5, <1>6, <1>7 DEF BackupsOpen, Sound

\* A checkpoint sends what lies beyond the last one, and moves the mark there.
LEMMA CheckpointAdvances ==
  ASSUME Known, SentBelowMark, CheckpointsAdvance, NEW p \in Procs, Checkpoint(p)
  PROVE  sent' \in Seq(Nat) /\ SentBelowMark' /\ CheckpointsAdvance'
<1> DEFINE n == Db(p).ledger
           d == [Db(p) EXCEPT !.anchored = n]
<1>1. Serving(p) /\ Write(p, d) /\ sent' = Append(sent, n) /\ n > Db(p).anchored
  BY DEF Checkpoint, CheckpointDue
<1>2. procs[p].file = Live /\ Db(p) = files[Live] /\ Sound(Db(p)) /\ Db(p).anchored \in Nat
  BY <1>1, AtServe DEF Serving
<1>3. n \in Nat /\ d.anchored = n
  BY <1>2 DEF Sound, Databases
<1>4. Live' = Live /\ files'[Live] = d
  BY <1>1, <1>2 DEF Write, Known, Typed, Live
<1> HIDE DEF d
<1>5. sent \in Seq(Nat) /\ \A i \in 1 .. Len(sent) : sent[i] \in Nat /\ sent[i] <= Db(p).anchored
  BY <1>2 DEF Known, Typed, SentBelowMark
<1> HIDE DEF n
<1>6. /\ sent' \in Seq(Nat) /\ Len(sent') = Len(sent) + 1 /\ sent'[Len(sent) + 1] = n
      /\ \A i \in 1 .. Len(sent) : sent'[i] = sent[i]
  BY <1>1, <1>3, <1>5
<1>7. Len(sent) \in Nat
  BY <1>5
<1>8. ASSUME NEW i \in 1 .. Len(sent')
      PROVE  sent'[i] <= n
  BY <1>1, <1>2, <1>3, <1>5, <1>6, <1>7
<1>9. SentBelowMark'
  BY <1>3, <1>4, <1>8 DEF SentBelowMark
<1>10. ASSUME NEW i \in 2 .. Len(sent')
       PROVE  sent'[i] > sent'[i - 1]
  <2>1. CASE i = Len(sent) + 1
    <3>1. i - 1 \in 1 .. Len(sent) /\ i - 1 = Len(sent)
      BY <1>7, <2>1
    <3>2. sent'[i - 1] = sent[i - 1] /\ sent[i - 1] \in Nat /\ sent[i - 1] <= Db(p).anchored
      BY <1>5, <1>6, <3>1
    <3> QED BY <1>1, <1>2, <1>3, <1>6, <2>1, <3>2
  <2>2. CASE i # Len(sent) + 1
    <3>1. i \in 2 .. Len(sent) /\ i \in 1 .. Len(sent) /\ i - 1 \in 1 .. Len(sent)
      BY <1>6, <1>7, <2>2
    <3> QED BY <1>6, <3>1 DEF CheckpointsAdvance
  <2> QED BY <2>1, <2>2
<1> QED BY <1>6, <1>9, <1>10 DEF CheckpointsAdvance

\* The invariant is kept by every step of a process.
LEMMA ProcessDInv ==
  ASSUME DInv, NEW p \in Procs, Start(p) \/ Upgrade(p) \/ Serve(p) \/ Command(p) \/ Crash(p)
  PROVE  DInv'
<1>1. Known /\ Own(p)
  BY ProcessOwn DEF DInv, Known
<1>2. published' \in [db : Databases, key : Keys \cup {NoKey}] /\ Sound(published'.db) /\ BackupsOpen'
  <2>1. CASE published' = published
    BY <1>1, <2>1 DEF DInv, Known, Typed, BackupsOpen
  <2>2. CASE Publish(p)
    BY <1>1, <2>2, PublishOpens
  <2> QED BY <1>1, <2>1, <2>2, Histories
<1>3. sent' \in Seq(Nat) /\ SentBelowMark' /\ CheckpointsAdvance'
  <2>1. CASE sent' = sent
    <3>1. files'[Live'].anchored >= files[Live].anchored
      BY <1>1, FilesKept DEF Own, Known
    <3>2. files'[Live'].anchored \in Nat /\ files[Live].anchored \in Nat
      <4>1. Sound(files'[Live']) /\ Sound(files[Live])
        <5>1. Live \in 1 .. Live /\ Live' \in 1 .. Live'
          BY <1>1, FilesKept DEF Own, Known
        <5> QED BY <1>1, <5>1, FilesKept DEF Own, Known, Typed
      <4> QED BY <4>1 DEF Sound, Databases
    <3>3. sent \in Seq(Nat) /\ \A i \in 1 .. Len(sent) : sent[i] \in Nat /\ sent[i] <= files[Live].anchored
      BY DEF DInv, Typed, SentBelowMark
    <3>4. SentBelowMark'
      BY <2>1, <3>1, <3>2, <3>3 DEF SentBelowMark
    <3> QED BY <2>1, <3>3, <3>4 DEF DInv, CheckpointsAdvance
  <2>2. CASE Checkpoint(p)
    BY <1>1, <2>2, CheckpointAdvances DEF DInv
  <2> QED BY <1>1, <2>1, <2>2, Histories
<1>4. Known'
  BY <1>1, <1>2, <1>3, Histories, KnownKept
<1> QED BY <1>2, <1>3, <1>4 DEF DInv, Known

\* What a process knows, it knows as long as nothing moves.
LEMMA StillKnows ==
  ASSUME NEW p \in Procs, Local(p), files' = files, procs' = procs
  PROVE  Local(p)'
<1>1. Staged(p)' /\ (Writing(p)' => procs'[p].file = Live') /\ (procs'[p] # Idle => Sound(procs'[p].copy))
  BY DEF Local, Staged, Writing, At, Live
<1>2. ServeKnows(p)'
  BY DEF Local, ServeKnows, Live, Under, Passed
<1>3. RekeyKnows(p)' /\ CopyIsLive(p)'
  BY DEF Local, RekeyKnows, CopyIsLive, At, Live
<1>4. BackupKnows(p)'
  BY DEF Local, BackupKnows, Live
<1> QED BY <1>1, <1>2, <1>3, <1>4 DEF Local

\* The operator moves files that no process knows of.
LEMMA OperatorDInv ==
  ASSUME DInv, MoveBackupAway
  PROVE  DInv'
<1>1. files' = files /\ procs' = procs /\ sent' = sent /\ committed' = committed /\ published' = NoBackup
  BY DEF MoveBackupAway
<1>2. NoBackup \in [db : Databases, key : Keys \cup {NoKey}] /\ Sound(NoBackup.db)
  BY EmptySound DEF NoBackup, Sound
<1>3. Typed'
  BY <1>1, <1>2 DEF DInv, Typed, Live
<1>4. ASSUME NEW p \in Procs
      PROVE  Local(p)'
  BY <1>1, StillKnows DEF DInv
<1>5. Excluded' /\ SentBelowMark' /\ CheckpointsAdvance' /\ BackupsOpen'
  BY <1>1 DEF DInv, Excluded, Holds, SentBelowMark, CheckpointsAdvance, BackupsOpen, Live
<1> QED BY <1>3, <1>4, <1>5 DEF DInv

\* It is kept by every step.
LEMMA NextDInv ==
  ASSUME DInv, [Next]_vars
  PROVE  DInv'
<1>1. CASE UNCHANGED vars
  <2>1. files' = files /\ procs' = procs /\ sent' = sent /\ committed' = committed /\ published' = published
    BY <1>1 DEF vars
  <2>2. Typed' /\ Excluded' /\ SentBelowMark' /\ CheckpointsAdvance' /\ BackupsOpen'
    BY <2>1 DEF DInv, Typed, Excluded, Holds, SentBelowMark, CheckpointsAdvance, BackupsOpen, Live
  <2>3. ASSUME NEW p \in Procs
        PROVE  Local(p)'
    BY <2>1, StillKnows DEF DInv
  <2> QED BY <2>2, <2>3 DEF DInv
<1>2. CASE Next
  BY <1>2, ProcessDInv, OperatorDInv DEF Next
<1> QED BY <1>1, <1>2

\* It holds in every state.
LEMMA Invariance == Spec => []DInv
<1>1. DInv /\ [Next]_vars => DInv'
  BY NextDInv
<1> QED BY InitDInv, <1>1, PTL DEF Spec

-----------------------------------------------------------------------------
(* The theorems.                                                            *)

\* The one key of a database whose values are all under k.
LEMMA KeyOfUnder ==
  ASSUME NEW db \in Databases, NEW k, Under(db, k)
  PROVE  /\ (\A q \in Places : db.sealed[q] = NoKey) => KeyOf(db) = NoKey
         /\ (\E q \in Places : db.sealed[q] # NoKey) => KeyOf(db) = k
<1>1. ASSUME \A q \in Places : db.sealed[q] = NoKey
      PROVE  KeyOf(db) = NoKey
  BY <1>1 DEF KeyOf, SealedUnder
<1>2. ASSUME NEW q \in Places, db.sealed[q] # NoKey
      PROVE  KeyOf(db) = k
  <2>1. SealedUnder(db) = {k}
    BY <1>2 DEF SealedUnder, Under
  <2>2. Cardinality({k}) = 1
    BY FS_Singleton
  <2> QED BY <2>1, <2>2 DEF KeyOf
<1> QED BY <1>1, <1>2

\* Whoever serves, serves the live file under its one key: the service lock
\* keeps rekey and compact out for as long as the key read at start is used.
THEOREM ServiceKeyIsLive == Spec => []ServesTheLiveKey
<1>1. DInv => ServesTheLiveKey
  <2> SUFFICES ASSUME DInv, NEW p \in Procs, Serving(p)
               PROVE  procs[p].file = Live /\ KeyOf(files[Live]) = procs[p].key
    BY DEF ServesTheLiveKey
  <2>1. Known /\ At(p, {"serve"}, "serving")
    BY DEF DInv, Known, Serving
  <2>2. /\ procs[p].file = Live /\ Db(p) = files[Live] /\ Sound(Db(p)) /\ procs[p].key \in Keys
        /\ Under(Db(p), procs[p].key) /\ Db(p).sealed.check = procs[p].key
    BY <2>1, AtServe
  <2>3. files[Live] \in Databases /\ "check" \in Places /\ files[Live].sealed["check"] # NoKey
    BY <2>2, DatabaseAssumption DEF Sound, Places, DatabaseAssumption
  <2> QED BY <2>2, <2>3, KeyOfUnder
<1> QED BY <1>1, Invariance, PTL

\* Wherever upgrades were interrupted and resumed, a database that says it is
\* of a version has had every row rewritten by every step up to it: the
\* cursors of version 12, the skipping of version 14 and the fresh starts of
\* the others leave no row behind, for any size of chunk.
THEOREM UpgradesAreWhole == Spec => []UpgradedWhole
<1>1. DInv => UpgradedWhole
  <2> SUFFICES ASSUME DInv, NEW db \in ToSet(files) \cup {published.db}
               PROVE  \A v \in 2 .. db.version : AllRows(db, v) \subseteq db.upgraded
    BY DEF UpgradedWhole
  <2>1. Typed
    BY DEF DInv
  <2>2. ToSet(files) = {files[i] : i \in 1 .. Live}
    BY <2>1 DEF Typed, ToSet, Live
  <2>3. Sound(db)
    BY <2>1, <2>2 DEF Typed
  <2> QED BY <2>3 DEF Sound, Whole
<1> QED BY <1>1, Invariance, PTL

\* No ledger sequence is sent twice: not after a restart, a compaction, or a
\* change of the checkpoint settings.
THEOREM CheckpointsOnlyAdvance == Spec => []CheckpointsAdvance
<1>1. DInv => CheckpointsAdvance
  BY DEF DInv
<1> QED BY <1>1, Invariance, PTL

\* A published backup opens with the key its command was given, whatever was
\* committed while it was taken.
THEOREM PublishedBackupsOpen == Spec => []BackupsOpen
<1>1. DInv => BackupsOpen
  BY DEF DInv
<1> QED BY <1>1, Invariance, PTL

-----------------------------------------------------------------------------
(* The step simulation of a Vault.                                          *)

\* A step that leaves what the Vault shows.
Unseen ==
  /\ files'[Live'].version = files[Live].version /\ KeyOf(files'[Live']) = KeyOf(files[Live])
  /\ files'[Live'].commits = files[Live].commits /\ committed' = committed

\* A write of acknowledged data.
Acknowledged ==
  /\ files'[Live'].version = files[Live].version /\ KeyOf(files'[Live']) = KeyOf(files[Live])
  /\ files'[Live'].commits = files[Live].commits + 1 /\ committed' = committed + 1

\* A step that leaves what the vault shows is a stutter of the vault.
LEMMA UnseenMaps == ASSUME Unseen PROVE UNCHANGED V!vars
BY DEF Unseen, V!vars

\* A transaction that is acknowledged is a commit of the vault.
LEMMA AcknowledgedMaps == ASSUME Acknowledged PROVE V!Next
BY DEF Acknowledged, V!Next, V!Commit

\* The key of a file is a function of what it has sealed.
LEMMA SameKey ==
  ASSUME NEW db, NEW d, d.sealed = db.sealed
  PROVE  KeyOf(d) = KeyOf(db)
BY DEF KeyOf, SealedUnder

\* What a write by a process with the live file open does to the live file.
LEMMA LiveWritten ==
  ASSUME Known, NEW p \in Procs, procs[p] # Idle, Writing(p), NEW d, Write(p, d)
  PROVE  files'[Live'] = d /\ files[Live] = Db(p)
<1>1. procs[p].file = Live
  BY DEF Known, Local
<1> QED BY <1>1 DEF Write, Db, Known, Typed, Live

\* A step that writes no file is not seen by the vault.
LEMMA FilesUnseen ==
  ASSUME files' = files, committed' = committed
  PROVE  Unseen
BY DEF Unseen, Live

\* The step to a version: the key stays, or is dropped with the last value it
\* sealed.
LEMMA TransactionKey ==
  ASSUME NEW db, Sound(db), NEW k \in Keys, Under(db, k), NEW v, MovesURL(db, v) => db.sealed.settings = k,
         NEW d, Sound(d), Under(d, k), d.sealed = Sealed(db, v, k)
  PROVE  KeyOf(d) = KeyOf(db) \/ (v = 13 /\ KeyOf(d) = NoKey)
<1>1. db \in Databases /\ d \in Databases /\ db.sealed \in [Places -> Keys \cup {NoKey}]
  BY DEF Sound, Databases
<1>2. CASE MovesURL(db, v)
  <2>1. db.sealed["settings"] # NoKey /\ d.sealed["settings"] # NoKey /\ "settings" \in Places
    BY <1>1, <1>2 DEF MovesURL, Sealed, Places
  <2> QED BY <1>1, <2>1, KeyOfUnder
<1>3. CASE ~MovesURL(db, v) /\ v # 13
  <2>1. d.sealed = db.sealed
    BY <1>1, <1>3 DEF Sealed
  <2> QED BY <2>1, SameKey
<1>4. CASE v = 13
  <2>1. CASE \A q \in Places : d.sealed[q] = NoKey
    BY <1>1, <1>4, <2>1, KeyOfUnder
  <2>2. ASSUME NEW q \in Places, d.sealed[q] # NoKey
        PROVE  KeyOf(d) = KeyOf(db)
    <3>1. db.sealed[q] # NoKey
      <4>1. ~MovesURL(db, v)
        BY <1>4 DEF MovesURL
      <4>2. Sealed(db, v, k) = [db.sealed EXCEPT !["destination"] = @, !["removed"] = NoKey]
        BY <1>4, <4>1 DEF Sealed
      <4>3. q = "removed" \/ d.sealed[q] = db.sealed[q]
        BY <1>1, <4>2 DEF Places
      <4>4. d.sealed["removed"] = NoKey
        BY <1>1, <4>2 DEF Places
      <4> QED BY <2>2, <4>3, <4>4
    <3> QED BY <1>1, <2>2, <3>1, KeyOfUnder
  <2> QED BY <2>1, <2>2
<1> QED BY <1>2, <1>3, <1>4

\* One schema step, seen from outside.
LEMMA UpgradeMaps ==
  ASSUME files[Live].version < Current,
         files'[Live'].version = files[Live].version + 1 \/ (files[Live].version = 0 /\ files'[Live'].version = Current),
         \/ KeyOf(files'[Live']) = KeyOf(files[Live])
         \/ files'[Live'].version = 13 /\ KeyOf(files'[Live']) = NoKey,
         files'[Live'].commits = files[Live].commits, committed' = committed
  PROVE  V!Next
BY DEF V!Next, V!Upgrade

\* The schema steps are stutters, or steps of the vault.
LEMMA SchemaMaps ==
  ASSUME Known, NEW p \in Procs, CreateMarkerTable(p) \/ InsertMarker(p) \/ MigrateOnce(p)
  PROVE  Unseen \/ V!Next
<1>0. committed' = committed
  BY DEF CreateMarkerTable, InsertMarker, MigrateOnce, Stays
<1>1. CASE CreateMarkerTable(p)
  <2> DEFINE d == [Db(p) EXCEPT !.tables = TRUE]
  <2>1. At(p, {"serve"}, "schema") /\ Write(p, d)
    BY <1>1 DEF CreateMarkerTable
  <2>2. procs[p] # Idle /\ Writing(p) /\ Sound(Db(p))
    BY <2>1, AtServe DEF Writing
  <2>3. files'[Live'] = d /\ files[Live] = Db(p)
    BY <2>1, <2>2, LiveWritten
  <2>4. d.version = Db(p).version /\ d.commits = Db(p).commits /\ d.sealed = Db(p).sealed
    BY <2>2 DEF Sound, Databases
  <2> HIDE DEF d
  <2> QED BY <1>0, <2>3, <2>4, SameKey DEF Unseen
<1>2. CASE InsertMarker(p)
  <2> DEFINE d == [Db(p) EXCEPT !.version = IF @ = 0 THEN Current ELSE @]
  <2>1. At(p, {"serve"}, "schema") /\ Write(p, d)
    BY <1>2 DEF InsertMarker
  <2>2. procs[p] # Idle /\ Writing(p) /\ Sound(Db(p))
    BY <2>1, AtServe DEF Writing
  <2>3. files'[Live'] = d /\ files[Live] = Db(p)
    BY <2>1, <2>2, LiveWritten
  <2>4. /\ d.version = (IF Db(p).version = 0 THEN Current ELSE Db(p).version)
        /\ d.commits = Db(p).commits /\ d.sealed = Db(p).sealed
    BY <2>2, MarkerSound
  <2> HIDE DEF d
  <2>5. KeyOf(d) = KeyOf(Db(p))
    BY <2>4, SameKey
  <2>6. CASE Db(p).version # 0
    BY <1>0, <2>3, <2>4, <2>5, <2>6 DEF Unseen
  <2>7. CASE Db(p).version = 0
    <3>1. files[Live].version < Current
      BY <2>3, <2>7 DEF Current
    <3> QED BY <1>0, <2>3, <2>4, <2>5, <2>7, <3>1, UpgradeMaps
  <2> QED BY <2>6, <2>7
<1>3. CASE MigrateOnce(p)
  <2> DEFINE v == Db(p).version + 1
             k == procs[p].key
             d == InOneTransaction(Db(p), v, k)
  <2>1. At(p, {"serve"}, "migrate") /\ Db(p).version < Current /\ v \notin Chunked
    BY <1>3 DEF MigrateOnce, Migrating, Reaching
  <2>2. /\ procs[p] # Idle /\ Sound(Db(p)) /\ Db(p).version \in Nat /\ Under(Db(p), k) /\ k \in Keys
        /\ Db(p).version > 0 /\ Writing(p)
    BY <2>1, AtServe DEF Writing
  <2>3. CASE MovesURL(Db(p), v) /\ Db(p).sealed.settings # k
    BY <1>0, <1>3, <2>3, FilesUnseen DEF MigrateOnce, Reaching
  <2>4. CASE ~(MovesURL(Db(p), v) /\ Db(p).sealed.settings # k)
    <3>1. Write(p, d)
      BY <1>3, <2>4 DEF MigrateOnce, Reaching
    <3>2. files'[Live'] = d /\ files[Live] = Db(p)
      BY <2>2, <3>1, LiveWritten
    <3>3. v <= Current
      BY <2>1, <2>2 DEF Current
    <3>4. Sound(d) /\ Under(d, k) /\ d.version = v /\ d.commits = Db(p).commits
      BY <2>1, <2>2, <2>4, <3>3, TransactionSound
    <3>5. d.sealed = Sealed(Db(p), v, k)
      <4>1. Db(p) \in Databases
        BY <2>2 DEF Sound
      <4> QED BY <4>1 DEF InOneTransaction, Databases
    <3>6. KeyOf(d) = KeyOf(Db(p)) \/ (v = 13 /\ KeyOf(d) = NoKey)
      <4> DEFINE b == Db(p)
      <4>1. Sound(b) /\ k \in Keys /\ Under(b, k) /\ (MovesURL(b, v) => b.sealed.settings = k) /\ d.sealed = Sealed(b, v, k)
            /\ Sound(d) /\ Under(d, k)
        BY <2>2, <2>4, <3>4, <3>5
      <4> HIDE DEF b, d, v, k
      <4>2. KeyOf(d) = KeyOf(b) \/ (v = 13 /\ KeyOf(d) = NoKey)
        BY <4>1, TransactionKey
      <4> QED BY <4>2 DEF b
    <3> HIDE DEF d
    <3> QED BY <1>0, <2>1, <3>2, <3>4, <3>6, UpgradeMaps
  <2> QED BY <2>3, <2>4
<1> QED BY <1>1, <1>2, <1>3

\* A scan is not seen until its step is finished.
LEMMA StoredMaps ==
  ASSUME Known, NEW p \in Procs, At(p, {"serve"}, "migrate"), NEW v, NEW s, NEW e, e \in Databases,
         e.version = Db(p).version, e.sealed = Db(p).sealed, e.commits = Db(p).commits,
         Write(p, Stored(v, e, s)), committed' = committed
  PROVE  Unseen
<1> DEFINE d == Stored(v, e, s)
<1>1. procs[p] # Idle /\ Writing(p)
  BY AtServe DEF Writing
<1>2. files'[Live'] = d /\ files[Live] = Db(p)
  BY <1>1, LiveWritten
<1>3. d.version = e.version /\ d.sealed = e.sealed /\ d.commits = e.commits
  BY DEF Stored, Databases
<1> HIDE DEF d
<1> QED BY <1>2, <1>3, SameKey DEF Unseen

\* So are the chunks of a migration.
LEMMA ScanMaps ==
  ASSUME Known, NEW p \in Procs, BeginScan(p) \/ MigrateChunk(p) \/ NextTable(p) \/ FinishScan(p)
  PROVE  Unseen \/ V!Next
<1>0. committed' = committed /\ At(p, {"serve"}, "migrate")
  BY DEF BeginScan, MigrateChunk, NextTable, FinishScan, Scanning, Migrating, Stays
<1>1. procs[p] # Idle /\ Writing(p) /\ Sound(Db(p)) /\ Db(p) \in Databases
  BY <1>0, AtServe DEF Writing, Sound
<1>2. CASE BeginScan(p)
  BY <1>0, <1>1, <1>2, StoredMaps DEF BeginScan
<1>3. CASE MigrateChunk(p)
  <2> DEFINE s == procs[p].scan
             t == [s EXCEPT !.cursor = CHOOSE i \in Rows(p) : \A j \in Rows(p) : j <= i]
             e == [Db(p) EXCEPT !.upgraded = @ \cup Rewritten(Reaching(p), Tables[Reaching(p)][s.table], Rows(p))]
  <2>1. Scanning(p) /\ Write(p, Stored(Reaching(p), e, t))
    BY <1>3 DEF MigrateChunk
  <2>2. Sound(Db(p)) /\ s \in Scans /\ Reaching(p) \in Chunked /\ Passed(Db(p), Reaching(p), s)
    BY <2>1, AtScan
  <2>3. Sound(e) /\ e.version = Db(p).version /\ e.sealed = Db(p).sealed /\ e.commits = Db(p).commits
    BY <2>2, ChunkSound DEF Rows
  <2>4. e \in Databases
    BY <2>3 DEF Sound
  <2> HIDE DEF e, t
  <2> QED BY <1>0, <2>1, <2>3, <2>4, StoredMaps
<1>4. CASE NextTable(p)
  BY <1>0, <1>1, <1>4, StoredMaps DEF NextTable
<1>5. CASE FinishScan(p)
  <2> DEFINE d == Finished(Db(p))
  <2>1. Scanning(p) /\ Rows(p) = {} /\ LastTable(p) /\ Write(p, d) /\ Db(p).version < Current
    BY <1>5 DEF FinishScan, Scanning, Migrating
  <2>2. /\ Sound(Db(p)) /\ procs[p].scan \in Scans /\ Reaching(p) \in Chunked /\ Reaching(p) = Db(p).version + 1
        /\ Passed(Db(p), Reaching(p), procs[p].scan)
    BY <2>1, AtScan
  <2>3. AllRows(Db(p), Reaching(p)) \subseteq Db(p).upgraded
    BY <1>1, <2>1, <2>2, TablePassed DEF Rows, LastTable
  <2>4. d.version = Db(p).version + 1 /\ d.sealed = Db(p).sealed /\ d.commits = Db(p).commits
    BY <2>2, <2>3, FinishedSound
  <2>5. files'[Live'] = d /\ files[Live] = Db(p)
    BY <1>1, <2>1, LiveWritten
  <2> HIDE DEF d
  <2>6. KeyOf(d) = KeyOf(Db(p))
    BY <2>4, SameKey
  <2> QED BY <1>0, <2>1, <2>4, <2>5, <2>6, UpgradeMaps
<1> QED BY <1>2, <1>3, <1>4, <1>5

\* Sealing a value under the key of the others shows nothing, unless it is the
\* first value of all.
LEMMA SealMaps ==
  ASSUME Known, NEW p \in Procs, NEW at \in {"migrate", "sign"}, At(p, {"serve"}, at), NEW q \in Places,
         Write(p, [Db(p) EXCEPT !.sealed = [@ EXCEPT ![q] = procs[p].key]]), committed' = committed
  PROVE  Unseen \/ V!Next
<1> DEFINE b == Db(p)
           k == procs[p].key
           w == [b.sealed EXCEPT ![q] = k]
           d == [b EXCEPT !.sealed = w]
<1>1. procs[p] # Idle /\ Writing(p) /\ Sound(b) /\ Under(b, k) /\ k \in Keys
  BY AtServe DEF Writing
<1>2. Write(p, d)
  OBVIOUS
<1>3. files'[Live'] = d /\ files[Live] = b
  BY <1>1, <1>2, LiveWritten
<1>4. w = [b.sealed EXCEPT ![q] = k] /\ d = [b EXCEPT !.sealed = w]
  OBVIOUS
<1> HIDE DEF b, k, w, d
<1>5. Sound(d) /\ Under(d, k) /\ d.sealed = [b.sealed EXCEPT ![q] = k] /\ d.version = b.version /\ d.commits = b.commits
  BY <1>1, <1>4, SealSound
<1>6. b \in Databases /\ d \in Databases /\ b.sealed \in [Places -> Keys \cup {NoKey}]
  BY <1>1, <1>5 DEF Sound, Databases
<1>7. d.sealed[q] = k /\ k # NoKey
  BY <1>1, <1>5, <1>6, DatabaseAssumption DEF DatabaseAssumption
<1>8. KeyOf(d) = k
  BY <1>5, <1>6, <1>7, KeyOfUnder
<1>9. KeyOf(b) = NoKey \/ KeyOf(b) = k
  BY <1>1, <1>6, KeyOfUnder
<1>10. CASE KeyOf(b) = k
  BY <1>3, <1>5, <1>8, <1>10 DEF Unseen
<1>11. CASE KeyOf(b) = NoKey
  BY <1>1, <1>3, <1>5, <1>8, <1>11 DEF V!Next, V!Claim
<1> QED BY <1>9, <1>10, <1>11

\* So are the key check and the signing key.
LEMMA KeysMap ==
  ASSUME Known, NEW p \in Procs, SealCheck(p) \/ LoadSigningKey(p)
  PROVE  Unseen \/ V!Next
<1>1. committed' = committed
  BY DEF SealCheck, LoadSigningKey, Stays
<1>2. CASE SealCheck(p)
  <2>1. CASE Db(p).sealed.check \in {NoKey, procs[p].key}
    BY <1>1, <1>2, <2>1, SealMaps DEF SealCheck, Places
  <2>2. CASE Db(p).sealed.check \notin {NoKey, procs[p].key}
    BY <1>1, <1>2, <2>2, FilesUnseen DEF SealCheck
  <2> QED BY <2>1, <2>2
<1>3. CASE LoadSigningKey(p)
  <2>1. CASE Db(p).sealed.signing \in {NoKey, procs[p].key}
    BY <1>1, <1>3, <2>1, SealMaps DEF LoadSigningKey, Places
  <2>2. CASE Db(p).sealed.signing \notin {NoKey, procs[p].key}
    BY <1>1, <1>3, <2>2, FilesUnseen DEF LoadSigningKey
  <2> QED BY <2>1, <2>2
<1> QED BY <1>2, <1>3

\* An acknowledged write beside the keys and the schema.
LEMMA CommitMaps ==
  ASSUME Known, NEW p \in Procs, procs[p] # Idle, Writing(p), NEW e, Sound(e), Commit(p, e),
         e.version = Db(p).version, KeyOf(e) = KeyOf(Db(p)), e.commits = Db(p).commits
  PROVE  V!Next
<1> DEFINE d == [e EXCEPT !.commits = @ + 1]
<1>1. Write(p, d) /\ committed' = committed + 1
  BY DEF Commit
<1>2. files'[Live'] = d /\ files[Live] = Db(p)
  BY <1>1, LiveWritten
<1>3. Beside(e, d) /\ d.commits = e.commits + 1
  BY CommitSound
<1> HIDE DEF d
<1>4. d.version = e.version /\ KeyOf(d) = KeyOf(e)
  BY <1>3, SameKey DEF Beside
<1> QED BY <1>1, <1>2, <1>3, <1>4, AcknowledgedMaps DEF Acknowledged

\* So are the transactions of the service.
LEMMA ServeMaps ==
  ASSUME Known, NEW p \in Procs, Serve(p)
  PROVE  Unseen \/ V!Next
<1>1. At(p, {"serve"}, "serving")
  BY DEF Serve, Record, Configure, Checkpoint, Serving
<1>2. /\ procs[p] # Idle /\ Writing(p) /\ Sound(Db(p)) /\ Db(p) \in Databases /\ procs[p].key \in Keys
      /\ Under(Db(p), procs[p].key) /\ Db(p).sealed.check = procs[p].key
  BY <1>1, AtServe DEF Writing, Sound
<1>3. CASE Record(p)
  <2> DEFINE e == [Db(p) EXCEPT !.ledger = @ + 1]
  <2>1. e \in Databases /\ Beside(Db(p), e) /\ e.commits = Db(p).commits
    BY <1>2 DEF Databases, Beside
  <2>2. Commit(p, e)
    BY <1>3 DEF Record
  <2> HIDE DEF e
  <2>3. Sound(e) /\ e.version = Db(p).version /\ KeyOf(e) = KeyOf(Db(p))
    BY <1>2, <2>1, BesideSound, SameKey DEF Beside
  <2> QED BY <1>2, <2>1, <2>2, <2>3, CommitMaps
<1>4. CASE Configure(p)
  <2>1. PICK q \in {"settings", "destination"} : Commit(p, [Db(p) EXCEPT !.sealed[q] = procs[p].key])
    BY <1>4 DEF Configure
  <2> DEFINE b == Db(p)
             k == procs[p].key
             w == [b.sealed EXCEPT ![q] = k]
             e == [b EXCEPT !.sealed = w]
  <2>2. Commit(p, e) /\ w = [b.sealed EXCEPT ![q] = k] /\ e = [b EXCEPT !.sealed = w]
    BY <2>1
  <2>3. Sound(b) /\ b \in Databases /\ Under(b, k) /\ k \in Keys /\ b.sealed.check = k /\ q \in Places /\ "check" \in Places
    BY <1>2 DEF Places
  <2> HIDE DEF k, w, e, b
  <2>4. /\ Sound(e) /\ Under(e, k) /\ e.sealed = [b.sealed EXCEPT ![q] = k] /\ e.version = b.version
        /\ e.commits = b.commits
    BY <2>2, <2>3, SealSound
  <2>5. e \in Databases /\ b.sealed \in [Places -> Keys \cup {NoKey}] /\ k # NoKey
    BY <2>3, <2>4, DatabaseAssumption DEF Sound, Databases, DatabaseAssumption
  <2>6. e.sealed[q] = k /\ b.sealed["check"] = k
    BY <2>3, <2>4, <2>5
  <2>7. KeyOf(e) = k /\ KeyOf(b) = k
    BY <2>3, <2>4, <2>5, <2>6, KeyOfUnder
  <2> QED BY <1>2, <2>2, <2>4, <2>7, CommitMaps DEF b
<1>5. CASE Checkpoint(p)
  <2> DEFINE d == [Db(p) EXCEPT !.anchored = Db(p).ledger]
  <2>1. Write(p, d) /\ committed' = committed
    BY <1>5 DEF Checkpoint
  <2>2. d.version = Db(p).version /\ d.sealed = Db(p).sealed /\ d.commits = Db(p).commits
    BY <1>2 DEF Databases
  <2>3. files'[Live'] = d /\ files[Live] = Db(p)
    BY <1>2, <2>1, LiveWritten
  <2> HIDE DEF d
  <2> QED BY <2>1, <2>2, <2>3, SameKey DEF Unseen
<1> QED BY <1>3, <1>4, <1>5 DEF Serve

\* A reset token, or the checkpoint destination chosen or cleared.
LEMMA ChangeMaps ==
  ASSUME Known, NEW p \in Procs, Change(p)
  PROVE  V!Next
<1>1. At(p, {"change"}, "write") /\ procs[p] # Idle
  BY DEF Change, At
<1>2. Writing(p)
  BY <1>1 DEF Writing
<1>3. Sound(Db(p)) /\ Db(p) \in Databases
  BY <1>1, <1>2, AtWriting
<1>4. ASSUME NEW e \in {Db(p), Chosen(Db(p)), Cleared(Db(p))}, Commit(p, e)
      PROVE  V!Next
  <2>1. e \in Databases /\ Beside(Db(p), e) /\ e.commits = Db(p).commits
    BY <1>3 DEF Databases, Chosen, Cleared, Beside
  <2>2. Sound(e) /\ e.version = Db(p).version /\ KeyOf(e) = KeyOf(Db(p))
    BY <1>3, <2>1, BesideSound, SameKey DEF Beside
  <2> QED BY <1>1, <1>2, <1>4, <2>1, <2>2, CommitMaps
<1> QED BY <1>4 DEF Change

\* A rotation: every sealed value is under the new key, and there is one.
LEMMA RekeyMaps ==
  ASSUME Known, NEW p \in Procs, Rekey(p)
  PROVE  Unseen \/ V!Next
<1>1. At(p, {"rekey"}, "reseal") /\ procs[p] # Idle
  BY DEF Rekey, At
<1>2. Writing(p)
  BY <1>1 DEF Writing
<1>3. Sound(Db(p)) /\ Db(p) \in Databases /\ Db(p) = files[Live]
  BY <1>1, <1>2, AtWriting
<1>4. procs[p].new \in Keys /\ files[Live].version = Current /\ files[Live].sealed.check # NoKey
  <2>1. RekeyKnows(p) /\ procs[p].op = "rekey"
    BY <1>1 DEF Known, Local, At
  <2> QED BY <1>1, <2>1 DEF RekeyKnows
<1>5. CASE UNCHANGED <<files, committed>>
  BY <1>5, FilesUnseen
<1>6. CASE Commit(p, Resealed(Db(p), procs[p].new))
  <2> DEFINE b == Db(p)
             k == procs[p].new
             e == Resealed(b, k)
             d == [e EXCEPT !.commits = @ + 1]
  <2>1. Sound(b) /\ k \in Keys /\ e = Resealed(b, k) /\ d = [e EXCEPT !.commits = @ + 1]
        /\ Write(p, d) /\ committed' = committed + 1
    BY <1>3, <1>4, <1>6 DEF Commit
  <2>2. files'[Live'] = d /\ files[Live] = b
    BY <1>1, <1>2, <2>1, LiveWritten
  <2>3. b.version = Current /\ b.sealed.check # NoKey
    BY <1>4, <2>2
  <2> HIDE DEF b, k, e, d
  <2>4. /\ Sound(e) /\ Under(e, k) /\ e.commits = b.commits /\ e.version = b.version
        /\ \A q \in Places : b.sealed[q] # NoKey => e.sealed[q] = k
    BY <2>1, ResealedSound
  <2>5. e.sealed["check"] = k /\ "check" \in Places
    BY <2>3, <2>4 DEF Places
  <2>6. Sound(d) /\ Beside(e, d) /\ d.commits = b.commits + 1 /\ Under(d, k)
    BY <2>1, <2>4, CommitSound
  <2>7. d.sealed["check"] # NoKey
    BY <2>1, <2>5, <2>6, DatabaseAssumption DEF Beside, DatabaseAssumption
  <2>8. KeyOf(d) = k
    BY <2>5, <2>6, <2>7, KeyOfUnder DEF Sound
  <2>9. d.version = b.version
    BY <2>4, <2>6 DEF Beside
  <2> QED BY <2>1, <2>2, <2>3, <2>6, <2>8, <2>9 DEF V!Next, V!Rotate
<1>7. UNCHANGED <<files, committed>> \/ Commit(p, Resealed(Db(p), procs[p].new))
  BY DEF Rekey
<1> QED BY <1>5, <1>6, <1>7

\* Compaction replaces the live file by a copy of it.
LEMMA ReplaceMaps ==
  ASSUME Known, NEW p \in Procs, Replace(p)
  PROVE  Unseen
<1>1. procs[p].copy = files[Live]
  BY ReplaceOwn
<1>2. files' = Append(files, procs[p].copy) /\ committed' = committed
  BY DEF Replace, Stays
<1>3. files'[Live'] = files[Live]
  BY <1>1, <1>2 DEF Known, Typed, Live
<1> QED BY <1>2, <1>3 DEF Unseen

\* So are the commands.
LEMMA CommandMaps ==
  ASSUME Known, NEW p \in Procs, Command(p)
  PROVE  Unseen \/ V!Next
<1>1. CASE Copy(p) \/ Verify(p) \/ Close(p) \/ Recheck(p) \/ Publish(p) \/ WriteChecksum(p)
  <2>1. UNCHANGED <<files, committed>>
    BY <1>1 DEF Copy, Verify, Close, Recheck, Publish, WriteChecksum, Stays
  <2> QED BY <2>1, FilesUnseen
<1> QED BY <1>1, ChangeMaps, RekeyMaps, ReplaceMaps DEF Command

\* Every step is a step of the Vault or is not seen.
LEMMA NextMaps ==
  ASSUME DInv, [Next]_vars
  PROVE  [V!Next]_V!vars
<1>1. Known
  BY DEF DInv, Known
<1>2. CASE UNCHANGED vars
  BY <1>2, FilesUnseen, UnseenMaps DEF vars
<1>3. ASSUME NEW p \in Procs, Start(p) \/ Crash(p)
      PROVE  Unseen
  BY <1>3, FilesUnseen DEF Start, Launch, LockService, LockMaintenance, Open, Crash, Stays
<1>4. ASSUME NEW p \in Procs, Upgrade(p)
      PROVE  Unseen \/ V!Next
  BY <1>1, <1>4, SchemaMaps, ScanMaps, KeysMap DEF Upgrade
<1>5. CASE MoveBackupAway
  BY <1>5, FilesUnseen, UnseenMaps DEF MoveBackupAway
<1> QED BY <1>1, <1>2, <1>3, <1>4, <1>5, ServeMaps, CommandMaps, UnseenMaps DEF Next

\* What the first process finds is a Vault of no or one key.
LEMMA InitMaps == Init => V!Init
<1> SUFFICES ASSUME NEW db \in Founded, files = <<db>>, committed = 0
             PROVE  V!Init
  BY DEF Init
<1>1. db \in Databases /\ OneKey(db) /\ db.commits = 0 /\ files[Live] = db
  BY FoundedAssumption DEF FoundedAssumption, Live
<1>2. db.version \in 0 .. Current /\ db.sealed \in [Places -> Keys \cup {NoKey}]
  BY <1>1 DEF Databases
<1>3. KeyOf(db) \in Keys \cup {NoKey}
  <2>1. CASE \A q \in Places : db.sealed[q] = NoKey
    BY <2>1 DEF KeyOf, SealedUnder
  <2>2. ASSUME NEW q \in Places, db.sealed[q] # NoKey
        PROVE  KeyOf(db) \in Keys
    <3>1. db.sealed[q] \in Keys
      BY <1>2, <2>2
    <3>2. Under(db, db.sealed[q])
      BY <1>1, <2>2 DEF OneKey, Under
    <3> QED BY <1>1, <2>2, <3>1, <3>2, KeyOfUnder
  <2> QED BY <2>1, <2>2
<1> QED BY <1>1, <1>2, <1>3 DEF V!Init

\* Processes that crash, race and replace the file under each other leave what
\* a Vault leaves: a version that only grows, one key that only a rotation
\* changes, and every acknowledged write.
THEOREM ImplementsVault == Spec => IsAVault
<1>1. DInv /\ [Next]_vars => [V!Next]_V!vars
  BY NextMaps
<1> QED BY InitMaps, <1>1, Invariance, PTL DEF Spec, IsAVault, V!Spec
=============================================================================
