--------------------------- MODULE AdaptersProofs ---------------------------
(***************************************************************************)
(* Theorems about the persistence adapters, for any commits, writers,      *)
(* partitions and batches, and any number of calls and errors.             *)
(***************************************************************************)
EXTENDS Adapters, SumProofs

\* What the chosen store has recorded.
Written == IF adapter = "kafka" THEN Published ELSE applied

LoopInv ==
    /\ adapter \in Adapters /\ stable \in BOOLEAN
    /\ wpc \in [Writers -> {"idle", "sending", "failed"}]
    /\ batch \in [Writers -> SUBSET Commits] /\ left \in [Writers -> SUBSET Commits]
    /\ call \in [Writers -> Nat] /\ calls \in 0..MaxCalls /\ errors \in 0..MaxErrors
    /\ stable => calls = 0
    /\ \A w \in Writers :
          /\ call[w] <= calls
          /\ left[w] \subseteq batch[w]
          /\ wpc[w] = "idle" => batch[w] = {}
          /\ adapter = "postgres" => wpc[w] = "idle"

\* Nothing is acknowledged or taken off the loop's list before the store has it.
WrittenInv ==
    /\ acked \subseteq Written
    /\ \A w \in Writers : \A c \in batch[w] \ left[w] : CommitID(w, c) \in Written

\* A commit that may be sent once more still has its marker.
MarkerInv ==
    /\ scalar \in [Keys -> Int] /\ applied \subseteq CommitIDs /\ markers \subseteq Keys \X CommitIDs
    /\ \A id \in applied : id[2] <= calls
    /\ \A m \in markers : m[2] \in applied
    /\ \A id \in applied : id \notin acked => <<KeyOf[id[1]], id>> \in markers
    /\ \A w \in Writers : \A c \in batch[w] :
          CommitID(w, c) \in applied => Marker(w, c) \in markers

\* With a fresh CommitID per call, no CommitID has two messages.
TopicInv ==
    /\ topic \in [Partitions -> Seq(CommitIDs)] /\ IsFiniteSet(Published)
    /\ \A id \in Published : id[2] <= calls
    /\ \A p \in Partitions : \A j \in 1..Len(topic[p]) : PartitionOf[topic[p][j]] = p
    /\ adapter = "kafka" /\ ~stable =>
          /\ \A p \in Partitions : \A j, m \in 1..Len(topic[p]) : j # m => topic[p][j] # topic[p][m]
          /\ \A w \in Writers : wpc[w] = "sending" =>
                /\ \A c \in left[w] : CommitID(w, c) \notin Published
                /\ \A u \in Writers : wpc[u] = "sending" /\ u # w => call[u] # call[w]

PgTypes ==
    /\ rows \in SUBSET Keys /\ pgApplied \in SUBSET Commits /\ txAcked \in SUBSET Commits
    /\ pgScalar \in [Keys -> Int] /\ lastToken \in [Keys -> Nat]
    /\ tpc \in [Writers -> {"idle", "create", "insert", "fence", "update", "commit"}]
    /\ txBatch \in [Writers -> Seq(Commits)] /\ i \in [Writers -> Nat]
    /\ newRows \in [Writers -> SUBSET Keys] /\ newApplied \in [Writers -> SUBSET Commits]
    /\ newScalar \in [Writers -> [Keys -> Int]] /\ newToken \in [Writers -> [Keys -> Nat]]

\* The entries of a batch that InsertApplied is through with, by step and index.
Inserted(step, B, n) ==
    {B[j] : j \in {m \in 1..Len(B) :
        \/ step = "insert" /\ m < n
        \/ step \in {"fence", "update"} /\ m <= n
        \/ step = "commit"}}

\* An open transaction has marked the entries it is through with, except for those that
\* were marked before.
TxPart(step, B, n, marked, marks) ==
    /\ step = "idle" => B = <<>> /\ marked = {}
    /\ step # "idle" => B \in Batches
    /\ step \in {"create", "insert", "fence", "update"} => n \in 1..Len(B)
    /\ marked \subseteq EntriesOf(B)
    /\ Inserted(step, B, n) \subseteq marks \cup marked

TxInv == \A w \in Writers : TxPart(tpc[w], txBatch[w], i[w], newApplied[w], pgApplied)

PgInv == PgTypes /\ TxInv /\ BatchesAtomic

AdaptersInv == LoopInv /\ WrittenInv /\ MarkerInv /\ TopicInv /\ PgInv

-----------------------------------------------------------------------------
(* Postgres.                                                               *)

\* More marks of other transactions do no harm.
LEMMA TxPartStays ==
    ASSUME NEW step, NEW B, NEW n, NEW marked, NEW marks, NEW more,
           TxPart(step, B, n, marked, marks), marks \subseteq more
    PROVE  TxPart(step, B, n, marked, more)
BY DEF TxPart

\* A step of one transaction leaves those of the other writers alone.
LEMMA OtherTransactions ==
    ASSUME PgTypes, TxInv, NEW w \in Writers, NEW t, NEW B, NEW n, NEW a,
           tpc' = [tpc EXCEPT ![w] = t], txBatch' = [txBatch EXCEPT ![w] = B],
           i' = [i EXCEPT ![w] = n], newApplied' = [newApplied EXCEPT ![w] = a],
           pgApplied \subseteq pgApplied', TxPart(t, B, n, a, pgApplied')
    PROVE  TxInv'
<1> SUFFICES ASSUME NEW u \in Writers
             PROVE  TxPart(tpc'[u], txBatch'[u], i'[u], newApplied'[u], pgApplied')
  BY DEF TxInv
<1>1. CASE u = w
  <2>1. tpc'[u] = t /\ txBatch'[u] = B /\ i'[u] = n /\ newApplied'[u] = a
    BY <1>1 DEF PgTypes
  <2> QED BY <2>1
<1>2. CASE u # w
  <2>1. tpc'[u] = tpc[u] /\ txBatch'[u] = txBatch[u] /\ i'[u] = i[u] /\ newApplied'[u] = newApplied[u]
    BY <1>2 DEF PgTypes
  <2>2. TxPart(tpc[u], txBatch[u], i[u], newApplied[u], pgApplied) BY DEF TxInv
  <2> QED BY <2>1, <2>2, TxPartStays
<1> QED BY <1>1, <1>2

\* What the statements rely on.
LEMMA EntryType ==
    ASSUME PgInv, NEW w \in Writers, tpc[w] \in {"create", "insert", "fence", "update"}
    PROVE  /\ txBatch[w] \in Batches /\ txBatch[w] \in Seq(Commits) /\ i[w] \in 1..Len(txBatch[w])
           /\ Entry(w) \in Commits /\ KeyOf[Entry(w)] \in Keys /\ VecOf[Entry(w)] \in Int
           /\ TokenOf[Entry(w)] \in Nat /\ Entry(w) = txBatch[w][i[w]]
<1>1. txBatch[w] \in Batches /\ i[w] \in 1..Len(txBatch[w]) BY DEF PgInv, TxInv, TxPart
<1>2. txBatch[w] \in Seq(Commits) BY DEF PgInv, PgTypes
<1>3. Entry(w) \in Commits BY <1>1, <1>2 DEF Entry
<1> QED BY <1>1, <1>2, <1>3, CommitAssumption, PgAssumption DEF Entry

\* BEGIN.
LEMMA BeginTxKeeps ==
    ASSUME PgInv, NEW w \in Writers, BeginTx(w)
    PROVE  PgInv'
<1>1. PICK B \in Batches :
        /\ tpc[w] = "idle"
        /\ tpc' = [tpc EXCEPT ![w] = IF CreateMissingKeys THEN "create" ELSE "insert"]
        /\ txBatch' = [txBatch EXCEPT ![w] = B] /\ i' = [i EXCEPT ![w] = 1]
        /\ UNCHANGED <<tables, newRows, newApplied, newScalar, newToken, txAcked>>
  BY DEF BeginTx
<1>2. B \in Seq(Commits) /\ B # <<>> BY PgAssumption
<1>3. PgTypes' BY <1>1, <1>2 DEF PgInv, PgTypes, tables
<1>4. TxInv'
  <2> DEFINE t == IF CreateMissingKeys THEN "create" ELSE "insert"
  <2>1. t \in {"create", "insert"} OBVIOUS
  <2>2. newApplied[w] = {} BY <1>1 DEF PgInv, TxInv, TxPart
  <2>3. 1 \in 1..Len(B) BY <1>2
  <2>4. Inserted(t, B, 1) = {} BY <2>1 DEF Inserted
  <2>5. TxPart(t, B, 1, {}, pgApplied') BY <2>1, <2>3, <2>4 DEF TxPart
  <2>6. newApplied' = [newApplied EXCEPT ![w] = {}] /\ pgApplied' = pgApplied
    BY <1>1, <2>2 DEF tables, PgInv, PgTypes
  <2> QED BY <1>1, <2>5, <2>6, OtherTransactions DEF PgInv
<1>5. BatchesAtomic' BY <1>1 DEF PgInv, BatchesAtomic, tables
<1> QED BY <1>3, <1>4, <1>5 DEF PgInv

\* INSERT INTO counters.
LEMMA CreateKeyKeeps ==
    ASSUME PgInv, NEW w \in Writers, CreateKey(w)
    PROVE  PgInv'
<1> DEFINE k == KeyOf[Entry(w)]
<1>1. /\ tpc[w] = "create" /\ newRows' = [newRows EXCEPT ![w] = @ \cup ({k} \ rows)]
      /\ \/ /\ i[w] = Len(txBatch[w]) /\ tpc' = [tpc EXCEPT ![w] = "insert"]
            /\ i' = [i EXCEPT ![w] = 1]
         \/ i[w] # Len(txBatch[w]) /\ i' = [i EXCEPT ![w] = @ + 1] /\ UNCHANGED tpc
      /\ UNCHANGED <<tables, txBatch, newApplied, newScalar, newToken, txAcked>>
  BY DEF CreateKey
<1>2. /\ txBatch[w] \in Batches /\ txBatch[w] \in Seq(Commits) /\ i[w] \in 1..Len(txBatch[w]) /\ k \in Keys
  BY <1>1, EntryType
<1>3. PgTypes'
  <2> HIDE DEF k
  <2>1. newRows' \in [Writers -> SUBSET Keys] BY <1>1, <1>2 DEF PgInv, PgTypes
  <2>2. tpc' \in [Writers -> {"idle", "create", "insert", "fence", "update", "commit"}]
    BY <1>1 DEF PgInv, PgTypes
  <2>3. i' \in [Writers -> Nat] BY <1>1 DEF PgInv, PgTypes
  <2> QED BY <1>1, <2>1, <2>2, <2>3 DEF PgInv, PgTypes, tables
<1>4. TxInv'
  <2>p. PgTypes /\ TxInv BY DEF PgInv
  <2>0. /\ txBatch' = [txBatch EXCEPT ![w] = txBatch[w]]
        /\ newApplied' = [newApplied EXCEPT ![w] = newApplied[w]] /\ pgApplied' = pgApplied
        /\ newApplied[w] \subseteq EntriesOf(txBatch[w])
    BY <1>1 DEF tables, PgInv, PgTypes, TxInv, TxPart
  <2>1. CASE i[w] = Len(txBatch[w])
    <3>1. Inserted("insert", txBatch[w], 1) = {} BY DEF Inserted
    <3>2. TxPart("insert", txBatch[w], 1, newApplied[w], pgApplied')
      BY <1>2, <2>0, <3>1 DEF TxPart
    <3>3. tpc' = [tpc EXCEPT ![w] = "insert"] /\ i' = [i EXCEPT ![w] = 1] BY <1>1, <2>1
    <3> HIDE DEF k
    <3> QED BY <2>0, <2>p, <3>2, <3>3, OtherTransactions
  <2>2. CASE i[w] # Len(txBatch[w])
    <3>1. Inserted("create", txBatch[w], i[w] + 1) = {} BY DEF Inserted
    <3>2. TxPart("create", txBatch[w], i[w] + 1, newApplied[w], pgApplied')
      BY <1>2, <2>0, <2>2, <3>1 DEF TxPart
    <3>3. tpc' = [tpc EXCEPT ![w] = "create"] /\ i' = [i EXCEPT ![w] = i[w] + 1]
      BY <1>1, <2>2 DEF PgInv, PgTypes
    <3> HIDE DEF k
    <3> QED BY <2>0, <2>p, <3>2, <3>3, OtherTransactions
  <2> QED BY <2>1, <2>2
<1>5. BatchesAtomic' BY <1>1 DEF PgInv, BatchesAtomic, tables
<1> QED BY <1>3, <1>4, <1>5 DEF PgInv

\* INSERT INTO applied_commits.
LEMMA InsertAppliedKeeps ==
    ASSUME PgInv, NEW w \in Writers, InsertApplied(w)
    PROVE  PgInv'
<1> DEFINE e == Entry(w)
           t == IF TokenOf[e] # 0 THEN "fence" ELSE "update"
           a == newApplied[w] \cup ({e} \ pgApplied)
<1>1. /\ tpc[w] = "insert" /\ tpc' = [tpc EXCEPT ![w] = t]
      /\ newApplied' = [newApplied EXCEPT ![w] = a]
      /\ UNCHANGED <<tables, txBatch, i, newRows, newScalar, newToken, txAcked>>
  BY DEF InsertApplied, PgInv, PgTypes
<1>2. /\ txBatch[w] \in Batches /\ txBatch[w] \in Seq(Commits) /\ i[w] \in 1..Len(txBatch[w])
      /\ e \in Commits /\ e = txBatch[w][i[w]] /\ t \in {"fence", "update"}
  BY <1>1, EntryType
<1>3. PgTypes'
  <2>1. a \in SUBSET Commits BY <1>2 DEF PgInv, PgTypes
  <2> HIDE DEF e, t, a
  <2> QED BY <1>1, <1>2, <2>1 DEF PgInv, PgTypes, tables
<1>4. TxInv'
  <2>0. /\ txBatch' = [txBatch EXCEPT ![w] = txBatch[w]] /\ i' = [i EXCEPT ![w] = i[w]]
        /\ pgApplied' = pgApplied
    BY <1>1 DEF tables, PgInv, PgTypes
  <2>1. /\ newApplied[w] \subseteq EntriesOf(txBatch[w])
        /\ Inserted("insert", txBatch[w], i[w]) \subseteq pgApplied \cup newApplied[w]
    BY <1>1 DEF PgInv, TxInv, TxPart
  <2>2. a \subseteq EntriesOf(txBatch[w]) BY <1>2, <2>1 DEF EntriesOf
  <2>3. Inserted(t, txBatch[w], i[w]) \subseteq Inserted("insert", txBatch[w], i[w]) \cup {e}
    <3> HIDE DEF t, a
    <3> QED BY <1>2 DEF Inserted
  <2>4. Inserted(t, txBatch[w], i[w]) \subseteq pgApplied \cup a BY <2>1, <2>3
  <2>5. TxPart(t, txBatch[w], i[w], a, pgApplied')
    <3> HIDE DEF t, a
    <3> QED BY <1>2, <2>0, <2>2, <2>4 DEF TxPart
  <2> HIDE DEF t, a
  <2> QED BY <1>1, <2>0, <2>5, OtherTransactions DEF PgInv
<1>5. BatchesAtomic' BY <1>1 DEF PgInv, BatchesAtomic, tables
<1> QED BY <1>3, <1>4, <1>5 DEF PgInv

\* UPDATE counters SET last_token.
LEMMA UpdateTokenKeeps ==
    ASSUME PgInv, NEW w \in Writers, UpdateToken(w)
    PROVE  PgInv'
<1> DEFINE k == KeyOf[Entry(w)]
           token == TokenOf[Entry(w)]
<1>1. /\ tpc[w] = "fence" /\ tpc' = [tpc EXCEPT ![w] = "update"]
      /\ newToken' = newToken \/ newToken' = [newToken EXCEPT ![w][k] = token]
      /\ UNCHANGED <<tables, txBatch, i, newRows, newApplied, newScalar, txAcked>>
  BY DEF UpdateToken
<1>2. /\ txBatch[w] \in Batches /\ i[w] \in 1..Len(txBatch[w]) /\ k \in Keys /\ token \in Nat
  BY <1>1, EntryType
<1>3. PgTypes'
  <2> HIDE DEF k, token
  <2>1. newToken' \in [Writers -> [Keys -> Nat]]
    <3>1. newToken \in [Writers -> [Keys -> Nat]] /\ newToken[w] \in [Keys -> Nat] BY DEF PgInv, PgTypes
    <3>2. [newToken[w] EXCEPT ![k] = token] \in [Keys -> Nat] BY <3>1, <1>2
    <3>3. \/ newToken' = newToken
          \/ newToken' = [newToken EXCEPT ![w] = [newToken[w] EXCEPT ![k] = token]]
      BY <1>1, <3>1
    <3> QED BY <3>1, <3>2, <3>3
  <2> QED BY <1>1, <2>1 DEF PgInv, PgTypes, tables
<1>4. TxInv'
  <2>0. /\ txBatch' = [txBatch EXCEPT ![w] = txBatch[w]] /\ i' = [i EXCEPT ![w] = i[w]]
        /\ newApplied' = [newApplied EXCEPT ![w] = newApplied[w]] /\ pgApplied' = pgApplied
    BY <1>1 DEF tables, PgInv, PgTypes
  <2>1. TxPart("fence", txBatch[w], i[w], newApplied[w], pgApplied) BY <1>1 DEF PgInv, TxInv
  <2>2. TxPart("update", txBatch[w], i[w], newApplied[w], pgApplied') BY <2>0, <2>1 DEF TxPart, Inserted
  <2>3. PgTypes /\ TxInv /\ tpc' = [tpc EXCEPT ![w] = "update"] BY <1>1 DEF PgInv
  <2> HIDE DEF k, token
  <2> QED BY <2>0, <2>2, <2>3, OtherTransactions
<1>5. BatchesAtomic' BY <1>1 DEF PgInv, BatchesAtomic, tables
<1> QED BY <1>3, <1>4, <1>5 DEF PgInv

\* UPDATE counters SET scalar.
LEMMA UpdateScalarKeeps ==
    ASSUME PgInv, NEW w \in Writers, UpdateScalar(w)
    PROVE  PgInv'
<1> DEFINE k == KeyOf[Entry(w)]
           v == VecOf[Entry(w)]
           t == IF i[w] = Len(txBatch[w]) THEN "commit" ELSE "insert"
<1>1. /\ tpc[w] = "update" /\ tpc' = [tpc EXCEPT ![w] = t] /\ i' = [i EXCEPT ![w] = i[w] + 1]
      /\ newScalar' = newScalar \/ newScalar' = [newScalar EXCEPT ![w][k] = newScalar[w][k] - v]
      /\ UNCHANGED <<tables, txBatch, newRows, newApplied, newToken, txAcked>>
  BY DEF UpdateScalar, PgInv, PgTypes
<1>2. /\ txBatch[w] \in Batches /\ txBatch[w] \in Seq(Commits) /\ i[w] \in 1..Len(txBatch[w])
      /\ k \in Keys /\ v \in Int /\ t \in {"commit", "insert"}
  BY <1>1, EntryType
<1>3. PgTypes'
  <2> HIDE DEF k, v, t
  <2>1. newScalar' \in [Writers -> [Keys -> Int]]
    <3>1. /\ newScalar \in [Writers -> [Keys -> Int]] /\ newScalar[w] \in [Keys -> Int]
          /\ newScalar[w][k] - v \in Int
      BY <1>2 DEF PgInv, PgTypes
    <3>2. [newScalar[w] EXCEPT ![k] = newScalar[w][k] - v] \in [Keys -> Int] BY <3>1
    <3>3. \/ newScalar' = newScalar
          \/ newScalar' = [newScalar EXCEPT ![w] = [newScalar[w] EXCEPT ![k] = newScalar[w][k] - v]]
      BY <1>1, <3>1
    <3> QED BY <3>1, <3>2, <3>3
  <2>2. tpc' \in [Writers -> {"idle", "create", "insert", "fence", "update", "commit"}]
    BY <1>1, <1>2 DEF PgInv, PgTypes
  <2>3. i' \in [Writers -> Nat] BY <1>1 DEF PgInv, PgTypes
  <2> QED BY <1>1, <2>1, <2>2, <2>3 DEF PgInv, PgTypes, tables
<1>4. TxInv'
  <2>0. /\ txBatch' = [txBatch EXCEPT ![w] = txBatch[w]]
        /\ newApplied' = [newApplied EXCEPT ![w] = newApplied[w]] /\ pgApplied' = pgApplied
    BY <1>1 DEF tables, PgInv, PgTypes
  <2>1. TxPart("update", txBatch[w], i[w], newApplied[w], pgApplied) BY <1>1 DEF PgInv, TxInv
  <2>2. Inserted(t, txBatch[w], i[w] + 1) \subseteq Inserted("update", txBatch[w], i[w])
    BY <1>2 DEF Inserted
  <2>3. t # "idle" /\ (t = "insert" => i[w] + 1 \in 1..Len(txBatch[w])) BY <1>2
  <2>4. TxPart(t, txBatch[w], i[w] + 1, newApplied[w], pgApplied')
    <3> HIDE DEF t
    <3> QED BY <1>2, <2>0, <2>1, <2>2, <2>3 DEF TxPart
  <2> HIDE DEF t
  <2> QED BY <1>1, <2>0, <2>4, OtherTransactions DEF PgInv
<1>5. BatchesAtomic' BY <1>1 DEF PgInv, BatchesAtomic, tables
<1> QED BY <1>3, <1>4, <1>5 DEF PgInv

\* COMMIT and ROLLBACK leave nothing of the transaction behind.
LEMMA EndTxKeeps ==
    ASSUME PgTypes, TxInv, NEW w \in Writers, EndTx(w), pgApplied \subseteq pgApplied'
    PROVE  /\ TxInv'
           /\ tpc' \in [Writers -> {"idle", "create", "insert", "fence", "update", "commit"}]
           /\ txBatch' \in [Writers -> Seq(Commits)] /\ i' \in [Writers -> Nat]
           /\ newRows' \in [Writers -> SUBSET Keys] /\ newApplied' \in [Writers -> SUBSET Commits]
           /\ newScalar' \in [Writers -> [Keys -> Int]] /\ newToken' \in [Writers -> [Keys -> Nat]]
<1>1. Inserted("idle", <<>>, 0) = {} BY DEF Inserted
<1>2. TxPart("idle", <<>>, 0, {}, pgApplied') BY <1>1 DEF TxPart
<1>3. TxInv' BY <1>2, OtherTransactions DEF EndTx
<1>4. <<>> \in Seq(Commits) /\ [k \in Keys |-> 0] \in [Keys -> Int] /\ [k \in Keys |-> 0] \in [Keys -> Nat]
  OBVIOUS
<1> QED BY <1>3, <1>4 DEF EndTx, PgTypes

\* COMMIT publishes a whole transaction, whether or not its answer arrives.
LEMMA CommitTxKeeps ==
    ASSUME PgInv, NEW w \in Writers, CommitTx(w)
    PROVE  PgInv'
<1>1. /\ tpc[w] = "commit" /\ EndTx(w)
      /\ rows' = rows \cup newRows[w] /\ pgApplied' = pgApplied \cup newApplied[w]
      /\ pgScalar' = [k \in Keys |-> pgScalar[k] + newScalar[w][k]]
      /\ lastToken' = [k \in Keys |-> MaxOf(lastToken[k], newToken[w][k])]
      /\ \/ txAcked' = txAcked
         \/ txAcked' = txAcked \cup EntriesOf(txBatch[w])
  BY DEF CommitTx, EntriesOf
<1>2. /\ txBatch[w] \in Batches /\ newApplied[w] \subseteq EntriesOf(txBatch[w])
      /\ EntriesOf(txBatch[w]) \subseteq pgApplied \cup newApplied[w]
  BY <1>1 DEF PgInv, TxInv, TxPart, Inserted, EntriesOf
<1>3. EntriesOf(txBatch[w]) \subseteq Commits BY DEF PgInv, PgTypes, EntriesOf
<1>4. PgTypes'
  <2>1. rows' \in SUBSET Keys /\ pgApplied' \in SUBSET Commits /\ txAcked' \in SUBSET Commits
    BY <1>1, <1>3 DEF PgInv, PgTypes
  <2>2. pgScalar' \in [Keys -> Int] BY <1>1 DEF PgInv, PgTypes
  <2>3. lastToken' \in [Keys -> Nat] BY <1>1 DEF PgInv, PgTypes, MaxOf
  <2> QED BY <1>1, <2>1, <2>2, <2>3, EndTxKeeps DEF PgInv, PgTypes
<1>5. TxInv' BY <1>1, EndTxKeeps DEF PgInv
<1>6. BatchesAtomic'
  <2>1. txAcked' \subseteq pgApplied' BY <1>1, <1>2 DEF PgInv, BatchesAtomic
  <2>2. ASSUME NEW c \in pgApplied'
        PROVE  \E B \in Batches : c \in EntriesOf(B) /\ EntriesOf(B) \subseteq pgApplied'
    <3>1. CASE c \in pgApplied BY <1>1, <3>1 DEF PgInv, BatchesAtomic
    <3>2. CASE c \in newApplied[w] BY <1>1, <1>2, <3>2
    <3> QED BY <1>1, <3>1, <3>2
  <2> QED BY <2>1, <2>2 DEF BatchesAtomic
<1> QED BY <1>4, <1>5, <1>6 DEF PgInv

\* A rollback leaves the tables as they were.
LEMMA RollbackKeeps ==
    ASSUME PgInv, NEW w \in Writers, Rollback(w)
    PROVE  PgInv'
<1>1. EndTx(w) /\ UNCHANGED <<rows, pgScalar, lastToken, pgApplied, txAcked>> BY DEF Rollback, tables
<1>2. TxInv' /\ PgTypes' BY <1>1, EndTxKeeps DEF PgInv, PgTypes
<1>3. BatchesAtomic' BY <1>1 DEF PgInv, BatchesAtomic
<1> QED BY <1>2, <1>3 DEF PgInv

-----------------------------------------------------------------------------
(* The loop of CommitBatch.                                                *)

\* A step of Postgres, and the other way round.
LEMMA LoopStays ==
    ASSUME LoopInv, WrittenInv, MarkerInv, TopicInv, UNCHANGED <<adapter, loopVars, redisVars, topic>>
    PROVE  LoopInv' /\ WrittenInv' /\ MarkerInv' /\ TopicInv'
<1>1. UNCHANGED <<adapter, wpc, batch, left, call, stable, calls, errors, acked, scalar, markers, applied, topic>>
  BY DEF loopVars, redisVars
<1>2. Published' = Published BY <1>1 DEF Published
<1>3. LoopInv' BY <1>1 DEF LoopInv
<1>4. WrittenInv' BY <1>1, <1>2 DEF WrittenInv, Written, CommitID
<1>5. MarkerInv' BY <1>1 DEF MarkerInv, Marker, CommitID
<1>6. TopicInv' BY <1>1, <1>2 DEF TopicInv, CommitID
<1> QED BY <1>3, <1>4, <1>5, <1>6

\* The other adapters do not touch the tables of Postgres.
LEMMA PgStays ==
    ASSUME PgInv, UNCHANGED pgVars
    PROVE  PgInv'
<1>1. UNCHANGED <<rows, pgScalar, lastToken, pgApplied, tpc, txBatch, i, newRows, newApplied, newScalar,
                  newToken, txAcked>>
  BY DEF pgVars, tables, txVars
<1> QED BY <1>1 DEF PgInv, PgTypes, TxInv, BatchesAtomic

\* A CommitID in use is one of the bounded set.
LEMMA CommitIDType ==
    ASSUME LoopInv, NEW w \in Writers, NEW c \in Commits
    PROVE  CommitID(w, c) \in CommitIDs /\ CommitID(w, c)[1] = c /\ CommitID(w, c)[2] <= calls
<1>1. call[w] \in 0..MaxCalls /\ call[w] <= calls BY CommitAssumption DEF LoopInv
<1> QED BY <1>1 DEF CommitID, CommitIDs

\* CommitBatch begins, for the first time or once more.
LEMMA SendKeeps ==
    ASSUME LoopInv, WrittenInv, MarkerInv, TopicInv,
           NEW w \in Writers, NEW B \in SUBSET Commits, adapter # "postgres", wpc[w] # "sending",
           stable => \A c \in B : <<c, 0>> \in applied => <<KeyOf[c], <<c, 0>>>> \in markers,
           Send(w, B), UNCHANGED <<redisVars, topic>>
    PROVE  LoopInv' /\ WrittenInv' /\ MarkerInv' /\ TopicInv'
<1>1. /\ calls' = IF stable THEN calls ELSE calls + 1
      /\ stable \/ calls < MaxCalls
      /\ wpc' = [wpc EXCEPT ![w] = "sending"] /\ batch' = [batch EXCEPT ![w] = B]
      /\ left' = [left EXCEPT ![w] = B] /\ call' = [call EXCEPT ![w] = calls']
      /\ UNCHANGED <<adapter, stable, errors, acked, scalar, markers, applied, topic>>
  BY DEF Send, redisVars
<1>2. /\ calls \in Nat /\ calls' \in 0..MaxCalls /\ calls <= calls' /\ (stable => calls' = 0)
      /\ (~stable => calls' = calls + 1)
  BY <1>1, CommitAssumption DEF LoopInv
<1>3. /\ wpc'[w] = "sending" /\ batch'[w] = B /\ left'[w] = B /\ call'[w] = calls'
      /\ \A u \in Writers : u # w => /\ wpc'[u] = wpc[u] /\ batch'[u] = batch[u] /\ left'[u] = left[u]
                                     /\ call'[u] = call[u]
  BY <1>1 DEF LoopInv
<1>4. \A u \in Writers : call[u] \in Nat /\ call[u] <= calls BY DEF LoopInv
<1>5. LoopInv'
  <2>1. /\ wpc' \in [Writers -> {"idle", "sending", "failed"}]
        /\ batch' \in [Writers -> SUBSET Commits] /\ left' \in [Writers -> SUBSET Commits]
        /\ call' \in [Writers -> Nat]
    BY <1>1, <1>2 DEF LoopInv
  <2>2. ASSUME NEW u \in Writers
        PROVE  /\ call'[u] <= calls' /\ left'[u] \subseteq batch'[u]
               /\ wpc'[u] = "idle" => batch'[u] = {}
               /\ adapter' = "postgres" => wpc'[u] = "idle"
    <3>1. CASE u = w BY <1>1, <1>2, <1>3, <3>1
    <3>2. CASE u # w BY <1>1, <1>2, <1>3, <1>4, <3>2 DEF LoopInv
    <3> QED BY <3>1, <3>2
  <2> QED BY <1>1, <1>2, <2>1, <2>2 DEF LoopInv
<1>6. Published' = Published /\ Written' = Written BY <1>1 DEF Published, Written
<1>7. WrittenInv'
  <2>1. ASSUME NEW u \in Writers, NEW c \in batch'[u] \ left'[u] PROVE <<c, call'[u]>> \in Written
    <3>1. u # w BY <1>3
    <3> QED BY <1>3, <3>1 DEF WrittenInv, CommitID
  <2> QED BY <1>1, <1>6, <2>1 DEF WrittenInv, CommitID
<1>8. MarkerInv'
  <2>1. \A id \in applied : id[2] <= calls'
    <3>1. \A id \in applied : id[2] \in Nat /\ id[2] <= calls BY DEF MarkerInv, CommitIDs
    <3> QED BY <1>2, <3>1
  <2>2. ASSUME NEW u \in Writers, NEW c \in batch'[u], <<c, call'[u]>> \in applied
        PROVE  <<KeyOf[c], <<c, call'[u]>>>> \in markers
    <3>1. CASE u # w BY <1>3, <2>2, <3>1 DEF MarkerInv, Marker, CommitID
    <3>2. CASE u = w /\ stable BY <1>2, <1>3, <2>2, <3>2
    <3>3. CASE u = w /\ ~stable
      <4>1. <<c, calls + 1>> \in applied BY <1>2, <1>3, <2>2, <3>3
      <4>2. <<c, calls + 1>>[2] <= calls BY <4>1 DEF MarkerInv
      <4> QED BY <1>2, <4>2
    <3> QED BY <3>1, <3>2, <3>3
  <2> QED BY <1>1, <2>1, <2>2 DEF MarkerInv, Marker, CommitID
<1>9. TopicInv'
  <2>1. \A id \in Published : id[2] \in Nat /\ id[2] <= calls
    <3>1. \A p \in Partitions : topic[p] \in Seq(CommitIDs) BY DEF TopicInv
    <3>2. Published \subseteq CommitIDs BY <3>1 DEF Published
    <3> QED BY <3>2 DEF TopicInv, CommitIDs
  <2>2. \A id \in Published : id[2] <= calls' BY <1>2, <2>1
  <2>3. ASSUME adapter = "kafka", ~stable, NEW u \in Writers, wpc'[u] = "sending"
        PROVE  /\ \A c \in left'[u] : <<c, call'[u]>> \notin Published
               /\ \A v \in Writers : wpc'[v] = "sending" /\ v # u => call'[v] # call'[u]
    <3>1. \A c \in left'[u] : <<c, call'[u]>> \notin Published
      <4>1. CASE u # w BY <1>3, <2>3, <4>1 DEF TopicInv, CommitID
      <4>2. CASE u = w
        <5>1. \A c : <<c, calls + 1>> \notin Published BY <1>2, <2>1
        <5> QED BY <1>2, <1>3, <2>3, <4>2, <5>1
      <4> QED BY <4>1, <4>2
    <3>2. ASSUME NEW v \in Writers, wpc'[v] = "sending", v # u PROVE call'[v] # call'[u]
      <4>1. CASE u # w /\ v # w BY <1>3, <2>3, <3>2, <4>1 DEF TopicInv
      <4>2. CASE u = w \/ v = w BY <1>2, <1>3, <1>4, <2>3, <3>2, <4>2
      <4> QED BY <4>1, <4>2
    <3> QED BY <3>1, <3>2
  <2> QED BY <1>1, <1>6, <2>2, <2>3 DEF TopicInv, CommitID
<1> QED BY <1>5, <1>7, <1>8, <1>9

\* A call of the client ends: the loop's own state.
LEMMA ClientCall ==
    ASSUME LoopInv, NEW w \in Writers, NEW c, Sent(w, c) \/ Failed(w, c)
    PROVE  /\ LoopInv' /\ c \in batch[w] /\ c \in Commits /\ c \in left[w] /\ wpc[w] = "sending"
           /\ UNCHANGED <<adapter, batch, call, stable, calls, acked>>
           /\ wpc'[w] = "sending" => c \notin left'[w]
           /\ \A u \in Writers : /\ left'[u] \subseteq left[u] /\ left[u] \ {c} \subseteq left'[u]
                                 /\ u # w => left'[u] = left[u] /\ wpc'[u] = wpc[u]
                                 /\ wpc'[u] = "sending" => wpc[u] = "sending"
           /\ c \notin left'[w] => Sent(w, c)
<1>1. c \in left[w] /\ wpc[w] = "sending" /\ UNCHANGED <<adapter, batch, call, stable, calls, acked>>
  BY DEF Sent, Failed
<1>2. c \in batch[w] /\ c \in Commits BY <1>1 DEF LoopInv
<1>3. CASE Sent(w, c)
  <2>1. left' = [left EXCEPT ![w] = @ \ {c}] /\ UNCHANGED <<wpc, errors>> BY <1>3 DEF Sent
  <2>2. left'[w] = left[w] \ {c} /\ \A u \in Writers : u # w => left'[u] = left[u] BY <2>1 DEF LoopInv
  <2>3. left' \in [Writers -> SUBSET Commits] BY <2>1 DEF LoopInv
  <2>4. LoopInv' BY <1>1, <2>1, <2>2, <2>3 DEF LoopInv
  <2> QED BY <1>1, <1>2, <1>3, <2>1, <2>2, <2>4
<1>4. CASE Failed(w, c)
  <2>1. /\ wpc' = [wpc EXCEPT ![w] = "failed"] /\ left' = left /\ errors < MaxErrors /\ errors' = errors + 1
    BY <1>4 DEF Failed
  <2>2. wpc'[w] = "failed" /\ \A u \in Writers : u # w => wpc'[u] = wpc[u] BY <2>1 DEF LoopInv
  <2>3. wpc' \in [Writers -> {"idle", "sending", "failed"}] BY <2>1 DEF LoopInv
  <2>4. errors' \in 0..MaxErrors BY <2>1, CommitAssumption DEF LoopInv
  <2>5. LoopInv' BY <1>1, <2>1, <2>2, <2>3, <2>4 DEF LoopInv
  <2> QED BY <1>1, <1>2, <2>1, <2>2, <2>5
<1> QED BY <1>3, <1>4

\* One run of the Lua script, whose answer may be an error: it applies a commit that was
\* not applied, or does nothing.
LEMMA ScriptOnce ==
    ASSUME LoopInv, MarkerInv, NEW w \in Writers, NEW c \in batch[w], Script(w, c)
    PROVE  /\ CommitID(w, c) \in applied' /\ Marker(w, c) \in markers'
           /\ \/ UNCHANGED redisVars
              \/ /\ CommitID(w, c) \notin applied /\ applied' = applied \cup {CommitID(w, c)}
                 /\ markers' = markers \cup {Marker(w, c)}
                 /\ scalar' = [scalar EXCEPT ![KeyOf[c]] = @ - VecOf[c]]
<1>1. CASE Marker(w, c) \in markers
  <2>1. UNCHANGED redisVars BY <1>1 DEF Script
  <2>2. CommitID(w, c) \in applied BY <1>1 DEF MarkerInv, Marker
  <2> QED BY <1>1, <2>1, <2>2 DEF redisVars
<1>2. CASE Marker(w, c) \notin markers
  BY <1>2 DEF Script, Decrement, MarkerInv
<1> QED BY <1>1, <1>2

\* One script of Redis, with its reply or without.
LEMMA EvalKeeps ==
    ASSUME LoopInv, WrittenInv, MarkerInv, TopicInv, NEW w \in Writers, NEW c,
           Eval(w, c) \/ EvalError(w, c), UNCHANGED topic
    PROVE  LoopInv' /\ WrittenInv' /\ MarkerInv' /\ TopicInv'
<1> DEFINE id == CommitID(w, c)
<1>0. ~(Sent(w, c) /\ Failed(w, c))
  <2>1. Sent(w, c) => wpc'[w] = "sending" BY DEF Sent
  <2>2. Failed(w, c) => wpc'[w] = "failed" BY DEF Failed, LoopInv
  <2> QED BY <2>1, <2>2
<1>1. /\ adapter = "redis" /\ (Sent(w, c) \/ Failed(w, c)) /\ (Script(w, c) \/ UNCHANGED redisVars)
      /\ (Sent(w, c) => Script(w, c))
  BY <1>0 DEF Eval, EvalError
<1>2. /\ LoopInv' /\ c \in batch[w] /\ c \in Commits
      /\ UNCHANGED <<adapter, batch, call, stable, calls, acked>>
      /\ \A u \in Writers : left[u] \ {c} \subseteq left'[u] /\ (u # w => left'[u] = left[u])
      /\ c \notin left'[w] => Script(w, c)
  BY <1>1, ClientCall
<1>3. /\ id \in CommitIDs /\ id[1] = c /\ id[2] <= calls /\ KeyOf[c] \in Keys /\ VecOf[c] \in Int
      /\ Marker(w, c) = <<KeyOf[c], id>> /\ id = <<c, call[w]>>
  BY <1>2, CommitIDType, CommitAssumption DEF Marker, CommitID
<1>4. /\ applied \subseteq applied' /\ applied' \subseteq applied \cup {id}
      /\ markers \subseteq markers' /\ markers' \subseteq markers \cup {<<KeyOf[c], id>>}
      /\ (Script(w, c) => id \in applied')
      /\ \/ applied' = applied /\ markers' = markers
         \/ id \in applied' /\ <<KeyOf[c], id>> \in markers'
      /\ scalar' \in [Keys -> Int]
  <2>1. CASE Script(w, c)
    <3>1. \/ UNCHANGED redisVars
          \/ scalar' = [scalar EXCEPT ![KeyOf[c]] = @ - VecOf[c]]
      BY <1>2, <2>1, ScriptOnce
    <3>2. scalar' \in [Keys -> Int] BY <1>3, <3>1 DEF MarkerInv, redisVars
    <3> HIDE DEF id
    <3> QED BY <1>2, <1>3, <2>1, <3>2, ScriptOnce DEF redisVars, id
  <2>2. CASE UNCHANGED redisVars
    <3>1. Script(w, c) => id \in applied' BY <1>2, ScriptOnce
    <3> QED BY <2>2, <3>1 DEF redisVars, MarkerInv
  <2> QED BY <1>1, <2>1, <2>2
<1> HIDE DEF id
<1>5. WrittenInv'
  <2>1. Written = applied /\ Written' = applied' BY <1>1, <1>2 DEF Written
  <2>2. ASSUME NEW u \in Writers, NEW d \in batch[u] \ left'[u] PROVE <<d, call[u]>> \in applied'
    <3>1. CASE d \notin left[u] BY <1>4, <2>1, <3>1 DEF WrittenInv, CommitID
    <3>2. CASE d \in left[u]
      <4>1. u = w /\ d = c BY <1>2, <2>2, <3>2
      <4>2. id \in applied' BY <1>2, <1>4, <2>2, <4>1
      <4> QED BY <1>3, <4>1, <4>2
    <3> QED BY <3>1, <3>2
  <2> QED BY <1>2, <1>4, <2>1, <2>2 DEF WrittenInv, CommitID
<1>6. MarkerInv'
  <2>1. applied' \subseteq CommitIDs /\ markers' \subseteq Keys \X CommitIDs BY <1>3, <1>4 DEF MarkerInv
  <2>2. \A x \in applied' : x[2] <= calls BY <1>3, <1>4 DEF MarkerInv
  <2>3. \A m \in markers' : m[2] \in applied' BY <1>4 DEF MarkerInv
  <2>4. \A x \in applied' : x \notin acked => <<KeyOf[x[1]], x>> \in markers' BY <1>3, <1>4 DEF MarkerInv
  <2>5. ASSUME NEW u \in Writers, NEW d \in batch[u], <<d, call[u]>> \in applied'
        PROVE  <<KeyOf[d], <<d, call[u]>>>> \in markers'
    <3>1. CASE <<d, call[u]>> \in applied BY <1>4, <3>1 DEF MarkerInv, Marker, CommitID
    <3>2. CASE <<d, call[u]>> \notin applied
      <4>1. <<d, call[u]>> = id /\ <<KeyOf[c], id>> \in markers' BY <1>4, <2>5, <3>2
      <4>2. d = c BY <1>3, <4>1
      <4> QED BY <4>1, <4>2
    <3> QED BY <3>1, <3>2
  <2> QED BY <1>2, <1>4, <2>1, <2>2, <2>3, <2>4, <2>5 DEF MarkerInv, Marker, CommitID
<1>7. TopicInv'
  <2>1. Published' = Published BY DEF Published
  <2>2. adapter' # "kafka" BY <1>1, <1>2
  <2> QED BY <1>2, <2>1, <2>2 DEF TopicInv
<1> QED BY <1>2, <1>5, <1>6, <1>7

\* The messages of the topic after one more.
LEMMA PublishOne ==
    ASSUME TopicInv, NEW w, NEW c, CommitID(w, c) \in CommitIDs, Publish(w, c)
    PROVE  LET id == CommitID(w, c)
               P == PartitionOf[id]
           IN /\ Published' = Published \cup {id} /\ P \in Partitions
              /\ topic' \in [Partitions -> Seq(CommitIDs)]
              /\ topic'[P] = Append(topic[P], id) /\ topic[P] \in Seq(CommitIDs)
              /\ \A p \in Partitions : p # P => topic'[p] = topic[p]
              /\ \A p \in Partitions : \A j \in 1..Len(topic[p]) : topic[p][j] \in Published
<1> DEFINE id == CommitID(w, c)
           P == PartitionOf[id]
<1>1. P \in Partitions BY KafkaAssumption
<1>2. topic \in [Partitions -> Seq(CommitIDs)] /\ topic[P] \in Seq(CommitIDs) BY <1>1 DEF TopicInv
<1>3. topic' = [topic EXCEPT ![P] = Append(topic[P], id)] BY <1>2 DEF Publish
<1> HIDE DEF id, P
<1>0. id \in CommitIDs BY DEF id
<1>4. Append(topic[P], id) \in Seq(CommitIDs) BY <1>0, <1>2
<1>5. /\ topic' \in [Partitions -> Seq(CommitIDs)] /\ topic'[P] = Append(topic[P], id)
      /\ \A p \in Partitions : p # P => topic'[p] = topic[p]
  BY <1>1, <1>2, <1>3, <1>4
<1>6. /\ DOMAIN topic[P] = 1..Len(topic[P]) /\ DOMAIN topic'[P] = 1..(Len(topic[P]) + 1)
      /\ \A j \in 1..Len(topic[P]) : topic'[P][j] = topic[P][j]
      /\ topic'[P][Len(topic[P]) + 1] = id /\ Len(topic[P]) \in Nat
  BY <1>2, <1>5
<1>7. Published' \subseteq Published \cup {id}
  <2> SUFFICES ASSUME NEW p \in Partitions, NEW j \in DOMAIN topic'[p]
               PROVE  topic'[p][j] \in Published \cup {id}
    BY DEF Published
  <2>1. CASE p = P BY <1>1, <1>6, <2>1 DEF Published
  <2>2. CASE p # P BY <1>5, <2>2 DEF Published
  <2> QED BY <2>1, <2>2
<1>8. Published \cup {id} \subseteq Published'
  <2>1. id \in Published'
    <3>1. Len(topic[P]) + 1 \in DOMAIN topic'[P] BY <1>6
    <3> QED BY <1>1, <1>6, <3>1 DEF Published
  <2>2. ASSUME NEW p \in Partitions, NEW j \in DOMAIN topic[p] PROVE topic[p][j] \in Published'
    <3>1. CASE p = P
      <4>1. j \in DOMAIN topic'[p] /\ topic'[p][j] = topic[p][j] BY <1>6, <3>1
      <4> QED BY <4>1 DEF Published
    <3>2. CASE p # P BY <1>5, <3>2 DEF Published
    <3> QED BY <3>1, <3>2
  <2> QED BY <2>1, <2>2 DEF Published
<1>9. \A p \in Partitions : \A j \in 1..Len(topic[p]) : topic[p][j] \in Published
  <2>1. \A p \in Partitions : DOMAIN topic[p] = 1..Len(topic[p]) BY <1>2
  <2> QED BY <2>1 DEF Published
<1> QED BY <1>1, <1>2, <1>5, <1>7, <1>8, <1>9 DEF id, P

\* One message of Kafka, with its reply or without.
LEMMA ProduceKeeps ==
    ASSUME LoopInv, WrittenInv, MarkerInv, TopicInv, NEW w \in Writers, NEW c,
           Produce(w, c) \/ ProduceError(w, c), UNCHANGED redisVars
    PROVE  LoopInv' /\ WrittenInv' /\ MarkerInv' /\ TopicInv'
<1> DEFINE id == CommitID(w, c)
           P == PartitionOf[id]
<1>0. ~(Sent(w, c) /\ Failed(w, c))
  <2>1. Sent(w, c) => wpc'[w] = "sending" BY DEF Sent
  <2>2. Failed(w, c) => wpc'[w] = "failed" BY DEF Failed, LoopInv
  <2> QED BY <2>1, <2>2
<1>1. /\ adapter = "kafka" /\ (Sent(w, c) \/ Failed(w, c)) /\ (Publish(w, c) \/ UNCHANGED topic)
      /\ (Sent(w, c) => Publish(w, c))
  BY <1>0 DEF Produce, ProduceError
<1>2. /\ LoopInv' /\ c \in batch[w] /\ c \in Commits /\ c \in left[w] /\ wpc[w] = "sending"
      /\ UNCHANGED <<adapter, batch, call, stable, calls, acked>>
      /\ wpc'[w] = "sending" => c \notin left'[w]
      /\ \A u \in Writers : /\ left'[u] \subseteq left[u] /\ left[u] \ {c} \subseteq left'[u]
                            /\ u # w => left'[u] = left[u] /\ wpc'[u] = wpc[u]
                            /\ wpc'[u] = "sending" => wpc[u] = "sending"
      /\ c \notin left'[w] => Publish(w, c)
  BY <1>1, ClientCall
<1>3. id \in CommitIDs /\ id[1] = c /\ id[2] <= calls /\ id = <<c, call[w]>>
  BY <1>2, CommitIDType DEF CommitID
<1>p. /\ \A p \in Partitions : topic[p] \in Seq(CommitIDs)
      /\ \A p \in Partitions : \A j \in 1..Len(topic[p]) : topic[p][j] \in Published
  <2>1. \A p \in Partitions : topic[p] \in Seq(CommitIDs) BY DEF TopicInv
  <2>2. \A p \in Partitions : DOMAIN topic[p] = 1..Len(topic[p]) BY <2>1
  <2> QED BY <2>1, <2>2 DEF Published
<1>4. CASE Publish(w, c)
  <2>1. /\ Published' = Published \cup {id} /\ P \in Partitions
        /\ topic' \in [Partitions -> Seq(CommitIDs)]
        /\ topic'[P] = Append(topic[P], id) /\ topic[P] \in Seq(CommitIDs)
        /\ \A p \in Partitions : p # P => topic'[p] = topic[p]
    BY <1>3, <1>4, PublishOne
  <2> HIDE DEF id
  <2>2. WrittenInv'
    <3>1. Written = Published /\ Written' = Published' BY <1>1, <1>2 DEF Written
    <3>2. ASSUME NEW u \in Writers, NEW d \in batch[u] \ left'[u] PROVE <<d, call[u]>> \in Published'
      <4>1. CASE d \notin left[u] BY <2>1, <3>1, <4>1 DEF WrittenInv, CommitID
      <4>2. CASE d \in left[u]
        <5>1. u = w /\ d = c BY <1>2, <3>2, <4>2
        <5> QED BY <1>3, <2>1, <5>1
      <4> QED BY <4>1, <4>2
    <3> QED BY <1>2, <2>1, <3>1, <3>2 DEF WrittenInv, CommitID
  <2>3. TopicInv'
    <3>1. IsFiniteSet(Published') BY <2>1, FS_AddElement DEF TopicInv
    <3>2. \A x \in Published' : x[2] <= calls BY <1>3, <2>1 DEF TopicInv
    <3>3. \A p \in Partitions : \A j \in 1..Len(topic'[p]) :
              \/ j \in 1..Len(topic[p]) /\ topic'[p][j] = topic[p][j]
              \/ p = P /\ j = Len(topic[p]) + 1 /\ topic'[p][j] = id
      <4> HIDE DEF P
      <4> QED BY <2>1
    <3>4. \A p \in Partitions : \A j \in 1..Len(topic'[p]) : PartitionOf[topic'[p][j]] = p
      BY <3>3 DEF TopicInv
    <3>5. ASSUME ~stable
          PROVE  /\ \A p \in Partitions : \A j, m \in 1..Len(topic'[p]) : j # m => topic'[p][j] # topic'[p][m]
                 /\ \A u \in Writers : wpc'[u] = "sending" =>
                       /\ \A d \in left'[u] : <<d, call[u]>> \notin Published'
                       /\ \A v \in Writers : wpc'[v] = "sending" /\ v # u => call[v] # call[u]
      <4>1. /\ \A p \in Partitions : \A j, m \in 1..Len(topic[p]) : j # m => topic[p][j] # topic[p][m]
            /\ \A u \in Writers : wpc[u] = "sending" =>
                       /\ \A d \in left[u] : <<d, call[u]>> \notin Published
                       /\ \A v \in Writers : wpc[v] = "sending" /\ v # u => call[v] # call[u]
        BY <1>1, <3>5 DEF TopicInv, CommitID
      <4>2. id \notin Published BY <1>2, <1>3, <4>1
      <4>3. ASSUME NEW p \in Partitions, NEW j \in 1..Len(topic'[p]), NEW m \in 1..Len(topic'[p]), j # m
            PROVE  topic'[p][j] # topic'[p][m]
        BY <1>p, <3>3, <4>1, <4>2, <4>3
      <4>4. ASSUME NEW u \in Writers, wpc'[u] = "sending", NEW d \in left'[u]
            PROVE  <<d, call[u]>> \notin Published'
        <5>1. <<d, call[u]>> \notin Published BY <1>2, <4>1, <4>4
        <5>2. CASE u = w
          <6>1. d # c BY <1>2, <4>4, <5>2
          <6> QED BY <1>3, <2>1, <5>1, <6>1
        <5>3. CASE u # w
          <6>1. call[u] # call[w] BY <1>2, <4>1, <4>4, <5>3
          <6> QED BY <1>3, <2>1, <5>1, <6>1
        <5> QED BY <5>2, <5>3
      <4> QED BY <1>2, <4>1, <4>3, <4>4
    <3> QED BY <1>2, <2>1, <3>1, <3>2, <3>4, <3>5 DEF TopicInv, CommitID
  <2>4. MarkerInv' BY <1>2 DEF MarkerInv, Marker, CommitID, redisVars
  <2> QED BY <1>2, <2>2, <2>3, <2>4
<1>5. CASE UNCHANGED topic
  <2>1. Published' = Published /\ Written' = Written BY <1>2, <1>5 DEF Published, Written, redisVars
  <2>2. \A u \in Writers : left'[u] = left[u] \/ Publish(w, c)
    <3>1. c \in left'[w] => left'[w] = left[w] BY <1>2
    <3> QED BY <1>2, <3>1
  <2>3. CASE Publish(w, c) BY <1>4, <2>3
  <2>4. CASE ~Publish(w, c)
    <3>1. \A u \in Writers : left'[u] = left[u] BY <2>2, <2>4
    <3>2. WrittenInv' BY <1>2, <2>1, <3>1 DEF WrittenInv, CommitID
    <3>3. TopicInv' BY <1>2, <1>5, <2>1, <3>1 DEF TopicInv, CommitID
    <3>4. MarkerInv' BY <1>2 DEF MarkerInv, Marker, CommitID, redisVars
    <3> QED BY <1>2, <3>2, <3>3, <3>4
  <2> QED BY <2>3, <2>4
<1> QED BY <1>1, <1>4, <1>5

\* CommitBatch returns nil.
LEMMA ReturnKeeps ==
    ASSUME LoopInv, WrittenInv, MarkerInv, TopicInv, NEW w \in Writers, Return(w),
           UNCHANGED <<redisVars, topic>>
    PROVE  /\ LoopInv' /\ WrittenInv' /\ MarkerInv' /\ TopicInv'
           /\ acked \subseteq acked' /\ acked' \subseteq Written
<1>1. /\ wpc[w] = "sending" /\ left[w] = {} /\ acked' = acked \cup {CommitID(w, c) : c \in batch[w]}
      /\ wpc' = [wpc EXCEPT ![w] = "idle"] /\ batch' = [batch EXCEPT ![w] = {}]
      /\ UNCHANGED <<adapter, left, call, stable, calls, errors, scalar, markers, applied, topic>>
  BY DEF Return, redisVars
<1>2. /\ wpc'[w] = "idle" /\ batch'[w] = {}
      /\ \A u \in Writers : u # w => wpc'[u] = wpc[u] /\ batch'[u] = batch[u]
  BY <1>1 DEF LoopInv
<1>3. \A u \in Writers : batch'[u] \subseteq batch[u] BY <1>2
<1>4. Published' = Published /\ Written' = Written BY <1>1 DEF Published, Written
<1>5. acked \subseteq acked' /\ acked' \subseteq Written BY <1>1 DEF WrittenInv
<1>6. LoopInv'
  <2>1. wpc' \in [Writers -> {"idle", "sending", "failed"}] /\ batch' \in [Writers -> SUBSET Commits]
    BY <1>1 DEF LoopInv
  <2> QED BY <1>1, <1>2, <2>1 DEF LoopInv
<1>7. WrittenInv' BY <1>1, <1>3, <1>4, <1>5 DEF WrittenInv, CommitID
<1>8. MarkerInv' BY <1>1, <1>3, <1>5 DEF MarkerInv, Marker, CommitID
<1>9. TopicInv'
  <2>1. \A u \in Writers : wpc'[u] = "sending" => wpc[u] = "sending" BY <1>2
  <2> QED BY <1>1, <1>4, <2>1 DEF TopicInv, CommitID
<1> QED BY <1>5, <1>6, <1>7, <1>8, <1>9

\* A marker expires only after everybody who sends the commit has returned.
LEMMA ExpireKeeps ==
    ASSUME LoopInv, WrittenInv, MarkerInv, TopicInv, Expire, UNCHANGED topic
    PROVE  LoopInv' /\ WrittenInv' /\ MarkerInv' /\ TopicInv'
<1>1. PICK m \in markers : /\ m[2] \in acked /\ markers' = markers \ {m}
                           /\ \A w \in Writers : \A c \in batch[w] : CommitID(w, c) # m[2]
  BY DEF Expire
<1>2. UNCHANGED <<adapter, wpc, batch, left, call, stable, calls, errors, acked, scalar, applied, topic>>
  BY DEF Expire, loopVars
<1>3. Published' = Published BY <1>2 DEF Published
<1>4. LoopInv' BY <1>2 DEF LoopInv
<1>5. WrittenInv' BY <1>2, <1>3 DEF WrittenInv, Written, CommitID
<1>6. MarkerInv'
  <2>1. \A x \in applied : x \notin acked => <<KeyOf[x[1]], x>> \in markers' BY <1>1 DEF MarkerInv
  <2>2. ASSUME NEW w \in Writers, NEW c \in batch[w], CommitID(w, c) \in applied
        PROVE  Marker(w, c) \in markers'
    <3>1. Marker(w, c) \in markers /\ Marker(w, c)[2] = CommitID(w, c) BY <2>2 DEF MarkerInv, Marker
    <3> QED BY <1>1, <3>1
  <2>3. \A w \in Writers : \A c \in batch[w] :
           CommitID(w, c)' = CommitID(w, c) /\ Marker(w, c)' = Marker(w, c)
    BY <1>2 DEF CommitID, Marker
  <2> QED BY <1>1, <1>2, <2>1, <2>2, <2>3 DEF MarkerInv
<1>7. TopicInv' BY <1>2, <1>3 DEF TopicInv, CommitID
<1> QED BY <1>4, <1>5, <1>6, <1>7

-----------------------------------------------------------------------------
(* The adapters together.                                                  *)

\* The invariant holds when BuildPersister has chosen.
LEMMA AdaptersInvInit == Init => AdaptersInv
<1> SUFFICES ASSUME Init PROVE AdaptersInv OBVIOUS
<1> USE DEF Init, LoopInit, RedisInit, KafkaInit, PgInit
<1>0. Published = {}
  <2>1. \A p \in Partitions : DOMAIN topic[p] = {} OBVIOUS
  <2> QED BY <2>1 DEF Published
<1>1. LoopInv BY CommitAssumption DEF LoopInv
<1>2. WrittenInv BY DEF WrittenInv
<1>3. MarkerInv BY DEF MarkerInv
<1>4. TopicInv BY <1>0, FS_EmptySet DEF TopicInv
<1>5. PgTypes BY DEF PgTypes
<1>6. TxInv
  <2>1. TxPart("idle", <<>>, 0, {}, {}) BY DEF TxPart, Inserted
  <2> QED BY <2>1 DEF TxInv
<1>7. BatchesAtomic BY DEF BatchesAtomic
<1> QED BY <1>1, <1>2, <1>3, <1>4, <1>5, <1>6, <1>7 DEF AdaptersInv, PgInv

\* Every step of every adapter keeps the invariant.
LEMMA AdaptersInvNext == AdaptersInv /\ [Next]_vars => AdaptersInv'
<1> SUFFICES ASSUME AdaptersInv, [Next]_vars PROVE AdaptersInv' OBVIOUS
<1> USE DEF AdaptersInv
<1>1. ASSUME NEW w \in Writers, CommitBatch(w), UNCHANGED <<redisVars, topic, pgVars>> PROVE AdaptersInv'
  <2>1. PICK B \in SUBSET (Commits \ Acknowledged) : Send(w, B) BY <1>1 DEF CommitBatch
  <2>2. adapter # "postgres" /\ wpc[w] # "sending" /\ B \in SUBSET Commits BY <1>1 DEF CommitBatch
  <2>3. \A c \in B : <<c, 0>> \in applied => <<KeyOf[c], <<c, 0>>>> \in markers
    <3> TAKE c \in B
    <3>1. <<c, 0>> \notin acked BY DEF Acknowledged
    <3> QED BY <3>1 DEF MarkerInv
  <2> QED BY <1>1, <2>1, <2>2, <2>3, SendKeeps, PgStays
<1>2. ASSUME NEW w \in Writers, Retry(w), UNCHANGED <<redisVars, topic, pgVars>> PROVE AdaptersInv'
  <2>1. wpc[w] = "failed" /\ Send(w, batch[w]) BY <1>2 DEF Retry
  <2>2. adapter # "postgres" /\ wpc[w] # "sending" /\ batch[w] \in SUBSET Commits BY <2>1 DEF LoopInv
  <2>3. stable => \A c \in batch[w] : <<c, 0>> \in applied => <<KeyOf[c], <<c, 0>>>> \in markers
    <3>1. stable => call[w] = 0 BY DEF LoopInv
    <3> QED BY <3>1 DEF MarkerInv, Marker, CommitID
  <2> QED BY <1>2, <2>1, <2>2, <2>3, SendKeeps, PgStays
<1>3. ASSUME NEW w \in Writers, BeginTx(w), UNCHANGED <<adapter, loopVars, redisVars, topic>>
      PROVE  AdaptersInv'
  BY <1>3, BeginTxKeeps, LoopStays
<1>4. ASSUME NEW w \in Writers, TxStep(w) PROVE AdaptersInv'
  <2>1. UNCHANGED <<adapter, loopVars, redisVars, topic>> BY <1>4 DEF TxStep
  <2>2. PgInv'
    BY <1>4, CreateKeyKeeps, InsertAppliedKeeps, UpdateTokenKeeps, UpdateScalarKeeps, CommitTxKeeps,
       RollbackKeeps
       DEF TxStep, Statement
  <2> QED BY <2>1, <2>2, LoopStays
<1>5. ASSUME NEW w \in Writers, RedisStep(w) PROVE AdaptersInv'
  <2>1. PICK c \in Commits : Eval(w, c) \/ EvalError(w, c) BY <1>5 DEF RedisStep
  <2>2. UNCHANGED <<topic, pgVars>> BY <1>5 DEF RedisStep
  <2> QED BY <2>1, <2>2, EvalKeeps, PgStays
<1>6. ASSUME NEW w \in Writers, KafkaStep(w) PROVE AdaptersInv'
  <2>1. PICK c \in Commits : Produce(w, c) \/ ProduceError(w, c) BY <1>6 DEF KafkaStep
  <2>2. UNCHANGED <<redisVars, pgVars>> BY <1>6 DEF KafkaStep
  <2> QED BY <2>1, <2>2, ProduceKeeps, PgStays
<1>7. ASSUME NEW w \in Writers, ReturnStep(w) PROVE AdaptersInv'
  BY <1>7, ReturnKeeps, PgStays DEF ReturnStep
<1>8. CASE Expire /\ UNCHANGED <<topic, pgVars>> BY <1>8, ExpireKeeps, PgStays
<1>9. CASE UNCHANGED vars
  <2>1. UNCHANGED <<adapter, loopVars, redisVars, topic>> /\ UNCHANGED pgVars BY <1>9 DEF vars
  <2> QED BY <2>1, LoopStays, PgStays
<1> QED BY <1>1, <1>2, <1>3, <1>4, <1>5, <1>6, <1>7, <1>8, <1>9 DEF Next, Finished

\* The invariant holds throughout.
LEMMA AdaptersInductive == Spec => []AdaptersInv
<1> QED BY AdaptersInvInit, AdaptersInvNext, PTL DEF Spec

-----------------------------------------------------------------------------
(* The theorems.                                                           *)

\* Every variable of the adapters keeps its type; in particular the loop of a
\* transaction never reads past the end of its batch.
THEOREM AdaptersTypeCorrect == Spec => []TypeOK
<1>1. AdaptersInv => TypeOK
  <2> SUFFICES ASSUME AdaptersInv PROVE TypeOK OBVIOUS
  <2> USE DEF AdaptersInv
  <2>1. call \in [Writers -> 0..MaxCalls]
    <3>1. \A w \in Writers : call[w] \in 0..MaxCalls BY CommitAssumption DEF LoopInv
    <3>2. call \in [Writers -> Nat] BY DEF LoopInv
    <3> QED BY <3>1, <3>2
  <2>2. Published \subseteq CommitIDs
    <3>1. \A p \in Partitions : topic[p] \in Seq(CommitIDs) BY DEF TopicInv
    <3> QED BY <3>1 DEF Published
  <2>3. acked \subseteq CommitIDs BY <2>2 DEF WrittenInv, Written, MarkerInv
  <2>4. PgTypeOK
    <3>1. ASSUME NEW w \in Writers
          PROVE  /\ txBatch[w] \in Batches \cup {<<>>}
                 /\ tpc[w] \in {"create", "insert", "fence", "update"} => i[w] \in 1..Len(txBatch[w])
      BY DEF PgInv, TxInv, TxPart
    <3> QED BY <3>1 DEF PgInv, PgTypes, PgTypeOK
  <2> QED BY <2>1, <2>2, <2>3, <2>4 DEF LoopInv, MarkerInv, TypeOK
<1> QED BY <1>1, AdaptersInductive, PTL

\* A transaction marks a whole batch or nothing, and CommitBatch returns nil only for
\* marked commits, whatever calls fail, wait for each other or lose an answer.
THEOREM BatchesAreAtomic == Spec => []BatchesAtomic
<1>1. AdaptersInv => BatchesAtomic BY DEF AdaptersInv, PgInv
<1> QED BY <1>1, AdaptersInductive, PTL

\* The scalars that a set of CommitIDs stands for.
ScalarOf(P) ==
    [k \in Keys |-> -SumOver([id \in P |-> VecOf[id[1]]], {id \in P : KeyOf[id[1]] = k})]

\* One more CommitID changes the scalar of its key.
LEMMA ScalarOfMore ==
    ASSUME NEW P \in SUBSET CommitIDs, IsFiniteSet(P), NEW id \in CommitIDs, id \notin P
    PROVE  ScalarOf(P \cup {id}) = [ScalarOf(P) EXCEPT ![KeyOf[id[1]]] = @ - VecOf[id[1]]]
<1> DEFINE Q == P \cup {id}
           f == [x \in P |-> VecOf[x[1]]]
           g == [x \in Q |-> VecOf[x[1]]]
           A(k) == {x \in P : KeyOf[x[1]] = k}
           B(k) == {x \in Q : KeyOf[x[1]] = k}
<1>1. \A x \in CommitIDs : VecOf[x[1]] \in Int /\ KeyOf[x[1]] \in Keys BY CommitAssumption DEF CommitIDs
<1>2. \A k : A(k) \in SUBSET P /\ id \notin A(k) OBVIOUS
<1>3. \A k : IsFiniteSet(A(k))
  <2> HIDE DEF A
  <2> QED BY <1>2, FS_Subset
<1>4. \A x \in P : f[x] = VecOf[x[1]] /\ f[x] \in Int /\ g[x] = f[x] BY <1>1
<1>5. g[id] = VecOf[id[1]] /\ VecOf[id[1]] \in Int BY <1>1
<1>6. \A k : B(k) = IF KeyOf[id[1]] = k THEN A(k) \cup {id} ELSE A(k) OBVIOUS
<1>7. ASSUME NEW k \in Keys
      PROVE  /\ SumOver(f, A(k)) \in Int
             /\ SumOver(g, B(k)) = SumOver(f, A(k)) + (IF KeyOf[id[1]] = k THEN VecOf[id[1]] ELSE 0)
  <2>1. A(k) \in SUBSET P /\ id \notin A(k) /\ IsFiniteSet(A(k)) BY <1>2, <1>3
  <2> HIDE DEF A, B, f, g, Q
  <2>2. SumOver(f, A(k)) \in Int BY <2>1, <1>4, SumType
  <2>3. SumOver(g, A(k)) = SumOver(f, A(k)) BY <2>1, <1>4, SumSame
  <2>4. \A y \in A(k) \cup {id} : g[y] \in Int BY <2>1, <1>4, <1>5
  <2>5. SumOver(g, A(k) \cup {id}) = g[id] + SumOver(g, A(k)) BY <2>1, <2>4, SumInsert
  <2>6. CASE KeyOf[id[1]] = k
    <3>1. B(k) = A(k) \cup {id} BY <1>6, <2>6
    <3> QED BY <1>5, <2>2, <2>3, <2>5, <2>6, <3>1
  <2>7. CASE KeyOf[id[1]] # k
    <3>1. B(k) = A(k) BY <1>6, <2>7
    <3> QED BY <2>2, <2>3, <2>7, <3>1
  <2> QED BY <2>6, <2>7
<1>8. ScalarOf(P) = [k \in Keys |-> -SumOver(f, A(k))] /\ ScalarOf(Q) = [k \in Keys |-> -SumOver(g, B(k))]
  BY DEF ScalarOf
<1>9. KeyOf[id[1]] \in Keys BY <1>1
<1> HIDE DEF A, B, f, g
<1> QED BY <1>5, <1>7, <1>8, <1>9

\* Redis and the topic of Kafka keep the contract of types.go: a CommitID that is sent
\* again, after an error or by another process, counts once, and CommitBatch returns nil
\* only for what was written.
THEOREM AdaptersImplementLedger == Spec => ImplementsLedger
<1>1. Init => Contract!LedgerInit
  <2> SUFFICES ASSUME Init PROVE Contract!LedgerInit OBVIOUS
  <2> USE DEF Init, LoopInit, RedisInit, KafkaInit
  <2>1. Published = {}
    <3>1. \A p \in Partitions : DOMAIN topic[p] = {} OBVIOUS
    <3> QED BY <3>1 DEF Published
  <2>2. TopicScalar = [k \in Keys |-> 0]
    <3>1. \A k \in Keys : {id \in Published : KeyOf[id[1]] = k} = {} BY <2>1
    <3>2. \A k \in Keys :
             SumOver([id \in Published |-> VecOf[id[1]]], {id \in Published : KeyOf[id[1]] = k}) = 0
      BY <3>1, SumEmpty
    <3> QED BY <3>2 DEF TopicScalar
  <2> QED BY <2>1, <2>2 DEF Contract!LedgerInit
<1>2. AdaptersInv /\ [Next]_vars => [Contract!LedgerNext]_(Contract!ledgerVars)
  <2> DEFINE Same == UNCHANGED <<IF adapter = "kafka" THEN TopicScalar ELSE scalar, Written, acked>>
  <2> SUFFICES ASSUME AdaptersInv, [Next]_vars PROVE Contract!LedgerNext \/ Same
    BY DEF Contract!ledgerVars, Written
  <2> USE DEF AdaptersInv
  <2>k. \A id \in CommitIDs : KeyOf[id[1]] \in Keys /\ VecOf[id[1]] \in Int
    BY CommitAssumption DEF CommitIDs
  <2>1. ASSUME UNCHANGED <<adapter, scalar, applied, acked, topic>> PROVE Same
    <3>1. UNCHANGED Published BY <2>1 DEF Published
    <3>2. UNCHANGED TopicScalar BY <3>1 DEF TopicScalar
    <3> QED BY <2>1, <3>1, <3>2 DEF Written
  <2>2. ASSUME NEW w \in Writers, CommitBatch(w) \/ Retry(w), UNCHANGED <<redisVars, topic, pgVars>>
        PROVE  Same
    BY <2>1, <2>2 DEF CommitBatch, Retry, Send, redisVars
  <2>3. ASSUME NEW w \in Writers, RedisStep(w) PROVE Contract!LedgerNext \/ Same
    <3>1. PICK c \in Commits : Eval(w, c) \/ EvalError(w, c) BY <2>3 DEF RedisStep
    <3>2. UNCHANGED topic BY <2>3 DEF RedisStep
    <3>3. /\ adapter = "redis" /\ (Sent(w, c) \/ Failed(w, c))
          /\ Script(w, c) \/ UNCHANGED redisVars
      BY <3>1 DEF Eval, EvalError
    <3>4. c \in batch[w] /\ UNCHANGED <<adapter, acked>> BY <3>3, ClientCall
    <3>5. CASE UNCHANGED redisVars BY <2>1, <3>2, <3>4, <3>5 DEF redisVars
    <3>6. CASE Script(w, c) /\ ~UNCHANGED redisVars
      <4> DEFINE id == CommitID(w, c)
      <4>1. id \in CommitIDs /\ id[1] = c BY <3>4, CommitIDType
      <4>2. /\ id \notin applied /\ applied' = applied \cup {id}
            /\ scalar' = [scalar EXCEPT ![KeyOf[c]] = @ - VecOf[c]]
        BY <3>4, <3>6, ScriptOnce
      <4> HIDE DEF id
      <4>3. Contract!Apply(id)
        BY <3>3, <3>4, <4>1, <4>2 DEF Contract!Apply
      <4> QED BY <4>1, <4>3 DEF Contract!LedgerNext
    <3> QED BY <3>3, <3>5, <3>6
  <2>4. ASSUME NEW w \in Writers, KafkaStep(w) PROVE Contract!LedgerNext \/ Same
    <3>1. PICK c \in Commits : Produce(w, c) \/ ProduceError(w, c) BY <2>4 DEF KafkaStep
    <3>2. UNCHANGED redisVars BY <2>4 DEF KafkaStep
    <3>3. /\ adapter = "kafka" /\ (Sent(w, c) \/ Failed(w, c))
          /\ Publish(w, c) \/ UNCHANGED topic
      BY <3>1 DEF Produce, ProduceError
    <3>4. c \in batch[w] /\ UNCHANGED <<adapter, acked>> BY <3>3, ClientCall
    <3>5. CASE UNCHANGED topic BY <2>1, <3>2, <3>4, <3>5 DEF redisVars
    <3>6. CASE Publish(w, c)
      <4> DEFINE id == CommitID(w, c)
      <4>1. id \in CommitIDs /\ id[1] = c BY <3>4, CommitIDType
      <4>2. Published' = Published \cup {id} BY <3>6, <4>1, PublishOne
      <4>3. Published \in SUBSET CommitIDs /\ IsFiniteSet(Published)
        <5>1. \A p \in Partitions : topic[p] \in Seq(CommitIDs) BY DEF TopicInv
        <5> QED BY <5>1 DEF Published, TopicInv
      <4>4. TopicScalar = ScalarOf(Published) /\ TopicScalar' = ScalarOf(Published')
        BY DEF TopicScalar, ScalarOf
      <4> HIDE DEF id
      <4>5. CASE id \in Published
        <5>1. Published' = Published BY <4>2, <4>5
        <5> QED BY <3>3, <3>4, <4>4, <5>1 DEF Written
      <4>6. CASE id \notin Published
        <5>1. TopicScalar' = [TopicScalar EXCEPT ![KeyOf[id[1]]] = @ - VecOf[id[1]]]
          BY <4>1, <4>2, <4>3, <4>4, <4>6, ScalarOfMore
        <5>2. Contract!Apply(id) BY <3>3, <3>4, <4>1, <4>2, <4>6, <5>1 DEF Contract!Apply
        <5> QED BY <4>1, <5>2 DEF Contract!LedgerNext
      <4> QED BY <4>5, <4>6
    <3> QED BY <3>3, <3>5, <3>6
  <2>5. ASSUME NEW w \in Writers, ReturnStep(w) PROVE Contract!LedgerNext
    <3>1. Return(w) /\ UNCHANGED <<redisVars, topic>> BY <2>5 DEF ReturnStep
    <3>2. acked \subseteq acked' /\ acked' \subseteq Written BY <3>1, ReturnKeeps
    <3>3. UNCHANGED <<adapter, scalar, applied, topic>> BY <3>1 DEF Return, redisVars
    <3>4. UNCHANGED Published BY <3>3 DEF Published
    <3>5. UNCHANGED TopicScalar BY <3>4 DEF TopicScalar
    <3>6. Contract!Acknowledge BY <3>2, <3>3, <3>4, <3>5 DEF Contract!Acknowledge, Written
    <3> QED BY <3>6 DEF Contract!LedgerNext
  <2>6. ASSUME NEW w \in Writers,
               (BeginTx(w) /\ UNCHANGED <<adapter, loopVars, redisVars, topic>>) \/ TxStep(w)
        PROVE  Same
    BY <2>1, <2>6 DEF TxStep, loopVars, redisVars
  <2>7. CASE Expire /\ UNCHANGED <<topic, pgVars>> BY <2>1, <2>7 DEF Expire, loopVars
  <2>8. CASE UNCHANGED vars BY <2>1, <2>8 DEF vars, loopVars, redisVars
  <2> QED BY <2>2, <2>3, <2>4, <2>5, <2>6, <2>7, <2>8 DEF Next, Finished
<1> QED BY <1>1, <1>2, AdaptersInductive, PTL DEF ImplementsLedger, Contract!LedgerSpec, Spec

-----------------------------------------------------------------------------
(* The consumer of the topic.                                              *)

\* How many of the first j messages that a consumer reads are from the partition of the
\* j-th one.
UpTo(f, j) == {m \in 1..j : f[m] = f[j]}

\* The positions of a sequence.
LEMMA FirstNumbers ==
    ASSUME NEW n \in Nat
    PROVE  IsFiniteSet(1..n) /\ Cardinality(1..n) = n
<1>1. IsFiniteSet(1..n) /\ Cardinality(1..n) = IF 1 > n THEN 0 ELSE n - 1 + 1 BY FS_Interval
<1> QED BY <1>1

\* A consumer that reads every partition in its order gets each message once.
LEMMA ReadsEachOnce ==
    ASSUME TopicInv, adapter = "kafka", ~stable, NEW read \in Reads
    PROVE  \E n \in Int :
              /\ DOMAIN read = 1..n
              /\ \A j, m \in 1..n : read[j] = read[m] => j = m
              /\ Published = {read[j] : j \in 1..n}
<1> DEFINE len == [p \in Partitions |-> Len(topic[p])]
           n == SumOver(len, Partitions)
           D == 1..n
           Of(f, p) == {j \in D : f[j] = p}
<1>0. /\ \A p \in Partitions : topic[p] \in Seq(CommitIDs) /\ len[p] \in Nat /\ len[p] = Len(topic[p])
                               /\ DOMAIN topic[p] = 1..Len(topic[p])
      /\ IsFiniteSet(Partitions)
  BY KafkaAssumption DEF TopicInv
<1>1. n \in Int
  <2> HIDE DEF len
  <2> QED BY <1>0, SumType
<1>2. PICK f \in [D -> Partitions] :
        /\ \A p \in Partitions : Cardinality(Of(f, p)) = Len(topic[p])
        /\ read = [j \in D |-> topic[f[j]][Cardinality(UpTo(f, j))]]
  BY DEF Reads, UpTo
<1>3. IsFiniteSet(D) BY <1>1, FS_Interval
<1> HIDE DEF n, len
<1>4. ASSUME NEW j \in D
      PROVE  /\ IsFiniteSet(UpTo(f, j)) /\ Cardinality(UpTo(f, j)) \in 1..Len(topic[f[j]])
             /\ UpTo(f, j) \subseteq Of(f, f[j]) /\ j \in UpTo(f, j)
  <2>1. UpTo(f, j) \in SUBSET Of(f, f[j]) /\ Of(f, f[j]) \in SUBSET D /\ j \in UpTo(f, j)
    BY <1>1 DEF UpTo
  <2>2. IsFiniteSet(Of(f, f[j]))
    <3> HIDE DEF D, Of
    <3> QED BY <1>3, <2>1, FS_Subset
  <2>3. IsFiniteSet(UpTo(f, j)) /\ Cardinality(UpTo(f, j)) <= Cardinality(Of(f, f[j]))
    <3> HIDE DEF D, Of
    <3> QED BY <2>1, <2>2, FS_Subset
  <2>4. Cardinality(UpTo(f, j)) \in Nat /\ Cardinality(UpTo(f, j)) # 0
    BY <2>1, <2>3, FS_CardinalityType, FS_EmptySet
  <2>5. f[j] \in Partitions /\ Cardinality(Of(f, f[j])) = Len(topic[f[j]]) BY <1>2
  <2>6. Len(topic[f[j]]) \in Nat BY <1>0, <2>5
  <2> HIDE DEF Of
  <2> QED BY <2>1, <2>3, <2>4, <2>5, <2>6
<1>5. ASSUME NEW j \in D, NEW m \in D, f[j] = f[m], j < m
      PROVE  Cardinality(UpTo(f, j)) # Cardinality(UpTo(f, m))
  <2>1. UpTo(f, j) \in SUBSET UpTo(f, m) /\ m \notin UpTo(f, j) /\ m \in UpTo(f, m)
    BY <1>1, <1>5 DEF UpTo
  <2>2. UpTo(f, j) # UpTo(f, m) /\ IsFiniteSet(UpTo(f, m)) BY <1>4, <2>1
  <2> QED BY <2>1, <2>2, FS_Subset
<1>6. \A j, m \in D : f[j] = f[m] /\ Cardinality(UpTo(f, j)) = Cardinality(UpTo(f, m)) => j = m
  <2> SUFFICES ASSUME NEW j \in D, NEW m \in D, f[j] = f[m],
                      Cardinality(UpTo(f, j)) = Cardinality(UpTo(f, m)), j # m
               PROVE  FALSE
    OBVIOUS
  <2>1. j < m \/ m < j BY <1>1
  <2> QED BY <1>5, <2>1
<1>7. ASSUME NEW j \in D, NEW m \in D, read[j] = read[m] PROVE j = m
  <2>1. /\ read[j] = topic[f[j]][Cardinality(UpTo(f, j))] /\ read[m] = topic[f[m]][Cardinality(UpTo(f, m))]
        /\ f[j] \in Partitions /\ f[m] \in Partitions
    BY <1>2
  <2>2. PartitionOf[read[j]] = f[j] /\ PartitionOf[read[m]] = f[m] BY <1>4, <2>1 DEF TopicInv
  <2>3. f[j] = f[m] BY <1>7, <2>2
  <2>4. \A x, y \in 1..Len(topic[f[j]]) : x # y => topic[f[j]][x] # topic[f[j]][y] BY <2>1 DEF TopicInv
  <2>5. /\ Cardinality(UpTo(f, j)) \in 1..Len(topic[f[j]])
        /\ Cardinality(UpTo(f, m)) \in 1..Len(topic[f[j]])
    BY <1>4, <2>3
  <2>6. Cardinality(UpTo(f, j)) = Cardinality(UpTo(f, m)) BY <1>7, <2>1, <2>3, <2>4, <2>5
  <2> QED BY <1>6, <2>3, <2>6
<1>8. ASSUME NEW p \in Partitions, NEW x \in 1..Len(topic[p]) PROVE \E j \in D : read[j] = topic[p][x]
  <2> DEFINE S == Of(f, p)
             T == 1..Len(topic[p])
             g == [j \in S |-> Cardinality(UpTo(f, j))]
  <2>1. g \in [S -> T] /\ \A j, m \in S : g[j] = g[m] => j = m BY <1>4, <1>6
  <2>2. Len(topic[p]) \in Nat BY <1>0
  <2>3. IsFiniteSet(T) /\ Cardinality(T) = Len(topic[p])
    BY <2>2, FirstNumbers
  <2>4. Cardinality(S) = Cardinality(T) BY <1>2, <2>3
  <2>5. \E j \in S : g[j] = x
    <3> HIDE DEF S, g
    <3>1. g \in Injection(S, T)
      <4> HIDE DEF T
      <4> QED BY <2>1 DEF Injection, IsInjective
    <3>2. g \in Surjection(S, T)
      <4> HIDE DEF T
      <4> QED BY <2>3, <2>4, <3>1, FS_Injection
    <3> QED BY <3>2 DEF Surjection
  <2>6. PICK j \in S : g[j] = x BY <2>5
  <2>7. j \in D /\ f[j] = p /\ Cardinality(UpTo(f, j)) = x BY <2>6
  <2> QED BY <1>2, <2>7
<1>9. Published = {read[j] : j \in D}
  <2>1. \A p \in Partitions : \A x \in DOMAIN topic[p] : topic[p][x] \in {read[j] : j \in D} BY <1>0, <1>8
  <2>2. ASSUME NEW j \in D PROVE read[j] \in Published
    <3>1. read[j] = topic[f[j]][Cardinality(UpTo(f, j))] /\ f[j] \in Partitions BY <1>2
    <3>2. Cardinality(UpTo(f, j)) \in DOMAIN topic[f[j]] BY <1>0, <1>4, <3>1
    <3> QED BY <3>1, <3>2 DEF Published
  <2> QED BY <2>1, <2>2 DEF Published
<1> QED BY <1>1, <1>2, <1>7, <1>9

\* With the fresh CommitIDs of IdemShim, a consumer that only remembers the last CommitID
\* of each key arrives at the scalars of the topic, in whatever order it reads the
\* partitions.
THEOREM ConsumerArrives == Spec => []ConsumersConverge
<1>1. AdaptersInv => ConsumersConverge
  <2> SUFFICES ASSUME AdaptersInv, adapter = "kafka", ~stable, NEW read \in Reads
               PROVE  Materialized(read) = TopicScalar
    BY DEF ConsumersConverge
  <2>0. TopicInv BY DEF AdaptersInv
  <2>1. PICK n \in Int : /\ DOMAIN read = 1..n
                         /\ \A j, m \in 1..n : read[j] = read[m] => j = m
                         /\ Published = {read[j] : j \in 1..n}
    BY <2>0, ReadsEachOnce
  <2> DEFINE before(j) == {m \in 1..(j - 1) : KeyOf[read[m][1]] = KeyOf[read[j][1]]}
             counts(j) == before(j) = {} \/ read[Max(before(j))] # read[j]
             J(k) == {j \in 1..n : KeyOf[read[j][1]] = k}
             f == [j \in 1..n |-> VecOf[read[j][1]]]
             g == [id \in Published |-> VecOf[id[1]]]
  <2>2. ASSUME NEW j \in 1..n PROVE counts(j)
    <3> SUFFICES ASSUME before(j) # {} PROVE read[Max(before(j))] # read[j] OBVIOUS
    <3>1. before(j) \in SUBSET (1..(j - 1)) /\ before(j) \subseteq Int OBVIOUS
    <3>2. IsFiniteSet(1..(j - 1))
      <4>1. j - 1 \in Int OBVIOUS
      <4> QED BY <4>1, FS_Interval
    <3>3. IsFiniteSet(before(j))
      <4> HIDE DEF before
      <4> QED BY <3>1, <3>2, FS_Subset
    <3>4. Max(before(j)) \in before(j)
      <4> HIDE DEF before
      <4> QED BY <3>1, <3>3, MaxInSet
    <3> HIDE DEF before
    <3>5. Max(before(j)) \in 1..(j - 1) BY <3>1, <3>4
    <3> QED BY <2>1, <3>5
  <2>3. \A k : {j \in DOMAIN read : KeyOf[read[j][1]] = k /\ counts(j)} = J(k)
    <3> HIDE DEF counts
    <3> QED BY <2>1, <2>2
  <2>4. Materialized(read) = [k \in Keys |-> -SumOver(f, J(k))]
    <3>1. Materialized(read) = [k \in Keys |-> -SumOver([j \in DOMAIN read |-> VecOf[read[j][1]]],
                                  {j \in DOMAIN read : KeyOf[read[j][1]] = k /\ counts(j)})]
      BY DEF Materialized
    <3>2. [j \in DOMAIN read |-> VecOf[read[j][1]]] = f BY <2>1
    <3> HIDE DEF J, f, counts
    <3> QED BY <2>3, <3>1, <3>2
  <2>5. ASSUME NEW k \in Keys
        PROVE  SumOver(f, J(k)) = SumOver(g, {id \in Published : KeyOf[id[1]] = k})
    <3>1. {id \in Published : KeyOf[id[1]] = k} = {read[j] : j \in J(k)} BY <2>1
    <3>2. J(k) \in SUBSET (1..n) /\ IsFiniteSet(1..n) BY FS_Interval
    <3>3. IsFiniteSet(J(k))
      <4> HIDE DEF J
      <4> QED BY <3>2, FS_Subset
    <3>4. \A id \in Published : VecOf[id[1]] \in Int
      <4>1. \A p \in Partitions : topic[p] \in Seq(CommitIDs) BY <2>0 DEF TopicInv
      <4>2. Published \subseteq CommitIDs BY <4>1 DEF Published
      <4> QED BY <4>2, CommitAssumption DEF CommitIDs
    <3>5. \A j \in J(k) : f[j] \in Int /\ g[read[j]] = f[j] BY <2>1, <3>4
    <3>6. \A j, m \in J(k) : read[j] = read[m] => j = m BY <2>1
    <3> HIDE DEF J, f, g
    <3>7. SumOver(g, {read[j] : j \in J(k)}) = SumOver(f, J(k)) BY <3>3, <3>5, <3>6, SumReindex
    <3> QED BY <3>1, <3>7
  <2> QED BY <2>4, <2>5 DEF TopicScalar
<1> QED BY <1>1, AdaptersInductive, PTL
=============================================================================
