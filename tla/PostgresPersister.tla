------------------------- MODULE PostgresPersister -------------------------
(***************************************************************************)
(* persistence/postgres.go: CommitBatch runs the statements of a whole     *)
(* batch in one READ COMMITTED transaction.  A statement sees the          *)
(* committed rows and the rows of its own transaction; an INSERT waits     *)
(* while another open transaction has inserted the same key.  The          *)
(* database is modelled from the statements the code sends to it.          *)
(***************************************************************************)
EXTENDS Persistence

CONSTANTS
    TokenOf,             \* the fencing token of a commit, 0 for nil
    Batches,             \* the batches, as sequences of commits, in ForEach's order
    CreateMissingKeys

ASSUME PgAssumption ==
    /\ TokenOf \in [Commits -> Nat]
    /\ \A B \in Batches : B # <<>> /\ B \in Seq(Commits)
    /\ CreateMissingKeys \in BOOLEAN

VARIABLES
    rows,                \* committed keys of table counters
    pgScalar, lastToken, \* committed columns of table counters
    pgApplied,           \* committed rows of table applied_commits
    tpc,                 \* transaction: idle, create, insert, fence, update
    txBatch, i,          \* its batch, and the index of the loop's entry
    newRows, newApplied, \* rows the open transaction has inserted
    newScalar, newToken, \* what it will make of the counters
    txAcked              \* history: commits a call returned nil for

tables == <<rows, pgScalar, lastToken, pgApplied>>
txVars == <<tpc, txBatch, i, newRows, newApplied, newScalar, newToken>>
pgVars == <<tables, txVars, txAcked>>

MaxOf(a, b) == IF a > b THEN a ELSE b

PgInit ==
    /\ rows \in SUBSET Keys
    /\ pgScalar = [k \in Keys |-> 0]
    /\ lastToken = [k \in Keys |-> 0]
    /\ pgApplied = {}
    /\ tpc = [w \in Writers |-> "idle"]
    /\ txBatch = [w \in Writers |-> <<>>]
    /\ i = [w \in Writers |-> 0]
    /\ newRows = [w \in Writers |-> {}]
    /\ newApplied = [w \in Writers |-> {}]
    /\ newScalar = [w \in Writers |-> [k \in Keys |-> 0]]
    /\ newToken = [w \in Writers |-> [k \in Keys |-> 0]]
    /\ txAcked = {}

Entry(w) == txBatch[w][i[w]]
ConflictsWith(w, inserted, x) == \E u \in Writers \ {w} : x \in inserted[u]

\* BEGIN.
BeginTx(w) == \E B \in Batches :
    /\ adapter = "postgres" /\ tpc[w] = "idle"
    /\ tpc' = [tpc EXCEPT ![w] = IF CreateMissingKeys THEN "create" ELSE "insert"]
    /\ txBatch' = [txBatch EXCEPT ![w] = B]
    /\ i' = [i EXCEPT ![w] = 1]
    /\ UNCHANGED <<tables, newRows, newApplied, newScalar, newToken, txAcked>>

\* INSERT INTO counters ... ON CONFLICT DO NOTHING, for one key of the batch.
CreateKey(w) ==
    /\ tpc[w] = "create"
    /\ LET k == KeyOf[Entry(w)]
       IN /\ ~ConflictsWith(w, newRows, k)
          /\ newRows' = [newRows EXCEPT ![w] = @ \cup ({k} \ rows)]
    /\ IF i[w] = Len(txBatch[w])
       THEN tpc' = [tpc EXCEPT ![w] = "insert"] /\ i' = [i EXCEPT ![w] = 1]
       ELSE i' = [i EXCEPT ![w] = @ + 1] /\ UNCHANGED tpc
    /\ UNCHANGED <<tables, txBatch, newApplied, newScalar, newToken, txAcked>>

\* Faulty variant: the marker is inserted outside the transaction.
InsertApplied_AutoCommit(w) ==
    /\ tpc[w] = "insert"
    /\ pgApplied' = pgApplied \cup {Entry(w)}
    /\ tpc' = [tpc EXCEPT ![w] = "update"]
    /\ UNCHANGED <<rows, pgScalar, lastToken, txBatch, i, newRows, newApplied, newScalar,
                   newToken, txAcked>>

\* INSERT INTO applied_commits ... ON CONFLICT DO NOTHING.
InsertApplied(w) ==
    /\ tpc[w] = "insert"
    /\ ~ConflictsWith(w, newApplied, Entry(w))
    /\ newApplied' = [newApplied EXCEPT ![w] = @ \cup ({Entry(w)} \ pgApplied)]
    /\ tpc' = [tpc EXCEPT ![w] = IF TokenOf[Entry(w)] # 0 THEN "fence" ELSE "update"]
    /\ UNCHANGED <<tables, txBatch, i, newRows, newScalar, newToken, txAcked>>

\* The rows an UPDATE changes: WHERE key = ... AND NOT EXISTS (the commit id).
Matches(w) ==
    /\ KeyOf[Entry(w)] \in rows \cup newRows[w]
    /\ Entry(w) \notin pgApplied \cup newApplied[w]

\* UPDATE counters SET last_token ...
UpdateToken(w) ==
    /\ tpc[w] = "fence"
    /\ LET k == KeyOf[Entry(w)]
           token == TokenOf[Entry(w)]
       IN newToken' = IF Matches(w) /\ token >= MaxOf(lastToken[k], newToken[w][k])
                      THEN [newToken EXCEPT ![w][k] = token] ELSE newToken
    /\ tpc' = [tpc EXCEPT ![w] = "update"]
    /\ UNCHANGED <<tables, txBatch, i, newRows, newApplied, newScalar, txAcked>>

\* Faulty variant: the loop goes one entry too far.
UpdateScalar_OffByOne(w) ==
    /\ tpc[w] = "update"
    /\ i' = [i EXCEPT ![w] = @ + 1]
    /\ tpc' = [tpc EXCEPT ![w] = IF i[w] > Len(txBatch[w]) THEN "commit" ELSE "insert"]
    /\ UNCHANGED <<tables, txBatch, newRows, newApplied, newScalar, newToken, txAcked>>

\* UPDATE counters SET scalar = scalar - vc ..., then the next entry.
UpdateScalar(w) ==
    /\ tpc[w] = "update"
    /\ newScalar' = IF Matches(w)
                    THEN [newScalar EXCEPT ![w][KeyOf[Entry(w)]] = @ - VecOf[Entry(w)]]
                    ELSE newScalar
    /\ i' = [i EXCEPT ![w] = @ + 1]
    /\ tpc' = [tpc EXCEPT ![w] = IF i[w] = Len(txBatch[w]) THEN "commit" ELSE "insert"]
    /\ UNCHANGED <<tables, txBatch, newRows, newApplied, newToken, txAcked>>

EndTx(w) ==
    /\ tpc' = [tpc EXCEPT ![w] = "idle"]
    /\ txBatch' = [txBatch EXCEPT ![w] = <<>>]
    /\ i' = [i EXCEPT ![w] = 0]
    /\ newRows' = [newRows EXCEPT ![w] = {}]
    /\ newApplied' = [newApplied EXCEPT ![w] = {}]
    /\ newScalar' = [newScalar EXCEPT ![w] = [k \in Keys |-> 0]]
    /\ newToken' = [newToken EXCEPT ![w] = [k \in Keys |-> 0]]

\* COMMIT makes the transaction's rows visible; its answer may get lost.
CommitTx(w) ==
    /\ tpc[w] = "commit"
    /\ rows' = rows \cup newRows[w]
    /\ pgApplied' = pgApplied \cup newApplied[w]
    /\ pgScalar' = [k \in Keys |-> pgScalar[k] + newScalar[w][k]]
    /\ lastToken' = [k \in Keys |-> MaxOf(lastToken[k], newToken[w][k])]
    /\ txAcked' \in {txAcked, txAcked \cup {txBatch[w][j] : j \in 1..Len(txBatch[w])}}
    /\ EndTx(w)

\* Faulty variant: after an error the transaction is begun again, without end.
Rollback_Restarts(w) ==
    /\ tpc[w] # "idle"
    /\ tpc' = [tpc EXCEPT ![w] = "insert"]
    /\ i' = [i EXCEPT ![w] = 1]
    /\ newApplied' = [newApplied EXCEPT ![w] = {}]
    /\ newRows' = [newRows EXCEPT ![w] = {}]
    /\ UNCHANGED <<tables, txBatch, newScalar, newToken, txAcked>>

\* An error, the 10 s deadline or the deadlock detector: the deferred Rollback.
Rollback(w) ==
    /\ tpc[w] # "idle"
    /\ EndTx(w)
    /\ UNCHANGED <<tables, txAcked>>

Statement(w) ==
    CreateKey(w) \/ InsertApplied(w) \/ UpdateToken(w) \/ UpdateScalar(w) \/ CommitTx(w)

-----------------------------------------------------------------------------
EntriesOf(B) == {B[j] : j \in 1..Len(B)}

\* Every variable keeps its type.
PgTypeOK ==
    /\ rows \in SUBSET Keys /\ pgApplied \in SUBSET Commits /\ txAcked \in SUBSET Commits
    /\ pgScalar \in [Keys -> Int] /\ lastToken \in [Keys -> Nat]
    /\ tpc \in [Writers -> {"idle", "create", "insert", "fence", "update", "commit"}]
    /\ \A w \in Writers :
         /\ txBatch[w] \in Batches \cup {<<>>}
         /\ tpc[w] \in {"create", "insert", "fence", "update"} => i[w] \in 1..Len(txBatch[w])
         /\ newRows[w] \in SUBSET Keys /\ newApplied[w] \in SUBSET Commits
         /\ newScalar[w] \in [Keys -> Int] /\ newToken[w] \in [Keys -> Nat]

\* CommitBatch is one transaction: whatever calls fail, wait for each other or lose
\* the answer to their COMMIT, the commits marked applied are those of whole
\* batches, and a call returns nil only for marked ones.
BatchesAtomic ==
    /\ txAcked \subseteq pgApplied
    /\ \A c \in pgApplied : \E B \in Batches : c \in EntriesOf(B) /\ EntriesOf(B) \subseteq pgApplied

\* A commit that is marked applied is in the scalar of its key.
AppliedInScalar ==
    \A k \in Keys :
        pgScalar[k] = -SumOver(VecOf, {c \in pgApplied : KeyOf[c] = k})
=============================================================================
