------------------------------ MODULE Adapters ------------------------------
(***************************************************************************)
(* persistence/: the adapter that BuildPersister (or, for Postgres, the    *)
(* application itself) has chosen, and the contract of types.go that all   *)
(* of them are written for (Ledger).                                       *)
(***************************************************************************)
EXTENDS RedisPersister, KafkaPersister, PostgresPersister

vars == <<adapter, loopVars, redisVars, topic, pgVars>>

\* The adapters that are not chosen stay as they are.
Init ==
    /\ LoopInit /\ RedisInit /\ KafkaInit /\ PgInit
    /\ IF adapter = "postgres" THEN stable ELSE rows = {}

RedisStep(w) == (\E c \in Commits : Eval(w, c) \/ EvalError(w, c)) /\ UNCHANGED <<topic, pgVars>>
KafkaStep(w) == (\E c \in Commits : Produce(w, c) \/ ProduceError(w, c)) /\ UNCHANGED <<redisVars, pgVars>>
ReturnStep(w) == Return(w) /\ UNCHANGED <<redisVars, topic, pgVars>>
TxStep(w) == (Statement(w) \/ Rollback(w)) /\ UNCHANGED <<adapter, loopVars, redisVars, topic>>

\* Everything is acknowledged, or the bound on the calls is reached.
Finished ==
    /\ adapter # "postgres"
    /\ Acknowledged = Commits \/ (~stable /\ calls = MaxCalls)
    /\ UNCHANGED vars

Next ==
    \/ \E w \in Writers :
          \/ (CommitBatch(w) \/ Retry(w)) /\ UNCHANGED <<redisVars, topic, pgVars>>
          \/ BeginTx(w) /\ UNCHANGED <<adapter, loopVars, redisVars, topic>>
          \/ RedisStep(w) \/ KafkaStep(w) \/ ReturnStep(w) \/ TxStep(w)
    \/ Expire /\ UNCHANGED <<topic, pgVars>>
    \/ Finished

Spec == Init /\ [][Next]_vars

\* Calls of the client and statements return, with an answer, an error or, at the
\* latest, at the deadline of CommitBatch.
Fairness ==
    \A w \in Writers : WF_vars(RedisStep(w) \/ KafkaStep(w) \/ ReturnStep(w) \/ TxStep(w))
LiveSpec == Spec /\ Fairness

-----------------------------------------------------------------------------
\* Every variable keeps its type.
TypeOK ==
    /\ adapter \in Adapters /\ stable \in BOOLEAN
    /\ wpc \in [Writers -> {"idle", "sending", "failed"}]
    /\ batch \in [Writers -> SUBSET Commits] /\ left \in [Writers -> SUBSET Commits]
    /\ call \in [Writers -> 0..MaxCalls]
    /\ calls \in 0..MaxCalls /\ errors \in 0..MaxErrors
    /\ acked \subseteq CommitIDs /\ applied \subseteq CommitIDs
    /\ scalar \in [Keys -> Int] /\ markers \subseteq Keys \X CommitIDs
    /\ Published \subseteq CommitIDs
    /\ PgTypeOK

Contract == INSTANCE Ledger WITH
    Commits <- CommitIDs,
    KeyOf <- [id \in CommitIDs |-> KeyOf[id[1]]],
    VecOf <- [id \in CommitIDs |-> VecOf[id[1]]],
    balance <- IF adapter = "kafka" THEN TopicScalar ELSE scalar,
    applied <- IF adapter = "kafka" THEN Published ELSE applied

\* The contract of types.go, for Redis and for the topic of Kafka: a CommitID sent
\* again, after an error or by another process, counts once, and CommitBatch returns
\* nil only when its whole batch is written.
ImplementsLedger == Contract!LedgerSpec

\* With the fresh CommitIDs of IdemShim, a consumer that remembers the last CommitID of
\* each key ends up with the scalars of the topic, in whatever order it reads the
\* partitions and whatever errors hid messages that were written.
ConsumersConverge ==
    adapter = "kafka" /\ ~stable => \A read \in Reads : Materialized(read) = TopicScalar

\* A call of CommitBatch ends.  In Postgres, two calls whose batches hold the same
\* commits in opposite order wait for each other, and the deadline gets them out.
CallsReturn ==
    \A w \in Writers :
        wpc[w] = "sending" \/ tpc[w] # "idle" ~> wpc[w] # "sending" /\ tpc[w] = "idle"
=============================================================================
