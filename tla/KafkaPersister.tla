--------------------------- MODULE KafkaPersister ---------------------------
(***************************************************************************)
(* persistence/kafka.go: each entry is one message, with the CommitID as   *)
(* its Kafka key, which chooses the partition.  The broker and a           *)
(* downstream consumer are modelled from what the comments ask of them.    *)
(***************************************************************************)
EXTENDS Persistence

CONSTANTS Partitions, PartitionOf

ASSUME KafkaAssumption == PartitionOf \in [CommitIDs -> Partitions] /\ IsFiniteSet(Partitions)

VARIABLE
    topic          \* per partition: the CommitIDs of its messages

KafkaInit == topic = [p \in Partitions |-> <<>>]

\* The broker appends a message, also one it has seen in another call.
Publish(w, c) ==
    topic' = [topic EXCEPT ![PartitionOf[CommitID(w, c)]] = Append(@, CommitID(w, c))]

Produce(w, c) ==
    /\ adapter = "kafka"
    /\ Sent(w, c) /\ Publish(w, c)

\* The message is in the topic or not when the producer returns an error.
ProduceError(w, c) ==
    /\ adapter = "kafka"
    /\ Failed(w, c)
    /\ Publish(w, c) \/ UNCHANGED topic

\* The CommitIDs that have a message, and the scalars they stand for.
Published == UNION {{topic[p][j] : j \in DOMAIN topic[p]} : p \in Partitions}
TopicScalar ==
    [k \in Keys |-> -SumOver([id \in Published |-> VecOf[id[1]]], {id \in Published : KeyOf[id[1]] = k})]

\* The orders in which a consumer may read the messages: each partition in its own.
Reads ==
    LET n == SumOver([p \in Partitions |-> Len(topic[p])], Partitions)
        upTo(f, j) == {m \in 1..j : f[m] = f[j]}
        picks == {f \in [1..n -> Partitions] :
                     \A p \in Partitions : Cardinality({j \in 1..n : f[j] = p}) = Len(topic[p])}
    IN {[j \in 1..n |-> topic[f[j]][Cardinality(upTo(f, j))]] : f \in picks}

\* The consumer that kafka.go asks for keeps the last CommitID it applied to each key
\* and skips a message that repeats it.
Materialized(read) ==
    LET counts(j) ==
            LET before == {m \in 1..(j - 1) : KeyOf[read[m][1]] = KeyOf[read[j][1]]}
            IN before = {} \/ read[Max(before)] # read[j]
    IN [k \in Keys |-> -SumOver([j \in DOMAIN read |-> VecOf[read[j][1]]],
                                {j \in DOMAIN read : KeyOf[read[j][1]] = k /\ counts(j)})]
=============================================================================
