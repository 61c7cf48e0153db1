--------------------------- MODULE RedisPersister ---------------------------
(***************************************************************************)
(* persistence/redis.go: each entry is one run of the Lua script.          *)
(***************************************************************************)
EXTENDS Persistence

VARIABLES
    scalar,        \* HASH field counter:<key> scalar
    markers,       \* the keys commit:<key>:<commit_id> that are set
    applied        \* history: CommitIDs the script has applied

redisVars == <<scalar, markers, applied>>

RedisInit ==
    /\ scalar = [k \in Keys |-> 0]
    /\ markers = {} /\ applied = {}

Marker(w, c) == <<KeyOf[c], CommitID(w, c)>>

\* HINCRBY counter:<key> scalar -vector.
Decrement(w, c) ==
    /\ scalar' = [scalar EXCEPT ![KeyOf[c]] = @ - VecOf[c]]
    /\ applied' = applied \cup {CommitID(w, c)}

\* Faulty variant: HINCRBY runs whether the marker was set or not.
Script_IgnoresMarker(w, c) ==
    /\ markers' = markers \cup {Marker(w, c)}
    /\ Decrement(w, c)

\* The Lua script: SETNX on the marker, HINCRBY if it was not set.
Script(w, c) ==
    IF Marker(w, c) \in markers
    THEN UNCHANGED redisVars
    ELSE /\ markers' = markers \cup {Marker(w, c)}
         /\ Decrement(w, c)

Eval(w, c) ==
    /\ adapter = "redis"
    /\ Sent(w, c) /\ Script(w, c)

\* The script has run or not when the client returns an error.
EvalError(w, c) ==
    /\ adapter = "redis"
    /\ Failed(w, c)
    /\ Script(w, c) \/ UNCHANGED redisVars

\* A marker's TTL is over.  It is "comfortably larger than your maximum retry window":
\* the commit is acknowledged and nobody is sending it any more.
Expire ==
    /\ \E m \in markers :
          /\ m[2] \in acked
          /\ \A w \in Writers : \A c \in batch[w] : CommitID(w, c) # m[2]
          /\ markers' = markers \ {m}
    /\ UNCHANGED <<scalar, applied, adapter, loopVars>>
=============================================================================
