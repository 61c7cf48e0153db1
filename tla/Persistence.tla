---------------------------- MODULE Persistence ----------------------------
(***************************************************************************)
(* persistence/factory.go, shim.go and the loop that the CommitBatch of    *)
(* redis.go and of kafka.go have in common: one call of the client per     *)
(* entry, up to the first error, after which the caller sends the whole    *)
(* batch again.  Several processes may send the same commit.               *)
(***************************************************************************)
EXTENDS Sums, Sequences

CONSTANTS
    Adapters,      \* which of "redis", "kafka", "postgres" is built
    Keys, Commits,
    KeyOf, VecOf,  \* the key and the vector of a commit
    Writers,       \* processes that call CommitBatch
    MaxCalls,      \* bound: calls that draw fresh CommitIDs
    MaxErrors      \* bound: errors of the client

ASSUME CommitAssumption ==
    /\ Adapters \subseteq {"redis", "kafka", "postgres"}
    /\ KeyOf \in [Commits -> Keys]
    /\ VecOf \in [Commits -> Int]
    /\ MaxCalls \in Nat /\ MaxErrors \in Nat

VARIABLES
    adapter,
    wpc,           \* writer: idle, sending, failed
    batch, left,   \* the commits of the call, and those not sent yet
    call,          \* what randomID drew for the call, 0 with stable CommitIDs
    stable,        \* TRUE: callers keep the CommitIDs of a retry; FALSE: IdemShim
    calls, errors,
    acked          \* history: CommitIDs a call returned nil for

loopVars == <<wpc, batch, left, call, stable, calls, errors, acked>>

\* A CommitID: chosen by the caller once for each commit, or by randomID per call.
CommitID(w, c) == <<c, call[w]>>
CommitIDs == Commits \X (0..MaxCalls)

\* BuildPersister chooses the adapter.
LoopInit ==
    /\ adapter \in Adapters
    /\ wpc = [w \in Writers |-> "idle"]
    /\ batch = [w \in Writers |-> {}]
    /\ left = [w \in Writers |-> {}]
    /\ call = [w \in Writers |-> 0]
    /\ stable \in BOOLEAN
    /\ calls = 0 /\ errors = 0
    /\ acked = {}

\* Faulty variant: randomID is drawn once for all calls.
Send_SameIDs(w, B) ==
    /\ stable \/ calls < MaxCalls
    /\ calls' = IF stable THEN calls ELSE calls + 1
    /\ wpc' = [wpc EXCEPT ![w] = "sending"]
    /\ batch' = [batch EXCEPT ![w] = B]
    /\ left' = [left EXCEPT ![w] = B]
    /\ UNCHANGED <<adapter, call, stable, errors, acked>>

\* CommitBatch begins with a batch B.
Send(w, B) ==
    /\ stable \/ calls < MaxCalls
    /\ calls' = IF stable THEN calls ELSE calls + 1
    /\ wpc' = [wpc EXCEPT ![w] = "sending"]
    /\ batch' = [batch EXCEPT ![w] = B]
    /\ left' = [left EXCEPT ![w] = B]
    /\ call' = [call EXCEPT ![w] = calls']
    /\ UNCHANGED <<adapter, stable, errors, acked>>

Acknowledged == {id[1] : id \in acked}

\* Commits nobody knows to be written; another process may be sending them too.
CommitBatch(w) ==
    /\ adapter # "postgres" /\ wpc[w] = "idle"
    /\ \E B \in SUBSET (Commits \ Acknowledged) : B # {} /\ Send(w, B)

\* An error makes the caller send the whole batch again.
Retry(w) ==
    /\ wpc[w] = "failed"
    /\ Send(w, batch[w])

\* The client's call for the entry c returns nil.
Sent(w, c) ==
    /\ wpc[w] = "sending"
    /\ c \in left[w]
    /\ left' = [left EXCEPT ![w] = @ \ {c}]
    /\ UNCHANGED <<adapter, wpc, batch, call, stable, calls, errors, acked>>

\* It returns an error, and the loop stops.
Failed(w, c) ==
    /\ wpc[w] = "sending"
    /\ c \in left[w]
    /\ errors < MaxErrors
    /\ errors' = errors + 1
    /\ wpc' = [wpc EXCEPT ![w] = "failed"]
    /\ UNCHANGED <<adapter, batch, left, call, stable, calls, acked>>

\* The loop is through: CommitBatch returns nil.
Return(w) ==
    /\ wpc[w] = "sending"
    /\ left[w] = {}
    /\ acked' = acked \cup {CommitID(w, c) : c \in batch[w]}
    /\ wpc' = [wpc EXCEPT ![w] = "idle"]
    /\ batch' = [batch EXCEPT ![w] = {}]
    /\ UNCHANGED <<adapter, left, call, stable, calls, errors>>
=============================================================================
