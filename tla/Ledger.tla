------------------------------- MODULE Ledger -------------------------------
(***************************************************************************)
(* What persistence/types.go asks of every IdempotentPersister: a commit   *)
(* changes the durable scalar of its key exactly once, however often it is *)
(* sent, and is reported as written only after that.                       *)
(***************************************************************************)
EXTENDS Integers

CONSTANTS
    Keys,
    Commits,   \* the CommitIDs
    KeyOf,     \* the key of each, [Commits -> Keys]
    VecOf      \* the vector of each, [Commits -> Int]

VARIABLES
    balance,   \* durable scalar of each key, counted from where it started
    applied,   \* commits that are in balance
    acked      \* commits some call of CommitBatch returned nil for

ledgerVars == <<balance, applied, acked>>

LedgerInit ==
    /\ balance = [k \in Keys |-> 0]
    /\ applied = {}
    /\ acked = {}

\* scalar = scalar - Vector, for a CommitID not seen before.
Apply(c) ==
    /\ c \notin applied
    /\ applied' = applied \cup {c}
    /\ balance' = [balance EXCEPT ![KeyOf[c]] = @ - VecOf[c]]
    /\ UNCHANGED acked

Acknowledge ==
    /\ acked' \in SUBSET applied
    /\ acked \subseteq acked'
    /\ UNCHANGED <<balance, applied>>

LedgerNext == Acknowledge \/ \E c \in Commits : Apply(c)

LedgerSpec == LedgerInit /\ [][LedgerNext]_ledgerVars
=============================================================================
