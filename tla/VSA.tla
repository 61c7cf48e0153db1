-------------------------------- MODULE VSA --------------------------------
(***************************************************************************)
(* One Vector-Scalar Accumulator (vsa.go): the striped counters, the lock  *)
(* tryMu, the approximate and the cached net, and the goroutines that call *)
(* TryConsume, TryRefund, Commit, Update, Available/State on it, one       *)
(* atomic load or store of shared memory per step.                         *)
(*                                                                         *)
(* Loads of a variable that only the lock holder may change are merged     *)
(* with the holder's next step, and the unlock with its last store;        *)
(* nothing else is merged.  A call whose argument makes it return at once  *)
(* (n <= 0 for TryConsume and TryRefund, 0 for Commit) changes nothing and *)
(* is a stuttering step.                                                   *)
(***************************************************************************)
EXTENDS Sums

CONSTANTS
    Threads,            \* goroutines calling the VSA
    Aggregator,         \* the goroutine of runAggregator
    NoThread,           \* tryMu is free
    InitialScalar,      \* argument of New
    NumStripes,         \* len(v.stripes)
    HGroups,            \* hierarchical groups, 0 when the option is off
    GroupCount,         \* grouped scan, 0 when the option is off
    FastPathGuard,      \* 0 when the option is off
    UseCachedGate,      \* BOOLEAN
    CacheSlack,         \* CacheSlack + GroupSlack of the options
    AnyChooser,         \* Cheap- or PerPUpdateChooser: any stripe
    ConsumeAmounts,     \* arguments of TryConsume
    RefundAmounts,      \* arguments of TryRefund
    CommitAmounts,      \* arguments of Commit, stale or not
    UpdateAmounts,      \* arguments of Update
    Readers,            \* the goroutines that also call Available or State
    MaxUsed,            \* bound: no call starts that would take `used` past it
    MaxStripe           \* bound: no refund or update starts beyond it

ASSUME ConfigAssumption ==
    /\ IsFiniteSet(Threads)
    /\ NoThread \notin Threads \cup {Aggregator}
    /\ Aggregator \notin Threads
    /\ InitialScalar \in Nat
    /\ NumStripes \in Nat \ {0}
    /\ HGroups \in 0..NumStripes
    /\ GroupCount \in 0..NumStripes
    /\ FastPathGuard \in Nat
    /\ UseCachedGate \in BOOLEAN
    /\ CacheSlack \in Int
    /\ AnyChooser \in BOOLEAN
    /\ ConsumeAmounts \subseteq Int
    /\ RefundAmounts \subseteq Int
    /\ CommitAmounts \subseteq Int
    /\ UpdateAmounts \subseteq Int
    /\ Readers \subseteq Threads
    /\ MaxUsed \in Nat
    /\ MaxStripe \in Nat

VARIABLES
    \* the struct
    scalar, committedOffset, stripes, hGroupSum, approxNet, cachedNet,
    tryMu, chooser, rr, groupRR, closed,
    \* the goroutines: control, call, and the locals of the call
    pc, op, n, s, net, i,
    \* history: all that was ever added to the cells currentVector sums
    used

shared == <<scalar, committedOffset, stripes, hGroupSum, approxNet, cachedNet,
            chooser, rr, groupRR, closed, used>>
locals == <<pc, op, n, s, net, i>>
vars   == <<shared, tryMu, locals>>

Procs == Threads \cup {Aggregator}

-----------------------------------------------------------------------------
Abs(x) == IF x < 0 THEN -x ELSE x
MinOf(a, b) == IF a < b THEN a ELSE b
\* Go's integer division truncates towards zero.
Quot(a, b) == IF a < 0 THEN -((-a) \div b) ELSE a \div b
\* ceil(NumStripes / g), the stripes per group
Stride(g) == (NumStripes + g - 1) \div g

\* currentVector reads the group sums when there are any, else the stripes.
NumCells == IF HGroups > 0 THEN HGroups ELSE NumStripes
Cell(j) == IF HGroups > 0 THEN hGroupSum[j] ELSE stripes[j]

GroupStart == (groupRR * Stride(GroupCount)) % NumStripes
GroupEnd == MinOf(GroupStart + Stride(GroupCount), NumStripes)

Init ==
    /\ scalar = InitialScalar
    /\ committedOffset = 0
    /\ stripes = [j \in 0..(NumStripes - 1) |-> 0]
    /\ hGroupSum = [j \in 0..(HGroups - 1) |-> 0]
    /\ approxNet = 0
    /\ cachedNet = 0
    /\ tryMu = NoThread
    /\ chooser = 0
    /\ rr = 0
    /\ groupRR = 0
    /\ closed = FALSE
    /\ pc = [t \in Procs |-> "idle"]
    /\ op = [t \in Procs |-> "none"]
    /\ n = [t \in Procs |-> 0]
    /\ s = [t \in Procs |-> 0]
    /\ net = [t \in Procs |-> 0]
    /\ i = [t \in Procs |-> 0]
    /\ used = 0

\* The call returns; tryMu is released if the call holds it.
Return(t) ==
    /\ pc' = [pc EXCEPT ![t] = "idle"]
    /\ op' = [op EXCEPT ![t] = "none"]
    /\ n' = [n EXCEPT ![t] = 0]
    /\ s' = [s EXCEPT ![t] = 0]
    /\ net' = [net EXCEPT ![t] = 0]
    /\ i' = [i EXCEPT ![t] = 0]
    /\ tryMu' = IF tryMu = t THEN NoThread ELSE tryMu

Goto(t, l) == pc' = [pc EXCEPT ![t] = l]

-----------------------------------------------------------------------------
(* The calls.                                                              *)

Call(t, o, a, l) ==
    /\ pc[t] = "idle"
    /\ Goto(t, l)
    /\ op' = [op EXCEPT ![t] = o]
    /\ n' = [n EXCEPT ![t] = a]
    /\ s' = [s EXCEPT ![t] = IF l = "fastGate" \/ o = "state" THEN scalar ELSE 0]
    /\ UNCHANGED <<net, i, tryMu, shared>>

\* The stripes drift apart when additions and refunds alternate between them.
StripesBounded == \A j \in DOMAIN stripes : Abs(stripes[j]) <= MaxStripe

CallTryConsume(t) == \E a \in ConsumeAmounts :
    /\ a > 0
    /\ used + a <= MaxUsed
    /\ Call(t, "consume", a, IF FastPathGuard > 0 THEN "fastGate" ELSE "lock")

CallTryRefund(t) == \E a \in RefundAmounts :
    /\ a > 0
    /\ StripesBounded
    /\ Call(t, "refund", a, "lock")

CallCommit(t) == \E a \in CommitAmounts :
    /\ a # 0
    /\ Call(t, "commit", a, "lock")

CallUpdate(t) == \E a \in UpdateAmounts :
    /\ Abs(used + a) <= MaxUsed
    /\ StripesBounded
    /\ Call(t, "update", a, "fastAdd")

\* Available, State: the scalar is loaded before the stripes are scanned.
CallState(t) ==
    /\ t \in Readers
    /\ Call(t, "state", 0, "scan")

\* A tick of the aggregator, until Close stops it.
Tick(t) ==
    /\ t = Aggregator
    /\ UseCachedGate
    /\ ~closed
    /\ Call(t, "aggregate", 0, "scan")

Close ==
    /\ UseCachedGate
    /\ ~closed
    /\ closed' = TRUE
    /\ UNCHANGED <<scalar, committedOffset, stripes, hGroupSum, approxNet,
                   cachedNet, chooser, rr, groupRR, used, tryMu, locals>>

-----------------------------------------------------------------------------
(* The lock-free fast path of TryConsume.                                  *)

FastGate(t) ==
    /\ pc[t] = "fastGate"
    /\ Goto(t, IF s[t] - Abs(approxNet) >= n[t] + FastPathGuard
               THEN "fastAdd" ELSE "lock")
    /\ UNCHANGED <<op, n, s, net, i, tryMu, shared>>

-----------------------------------------------------------------------------
(* The critical section.                                                   *)

Lock(t) ==
    /\ pc[t] = "lock"
    /\ tryMu = NoThread
    /\ tryMu' = t
    /\ s' = [s EXCEPT ![t] = IF op[t] = "consume" THEN scalar ELSE 0]
    /\ LET grouped == op[t] = "consume" /\ ~UseCachedGate /\ GroupCount > 1
       IN /\ Goto(t, IF op[t] = "consume" /\ UseCachedGate THEN "cachedGate"
                     ELSE IF grouped THEN "group" ELSE "scan")
          /\ i' = [i EXCEPT ![t] = IF grouped THEN GroupStart ELSE 0]
    /\ net' = [net EXCEPT ![t] = 0]
    /\ UNCHANGED <<op, n, shared>>

\* The cached gate: when it denies, the call returns false.
CachedGate(t) ==
    /\ pc[t] = "cachedGate"
    /\ IF s[t] - Abs(cachedNet) - CacheSlack < n[t]
       THEN Return(t)
       ELSE Goto(t, "add") /\ UNCHANGED <<op, n, s, net, i, tryMu>>
    /\ UNCHANGED shared

\* The grouped scan: one load per stripe of this call's group.
GroupScan(t) ==
    /\ pc[t] = "group"
    /\ i[t] < GroupEnd
    /\ net' = [net EXCEPT ![t] = @ + stripes[i[t]]]
    /\ i' = [i EXCEPT ![t] = @ + 1]
    /\ UNCHANGED <<pc, op, n, s, tryMu, shared>>

GroupGate(t) ==
    /\ pc[t] = "group"
    /\ i[t] >= GroupEnd
    /\ groupRR' = (groupRR + 1) % NumStripes
    /\ LET est == Quot(net[t] * NumStripes, GroupEnd - GroupStart)
       IN Goto(t, IF s[t] - Abs(est - committedOffset) - CacheSlack < n[t]
                  THEN "scan" ELSE "add")
    /\ net' = [net EXCEPT ![t] = 0]
    /\ i' = [i EXCEPT ![t] = 0]
    /\ UNCHANGED <<op, n, s, tryMu, scalar, committedOffset, stripes, hGroupSum,
                   approxNet, cachedNet, chooser, rr, closed, used>>

\* currentVector: one load per cell, committedOffset last.
Scan(t) ==
    /\ pc[t] = "scan"
    /\ i[t] < NumCells
    /\ net' = [net EXCEPT ![t] = @ + Cell(i[t])]
    /\ i' = [i EXCEPT ![t] = @ + 1]
    /\ UNCHANGED <<pc, op, n, s, tryMu, shared>>

Scanned(t, o) == pc[t] = "scan" /\ op[t] = o /\ i[t] >= NumCells
Vector(t) == net[t] - committedOffset

\* Faulty variant: admits one unit more than is available.
ConsumeGate_OffByOne(t) ==
    /\ Scanned(t, "consume")
    /\ IF s[t] - Abs(Vector(t)) < n[t] - 1
       THEN Return(t)
       ELSE Goto(t, "add") /\ UNCHANGED <<op, n, s, net, i, tryMu>>
    /\ UNCHANGED shared

\* Faulty variant: denies the last unit.
ConsumeGate_Strict(t) ==
    /\ Scanned(t, "consume")
    /\ IF s[t] - Abs(Vector(t)) <= n[t]
       THEN Return(t)
       ELSE Goto(t, "add") /\ UNCHANGED <<op, n, s, net, i, tryMu>>
    /\ UNCHANGED shared

ConsumeGate(t) ==
    /\ Scanned(t, "consume")
    /\ IF s[t] - Abs(Vector(t)) < n[t]
       THEN Return(t)
       ELSE Goto(t, "add") /\ UNCHANGED <<op, n, s, net, i, tryMu>>
    /\ UNCHANGED shared

\* Faulty variant: the refund does not look at the net.
RefundGate_NoClamp(t) ==
    /\ Scanned(t, "refund")
    /\ n' = [n EXCEPT ![t] = -@]
    /\ Goto(t, "add")
    /\ UNCHANGED <<op, s, net, i, tryMu, shared>>

\* Faulty variant: with nothing to refund, the call unlocks and tries again.
RefundGate_Spins(t) ==
    /\ Scanned(t, "refund")
    /\ IF Vector(t) <= 0
       THEN Goto(t, "lock") /\ tryMu' = NoThread /\ UNCHANGED <<op, n, s, net, i>>
       ELSE /\ n' = [n EXCEPT ![t] = -MinOf(@, Vector(t))]
            /\ Goto(t, "add")
            /\ UNCHANGED <<op, s, net, i, tryMu>>
    /\ UNCHANGED shared

\* From here n[t] is what the call adds to a stripe.
RefundGate(t) ==
    /\ Scanned(t, "refund")
    /\ IF Vector(t) <= 0
       THEN Return(t)
       ELSE /\ n' = [n EXCEPT ![t] = -MinOf(@, Vector(t))]
            /\ Goto(t, "add")
            /\ UNCHANGED <<op, s, net, i, tryMu>>
    /\ UNCHANGED shared

\* Faulty variant: the stale argument is trusted, as if nobody had refunded.
CommitDelta_Unclamped(a, v) == IF v > 0 THEN Abs(a) ELSE -Abs(a)

\* The part of the argument that Commit applies, with the sign of the net.
CommitDelta(a, v) ==
    LET mag == MinOf(Abs(a), Abs(v)) IN IF v > 0 THEN mag ELSE -mag

\* Faulty variant: the scalar loses the argument, not the clamped delta.
CommitGate_StaleScalar(t) ==
    /\ Scanned(t, "commit")
    /\ IF Vector(t) = 0
       THEN Return(t) /\ UNCHANGED scalar
       ELSE /\ scalar' = scalar - Abs(n[t])
            /\ n' = [n EXCEPT ![t] = -CommitDelta(@, Vector(t))]
            /\ Goto(t, "commitOffset")
            /\ UNCHANGED <<op, s, net, i, tryMu>>
    /\ UNCHANGED <<committedOffset, stripes, hGroupSum, approxNet, cachedNet,
                   chooser, rr, groupRR, closed, used>>

\* From here n[t] is the opposite of delta, what is left to add to approxNet.
CommitGate(t) ==
    /\ Scanned(t, "commit")
    /\ IF Vector(t) = 0
       THEN Return(t) /\ UNCHANGED scalar
       ELSE LET delta == CommitDelta(n[t], Vector(t))
            IN /\ scalar' = scalar - Abs(delta)
               /\ n' = [n EXCEPT ![t] = -delta]
               /\ Goto(t, "commitOffset")
               /\ UNCHANGED <<op, s, net, i, tryMu>>
    /\ UNCHANGED <<committedOffset, stripes, hGroupSum, approxNet, cachedNet,
                   chooser, rr, groupRR, closed, used>>

CommitOffset(t) ==
    /\ pc[t] = "commitOffset"
    /\ committedOffset' = committedOffset - n[t]
    /\ Goto(t, "addApprox")
    /\ UNCHANGED <<op, n, s, net, i, tryMu, scalar, stripes, hGroupSum, approxNet,
                   cachedNet, chooser, rr, groupRR, closed, used>>

\* Available and State return.
StateReturn(t) ==
    /\ Scanned(t, "state")
    /\ Return(t)
    /\ UNCHANGED shared

-----------------------------------------------------------------------------
(* Applying n[t]: the stripe, its group sum, the approximate net.          *)

\* Faulty variant: the group sum is not updated.
AddStripe_NoGroup(t, j) ==
    /\ stripes' = [stripes EXCEPT ![j] = @ + n[t]]
    /\ used' = used + n[t]
    /\ i' = [i EXCEPT ![t] = j]
    /\ Goto(t, "addApprox")
    /\ UNCHANGED <<op, n, s, net, tryMu, scalar, committedOffset, hGroupSum,
                   approxNet, cachedNet, groupRR, closed>>

AddStripe(t, j) ==
    /\ stripes' = [stripes EXCEPT ![j] = @ + n[t]]
    /\ used' = IF HGroups > 0 THEN used ELSE used + n[t]
    /\ i' = [i EXCEPT ![t] = j]
    /\ Goto(t, IF HGroups > 0 THEN "addGroup" ELSE "addApprox")
    /\ UNCHANGED <<op, n, s, net, tryMu, scalar, committedOffset, hGroupSum,
                   approxNet, cachedNet, groupRR, closed>>

\* Faulty variant: the mask of the round-robin index is forgotten.
Add_NoMask(t) ==
    /\ pc[t] = "add"
    /\ AddStripe(t, rr)
    /\ rr' = rr + 1
    /\ UNCHANGED chooser

\* Under tryMu the stripe is chosen by the plain counter rr.
Add(t) ==
    /\ pc[t] = "add"
    /\ AddStripe(t, rr)
    /\ rr' = (rr + 1) % NumStripes
    /\ UNCHANGED chooser

\* Without the lock by the atomic chooser, or any way chooseIdxForUpdate likes.
FastAdd(t) ==
    /\ pc[t] = "fastAdd"
    /\ \/ /\ chooser' = (chooser + 1) % NumStripes
          /\ AddStripe(t, chooser')
       \/ /\ AnyChooser
          /\ op[t] = "update"
          /\ \E j \in 0..(NumStripes - 1) : AddStripe(t, j)
          /\ UNCHANGED chooser
    /\ UNCHANGED rr

AddGroup(t) ==
    /\ pc[t] = "addGroup"
    /\ hGroupSum' = [hGroupSum EXCEPT ![i[t] \div Stride(HGroups)] = @ + n[t]]
    /\ used' = used + n[t]
    /\ Goto(t, "addApprox")
    /\ UNCHANGED <<op, n, s, net, i, tryMu, scalar, committedOffset, stripes,
                   approxNet, cachedNet, chooser, rr, groupRR, closed>>

AddApprox(t) ==
    /\ pc[t] = "addApprox"
    /\ approxNet' = approxNet + n[t]
    /\ Return(t)
    /\ UNCHANGED <<scalar, committedOffset, stripes, hGroupSum, cachedNet,
                   chooser, rr, groupRR, closed, used>>

-----------------------------------------------------------------------------
(* The aggregator: the scanned net, then the store of the cache.           *)

CacheLoad(t) ==
    /\ Scanned(t, "aggregate")
    /\ net' = [net EXCEPT ![t] = Vector(t)]
    /\ Goto(t, "cacheStore")
    /\ UNCHANGED <<op, n, s, i, tryMu, shared>>

\* Faulty variant: a net of 0 is not stored.
CacheStore_SkipsZero(t) ==
    /\ pc[t] = "cacheStore"
    /\ cachedNet' = IF net[t] = 0 THEN cachedNet ELSE net[t]
    /\ Return(t)
    /\ UNCHANGED <<scalar, committedOffset, stripes, hGroupSum, approxNet,
                   chooser, rr, groupRR, closed, used>>

CacheStore(t) ==
    /\ pc[t] = "cacheStore"
    /\ cachedNet' = net[t]
    /\ Return(t)
    /\ UNCHANGED <<scalar, committedOffset, stripes, hGroupSum, approxNet,
                   chooser, rr, groupRR, closed, used>>

-----------------------------------------------------------------------------
\* A step of a call that has begun, other than taking the lock.
Step(t) ==
    \/ FastGate(t) \/ CachedGate(t) \/ GroupScan(t) \/ GroupGate(t)
    \/ Scan(t) \/ ConsumeGate(t) \/ RefundGate(t) \/ CommitGate(t)
    \/ CommitOffset(t) \/ StateReturn(t) \/ Add(t) \/ FastAdd(t)
    \/ AddGroup(t) \/ AddApprox(t) \/ CacheLoad(t) \/ CacheStore(t)

Begin(t) ==
    \/ CallTryConsume(t) \/ CallTryRefund(t) \/ CallCommit(t)
    \/ CallUpdate(t) \/ CallState(t)

Next ==
    \/ \E t \in Threads : Begin(t)
    \/ \E t \in Procs : Lock(t) \/ Step(t)
    \/ Tick(Aggregator)
    \/ Close

Spec == Init /\ [][Next]_vars

\* Goroutines are preemptively scheduled, a sync.Mutex that was waited for long
\* enough is handed over in FIFO order (starvation mode), and the ticker ticks.
Fairness ==
    /\ \A t \in Procs : WF_vars(Step(t)) /\ SF_vars(Lock(t))
    /\ WF_vars(Tick(Aggregator))

LiveSpec == Spec /\ Fairness

-----------------------------------------------------------------------------
(* Properties.                                                             *)

PCs == {"idle", "fastGate", "lock", "cachedGate", "group", "scan", "add",
        "fastAdd", "addGroup", "addApprox", "commitOffset", "cacheStore"}
Ops == {"none", "consume", "refund", "commit", "update", "state", "aggregate"}

\* Every field and every local of a call keeps its type.
TypeOK ==
    /\ scalar \in Int /\ committedOffset \in Int
    /\ stripes \in [0..(NumStripes - 1) -> Int]
    /\ hGroupSum \in [0..(HGroups - 1) -> Int]
    /\ approxNet \in Int /\ cachedNet \in Int
    /\ tryMu \in Procs \cup {NoThread}
    /\ chooser \in 0..(NumStripes - 1)
    /\ rr \in 0..(NumStripes - 1)
    /\ groupRR \in 0..(NumStripes - 1)
    /\ closed \in BOOLEAN
    /\ pc \in [Procs -> PCs]
    /\ op \in [Procs -> Ops]
    /\ n \in [Procs -> Int] /\ s \in [Procs -> Int] /\ net \in [Procs -> Int]
    /\ i \in [Procs -> Nat]
    /\ used \in Int

Quiescent == \A t \in Procs : pc[t] = "idle"
Available == scalar - Abs(used - committedOffset)

\* No oversubscription: however TryConsume, TryRefund and Commit interleave, what
\* is admitted and not refunded never exceeds the initial scalar (TryConsume's
\* "ensure no oversubscription under contention").
NoOversubscription == used <= InitialScalar

\* TryRefund ("without making the net vector go negative") and Commit ("move
\* towards zero") never take back or fold in more than the net that is there when
\* they store, although they compute it some steps earlier.
NetNonNegative == committedOffset <= used

\* S_new = S_old - A_net_committed: whenever no call is inside the critical
\* section, the scalar has lost exactly what the offset has gained.
ScalarLaw == tryMu = NoThread => scalar + committedOffset = InitialScalar

\* Commit keeps the availability S - |net|: the availability after its second
\* store is the one that the state without this commit would have had.
CommitPreservesAvailability ==
    [][\A t \in Threads : CommitOffset(t) =>
          Available' = (scalar + Abs(n[t])) - Abs(used - committedOffset)]_vars

\* A TryConsume that returns false was right when it decided: fewer than n units
\* were available in that state.
DenyJustified ==
    [][\A t \in Threads :
          (ConsumeGate(t) \/ CachedGate(t)) /\ pc'[t] = "idle" => Available < n[t]]_vars

\* The three redundant sums agree whenever no call is in flight: the stripes, the
\* cells currentVector scans, and approxNet, each updated by a store of its own.
SumsAgree == Quiescent =>
    /\ SumOver(stripes, 0..(NumStripes - 1)) = used
    /\ SumOver([j \in 0..(NumCells - 1) |-> Cell(j)], 0..(NumCells - 1)) = used
    /\ approxNet = used - committedOffset

\* The exact gate implements the abstract budget.
ExactQuota == INSTANCE Quota WITH
    Limit <- InitialScalar, committed <- committedOffset
ImplementsQuota == ExactQuota!Spec

\* Every call returns: tryMu is released on each of the early returns.
CallsReturn == \A t \in Threads : (pc[t] # "idle") ~> (pc[t] = "idle")

\* When the calls stop and the VSA is not closed, the aggregator brings the cache
\* to the true net for good.
CacheConverges ==
    <>[](~closed /\ \A t \in Threads : pc[t] = "idle")
    => <>[](cachedNet = used - committedOffset)

=============================================================================
