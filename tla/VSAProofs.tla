----------------------------- MODULE VSAProofs -----------------------------
(***************************************************************************)
(* Theorems about VSA, for any number of goroutines, stripes and groups    *)
(* and any amounts.                                                        *)
(***************************************************************************)
EXTENDS VSA, SumProofs

(* The modes the theorems are about: nothing but TryConsume, TryRefund and *)
(* Commit changes the VSA; the gate scans what it decides on; the gate is  *)
(* exact and always taken under the lock.                                  *)
NoUpdates == UpdateAmounts = {}
ScannedGate == NoUpdates /\ ~UseCachedGate
ExactMode == ScannedGate /\ GroupCount <= 1 /\ FastPathGuard = 0

LockedOps == {"consume", "refund", "commit"}

\* t has a call that only the holder of tryMu can be in.
Critical(t) ==
    \/ pc[t] \in {"cachedGate", "group", "add", "commitOffset"}
    \/ pc[t] = "scan" /\ op[t] \in LockedOps
    \/ pc[t] = "addGroup" /\ (op[t] = "refund" \/ FastPathGuard = 0)

\* Control: mutual exclusion, and which call can be at which point.
ControlInv == \A t \in Procs :
    /\ Critical(t) => tryMu = t
    /\ pc[t] = "lock" => op[t] \in LockedOps
    /\ pc[t] \in {"fastGate", "fastAdd"} => op[t] = "consume" /\ FastPathGuard > 0
    /\ pc[t] = "cachedGate" => op[t] = "consume" /\ UseCachedGate
    /\ pc[t] = "group" => op[t] = "consume" /\ GroupCount > 1
    /\ pc[t] \in {"add", "addGroup"} => op[t] \in {"consume", "refund"}
    /\ pc[t] = "commitOffset" => op[t] = "commit"
    /\ pc[t] = "addGroup" => HGroups > 0 /\ i[t] < NumStripes

\* The amounts a call carries, against the totals of the struct.
AmountInv == \A t \in Procs :
    /\ op[t] = "consume" => n[t] > 0
    /\ op[t] = "refund" /\ pc[t] \in {"lock", "scan"} => n[t] > 0
    /\ op[t] = "refund" /\ pc[t] \in {"add", "addGroup"} =>
          n[t] <= 0 /\ committedOffset <= used + n[t]
    /\ pc[t] = "commitOffset" => n[t] <= 0 /\ committedOffset - n[t] <= used
    /\ op[t] = "consume" /\ pc[t] \in {"group", "scan"} => s[t] = scalar
    /\ ExactMode /\ op[t] = "consume" /\ pc[t] \in {"add", "addGroup"} =>
          used + n[t] <= InitialScalar

\* What left the scalar is what entered the offset, a commit half way excepted.
LedgerInv ==
    /\ committedOffset <= used
    /\ (\A t \in Procs : pc[t] # "commitOffset") =>
          scalar + committedOffset = InitialScalar
    /\ \A t \in Procs : pc[t] = "commitOffset" =>
          scalar + committedOffset = InitialScalar + n[t]
    /\ ExactMode => used <= InitialScalar

\* p[k] is the sum of the first k cells, and all of them add up to `used`.
PrefixSums(p) ==
    /\ p \in [0..NumCells -> Int]
    /\ p[0] = 0
    /\ \A k \in 0..(NumCells - 1) : p[k + 1] = p[k] + Cell(k)
    /\ p[NumCells] = used

\* A scan under the lock lags behind the cells it has passed, which only grow
\* meanwhile, and together with the cells still to come it covers the offset;
\* without lock-free writers it is exact.
ScanInv(p) == \A t \in Procs : pc[t] = "scan" /\ op[t] \in LockedOps =>
    /\ i[t] <= NumCells
    /\ net[t] <= p[i[t]]
    /\ committedOffset <= net[t] + used - p[i[t]]
    /\ ExactMode => net[t] = p[i[t]]

CellInv == \E p \in [0..NumCells -> Int] : PrefixSums(p) /\ ScanInv(p)

\* All but the control part, whose preservation is proved on its own.
DataInv == AmountInv /\ LedgerInv /\ CellInv

-----------------------------------------------------------------------------
(* Facts about the operators.                                              *)

\* x % b, as the choosers use it, is an index.
LEMMA ModRange ==
    ASSUME NEW x \in Nat, NEW b \in Nat \ {0}
    PROVE  x % b \in 0..(b - 1)
BY SMT

\* The groups of Stride(g) stripes cover all the stripes, so that idx / hStride
\* is the index of a group.
LEMMA StrideCovers ==
    ASSUME NEW g \in 1..NumStripes, NEW x \in 0..(NumStripes - 1)
    PROVE  x \div Stride(g) \in 0..(g - 1)
<1> DEFINE c == Stride(g)
<1>1. NumStripes \in Nat \ {0} BY ConfigAssumption
<1>2. c \in Nat \ {0} /\ g * c >= NumStripes
  BY <1>1, SMT DEF Stride
<1>3. x < g * c BY <1>1, <1>2, SMT
<1>. QED BY <1>1, <1>2, <1>3, SMT

\* Where the grouped scan starts, and how far it goes.
LEMMA GroupRange ==
    ASSUME groupRR \in Nat, GroupCount > 1
    PROVE  GroupStart \in 0..(NumStripes - 1) /\ GroupEnd \in 0..NumStripes
<1>1. NumStripes \in Nat \ {0} /\ GroupCount \in 0..NumStripes BY ConfigAssumption
<1>2. Stride(GroupCount) \in Nat BY <1>1, SMT DEF Stride
<1>3. groupRR * Stride(GroupCount) \in Nat BY <1>2, SMT
<1>4. GroupStart \in 0..(NumStripes - 1) BY <1>1, <1>3, ModRange DEF GroupStart
<1>. QED BY <1>1, <1>2, <1>4, SMT DEF GroupEnd, MinOf

-----------------------------------------------------------------------------
(* Type correctness.                                                       *)

\* TypeOK, and what it needs to be inductive: only a configured grouped scan is
\* ever entered.
TypeInv == TypeOK /\ \A t \in Procs : pc[t] = "group" => GroupCount > 1

\* What NewWithOptions builds has its types.
LEMMA TypeInit == Init => TypeInv
<1> SUFFICES ASSUME Init PROVE TypeInv
  OBVIOUS
<1>1. closed \in BOOLEAN BY DEF Init
<1>2. TypeOK BY <1>1, ConfigAssumption, SMT DEF Init, TypeOK, PCs, Ops
<1> QED BY <1>2, SMT DEF Init, TypeInv

\* Adding to one entry of a function on integers, wherever it is.
LEMMA AddToEntry ==
    ASSUME NEW S, NEW f \in [S -> Int], NEW x, NEW v \in Int
    PROVE  [f EXCEPT ![x] = f[x] + v] \in [S -> Int]
<1> DEFINE g == [f EXCEPT ![x] = f[x] + v]
<1>1. g = [y \in S |-> IF y = x THEN f[x] + v ELSE f[y]] BY Zenon
<1>2. \A y \in S : (IF y = x THEN f[x] + v ELSE f[y]) \in Int BY SMT
<1> QED BY <1>1, <1>2, Zenon

\* Beginning a call, or a tick, changes only the locals of its goroutine.
LEMMA TypeCall ==
    ASSUME TypeInv, NEW t \in Procs, NEW o \in Ops, NEW a \in Int,
           NEW l \in PCs \ {"group"}, Call(t, o, a, l)
    PROVE  TypeInv'
BY SMT DEF TypeInv, TypeOK, Call, Goto, shared

\* Moving the control of a call elsewhere than into the grouped scan.
LEMMA TypeGoto ==
    ASSUME TypeInv, NEW t \in Procs, NEW l \in PCs \ {"group"},
           pc' = [pc EXCEPT ![t] = l]
    PROVE  /\ pc' \in [Procs -> PCs]
           /\ \A u \in Procs : pc'[u] = "group" => pc[u] = "group"
BY SMT DEF TypeInv, TypeOK

\* A return that stores at most integers in the totals keeps the types.
LEMMA TypeReturn ==
    ASSUME TypeInv, NEW t \in Procs, Return(t),
           scalar' \in Int, committedOffset' \in Int, approxNet' \in Int,
           cachedNet' \in Int,
           UNCHANGED <<stripes, hGroupSum, chooser, rr, groupRR, closed, used>>
    PROVE  TypeInv'
BY SMT DEF TypeInv, TypeOK, Return, PCs, Ops

\* Every step keeps the types.
LEMMA TypeNext == TypeInv /\ [Next]_vars => TypeInv'
<1> SUFFICES ASSUME TypeInv, [Next]_vars PROVE TypeInv'
  OBVIOUS
<1>p. {"scan", "add", "addGroup", "addApprox"} \subseteq PCs \ {"group"}
  BY SMT DEF PCs
<1>c. NumStripes \in Nat \ {0} /\ HGroups \in 0..NumStripes
  BY ConfigAssumption
<1>1. CASE UNCHANGED vars
  BY <1>1, SMT DEF TypeInv, TypeOK, vars, shared, locals
<1>2. ASSUME NEW t \in Threads, Begin(t) PROVE TypeInv'
  <2> t \in Procs BY DEF Procs
  <2>1. CASE CallTryConsume(t)
    <3> PICK a \in ConsumeAmounts :
          Call(t, "consume", a, IF FastPathGuard > 0 THEN "fastGate" ELSE "lock")
      BY <2>1 DEF CallTryConsume
    <3> QED BY TypeCall, ConfigAssumption, SMT DEF PCs, Ops
  <2>2. CASE CallTryRefund(t)
    <3> PICK a \in RefundAmounts : Call(t, "refund", a, "lock")
      BY <2>2 DEF CallTryRefund
    <3> QED BY TypeCall, ConfigAssumption, SMT DEF PCs, Ops
  <2>3. CASE CallCommit(t)
    <3> PICK a \in CommitAmounts : Call(t, "commit", a, "lock")
      BY <2>3 DEF CallCommit
    <3> QED BY TypeCall, ConfigAssumption, SMT DEF PCs, Ops
  <2>4. CASE CallUpdate(t)
    <3> PICK a \in UpdateAmounts : Call(t, "update", a, "fastAdd")
      BY <2>4 DEF CallUpdate
    <3> QED BY TypeCall, ConfigAssumption, SMT DEF PCs, Ops
  <2>5. CASE CallState(t)
    BY <2>5, TypeCall, SMT DEF CallState, PCs, Ops
  <2> QED BY <1>2, <2>1, <2>2, <2>3, <2>4, <2>5 DEF Begin
<1>3. CASE Tick(Aggregator)
  BY <1>3, TypeCall, SMT DEF Tick, PCs, Ops, Procs
<1>4. CASE Close
  BY <1>4, SMT DEF TypeInv, TypeOK, Close, locals
<1>5. ASSUME NEW t \in Procs, Lock(t) PROVE TypeInv'
  <2>1. GroupCount > 1 => GroupStart \in Nat
    BY <1>c, GroupRange, SMT DEF TypeInv, TypeOK
  <2> QED BY <1>5, <2>1, SMT DEF TypeInv, TypeOK, Lock, Goto, shared, PCs
<1>6. ASSUME NEW t \in Procs, Step(t) PROVE TypeInv'
  <2>1. CASE FastGate(t)
    BY <2>1, SMT DEF TypeInv, TypeOK, FastGate, Goto, shared, PCs
  <2>2. CASE CachedGate(t)
    <3>1. CASE Return(t)
      BY <2>2, <3>1, TypeReturn DEF TypeInv, TypeOK, CachedGate, shared
    <3>2. CASE Goto(t, "add") /\ UNCHANGED <<op, n, s, net, i, tryMu>>
      BY <2>2, <3>2, SMT DEF TypeInv, TypeOK, CachedGate, Goto, shared, PCs
    <3> QED BY <2>2, <3>1, <3>2 DEF CachedGate
  <2>3. CASE GroupScan(t)
    <3>1. stripes[i[t]] \in Int
      BY <2>3, <1>c, GroupRange, SMT DEF TypeInv, TypeOK, GroupScan
    <3> QED BY <2>3, <3>1, SMTT(30) DEF TypeInv, TypeOK, GroupScan, shared
  <2>4. CASE GroupGate(t)
    <3>1. groupRR' \in 0..(NumStripes - 1)
      <4>1. groupRR + 1 \in Nat BY <1>c, SMT DEF TypeInv, TypeOK
      <4>2. groupRR' = (groupRR + 1) % NumStripes BY <2>4, Zenon DEF GroupGate
      <4> QED BY <4>1, <4>2, <1>c, ModRange, Zenon
    <3>2. pc' = [pc EXCEPT ![t] = "scan"] \/ pc' = [pc EXCEPT ![t] = "add"]
      BY <2>4, Zenon DEF GroupGate, Goto
    <3>3. /\ net' = [net EXCEPT ![t] = 0]
          /\ i' = [i EXCEPT ![t] = 0]
          /\ UNCHANGED <<op, n, s, tryMu, scalar, committedOffset, stripes,
                         hGroupSum, approxNet, cachedNet, chooser, rr, closed, used>>
      BY <2>4, Zenon DEF GroupGate
    <3>4. pc' \in [Procs -> PCs] /\ \A u \in Procs : pc'[u] = "group" => pc[u] = "group"
      BY <3>2, <1>p, TypeGoto, Zenon
    <3>5. net' \in [Procs -> Int] /\ i' \in [Procs -> Nat]
      BY <3>3, SMT DEF TypeInv, TypeOK
    <3> QED BY <3>1, <3>3, <3>4, <3>5 DEF TypeInv, TypeOK
  <2>5. CASE Scan(t)
    <3>1. Cell(i[t]) \in Int
      BY <2>5, <1>c, SMT DEF TypeInv, TypeOK, Scan, Cell, NumCells
    <3> QED BY <2>5, <3>1, SMTT(30) DEF TypeInv, TypeOK, Scan, shared
  <2>6. CASE ConsumeGate(t)
    <3>1. CASE Return(t)
      BY <2>6, <3>1, TypeReturn DEF TypeInv, TypeOK, ConsumeGate, shared
    <3>2. CASE Goto(t, "add") /\ UNCHANGED <<op, n, s, net, i, tryMu>>
      BY <2>6, <3>2, SMT DEF TypeInv, TypeOK, ConsumeGate, Goto, shared, PCs
    <3> QED BY <2>6, <3>1, <3>2 DEF ConsumeGate
  <2>7. CASE RefundGate(t)
    <3>1. CASE Return(t)
      BY <2>7, <3>1, TypeReturn DEF TypeInv, TypeOK, RefundGate, shared
    <3>2. CASE ~(Vector(t) <= 0)
      <4>1. -MinOf(n[t], Vector(t)) \in Int
        BY SMT DEF TypeInv, TypeOK, MinOf, Vector
      <4>2. /\ n' = [n EXCEPT ![t] = -MinOf(n[t], Vector(t))]
            /\ pc' = [pc EXCEPT ![t] = "add"]
            /\ UNCHANGED <<op, s, net, i, tryMu, shared>>
        BY <2>7, <3>2, Zenon DEF RefundGate, Goto
      <4> QED BY <4>1, <4>2, SMT DEF TypeInv, TypeOK, shared, PCs
    <3> QED BY <2>7, <3>1, <3>2 DEF RefundGate
  <2>8. CASE CommitGate(t)
    <3>1. CASE Return(t) /\ UNCHANGED scalar
      BY <2>8, <3>1, TypeReturn DEF TypeInv, TypeOK, CommitGate
    <3>2. CASE Vector(t) # 0
      <4>1. CommitDelta(n[t], Vector(t)) \in Int
        BY SMTT(30) DEF TypeInv, TypeOK, CommitDelta, MinOf, Vector, Abs
      <4>2. Abs(CommitDelta(n[t], Vector(t))) \in Int
        BY <4>1, SMT DEF Abs
      <4>3. /\ scalar' = scalar - Abs(CommitDelta(n[t], Vector(t)))
            /\ n' = [n EXCEPT ![t] = -CommitDelta(n[t], Vector(t))]
            /\ pc' = [pc EXCEPT ![t] = "commitOffset"]
            /\ UNCHANGED <<op, s, net, i, tryMu, committedOffset, stripes,
                           hGroupSum, approxNet, cachedNet, chooser, rr, groupRR,
                           closed, used>>
        BY <2>8, <3>2, Zenon DEF CommitGate, Goto
      <4>4. scalar' \in Int /\ n' \in [Procs -> Int]
        BY <4>1, <4>2, <4>3, SMTT(30) DEF TypeInv, TypeOK
      <4> QED BY <4>3, <4>4, SMTT(30) DEF TypeInv, TypeOK, PCs
    <3> QED BY <2>8, <3>1, <3>2 DEF CommitGate
  <2>9. CASE CommitOffset(t)
    BY <2>9, SMT DEF TypeInv, TypeOK, CommitOffset, Goto, PCs
  <2>10. CASE StateReturn(t)
    BY <2>10, TypeReturn DEF TypeInv, TypeOK, StateReturn, shared
  <2>11. ASSUME NEW j \in 0..(NumStripes - 1), AddStripe(t, j),
                rr' \in 0..(NumStripes - 1), chooser' \in 0..(NumStripes - 1)
         PROVE  TypeInv'
    <3>1. stripes' \in [0..(NumStripes - 1) -> Int]
      BY <2>11, AddToEntry DEF TypeInv, TypeOK, AddStripe
    <3>2. pc' = [pc EXCEPT ![t] = "addGroup"] \/ pc' = [pc EXCEPT ![t] = "addApprox"]
      BY <2>11, Zenon DEF AddStripe, Goto
    <3>3. used' \in Int
      BY <2>11, SMT DEF TypeInv, TypeOK, AddStripe
    <3>4. /\ i' = [i EXCEPT ![t] = j]
          /\ UNCHANGED <<op, n, s, net, tryMu, scalar, committedOffset, hGroupSum,
                         approxNet, cachedNet, groupRR, closed>>
      BY <2>11, Zenon DEF AddStripe
    <3>5. pc' \in [Procs -> PCs] /\ \A u \in Procs : pc'[u] = "group" => pc[u] = "group"
      BY <3>2, <1>p, TypeGoto, Zenon
    <3>6. i' \in [Procs -> Nat] BY <3>4, SMT DEF TypeInv, TypeOK
    <3> QED BY <2>11, <3>1, <3>3, <3>4, <3>5, <3>6 DEF TypeInv, TypeOK
  <2>12. CASE Add(t)
    <3>1. rr' \in 0..(NumStripes - 1)
      BY <2>12, <1>c, ModRange DEF TypeInv, TypeOK, Add
    <3> QED BY <2>12, <2>11, <3>1 DEF TypeInv, TypeOK, Add
  <2>13. CASE FastAdd(t)
    <3>1. chooser' \in 0..(NumStripes - 1)
      BY <2>13, <1>c, ModRange, SMTT(30) DEF TypeInv, TypeOK, FastAdd
    <3> QED BY <2>13, <2>11, <3>1 DEF TypeInv, TypeOK, FastAdd
  <2>14. CASE AddGroup(t)
    <3>1. hGroupSum' \in [0..(HGroups - 1) -> Int]
      BY <2>14, AddToEntry DEF TypeInv, TypeOK, AddGroup
    <3>2. /\ used' = used + n[t]
          /\ pc' = [pc EXCEPT ![t] = "addApprox"]
          /\ UNCHANGED <<op, n, s, net, i, tryMu, scalar, committedOffset, stripes,
                         approxNet, cachedNet, chooser, rr, groupRR, closed>>
      BY <2>14, Zenon DEF AddGroup, Goto
    <3> QED BY <3>1, <3>2, SMTT(30) DEF TypeInv, TypeOK, PCs
  <2>15. CASE AddApprox(t)
    <3>1. approxNet' \in Int BY <2>15, SMT DEF TypeInv, TypeOK, AddApprox
    <3> QED BY <2>15, <3>1, TypeReturn DEF TypeInv, TypeOK, AddApprox
  <2>16. CASE CacheLoad(t)
    BY <2>16, SMT DEF TypeInv, TypeOK, CacheLoad, Goto, shared, PCs, Vector
  <2>17. CASE CacheStore(t)
    BY <2>17, TypeReturn DEF TypeInv, TypeOK, CacheStore
  <2> QED BY <1>6, <2>1, <2>2, <2>3, <2>4, <2>5, <2>6, <2>7, <2>8, <2>9, <2>10,
             <2>12, <2>13, <2>14, <2>15, <2>16, <2>17 DEF Step
<1> QED BY <1>1, <1>2, <1>3, <1>4, <1>5, <1>6 DEF Next

\* Every field and local of the VSA keeps its type, whatever the options are.
THEOREM TypeCorrect == Spec => []TypeOK
<1>1. TypeInv => TypeOK BY DEF TypeInv
<1> QED BY <1>1, TypeInit, TypeNext, PTL DEF Spec

-----------------------------------------------------------------------------
(* Control: only the holder of tryMu is inside the critical section.       *)

\* Nobody is in a call, and tryMu is free.
LEMMA ControlInit == Init => ControlInv
BY SMT DEF Init, ControlInv, Critical

\* The unlock of a return leaves nobody behind in the critical section.
LEMMA ControlReturn ==
    ASSUME TypeInv, ControlInv, NEW t \in Procs, Return(t)
    PROVE  ControlInv'
BY SMT DEF TypeInv, TypeOK, ControlInv, Critical, Return, LockedOps

\* Every step of TryConsume, TryRefund, Commit and the readers keeps the control invariant.
LEMMA ControlNext ==
    ASSUME NoUpdates, TypeInv, ControlInv, [Next]_vars
    PROVE  ControlInv'
<1> USE DEF TypeInv, TypeOK, ControlInv, Critical, LockedOps
<1>c. NumStripes \in Nat \ {0} BY ConfigAssumption
<1>1. CASE UNCHANGED vars
  BY <1>1, SMT DEF vars, shared, locals
<1>2. ASSUME NEW t \in Threads, Begin(t) PROVE ControlInv'
  <2> t \in Procs BY DEF Procs
  <2>1. CASE CallTryConsume(t)
    <3>1. CASE FastPathGuard > 0
      BY <2>1, <3>1, SMTT(30) DEF CallTryConsume, Call, Goto
    <3>2. CASE ~(FastPathGuard > 0)
      BY <2>1, <3>2, SMT DEF CallTryConsume, Call, Goto
    <3> QED BY <3>1, <3>2
  <2>2. CASE CallTryRefund(t)
    BY <2>2, SMT DEF CallTryRefund, Call, Goto
  <2>3. CASE CallCommit(t)
    BY <2>3, SMT DEF CallCommit, Call, Goto
  <2>4. CASE CallUpdate(t)
    BY <2>4 DEF CallUpdate, NoUpdates
  <2>5. CASE CallState(t)
    BY <2>5, SMTT(30) DEF CallState, Call, Goto
  <2> QED BY <1>2, <2>1, <2>2, <2>3, <2>4, <2>5 DEF Begin
<1>3. CASE Tick(Aggregator)
  BY <1>3, SMT DEF Tick, Call, Goto, Procs
<1>4. CASE Close
  BY <1>4, SMT DEF Close, locals
<1>5. ASSUME NEW t \in Procs, Lock(t) PROVE ControlInv'
  <2>1. /\ pc[t] = "lock" /\ tryMu = NoThread /\ tryMu' = t /\ UNCHANGED op
    BY <1>5, Zenon DEF Lock
  <2>2. \/ pc' = [pc EXCEPT ![t] = "scan"]
        \/ pc' = [pc EXCEPT ![t] = "cachedGate"] /\ op[t] = "consume" /\ UseCachedGate
        \/ pc' = [pc EXCEPT ![t] = "group"] /\ op[t] = "consume" /\ GroupCount > 1
    BY <1>5, Zenon DEF Lock, Goto
  <2>3. \A u \in Procs \ {t} : i'[u] = i[u]
    BY <1>5, SMT DEF Lock
  <2>4. NoThread \notin Procs BY ConfigAssumption DEF Procs
  <2> QED BY <2>1, <2>2, <2>3, <2>4, SMT
<1>6. ASSUME NEW t \in Procs, Step(t) PROVE ControlInv'
  <2>1. CASE FastGate(t)
    BY <2>1, SMTT(30) DEF FastGate, Goto
  <2>2. CASE CachedGate(t)
    <3>1. CASE Return(t) BY <3>1, ControlReturn
    <3>2. CASE Goto(t, "add") /\ UNCHANGED <<op, n, s, net, i, tryMu>>
      BY <2>2, <3>2, SMT DEF CachedGate, Goto
    <3> QED BY <2>2, <3>1, <3>2 DEF CachedGate
  <2>3. CASE GroupScan(t)
    BY <2>3, SMT DEF GroupScan
  <2>4. CASE GroupGate(t)
    <3>1. pc' = [pc EXCEPT ![t] = "scan"] \/ pc' = [pc EXCEPT ![t] = "add"]
      BY <2>4, Zenon DEF GroupGate, Goto
    <3> QED BY <2>4, <3>1, SMT DEF GroupGate
  <2>5. CASE Scan(t)
    BY <2>5, SMT DEF Scan
  <2>6. CASE ConsumeGate(t)
    <3>1. CASE Return(t) BY <3>1, ControlReturn
    <3>2. CASE Goto(t, "add") /\ UNCHANGED <<op, n, s, net, i, tryMu>>
      BY <2>6, <3>2, SMT DEF ConsumeGate, Scanned, Goto
    <3> QED BY <2>6, <3>1, <3>2 DEF ConsumeGate
  <2>7. CASE RefundGate(t)
    <3>1. CASE Return(t) BY <3>1, ControlReturn
    <3>2. CASE Goto(t, "add") /\ UNCHANGED <<op, s, net, i, tryMu>>
      BY <2>7, <3>2, SMT DEF RefundGate, Scanned, Goto
    <3> QED BY <2>7, <3>1, <3>2 DEF RefundGate
  <2>8. CASE CommitGate(t)
    <3>1. CASE Return(t) BY <3>1, ControlReturn
    <3>2. CASE Goto(t, "commitOffset") /\ UNCHANGED <<op, s, net, i, tryMu>>
      BY <2>8, <3>2, SMT DEF CommitGate, Scanned, Goto
    <3> QED BY <2>8, <3>1, <3>2 DEF CommitGate
  <2>9. CASE CommitOffset(t)
    BY <2>9, SMT DEF CommitOffset, Goto
  <2>10. CASE StateReturn(t)
    BY <2>10, ControlReturn DEF StateReturn
  <2>11. ASSUME NEW j \in 0..(NumStripes - 1), AddStripe(t, j),
                pc[t] \in {"add", "fastAdd"}
         PROVE  ControlInv'
    <3>1. \/ pc' = [pc EXCEPT ![t] = "addGroup"] /\ HGroups > 0
          \/ pc' = [pc EXCEPT ![t] = "addApprox"]
      BY <2>11, Zenon DEF AddStripe, Goto
    <3>2. i' = [i EXCEPT ![t] = j] /\ UNCHANGED <<op, tryMu>>
      BY <2>11, Zenon DEF AddStripe
    <3> QED BY <2>11, <3>1, <3>2, <1>c, SMTT(30)
  <2>12. CASE Add(t)
    BY <2>12, <2>11, Zenon DEF Add
  <2>13. CASE FastAdd(t)
    <3>1. chooser + 1 \in Nat BY <1>c, SMT
    <3>2. (chooser + 1) % NumStripes \in 0..(NumStripes - 1)
      BY <3>1, <1>c, ModRange
    <3> QED BY <2>13, <2>11, <3>2 DEF FastAdd
  <2>14. CASE AddGroup(t)
    BY <2>14, SMTT(30) DEF AddGroup, Goto
  <2>15. CASE AddApprox(t)
    BY <2>15, ControlReturn DEF AddApprox
  <2>16. CASE CacheLoad(t)
    BY <2>16, SMT DEF CacheLoad, Scanned, Goto
  <2>17. CASE CacheStore(t)
    BY <2>17, ControlReturn DEF CacheStore
  <2> QED BY <1>6, <2>1, <2>2, <2>3, <2>4, <2>5, <2>6, <2>7, <2>8, <2>9, <2>10,
             <2>12, <2>13, <2>14, <2>15, <2>16, <2>17 DEF Step
<1> QED BY <1>1, <1>2, <1>3, <1>4, <1>5, <1>6 DEF Next

-----------------------------------------------------------------------------
(* Amounts, ledger and cells.                                              *)

\* What a finished scan under the lock has found.
LEMMA ScanDone ==
    ASSUME TypeInv, CellInv, NEW t \in Procs, NEW o \in LockedOps, Scanned(t, o)
    PROVE  /\ committedOffset <= net[t]
           /\ net[t] <= used
           /\ ExactMode => net[t] = used
<1>1. NumCells \in Nat BY ConfigAssumption, SMT DEF NumCells
<1>2. PICK p \in [0..NumCells -> Int] : PrefixSums(p) /\ ScanInv(p)
  BY DEF CellInv
<1>3. i[t] <= NumCells BY <1>2, Zenon DEF ScanInv, Scanned
<1>4. i[t] = NumCells BY <1>1, <1>3, SMT DEF Scanned, TypeInv, TypeOK
<1>5. /\ net[t] <= p[NumCells]
      /\ committedOffset <= net[t] + used - p[NumCells]
      /\ ExactMode => net[t] = p[NumCells]
  BY <1>2, <1>4, Zenon DEF ScanInv, Scanned
<1>6. p[NumCells] = used BY <1>2 DEF PrefixSums
<1> QED BY <1>5, <1>6, SMT DEF TypeInv, TypeOK

\* What currentVector loads is an integer.
LEMMA CellType ==
    ASSUME TypeInv
    PROVE  \A k \in 0..(NumCells - 1) : Cell(k) \in Int
<1>1. NumStripes \in Nat \ {0} /\ HGroups \in 0..NumStripes BY ConfigAssumption
<1>2. /\ stripes \in [0..(NumStripes - 1) -> Int]
      /\ hGroupSum \in [0..(HGroups - 1) -> Int]
  BY DEF TypeInv, TypeOK
<1> QED BY <1>1, <1>2, SMT DEF Cell, NumCells

\* Adding d to one cell, and to the total, shifts the later prefix sums by d.
LEMMA PrefixAdd ==
    ASSUME TypeInv, TypeInv', NEW p \in [0..NumCells -> Int], PrefixSums(p),
           NEW j \in 0..(NumCells - 1), NEW d \in Int,
           \A k \in 0..(NumCells - 1) :
              Cell(k)' = IF k = j THEN Cell(k) + d ELSE Cell(k),
           used' = used + d
    PROVE  PrefixSums([k \in 0..NumCells |-> IF k > j THEN p[k] + d ELSE p[k]])'
<1> DEFINE q == [k \in 0..NumCells |-> IF k > j THEN p[k] + d ELSE p[k]]
<1>1. NumCells \in Nat BY ConfigAssumption, SMT DEF NumCells
<1>2. \A k \in 0..(NumCells - 1) : Cell(k) \in Int
  BY CellType
<1>3. q \in [0..NumCells -> Int] BY SMT
<1>4. q[0] = 0 BY <1>1, SMT DEF PrefixSums
<1>5. ASSUME NEW k \in 0..(NumCells - 1) PROVE q[k + 1] = q[k] + Cell(k)'
  <2>1. p[k + 1] = p[k] + Cell(k) BY DEF PrefixSums
  <2> QED BY <1>1, <1>2, <2>1, SMT
<1>6. q[NumCells] = used' BY <1>1, SMT DEF PrefixSums
<1> HIDE DEF q
<1>7. PrefixSums(q)' BY <1>3, <1>4, <1>5, <1>6 DEF PrefixSums
<1> QED BY <1>7 DEF q

\* Nothing but locals changes: the cells keep their prefix sums.
LEMMA PrefixSame ==
    ASSUME UNCHANGED <<stripes, hGroupSum, used>>, NEW p, PrefixSums(p)
    PROVE  PrefixSums(p)'
BY DEF PrefixSums, Cell

\* A new VSA: all sums are 0.
LEMMA DataInit == Init => DataInv
<1> SUFFICES ASSUME Init PROVE DataInv
  OBVIOUS
<1>1. NumCells \in Nat BY ConfigAssumption, SMT DEF NumCells
<1>2. AmountInv BY SMT DEF Init, AmountInv
<1>3. LedgerInv BY ConfigAssumption, SMT DEF Init, LedgerInv
<1> DEFINE p == [k \in 0..NumCells |-> 0]
<1>4. p \in [0..NumCells -> Int] BY SMT
<1>5. \A k \in 0..(NumCells - 1) : Cell(k) = 0
  BY ConfigAssumption, SMT DEF Init, Cell, NumCells
<1>6. PrefixSums(p) BY <1>1, <1>4, <1>5, SMT DEF PrefixSums, Init
<1>7. ScanInv(p) BY SMT DEF Init, ScanInv
<1>8. CellInv BY <1>4, <1>6, <1>7 DEF CellInv
<1> QED BY <1>2, <1>3, <1>8 DEF DataInv

\* A step changes the locals of no goroutine but t.
OthersKept(t) == \A u \in Procs \ {t} :
    /\ pc'[u] = pc[u] /\ op'[u] = op[u] /\ n'[u] = n[u]
    /\ s'[u] = s[u] /\ net'[u] = net[u] /\ i'[u] = i[u]

\* A step of t that leaves the totals alone keeps the invariant if it keeps t's
\* own part of it.
LEMMA DataLocal ==
    ASSUME TypeInv, TypeInv', DataInv, NEW t \in Procs,
           UNCHANGED <<scalar, committedOffset, stripes, hGroupSum, used>>,
           OthersKept(t), pc[t] # "commitOffset", pc'[t] # "commitOffset",
           op'[t] = "consume" => n'[t] > 0,
           op'[t] = "refund" /\ pc'[t] \in {"lock", "scan"} => n'[t] > 0,
           op'[t] = "refund" /\ pc'[t] \in {"add", "addGroup"} =>
              n'[t] <= 0 /\ committedOffset <= used + n'[t],
           op'[t] = "consume" /\ pc'[t] \in {"group", "scan"} => s'[t] = scalar,
           ExactMode /\ op'[t] = "consume" /\ pc'[t] \in {"add", "addGroup"} =>
              used + n'[t] <= InitialScalar,
           \A p \in [0..NumCells -> Int] : PrefixSums(p) /\ ScanInv(p) =>
              (pc'[t] = "scan" /\ op'[t] \in LockedOps =>
                 /\ i'[t] <= NumCells
                 /\ net'[t] <= p[i'[t]]
                 /\ committedOffset <= net'[t] + used - p[i'[t]]
                 /\ ExactMode => net'[t] = p[i'[t]])
    PROVE  DataInv'
<1>1. AmountInv' BY SMT DEF DataInv, AmountInv, OthersKept
<1>2. LedgerInv'
  <2>1. \A u \in Procs : (pc'[u] = "commitOffset") <=> (pc[u] = "commitOffset")
    BY SMT DEF OthersKept
  <2>2. \A u \in Procs : pc[u] = "commitOffset" => n'[u] = n[u]
    BY SMT DEF OthersKept
  <2> QED BY <2>1, <2>2, Zenon DEF DataInv, LedgerInv
<1>3. CellInv'
  <2>1. PICK p \in [0..NumCells -> Int] : PrefixSums(p) /\ ScanInv(p)
    BY DEF DataInv, CellInv
  <2>2. PrefixSums(p)' BY <2>1, PrefixSame
  <2>3. ScanInv(p)'
    <3> SUFFICES ASSUME NEW u \in Procs, pc'[u] = "scan", op'[u] \in LockedOps
        PROVE  /\ i'[u] <= NumCells
               /\ net'[u] <= p[i'[u]]
               /\ committedOffset' <= net'[u] + used' - p[i'[u]]
               /\ ExactMode => net'[u] = p[i'[u]]
      BY Zenon DEF ScanInv, NumCells
    <3>1. CASE u = t BY <2>1, <3>1
    <3>2. CASE u # t BY <2>1, <3>2 DEF ScanInv, OthersKept
    <3> QED BY <3>1, <3>2
  <2> QED BY <2>2, <2>3 DEF CellInv, NumCells
<1> QED BY <1>1, <1>2, <1>3 DEF DataInv

\* A return that stores nothing keeps the amounts, the ledger and the cells.
LEMMA DataReturn ==
    ASSUME TypeInv, TypeInv', DataInv, NEW t \in Procs, pc[t] # "commitOffset",
           Return(t), UNCHANGED <<scalar, committedOffset, stripes, hGroupSum, used>>
    PROVE  DataInv'
<1>1. /\ pc'[t] = "idle" /\ op'[t] = "none"
      /\ OthersKept(t)
  BY SMT DEF OthersKept, Return, TypeInv, TypeOK
<1> QED BY <1>1, DataLocal

\* Two goroutines cannot both be inside the critical section.
LEMMA Exclusion ==
    ASSUME ControlInv, NEW t \in Procs, NEW u \in Procs, Critical(t), Critical(u)
    PROVE  u = t
BY DEF ControlInv

\* A scan that lags stays within its bounds when a cell grows, passed or not.
LEMMA LagShift ==
    ASSUME NEW v \in Int, NEW P \in Int, NEW c \in Int, NEW U \in Int, NEW d \in Int,
           NEW Q, Q = P \/ Q = P + d, d > 0, v <= P, c <= v + U - P
    PROVE  v <= Q /\ c <= v + (U + d) - Q
BY SMT

\* Adding n[t] to the cell j and to the total.
LEMMA DataAdd ==
    ASSUME TypeInv, TypeInv', ControlInv, DataInv, NEW t \in Procs,
           pc[t] \in {"add", "fastAdd", "addGroup"},
           pc' = [pc EXCEPT ![t] = "addApprox"],
           UNCHANGED <<op, n, s, net, scalar, committedOffset>>,
           \A u \in Procs \ {t} : i'[u] = i[u],
           NEW j \in 0..(NumCells - 1),
           \A k \in 0..(NumCells - 1) :
              Cell(k)' = IF k = j THEN Cell(k) + n[t] ELSE Cell(k),
           used' = used + n[t]
    PROVE  DataInv'
<1>0. /\ pc \in [Procs -> PCs] /\ op \in [Procs -> Ops]
      /\ n \in [Procs -> Int] /\ net \in [Procs -> Int] /\ i \in [Procs -> Nat]
      /\ used \in Int /\ committedOffset \in Int /\ scalar \in Int
      /\ InitialScalar \in Nat /\ FastPathGuard \in Nat
  BY ConfigAssumption DEF TypeInv, TypeOK
<1>1. ASSUME NEW u \in Procs, u # t, Critical(u)
      PROVE  n[t] > 0 /\ ~ExactMode
  <2>1. ~Critical(t) BY <1>1, Exclusion
  <2>2. op[t] = "consume" /\ FastPathGuard # 0
    BY <1>0, <2>1, SMT DEF Critical, ControlInv
  <2> QED BY <2>2 DEF DataInv, AmountInv, ExactMode
<1>2. committedOffset <= used'
  <2>1. CASE op[t] = "consume"
    BY <1>0, <2>1, SMT DEF DataInv, AmountInv, LedgerInv
  <2>2. CASE op[t] = "refund"
    BY <1>0, <2>2, SMT DEF DataInv, AmountInv, ControlInv
  <2> QED BY <2>1, <2>2, SMT DEF ControlInv
<1>3. ExactMode => used' <= InitialScalar
  <2>0. SUFFICES ASSUME ExactMode PROVE used' <= InitialScalar
    OBVIOUS
  <2>1. CASE op[t] = "consume"
    <3>1. pc[t] # "fastAdd" BY <2>0, SMT DEF ControlInv, ExactMode
    <3> QED BY <1>0, <2>0, <2>1, <3>1, SMT DEF DataInv, AmountInv
  <2>2. CASE op[t] = "refund"
    <3>1. pc[t] # "fastAdd" BY <2>2, SMT DEF ControlInv
    <3> QED BY <1>0, <2>0, <2>2, <3>1, SMT DEF DataInv, AmountInv, LedgerInv
  <2> QED BY <2>1, <2>2, SMT DEF ControlInv
<1>4. /\ pc'[t] = "addApprox"
      /\ \A u \in Procs \ {t} : pc'[u] = pc[u]
  BY <1>0, SMT
<1>5. AmountInv'
  <2>1. ASSUME NEW u \in Procs, u # t, op[u] = "refund", pc[u] \in {"add", "addGroup"}
        PROVE  committedOffset <= used' + n[u]
    <3>1. Critical(u) BY <2>1 DEF Critical
    <3> QED BY <1>0, <1>1, <2>1, <3>1, SMT DEF DataInv, AmountInv
  <2>2. ASSUME NEW u \in Procs, u # t, pc[u] = "commitOffset"
        PROVE  committedOffset - n[u] <= used'
    <3>1. Critical(u) BY <2>2 DEF Critical
    <3> QED BY <1>0, <1>1, <2>2, <3>1, SMT DEF DataInv, AmountInv
  <2>3. ASSUME NEW u \in Procs, u # t, ExactMode, op[u] = "consume",
               pc[u] \in {"add", "addGroup"}
        PROVE  FALSE
    <3>1. Critical(u) BY <2>3 DEF Critical, ExactMode
    <3> QED BY <1>1, <2>3, <3>1
  <2> QED BY <1>0, <1>4, <2>1, <2>2, <2>3, SMT DEF DataInv, AmountInv
<1>6. LedgerInv'
  <2>1. \A u \in Procs : (pc'[u] = "commitOffset") <=> (pc[u] = "commitOffset")
    BY <1>4
  <2> QED BY <1>0, <1>2, <1>3, <2>1, SMT DEF DataInv, LedgerInv
<1>7. CellInv'
  <2>1. PICK p \in [0..NumCells -> Int] : PrefixSums(p) /\ ScanInv(p)
    BY DEF DataInv, CellInv
  <2>d. PICK d \in Int : d = n[t] BY <1>0
  <2> DEFINE q == [k \in 0..NumCells |-> IF k > j THEN p[k] + d ELSE p[k]]
  <2>2. NumCells \in Nat BY ConfigAssumption, SMT DEF NumCells
  <2>3. PrefixSums(q)' BY <2>d, <2>1, PrefixAdd
  <2>4. q \in [0..NumCells -> Int] BY <1>0, <2>1, SMT
  <2> HIDE DEF q
  <2>5. ScanInv(q)'
    <3> SUFFICES ASSUME NEW u \in Procs, pc'[u] = "scan", op'[u] \in LockedOps
        PROVE  /\ i'[u] <= NumCells
               /\ net'[u] <= q[i'[u]]
               /\ committedOffset' <= net'[u] + used' - q[i'[u]]
               /\ ExactMode => net'[u] = q[i'[u]]
      BY Zenon DEF ScanInv, NumCells
    <3>1. u # t /\ pc[u] = "scan" /\ op[u] \in LockedOps BY <1>4
    <3>2. Critical(u) BY <3>1 DEF Critical
    <3>3. n[t] > 0 /\ ~ExactMode BY <1>1, <3>1, <3>2
    <3>4. /\ i[u] <= NumCells /\ net[u] <= p[i[u]]
          /\ committedOffset <= net[u] + used - p[i[u]]
      BY <2>1, <3>1 DEF ScanInv
    <3>5. i'[u] = i[u] BY <3>1
    <3>6. i[u] \in 0..NumCells BY <1>0, <2>2, <3>4, SMT
    <3>7. q[i[u]] = IF i[u] > j THEN p[i[u]] + d ELSE p[i[u]] BY <3>6 DEF q
    <3>8. p[i[u]] \in Int /\ n[t] \in Int /\ net[u] \in Int BY <1>0, <2>1, <3>6
    <3>9. /\ net[u] <= q[i[u]]
          /\ committedOffset <= net[u] + used' - q[i[u]]
      <4>1. q[i[u]] = p[i[u]] \/ q[i[u]] = p[i[u]] + d BY <3>7
      <4>2. used' = used + d /\ d > 0 BY <2>d, <3>3
      <4>3. /\ net[u] <= q[i[u]]
            /\ committedOffset <= net[u] + (used + d) - q[i[u]]
        BY <1>0, <2>d, <3>4, <3>8, <4>1, <4>2, LagShift, Zenon
      <4> QED BY <4>2, <4>3
    <3> QED BY <3>3, <3>4, <3>5, <3>9
  <2> QED BY <2>3, <2>4, <2>5 DEF CellInv, NumCells
<1> QED BY <1>5, <1>6, <1>7 DEF DataInv

\* Beginning a call.
LEMMA DataCall ==
    ASSUME TypeInv, TypeInv', DataInv, NEW t \in Procs, NEW o \in Ops, NEW a \in Int,
           NEW l \in PCs \ {"group", "add", "addGroup", "commitOffset"},
           l = "scan" => o \notin LockedOps,
           o \in {"consume", "refund"} => a > 0,
           Call(t, o, a, l)
    PROVE  DataInv'
<1>1. /\ pc'[t] = l /\ op'[t] = o /\ n'[t] = a /\ pc[t] = "idle"
      /\ OthersKept(t)
      /\ UNCHANGED <<scalar, committedOffset, stripes, hGroupSum, used>>
  BY SMT DEF Call, Goto, OthersKept, shared, TypeInv, TypeOK
<1>2. {"consume", "refund"} \subseteq LockedOps BY DEF LockedOps
<1>3. "consume" = o /\ l = "scan" => FALSE BY <1>2
<1> QED BY <1>1, <1>2, <1>3, DataLocal

\* A step of t's scan: the next cell.
LEMMA ScanStep ==
    ASSUME TypeInv, NEW t \in Procs, Scan(t), op[t] \in LockedOps,
           NEW p \in [0..NumCells -> Int], PrefixSums(p), ScanInv(p)
    PROVE  /\ i'[t] <= NumCells
           /\ net'[t] <= p[i'[t]]
           /\ committedOffset <= net'[t] + used - p[i'[t]]
           /\ ExactMode => net'[t] = p[i'[t]]
<1>1. /\ i[t] \in Nat /\ net[t] \in Int /\ used \in Int /\ committedOffset \in Int
      /\ NumCells \in Nat
  BY ConfigAssumption, SMT DEF TypeInv, TypeOK, NumCells
<1>2. /\ i[t] < NumCells /\ pc[t] = "scan"
      /\ net'[t] = net[t] + Cell(i[t]) /\ i'[t] = i[t] + 1
  BY SMT DEF Scan, TypeInv, TypeOK
<1>3. i[t] \in 0..(NumCells - 1) BY <1>1, <1>2, SMT
<1>4. p[i[t] + 1] = p[i[t]] + Cell(i[t]) BY <1>3 DEF PrefixSums
<1>5. Cell(i[t]) \in Int BY <1>3, CellType
<1>6. /\ net[t] <= p[i[t]]
      /\ committedOffset <= net[t] + used - p[i[t]]
      /\ ExactMode => net[t] = p[i[t]]
  BY <1>2 DEF ScanInv
<1>7. p[i[t]] \in Int BY <1>1, <1>3, SMT
<1>8. i'[t] <= NumCells BY <1>1, <1>2, SMT
<1>9. p[i'[t]] = p[i[t]] + Cell(i[t]) BY <1>2, <1>4
<1>10. net'[t] <= p[i'[t]] BY <1>1, <1>2, <1>5, <1>6, <1>7, <1>9, SMT
<1>11. committedOffset <= net'[t] + used - p[i'[t]]
  BY <1>1, <1>2, <1>5, <1>6, <1>7, <1>9, SMTT(30)
<1>12. ExactMode => net'[t] = p[i'[t]] BY <1>2, <1>6, <1>9
<1> QED BY <1>8, <1>10, <1>11, <1>12

\* Commit's first store, at the end of its scan.
LEMMA DataCommitGate ==
    ASSUME TypeInv, TypeInv', ControlInv, DataInv, NEW t \in Procs,
           Scanned(t, "commit"), Vector(t) # 0,
           scalar' = scalar - Abs(CommitDelta(n[t], Vector(t))),
           n' = [n EXCEPT ![t] = -CommitDelta(n[t], Vector(t))],
           pc' = [pc EXCEPT ![t] = "commitOffset"],
           UNCHANGED <<op, s, net, i, committedOffset, stripes, hGroupSum, used>>
    PROVE  DataInv'
<1> DEFINE delta == CommitDelta(n[t], Vector(t))
<1>0. /\ pc \in [Procs -> PCs] /\ n \in [Procs -> Int] /\ net \in [Procs -> Int]
      /\ used \in Int /\ committedOffset \in Int /\ scalar \in Int
      /\ InitialScalar \in Nat
  BY ConfigAssumption DEF TypeInv, TypeOK
<1>1. "commit" \in LockedOps BY DEF LockedOps
<1>2. committedOffset <= net[t] /\ net[t] <= used BY <1>1, ScanDone DEF DataInv
<1>3. Vector(t) \in Int /\ Vector(t) > 0 /\ Vector(t) <= used - committedOffset
  BY <1>0, <1>2, SMT DEF Vector
<1>4. delta \in Int /\ 0 <= delta /\ delta <= Vector(t)
  BY <1>0, <1>3, SMT DEF CommitDelta, MinOf, Abs
<1>5. Abs(delta) = delta BY <1>4, SMT DEF Abs
<1> HIDE DEF delta
<1>6. /\ scalar' = scalar - delta /\ n'[t] = -delta /\ pc'[t] = "commitOffset"
      /\ \A u \in Procs \ {t} : n'[u] = n[u] /\ pc'[u] = pc[u]
  BY <1>0, <1>5, SMT DEF delta
<1>7. Critical(t) BY <1>1 DEF Critical, Scanned
<1>8. \A u \in Procs \ {t} : ~Critical(u) BY <1>7, Exclusion
<1>9. \A u \in Procs \ {t} :
        /\ pc[u] \notin {"group", "add", "commitOffset"}
        /\ ~(pc[u] = "scan" /\ op[u] \in LockedOps)
        /\ ~(pc[u] = "addGroup" /\ (op[u] = "refund" \/ FastPathGuard = 0))
  BY <1>8 DEF Critical
<1>10. op[t] = "commit" /\ pc[t] = "scan" BY DEF Scanned
<1>11. AmountInv'
  <2> SUFFICES ASSUME NEW u \in Procs PROVE
        /\ op[u] = "consume" => n'[u] > 0
        /\ op[u] = "refund" /\ pc'[u] \in {"lock", "scan"} => n'[u] > 0
        /\ op[u] = "refund" /\ pc'[u] \in {"add", "addGroup"} =>
              n'[u] <= 0 /\ committedOffset <= used + n'[u]
        /\ pc'[u] = "commitOffset" => n'[u] <= 0 /\ committedOffset - n'[u] <= used
        /\ op[u] = "consume" /\ pc'[u] \in {"group", "scan"} => s[u] = scalar'
        /\ ExactMode /\ op[u] = "consume" /\ pc'[u] \in {"add", "addGroup"} =>
              used + n'[u] <= InitialScalar
    BY Zenon DEF AmountInv
  <2>1. CASE u = t
    <3>1. -delta <= 0 /\ committedOffset - (-delta) <= used
      BY <1>0, <1>3, <1>4, SMT
    <3> QED BY <2>1, <3>1, <1>6, <1>10
  <2>2. CASE u # t
    <3>1. "consume" \in LockedOps BY DEF LockedOps
    <3>2. ~(op[u] = "consume" /\ pc[u] \in {"group", "scan"}) BY <1>9, <2>2, <3>1
    <3> QED BY <1>6, <1>9, <2>2, <3>2 DEF DataInv, AmountInv, ExactMode
  <2> QED BY <2>1, <2>2
<1>12. LedgerInv'
  <2>1. \A u \in Procs : pc[u] # "commitOffset" BY <1>9, <1>10
  <2>2. scalar + committedOffset = InitialScalar BY <2>1 DEF DataInv, LedgerInv
  <2>3. scalar' + committedOffset = InitialScalar + n'[t]
    BY <1>0, <1>4, <1>6, <2>2, SMT
  <2>4. \A u \in Procs : pc'[u] = "commitOffset" => u = t BY <1>6, <2>1
  <2> QED BY <1>6, <2>3, <2>4 DEF DataInv, LedgerInv
<1>13. CellInv'
  <2>1. PICK p \in [0..NumCells -> Int] : PrefixSums(p) /\ ScanInv(p)
    BY DEF DataInv, CellInv
  <2>2. PrefixSums(p)' BY <2>1, PrefixSame
  <2>3. ScanInv(p)' BY <1>6, <1>9, Zenon DEF ScanInv
  <2> QED BY <2>2, <2>3 DEF CellInv, NumCells
<1> QED BY <1>11, <1>12, <1>13 DEF DataInv

\* Commit's second store.
LEMMA DataCommitOffset ==
    ASSUME TypeInv, TypeInv', ControlInv, DataInv, NEW t \in Procs, CommitOffset(t)
    PROVE  DataInv'
<1>0. /\ pc \in [Procs -> PCs] /\ n \in [Procs -> Int]
      /\ used \in Int /\ committedOffset \in Int /\ scalar \in Int
      /\ InitialScalar \in Nat
  BY ConfigAssumption DEF TypeInv, TypeOK
<1>1. /\ pc[t] = "commitOffset" /\ committedOffset' = committedOffset - n[t]
      /\ pc'[t] = "addApprox" /\ \A u \in Procs \ {t} : pc'[u] = pc[u]
      /\ UNCHANGED <<op, n, s, net, i, scalar, stripes, hGroupSum, used>>
  BY <1>0, SMT DEF CommitOffset, Goto
<1>2. Critical(t) BY <1>1 DEF Critical
<1>3. \A u \in Procs \ {t} : ~Critical(u) BY <1>2, Exclusion
<1>4. \A u \in Procs \ {t} :
        /\ pc[u] \notin {"group", "add", "commitOffset"}
        /\ ~(pc[u] = "scan" /\ op[u] \in LockedOps)
        /\ ~(pc[u] = "addGroup" /\ (op[u] = "refund" \/ FastPathGuard = 0))
  BY <1>3 DEF Critical
<1>5. AmountInv'
  BY <1>1, <1>4, Zenon DEF DataInv, AmountInv
<1>6. LedgerInv'
  <2>1. committedOffset' <= used /\ scalar + committedOffset' = InitialScalar
    BY <1>0, <1>1, SMT DEF DataInv, AmountInv, LedgerInv
  <2>2. \A u \in Procs : pc'[u] # "commitOffset" BY <1>1, <1>4
  <2> QED BY <1>1, <2>1, <2>2 DEF DataInv, LedgerInv
<1>7. CellInv'
  <2>1. PICK p \in [0..NumCells -> Int] : PrefixSums(p) /\ ScanInv(p)
    BY DEF DataInv, CellInv
  <2>2. PrefixSums(p)' BY <1>1, <2>1, PrefixSame
  <2>3. ScanInv(p)' BY <1>1, <1>4, Zenon DEF ScanInv
  <2> QED BY <2>2, <2>3 DEF CellInv, NumCells
<1> QED BY <1>5, <1>6, <1>7 DEF DataInv

\* Every step of TryConsume, TryRefund and Commit, the scans and the aggregator keeps
\* the amounts, the ledger and the cells.
LEMMA DataNext ==
    ASSUME NoUpdates, TypeInv, TypeInv', ControlInv, DataInv, [Next]_vars
    PROVE  DataInv'
<1>0. /\ pc \in [Procs -> PCs] /\ op \in [Procs -> Ops]
      /\ n \in [Procs -> Int] /\ s \in [Procs -> Int]
      /\ net \in [Procs -> Int] /\ i \in [Procs -> Nat]
      /\ used \in Int /\ committedOffset \in Int /\ scalar \in Int
  BY DEF TypeInv, TypeOK
<1>c. /\ NumStripes \in Nat \ {0} /\ HGroups \in 0..NumStripes
      /\ NumCells \in Nat
  BY ConfigAssumption, SMT DEF NumCells
<1>o. /\ {"consume", "refund", "commit"} = LockedOps
      /\ "state" \notin LockedOps /\ "aggregate" \notin LockedOps
  BY DEF LockedOps
<1>1. CASE UNCHANGED vars
  <2>1. UNCHANGED <<pc, op, n, s, net, i, scalar, committedOffset, used, stripes, hGroupSum>>
    BY <1>1 DEF vars, shared, locals
  <2>2. AmountInv' /\ LedgerInv' BY <2>1 DEF DataInv, AmountInv, LedgerInv
  <2>3. CellInv'
    BY <2>1, PrefixSame, Zenon DEF DataInv, CellInv, ScanInv, NumCells
  <2> QED BY <2>2, <2>3 DEF DataInv
<1>2. ASSUME NEW t \in Threads, Begin(t) PROVE DataInv'
  <2> t \in Procs BY DEF Procs
  <2>1. CASE CallTryConsume(t)
    <3>1. PICK a \in ConsumeAmounts : a > 0 /\
          Call(t, "consume", a, IF FastPathGuard > 0 THEN "fastGate" ELSE "lock")
      BY <2>1 DEF CallTryConsume
    <3> QED BY <3>1, DataCall, ConfigAssumption, SMT DEF PCs, Ops
  <2>2. CASE CallTryRefund(t)
    <3>1. PICK a \in RefundAmounts : a > 0 /\ Call(t, "refund", a, "lock")
      BY <2>2 DEF CallTryRefund
    <3> QED BY <3>1, DataCall, ConfigAssumption, SMT DEF PCs, Ops
  <2>3. CASE CallCommit(t)
    <3>1. PICK a \in CommitAmounts : Call(t, "commit", a, "lock")
      BY <2>3 DEF CallCommit
    <3> QED BY <3>1, DataCall, ConfigAssumption, SMT DEF PCs, Ops
  <2>4. CASE CallUpdate(t)
    BY <2>4 DEF CallUpdate, NoUpdates
  <2>5. CASE CallState(t)
    BY <2>5, <1>o, DataCall, SMT DEF CallState, PCs, Ops
  <2> QED BY <1>2, <2>1, <2>2, <2>3, <2>4, <2>5 DEF Begin
<1>3. CASE Tick(Aggregator)
  BY <1>3, <1>o, DataCall, SMT DEF Tick, PCs, Ops, Procs
<1>4. CASE Close
  <2>1. UNCHANGED <<pc, op, n, s, net, i, scalar, committedOffset, used, stripes, hGroupSum>>
    BY <1>4 DEF Close, locals
  <2>2. AmountInv' /\ LedgerInv' BY <2>1 DEF DataInv, AmountInv, LedgerInv
  <2>3. CellInv'
    BY <2>1, PrefixSame, Zenon DEF DataInv, CellInv, ScanInv, NumCells
  <2> QED BY <2>2, <2>3 DEF DataInv
<1>5. ASSUME NEW t \in Procs, Lock(t) PROVE DataInv'
  <2>1. /\ pc[t] = "lock" /\ OthersKept(t) /\ UNCHANGED <<op, n>>
        /\ net'[t] = 0
        /\ op[t] = "consume" => s'[t] = scalar
        /\ UNCHANGED <<scalar, committedOffset, stripes, hGroupSum, used>>
    BY <1>0, <1>5, SMT DEF Lock, Goto, OthersKept, shared
  <2>2. \/ pc'[t] = "scan" /\ i'[t] = 0
        \/ pc'[t] = "cachedGate"
        \/ pc'[t] = "group"
    BY <1>0, <1>5, SMT DEF Lock, Goto
  <2>3. ASSUME NEW p \in [0..NumCells -> Int], PrefixSums(p), pc'[t] = "scan"
        PROVE  /\ i'[t] <= NumCells
               /\ net'[t] <= p[i'[t]]
               /\ committedOffset <= net'[t] + used - p[i'[t]]
               /\ ExactMode => net'[t] = p[i'[t]]
    BY <1>0, <1>c, <2>1, <2>2, <2>3, SMT DEF PrefixSums, DataInv, LedgerInv
  <2>4. op[t] \in {"consume", "refund"} => n[t] > 0
    BY <2>1 DEF DataInv, AmountInv
  <2> QED BY <2>1, <2>2, <2>3, <2>4, DataLocal
<1>6. ASSUME NEW t \in Procs, Step(t) PROVE DataInv'
  <2>1. CASE FastGate(t)
    <3>1. /\ pc[t] = "fastGate" /\ pc'[t] \in {"fastAdd", "lock"}
          /\ OthersKept(t) /\ UNCHANGED <<op, n>>
          /\ UNCHANGED <<scalar, committedOffset, stripes, hGroupSum, used>>
      BY <2>1, <1>0, SMT DEF FastGate, Goto, OthersKept, shared
    <3>2. op[t] = "consume" /\ n[t] > 0
      BY <3>1 DEF ControlInv, DataInv, AmountInv
    <3> QED BY <3>1, <3>2, DataLocal
  <2>2. CASE CachedGate(t)
    <3>1. CASE Return(t)
      BY <2>2, <3>1, DataReturn DEF CachedGate, shared
    <3>2. CASE Goto(t, "add") /\ UNCHANGED <<op, n, s, net, i, tryMu>>
      <4>1. /\ pc[t] = "cachedGate" /\ pc'[t] = "add"
            /\ OthersKept(t) /\ UNCHANGED <<op, n>>
            /\ UNCHANGED <<scalar, committedOffset, stripes, hGroupSum, used>>
        BY <2>2, <3>2, <1>0, SMT DEF CachedGate, Goto, OthersKept, shared
      <4>2. op[t] = "consume" /\ UseCachedGate /\ n[t] > 0
        BY <4>1 DEF ControlInv, DataInv, AmountInv
      <4> QED BY <4>1, <4>2, DataLocal DEF ExactMode, ScannedGate
    <3> QED BY <2>2, <3>1, <3>2 DEF CachedGate
  <2>3. CASE GroupScan(t)
    <3>1. /\ pc[t] = "group" /\ pc'[t] = "group"
          /\ OthersKept(t) /\ UNCHANGED <<op, n, s>>
          /\ UNCHANGED <<scalar, committedOffset, stripes, hGroupSum, used>>
      BY <2>3, <1>0, SMT DEF GroupScan, OthersKept, shared
    <3>2. op[t] = "consume" /\ n[t] > 0 /\ s[t] = scalar
      BY <3>1 DEF ControlInv, DataInv, AmountInv
    <3> QED BY <3>1, <3>2, DataLocal
  <2>4. CASE GroupGate(t)
    <3>0. pc' = [pc EXCEPT ![t] = "scan"] \/ pc' = [pc EXCEPT ![t] = "add"]
      BY <2>4, Zenon DEF GroupGate, Goto
    <3>1. /\ pc[t] = "group" /\ (pc'[t] = "scan" \/ pc'[t] = "add")
          /\ OthersKept(t) /\ UNCHANGED <<op, n, s>> /\ net'[t] = 0 /\ i'[t] = 0
          /\ UNCHANGED <<scalar, committedOffset, stripes, hGroupSum, used>>
      BY <2>4, <1>0, <3>0, SMT DEF GroupGate, OthersKept
    <3>2. op[t] = "consume" /\ n[t] > 0 /\ GroupCount > 1
      BY <3>1 DEF ControlInv, DataInv, AmountInv
    <3>3. s[t] = scalar
      BY <3>1, <3>2 DEF DataInv, AmountInv
    <3>4. ~ExactMode BY <3>2, ConfigAssumption, SMT DEF ExactMode
    <3>5. ASSUME NEW p \in [0..NumCells -> Int], PrefixSums(p)
          PROVE  /\ i'[t] <= NumCells
                 /\ net'[t] <= p[i'[t]]
                 /\ committedOffset <= net'[t] + used - p[i'[t]]
      BY <1>0, <1>c, <3>1, <3>5, SMT DEF PrefixSums, DataInv, LedgerInv
    <3> QED BY <3>1, <3>2, <3>3, <3>4, <3>5, DataLocal
  <2>5. CASE Scan(t)
    <3>1. /\ pc[t] = "scan" /\ pc'[t] = "scan"
          /\ OthersKept(t) /\ UNCHANGED <<op, n, s>>
          /\ UNCHANGED <<scalar, committedOffset, stripes, hGroupSum, used>>
      BY <2>5, <1>0, SMT DEF Scan, OthersKept, shared
    <3>2. /\ op[t] \in {"consume", "refund"} => n[t] > 0
          /\ op[t] = "consume" => s[t] = scalar
      BY <3>1 DEF DataInv, AmountInv
    <3> QED BY <2>5, <3>1, <3>2, ScanStep, DataLocal
  <2>6. CASE ConsumeGate(t)
    <3>0. Scanned(t, "consume") /\ pc[t] = "scan" /\ op[t] = "consume"
      BY <2>6 DEF ConsumeGate, Scanned
    <3>1. CASE Return(t)
      BY <2>6, <3>0, <3>1, DataReturn DEF shared, ConsumeGate
    <3>2. CASE ~(s[t] - Abs(Vector(t)) < n[t])
      <4>1. Goto(t, "add") /\ UNCHANGED <<op, n, s, net, i, tryMu>> /\ UNCHANGED shared
        BY <2>6, <3>2 DEF ConsumeGate
      <4>2. /\ pc'[t] = "add" /\ OthersKept(t) /\ UNCHANGED <<op, n>>
            /\ UNCHANGED <<scalar, committedOffset, stripes, hGroupSum, used>>
        BY <4>1, <1>0, SMT DEF Goto, OthersKept, shared
      <4>3. n[t] > 0 /\ s[t] = scalar BY <3>0 DEF DataInv, AmountInv
      <4>4. ASSUME ExactMode PROVE used + n[t] <= InitialScalar
        <5>1. net[t] = used BY <3>0, <1>o, <4>4, ScanDone DEF DataInv
        <5>2. Critical(t) BY <3>0, <1>o DEF Critical
        <5>3. \A u \in Procs : pc[u] # "commitOffset"
          BY <5>2, <3>0, Exclusion DEF Critical
        <5>4. scalar + committedOffset = InitialScalar /\ committedOffset <= used
          BY <5>3 DEF DataInv, LedgerInv
        <5> QED BY <1>0, <3>2, <4>3, <5>1, <5>4, ConfigAssumption, SMT DEF Vector, Abs
      <4> QED BY <3>0, <4>2, <4>3, <4>4, DataLocal
    <3> QED BY <2>6, <3>1, <3>2 DEF ConsumeGate
  <2>7. CASE RefundGate(t)
    <3>0. Scanned(t, "refund") /\ pc[t] = "scan" /\ op[t] = "refund"
      BY <2>7 DEF RefundGate, Scanned
    <3>1. CASE Return(t)
      BY <2>7, <3>0, <3>1, DataReturn DEF shared, RefundGate
    <3>2. CASE ~(Vector(t) <= 0)
      <4>1. /\ n' = [n EXCEPT ![t] = -MinOf(n[t], Vector(t))]
            /\ pc' = [pc EXCEPT ![t] = "add"]
            /\ UNCHANGED <<op, s, net, i, tryMu, shared>>
        BY <2>7, <3>2, Zenon DEF RefundGate, Goto
      <4>2. /\ pc'[t] = "add" /\ n'[t] = -MinOf(n[t], Vector(t))
            /\ OthersKept(t) /\ UNCHANGED op
            /\ UNCHANGED <<scalar, committedOffset, stripes, hGroupSum, used>>
        BY <4>1, <1>0, SMT DEF OthersKept, shared
      <4>3. n[t] > 0 BY <3>0 DEF DataInv, AmountInv
      <4>4. net[t] <= used BY <3>0, <1>o, ScanDone DEF DataInv
      <4>5. n'[t] <= 0 /\ committedOffset <= used + n'[t]
        BY <1>0, <3>2, <4>2, <4>3, <4>4, SMT DEF MinOf, Vector
      <4> QED BY <3>0, <4>2, <4>5, DataLocal
    <3> QED BY <2>7, <3>1, <3>2 DEF RefundGate
  <2>8. CASE CommitGate(t)
    <3>0. Scanned(t, "commit") /\ pc[t] = "scan" BY <2>8 DEF CommitGate, Scanned
    <3>1. CASE Return(t) /\ UNCHANGED scalar
      BY <2>8, <3>0, <3>1, DataReturn DEF CommitGate
    <3>2. CASE Vector(t) # 0
      <4>1. /\ scalar' = scalar - Abs(CommitDelta(n[t], Vector(t)))
            /\ n' = [n EXCEPT ![t] = -CommitDelta(n[t], Vector(t))]
            /\ pc' = [pc EXCEPT ![t] = "commitOffset"]
            /\ UNCHANGED <<op, s, net, i, committedOffset, stripes, hGroupSum, used>>
        BY <2>8, <3>2, Zenon DEF CommitGate, Goto
      <4> QED BY <3>0, <3>2, <4>1, DataCommitGate
    <3> QED BY <2>8, <3>1, <3>2 DEF CommitGate
  <2>9. CASE CommitOffset(t)
    BY <2>9, DataCommitOffset
  <2>10. CASE StateReturn(t)
    BY <2>10, DataReturn DEF StateReturn, Scanned, shared
  <2>11. ASSUME NEW j \in 0..(NumStripes - 1), AddStripe(t, j),
                pc[t] \in {"add", "fastAdd"}
         PROVE  DataInv'
    <3>1. CASE HGroups > 0
      <4>1. /\ pc' = [pc EXCEPT ![t] = "addGroup"] /\ used' = used
            /\ UNCHANGED <<op, n, s, net, scalar, committedOffset, hGroupSum>>
            /\ i' = [i EXCEPT ![t] = j]
        BY <2>11, <3>1, Zenon DEF AddStripe, Goto
      <4>2. pc'[t] = "addGroup" /\ OthersKept(t)
        BY <4>1, <1>0, SMT DEF OthersKept
      <4>3. AmountInv'
        <5>1. pc[t] = "fastAdd" => op[t] = "consume" /\ ~ExactMode
          BY ConfigAssumption, SMT DEF ControlInv, ExactMode
        <5> QED BY <2>11, <4>1, <4>2, <5>1, SMT DEF DataInv, AmountInv, OthersKept
      <4>4. \A u \in Procs : (pc'[u] = "commitOffset") <=> (pc[u] = "commitOffset")
        BY <2>11, <4>2, SMT DEF OthersKept
      <4>5. LedgerInv' BY <4>1, <4>4, Zenon DEF DataInv, LedgerInv
      <4>6. CellInv'
        <5>1. PICK p \in [0..NumCells -> Int] : PrefixSums(p) /\ ScanInv(p)
          BY DEF DataInv, CellInv
        <5>2. PrefixSums(p)' BY <3>1, <4>1, <5>1 DEF PrefixSums, Cell
        <5>3. ScanInv(p)' BY <4>1, <4>2, <5>1 DEF ScanInv, OthersKept
        <5> QED BY <5>2, <5>3 DEF CellInv, NumCells
      <4> QED BY <4>3, <4>5, <4>6 DEF DataInv
    <3>2. CASE ~(HGroups > 0)
      <4>1. /\ pc' = [pc EXCEPT ![t] = "addApprox"] /\ used' = used + n[t]
            /\ UNCHANGED <<op, n, s, net, scalar, committedOffset>>
            /\ i' = [i EXCEPT ![t] = j]
            /\ stripes' = [stripes EXCEPT ![j] = stripes[j] + n[t]]
        BY <2>11, <3>2, Zenon DEF AddStripe, Goto
      <4>2. NumCells = NumStripes BY <3>2 DEF NumCells
      <4>3. \A k \in 0..(NumCells - 1) :
              Cell(k)' = IF k = j THEN Cell(k) + n[t] ELSE Cell(k)
        BY <3>2, <4>1, <4>2, SMT DEF Cell, TypeInv, TypeOK
      <4>4. \A u \in Procs \ {t} : i'[u] = i[u] BY <4>1, <1>0, SMT
      <4> QED BY <2>11, <4>1, <4>2, <4>3, <4>4, DataAdd
    <3> QED BY <3>1, <3>2
  <2>12. CASE Add(t)
    <3>1. rr \in 0..(NumStripes - 1) BY DEF TypeInv, TypeOK
    <3> QED BY <2>12, <2>11, <3>1, Zenon DEF Add
  <2>13. CASE FastAdd(t)
    <3>1. chooser' \in 0..(NumStripes - 1) BY DEF TypeInv, TypeOK
    <3> QED BY <2>13, <2>11, <3>1 DEF FastAdd
  <2>14. CASE AddGroup(t)
    <3> DEFINE j == i[t] \div Stride(HGroups)
    <3>0. pc[t] = "addGroup" /\ HGroups > 0 /\ i[t] < NumStripes
      BY <2>14 DEF AddGroup, ControlInv
    <3>1. j \in 0..(HGroups - 1)
      <4>1. HGroups \in 1..NumStripes /\ i[t] \in 0..(NumStripes - 1)
        BY <1>0, <1>c, <3>0, SMT
      <4> QED BY <4>1, StrideCovers
    <3>2. /\ pc' = [pc EXCEPT ![t] = "addApprox"] /\ used' = used + n[t]
          /\ UNCHANGED <<op, n, s, net, i, scalar, committedOffset>>
          /\ hGroupSum' = [hGroupSum EXCEPT ![j] = hGroupSum[j] + n[t]]
      BY <2>14, Zenon DEF AddGroup, Goto
    <3> HIDE DEF j
    <3>3. NumCells = HGroups BY <3>0 DEF NumCells
    <3>4. \A k \in 0..(NumCells - 1) :
            Cell(k)' = IF k = j THEN Cell(k) + n[t] ELSE Cell(k)
      BY <3>0, <3>1, <3>2, <3>3, SMT DEF Cell, TypeInv, TypeOK
    <3> QED BY <3>0, <3>1, <3>2, <3>3, <3>4, DataAdd
  <2>15. CASE AddApprox(t)
    BY <2>15, DataReturn DEF AddApprox
  <2>16. CASE CacheLoad(t)
    <3>1. /\ pc[t] = "scan" /\ pc'[t] = "cacheStore" /\ op[t] = "aggregate"
          /\ OthersKept(t) /\ UNCHANGED <<op, n>>
          /\ UNCHANGED <<scalar, committedOffset, stripes, hGroupSum, used>>
      BY <2>16, <1>0, SMT DEF CacheLoad, Scanned, Goto, OthersKept, shared
    <3> QED BY <3>1, DataLocal
  <2>17. CASE CacheStore(t)
    BY <2>17, DataReturn DEF CacheStore
  <2> QED BY <1>6, <2>1, <2>2, <2>3, <2>4, <2>5, <2>6, <2>7, <2>8, <2>9, <2>10,
             <2>12, <2>13, <2>14, <2>15, <2>16, <2>17 DEF Step
<1> QED BY <1>1, <1>2, <1>3, <1>4, <1>5, <1>6 DEF Next

-----------------------------------------------------------------------------
(* The theorems.                                                           *)

\* The whole invariant is inductive as long as nobody calls Update.
THEOREM Inductive ==
    ASSUME NoUpdates
    PROVE  Spec => [](TypeInv /\ ControlInv /\ DataInv)
<1>1. Init => TypeInv /\ ControlInv /\ DataInv
  BY TypeInit, ControlInit, DataInit
<1>2. TypeInv /\ ControlInv /\ DataInv /\ [Next]_vars
      => TypeInv' /\ ControlInv' /\ DataInv'
  BY TypeNext, ControlNext, DataNext
<1> QED BY <1>1, <1>2, PTL DEF Spec

\* Without Update, and with any gate and any options, TryRefund and Commit never
\* take back or fold in more than the net that is there when they store.
THEOREM NetStaysNonNegative ==
    ASSUME NoUpdates
    PROVE  Spec => []NetNonNegative
<1>1. DataInv => NetNonNegative BY DEF DataInv, LedgerInv, NetNonNegative
<1> QED BY <1>1, Inductive, PTL

\* Without Update, and with any gate and any options, the scalar has lost exactly
\* what the offset has gained whenever tryMu is free.
THEOREM ScalarLawHolds ==
    ASSUME NoUpdates
    PROVE  Spec => []ScalarLaw
<1>1. TypeInv /\ ControlInv /\ DataInv => ScalarLaw
  <2> SUFFICES ASSUME TypeInv, ControlInv, DataInv, tryMu = NoThread
      PROVE  scalar + committedOffset = InitialScalar
    BY DEF ScalarLaw
  <2>1. NoThread \notin Procs BY ConfigAssumption DEF Procs
  <2>2. \A t \in Procs : pc[t] # "commitOffset"
    BY <2>1 DEF ControlInv, Critical
  <2> QED BY <2>2 DEF DataInv, LedgerInv
<1> QED BY <1>1, Inductive, PTL

\* With the exact gate under the lock, no interleaving of TryConsume, TryRefund and
\* Commit admits more than the initial scalar, for any number of goroutines,
\* stripes and hierarchical groups, and any amounts.
THEOREM ExactGateNeverOversubscribes ==
    ASSUME ExactMode
    PROVE  Spec => []NoOversubscription
<1>0. NoUpdates BY DEF ExactMode, ScannedGate
<1>1. DataInv => NoOversubscription
  BY DEF DataInv, LedgerInv, NoOversubscription
<1> QED BY <1>0, <1>1, Inductive, PTL

\* Without Update, a commit keeps the availability S - |net| although consumers on
\* the fast path move the net between its loads and its stores.
THEOREM CommitsPreserveAvailability ==
    ASSUME NoUpdates
    PROVE  Spec => CommitPreservesAvailability
<1>1. TypeInv /\ ControlInv /\ DataInv => \A t \in Threads : CommitOffset(t) =>
          Available' = (scalar + Abs(n[t])) - Abs(used - committedOffset)
  <2> SUFFICES ASSUME TypeInv, DataInv, NEW t \in Threads, CommitOffset(t)
      PROVE  Available' = (scalar + Abs(n[t])) - Abs(used - committedOffset)
    OBVIOUS
  <2>1. t \in Procs BY DEF Procs
  <2>2. /\ n[t] \in Int /\ scalar \in Int /\ used \in Int /\ committedOffset \in Int
    BY <2>1 DEF TypeInv, TypeOK
  <2>3. /\ pc[t] = "commitOffset" /\ committedOffset' = committedOffset - n[t]
        /\ scalar' = scalar /\ used' = used
    BY DEF CommitOffset
  <2>4. n[t] <= 0 /\ committedOffset - n[t] <= used /\ committedOffset <= used
    BY <2>1, <2>3 DEF DataInv, AmountInv, LedgerInv
  <2> QED BY <2>2, <2>3, <2>4, SMT DEF Available, Abs
<1> QED BY <1>1, Inductive, PTL DEF CommitPreservesAvailability

\* Without Update and the cached gate, a TryConsume that returns false was right:
\* fewer than n units were available when it decided.
THEOREM DenialsJustified ==
    ASSUME ScannedGate
    PROVE  Spec => DenyJustified
<1>0. NoUpdates BY DEF ScannedGate
<1>1. TypeInv /\ ControlInv /\ DataInv => \A t \in Threads :
          (ConsumeGate(t) \/ CachedGate(t)) /\ pc'[t] = "idle" => Available < n[t]
  <2> SUFFICES ASSUME TypeInv, ControlInv, DataInv, NEW t \in Threads,
                      ConsumeGate(t) \/ CachedGate(t), pc'[t] = "idle"
      PROVE  Available < n[t]
    OBVIOUS
  <2>1. t \in Procs BY DEF Procs
  <2>2. /\ n[t] \in Int /\ scalar \in Int /\ used \in Int /\ committedOffset \in Int
        /\ net[t] \in Int /\ pc \in [Procs -> PCs]
    BY <2>1 DEF TypeInv, TypeOK
  <2>3. ConsumeGate(t) /\ Scanned(t, "consume") /\ pc[t] = "scan" /\ op[t] = "consume"
    BY <2>1 DEF ControlInv, ScannedGate, CachedGate, ConsumeGate, Scanned
  <2>4. s[t] - Abs(Vector(t)) < n[t]
    BY <2>1, <2>2, <2>3, SMT DEF ConsumeGate, Goto
  <2>5. "consume" \in LockedOps BY DEF LockedOps
  <2>6. committedOffset <= net[t] /\ net[t] <= used
    BY <2>1, <2>3, <2>5, ScanDone DEF DataInv
  <2>7. s[t] = scalar BY <2>1, <2>3 DEF DataInv, AmountInv
  <2> QED BY <2>2, <2>4, <2>6, <2>7, SMT DEF Available, Abs, Vector
<1> QED BY <1>0, <1>1, Inductive, PTL DEF DenyJustified

\* With the exact gate the VSA implements the abstract budget: each step is a
\* Consume, Refund or Commit of Quota or leaves it alone.
THEOREM ExactGateImplementsQuota ==
    ASSUME ExactMode
    PROVE  Spec => ImplementsQuota
<1>0. NoUpdates BY DEF ExactMode, ScannedGate
<1>1. Init => ExactQuota!Init BY DEF Init, ExactQuota!Init
<1>2. TypeInv /\ ControlInv /\ DataInv /\ [Next]_vars
      => [ExactQuota!Next]_(ExactQuota!vars)
  <2> SUFFICES ASSUME TypeInv, ControlInv, DataInv, [Next]_vars
      PROVE  ExactQuota!Next \/ UNCHANGED <<used, committedOffset>>
    BY DEF ExactQuota!vars
  <2>0. /\ used \in Int /\ committedOffset \in Int /\ InitialScalar \in Nat
        /\ n \in [Procs -> Int]
    BY ConfigAssumption DEF TypeInv, TypeOK
  <2>1. CASE UNCHANGED vars
    BY <2>1 DEF vars, shared
  <2>2. ASSUME NEW t \in Threads, Begin(t) PROVE UNCHANGED <<used, committedOffset>>
    BY <2>2 DEF Begin, CallTryConsume, CallTryRefund, CallCommit, CallUpdate,
                CallState, Call, shared
  <2>3. CASE Tick(Aggregator) BY <2>3 DEF Tick, Call, shared
  <2>4. CASE Close BY <2>4 DEF Close
  <2>5. ASSUME NEW t \in Procs, Lock(t) PROVE UNCHANGED <<used, committedOffset>>
    BY <2>5 DEF Lock, shared
  <2>6. ASSUME NEW t \in Procs, pc[t] \in {"add", "addGroup"},
               used' = used + n[t], UNCHANGED committedOffset
        PROVE  ExactQuota!Next \/ UNCHANGED <<used, committedOffset>>
    <3>1. CASE op[t] = "consume"
      <4>1. n[t] \in 1..(InitialScalar - used)
        BY <2>0, <2>6, <3>1, SMT DEF DataInv, AmountInv
      <4> QED BY <2>0, <2>6, <4>1, SMT DEF ExactQuota!Next, ExactQuota!Consume
    <3>2. CASE op[t] = "refund"
      <4>1. n[t] <= 0 /\ committedOffset <= used + n[t]
        BY <2>6, <3>2 DEF DataInv, AmountInv
      <4>2. CASE n[t] = 0 BY <2>0, <2>6, <4>2, SMT
      <4>3. CASE n[t] # 0
        <5>1. -n[t] \in 1..(used - committedOffset) BY <2>0, <4>1, <4>3, SMT
        <5>2. used' = used - (-n[t]) BY <2>0, <2>6, SMT
        <5>3. ExactQuota!Refund(-n[t])
          BY <2>0, <2>6, <5>1, <5>2, SMT DEF ExactQuota!Refund
        <5> QED BY <5>1, <5>3 DEF ExactQuota!Next
      <4> QED BY <4>2, <4>3
    <3> QED BY <2>6, <3>1, <3>2 DEF ControlInv
  <2>7. ASSUME NEW t \in Procs, Step(t)
        PROVE  ExactQuota!Next \/ UNCHANGED <<used, committedOffset>>
    <3>1. CASE CommitOffset(t)
      <4>1. /\ pc[t] = "commitOffset" /\ committedOffset' = committedOffset - n[t]
            /\ used' = used
        BY <3>1 DEF CommitOffset
      <4>2. n[t] <= 0 /\ committedOffset - n[t] <= used
        BY <4>1 DEF DataInv, AmountInv
      <4>3. CASE n[t] = 0 BY <2>0, <4>1, <4>3, SMT
      <4>4. CASE n[t] # 0
        <5>1. -n[t] \in 1..(used - committedOffset) BY <2>0, <4>2, <4>4, SMT
        <5>2. committedOffset' = committedOffset + (-n[t]) BY <2>0, <4>1, SMT
        <5>3. ExactQuota!Commit(-n[t])
          BY <2>0, <4>1, <5>1, <5>2, SMT DEF ExactQuota!Commit
        <5> QED BY <5>1, <5>3 DEF ExactQuota!Next
      <4> QED BY <4>3, <4>4
    <3>2. CASE Add(t)
      <4>1. /\ pc[t] = "add" /\ UNCHANGED committedOffset
            /\ used' = used \/ used' = used + n[t]
        BY <3>2 DEF Add, AddStripe
      <4> QED BY <2>6, <4>1
    <3>3. CASE FastAdd(t)
      <4>1. pc[t] # "fastAdd" BY SMT DEF ControlInv, ExactMode
      <4> QED BY <3>3, <4>1 DEF FastAdd
    <3>4. CASE AddGroup(t)
      BY <3>4, <2>6 DEF AddGroup
    <3>5. CASE \/ FastGate(t) \/ CachedGate(t) \/ GroupScan(t) \/ Scan(t)
               \/ ConsumeGate(t) \/ RefundGate(t) \/ StateReturn(t) \/ CacheLoad(t)
      BY <3>5 DEF FastGate, CachedGate, GroupScan, Scan, ConsumeGate, RefundGate,
                  StateReturn, CacheLoad, shared
    <3>6. CASE GroupGate(t) \/ CommitGate(t) \/ AddApprox(t) \/ CacheStore(t)
      BY <3>6 DEF GroupGate, CommitGate, AddApprox, CacheStore
    <3> QED BY <2>7, <3>1, <3>2, <3>3, <3>4, <3>5, <3>6 DEF Step
  <2> QED BY <2>1, <2>2, <2>3, <2>4, <2>5, <2>7 DEF Next
<1> QED BY <1>0, <1>1, <1>2, Inductive, PTL DEF ImplementsQuota, ExactQuota!Spec, Spec

-----------------------------------------------------------------------------
(* The redundant sums, in every mode.                                      *)

\* What the calls at one point of their way still have to add.
DueOf(at, amount, point) == [t \in Procs |-> IF at[t] = point THEN amount[t] ELSE 0]
Due(at, amount, point) == SumOver(DueOf(at, amount, point), Procs)

Cells == [j \in 0..(NumCells - 1) |-> Cell(j)]

\* A call on its way to the group sum has added to its stripe and to nothing else; one on
\* its way to approxNet has added to everything else.
SumsInv ==
    /\ SumOver(stripes, 0..(NumStripes - 1)) = used + Due(pc, n, "addGroup")
    /\ SumOver(Cells, 0..(NumCells - 1)) = used
    /\ approxNet = used - committedOffset - Due(pc, n, "addApprox")
    /\ \A t \in Procs : pc[t] = "addGroup" => HGroups > 0 /\ i[t] \in 0..(NumStripes - 1)

\* There are finitely many goroutines and cells.
LEMMA FiniteIndices ==
    /\ IsFiniteSet(Procs)
    /\ IsFiniteSet(0..(NumStripes - 1)) /\ IsFiniteSet(0..(NumCells - 1))
<1>1. IsFiniteSet(Procs) BY ConfigAssumption, FS_AddElement DEF Procs
<1>2. NumStripes - 1 \in Int /\ NumCells - 1 \in Int BY ConfigAssumption DEF NumCells
<1> QED BY <1>1, <1>2, FS_Interval

\* The step of one goroutine from one point to another.
LEMMA DueStep ==
    ASSUME TypeInv, NEW t \in Procs, pc' \in [Procs -> PCs], n' \in [Procs -> Int],
           \A u \in Procs \ {t} : pc'[u] = pc[u] /\ n'[u] = n[u], NEW point
    PROVE  /\ Due(pc, n, point) \in Int
           /\ Due(pc', n', point) = Due(pc, n, point)
                + ((IF pc'[t] = point THEN n'[t] ELSE 0) - (IF pc[t] = point THEN n[t] ELSE 0))
<1> DEFINE f == DueOf(pc, n, point)
           g == DueOf(pc', n', point)
           a == IF pc[t] = point THEN n[t] ELSE 0
           b == IF pc'[t] = point THEN n'[t] ELSE 0
<1>1. \A y \in Procs : n[y] \in Int /\ n'[y] \in Int BY DEF TypeInv, TypeOK
<1>2. \A y \in Procs : f[y] \in Int BY <1>1 DEF DueOf
<1>3. f[t] = a /\ g[t] = b /\ a \in Int /\ b \in Int BY <1>1 DEF DueOf
<1>4. \A y \in Procs \ {t} : g[y] = f[y] BY DEF DueOf
<1>5. b - a \in Int /\ g[t] = f[t] + (b - a) BY <1>3
<1> HIDE DEF f, g, a, b
<1>6. SumOver(g, Procs) = SumOver(f, Procs) + (b - a) /\ SumOver(f, Procs) \in Int
  BY <1>2, <1>4, <1>5, FiniteIndices, SumAdd
<1> QED BY <1>6 DEF f, g, a, b, Due

\* A step that neither begins nor ends such a way, and changes none of the sums.
LEMMA SumsStay ==
    ASSUME TypeInv, TypeInv', SumsInv, NEW t \in Procs,
           \A u \in Procs \ {t} : pc'[u] = pc[u] /\ n'[u] = n[u] /\ i'[u] = i[u],
           pc[t] \notin {"addGroup", "addApprox"}, pc'[t] \notin {"addGroup", "addApprox"},
           UNCHANGED <<stripes, hGroupSum, approxNet, used, committedOffset>>
    PROVE  SumsInv'
<1>1. pc' \in [Procs -> PCs] /\ n' \in [Procs -> Int] BY DEF TypeInv, TypeOK
<1>2. /\ Due(pc', n', "addGroup") = Due(pc, n, "addGroup") + (0 - 0) /\ Due(pc, n, "addGroup") \in Int
      /\ Due(pc', n', "addApprox") = Due(pc, n, "addApprox") + (0 - 0) /\ Due(pc, n, "addApprox") \in Int
  BY <1>1, DueStep
<1>3. Cells' = Cells BY DEF Cells, Cell
<1>4. \A u \in Procs : pc'[u] = "addGroup" => HGroups > 0 /\ i'[u] \in 0..(NumStripes - 1)
  BY DEF SumsInv
<1> QED BY <1>2, <1>3, <1>4 DEF SumsInv

\* Beginning, going on and returning elsewhere.
LEMMA SumsGoto ==
    ASSUME TypeInv, TypeInv', SumsInv, NEW t \in Procs, NEW l,
           l \notin {"addGroup", "addApprox"}, pc[t] \notin {"addGroup", "addApprox"}, Goto(t, l),
           n' = n \/ (\E a : n' = [n EXCEPT ![t] = a]), i' = i \/ (\E a : i' = [i EXCEPT ![t] = a]),
           UNCHANGED <<stripes, hGroupSum, approxNet, used, committedOffset>>
    PROVE  SumsInv'
<1>1. pc' = [pc EXCEPT ![t] = l] /\ pc \in [Procs -> PCs] BY DEF Goto, TypeInv, TypeOK
<1>2. \A u \in Procs \ {t} : pc'[u] = pc[u] /\ n'[u] = n[u] /\ i'[u] = i[u] BY <1>1 DEF TypeInv, TypeOK
<1>3. pc'[t] = l BY <1>1
<1> QED BY <1>2, <1>3, SumsStay

\* A call that returns has no addition outstanding.
LEMMA SumsReturn ==
    ASSUME TypeInv, TypeInv', SumsInv, NEW t \in Procs, pc[t] \notin {"addGroup", "addApprox"}, Return(t),
           UNCHANGED <<stripes, hGroupSum, approxNet, used, committedOffset>>
    PROVE  SumsInv'
<1>1. /\ pc' = [pc EXCEPT ![t] = "idle"] /\ n' = [n EXCEPT ![t] = 0] /\ i' = [i EXCEPT ![t] = 0]
  BY DEF Return
<1>2. \A u \in Procs \ {t} : pc'[u] = pc[u] /\ n'[u] = n[u] /\ i'[u] = i[u] BY <1>1 DEF TypeInv, TypeOK
<1>3. pc'[t] = "idle" BY <1>1 DEF TypeInv, TypeOK
<1> QED BY <1>2, <1>3, SumsStay

\* The stores of an addition, and of the commit.
LEMMA SumsAddStripe ==
    ASSUME TypeInv, TypeInv', SumsInv, NEW t \in Procs, pc[t] \in {"add", "fastAdd"},
           NEW j \in 0..(NumStripes - 1), AddStripe(t, j)
    PROVE  SumsInv'
<1>c. NumStripes \in Nat \ {0} /\ HGroups \in Nat BY ConfigAssumption
<1>1. /\ stripes' = [stripes EXCEPT ![j] = stripes[j] + n[t]] /\ i' = [i EXCEPT ![t] = j]
      /\ UNCHANGED <<n, committedOffset, hGroupSum, approxNet>>
      /\ HGroups > 0 => used' = used /\ pc' = [pc EXCEPT ![t] = "addGroup"]
      /\ ~(HGroups > 0) => used' = used + n[t] /\ pc' = [pc EXCEPT ![t] = "addApprox"]
  BY DEF AddStripe, Goto
<1>2. /\ stripes \in [0..(NumStripes - 1) -> Int] /\ n[t] \in Int /\ used \in Int /\ committedOffset \in Int
      /\ pc \in [Procs -> PCs] /\ pc' \in [Procs -> PCs] /\ n' \in [Procs -> Int] /\ i \in [Procs -> Nat]
  BY DEF TypeInv, TypeOK
<1>3. \A u \in Procs \ {t} : pc'[u] = pc[u] /\ n'[u] = n[u] /\ i'[u] = i[u] BY <1>1, <1>2
<1>4. /\ \A y \in 0..(NumStripes - 1) : stripes[y] \in Int
      /\ stripes'[j] = stripes[j] + n[t] /\ \A y \in (0..(NumStripes - 1)) \ {j} : stripes'[y] = stripes[y]
  BY <1>1, <1>2
<1>5. SumOver(stripes', 0..(NumStripes - 1)) = SumOver(stripes, 0..(NumStripes - 1)) + n[t]
  <2> DEFINE S == 0..(NumStripes - 1)
             f == stripes
             g == stripes'
             v == n[t]
  <2>1. IsFiniteSet(S) /\ j \in S /\ v \in Int BY <1>2, FiniteIndices
  <2>2. /\ \A y \in S : f[y] \in Int
        /\ g[j] = f[j] + v /\ \A y \in S \ {j} : g[y] = f[y]
    BY <1>4
  <2> HIDE DEF S, f, g, v
  <2>3. SumOver(g, S) = SumOver(f, S) + v BY ONLY <2>1, <2>2, SumAdd
  <2> QED BY <2>3 DEF S, f, g, v
<1>6. CASE HGroups > 0
  <2>1. pc'[t] = "addGroup" /\ n'[t] = n[t] /\ i'[t] = j BY <1>1, <1>2, <1>6
  <2>2. /\ Due(pc', n', "addGroup") = Due(pc, n, "addGroup") + (n[t] - 0) /\ Due(pc, n, "addGroup") \in Int
        /\ Due(pc', n', "addApprox") = Due(pc, n, "addApprox") + (0 - 0) /\ Due(pc, n, "addApprox") \in Int
    BY <1>2, <1>3, <2>1, DueStep
  <2>3. Cells' = Cells BY <1>1, <1>6 DEF Cells, Cell
  <2>4. \A u \in Procs : pc'[u] = "addGroup" => HGroups > 0 /\ i'[u] \in 0..(NumStripes - 1)
    BY <1>3, <1>6, <2>1 DEF SumsInv
  <2> QED BY <1>1, <1>2, <1>5, <1>6, <2>2, <2>3, <2>4 DEF SumsInv
<1>7. CASE ~(HGroups > 0)
  <2>1. pc'[t] = "addApprox" /\ n'[t] = n[t] BY <1>1, <1>2, <1>7
  <2>2. /\ Due(pc', n', "addGroup") = Due(pc, n, "addGroup") + (0 - 0) /\ Due(pc, n, "addGroup") \in Int
        /\ Due(pc', n', "addApprox") = Due(pc, n, "addApprox") + (n[t] - 0) /\ Due(pc, n, "addApprox") \in Int
    BY <1>2, <1>3, <2>1, DueStep
  <2>3. NumCells = NumStripes /\ Cells = stripes /\ Cells' = stripes'
    BY <1>1, <1>2, <1>7 DEF Cells, Cell, NumCells
  <2>4. \A u \in Procs : pc'[u] = "addGroup" => HGroups > 0 /\ i'[u] \in 0..(NumStripes - 1)
    BY <1>3, <2>1 DEF SumsInv
  <2> QED BY <1>1, <1>2, <1>5, <1>7, <2>2, <2>3, <2>4, SMTT(30) DEF SumsInv
<1> QED BY <1>6, <1>7

\* The store to a group sum.
LEMMA SumsAddGroup ==
    ASSUME TypeInv, TypeInv', SumsInv, NEW t \in Procs, AddGroup(t)
    PROVE  SumsInv'
<1> DEFINE j == i[t] \div Stride(HGroups)
<1>c. NumStripes \in Nat \ {0} /\ HGroups \in 0..NumStripes BY ConfigAssumption
<1>1. /\ pc[t] = "addGroup" /\ hGroupSum' = [hGroupSum EXCEPT ![j] = hGroupSum[j] + n[t]]
      /\ used' = used + n[t] /\ pc' = [pc EXCEPT ![t] = "addApprox"]
      /\ UNCHANGED <<n, i, committedOffset, stripes, approxNet>>
  BY DEF AddGroup, Goto
<1>2. HGroups > 0 /\ i[t] \in 0..(NumStripes - 1) BY <1>1 DEF SumsInv
<1>3. j \in 0..(HGroups - 1)
  <2>1. HGroups \in 1..NumStripes BY <1>c, <1>2
  <2> QED BY <1>2, <2>1, StrideCovers
<1> HIDE DEF j
<1>4. /\ hGroupSum \in [0..(HGroups - 1) -> Int] /\ n[t] \in Int /\ used \in Int /\ committedOffset \in Int
      /\ pc \in [Procs -> PCs] /\ pc' \in [Procs -> PCs] /\ n' \in [Procs -> Int]
  BY DEF TypeInv, TypeOK
<1>5. /\ \A u \in Procs \ {t} : pc'[u] = pc[u] /\ n'[u] = n[u] /\ i'[u] = i[u]
      /\ pc'[t] = "addApprox" /\ n'[t] = n[t]
  BY <1>1, <1>4
<1>6. NumCells = HGroups /\ Cells = hGroupSum /\ Cells' = hGroupSum'
  BY <1>1, <1>2, <1>4 DEF Cells, Cell, NumCells
<1>7. /\ \A y \in 0..(HGroups - 1) : hGroupSum[y] \in Int
      /\ hGroupSum'[j] = hGroupSum[j] + n[t] /\ \A y \in (0..(HGroups - 1)) \ {j} : hGroupSum'[y] = hGroupSum[y]
  BY <1>1, <1>3, <1>4
<1>8. IsFiniteSet(0..(HGroups - 1)) BY <1>6, FiniteIndices
<1>9. SumOver(hGroupSum', 0..(HGroups - 1)) = SumOver(hGroupSum, 0..(HGroups - 1)) + n[t]
  <2> DEFINE S == 0..(HGroups - 1)
             f == hGroupSum
             g == hGroupSum'
             v == n[t]
  <2>1. IsFiniteSet(S) /\ j \in S /\ v \in Int BY <1>3, <1>4, <1>8
  <2>2. /\ \A y \in S : f[y] \in Int
        /\ g[j] = f[j] + v /\ \A y \in S \ {j} : g[y] = f[y]
    BY <1>7
  <2> HIDE DEF S, f, g, v
  <2>3. SumOver(g, S) = SumOver(f, S) + v BY ONLY <2>1, <2>2, SumAdd
  <2> QED BY <2>3 DEF S, f, g, v
<1>10. /\ Due(pc', n', "addGroup") = Due(pc, n, "addGroup") + (0 - n[t]) /\ Due(pc, n, "addGroup") \in Int
       /\ Due(pc', n', "addApprox") = Due(pc, n, "addApprox") + (n[t] - 0) /\ Due(pc, n, "addApprox") \in Int
  BY <1>1, <1>4, <1>5, DueStep
<1>11. \A u \in Procs : pc'[u] = "addGroup" => HGroups > 0 /\ i'[u] \in 0..(NumStripes - 1)
  BY <1>5 DEF SumsInv
<1>12. /\ SumOver(stripes, 0..(NumStripes - 1)) = used + Due(pc, n, "addGroup")
       /\ SumOver(hGroupSum, 0..(HGroups - 1)) = used
       /\ approxNet = used - committedOffset - Due(pc, n, "addApprox")
  BY <1>6 DEF SumsInv
<1>13. /\ SumOver(stripes', 0..(NumStripes - 1)) = used' + Due(pc', n', "addGroup")
       /\ SumOver(hGroupSum', 0..(HGroups - 1)) = used'
       /\ approxNet' = used' - committedOffset' - Due(pc', n', "addApprox")
  BY <1>1, <1>4, <1>9, <1>10, <1>12
<1> QED BY <1>6, <1>11, <1>13 DEF SumsInv

\* The store of the offset by Commit.
LEMMA SumsCommitOffset ==
    ASSUME TypeInv, TypeInv', SumsInv, NEW t \in Procs, CommitOffset(t)
    PROVE  SumsInv'
<1>1. /\ pc[t] = "commitOffset" /\ committedOffset' = committedOffset - n[t]
      /\ pc' = [pc EXCEPT ![t] = "addApprox"] /\ UNCHANGED <<n, i, stripes, hGroupSum, approxNet, used>>
  BY DEF CommitOffset, Goto
<1>2. /\ n[t] \in Int /\ used \in Int /\ committedOffset \in Int
      /\ pc \in [Procs -> PCs] /\ pc' \in [Procs -> PCs] /\ n' \in [Procs -> Int]
  BY DEF TypeInv, TypeOK
<1>3. /\ \A u \in Procs \ {t} : pc'[u] = pc[u] /\ n'[u] = n[u] /\ i'[u] = i[u]
      /\ pc'[t] = "addApprox" /\ n'[t] = n[t]
  BY <1>1, <1>2
<1>4. /\ Due(pc', n', "addGroup") = Due(pc, n, "addGroup") + (0 - 0) /\ Due(pc, n, "addGroup") \in Int
      /\ Due(pc', n', "addApprox") = Due(pc, n, "addApprox") + (n[t] - 0) /\ Due(pc, n, "addApprox") \in Int
  BY <1>1, <1>2, <1>3, DueStep
<1>5. Cells' = Cells BY <1>1 DEF Cells, Cell
<1>6. \A u \in Procs : pc'[u] = "addGroup" => HGroups > 0 /\ i'[u] \in 0..(NumStripes - 1)
  BY <1>3 DEF SumsInv
<1> QED BY <1>1, <1>2, <1>4, <1>5, <1>6 DEF SumsInv

\* The store to approxNet.
LEMMA SumsAddApprox ==
    ASSUME TypeInv, TypeInv', SumsInv, NEW t \in Procs, AddApprox(t)
    PROVE  SumsInv'
<1>1. /\ pc[t] = "addApprox" /\ approxNet' = approxNet + n[t] /\ pc' = [pc EXCEPT ![t] = "idle"]
      /\ n' = [n EXCEPT ![t] = 0] /\ i' = [i EXCEPT ![t] = 0]
      /\ UNCHANGED <<committedOffset, stripes, hGroupSum, used>>
  BY DEF AddApprox, Return
<1>2. /\ n \in [Procs -> Int] /\ i \in [Procs -> Nat] /\ n[t] \in Int /\ used \in Int /\ committedOffset \in Int
      /\ pc \in [Procs -> PCs] /\ pc' \in [Procs -> PCs] /\ n' \in [Procs -> Int]
  BY DEF TypeInv, TypeOK
<1>3. /\ \A u \in Procs \ {t} : pc'[u] = pc[u] /\ n'[u] = n[u] /\ i'[u] = i[u]
      /\ pc'[t] = "idle"
  BY <1>1, <1>2
<1>4. /\ Due(pc', n', "addGroup") = Due(pc, n, "addGroup") + (0 - 0) /\ Due(pc, n, "addGroup") \in Int
      /\ Due(pc', n', "addApprox") = Due(pc, n, "addApprox") + (0 - n[t]) /\ Due(pc, n, "addApprox") \in Int
  BY <1>1, <1>2, <1>3, DueStep
<1>5. Cells' = Cells BY <1>1 DEF Cells, Cell
<1>6. \A u \in Procs : pc'[u] = "addGroup" => HGroups > 0 /\ i'[u] \in 0..(NumStripes - 1)
  BY <1>3 DEF SumsInv
<1> QED BY <1>1, <1>2, <1>4, <1>5, <1>6 DEF SumsInv

\* When nothing is on its way, nothing is due.
LEMMA NothingDue ==
    ASSUME NEW point, \A t \in Procs : pc[t] # point
    PROVE  Due(pc, n, point) = 0
<1>1. \A t \in Procs : DueOf(pc, n, point)[t] = 0 BY DEF DueOf
<1> QED BY <1>1, FiniteIndices, SumZero DEF Due

\* All sums are 0 at first.
LEMMA SumsInit == Init => SumsInv
<1> SUFFICES ASSUME Init PROVE SumsInv OBVIOUS
<1>1. \A t \in Procs : pc[t] = "idle" BY DEF Init
<1>2. Due(pc, n, "addGroup") = 0 /\ Due(pc, n, "addApprox") = 0 BY <1>1, NothingDue
<1>3. \A j \in 0..(NumStripes - 1) : stripes[j] = 0 BY DEF Init
<1>4. SumOver(stripes, 0..(NumStripes - 1)) = 0 BY <1>3, FiniteIndices, SumZero
<1>5. \A j \in 0..(NumCells - 1) : Cells[j] = 0 BY DEF Init, Cells, Cell, NumCells
<1>6. SumOver(Cells, 0..(NumCells - 1)) = 0 BY <1>5, FiniteIndices, SumZero
<1> QED BY <1>1, <1>2, <1>4, <1>6 DEF Init, SumsInv

\* Every step keeps the sums in line with what is outstanding.
LEMMA SumsNext == TypeInv /\ TypeInv' /\ SumsInv /\ [Next]_vars => SumsInv'
<1> SUFFICES ASSUME TypeInv, TypeInv', SumsInv, [Next]_vars PROVE SumsInv' OBVIOUS
<1>1. CASE UNCHANGED <<stripes, hGroupSum, approxNet, used, committedOffset, pc, n, i>>
  <2>1. Cells' = Cells BY <1>1 DEF Cells, Cell
  <2> QED BY <1>1, <2>1 DEF SumsInv
<1>2. ASSUME NEW t \in Procs, NEW o, NEW a, NEW l, l \notin {"addGroup", "addApprox"}, Call(t, o, a, l)
      PROVE  SumsInv'
  <2>1. /\ pc[t] = "idle" /\ Goto(t, l) /\ n' = [n EXCEPT ![t] = a] /\ i' = i
        /\ UNCHANGED <<stripes, hGroupSum, approxNet, used, committedOffset>>
    BY <1>2 DEF Call, shared
  <2> QED BY <1>2, <2>1, SumsGoto
<1>3. ASSUME NEW t \in Threads, Begin(t) PROVE SumsInv'
  <2>0. t \in Procs BY DEF Procs
  <2>1. CASE CallTryConsume(t) BY <2>0, <2>1, <1>2 DEF CallTryConsume
  <2>2. CASE CallTryRefund(t) BY <2>0, <2>2, <1>2 DEF CallTryRefund
  <2>3. CASE CallCommit(t) BY <2>0, <2>3, <1>2 DEF CallCommit
  <2>4. CASE CallUpdate(t) BY <2>0, <2>4, <1>2 DEF CallUpdate
  <2>5. CASE CallState(t) BY <2>0, <2>5, <1>2 DEF CallState
  <2> QED BY <1>3, <2>1, <2>2, <2>3, <2>4, <2>5 DEF Begin
<1>4. CASE Tick(Aggregator)
  <2>1. Aggregator \in Procs BY DEF Procs
  <2> QED BY <1>4, <1>2, <2>1 DEF Tick
<1>5. CASE Close BY <1>5, <1>1 DEF Close, locals
<1>6. ASSUME NEW t \in Procs, Lock(t) PROVE SumsInv'
  <2>1. PICK l \in {"cachedGate", "group", "scan"} : Goto(t, l) BY <1>6 DEF Lock
  <2>2. /\ pc[t] = "lock" /\ n' = n /\ (\E a : i' = [i EXCEPT ![t] = a])
        /\ UNCHANGED <<stripes, hGroupSum, approxNet, used, committedOffset>>
    BY <1>6 DEF Lock, shared
  <2> QED BY <2>1, <2>2, SumsGoto
<1>7. ASSUME NEW t \in Procs, Step(t) PROVE SumsInv'
  <2>1. CASE FastGate(t)
    <3>1. PICK l \in {"fastAdd", "lock"} : Goto(t, l) BY <2>1 DEF FastGate
    <3>2. /\ pc[t] = "fastGate" /\ n' = n /\ i' = i
          /\ UNCHANGED <<stripes, hGroupSum, approxNet, used, committedOffset>>
      BY <2>1 DEF FastGate, shared
    <3> QED BY <3>1, <3>2, SumsGoto
  <2>2. CASE CachedGate(t) \/ ConsumeGate(t)
    <3>1. /\ pc[t] \in {"cachedGate", "scan"} 
          /\ Return(t) \/ (Goto(t, "add") /\ n' = n /\ i' = i)
          /\ UNCHANGED <<stripes, hGroupSum, approxNet, used, committedOffset>>
      BY <2>2 DEF CachedGate, ConsumeGate, Scanned, shared
    <3> QED BY <3>1, SumsGoto, SumsReturn
  <2>3. CASE GroupScan(t) \/ Scan(t)
    <3>1. /\ pc[t] \in {"group", "scan"} /\ pc' = pc /\ n' = n /\ i' = [i EXCEPT ![t] = @ + 1]
          /\ UNCHANGED <<stripes, hGroupSum, approxNet, used, committedOffset>>
      BY <2>3 DEF GroupScan, Scan, shared
    <3>2. \A u \in Procs \ {t} : i'[u] = i[u] BY <3>1 DEF TypeInv, TypeOK
    <3> QED BY <3>1, <3>2, SumsStay
  <2>4. CASE GroupGate(t)
    <3>1. PICK l \in {"scan", "add"} : Goto(t, l) BY <2>4 DEF GroupGate
    <3>2. /\ pc[t] = "group" /\ n' = n /\ i' = [i EXCEPT ![t] = 0]
          /\ UNCHANGED <<stripes, hGroupSum, approxNet, used, committedOffset>>
      BY <2>4 DEF GroupGate
    <3> QED BY <3>1, <3>2, SumsGoto
  <2>5. CASE RefundGate(t) \/ CommitGate(t)
    <3>1. /\ pc[t] = "scan"
          /\ \/ Return(t)
             \/ \E l \in {"add", "commitOffset"} : Goto(t, l) /\ (\E a : n' = [n EXCEPT ![t] = a]) /\ i' = i
          /\ UNCHANGED <<stripes, hGroupSum, approxNet, used, committedOffset>>
      BY <2>5 DEF RefundGate, CommitGate, Scanned, shared
    <3> QED BY <3>1, SumsGoto, SumsReturn
  <2>6. CASE StateReturn(t) \/ CacheStore(t)
    <3>1. /\ pc[t] \in {"scan", "cacheStore"} /\ Return(t)
          /\ UNCHANGED <<stripes, hGroupSum, approxNet, used, committedOffset>>
      BY <2>6 DEF StateReturn, CacheStore, Scanned, shared
    <3> QED BY <3>1, SumsReturn
  <2>7. CASE CacheLoad(t)
    <3>1. /\ pc[t] = "scan" /\ Goto(t, "cacheStore") /\ n' = n /\ i' = i
          /\ UNCHANGED <<stripes, hGroupSum, approxNet, used, committedOffset>>
      BY <2>7 DEF CacheLoad, Scanned, shared
    <3> QED BY <3>1, SumsGoto
  <2>8. CASE Add(t)
    <3>1. rr \in 0..(NumStripes - 1) BY DEF TypeInv, TypeOK
    <3> QED BY <2>8, <3>1, SumsAddStripe DEF Add
  <2>9. CASE FastAdd(t)
    <3>1. chooser' \in 0..(NumStripes - 1) BY DEF TypeInv, TypeOK
    <3> QED BY <2>9, <3>1, SumsAddStripe DEF FastAdd
  <2> QED BY <1>7, <2>1, <2>2, <2>3, <2>4, <2>5, <2>6, <2>7, <2>8, <2>9, SumsAddGroup, SumsAddApprox,
             SumsCommitOffset DEF Step
<1> QED BY <1>1, <1>3, <1>4, <1>5, <1>6, <1>7 DEF Next, vars, shared, locals

\* Whenever no call is in flight, the stripes, the cells that currentVector scans and
\* approxNet agree, in every mode and with Update: no interleaving of the three stores of
\* an addition, or of the two of a commit, leaves them apart.
THEOREM RedundantSumsAgree == Spec => []SumsAgree
<1>1. TypeInv /\ SumsInv => SumsAgree
  <2> SUFFICES ASSUME TypeInv, SumsInv, Quiescent PROVE SumsAgree BY DEF SumsAgree
  <2>1. Due(pc, n, "addGroup") = 0 /\ Due(pc, n, "addApprox") = 0 BY NothingDue DEF Quiescent
  <2>2. used \in Int /\ committedOffset \in Int BY DEF TypeInv, TypeOK
  <2> QED BY <2>1, <2>2 DEF SumsInv, SumsAgree, Cells
<1>2. TypeInv /\ SumsInv /\ [Next]_vars => (TypeInv /\ SumsInv)' BY TypeNext, SumsNext
<1> QED BY <1>1, <1>2, TypeInit, SumsInit, PTL DEF Spec
=============================================================================
