------------------------- MODULE RateLimiterProofs -------------------------
(***************************************************************************)
(* Theorems about the rate limiter service, for any keys, handlers, flags  *)
(* and bounds.                                                             *)
(***************************************************************************)
EXTENDS RateLimiter, TLAPS

\* TypeOK, one part for each process and for the struct it works on.
InstTypes ==
    /\ used \in [Instances -> 0..conf.limit]
    /\ committed \in [Instances -> Int] /\ persisted \in [Instances -> Int]
    /\ stray \in [Instances -> Int]
    /\ age \in [Instances -> 0..2] /\ armed \in [Instances -> BOOLEAN]
StoreTypes ==
    /\ counters \in [Keys -> 0..MaxInstances]
    /\ made \in 0..MaxInstances
    /\ owner \in [Instances -> Keys \cup {NoKey}]
HandlerTypes ==
    /\ hpc \in [Handlers -> {"idle", "create", "touch", "op"}]
    /\ hop \in [Handlers -> {"check", "release"}]
    /\ hkey \in [Handlers -> Keys \cup {NoKey}]
    /\ hinst \in [Handlers -> 0..MaxInstances]
CommitTypes ==
    /\ cpc \in {"idle", "scan", "visit", "apply", "done"}
    /\ cTodo \in SUBSET Keys /\ cInst \in 0..MaxInstances /\ cSum \in Int
    /\ cBatch \in [Instances -> Int] /\ cSent \in SUBSET Instances /\ cFinal \in BOOLEAN
EvictTypes ==
    /\ epc \in {"idle", "next", "sum", "offset", "persist", "apply", "delete", "done"}
    /\ eTodo \in SUBSET Keys /\ eKey \in Keys \cup {NoKey} /\ eVec \in Int
MainTypes ==
    /\ mpc \in {"serving", "stopping", "shutdown", "exited"}
    /\ drained \in BOOLEAN /\ conf \in Configs
    /\ failures \in Nat /\ crashes \in Nat

\* Which key and which instance each process is at.
PointersInv ==
    /\ \A k \in Keys : counters[k] # 0 => counters[k] <= made /\ owner[counters[k]] = k
    /\ \A v \in Instances : v <= made => owner[v] \in Keys
    /\ \A h \in Handlers :
          /\ hpc[h] \in {"create", "touch", "op"} => hkey[h] \in Keys
          /\ hpc[h] \in {"touch", "op"} => hinst[h] \in 1..made
    /\ cpc = "visit" => cInst \in 1..made
    /\ epc \in {"sum", "offset", "persist", "apply", "delete"} =>
          eKey \in Keys /\ counters[eKey] # 0

\* An instance folds no more than was taken from it, and nothing is taken from one
\* that no handler has published.
FoldInv == \A v \in Instances :
    /\ 0 <= committed[v] /\ committed[v] <= used[v]
    /\ v > made => used[v] = 0

TypeInv == TypeOK /\ PointersInv /\ FoldInv

\* With no key to evict, the eviction loop stays in its select, the memory of a
\* process keeps the instances it has, and each key has but one.
NoEviction == ~conf.evict =>
    /\ epc \in {"idle", "done"}
    /\ \A v \in Instances : age[v] < 2
    /\ crashes = 0 => \A v \in 1..made : counters[owner[v]] = v

Live(v) == \E k \in Keys : counters[k] = v
\* What the running call of CommitBatch has written, or the fold has yet to reach.
InFlight(v) == IF v \in cSent THEN cBatch[v] ELSE 0
\* Neither the eviction loop nor a client takes anything back.
Steady == ~conf.evict /\ ~conf.release

\* The batch holds vectors of instances in the store; a fold is of an entry that was sent.
BatchInv ==
    /\ cpc \in {"idle", "done"} => cBatch = NoBatch
    /\ \A k \in cTodo : counters[k] # 0 => cBatch[counters[k]] = 0
    /\ \A v \in Instances : cBatch[v] >= 0 /\ (cBatch[v] # 0 => Live(v))
    /\ \A v \in cSent : cBatch[v] # 0
    /\ cpc = "apply" => \A v \in Instances \ cSent : cBatch[v] = 0
\* A sum of the stripes, however torn, lies between what is folded and what is taken.
VisitInv == cpc = "visit" =>
    /\ Live(cInst) /\ cBatch[cInst] = 0
    /\ owner[cInst] \notin cTodo
    /\ committed[cInst] <= cSum /\ cSum <= used[cInst]
NoRefunds == \A h \in Handlers : hop[h] = "check"
CommitInv == Steady => BatchInv /\ VisitInv /\ NoRefunds

\* What was acknowledged is what was folded or is about to be; what was not is at
\* most one copy of the instance for each call that failed.
WriteParts == \A v \in Instances :
    /\ committed[v] + cBatch[v] <= used[v]
    /\ committed[v] + InFlight(v) <= Acknowledged(v)
    /\ Acknowledged(v) <= used[v]
    /\ Live(v) => Acknowledged(v) = committed[v] + InFlight(v)
    /\ 0 <= stray[v] /\ stray[v] <= failures * used[v]
WriteInv == Steady => WriteParts

\* The shutdown of a service whose clients are gone and whose batches succeed: the
\* final pass leaves nothing behind it.
Drained == drained /\ failures = 0 /\ Steady
FlushInv ==
    /\ cFinal => cpc # "idle" /\ mpc # "serving"
    /\ cpc = "done" => cFinal
    /\ cpc \in {"apply", "done"} => cTodo = {}
    /\ mpc \in {"shutdown", "exited"} => cpc = "done"
    /\ drained => \A h \in Handlers : hpc[h] = "idle"
    /\ Drained /\ cFinal =>
          /\ cpc = "visit" => cSum = used[cInst]
          /\ \A k \in Keys \ cTodo :
                counters[k] # 0 /\ (cpc = "visit" => counters[k] # cInst) =>
                    committed[counters[k]] + cBatch[counters[k]] = used[counters[k]]

Inv == TypeInv /\ NoEviction /\ CommitInv /\ WriteInv /\ FlushInv

-----------------------------------------------------------------------------
(* Types and pointers.                                                     *)

\* What the assumptions say of a configuration.
LEMMA ConfigType ==
    ASSUME conf \in Configs
    PROVE  /\ conf.limit \in Nat /\ conf.low \in Nat
           /\ conf.evict \in BOOLEAN /\ conf.release \in BOOLEAN /\ conf.maxAge \in BOOLEAN
BY ConfigAssumption

\* The parts of TypeOK.
LEMMA TypeParts ==
    TypeOK <=> /\ InstTypes /\ StoreTypes /\ HandlerTypes
               /\ CommitTypes /\ EvictTypes /\ MainTypes
BY DEF TypeOK, InstTypes, StoreTypes, HandlerTypes, CommitTypes, EvictTypes, MainTypes

\* The initial state is well typed.
LEMMA InitTyped == Init => TypeInv
<1> SUFFICES ASSUME Init PROVE TypeInv
    OBVIOUS
<1>1. conf \in Configs /\ conf.limit \in Nat
    BY ConfigAssumption, ConfigType DEF Init
<1>2. InstTypes
    BY <1>1 DEF Init, InstTypes
<1>3. StoreTypes /\ HandlerTypes
    BY ConfigAssumption DEF Init, StoreTypes, HandlerTypes
<1>6. cFinal \in BOOLEAN /\ drained \in BOOLEAN
    BY Zenon DEF Init
<1>4. CommitTypes /\ EvictTypes /\ MainTypes
    BY <1>1, <1>6, ConfigAssumption DEF Init, CommitTypes, EvictTypes, MainTypes, NoBatch
<1>5. PointersInv /\ FoldInv
    BY ConfigAssumption DEF Init, PointersInv, FoldInv, Instances
<1> QED
    BY <1>2, <1>3, <1>4, <1>5, TypeParts DEF TypeInv

\* One unit more or less: a sum in progress sees it or does not.
LEMMA AddTyped ==
    ASSUME NEW v \in Instances, NEW d \in Int, AddToStripe(v, d), cSum \in Int, eVec \in Int
    PROVE  /\ used' = [used EXCEPT ![v] = @ + d]
           /\ cSum' \in {cSum, cSum + d} /\ (~(cpc = "visit" /\ cInst = v) => cSum' = cSum)
           /\ cSum' \in Int /\ eVec' \in Int
BY DEF AddToStripe, Seen

\* VSA.Commit folds no more than the vector that is there.
LEMMA FoldKeeps ==
    ASSUME NEW v \in Instances, NEW vec \in Int, Fold(v, vec), FoldInv,
           used \in [Instances -> Nat], committed \in [Instances -> Int], UNCHANGED <<used, made>>
    PROVE  committed' \in [Instances -> Int] /\ FoldInv'
BY DEF Fold, FoldInv, MinOf, Abs, Vector

\* Every action keeps the types, the pointers and the bounds of what is folded.
LEMMA StepTyped == TypeInv /\ [Next]_vars => TypeInv'
<1> SUFFICES ASSUME TypeInv, [Next]_vars
             PROVE  /\ InstTypes' /\ StoreTypes' /\ HandlerTypes' /\ CommitTypes'
                    /\ EvictTypes' /\ MainTypes' /\ PointersInv' /\ FoldInv'
    <2>1. TypeOK' <=> (/\ InstTypes /\ StoreTypes /\ HandlerTypes
                       /\ CommitTypes /\ EvictTypes /\ MainTypes)'
        BY TypeParts, PTL
    <2> QED
        BY <2>1 DEF TypeInv
<1> DEFINE Goal == /\ InstTypes' /\ StoreTypes' /\ HandlerTypes' /\ CommitTypes'
                   /\ EvictTypes' /\ MainTypes' /\ PointersInv' /\ FoldInv'
<1> USE DEF vars, instVars, storeVars, handlerVars, commitVars, evictVars, envVars
<1>t. /\ InstTypes /\ StoreTypes /\ HandlerTypes /\ CommitTypes
      /\ EvictTypes /\ MainTypes /\ PointersInv /\ FoldInv
    BY TypeParts DEF TypeInv
<1>c. /\ conf.limit \in Nat /\ used \in [Instances -> Nat] /\ MaxInstances \in Nat
      /\ Instances = 1..MaxInstances
    BY <1>t, ConfigType, ConfigAssumption DEF InstTypes, MainTypes, Instances
<1>1. ASSUME NEW h \in Handlers, Request(h) PROVE Goal
    <2>1. HandlerTypes'
        BY <1>1, <1>t, <1>c DEF Request, HandlerTypes, StoreTypes
    <2>2. PointersInv'
        BY <1>1, <1>t, <1>c DEF Request, PointersInv, StoreTypes, HandlerTypes
    <2>3. InstTypes' /\ StoreTypes' /\ CommitTypes' /\ EvictTypes' /\ MainTypes' /\ FoldInv'
        BY <1>1, <1>t DEF Request, InstTypes, StoreTypes, CommitTypes, EvictTypes, MainTypes, FoldInv
    <2> QED
        BY <2>1, <2>2, <2>3
<1>2. ASSUME NEW h \in Handlers, Create(h) PROVE Goal
    <2>p. hkey[h] \in Keys
        BY <1>2, <1>t, <1>c DEF Create, StoreTypes, HandlerTypes, CommitTypes, PointersInv
    <2>4. InstTypes' /\ CommitTypes' /\ EvictTypes' /\ MainTypes' /\ FoldInv'
        <3>1. made' \in Int /\ made <= made' /\ made \in Int
            BY <1>2, <1>t DEF Create, StoreTypes
        <3>2. InstTypes' /\ CommitTypes' /\ EvictTypes' /\ MainTypes'
            BY <1>2, <1>t DEF Create, InstTypes, CommitTypes, EvictTypes, MainTypes
        <3>3. UNCHANGED <<used, committed>>
            BY <1>2 DEF Create
        <3>4. \A v \in Instances : v \in Int /\ (v > made' => v > made)
            BY <3>1, <1>c
        <3>5. FoldInv'
            BY <1>t, <3>3, <3>4 DEF FoldInv, Instances
        <3> QED
            BY <3>2, <3>5
    <2>s. CASE counters[hkey[h]] # 0
        <3>1. /\ hinst' = [hinst EXCEPT ![h] = counters[hkey[h]]]
              /\ hpc' = [hpc EXCEPT ![h] = "touch"] /\ UNCHANGED <<hop, hkey, storeVars>>
              /\ UNCHANGED <<cpc, cInst, epc, eKey>>
            BY <1>2, <2>s DEF Create
        <3>2. StoreTypes' /\ HandlerTypes'
            BY <1>t, <1>c, <2>p, <3>1 DEF StoreTypes, HandlerTypes
        <3>3. PointersInv'
            BY <1>t, <1>c, <2>p, <3>1, <2>s DEF PointersInv, StoreTypes, HandlerTypes
        <3> QED
            BY <2>4, <3>2, <3>3
    <2>n. CASE counters[hkey[h]] = 0
        <3>1. /\ hinst' = [hinst EXCEPT ![h] = made + 1] /\ made' = made + 1
              /\ counters' = [counters EXCEPT ![hkey[h]] = made + 1]
              /\ owner' = [owner EXCEPT ![made + 1] = hkey[h]]
              /\ hpc' = [hpc EXCEPT ![h] = "op"] /\ UNCHANGED <<hop, hkey>>
              /\ UNCHANGED <<cpc, cInst, epc, eKey>>
            BY <1>2, <2>n DEF Create
        <3>0. made \in 0..MaxInstances /\ made + 1 \in Instances
            BY <1>2, <2>n, <1>t, <1>c DEF Create, StoreTypes
        <3>2. StoreTypes'
            BY <1>t, <1>c, <2>p, <3>1, <3>0 DEF StoreTypes
        <3>3. HandlerTypes'
            BY <1>t, <1>c, <3>1, <3>0 DEF HandlerTypes
        <3>4. \A k \in Keys : counters'[k] # 0 =>
                 counters'[k] <= made' /\ owner'[counters'[k]] = k
            BY <1>t, <1>c, <2>p, <3>1, <3>0 DEF PointersInv, StoreTypes
        <3>5. \A v \in Instances : v <= made' => owner'[v] \in Keys
            BY <1>t, <1>c, <2>p, <3>1, <3>0 DEF PointersInv, StoreTypes
        <3>6. \A g \in Handlers :
                 /\ hpc'[g] \in {"create", "touch", "op"} => hkey'[g] \in Keys
                 /\ hpc'[g] \in {"touch", "op"} => hinst'[g] \in 1..made'
            BY <1>t, <1>c, <2>p, <3>1, <3>0 DEF PointersInv, HandlerTypes
        <3>7. cpc' = "visit" => cInst' \in 1..made'
            BY <1>t, <3>1, <3>0 DEF PointersInv
        <3>8. epc' \in {"sum", "offset", "persist", "apply", "delete"} =>
                 eKey' \in Keys /\ counters'[eKey'] # 0
            BY <1>t, <2>n, <2>p, <3>1, <3>0 DEF PointersInv, StoreTypes
        <3> QED
            BY <2>4, <3>2, <3>3, <3>4, <3>5, <3>6, <3>7, <3>8 DEF PointersInv
    <2> QED
        BY <2>s, <2>n
<1>3. ASSUME NEW h \in Handlers, Touch(h) PROVE Goal
    <2>p. hinst[h] \in Instances
        BY <1>3, <1>t, <1>c DEF Touch, StoreTypes, HandlerTypes, CommitTypes, PointersInv
    <2>1. InstTypes'
        BY <1>3, <1>t, <1>c, <2>p, SMTT(30) DEF Touch, InstTypes
    <2>2. HandlerTypes'
        BY <1>3, <1>t, <1>c, <2>p DEF Touch, HandlerTypes
    <2>3. PointersInv'
        BY <1>3, <1>t, <1>c, <2>p DEF Touch, PointersInv, StoreTypes, HandlerTypes
    <2>4. StoreTypes' /\ CommitTypes' /\ EvictTypes' /\ MainTypes' /\ FoldInv'
        BY <1>3, <1>t DEF Touch, StoreTypes, CommitTypes, EvictTypes, MainTypes, FoldInv
    <2> QED
        BY <2>1, <2>2, <2>3, <2>4
<1>4. ASSUME NEW h \in Handlers, Check(h) PROVE Goal
    <2>p. hinst[h] \in Instances
        BY <1>4, <1>t, <1>c DEF Check, StoreTypes, HandlerTypes, CommitTypes, PointersInv
    <2>u. used' \in [Instances -> 0..conf.limit]
        <3>1. CASE used[hinst[h]] < conf.limit
            <4>1. used' = [used EXCEPT ![hinst[h]] = @ + 1] /\ used[hinst[h]] + 1 \in 0..conf.limit
                BY <1>4, <1>c, <2>p, <3>1 DEF Check, AddToStripe
            <4> QED
                BY <1>t, <2>p, <4>1 DEF InstTypes
        <3> QED
            BY <1>4, <1>t, <3>1 DEF Check, InstTypes
    <2>1. InstTypes'
        BY <1>4, <1>t, <2>u DEF Check, InstTypes
    <2>2. HandlerTypes'
        BY <1>4, <1>t, <1>c, <2>p DEF Check, Done, HandlerTypes, NoKey
    <2>3. PointersInv'
        BY <1>4, <1>t, <1>c, <2>p DEF Check, Done, PointersInv, StoreTypes, HandlerTypes
    <2>4. FoldInv'
        <3>1. hinst[h] <= made /\ made \in Int
            BY <1>4, <1>t DEF Check, PointersInv, StoreTypes
        <3>2. used' = used \/ used' = [used EXCEPT ![hinst[h]] = @ + 1]
            BY <1>4 DEF Check, AddToStripe
        <3> QED
            <4>1. \A v \in Instances :
                     used'[v] = used[v] \/ (v = hinst[h] /\ used'[v] = used[v] + 1)
                BY <3>2, <1>c
            <4>2. UNCHANGED <<committed, made>>
                  /\ \A v \in Instances : used[v] \in Nat /\ committed[v] \in Int
                BY <1>4, <1>t, <1>c DEF Check, InstTypes
            <4>3. ASSUME NEW v \in Instances
                  PROVE  0 <= committed[v] /\ committed[v] <= used'[v] /\ (v > made => used'[v] = 0)
                <5>1. 0 <= committed[v] /\ committed[v] <= used[v] /\ (v > made => used[v] = 0)
                    BY <1>t DEF FoldInv
                <5>2. v \in Int
                    BY <1>c
                <5> QED
                    BY <5>1, <5>2, <4>1, <4>2, <3>1
            <4> QED
                BY <4>2, <4>3 DEF FoldInv, Instances
    <2>6. cSum' \in Int /\ eVec' \in Int
        BY <1>4, <1>t, <2>p, AddTyped DEF Check, CommitTypes, EvictTypes
    <2>5. StoreTypes' /\ CommitTypes' /\ EvictTypes' /\ MainTypes'
        BY <1>4, <1>t, <2>6 DEF Check, Done, StoreTypes, CommitTypes, EvictTypes, MainTypes
    <2> QED
        BY <2>1, <2>2, <2>3, <2>4, <2>5
<1>5. ASSUME NEW h \in Handlers, Release(h) PROVE Goal
    <2>p. hinst[h] \in Instances
        BY <1>5, <1>t, <1>c DEF Release, StoreTypes, HandlerTypes, CommitTypes, PointersInv
    <2>u. used' \in [Instances -> 0..conf.limit]
        <3>1. CASE Vector(hinst[h]) > 0
            <4>1. /\ used' = [used EXCEPT ![hinst[h]] = @ - 1]
                  /\ 0 <= committed[hinst[h]] /\ committed[hinst[h]] < used[hinst[h]]
                  /\ committed[hinst[h]] \in Int /\ used[hinst[h]] \in 0..conf.limit
                <5>1. used' = [used EXCEPT ![hinst[h]] = @ - 1]
                    BY <1>5, <1>c, <2>p, <3>1 DEF Release, AddToStripe
                <5>2. 0 <= committed[hinst[h]]
                    BY <1>t, <2>p DEF FoldInv
                <5>3. committed[hinst[h]] \in Int /\ used[hinst[h]] \in 0..conf.limit
                    BY <1>t, <2>p DEF InstTypes
                <5>4. committed[hinst[h]] < used[hinst[h]]
                    BY <3>1, <5>3, <1>c DEF Vector
                <5> QED
                    BY <5>1, <5>2, <5>3, <5>4
            <4>2. used[hinst[h]] - 1 \in 0..conf.limit
                BY <4>1, <1>c
            <4> QED
                BY <1>t, <2>p, <4>1, <4>2 DEF InstTypes
        <3> QED
            BY <1>5, <1>t, <3>1 DEF Release, InstTypes
    <2>1. InstTypes'
        BY <1>5, <1>t, <2>u DEF Release, InstTypes
    <2>2. HandlerTypes'
        BY <1>5, <1>t, <1>c, <2>p DEF Release, Done, Vector, HandlerTypes
    <2>3. PointersInv'
        BY <1>5, <1>t, <1>c, <2>p DEF Release, Done, Vector, PointersInv, StoreTypes, HandlerTypes
    <2>4. FoldInv'
        <3>1. CASE used' = used
            BY <1>5, <1>t, <3>1 DEF Release, FoldInv
        <3>2. CASE /\ used' = [used EXCEPT ![hinst[h]] = @ - 1]
                   /\ used[hinst[h]] - committed[hinst[h]] > 0
            <4>1. \A v \in Instances : used'[v] = IF v = hinst[h] THEN used[v] - 1 ELSE used[v]
                BY <3>2, <1>c
            <4>2. UNCHANGED <<committed, made>> /\ \A v \in Instances : used[v] \in Nat /\ committed[v] \in Int
                BY <1>5, <1>t, <1>c DEF Release, InstTypes
            <4>3. ASSUME NEW v \in Instances
                  PROVE  0 <= committed[v] /\ committed[v] <= used'[v] /\ (v > made => used'[v] = 0)
                <5>1. 0 <= committed[v] /\ committed[v] <= used[v] /\ (v > made => used[v] = 0)
                    BY <1>t DEF FoldInv
                <5> QED
                    BY <5>1, <4>1, <4>2, <3>2
            <4> QED
                BY <4>2, <4>3 DEF FoldInv, Instances
        <3>3. Vector(hinst[h]) > 0 =>
                 /\ used' = [used EXCEPT ![hinst[h]] = @ - 1]
                 /\ used[hinst[h]] - committed[hinst[h]] > 0
            BY <1>5, <1>c, <2>p DEF Release, AddToStripe, Vector
        <3>4. ~(Vector(hinst[h]) > 0) => used' = used
            BY <1>5 DEF Release
        <3> QED
            BY <3>1, <3>2, <3>3, <3>4
    <2>6. cSum' \in Int /\ eVec' \in Int
        BY <1>5, <1>t, <2>p, AddTyped DEF Release, CommitTypes, EvictTypes
    <2>5. StoreTypes' /\ CommitTypes' /\ EvictTypes' /\ MainTypes'
        BY <1>5, <1>t, <2>6 DEF Release, Done, StoreTypes, CommitTypes, EvictTypes, MainTypes
    <2> QED
        BY <2>1, <2>2, <2>3, <2>4, <2>5
<1>6. ASSUME NEW v \in Instances, Age(v) PROVE Goal
    <2>l. age[v] + 1 \in 0..2
        <3>1. age[v] \in 0..2 /\ age[v] < 2
            BY <1>6, <1>t DEF Age, InstTypes
        <3> QED
            BY <3>1
    <2>1. InstTypes'
        BY <1>6, <1>t, <1>c, <2>l DEF Age, InstTypes
    <2>2. StoreTypes' /\ HandlerTypes' /\ CommitTypes' /\ EvictTypes' /\ MainTypes' /\ PointersInv' /\ FoldInv'
        BY <1>6, <1>t DEF Age, StoreTypes, HandlerTypes, CommitTypes, EvictTypes, MainTypes, PointersInv, FoldInv
    <2> QED
        BY <2>1, <2>2
<1>7. ASSUME NEW k \in Keys, CommitLoad(k) PROVE Goal
    <2>p. counters[k] # 0 => counters[k] \in Instances
        BY <1>7, <1>t, <1>c DEF CommitLoad, StoreTypes, HandlerTypes, CommitTypes, PointersInv
    <2>1. CommitTypes'
        <3>1. cSum' \in Int /\ cInst' \in 0..MaxInstances /\ cpc' \in {"scan", "visit"}
            BY <1>7, <1>t, <1>c, <2>p DEF CommitLoad, CommitTypes, StoreTypes
        <3> QED
            BY <1>7, <1>t, <3>1 DEF CommitLoad, CommitTypes
    <2>2. PointersInv'
        BY <1>7, <1>t, <1>c, <2>p DEF CommitLoad, PointersInv, StoreTypes
    <2>3. InstTypes' /\ StoreTypes' /\ HandlerTypes' /\ EvictTypes' /\ MainTypes' /\ FoldInv'
        BY <1>7, <1>t DEF CommitLoad, InstTypes, StoreTypes, HandlerTypes, EvictTypes, MainTypes, FoldInv
    <2> QED
        BY <2>1, <2>2, <2>3
<1>8. ASSUME NEW k \in Keys, EvictCheck(k) PROVE Goal
    <2>1. EvictTypes'
        BY <1>8, <1>t, <1>c DEF EvictCheck, EvictTypes
    <2>2. PointersInv'
        BY <1>8, <1>t, <1>c DEF EvictCheck, PointersInv, StoreTypes
    <2>3. InstTypes' /\ StoreTypes' /\ HandlerTypes' /\ CommitTypes' /\ MainTypes' /\ FoldInv'
        BY <1>8, <1>t DEF EvictCheck, InstTypes, StoreTypes, HandlerTypes, CommitTypes, MainTypes, FoldInv
    <2> QED
        BY <2>1, <2>2, <2>3
<1>9. CASE CommitTick
    <2>1. CommitTypes'
        BY <1>9, <1>t, <1>c DEF CommitTick, CommitTypes
    <2>2. PointersInv'
        BY <1>9, <1>t, <1>c DEF CommitTick, PointersInv, StoreTypes
    <2>3. InstTypes' /\ StoreTypes' /\ HandlerTypes' /\ EvictTypes' /\ MainTypes' /\ FoldInv'
        BY <1>9, <1>t DEF CommitTick, InstTypes, StoreTypes, HandlerTypes, EvictTypes, MainTypes, FoldInv
    <2> QED
        BY <2>1, <2>2, <2>3
<1>10. CASE CommitVisit
    <2>p. cInst \in Instances
        BY <1>10, <1>t, <1>c DEF CommitVisit, StoreTypes, HandlerTypes, CommitTypes, PointersInv
    <2>1. InstTypes'
        BY <1>10, <1>t, <1>c, <2>p DEF CommitVisit, InstTypes, ArmedAfter
    <2>2. CommitTypes'
        <3>1. cVec \in Int
            BY <1>t, <2>p DEF cVec, CommitTypes, InstTypes
        <3>2. cBatch' \in [Instances -> Int]
            BY <1>10, <1>t, <2>p, <3>1 DEF CommitVisit, CommitTypes
        <3> QED
            BY <1>10, <1>t, <1>c, <3>2 DEF CommitVisit, CommitTypes
    <2>3. PointersInv'
        BY <1>10, <1>t, <1>c, <2>p DEF CommitVisit, PointersInv, StoreTypes
    <2>4. StoreTypes' /\ HandlerTypes' /\ EvictTypes' /\ MainTypes' /\ FoldInv'
        BY <1>10, <1>t DEF CommitVisit, StoreTypes, HandlerTypes, EvictTypes, MainTypes, FoldInv
    <2> QED
        BY <2>1, <2>2, <2>3, <2>4
<1>11. CASE CommitNothing
    <2>1. CommitTypes'
        BY <1>11, <1>t, <1>c DEF CommitNothing, CommitLoopEnd, CommitTypes, NoBatch
    <2>2. PointersInv'
        BY <1>11, <1>t, <1>c DEF CommitNothing, CommitLoopEnd, PointersInv, StoreTypes
    <2>3. InstTypes' /\ StoreTypes' /\ HandlerTypes' /\ EvictTypes' /\ MainTypes' /\ FoldInv'
        BY <1>11, <1>t DEF CommitNothing, CommitLoopEnd, InstTypes, StoreTypes, HandlerTypes, EvictTypes, MainTypes, FoldInv
    <2> QED
        BY <2>1, <2>2, <2>3
<1>12. CASE CommitPersist
    <2>1. InstTypes'
        BY <1>12, <1>t, <1>c DEF CommitPersist, InstTypes, CommitTypes
    <2>2. CommitTypes'
        BY <1>12, <1>t, <1>c DEF CommitPersist, CommitTypes
    <2>3. PointersInv'
        BY <1>12, <1>t, <1>c DEF CommitPersist, PointersInv, StoreTypes
    <2>4. StoreTypes' /\ HandlerTypes' /\ EvictTypes' /\ MainTypes' /\ FoldInv'
        BY <1>12, <1>t DEF CommitPersist, StoreTypes, HandlerTypes, EvictTypes, MainTypes, FoldInv
    <2> QED
        BY <2>1, <2>2, <2>3, <2>4
<1>29. CASE CommitSend
    <2>p. PICK v \in Instances : /\ persisted' = [persisted EXCEPT ![v] = @ + cBatch[v]]
                                 /\ cSent' = cSent \cup {v}
        BY <1>29 DEF CommitSend
    <2>1. InstTypes'
        <3>1. persisted' \in [Instances -> Int]
            BY <1>t, <2>p DEF InstTypes, CommitTypes
        <3> QED
            BY <1>29, <1>t, <3>1 DEF CommitSend, InstTypes
    <2>2. CommitTypes'
        BY <1>29, <1>t, <2>p DEF CommitSend, CommitTypes
    <2>3. PointersInv'
        BY <1>29, <1>t DEF CommitSend, PointersInv
    <2>4. StoreTypes' /\ HandlerTypes' /\ EvictTypes' /\ MainTypes' /\ FoldInv'
        BY <1>29, <1>t DEF CommitSend, StoreTypes, HandlerTypes, EvictTypes, MainTypes, FoldInv
    <2> QED
        BY <2>1, <2>2, <2>3, <2>4
<1>13. CASE CommitFail
    <2>s. stray' \in [Instances -> Int]
        BY <1>13, <1>t DEF CommitFail, InstTypes, CommitTypes
    <2>1. CommitTypes'
        BY <1>13, <1>t, <1>c DEF CommitFail, CommitLoopEnd, CommitTypes, NoBatch
    <2>2. MainTypes'
        BY <1>13, <1>t, <1>c DEF CommitFail, CommitLoopEnd, MainTypes
    <2>3. PointersInv'
        BY <1>13, <1>t, <1>c DEF CommitFail, CommitLoopEnd, PointersInv, StoreTypes
    <2>4. InstTypes' /\ StoreTypes' /\ HandlerTypes' /\ EvictTypes' /\ FoldInv'
        BY <1>13, <1>t, <2>s DEF CommitFail, CommitLoopEnd, InstTypes, StoreTypes, HandlerTypes, EvictTypes, FoldInv
    <2> QED
        BY <2>1, <2>2, <2>3, <2>4
<1>14. CASE CommitApply
    <2>p. PICK v \in Instances : Fold(v, cBatch[v]) /\ UNCHANGED <<used, made>>
        BY <1>14 DEF CommitApply
    <2>f. committed' \in [Instances -> Int] /\ FoldInv'
        BY <1>t, <1>c, <2>p, FoldKeeps DEF InstTypes, CommitTypes
    <2>1. InstTypes'
        BY <1>14, <1>t, <1>c, <2>f DEF CommitApply, CommitLoopEnd, InstTypes
    <2>2. CommitTypes'
        <3>1. PICK w \in Instances :
                 \/ CommitLoopEnd
                 \/ /\ cBatch' = [cBatch EXCEPT ![w] = 0] /\ cSent' = cSent \ {w}
                    /\ UNCHANGED <<cpc, cTodo, cInst, cSum, cFinal>>
            BY <1>14 DEF CommitApply
        <3>2. CASE CommitLoopEnd
            BY <3>2, <1>t DEF CommitLoopEnd, CommitTypes, NoBatch
        <3> QED
            BY <3>1, <3>2, <1>t DEF CommitTypes
    <2>3. PointersInv'
        BY <1>14, <1>t, <1>c DEF CommitApply, CommitLoopEnd, PointersInv, StoreTypes
    <2>4. StoreTypes' /\ HandlerTypes' /\ EvictTypes' /\ MainTypes'
        BY <1>14, <1>t DEF CommitApply, CommitLoopEnd, StoreTypes, HandlerTypes, EvictTypes, MainTypes
    <2> QED
        BY <2>f, <2>1, <2>2, <2>3, <2>4
<1>15. CASE EvictTick
    <2>1. EvictTypes'
        BY <1>15, <1>t, <1>c DEF EvictTick, EvictTypes
    <2>2. PointersInv'
        BY <1>15, <1>t, <1>c DEF EvictTick, PointersInv, StoreTypes
    <2>3. InstTypes' /\ StoreTypes' /\ HandlerTypes' /\ CommitTypes' /\ MainTypes' /\ FoldInv'
        BY <1>15, <1>t DEF EvictTick, InstTypes, StoreTypes, HandlerTypes, CommitTypes, MainTypes, FoldInv
    <2> QED
        BY <2>1, <2>2, <2>3
<1>16. CASE EvictSum
    <2>p. counters[eKey] \in Instances
        BY <1>16, <1>t, <1>c DEF EvictSum, StoreTypes, HandlerTypes, CommitTypes, PointersInv
    <2>1. EvictTypes'
        BY <1>16, <1>t, <1>c, <2>p DEF EvictSum, EvictTypes, InstTypes
    <2>2. PointersInv'
        BY <1>16, <1>t, <1>c, <2>p DEF EvictSum, PointersInv, StoreTypes
    <2>3. InstTypes' /\ StoreTypes' /\ HandlerTypes' /\ CommitTypes' /\ MainTypes' /\ FoldInv'
        BY <1>16, <1>t DEF EvictSum, InstTypes, StoreTypes, HandlerTypes, CommitTypes, MainTypes, FoldInv
    <2> QED
        BY <2>1, <2>2, <2>3
<1>17. CASE EvictOffset
    <2>p. counters[eKey] \in Instances
        BY <1>17, <1>t, <1>c DEF EvictOffset, StoreTypes, HandlerTypes, CommitTypes, PointersInv
    <2>1. EvictTypes'
        <3>1. eVec' \in Int
            BY <1>17, <1>t, <2>p DEF EvictOffset, EvictTypes, InstTypes
        <3> QED
            BY <1>17, <1>t, <3>1 DEF EvictOffset, EvictTypes
    <2>2. PointersInv'
        BY <1>17, <1>t, <1>c, <2>p DEF EvictOffset, PointersInv, StoreTypes
    <2>3. InstTypes' /\ StoreTypes' /\ HandlerTypes' /\ CommitTypes' /\ MainTypes' /\ FoldInv'
        BY <1>17, <1>t DEF EvictOffset, InstTypes, StoreTypes, HandlerTypes, CommitTypes, MainTypes, FoldInv
    <2> QED
        BY <2>1, <2>2, <2>3
<1>18. CASE EvictPersist
    <2>p. counters[eKey] \in Instances
        BY <1>18, <1>t, <1>c DEF EvictPersist, StoreTypes, HandlerTypes, CommitTypes, PointersInv
    <2>u. persisted' \in [Instances -> Int]
        BY <1>18, <1>t, <1>c, <2>p, SMTT(30) DEF EvictPersist, EvictTypes, InstTypes
    <2>1. InstTypes'
        BY <1>18, <1>t, <2>u DEF EvictPersist, InstTypes
    <2>2. EvictTypes'
        BY <1>18, <1>t, <1>c, <2>p DEF EvictPersist, EvictTypes
    <2>3. PointersInv'
        BY <1>18, <1>t, <1>c, <2>p DEF EvictPersist, PointersInv, StoreTypes
    <2>4. StoreTypes' /\ HandlerTypes' /\ CommitTypes' /\ MainTypes' /\ FoldInv'
        BY <1>18, <1>t DEF EvictPersist, StoreTypes, HandlerTypes, CommitTypes, MainTypes, FoldInv
    <2> QED
        BY <2>1, <2>2, <2>3, <2>4
<1>19. CASE EvictFail
    <2>p. counters[eKey] \in Instances
        BY <1>19, <1>t, <1>c DEF EvictFail, StoreTypes, PointersInv
    <2>q. PICK x \in {0, eVec} : /\ persisted' = [persisted EXCEPT ![counters[eKey]] = @ + x]
                                 /\ stray' = [stray EXCEPT ![counters[eKey]] = @ + x]
        BY <1>19 DEF EvictFail
    <2>r. x \in Int
        BY <1>t DEF EvictTypes
    <2>s. persisted' \in [Instances -> Int] /\ stray' \in [Instances -> Int]
        BY <1>t, <2>p, <2>q, <2>r DEF InstTypes
    <2>1. EvictTypes'
        BY <1>19, <1>t, <1>c DEF EvictFail, EvictTypes, NoKey
    <2>2. MainTypes'
        BY <1>19, <1>t, <1>c DEF EvictFail, MainTypes
    <2>3. PointersInv'
        BY <1>19, <1>t, <1>c DEF EvictFail, PointersInv, StoreTypes
    <2>4. InstTypes' /\ StoreTypes' /\ HandlerTypes' /\ CommitTypes' /\ FoldInv'
        BY <1>19, <1>t, <2>s DEF EvictFail, InstTypes, StoreTypes, HandlerTypes, CommitTypes, FoldInv
    <2> QED
        BY <2>1, <2>2, <2>3, <2>4
<1>20. CASE EvictApply
    <2>p. counters[eKey] \in Instances
        BY <1>20, <1>t, <1>c DEF EvictApply, StoreTypes, HandlerTypes, CommitTypes, PointersInv
    <2>f. committed' \in [Instances -> Int] /\ FoldInv'
        BY <1>20, <1>t, <1>c, <2>p, FoldKeeps DEF EvictApply, InstTypes, EvictTypes
    <2>1. InstTypes'
        BY <1>20, <1>t, <1>c, <2>p, <2>f DEF EvictApply, InstTypes
    <2>2. EvictTypes'
        BY <1>20, <1>t, <1>c, <2>p DEF EvictApply, EvictTypes
    <2>3. PointersInv'
        BY <1>20, <1>t, <1>c, <2>p DEF EvictApply, PointersInv, StoreTypes
    <2>4. StoreTypes' /\ HandlerTypes' /\ CommitTypes' /\ MainTypes'
        BY <1>20, <1>t DEF EvictApply, StoreTypes, HandlerTypes, CommitTypes, MainTypes
    <2> QED
        BY <2>f, <2>1, <2>2, <2>3, <2>4
<1>21. CASE EvictDelete
    <2>1. StoreTypes'
        BY <1>21, <1>t, <1>c DEF EvictDelete, StoreTypes, PointersInv
    <2>2. EvictTypes'
        BY <1>21, <1>t, <1>c DEF EvictDelete, EvictTypes
    <2>3. PointersInv'
        BY <1>21, <1>t, <1>c DEF EvictDelete, PointersInv, StoreTypes
    <2>4. InstTypes' /\ HandlerTypes' /\ CommitTypes' /\ MainTypes' /\ FoldInv'
        BY <1>21, <1>t DEF EvictDelete, InstTypes, HandlerTypes, CommitTypes, MainTypes, FoldInv
    <2> QED
        BY <2>1, <2>2, <2>3, <2>4
<1>22. CASE EvictEnd
    <2>1. EvictTypes'
        BY <1>22, <1>t, <1>c DEF EvictEnd, EvictTypes
    <2>2. PointersInv'
        BY <1>22, <1>t, <1>c DEF EvictEnd, PointersInv, StoreTypes
    <2>3. InstTypes' /\ StoreTypes' /\ HandlerTypes' /\ CommitTypes' /\ MainTypes' /\ FoldInv'
        BY <1>22, <1>t DEF EvictEnd, InstTypes, StoreTypes, HandlerTypes, CommitTypes, MainTypes, FoldInv
    <2> QED
        BY <2>1, <2>2, <2>3
<1>23. CASE EvictStop
    <2>1. EvictTypes'
        BY <1>23, <1>t, <1>c DEF EvictStop, EvictTypes
    <2>2. PointersInv'
        BY <1>23, <1>t, <1>c DEF EvictStop, PointersInv, StoreTypes
    <2>3. InstTypes' /\ StoreTypes' /\ HandlerTypes' /\ CommitTypes' /\ MainTypes' /\ FoldInv'
        BY <1>23, <1>t DEF EvictStop, InstTypes, StoreTypes, HandlerTypes, CommitTypes, MainTypes, FoldInv
    <2> QED
        BY <2>1, <2>2, <2>3
<1>24. CASE Stop
    <2>1. MainTypes'
        BY <1>24, <1>t, <1>c DEF Stop, MainTypes
    <2>2. InstTypes' /\ StoreTypes' /\ HandlerTypes' /\ CommitTypes' /\ EvictTypes' /\ PointersInv' /\ FoldInv'
        BY <1>24, <1>t DEF Stop, InstTypes, StoreTypes, HandlerTypes, CommitTypes, EvictTypes, PointersInv, FoldInv
    <2> QED
        BY <2>1, <2>2
<1>25. CASE Shutdown
    <2>1. MainTypes'
        BY <1>25, <1>t, <1>c DEF Shutdown, MainTypes
    <2>2. InstTypes' /\ StoreTypes' /\ HandlerTypes' /\ CommitTypes' /\ EvictTypes' /\ PointersInv' /\ FoldInv'
        BY <1>25, <1>t DEF Shutdown, InstTypes, StoreTypes, HandlerTypes, CommitTypes, EvictTypes, PointersInv, FoldInv
    <2> QED
        BY <2>1, <2>2
<1>26. CASE Exit
    <2>1. HandlerTypes'
        BY <1>26, <1>t, <1>c DEF Exit, HandlersGone, HandlerTypes
    <2>2. MainTypes'
        BY <1>26, <1>t, <1>c DEF Exit, HandlersGone, MainTypes
    <2>3. PointersInv'
        BY <1>26, <1>t, <1>c DEF Exit, HandlersGone, PointersInv, StoreTypes
    <2>4. InstTypes' /\ StoreTypes' /\ CommitTypes' /\ EvictTypes' /\ FoldInv'
        BY <1>26, <1>t DEF Exit, HandlersGone, InstTypes, StoreTypes, CommitTypes, EvictTypes, FoldInv
    <2> QED
        BY <2>1, <2>2, <2>3, <2>4
<1>27. CASE Crash
    <2>1. StoreTypes'
        BY <1>27, <1>t, <1>c DEF Crash, HandlersGone, StoreTypes
    <2>2. HandlerTypes'
        BY <1>27, <1>t, <1>c DEF Crash, HandlersGone, HandlerTypes
    <2>3. CommitTypes'
        <3>1. cFinal' \in BOOLEAN
            BY <1>27, Zenon DEF Crash
        <3> QED
            BY <1>27, <1>t, <1>c, <3>1 DEF Crash, CommitTypes, NoBatch
    <2>4. EvictTypes'
        BY <1>27, <1>t, <1>c DEF Crash, HandlersGone, EvictTypes
    <2>5. MainTypes'
        <3>1. drained' \in BOOLEAN
            BY <1>27, Zenon DEF Crash
        <3> QED
            BY <1>27, <1>t, <1>c, <3>1 DEF Crash, MainTypes
    <2>6. PointersInv'
        BY <1>27, <1>t, <1>c DEF Crash, HandlersGone, PointersInv, StoreTypes
    <2>7. InstTypes' /\ FoldInv'
        BY <1>27, <1>t DEF Crash, HandlersGone, InstTypes, FoldInv
    <2> QED
        BY <2>1, <2>2, <2>3, <2>4, <2>5, <2>6, <2>7
<1>28. CASE UNCHANGED vars
    BY <1>28, <1>t DEF InstTypes, StoreTypes, HandlerTypes, CommitTypes, EvictTypes, MainTypes, PointersInv, FoldInv
<1> QED
    BY <1>1, <1>2, <1>3, <1>4, <1>5, <1>6, <1>7, <1>8, <1>9, <1>10, <1>11, <1>12, <1>13, <1>14, <1>15, <1>16, <1>17, <1>18, <1>19, <1>20, <1>21, <1>22, <1>23, <1>24, <1>25, <1>26, <1>27, <1>28, <1>29
    DEF Next, HandlerStep, CommitStep, EvictStep, Terminated

-----------------------------------------------------------------------------
(* Without eviction a key keeps its instance.                              *)

\* No step changes the flags of the service.
LEMMA ConfKept == [Next]_vars => conf' = conf
BY DEF Next, vars, envVars, instVars, storeVars, handlerVars, commitVars, evictVars,
       HandlerStep, CommitStep, EvictStep, Terminated,
       Request, Create, Touch, Check, Release, Age, CommitTick, CommitLoad, CommitVisit,
       CommitNothing, CommitSend, CommitPersist, CommitFail, CommitApply, EvictTick, EvictCheck,
       EvictSum, EvictOffset, EvictPersist, EvictFail, EvictApply, EvictDelete, EvictEnd,
       EvictStop, Stop, Shutdown, Exit, Crash

\* The steps of a service in which no key gets old enough to be evicted.
EvictionFree ==
    \/ \E h \in Handlers : Request(h) \/ HandlerStep(h)
    \/ \E v \in Instances : Age(v)
    \/ CommitStep \/ EvictStop
    \/ Stop \/ Shutdown \/ Exit \/ Crash

\* The eviction loop finds no candidate, so it never leaves its select.
LEMMA NothingToEvict ==
    ASSUME TypeInv, NoEviction, ~conf.evict, [Next]_vars
    PROVE  EvictionFree \/ UNCHANGED vars
<1>1. epc \in {"idle", "done"} /\ \A v \in Instances : age[v] < 2
    BY DEF NoEviction
<1>2. ~EvictTick
    <2>1. \A k \in Keys : counters[k] # 0 => counters[k] \in Instances
        BY ConfigAssumption DEF TypeInv, TypeOK, Instances
    <2>2. \A k \in Keys : ~(counters[k] # 0 /\ age[counters[k]] = 2)
        BY <1>1, <2>1
    <2> QED
        BY <2>2 DEF EvictTick
<1>3. EvictStep => EvictStop
    BY <1>1, <1>2
    DEF EvictStep, EvictCheck, EvictSum, EvictOffset, EvictPersist, EvictFail, EvictApply,
        EvictDelete, EvictEnd
<1> QED
    BY <1>3 DEF Next, EvictionFree, Terminated

\* Every action keeps NoEviction.
LEMMA StepNoEviction == TypeInv /\ NoEviction /\ [Next]_vars => NoEviction'
<1> SUFFICES ASSUME TypeInv, NoEviction, [Next]_vars, ~conf.evict
             PROVE  /\ epc' \in {"idle", "done"}
                    /\ \A v \in Instances : age'[v] < 2
                    /\ crashes' = 0 => \A v \in 1..made' : counters'[owner'[v]] = v
    BY ConfKept DEF NoEviction, Instances
<1> DEFINE Kept == /\ epc' \in {"idle", "done"}
                   /\ \A v \in Instances : age'[v] < 2
                   /\ crashes' = 0 => \A v \in 1..made' : counters'[owner'[v]] = v
<1> USE DEF vars, instVars, storeVars, handlerVars, commitVars, evictVars, envVars
<1>n. /\ epc \in {"idle", "done"}
      /\ \A v \in Instances : age[v] < 2
      /\ crashes = 0 => \A v \in 1..made : counters[owner[v]] = v
    BY DEF NoEviction
<1>t. InstTypes /\ StoreTypes /\ PointersInv /\ MaxInstances \in Nat /\ Instances = 1..MaxInstances
    BY TypeParts, ConfigAssumption DEF TypeInv, Instances
<1>1. CASE /\ UNCHANGED <<age, counters, made, owner, crashes>>
           /\ epc' \in {"idle", "done"}
    BY <1>1, <1>n
<1>2. ASSUME NEW h \in Handlers, Create(h) PROVE Kept
    <2>1. UNCHANGED <<age, epc, crashes>> /\ hkey[h] \in Keys
        BY <1>2, <1>t DEF Create, PointersInv
    <2>2. CASE counters[hkey[h]] # 0
        BY <1>2, <2>1, <2>2, <1>n DEF Create
    <2>3. CASE counters[hkey[h]] = 0
        <3>1. /\ made' = made + 1
              /\ counters' = [counters EXCEPT ![hkey[h]] = made + 1]
              /\ owner' = [owner EXCEPT ![made + 1] = hkey[h]]
              /\ made \in Nat /\ made < MaxInstances
            BY <1>2, <2>3, <1>t DEF Create, StoreTypes
        <3>2. ASSUME crashes = 0, NEW v \in 1..made' PROVE counters'[owner'[v]] = v
            <4>1. CASE v = made + 1
                BY <1>t, <2>1, <3>1, <4>1 DEF StoreTypes
            <4>2. CASE v # made + 1
                <5>1. v \in 1..made /\ v \in Instances /\ owner'[v] = owner[v]
                    BY <3>1, <4>2, <1>t DEF StoreTypes
                <5>2. owner[v] \in Keys /\ counters[owner[v]] = v
                    BY <5>1, <3>2, <1>n, <1>t, <3>1 DEF PointersInv
                <5> QED
                    BY <5>1, <5>2, <2>3, <3>1, <1>t DEF StoreTypes
            <4> QED
                BY <4>1, <4>2
        <3> QED
            BY <3>2, <2>1, <1>n
    <2> QED
        BY <2>2, <2>3
<1>3. ASSUME NEW h \in Handlers, Touch(h) PROVE Kept
    BY <1>3, <1>n, <1>t DEF Touch, InstTypes
<1>4. ASSUME NEW v \in Instances, Age(v) PROVE Kept
    <2>0. age[v] \in 0..2 /\ age[v] < 1
        <3>1. age[v] \in 0..2 /\ age[v] < (IF conf.maxAge THEN 1 ELSE 0)
            BY <1>4, <1>t DEF Age, InstTypes
        <3> QED
            BY <3>1
    <2>1. age[v] + 1 < 2 /\ UNCHANGED <<counters, made, owner, crashes, epc>>
        BY <1>4, <2>0 DEF Age
    <2>2. \A w \in Instances : age'[w] < 2
        BY <1>4, <2>1, <1>n, <1>t DEF Age, InstTypes
    <2> QED
        BY <2>1, <2>2, <1>n
<1>5. CASE Crash
    <2>1. crashes' # 0
        BY <1>5 DEF Crash, TypeInv, TypeOK
    <2> QED
        BY <1>5, <2>1, <1>n DEF Crash
<1>6. ASSUME NEW h \in Handlers, Request(h) \/ Check(h) \/ Release(h) PROVE Kept
    BY <1>6, <1>1, <1>n DEF Request, Check, Release
<1>7. CASE CommitStep
    BY <1>7, <1>1, <1>n
    DEF CommitStep, CommitTick, CommitLoad, CommitVisit, CommitNothing, CommitSend, CommitPersist,
        CommitFail, CommitApply
<1>8. CASE EvictStop \/ Stop \/ Shutdown \/ Exit \/ UNCHANGED vars
    BY <1>8, <1>1, <1>n DEF EvictStop, Stop, Shutdown, Exit
<1> QED
    BY <1>2, <1>3, <1>4, <1>5, <1>6, <1>7, <1>8, NothingToEvict DEF EvictionFree, HandlerStep

-----------------------------------------------------------------------------
(* The batch of the commit loop, without evictions and refunds.            *)

\* An instance in the store stays there until it is evicted or the process dies.
LEMMA StaysLive ==
    ASSUME TypeInv, NEW h \in Handlers, Create(h), NEW v \in Instances
    PROVE  Live(v) => Live(v)'
<1> SUFFICES ASSUME NEW k \in Keys, counters[k] = v PROVE counters'[k] = v
    BY DEF Live
<1>1. v # 0 /\ counters \in [Keys -> 0..MaxInstances]
    BY ConfigAssumption DEF Instances, TypeInv, TypeOK
<1> QED
    BY <1>1 DEF Create, storeVars

\* The two ends of a round of the loop over vsaToCommit are alike: the entry is gone.
LEMMA ApplyRound ==
    ASSUME TypeInv, CommitApply
    PROVE  \E v \in Instances :
              /\ cpc = "apply" /\ cBatch[v] # 0 /\ Fold(v, cBatch[v])
              /\ cBatch' = [cBatch EXCEPT ![v] = 0] /\ cTodo' = cTodo
              /\ \/ cpc' = "apply" /\ cSent' = cSent \ {v}
                 \/ /\ cpc' = (IF cFinal THEN "done" ELSE "idle")
                    /\ cBatch' = NoBatch /\ cSent' = {}
              /\ UNCHANGED <<cFinal, used, persisted, stray, counters, owner, hop,
                             drained, failures, conf>>
<1>t. cBatch \in [Instances -> Int]
    BY DEF TypeInv, TypeOK
<1>1. PICK v \in Instances :
         /\ cpc = "apply" /\ cBatch[v] # 0 /\ Fold(v, cBatch[v])
         /\ IF \A w \in Instances \ {v} : cBatch[w] = 0
            THEN CommitLoopEnd
            ELSE /\ cBatch' = [cBatch EXCEPT ![v] = 0] /\ cSent' = cSent \ {v}
                 /\ UNCHANGED <<cpc, cTodo, cInst, cSum, cFinal>>
         /\ UNCHANGED <<used, persisted, stray, counters, owner, hop, drained, failures, conf>>
    BY DEF CommitApply, storeVars, handlerVars, envVars
<1>2. CASE \A w \in Instances \ {v} : cBatch[w] = 0
    <2>1. /\ cBatch' = NoBatch /\ cSent' = {} /\ cTodo' = cTodo /\ cFinal' = cFinal
          /\ cpc' = (IF cFinal THEN "done" ELSE "idle")
        BY <1>1, <1>2 DEF CommitLoopEnd
    <2>2. NoBatch = [cBatch EXCEPT ![v] = 0]
        BY <1>2, <1>t DEF NoBatch
    <2> QED
        BY <1>1, <2>1, <2>2
<1>3. CASE ~ \A w \in Instances \ {v} : cBatch[w] = 0
    BY <1>1, <1>3
<1> QED
    BY <1>2, <1>3

\* Every action keeps what the batch and the visit say of the store.
LEMMA StepCommit == TypeInv /\ NoEviction /\ CommitInv /\ [Next]_vars => CommitInv'
<1> SUFFICES ASSUME TypeInv, NoEviction, CommitInv, [Next]_vars, Steady
             PROVE  BatchInv' /\ VisitInv' /\ NoRefunds'
    BY ConfKept DEF CommitInv, Steady
<1> DEFINE Kept == BatchInv' /\ VisitInv' /\ NoRefunds'
<1> USE DEF vars, instVars, storeVars, handlerVars, commitVars, evictVars, envVars
<1>f. ~conf.evict /\ ~conf.release
    BY DEF Steady
<1>n. BatchInv /\ VisitInv /\ NoRefunds
    BY DEF CommitInv
<1>t. /\ InstTypes /\ StoreTypes /\ HandlerTypes /\ CommitTypes /\ EvictTypes /\ PointersInv /\ FoldInv
      /\ MaxInstances \in Nat /\ Instances = 1..MaxInstances
    BY TypeParts, ConfigAssumption DEF TypeInv, Instances
<1>u. used \in [Instances -> Nat]
    BY ConfigType DEF TypeInv, TypeOK
<1>1. CASE UNCHANGED <<hop, counters, owner, used, committed, commitVars>>
    BY <1>1, <1>n DEF BatchInv, VisitInv, NoRefunds, Live, NoBatch
<1>2. ASSUME NEW h \in Handlers, Create(h) PROVE Kept
    <2>1. UNCHANGED <<hop, used, committed, commitVars>> /\ hkey[h] \in Keys
        BY <1>2, <1>t DEF Create, PointersInv
    <2>2. CASE counters[hkey[h]] # 0
        BY <1>2, <2>1, <2>2, <1>1 DEF Create
    <2>3. CASE counters[hkey[h]] = 0
        <3>1. /\ counters' = [counters EXCEPT ![hkey[h]] = made + 1]
              /\ owner' = [owner EXCEPT ![made + 1] = hkey[h]]
              /\ made + 1 \in Instances /\ made \in Nat
            BY <1>2, <2>3, <1>t DEF Create, StoreTypes
        <3>2. cBatch[made + 1] = 0
            BY <3>1, <1>n, <1>t DEF BatchInv, Live, PointersInv, StoreTypes
        <3>3. BatchInv'
            <4>1. \A k \in cTodo' : counters'[k] # 0 => cBatch'[counters'[k]] = 0
                BY <2>1, <3>1, <3>2, <1>n, <1>t DEF BatchInv, StoreTypes, CommitTypes
            <4>2. \A v \in Instances : cBatch'[v] >= 0 /\ (cBatch'[v] # 0 => Live(v)')
                BY <1>2, <2>1, <1>n, StaysLive DEF BatchInv
            <4> QED
                BY <4>1, <4>2, <2>1, <1>n DEF BatchInv, NoBatch
        <3>4. VisitInv'
            <4> SUFFICES ASSUME cpc = "visit"
                         PROVE  /\ Live(cInst)' /\ cBatch'[cInst'] = 0
                                /\ owner'[cInst'] \notin cTodo'
                                /\ committed'[cInst'] <= cSum' /\ cSum' <= used'[cInst']
                BY <2>1 DEF VisitInv
            <4>1. cInst \in Instances /\ cInst # made + 1 /\ cInst' = cInst
                BY <1>t, <2>1, <3>1 DEF PointersInv, StoreTypes
            <4>2. Live(cInst) /\ cBatch[cInst] = 0 /\ owner[cInst] \notin cTodo
                  /\ committed[cInst] <= cSum /\ cSum <= used[cInst]
                BY <1>n DEF VisitInv
            <4>3. Live(cInst)'
                BY <1>2, <4>1, <4>2, StaysLive DEF Live
            <4> QED
                BY <4>1, <4>2, <4>3, <2>1, <3>1, <1>t DEF StoreTypes
        <3> QED
            BY <3>3, <3>4, <2>1, <1>n DEF NoRefunds
    <2> QED
        BY <2>2, <2>3
<1>3. CASE Crash
    <2>1. /\ cBatch' = NoBatch /\ cSent' = {} /\ cTodo' = {} /\ cpc' = "idle"
          /\ hop' = [h \in Handlers |-> "check"]
        BY <1>3 DEF Crash, HandlersGone
    <2> QED
        BY <2>1 DEF BatchInv, VisitInv, NoRefunds, NoBatch, Instances
<1>4. CASE CommitTick
    <2>1. /\ cpc = "idle" /\ cpc' = "scan" /\ cBatch = NoBatch
          /\ UNCHANGED <<hop, cBatch, cSent, counters, owner>>
        BY <1>4, <1>n DEF CommitTick, BatchInv
    <2>2. \A v \in Instances : cBatch[v] = 0
        BY <2>1 DEF NoBatch
    <2> QED
        BY <1>4, <2>1, <2>2, <1>n, <1>t DEF CommitTick, BatchInv, VisitInv, NoRefunds, StoreTypes
<1>5. ASSUME NEW k \in Keys, CommitLoad(k) PROVE Kept
    <2>1. /\ cpc = "scan" /\ k \in cTodo /\ cTodo' = cTodo \ {k}
          /\ UNCHANGED <<hop, used, cBatch, cSent, counters, owner, committed>>
          /\ cpc' \in {"scan", "visit"}
        BY <1>5 DEF CommitLoad
    <2>2. BatchInv'
        BY <2>1, <1>n DEF BatchInv, Live
    <2>3. VisitInv'
        <3> SUFFICES ASSUME cpc' = "visit"
                     PROVE  /\ Live(cInst)' /\ cBatch'[cInst'] = 0
                            /\ owner'[cInst'] \notin cTodo'
                            /\ committed'[cInst'] <= cSum' /\ cSum' <= used'[cInst']
            BY DEF VisitInv
        <3>1. counters[k] # 0 /\ cInst' = counters[k] /\ cSum' = used[counters[k]]
            BY <1>5, <2>1 DEF CommitLoad
        <3>2. counters[k] \in Instances /\ owner[counters[k]] = k
            BY <3>1, <1>t DEF StoreTypes, PointersInv
        <3>3. cBatch[counters[k]] = 0
            BY <2>1, <3>1, <1>n DEF BatchInv
        <3>4. committed[counters[k]] <= used[counters[k]] /\ used[counters[k]] \in Nat
            BY <3>2, <1>t, <1>u DEF FoldInv
        <3> QED
            BY <2>1, <3>1, <3>2, <3>3, <3>4 DEF Live
    <2> QED
        BY <2>1, <2>2, <2>3, <1>n DEF NoRefunds
<1>6. CASE CommitVisit
    <2>1. /\ cpc = "visit" /\ cpc' = "scan"
          /\ UNCHANGED <<hop, cTodo, cSent, counters, owner, committed>>
          /\ cBatch' = cBatch \/ cBatch' = [cBatch EXCEPT ![cInst] = cSum - committed[cInst]]
        BY <1>6 DEF CommitVisit, cVec
    <2>2. /\ Live(cInst) /\ owner[cInst] \notin cTodo /\ cInst \in Instances
          /\ cBatch[cInst] = 0 /\ cSum - committed[cInst] \in Nat
        BY <2>1, <1>n, <1>t, SMTT(30) DEF VisitInv, PointersInv, CommitTypes, InstTypes, StoreTypes
    <2>3. BatchInv'
        <3>1. \A j \in cTodo : counters[j] # 0 => counters[j] # cInst /\ counters[j] \in Instances
            BY <2>2, <1>t DEF PointersInv, CommitTypes, StoreTypes
        <3>2. \A j \in cTodo' : counters'[j] # 0 => cBatch'[counters'[j]] = 0
            BY <3>1, <2>1, <2>2, <1>n, <1>t DEF BatchInv, CommitTypes
        <3>3. \A v \in Instances : cBatch'[v] >= 0 /\ (cBatch'[v] # 0 => Live(v)')
            BY <2>1, <2>2, <1>n, <1>t DEF BatchInv, CommitTypes, Live
        <3>4. \A v \in cSent' : cBatch'[v] # 0
            BY <2>1, <2>2, <1>n, <1>t DEF BatchInv, CommitTypes
        <3> QED
            BY <3>2, <3>3, <3>4, <2>1 DEF BatchInv
    <2> QED
        BY <2>1, <2>3, <1>n DEF VisitInv, NoRefunds
<1>7. CASE CommitNothing \/ CommitFail
    <2>1. /\ cTodo = {} /\ cBatch' = NoBatch /\ cSent' = {} /\ cpc' \in {"idle", "done"}
          /\ UNCHANGED <<hop, cTodo>>
        BY <1>7 DEF CommitNothing, CommitFail, Sending, CommitLoopEnd
    <2> QED
        BY <2>1, <1>n DEF BatchInv, VisitInv, NoRefunds, NoBatch, Instances
<1>8. CASE CommitPersist
    <2>1. /\ cpc = "scan" /\ cpc' = "apply" /\ \A v \in Instances \ cSent : cBatch[v] = 0
          /\ UNCHANGED <<hop, cTodo, cBatch, cSent, counters>>
        BY <1>8 DEF CommitPersist, Sending
    <2> QED
        BY <2>1, <1>n DEF BatchInv, VisitInv, NoRefunds, Live, Instances
<1>9. CASE CommitSend
    <2>1. PICK v \in Instances : cBatch[v] # 0 /\ cSent' = cSent \cup {v}
        BY <1>9 DEF CommitSend
    <2>2. cpc = "scan" /\ UNCHANGED <<hop, cpc, cTodo, cBatch, counters>>
        BY <1>9 DEF CommitSend, Sending
    <2> QED
        BY <2>1, <2>2, <1>n DEF BatchInv, VisitInv, NoRefunds, Live
<1>10. CASE CommitApply
    <2>1. PICK v \in Instances :
              /\ cpc = "apply" /\ cBatch[v] # 0
              /\ cBatch' = [cBatch EXCEPT ![v] = 0] /\ cTodo' = cTodo
              /\ \/ cpc' = "apply" /\ cSent' = cSent \ {v}
                 \/ cpc' \in {"idle", "done"} /\ cBatch' = NoBatch /\ cSent' = {}
              /\ UNCHANGED <<hop, counters>>
        BY <1>10, ApplyRound
    <2>2. \A w \in Instances : cBatch'[w] = IF w = v THEN 0 ELSE cBatch[w]
        BY <2>1, <1>t DEF CommitTypes
    <2>3. BatchInv'
        <3>1. \A k \in cTodo' : counters'[k] # 0 => cBatch'[counters'[k]] = 0
            BY <2>1, <2>2, <1>n, <1>t DEF BatchInv, StoreTypes, CommitTypes
        <3>2. \A w \in Instances : cBatch'[w] >= 0 /\ (cBatch'[w] # 0 => Live(w)')
            BY <2>1, <2>2, <1>n DEF BatchInv, Live
        <3>3. \A w \in cSent' : cBatch'[w] # 0
            BY <2>1, <2>2, <1>n, <1>t DEF BatchInv, CommitTypes
        <3>4. cpc' = "apply" => \A w \in Instances \ cSent' : cBatch'[w] = 0
            BY <2>1, <2>2, <1>n DEF BatchInv
        <3> QED
            BY <2>1, <3>1, <3>2, <3>3, <3>4 DEF BatchInv, Instances, NoBatch
    <2> QED
        BY <2>1, <2>3, <1>n DEF VisitInv, NoRefunds
<1>11. ASSUME NEW h \in Handlers, Check(h) PROVE Kept
    <2>1. /\ UNCHANGED <<counters, owner, committed, cpc, cTodo, cInst, cBatch, cSent>>
          /\ hop' = [hop EXCEPT ![h] = "check"] /\ hinst[h] \in Instances
        BY <1>11, <1>t DEF Check, Done, PointersInv, StoreTypes
    <2>2. \/ used' = used /\ cSum' = cSum
          \/ /\ used' = [used EXCEPT ![hinst[h]] = @ + 1] /\ cSum' \in {cSum, cSum + 1}
             /\ ~(cpc = "visit" /\ cInst = hinst[h]) => cSum' = cSum
        BY <1>11, <1>t, <2>1, AddTyped DEF Check, CommitTypes, EvictTypes
    <2>3. VisitInv'
        <3> SUFFICES ASSUME cpc = "visit"
                     PROVE  committed[cInst] <= cSum' /\ cSum' <= used'[cInst]
            BY <2>1, <1>n DEF VisitInv, Live
        <3>1. /\ committed[cInst] <= cSum /\ cSum <= used[cInst] /\ cInst \in Instances
              /\ committed[cInst] \in Int /\ cSum \in Int /\ used[cInst] \in Nat
            BY <1>n, <1>t, <1>u DEF VisitInv, PointersInv, StoreTypes, InstTypes, CommitTypes
        <3>2. CASE used' = used /\ cSum' = cSum
            BY <3>1, <3>2
        <3>3. CASE cInst = hinst[h] /\ used' = [used EXCEPT ![hinst[h]] = @ + 1] /\ cSum' \in {cSum, cSum + 1}
            <4>1. used'[cInst] = used[cInst] + 1
                BY <3>3, <3>1, <1>u
            <4> QED
                BY <4>1, <3>1, <3>3
        <3>4. CASE cInst # hinst[h] /\ used' = [used EXCEPT ![hinst[h]] = @ + 1] /\ cSum' = cSum
            BY <3>1, <3>4, <1>u
        <3> QED
            BY <2>2, <3>2, <3>3, <3>4
    <2>4. BatchInv'
        BY <2>1, <1>n DEF BatchInv, Live, NoBatch
    <2>5. NoRefunds'
        BY <2>1, <1>n, <1>t DEF NoRefunds, HandlerTypes
    <2> QED
        BY <2>3, <2>4, <2>5
<1>12. ASSUME NEW h \in Handlers, Request(h) \/ Touch(h) \/ Release(h) PROVE Kept
    <2>1. ~Release(h)
        BY <1>n DEF Release, NoRefunds
    <2>2. hop' = hop
        BY <1>12, <1>f, <2>1, <1>n, <1>t DEF Request, Touch, NoRefunds, HandlerTypes
    <2> QED
        BY <1>12, <2>1, <2>2, <1>1 DEF Request, Touch
<1>13. ASSUME NEW v \in Instances, Age(v) PROVE Kept
    BY <1>13, <1>1 DEF Age
<1>14. CASE EvictStop \/ Stop \/ Shutdown \/ UNCHANGED vars
    BY <1>14, <1>1 DEF EvictStop, Stop, Shutdown
<1>15. CASE Exit
    <2>1. hop' = hop
        BY <1>15, <1>n, <1>t DEF Exit, HandlersGone, NoRefunds, HandlerTypes
    <2> QED
        BY <1>15, <2>1, <1>1 DEF Exit
<1> QED
    BY <1>f, <1>2, <1>3, <1>4, <1>5, <1>6, <1>7, <1>8, <1>9, <1>10, <1>11, <1>12, <1>13, <1>14,
       <1>15, NothingToEvict
    DEF EvictionFree, HandlerStep, CommitStep

-----------------------------------------------------------------------------
(* What is folded was written before, and what is written was taken.       *)

\* One call more to fail, or one unit more to write twice.
LEMMA Copies ==
    ASSUME NEW f \in Nat, NEW n \in Nat
    PROVE  /\ (f + 1) * n = f * n + n /\ f * (n + 1) = f * n + f
           /\ f * n \in Nat /\ 0 * n = 0 /\ f * 0 = 0
OBVIOUS

\* Every action of a service without evictions and refunds writes what was taken, once
\* for the calls that succeed and once more for each that does not.
LEMMA StepWrite ==
    TypeInv /\ NoEviction /\ CommitInv /\ WriteInv /\ [Next]_vars => WriteInv'
<1> SUFFICES ASSUME TypeInv, NoEviction, CommitInv, WriteInv, [Next]_vars, Steady
             PROVE  WriteParts'
    BY ConfKept DEF WriteInv, Steady
<1> USE DEF vars, instVars, storeVars, handlerVars, commitVars, evictVars, envVars
<1>f. ~conf.evict /\ ~conf.release
    BY DEF Steady
<1>n. WriteParts /\ BatchInv /\ VisitInv /\ NoRefunds
    BY DEF WriteInv, CommitInv
<1>t. /\ InstTypes /\ StoreTypes /\ HandlerTypes /\ CommitTypes /\ EvictTypes /\ PointersInv /\ FoldInv
      /\ MaxInstances \in Nat /\ Instances = 1..MaxInstances
    BY TypeParts, ConfigAssumption DEF TypeInv, Instances
<1>u. /\ \A v \in Instances : /\ used[v] \in Nat /\ committed[v] \in Int /\ persisted[v] \in Int
                              /\ stray[v] \in Int /\ cBatch[v] \in Int /\ InFlight(v) \in Int
                              /\ failures * used[v] \in Nat
      /\ failures \in Nat
    <2>1. failures \in Nat /\ conf.limit \in Nat
        BY ConfigType DEF TypeInv, TypeOK
    <2>2. \A v \in Instances : /\ used[v] \in Nat /\ committed[v] \in Int /\ persisted[v] \in Int
                               /\ stray[v] \in Int /\ cBatch[v] \in Int
        BY <1>t, <2>1 DEF InstTypes, CommitTypes
    <2>3. \A v \in Instances : failures * used[v] \in Nat /\ InFlight(v) \in Int
        BY <2>1, <2>2, Copies DEF InFlight
    <2> QED
        BY <2>1, <2>2, <2>3
<1>w. \A v \in Instances : /\ 0 <= InFlight(v) /\ InFlight(v) <= cBatch[v] /\ 0 <= committed[v]
                           /\ committed[v] <= used[v]
    BY <1>n, <1>u, <1>t DEF BatchInv, InFlight, FoldInv
<1>p. \A v \in Instances :
         /\ committed[v] + cBatch[v] <= used[v]
         /\ committed[v] + InFlight(v) <= persisted[v] - stray[v]
         /\ persisted[v] - stray[v] <= used[v]
         /\ Live(v) => persisted[v] - stray[v] = committed[v] + InFlight(v)
         /\ 0 <= stray[v] /\ stray[v] <= failures * used[v]
    BY <1>n DEF WriteParts, Acknowledged
<1>q. SUFFICES \A v \in Instances :
         /\ committed'[v] + cBatch'[v] <= used'[v]
         /\ committed'[v] + InFlight(v)' <= persisted'[v] - stray'[v]
         /\ persisted'[v] - stray'[v] <= used'[v]
         /\ Live(v)' => persisted'[v] - stray'[v] = committed'[v] + InFlight(v)'
         /\ 0 <= stray'[v] /\ stray'[v] <= failures' * used'[v]
    BY DEF WriteParts, Acknowledged, Instances
<1> DEFINE Kept(v) ==
         /\ committed'[v] + cBatch'[v] <= used'[v]
         /\ committed'[v] + InFlight(v)' <= persisted'[v] - stray'[v]
         /\ persisted'[v] - stray'[v] <= used'[v]
         /\ Live(v)' => persisted'[v] - stray'[v] = committed'[v] + InFlight(v)'
         /\ 0 <= stray'[v] /\ stray'[v] <= failures' * used'[v]
<1>1. ASSUME NEW v \in Instances,
             UNCHANGED <<used, committed, persisted, stray, failures>>,
             Live(v)' => Live(v), cBatch'[v] = cBatch[v], InFlight(v)' = InFlight(v)
      PROVE  Kept(v)
    BY <1>1, <1>p
<1>2. CASE UNCHANGED <<used, counters, committed, persisted, stray, failures, cBatch, cSent>>
    BY <1>2, <1>1 DEF Live, InFlight
<1>3. ASSUME NEW h \in Handlers, Create(h), NEW v \in Instances PROVE Kept(v)
    <2>1. /\ UNCHANGED <<used, committed, persisted, stray, failures, cBatch, cSent>>
          /\ hkey[h] \in Keys
        BY <1>3, <1>t DEF Create, PointersInv
    <2>2. InFlight(v)' = InFlight(v)
        BY <2>1 DEF InFlight
    <2>3. CASE counters[hkey[h]] # 0
        BY <1>3, <2>1, <2>3, <1>2 DEF Create
    <2>4. CASE counters[hkey[h]] = 0
        <3>1. /\ counters' = [counters EXCEPT ![hkey[h]] = made + 1]
              /\ made + 1 \in Instances /\ made \in Nat
            BY <1>3, <2>4, <1>t DEF Create, StoreTypes
        <3>2. CASE v = made + 1
            <4>1. used[v] = 0
                BY <3>1, <3>2, <1>t DEF FoldInv
            <4>2. failures * used[v] = 0
                BY <4>1, <1>u, Copies
            <4>3. committed[v] = 0 /\ InFlight(v) = 0 /\ cBatch[v] = 0 /\ persisted[v] - stray[v] = 0
                <5>1. /\ committed[v] \in Int /\ persisted[v] - stray[v] \in Int
                      /\ cBatch[v] \in Int /\ InFlight(v) \in Int
                    BY <1>u
                <5>2. /\ committed[v] + cBatch[v] <= 0 /\ persisted[v] - stray[v] <= 0
                      /\ committed[v] + InFlight(v) <= persisted[v] - stray[v]
                    BY <4>1, <1>p
                <5>3. 0 <= committed[v] /\ 0 <= InFlight(v) /\ InFlight(v) <= cBatch[v]
                    BY <1>w
                <5> QED
                    BY <5>1, <5>2, <5>3
            <4> QED
                BY <4>1, <4>2, <4>3, <2>1, <2>2, <1>p, <1>u
        <3>3. CASE v # made + 1
            <4>1. Live(v)' => Live(v)
                BY <3>1, <3>3, <1>t DEF Live, StoreTypes
            <4> QED
                BY <4>1, <2>1, <2>2, <1>1
        <3> QED
            BY <3>2, <3>3
    <2> QED
        BY <2>3, <2>4
<1>4. ASSUME NEW h \in Handlers, Check(h), NEW v \in Instances PROVE Kept(v)
    <2>1. /\ UNCHANGED <<counters, committed, persisted, stray, failures, cBatch, cSent>>
          /\ hinst[h] \in Instances
          /\ used' = used \/ used' = [used EXCEPT ![hinst[h]] = @ + 1]
        BY <1>4, <1>t DEF Check, AddToStripe, Done, PointersInv, StoreTypes
    <2>2. Live(v)' = Live(v) /\ InFlight(v)' = InFlight(v) /\ cBatch'[v] = cBatch[v]
        BY <2>1 DEF Live, InFlight
    <2>3. CASE used'[v] = used[v]
        BY <2>1, <2>2, <2>3, <1>p
    <2>4. CASE used'[v] = used[v] + 1
        <3>1. failures' * used'[v] = failures * used[v] + failures
            BY <2>1, <2>4, <1>u, Copies
        <3> QED
            BY <3>1, <2>1, <2>2, <2>4, <1>p, <1>u
    <2> QED
        BY <2>1, <2>3, <2>4, <1>t DEF InstTypes
<1>5. ASSUME NEW h \in Handlers, Request(h) \/ Touch(h) \/ Release(h) PROVE \A v \in Instances : Kept(v)
    <2>1. ~Release(h)
        BY <1>n DEF Release, NoRefunds
    <2> QED
        BY <1>5, <2>1, <1>2 DEF Request, Touch
<1>6. CASE Crash
    <2> SUFFICES ASSUME NEW v \in Instances PROVE Kept(v)
        OBVIOUS
    <2>1. /\ cBatch' = NoBatch /\ cSent' = {} /\ counters' = [k \in Keys |-> 0]
          /\ UNCHANGED <<used, committed, persisted, stray, failures>>
        BY <1>6 DEF Crash
    <2>2. ~Live(v)' /\ InFlight(v)' = 0 /\ cBatch'[v] = 0
        BY <2>1, <1>t DEF Live, InFlight, NoBatch
    <2> QED
        BY <2>1, <2>2, <1>p, <1>u, <1>w
<1>7. CASE CommitTick \/ (\E k \in Keys : CommitLoad(k)) \/ CommitPersist
    BY <1>7, <1>2 DEF CommitTick, CommitLoad, CommitPersist
<1>8. CASE CommitVisit
    <2> SUFFICES ASSUME NEW v \in Instances PROVE Kept(v)
        OBVIOUS
    <2>1. /\ UNCHANGED <<used, counters, committed, persisted, stray, failures, cSent>>
          /\ cpc = "visit" /\ cInst \in Instances
          /\ cBatch' = cBatch \/ cBatch' = [cBatch EXCEPT ![cInst] = cSum - committed[cInst]]
        BY <1>8, <1>t DEF CommitVisit, cVec, PointersInv, StoreTypes
    <2>2. cSum <= used[cInst] /\ cSum \in Int /\ cInst \notin cSent
        BY <2>1, <1>n, <1>t DEF VisitInv, BatchInv, CommitTypes
    <2>3. cBatch'[v] = cBatch[v] \/ (v = cInst /\ cBatch'[v] = cSum - committed[v])
        BY <2>1, <1>t DEF CommitTypes
    <2>4. Live(v)' = Live(v) /\ InFlight(v)' = InFlight(v)
        BY <2>1, <2>2, <2>3 DEF Live, InFlight
    <2>5. committed[v] + cBatch'[v] <= used[v]
        BY <2>2, <2>3, <1>p, <1>u
    <2> QED
        BY <2>1, <2>4, <2>5, <1>p
<1>9. CASE CommitNothing
    <2>1. /\ cBatch = NoBatch /\ cBatch' = NoBatch /\ cSent' = {}
          /\ UNCHANGED <<used, counters, committed, persisted, stray, failures>>
        BY <1>9 DEF CommitNothing, CommitLoopEnd
    <2>2. \A v \in Instances : InFlight(v)' = InFlight(v)
        BY <2>1 DEF InFlight, NoBatch
    <2> QED
        BY <2>1, <2>2, <1>1 DEF Live
<1>10. CASE CommitFail
    <2> SUFFICES ASSUME NEW v \in Instances PROVE Kept(v)
        OBVIOUS
    <2>1. /\ cBatch' = NoBatch /\ cSent' = {} /\ failures' = failures + 1
          /\ stray'[v] = stray[v] + InFlight(v)
          /\ UNCHANGED <<used, counters, committed, persisted>>
        BY <1>10 DEF CommitFail, CommitLoopEnd, InFlight
    <2>2. (Live(v)' <=> Live(v)) /\ InFlight(v)' = 0 /\ cBatch'[v] = 0
        BY <2>1 DEF Live, InFlight, NoBatch
    <2>3. failures' * used'[v] = failures * used[v] + used[v]
        BY <2>1, <1>u, Copies
    <2>4. 0 <= stray'[v] /\ stray'[v] <= failures' * used'[v]
        BY <2>1, <2>3, <1>p, <1>u, <1>w
    <2>5. /\ committed[v] <= persisted[v] - stray'[v] /\ persisted[v] - stray'[v] <= used[v]
          /\ Live(v) => persisted[v] - stray'[v] = committed[v]
        <3>1. /\ committed[v] \in Int /\ persisted[v] \in Int /\ stray[v] \in Int
              /\ used[v] \in Nat /\ InFlight(v) \in Int /\ 0 <= InFlight(v)
            BY <1>u, <1>w
        <3>2. /\ committed[v] + InFlight(v) <= persisted[v] - stray[v]
              /\ persisted[v] - stray[v] <= used[v]
              /\ Live(v) => persisted[v] - stray[v] = committed[v] + InFlight(v)
            BY <1>p
        <3> QED
            BY <2>1, <3>1, <3>2
    <2> QED
        BY <2>1, <2>2, <2>4, <2>5, <1>u, <1>w
<1>11. CASE CommitSend
    <2> SUFFICES ASSUME NEW v \in Instances PROVE Kept(v)
        OBVIOUS
    <2>1. PICK w \in Instances : /\ w \notin cSent /\ cBatch[w] # 0
                                 /\ persisted' = [persisted EXCEPT ![w] = @ + cBatch[w]]
                                 /\ cSent' = cSent \cup {w}
        BY <1>11 DEF CommitSend
    <2>2. UNCHANGED <<used, counters, committed, stray, failures, cBatch>>
        BY <1>11 DEF CommitSend
    <2>3. CASE v # w
        <3>1. persisted'[v] = persisted[v] /\ InFlight(v)' = InFlight(v) /\ (Live(v)' <=> Live(v))
            BY <2>1, <2>2, <2>3, <1>t DEF InFlight, Live, InstTypes
        <3> QED
            BY <3>1, <2>2, <1>p
    <2>4. CASE v = w
        <3>1. /\ persisted'[v] = persisted[v] + cBatch[v]
              /\ InFlight(v)' = cBatch[v] /\ InFlight(v) = 0
            BY <2>1, <2>2, <2>4, <1>t DEF InFlight, InstTypes
        <3>2. Live(v) /\ Live(v)'
            BY <2>1, <2>2, <2>4, <1>n DEF BatchInv, Live
        <3> QED
            BY <3>1, <3>2, <2>2, <1>p, <1>u
    <2> QED
        BY <2>3, <2>4
<1>12. CASE CommitApply
    <2> SUFFICES ASSUME NEW v \in Instances PROVE Kept(v)
        OBVIOUS
    <2>1. PICK w \in Instances :
              /\ cpc = "apply" /\ cBatch[w] # 0 /\ Fold(w, cBatch[w])
              /\ cBatch' = [cBatch EXCEPT ![w] = 0]
              /\ cSent' = cSent \ {w} \/ (cSent' = {} /\ cBatch' = NoBatch)
              /\ UNCHANGED <<used, persisted, stray, counters, failures>>
        BY <1>12, ApplyRound
    <2>2. (Live(v)' <=> Live(v)) /\ cBatch'[v] = IF v = w THEN 0 ELSE cBatch[v]
        BY <2>1, <1>t DEF Live, CommitTypes
    <2>3. CASE v # w
        <3>1. committed'[v] = committed[v]
            BY <2>1, <2>3, <1>t DEF Fold, InstTypes
        <3>2. InFlight(v)' = InFlight(v)
            BY <2>1, <2>2, <2>3 DEF InFlight, NoBatch
        <3> QED
            BY <3>1, <3>2, <2>1, <2>2, <2>3, <1>p
    <2>4. CASE v = w
        <3>1. committed[v] + cBatch[v] <= used[v] /\ cBatch[v] >= 0
            BY <1>p, <1>n DEF BatchInv
        <3>5. cBatch[v] \in Int /\ committed[v] \in Int /\ used[v] \in Nat
            BY <1>u
        <3>2. MinOf(Abs(cBatch[v]), Vector(v)) = cBatch[v]
            BY <3>1, <3>5 DEF MinOf, Abs, Vector
        <3>3. committed'[v] = committed[v] + cBatch[v]
            BY <2>1, <2>4, <3>2, <1>t DEF Fold, InstTypes
        <3>4. InFlight(v) = cBatch[v] /\ InFlight(v)' = 0
            BY <2>1, <2>2, <2>4, <1>n DEF BatchInv, InFlight
        <3> QED
            BY <3>3, <3>4, <2>1, <2>2, <2>4, <1>p, <1>u
    <2> QED
        BY <2>3, <2>4
<1>13. CASE EvictStop \/ Stop \/ Shutdown \/ Exit \/ UNCHANGED vars
    BY <1>13, <1>2 DEF EvictStop, Stop, Shutdown, Exit
<1>14. ASSUME NEW v \in Instances, Age(v) PROVE \A w \in Instances : Kept(w)
    BY <1>14, <1>2 DEF Age
<1> QED
    BY <1>f, <1>3, <1>4, <1>5, <1>6, <1>7, <1>8, <1>9, <1>10, <1>11, <1>12, <1>13, <1>14,
       NothingToEvict
    DEF EvictionFree, HandlerStep, CommitStep

-----------------------------------------------------------------------------
(* The final flush.                                                        *)

LoopEnd ==
    /\ cFinal => cpc # "idle" /\ mpc # "serving"
    /\ cpc = "done" => cFinal
    /\ cpc \in {"apply", "done"} => cTodo = {}
    /\ mpc \in {"shutdown", "exited"} => cpc = "done"
    /\ drained => \A h \in Handlers : hpc[h] = "idle"
\* The keys that the pass has been to.
Visited == {k \in Keys \ cTodo : counters[k] # 0 /\ (cpc = "visit" => counters[k] # cInst)}
Swept == Drained /\ cFinal =>
    /\ cpc = "visit" => cSum = used[cInst]
    /\ \A k \in Visited : committed[counters[k]] + cBatch[counters[k]] = used[counters[k]]

\* The parts of the invariant about the final flush.
LEMMA FlushParts == FlushInv <=> LoopEnd /\ Swept
BY DEF FlushInv, LoopEnd, Swept, Visited

\* Control of the shutdown: main waits for the loop, the loop for its final pass.
LEMMA StepLoopEnd == TypeInv /\ LoopEnd /\ [Next]_vars => LoopEnd'
<1> SUFFICES ASSUME TypeInv, LoopEnd, [Next]_vars PROVE LoopEnd'
    OBVIOUS
<1> USE DEF vars, instVars, storeVars, handlerVars, commitVars, evictVars, envVars, LoopEnd
<1>t. HandlerTypes /\ CommitTypes /\ MainTypes
    BY TypeParts DEF TypeInv
<1>1. ASSUME NEW h \in Handlers, Request(h) \/ HandlerStep(h) PROVE LoopEnd'
    <2>1. hpc[h] # "idle" \/ ~drained
        BY <1>1 DEF Request, HandlerStep, Create, Touch, Check, Release
    <2> QED
        BY <1>1, <2>1 DEF Request, HandlerStep, Create, Touch, Check, Release
<1>2. CASE CommitTick
    BY <1>2, <1>t DEF CommitTick, MainTypes, CommitTypes
<1>3. ASSUME NEW k \in Keys, CommitLoad(k) PROVE LoopEnd'
    BY <1>3 DEF CommitLoad
<1>4. CASE CommitVisit \/ CommitSend \/ CommitPersist
    BY <1>4 DEF CommitVisit, CommitSend, CommitPersist, Sending
<1>5. CASE CommitNothing \/ CommitFail
    BY <1>5, <1>t DEF CommitNothing, CommitFail, CommitLoopEnd, CommitTypes, Sending
<1>6. CASE CommitApply
    <2>1. /\ cpc = "apply" /\ UNCHANGED <<cTodo, cFinal, mpc, drained, hpc>>
          /\ cpc' = "apply" \/ cpc' = (IF cFinal THEN "done" ELSE "idle")
        BY <1>6 DEF CommitApply, CommitLoopEnd
    <2> QED
        BY <2>1, <1>t DEF CommitTypes
<1>7. ASSUME NEW v \in Instances, Age(v) PROVE LoopEnd'
    BY <1>7 DEF Age
<1>8. CASE EvictStep \/ UNCHANGED vars
    BY <1>8 DEF EvictStep, EvictTick, EvictCheck, EvictSum, EvictOffset, EvictPersist,
       EvictFail, EvictApply, EvictDelete, EvictEnd, EvictStop
<1>9. CASE Stop
    <2>1. drained' => \A h \in Handlers : hpc[h] = "idle"
        BY <1>9 DEF Stop
    <2> QED
        BY <1>9, <2>1 DEF Stop
<1>10. CASE Shutdown
    BY <1>10 DEF Shutdown
<1>11. CASE Exit
    BY <1>11 DEF Exit, HandlersGone
<1>12. CASE Crash
    BY <1>12 DEF Crash, HandlersGone
<1> QED
    BY <1>1, <1>2, <1>3, <1>4, <1>5, <1>6, <1>7, <1>8, <1>9, <1>10, <1>11, <1>12
    DEF Next, CommitStep, Terminated

\* The final pass of a drained service leaves nothing behind it.
LEMMA StepSwept ==
    /\ TypeInv /\ NoEviction /\ CommitInv /\ WriteInv /\ LoopEnd /\ Swept /\ [Next]_vars
    => Swept'
<1> SUFFICES ASSUME TypeInv, NoEviction, CommitInv, WriteInv, LoopEnd, Swept, [Next]_vars,
                    Drained', cFinal'
             PROVE  /\ cpc' = "visit" => cSum' = used'[cInst']
                    /\ \A k \in Visited' :
                          committed'[counters'[k]] + cBatch'[counters'[k]] = used'[counters'[k]]
    BY DEF Swept
<1> DEFINE Kept == /\ cpc' = "visit" => cSum' = used'[cInst']
                   /\ \A k \in Visited' :
                         committed'[counters'[k]] + cBatch'[counters'[k]] = used'[counters'[k]]
<1> USE DEF vars, instVars, storeVars, handlerVars, commitVars, evictVars, envVars
<1>f. ~conf.evict /\ ~conf.release /\ drained' /\ failures' = 0
    BY ConfKept DEF Drained, Steady
<1>n. WriteParts /\ BatchInv /\ VisitInv
    BY <1>f DEF WriteInv, CommitInv, Steady
<1>t. /\ InstTypes /\ StoreTypes /\ HandlerTypes /\ CommitTypes /\ MainTypes /\ PointersInv /\ FoldInv
      /\ MaxInstances \in Nat /\ Instances = 1..MaxInstances
    BY TypeParts, ConfigAssumption DEF TypeInv, Instances
<1>u. \A v \in Instances : /\ used[v] \in Nat /\ committed[v] \in Int /\ cBatch[v] \in Int
    BY <1>t, ConfigType DEF TypeInv, TypeOK, InstTypes, CommitTypes
<1>i. \A k \in Keys : counters[k] # 0 => counters[k] \in Instances /\ owner[counters[k]] = k
    BY <1>t DEF StoreTypes, PointersInv
<1>s. Drained /\ cFinal =>
         /\ cpc = "visit" => cSum = used[cInst]
         /\ \A k \in Visited : committed[counters[k]] + cBatch[counters[k]] = used[counters[k]]
    BY DEF Swept
<1>1. CASE UNCHANGED <<used, counters, committed, commitVars, drained, failures, conf>>
    <2>1. Drained /\ cFinal
        BY <1>1 DEF Drained, Steady
    <2>2. Visited' = Visited
        BY <1>1 DEF Visited
    <2> QED
        BY <1>1, <1>s, <2>1, <2>2
<1>2. ASSUME NEW h \in Handlers, Request(h) \/ HandlerStep(h) PROVE Kept
    <2>1. drained /\ hpc[h] = "idle"
        BY <1>2, <1>f DEF Request, HandlerStep, Create, Touch, Check, Release, LoopEnd
    <2> QED
        BY <1>2, <2>1 DEF Request, HandlerStep, Create, Touch, Check, Release
<1>3. ASSUME NEW v \in Instances, Age(v) PROVE Kept
    BY <1>3, <1>1 DEF Age
<1>4. CASE CommitTick
    <2>1. cTodo' = Keys /\ cpc' = "scan"
        BY <1>4 DEF CommitTick
    <2> QED
        BY <2>1 DEF Visited
<1>5. ASSUME NEW k \in Keys, CommitLoad(k) PROVE Kept
    <2>1. /\ cpc = "scan" /\ cTodo' = cTodo \ {k} /\ Drained /\ cFinal
          /\ UNCHANGED <<cBatch, counters, used, committed>>
        BY <1>5, <1>f DEF CommitLoad, Drained, Steady
    <2>2. cpc' = "visit" => cSum' = used[cInst'] /\ cInst' = counters[k]
        BY <1>5, <2>1 DEF CommitLoad
    <2>3. cpc' # "visit" => counters[k] = 0
        BY <1>5 DEF CommitLoad
    <2>4. Visited' \subseteq Visited
        <3> SUFFICES ASSUME NEW j \in Visited' PROVE j \in Visited
            OBVIOUS
        <3>1. j \in Keys \ cTodo' /\ counters[j] # 0 /\ (cpc' = "visit" => counters[j] # cInst')
            BY <2>1 DEF Visited
        <3>2. j # k
            BY <3>1, <2>2, <2>3
        <3> QED
            BY <3>1, <3>2, <2>1 DEF Visited
    <2> QED
        BY <2>1, <2>2, <2>4, <1>s
<1>6. CASE CommitVisit
    <2>1. /\ cpc = "visit" /\ cpc' = "scan" /\ cInst \in Instances /\ Drained /\ cFinal
          /\ UNCHANGED <<cTodo, counters, used, committed>>
          /\ cBatch' = IF cSum - committed[cInst] # 0
                       THEN [cBatch EXCEPT ![cInst] = cSum - committed[cInst]] ELSE cBatch
        BY <1>6, <1>f, <1>t
        DEF CommitVisit, cVec, ShouldCommit, HasRemainder, Drained, Steady, PointersInv, StoreTypes
    <2>2. cSum = used[cInst] /\ cBatch[cInst] = 0
        BY <2>1, <1>s, <1>n DEF VisitInv
    <2>3. committed[cInst] + cBatch'[cInst] = used[cInst]
        BY <2>1, <2>2, <1>u, <1>t DEF CommitTypes
    <2>4. \A w \in Instances : w # cInst => cBatch'[w] = cBatch[w]
        BY <2>1, <1>t DEF CommitTypes
    <2>5. ASSUME NEW j \in Visited'
          PROVE  committed[counters[j]] + cBatch'[counters[j]] = used[counters[j]]
        <3>1. j \in Keys \ cTodo /\ counters[j] # 0 /\ counters[j] \in Instances
            BY <2>1, <1>i DEF Visited
        <3>2. CASE counters[j] = cInst
            BY <3>2, <2>3
        <3>3. CASE counters[j] # cInst
            BY <3>3, <3>1, <2>1, <2>4, <1>s DEF Visited
        <3> QED
            BY <3>2, <3>3
    <2> QED
        BY <2>1, <2>5
<1>7. CASE CommitNothing
    <2>1. /\ cpc = "scan" /\ Drained /\ cFinal /\ cBatch' = cBatch /\ cpc' = "done"
          /\ UNCHANGED <<cTodo, counters, used, committed>>
        BY <1>7, <1>f DEF CommitNothing, CommitLoopEnd, Drained, Steady
    <2>2. Visited' = Visited
        BY <2>1 DEF Visited
    <2> QED
        BY <2>1, <2>2, <1>s
<1>8. CASE CommitFail
    <2>1. failures' # 0
        BY <1>8, <1>t DEF CommitFail, MainTypes
    <2> QED
        BY <2>1, <1>f
<1>9. CASE CommitSend \/ CommitPersist
    <2>1. /\ cpc = "scan" /\ Drained /\ cFinal /\ cpc' \in {"scan", "apply"}
          /\ UNCHANGED <<cTodo, counters, used, committed, cBatch>>
        BY <1>9, <1>f DEF CommitSend, CommitPersist, Sending, Drained, Steady
    <2>2. Visited' = Visited
        BY <2>1 DEF Visited
    <2> QED
        BY <2>1, <2>2, <1>s
<1>10. CASE CommitApply
    <2>1. PICK v \in Instances :
             /\ cpc = "apply" /\ Fold(v, cBatch[v])
             /\ cBatch' = [cBatch EXCEPT ![v] = 0] /\ cTodo' = cTodo
             /\ cpc' \in {"apply", "idle", "done"}
             /\ UNCHANGED <<cFinal, used, counters, drained, failures, conf>>
        BY <1>10, ApplyRound
    <2>2. /\ Drained /\ cFinal
          /\ \A w \in Instances : cBatch'[w] = IF w = v THEN 0 ELSE cBatch[w]
        BY <2>1, <1>f, <1>t DEF CommitTypes, Drained, Steady
    <2>3. \A w \in Instances : committed'[w] = IF w = v THEN committed[v] + cBatch[v] ELSE committed[w]
        <3>1. committed[v] + cBatch[v] <= used[v] /\ cBatch[v] >= 0
            BY <1>n DEF WriteParts, BatchInv
        <3>2. MinOf(Abs(cBatch[v]), Vector(v)) = cBatch[v]
            BY <3>1, <1>u DEF MinOf, Abs, Vector
        <3> QED
            BY <2>1, <3>2, <1>t DEF Fold, InstTypes
    <2>4. \A w \in Instances : committed'[w] + cBatch'[w] = committed[w] + cBatch[w]
        BY <2>2, <2>3, <1>u
    <2>5. Visited' = Visited
        BY <2>1, <2>2 DEF Visited
    <2>6. \A k \in Visited : counters[k] \in Instances
        BY <1>i DEF Visited
    <2> QED
        BY <2>1, <2>2, <2>4, <2>5, <2>6, <1>s
<1>11. CASE EvictStop \/ Shutdown \/ Exit \/ UNCHANGED vars
    BY <1>11, <1>1 DEF EvictStop, Shutdown, Exit
<1>12. CASE Stop
    <2>1. mpc = "serving" /\ cFinal
        BY <1>12 DEF Stop
    <2> QED
        BY <2>1 DEF LoopEnd
<1>13. CASE Crash
    BY <1>13 DEF Crash
<1> QED
    BY <1>2, <1>3, <1>4, <1>5, <1>6, <1>7, <1>8, <1>9, <1>10, <1>11, <1>12, <1>13, <1>f, NothingToEvict
    DEF EvictionFree, HandlerStep, CommitStep

-----------------------------------------------------------------------------
(* The theorems.                                                           *)

\* The invariant holds in every reachable state.
LEMMA Inductive == Spec => []Inv
<1>1. Init => Inv
    <2> SUFFICES ASSUME Init PROVE Inv
        OBVIOUS
    <2>1. TypeInv
        BY InitTyped
    <2>2. \A v \in Instances : age[v] = 0 /\ cBatch[v] = 0 /\ committed[v] = 0
                              /\ persisted[v] = 0 /\ used[v] = 0 /\ stray[v] = 0
        BY DEF Init, NoBatch
    <2>3. NoEviction
        BY <2>2 DEF Init, NoEviction
    <2>4. CommitInv
        BY <2>2 DEF Init, CommitInv, BatchInv, VisitInv, NoRefunds
    <2>5. WriteInv
        BY <2>2 DEF Init, WriteInv, WriteParts, InFlight, Acknowledged
    <2>6. FlushInv
        BY DEF Init, FlushInv
    <2> QED
        BY <2>1, <2>3, <2>4, <2>5, <2>6 DEF Inv
<1>2. Inv /\ [Next]_vars => Inv'
    <2> SUFFICES ASSUME Inv, [Next]_vars PROVE Inv'
        OBVIOUS
    <2>1. TypeInv' /\ NoEviction' /\ CommitInv' /\ WriteInv'
        BY StepTyped, StepNoEviction, StepCommit, StepWrite DEF Inv
    <2>2. LoopEnd' /\ Swept'
        BY StepLoopEnd, StepSwept, FlushParts DEF Inv
    <2>3. FlushInv'
        BY <2>2 DEF FlushInv, LoopEnd, Swept, Visited
    <2> QED
        BY <2>1, <2>3 DEF Inv
<1> QED
    BY <1>1, <1>2, PTL DEF Spec

\* Every variable of the handlers, the store, the two loops and main keeps its type.
THEOREM ServiceTypeCorrect == Spec => []TypeOK
<1>1. Inv => TypeOK
    BY DEF Inv, TypeInv
<1> QED
    BY <1>1, Inductive, PTL

\* Store.GetOrCreate: handlers that race for the first request of a key share one VSA,
\* so that a key never has more than one budget while it is neither evicted nor lost.
THEOREM OneBudgetPerKey == Spec => []KeyWithinLimit
<1>1. Inv => KeyWithinLimit
    BY DEF Inv, NoEviction, KeyWithinLimit
<1> QED
    BY <1>1, Inductive, PTL

\* runCommitCycle folds a vector into the scalar after the persister has acknowledged
\* it, for any number of keys and instances, torn sums of the stripes, batches that fail
\* half-way and crashes, as long as nothing is refunded or evicted.
THEOREM FoldsFollowWrites == Spec => []CommittedIsDurable
<1>1. Inv => CommittedIsDurable
    <2> SUFFICES ASSUME Inv, Steady, NEW v \in Instances
                 PROVE  committed[v] <= Acknowledged(v)
        BY DEF CommittedIsDurable, Steady
    <2>1. committed[v] + InFlight(v) <= Acknowledged(v) /\ cBatch[v] >= 0
        BY DEF Inv, WriteInv, WriteParts, CommitInv, BatchInv
    <2>2. /\ committed[v] \in Int /\ persisted[v] \in Int /\ stray[v] \in Int
          /\ cBatch[v] \in Int
        BY DEF Inv, TypeInv, TypeOK
    <2> QED
        BY <2>1, <2>2 DEF InFlight, Acknowledged
<1> QED
    BY <1>1, Inductive, PTL

\* Units are written more than once only through calls that returned an error, at most
\* once for each of them: the calls that succeeded, however torn the sums they were
\* given, wrote no more than was taken.
THEOREM WritesWereTaken == Spec => []NoPhantomWrites
<1>1. Inv => NoPhantomWrites
    BY DEF Inv, WriteInv, WriteParts, Steady, NoPhantomWrites
<1> QED
    BY <1>1, Inductive, PTL

\* runFinalFlush: a drained service whose batches succeed has written everything when
\* main returns.
THEOREM FlushIsComplete == Spec => []FlushLosesNothing
<1>1. Inv => FlushLosesNothing
    <2> SUFFICES ASSUME Inv, mpc = "exited", drained, failures = 0, ~conf.evict, ~conf.release,
                        NEW k \in Keys, counters[k] # 0
                 PROVE  persisted[counters[k]] = used[counters[k]]
        BY DEF FlushLosesNothing, Flushed
    <2>1. cpc = "done" /\ cFinal /\ cTodo = {} /\ Drained
        BY DEF Inv, FlushInv, Drained, Steady
    <2>2. committed[counters[k]] + cBatch[counters[k]] = used[counters[k]]
        BY <2>1 DEF Inv, FlushInv
    <2>3. counters[k] \in Instances
        BY ConfigAssumption DEF Inv, TypeInv, TypeOK, Instances
    <2>4. cBatch[counters[k]] = 0
        BY <2>1, <2>3 DEF Inv, CommitInv, BatchInv, Drained, NoBatch
    <2>5. /\ Acknowledged(counters[k]) = committed[counters[k]] + InFlight(counters[k])
          /\ 0 <= stray[counters[k]] /\ stray[counters[k]] <= failures * used[counters[k]]
        BY <2>1, <2>3 DEF Inv, WriteInv, WriteParts, Drained, Live
    <2>6. InFlight(counters[k]) = 0
        BY <2>4 DEF InFlight
    <2>7. /\ committed[counters[k]] \in Int /\ persisted[counters[k]] \in Int
          /\ stray[counters[k]] \in Int /\ used[counters[k]] \in Nat
        BY <2>3, ConfigType DEF Inv, TypeInv, TypeOK
    <2>8. stray[counters[k]] = 0
        BY <2>5, <2>7, Copies
    <2> QED
        BY <2>2, <2>4, <2>5, <2>6, <2>7, <2>8 DEF Acknowledged
<1> QED
    BY <1>1, Inductive, PTL
=============================================================================
