---------------------------- MODULE RateLimiter ----------------------------
(***************************************************************************)
(* The rate limiter service: the HTTP handlers of api/server.go, the Store *)
(* of core/store.go, the two background loops of core/worker.go and the    *)
(* shutdown sequence of cmd/ratelimiter-api/main.go.                       *)
(*                                                                         *)
(* The VSA instances are numbered in the order they are published in the   *)
(* store.  TryConsume, TryRefund and Commit hold the mutex of the instance *)
(* and are one step each: VSAProofs shows that with the exact gate they    *)
(* act like the operations of Quota.  State holds nothing: it loads one    *)
(* stripe after the other while requests go on, then the offset.  The      *)
(* persister stores vectors by key; `persisted` keeps them apart by the    *)
(* instance that produced them, so that the key's durable total is the sum *)
(* over its instances.  It applies the entries of a batch one by one and   *)
(* may fail at any of them, as the Redis adapter behind the IdemShim does. *)
(***************************************************************************)
EXTENDS Integers, FiniteSets

CONSTANTS
    Keys, Handlers,
    CommitThreshold,      \* high watermark
    Configs,              \* the flags and uses of the service that a run considers
    MaxInstances,         \* bound: VSA instances ever created
    MaxTear,              \* bound: updates of either sign that a sum of the stripes misses
    MaxWritten,           \* bound: no request comes for a key with more units written, up or down
    MaxFailures,          \* bound: failing calls of CommitBatch
    MaxCrashes            \* bound: crashes of the process

ASSUME ConfigAssumption ==
    /\ CommitThreshold \in Nat \ {0}
    /\ Configs \subseteq
         [limit : Nat,          \* rate_limit, the initial scalar of every VSA
          low : Nat,            \* commit_low_watermark, 0 disables hysteresis
          maxAge : BOOLEAN,     \* commit_max_age > 0
          evict : BOOLEAN,      \* an idle key reaches eviction_age
          release : BOOLEAN]    \* clients call /release
    /\ MaxInstances \in Nat /\ MaxTear \in Nat /\ MaxWritten \in Nat
    /\ MaxFailures \in Nat /\ MaxCrashes \in Nat

VARIABLES
    counters,     \* the sync.Map: key -> instance, 0 if absent
    made, owner,  \* instances published so far, and the key of each
    used, committed, persisted, \* per instance: taken, folded, written
    stray,        \* history: the part of persisted that calls left behind which returned an error
    age,          \* since lastAccessed: 0 recent, 1 past commitMaxAge, 2 past evictionAge
    armed,        \* hysteresis flag
    hpc, hop, hkey, hinst,      \* handlers: control, endpoint, key, VSA pointer
    cpc, cTodo, cInst, cSum, cBatch, cSent, cFinal, \* commit loop; cSent: entries applied so far
    epc, eTodo, eKey, eVec,     \* eviction loop
    mpc,          \* main: serving, stopping, shutdown, exited
    drained,      \* no request comes after the signal
    conf,         \* one of Configs, fixed when the process starts
    failures, crashes

instVars    == <<used, committed, persisted, stray, age, armed>>
storeVars   == <<counters, made, owner>>
handlerVars == <<hpc, hop, hkey, hinst>>
commitVars  == <<cpc, cTodo, cInst, cSum, cBatch, cSent, cFinal>>
evictVars   == <<epc, eTodo, eKey, eVec>>
envVars   == <<failures, crashes, drained, conf>>
vars == <<instVars, storeVars, handlerVars, commitVars, evictVars, mpc, envVars>>

Instances == 1..MaxInstances
NoKey == "none"
Vector(v) == used[v] - committed[v]
Abs(x) == IF x < 0 THEN -x ELSE x
MinOf(a, b) == IF a < b THEN a ELSE b
NoBatch == [v \in Instances |-> 0]

Init ==
    /\ counters = [k \in Keys |-> 0]
    /\ made = 0
    /\ owner = [v \in Instances |-> NoKey]
    /\ used = [v \in Instances |-> 0]
    /\ committed = [v \in Instances |-> 0]
    /\ persisted = [v \in Instances |-> 0]
    /\ stray = [v \in Instances |-> 0]
    /\ age = [v \in Instances |-> 0]
    /\ armed = [v \in Instances |-> TRUE]
    /\ hpc = [h \in Handlers |-> "idle"]
    /\ hop = [h \in Handlers |-> "check"]
    /\ hkey = [h \in Handlers |-> NoKey]
    /\ hinst = [h \in Handlers |-> 0]
    /\ cpc = "idle" /\ cTodo = {} /\ cInst = 0 /\ cSum = 0
    /\ cBatch = NoBatch /\ cSent = {} /\ cFinal = FALSE
    /\ epc = "idle" /\ eTodo = {} /\ eKey = NoKey /\ eVec = 0
    /\ mpc = "serving"
    /\ failures = 0 /\ crashes = 0
    /\ drained = FALSE /\ conf \in Configs

-----------------------------------------------------------------------------
(* The handlers of /check and /release.                                    *)

\* GetOrCreate's Load: a hit returns the instance, a miss goes on to create one.
Request(h) == \E k \in Keys, o \in {"check"} \cup (IF conf.release THEN {"release"} ELSE {}) :
    /\ hpc[h] = "idle"
    /\ mpc \in {"serving", "stopping"} /\ ~drained
    /\ counters[k] # 0 => Abs(persisted[counters[k]]) < MaxWritten
    /\ hop' = [hop EXCEPT ![h] = o]
    /\ hkey' = [hkey EXCEPT ![h] = k]
    /\ hinst' = [hinst EXCEPT ![h] = counters[k]]
    /\ hpc' = [hpc EXCEPT ![h] = IF counters[k] = 0 THEN "create" ELSE "touch"]
    /\ UNCHANGED <<instVars, storeVars, commitVars, evictVars, mpc, envVars>>

\* Faulty variant: Store instead of LoadOrStore.
Create_Overwrites(h) ==
    /\ hpc[h] = "create"
    /\ made < MaxInstances
    /\ made' = made + 1
    /\ counters' = [counters EXCEPT ![hkey[h]] = made']
    /\ owner' = [owner EXCEPT ![made'] = hkey[h]]
    /\ hinst' = [hinst EXCEPT ![h] = made']
    /\ hpc' = [hpc EXCEPT ![h] = "op"]
    /\ UNCHANGED <<instVars, hop, hkey, commitVars, evictVars, mpc, envVars>>

\* LoadOrStore: publishes a new VSA, unless another handler was faster.
Create(h) ==
    /\ hpc[h] = "create"
    /\ IF counters[hkey[h]] = 0
       THEN /\ made < MaxInstances
            /\ made' = made + 1
            /\ counters' = [counters EXCEPT ![hkey[h]] = made']
            /\ owner' = [owner EXCEPT ![made'] = hkey[h]]
            /\ hinst' = [hinst EXCEPT ![h] = made']
            /\ hpc' = [hpc EXCEPT ![h] = "op"]
       ELSE /\ hinst' = [hinst EXCEPT ![h] = counters[hkey[h]]]
            /\ hpc' = [hpc EXCEPT ![h] = "touch"]
            /\ UNCHANGED storeVars
    /\ UNCHANGED <<instVars, hop, hkey, commitVars, evictVars, mpc, envVars>>

\* The store of lastAccessed, through the pointer obtained before.
Touch(h) ==
    /\ hpc[h] = "touch"
    /\ age' = [age EXCEPT ![hinst[h]] = 0]
    /\ hpc' = [hpc EXCEPT ![h] = "op"]
    /\ UNCHANGED <<used, committed, persisted, stray, armed, storeVars, hop, hkey, hinst,
                   commitVars, evictVars, mpc, envVars>>

Done(h) ==
    /\ hpc' = [hpc EXCEPT ![h] = "idle"]
    /\ hop' = [hop EXCEPT ![h] = "check"]
    /\ hkey' = [hkey EXCEPT ![h] = NoKey]
    /\ hinst' = [hinst EXCEPT ![h] = 0]

\* A State that is summing the stripes of v when d is added to one of them sees it, or
\* has passed that stripe.
Seen(sum, v, d) ==
    {sum + d} \cup (IF Abs(used[v] + d - sum) <= MaxTear THEN {sum} ELSE {})

AddToStripe(v, d) ==
    /\ used' = [used EXCEPT ![v] = @ + d]
    /\ cSum' \in IF cpc = "visit" /\ cInst = v THEN Seen(cSum, v, d) ELSE {cSum}
    /\ eVec' \in IF epc = "offset" /\ counters[eKey] = v THEN Seen(eVec, v, d) ELSE {eVec}

\* Faulty variant: the result of TryConsume is ignored.
Check_NoGate(h) ==
    /\ hpc[h] = "op" /\ hop[h] = "check"
    /\ AddToStripe(hinst[h], 1)
    /\ Done(h)
    /\ UNCHANGED <<committed, persisted, stray, age, armed, storeVars, cpc, cTodo, cInst, cBatch,
                   cSent, cFinal, epc, eTodo, eKey, mpc, envVars>>

\* TryConsume(1): an admission or a 429.
Check(h) ==
    /\ hpc[h] = "op" /\ hop[h] = "check"
    /\ IF used[hinst[h]] < conf.limit
       THEN AddToStripe(hinst[h], 1)
       ELSE UNCHANGED <<used, cSum, eVec>>
    /\ Done(h)
    /\ UNCHANGED <<committed, persisted, stray, age, armed, storeVars, cpc, cTodo, cInst, cBatch,
                   cSent, cFinal, epc, eTodo, eKey, mpc, envVars>>

\* TryRefund(1): gives back a unit that is not committed yet, if there is one.
Release(h) ==
    /\ hpc[h] = "op" /\ hop[h] = "release"
    /\ IF Vector(hinst[h]) > 0
       THEN AddToStripe(hinst[h], -1)
       ELSE UNCHANGED <<used, cSum, eVec>>
    /\ Done(h)
    /\ UNCHANGED <<committed, persisted, stray, age, armed, storeVars, cpc, cTodo, cInst, cBatch,
                   cSent, cFinal, epc, eTodo, eKey, mpc, envVars>>

\* Time passes for an instance nobody touches.
Age(v) ==
    /\ \E k \in Keys : counters[k] = v
    /\ age[v] < (IF conf.evict THEN 2 ELSE IF conf.maxAge THEN 1 ELSE 0)
    /\ age' = [age EXCEPT ![v] = @ + 1]
    /\ UNCHANGED <<used, committed, persisted, stray, armed, storeVars, handlerVars,
                   commitVars, evictVars, mpc, envVars>>

-----------------------------------------------------------------------------
(* The commit loop.                                                        *)

\* The ticker, or the closed stopChan, starts a pass over the store.
CommitTick ==
    /\ cpc = "idle"
    /\ cpc' = "scan"
    /\ cTodo' = Keys
    /\ cFinal' \in {FALSE} \cup (IF mpc = "stopping" THEN {TRUE} ELSE {})
    /\ UNCHANGED <<cInst, cSum, cBatch, cSent, instVars, storeVars, handlerVars, evictVars,
                   mpc, envVars>>

\* ForEach comes to key k, if it is there, and State begins to sum its stripes.  Until
\* CommitVisit the sum is in progress: AddToStripe.
CommitLoad(k) ==
    /\ cpc = "scan"
    /\ k \in cTodo
    /\ cTodo' = cTodo \ {k}
    /\ IF counters[k] = 0
       THEN UNCHANGED <<cpc, cInst, cSum>>
       ELSE /\ cInst' = counters[k]
            /\ cSum' = used[counters[k]]
            /\ cpc' = "visit"
    /\ UNCHANGED <<cBatch, cSent, cFinal, instVars, storeVars, handlerVars, evictVars, mpc,
                   envVars>>

\* The vector that State returns: the sum less the offset, read after it.
cVec == cSum - committed[cInst]

ByThreshold == Abs(cVec) >= CommitThreshold
\* Faulty variant: a disarmed key is not flushed by age either.
ByMaxAge_IfArmed == conf.maxAge /\ cVec # 0 /\ age[cInst] >= 1 /\ armed[cInst]

ByMaxAge == conf.maxAge /\ cVec # 0 /\ age[cInst] >= 1

\* runFinalFlush writes every remainder.
HasRemainder == cVec # 0

\* Faulty variant: the final flush writes what is over the threshold only.
ShouldCommit_NoRemainder ==
    (ByThreshold /\ (conf.low <= 0 \/ armed[cInst])) \/ ByMaxAge

\* Faulty variant: armed is consulted although hysteresis is off.
ShouldCommit_AlwaysArmed ==
    IF cFinal
    THEN HasRemainder
    ELSE (ByThreshold /\ armed[cInst]) \/ ByMaxAge

ShouldCommit ==
    IF cFinal
    THEN HasRemainder
    ELSE (ByThreshold /\ (conf.low <= 0 \/ armed[cInst])) \/ ByMaxAge

\* The armed flag after the visit: disarmed by a commit, re-armed at the low
\* watermark.  The final flush leaves it alone.
ArmedAfter ==
    IF cFinal THEN armed[cInst]
    ELSE IF ShouldCommit THEN FALSE
    ELSE armed[cInst] \/ (conf.low > 0 /\ ~ByThreshold
                             /\ Abs(cVec) <= conf.low)

\* The rest of ForEach's callback.
CommitVisit ==
    /\ cpc = "visit"
    /\ armed' = [armed EXCEPT ![cInst] = ArmedAfter]
    /\ cBatch' = IF ShouldCommit THEN [cBatch EXCEPT ![cInst] = cVec] ELSE cBatch
    /\ cpc' = "scan" /\ cInst' = 0 /\ cSum' = 0
    /\ UNCHANGED <<cTodo, cSent, cFinal, used, committed, persisted, stray, age, storeVars,
                   handlerVars, evictVars, mpc, envVars>>

\* Faulty variant: the loop does not return after the final flush.
CommitLoopEnd_Loops ==
    /\ cpc' = "idle"
    /\ cBatch' = NoBatch /\ cSent' = {}
    /\ UNCHANGED <<cTodo, cInst, cSum, cFinal>>

\* The loop goes back to its select, or returns after the final flush.
CommitLoopEnd ==
    /\ cpc' = IF cFinal THEN "done" ELSE "idle"
    /\ cBatch' = NoBatch /\ cSent' = {}
    /\ UNCHANGED <<cTodo, cInst, cSum, cFinal>>

CommitNothing ==
    /\ cpc = "scan" /\ cTodo = {} /\ cBatch = NoBatch
    /\ CommitLoopEnd
    /\ UNCHANGED <<instVars, storeVars, handlerVars, evictVars, mpc, envVars>>

Sending == cpc = "scan" /\ cTodo = {} /\ cBatch # NoBatch

\* Inside CommitBatch: one more entry is applied by the data store.
CommitSend == \E v \in Instances \ cSent :
    /\ Sending
    /\ cBatch[v] # 0
    /\ persisted' = [persisted EXCEPT ![v] = @ + cBatch[v]]
    /\ cSent' = cSent \cup {v}
    /\ UNCHANGED <<cpc, cTodo, cInst, cSum, cBatch, cFinal, used, committed, stray, age, armed,
                   storeVars, handlerVars, evictVars, mpc, envVars>>

\* CommitBatch returns nil: the whole batch is durable.
CommitPersist ==
    /\ Sending
    /\ \A v \in Instances \ cSent : cBatch[v] = 0
    /\ cpc' = "apply"
    /\ UNCHANGED <<cTodo, cInst, cSum, cBatch, cSent, cFinal, instVars, storeVars,
                   handlerVars, evictVars, mpc, envVars>>

\* CommitBatch returns an error: no entry is folded, and those that were applied stay,
\* the last one too when only its answer was lost.  The next pass finds their units
\* in the vectors again and IdemShim gives them new CommitIDs.
CommitFail ==
    /\ Sending
    /\ failures < MaxFailures
    /\ failures' = failures + 1
    /\ stray' = [v \in Instances |-> stray[v] + (IF v \in cSent THEN cBatch[v] ELSE 0)]
    /\ CommitLoopEnd
    /\ UNCHANGED <<used, committed, persisted, age, armed, storeVars, handlerVars, evictVars,
                   mpc, crashes, drained, conf>>

\* Faulty variant: nothing is folded, so the next pass writes the same units.
Fold_Nothing(v, vec) == committed' = [committed EXCEPT ![v] = @ + 0 * vec]

\* Faulty variant: the vector of now is folded, not the one that was written.
Fold_All(v, vec) == committed' = [committed EXCEPT ![v] = @ + Vector(v) + 0 * vec]

\* VSA.Commit(vec): folds at most the vector that is there by now, whose sign is
\* never negative with the exact gate.
Fold(v, vec) ==
    committed' = [committed EXCEPT ![v] = @ + MinOf(Abs(vec), Vector(v))]

\* One round of the loop over vsaToCommit.
CommitApply == \E v \in Instances :
    /\ cpc = "apply"
    /\ cBatch[v] # 0
    /\ Fold(v, cBatch[v])
    /\ IF \A w \in Instances \ {v} : cBatch[w] = 0
       THEN CommitLoopEnd
       ELSE /\ cBatch' = [cBatch EXCEPT ![v] = 0] /\ cSent' = cSent \ {v}
            /\ UNCHANGED <<cpc, cTodo, cInst, cSum, cFinal>>
    /\ UNCHANGED <<used, persisted, stray, age, armed, storeVars, handlerVars, evictVars,
                   mpc, envVars>>

-----------------------------------------------------------------------------
(* The eviction loop.                                                      *)

\* The ticker: collects the keys that look stale.
EvictTick ==
    /\ epc = "idle"
    /\ eTodo' = {k \in Keys : counters[k] # 0 /\ age[counters[k]] = 2}
    /\ eTodo' # {}
    /\ epc' = "next"
    /\ UNCHANGED <<eKey, eVec, instVars, storeVars, handlerVars, commitVars, mpc, envVars>>

\* Re-checks that the key is still there and stale.
EvictCheck(k) ==
    /\ epc = "next"
    /\ k \in eTodo
    /\ eTodo' = eTodo \ {k}
    /\ IF counters[k] # 0 /\ age[counters[k]] = 2
       THEN eKey' = k /\ epc' = "sum"
       ELSE UNCHANGED <<eKey, epc>>
    /\ UNCHANGED <<eVec, instVars, storeVars, handlerVars, commitVars, mpc, envVars>>

\* State again: the sum of the stripes is in progress until the offset is subtracted.
EvictSum ==
    /\ epc = "sum"
    /\ eVec' = used[counters[eKey]]
    /\ epc' = "offset"
    /\ UNCHANGED <<eTodo, eKey, instVars, storeVars, handlerVars, commitVars, mpc, envVars>>

EvictOffset ==
    /\ epc = "offset"
    /\ eVec' = eVec - committed[counters[eKey]]
    /\ epc' = IF eVec' = 0 THEN "delete" ELSE "persist"
    /\ UNCHANGED <<eTodo, eKey, instVars, storeVars, handlerVars, commitVars, mpc, envVars>>

EvictPersist ==
    /\ epc = "persist"
    /\ persisted' = [persisted EXCEPT ![counters[eKey]] = @ + eVec]
    /\ epc' = "apply"
    /\ UNCHANGED <<eTodo, eKey, eVec, used, committed, stray, age, armed, storeVars,
                   handlerVars, commitVars, mpc, envVars>>

\* CommitBatch returns an error, having applied the entry or not: this key stays.
EvictFail == \E applied \in {0, eVec} :
    /\ epc = "persist"
    /\ failures < MaxFailures
    /\ failures' = failures + 1
    /\ persisted' = [persisted EXCEPT ![counters[eKey]] = @ + applied]
    /\ stray' = [stray EXCEPT ![counters[eKey]] = @ + applied]
    /\ epc' = "next" /\ eKey' = NoKey /\ eVec' = 0
    /\ UNCHANGED <<eTodo, used, committed, age, armed, storeVars, handlerVars, commitVars, mpc,
                   crashes, drained, conf>>

EvictApply ==
    /\ epc = "apply"
    /\ Fold(counters[eKey], eVec)
    /\ epc' = "delete"
    /\ UNCHANGED <<eTodo, eKey, eVec, used, persisted, stray, age, armed, storeVars,
                   handlerVars, commitVars, mpc, envVars>>

\* LoadAndDelete: whoever holds a pointer to the instance keeps it.
EvictDelete ==
    /\ epc = "delete"
    /\ counters' = [counters EXCEPT ![eKey] = 0]
    /\ epc' = "next" /\ eKey' = NoKey /\ eVec' = 0
    /\ UNCHANGED <<eTodo, made, owner, instVars, handlerVars, commitVars, mpc, envVars>>

\* All candidates are done: back to the select.
EvictEnd ==
    /\ epc = "next" /\ eTodo = {}
    /\ epc' = "idle"
    /\ UNCHANGED <<eTodo, eKey, eVec, instVars, storeVars, handlerVars, commitVars, mpc, envVars>>

\* The closed stopChan ends the loop.
EvictStop ==
    /\ epc = "idle"
    /\ mpc = "stopping"
    /\ epc' = "done"
    /\ UNCHANGED <<eTodo, eKey, eVec, instVars, storeVars, handlerVars, commitVars, mpc, envVars>>

-----------------------------------------------------------------------------
(* main.                                                                   *)

\* A signal arrives: Worker.Stop closes stopChan.  Whoever sends the signal may have
\* waited for the clients to go away; nothing in main makes them.
Stop ==
    /\ mpc = "serving"
    /\ mpc' = "stopping"
    /\ drained' \in {FALSE} \cup (IF \A h \in Handlers : hpc[h] = "idle" THEN {TRUE} ELSE {})
    /\ UNCHANGED <<instVars, storeVars, handlerVars, commitVars, evictVars, failures,
                   crashes, conf>>

\* wg.Wait returns; CloseAll; the HTTP server accepts no more requests.
Shutdown ==
    /\ mpc = "stopping"
    /\ cpc = "done" /\ epc = "done"
    /\ mpc' = "shutdown"
    /\ UNCHANGED <<instVars, storeVars, handlerVars, commitVars, evictVars, envVars>>

HandlersGone ==
    /\ hpc' = [h \in Handlers |-> "idle"]
    /\ hop' = [h \in Handlers |-> "check"]
    /\ hkey' = [h \in Handlers |-> NoKey]
    /\ hinst' = [h \in Handlers |-> 0]

\* httpServer.Shutdown waits for the requests in flight, but for 5 seconds at most.
Exit ==
    /\ mpc = "shutdown"
    /\ mpc' = "exited"
    /\ HandlersGone
    /\ UNCHANGED <<instVars, storeVars, commitVars, evictVars, envVars>>

\* The process dies and is started again: memory is lost, what was written is not.
Crash ==
    /\ mpc # "exited"
    /\ crashes < MaxCrashes
    /\ crashes' = crashes + 1
    /\ counters' = [k \in Keys |-> 0]
    /\ HandlersGone
    /\ cpc' = "idle" /\ cTodo' = {} /\ cInst' = 0 /\ cSum' = 0
    /\ cBatch' = NoBatch /\ cSent' = {} /\ cFinal' = FALSE
    /\ epc' = "idle" /\ eTodo' = {} /\ eKey' = NoKey /\ eVec' = 0
    /\ mpc' = "serving" /\ drained' = FALSE
    /\ UNCHANGED <<instVars, made, owner, failures, conf>>

-----------------------------------------------------------------------------
HandlerStep(h) == Create(h) \/ Touch(h) \/ Check(h) \/ Release(h)
CommitStep ==
    \/ CommitTick \/ (\E k \in Keys : CommitLoad(k)) \/ CommitVisit
    \/ CommitNothing \/ CommitSend \/ CommitPersist \/ CommitFail \/ CommitApply
EvictStep ==
    \/ EvictTick \/ (\E k \in Keys : EvictCheck(k)) \/ EvictSum \/ EvictOffset
    \/ EvictPersist \/ EvictFail \/ EvictApply \/ EvictDelete \/ EvictEnd \/ EvictStop
Terminated == mpc = "exited" /\ UNCHANGED vars

Next ==
    \/ \E h \in Handlers : Request(h) \/ HandlerStep(h)
    \/ \E v \in Instances : Age(v)
    \/ CommitStep \/ EvictStep
    \/ Stop \/ Shutdown \/ Exit \/ Crash
    \/ Terminated

Spec == Init /\ [][Next]_vars

\* The tickers tick, goroutines are scheduled, time passes for an idle instance,
\* and a closed stopChan is chosen by the select sooner or later.  Clients owe
\* nobody a request, and nothing makes a signal or a crash happen.
Fairness ==
    /\ \A h \in Handlers : WF_vars(HandlerStep(h))
    /\ \A v \in Instances : WF_vars(Age(v))
    /\ WF_vars(CommitStep) /\ SF_vars(CommitTick /\ cFinal')
    /\ WF_vars(EvictStep) /\ SF_vars(EvictStop)
    /\ WF_vars(Shutdown) /\ WF_vars(Exit)

LiveSpec == Spec /\ Fairness

-----------------------------------------------------------------------------
(* Properties.                                                             *)

\* Every variable keeps its type, in particular 0 <= used <= rate_limit; sums and vectors
\* in flight may be negative, because State is not atomic.
TypeOK ==
    /\ counters \in [Keys -> 0..MaxInstances]
    /\ made \in 0..MaxInstances
    /\ owner \in [Instances -> Keys \cup {NoKey}]
    /\ used \in [Instances -> 0..conf.limit]
    /\ committed \in [Instances -> Int] /\ persisted \in [Instances -> Int]
    /\ stray \in [Instances -> Int]
    /\ age \in [Instances -> 0..2] /\ armed \in [Instances -> BOOLEAN]
    /\ hpc \in [Handlers -> {"idle", "create", "touch", "op"}]
    /\ hop \in [Handlers -> {"check", "release"}]
    /\ hkey \in [Handlers -> Keys \cup {NoKey}]
    /\ hinst \in [Handlers -> 0..MaxInstances]
    /\ cpc \in {"idle", "scan", "visit", "apply", "done"}
    /\ cTodo \in SUBSET Keys /\ cInst \in 0..MaxInstances /\ cSum \in Int
    /\ cBatch \in [Instances -> Int] /\ cSent \in SUBSET Instances /\ cFinal \in BOOLEAN
    /\ epc \in {"idle", "next", "sum", "offset", "persist", "apply", "delete", "done"}
    /\ eTodo \in SUBSET Keys /\ eKey \in Keys \cup {NoKey} /\ eVec \in Int
    /\ mpc \in {"serving", "stopping", "shutdown", "exited"}
    /\ drained \in BOOLEAN /\ conf \in Configs
    /\ failures \in Nat /\ crashes \in Nat

\* Store.GetOrCreate: two first requests for a key that race in Load and
\* LoadOrStore never give their clients two budgets; within one life of the process
\* a key admits at most rate_limit requests, as long as it is not evicted.
KeyWithinLimit == ~conf.evict /\ crashes = 0 =>
    \A v, w \in 1..made :
        v # w /\ owner[v] = owner[w] => used[v] + used[w] <= conf.limit

\* What the calls of CommitBatch that succeeded, or still run, have written.
Acknowledged(v) == persisted[v] - stray[v]

\* Commit comes after the persistent write: the memory of an instance never counts a unit
\* as folded into S that no successful call has written, although State sums the
\* stripes while requests are admitted and calls fail half-way.  (With /release it may:
\* a torn sum can be too small, is written with its sign and folded without it.  With
\* the eviction loop beside the commit loop it may too.)
CommittedIsDurable == ~conf.evict /\ ~conf.release =>
    \A v \in Instances : committed[v] <= Acknowledged(v)

\* Units are written twice only by way of a call that returned an error: what the other
\* calls wrote was taken from the instance and written once, through torn sums, late
\* folds and crashes between write and fold; and each failed call leaves at most one
\* more copy of what was taken.
NoPhantomWrites == ~conf.evict /\ ~conf.release =>
    \A v \in Instances : Acknowledged(v) <= used[v] /\ stray[v] <= failures * used[v]

Flushed == \A k \in Keys : counters[k] # 0 => persisted[counters[k]] = used[counters[k]]

\* runFinalFlush: when the clients are gone before the signal and no batch fails, every
\* unit that was taken is written once main has returned.
FlushLosesNothing ==
    mpc = "exited" /\ drained /\ failures = 0 /\ ~conf.evict /\ ~conf.release => Flushed

\* main.go's "This will trigger a final commit of any pending VSA vectors to ensure no
\* data is lost": the same without waiting for the clients.
ShutdownLosesNothing ==
    mpc = "exited" /\ failures = 0 /\ ~conf.evict /\ ~conf.release => Flushed

\* A signal leads to the end of the process: the select of each loop takes the closed
\* stopChan however often its ticker fires, and wg.Wait returns.
ShutdownCompletes == mpc = "stopping" ~> mpc = "exited"

\* Without hysteresis, a vector at or over the commit threshold is brought below it
\* again, after failed batches too and although State misses what is admitted while it
\* sums.  (With /release a torn sum can be below the threshold in every pass.)
ThresholdCommits ==
    \A v \in Instances :
        (conf.low = 0 /\ ~conf.evict /\ ~conf.release /\ Vector(v) >= CommitThreshold)
        ~> (Vector(v) < CommitThreshold \/ mpc # "serving")

\* A key that traffic has left, with commit_max_age on, is written completely in
\* the end by calls that succeed, each unit once, whatever its armed flag and
\* however many batches failed.  What failed calls left behind stays on top of it.
MaxAgeFlushes ==
    \A v \in Instances :
        <>[](mpc = "serving" /\ ~conf.evict /\ ~conf.release /\ age[v] >= 1)
        => <>[](Acknowledged(v) = used[v])
=============================================================================
