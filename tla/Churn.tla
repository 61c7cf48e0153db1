------------------------------- MODULE Churn -------------------------------
(***************************************************************************)
(* internal/ratelimiter/telemetry/churn: the hot path counts requests and  *)
(* commits, globally and per sampled key, with atomics only; a loop in the *)
(* background evicts idle keys and publishes KPIs over a window; Enable    *)
(* replaces the configuration and restarts the loop.  Time is abstracted:  *)
(* ticks, the age of keys and of window points are arbitrary.  Printing is *)
(* left out.                                                               *)
(***************************************************************************)
EXTENDS Sequences, Sums

CONSTANTS
    Keys, Vectors,   \* keys, and vectors of commits
    Configs,         \* [enabled, interval : BOOLEAN (is it > 0), sampled : SUBSET Keys]
    Observers,       \* goroutines that call Observe...
    Enablers,        \* goroutines that call Enable
    MaxCalls,        \* bound: calls of Observe... that find it enabled
    MaxEnables,      \* bound: calls of Enable
    MaxPoints        \* bound: points in the window

ASSUME ChurnAssumption ==
    /\ IsFiniteSet(Keys) /\ IsFiniteSet(Observers) /\ IsFiniteSet(Enablers)
    /\ "free" \notin Enablers
    /\ Vectors \subseteq Int \ {0}
    /\ Configs \subseteq [enabled : BOOLEAN, interval : BOOLEAN, sampled : SUBSET Keys]
    /\ MaxCalls \in Nat /\ MaxEnables \in Nat /\ MaxPoints \in Nat \ {0}

VARIABLES
    threshold, modEnabled, currCfg,    \* samplingThreshold, as the keys under it
    naiveAll, rows, sumAbs, sumNet,    \* naiveWritesAll, commitRowsInternal, ...Global
    agg,          \* per key: its aggregate, or NoAgg
    windowPoints,
    mu,           \* exporterMu: who holds it
    stop,         \* exporterStop: the loop it belongs to, 0 for nil
    opc, oarg, omine,   \* observers: where, key and amount, the aggregate they hold
    epc, ecfg,    \* callers of Enable: where, with which configuration
    lpc, closed,  \* loops: where, is their stop channel closed
    todo, pt,     \* loops: keys to visit, counters loaded
    panicked,
    observed, enables,  \* numbers of calls
    gone, raced   \* history: what evicted keys had counted; an eviction met an observer

flags == <<threshold, modEnabled, currCfg>>
counters == <<naiveAll, rows, sumAbs, sumNet>>
exporter == <<mu, stop, currCfg>>
observers == <<opc, oarg, omine, observed>>
enablers == <<epc, ecfg, enables>>
loops == <<lpc, closed, todo, pt, windowPoints>>
evictions == <<gone, raced>>
vars == <<flags, counters, agg, mu, stop, observers, enablers, loops, panicked, evictions>>

LoopIds == 1..MaxEnables
NoAgg == [id |-> 0, abs |-> 0, net |-> 0, stamped |-> FALSE]
NoPoint == [naive |-> 0, commits |-> 0, abs |-> 0, net |-> 0]
Off == [enabled |-> FALSE, interval |-> FALSE, sampled |-> {}]
NoArg == [key |-> CHOOSE k \in Keys : TRUE, n |-> 0]

Init ==
    /\ threshold = {} /\ modEnabled = FALSE /\ currCfg = Off
    /\ naiveAll = 0 /\ rows = 0 /\ sumAbs = 0 /\ sumNet = 0
    /\ agg = [k \in Keys |-> NoAgg]
    /\ windowPoints = <<>>
    /\ mu = "free" /\ stop = 0
    /\ opc = [o \in Observers |-> "idle"] /\ oarg = [o \in Observers |-> NoArg]
    /\ omine = [o \in Observers |-> 0]
    /\ epc = [e \in Enablers |-> "idle"] /\ ecfg = [e \in Enablers |-> Off]
    /\ lpc = [g \in LoopIds |-> "none"] /\ closed = [g \in LoopIds |-> FALSE]
    /\ todo = [g \in LoopIds |-> {}] /\ pt = [g \in LoopIds |-> NoPoint]
    /\ panicked = FALSE
    /\ observed = 0 /\ enables = 0
    /\ gone = [abs |-> 0, net |-> 0] /\ raced = FALSE

-----------------------------------------------------------------------------
(* The hot path.                                                           *)

Called(o) ==
    /\ opc[o] = "idle" /\ observed < MaxCalls
    /\ observed' = IF modEnabled THEN observed + 1 ELSE observed
ToAgg(o, pcWhenSampled, k, n) ==
    IF k \in threshold
    THEN opc' = [opc EXCEPT ![o] = pcWhenSampled] /\ oarg' = [oarg EXCEPT ![o] = [key |-> k, n |-> n]]
    ELSE UNCHANGED <<opc, oarg>>

\* ObserveRequest of an admitted request (a denied one leaves no trace).
ObserveRequest(o, k) ==
    /\ Called(o)
    /\ IF modEnabled
       THEN naiveAll' = naiveAll + 1 /\ ToAgg(o, "admit", k, 1)
       ELSE UNCHANGED <<naiveAll, opc, oarg>>
    /\ UNCHANGED <<flags, rows, sumAbs, sumNet, agg, mu, stop, omine, enablers, loops, panicked, evictions>>

ObserveBatch(o, n) ==
    /\ Called(o)
    /\ rows' = IF modEnabled THEN rows + n ELSE rows
    /\ UNCHANGED <<flags, naiveAll, sumAbs, sumNet, agg, mu, stop, opc, oarg, omine, enablers, loops, panicked, evictions>>

\* Faulty variant: the sign of the vector is kept.
ObserveCommit_Signed(o, k, v) ==
    /\ Called(o)
    /\ IF modEnabled THEN ToAgg(o, "commit", k, v) ELSE UNCHANGED <<opc, oarg>>
    /\ UNCHANGED <<flags, counters, agg, mu, stop, omine, enablers, loops, panicked, evictions>>

ObserveCommit(o, k, v) ==
    /\ Called(o)
    /\ IF modEnabled THEN ToAgg(o, "commit", k, IF v < 0 THEN -v ELSE v) ELSE UNCHANGED <<opc, oarg>>
    /\ UNCHANGED <<flags, counters, agg, mu, stop, omine, enablers, loops, panicked, evictions>>

Fresh == 1 + Max({0} \cup {agg[k].id : k \in Keys} \cup {omine[o] : o \in Observers})

\* getAgg: Load finds the aggregate, or not.
GetAgg(o) ==
    /\ opc[o] \in {"admit", "commit"} /\ omine[o] = 0
    /\ LET found == agg[oarg[o].key] # NoAgg
       IN /\ omine' = [omine EXCEPT ![o] = IF found THEN agg[oarg[o].key].id ELSE -1]
    /\ UNCHANGED <<flags, counters, agg, mu, stop, opc, oarg, observed, enablers, loops, panicked, evictions>>

\* Faulty variant: Store instead of LoadOrStore.
StoreAgg_Overwrites(o) ==
    /\ omine[o] = -1
    /\ agg' = [agg EXCEPT ![oarg[o].key] = [NoAgg EXCEPT !.id = Fresh]]
    /\ omine' = [omine EXCEPT ![o] = Fresh]
    /\ UNCHANGED <<flags, counters, mu, stop, opc, oarg, observed, enablers, loops, panicked, evictions>>

\* getAgg: LoadOrStore keeps the aggregate that somebody has stored meanwhile.
StoreAgg(o) ==
    /\ omine[o] = -1
    /\ LET k == oarg[o].key
       IN agg' = IF agg[k] = NoAgg THEN [agg EXCEPT ![k] = [NoAgg EXCEPT !.id = Fresh]] ELSE agg
    /\ omine' = [omine EXCEPT ![o] = agg'[oarg[o].key].id]
    /\ UNCHANGED <<flags, counters, mu, stop, opc, oarg, observed, enablers, loops, panicked, evictions>>

\* What the observer does to its aggregate is seen if that is still in the map.
OnAgg(o, update(_)) ==
    LET k == oarg[o].key
    IN agg' = IF agg[k].id = omine[o] THEN [agg EXCEPT ![k] = update(@)] ELSE agg

\* ka.abs.Add(1), or ka.net.Add(v).
CountKey(o) ==
    /\ omine[o] > 0 /\ opc[o] \in {"admit", "commit"}
    /\ IF opc[o] = "admit"
       THEN OnAgg(o, LAMBDA a : [a EXCEPT !.abs = @ + 1])
       ELSE OnAgg(o, LAMBDA a : [a EXCEPT !.net = @ + oarg[o].n])
    /\ opc' = [opc EXCEPT ![o] = IF @ = "admit" THEN "stampAdmit" ELSE "stampCommit"]
    /\ UNCHANGED <<flags, counters, mu, stop, oarg, omine, observed, enablers, loops, panicked, evictions>>

\* ka.lastUpdate.Store; the global sums.
Stamp(o) ==
    /\ opc[o] \in {"stampAdmit", "stampCommit"}
    /\ OnAgg(o, LAMBDA a : [a EXCEPT !.stamped = TRUE])
    /\ IF opc[o] = "stampAdmit"
       THEN sumAbs' = sumAbs + 1 /\ UNCHANGED sumNet
       ELSE sumNet' = sumNet + oarg[o].n /\ UNCHANGED sumAbs
    /\ opc' = [opc EXCEPT ![o] = "idle"]
    /\ oarg' = [oarg EXCEPT ![o] = NoArg]
    /\ omine' = [omine EXCEPT ![o] = 0]
    /\ UNCHANGED <<flags, naiveAll, rows, mu, stop, observed, enablers, loops, panicked, evictions>>

-----------------------------------------------------------------------------
(* Enable.                                                                 *)

Step(e, from, to) == epc[e] = from /\ epc' = [epc EXCEPT ![e] = to]
Elsewhere == <<counters, agg, observers, todo, pt, windowPoints, panicked, evictions>>

\* samplingThreshold.Store.
Enable(e, cfg) ==
    /\ enables < MaxEnables /\ enables' = enables + 1
    /\ Step(e, "idle", "switch")
    /\ ecfg' = [ecfg EXCEPT ![e] = cfg]
    /\ threshold' = cfg.sampled
    /\ UNCHANGED <<modEnabled, exporter, lpc, closed, Elsewhere>>

\* modEnabled.Store.
Switch(e) ==
    /\ Step(e, "switch", "lock")
    /\ modEnabled' = ecfg[e].enabled
    /\ UNCHANGED <<threshold, exporter, ecfg, enables, lpc, closed, Elsewhere>>

\* startOrUpdateExporter: exporterMu.Lock, currCfg.Store.
LockExporter(e) ==
    /\ Step(e, "lock", "stop")
    /\ mu = "free" /\ mu' = e
    /\ currCfg' = ecfg[e]
    /\ UNCHANGED <<threshold, modEnabled, stop, ecfg, enables, lpc, closed, Elsewhere>>

\* close(exporterStop).
StopOld(e) ==
    /\ Step(e, "stop", IF stop = 0 THEN "start" ELSE "wait")
    /\ closed' = IF stop = 0 THEN closed ELSE [closed EXCEPT ![stop] = TRUE]
    /\ UNCHANGED <<exporter, threshold, modEnabled, ecfg, enables, lpc, Elsewhere>>

\* Faulty variant: does not wait for exporterDone.
WaitOld_Hurries(e) ==
    /\ Step(e, "wait", "start")
    /\ stop' = 0
    /\ UNCHANGED <<mu, flags, ecfg, enables, lpc, closed, Elsewhere>>

\* <-exporterDone.
WaitOld(e) ==
    /\ Step(e, "wait", "start")
    /\ lpc[stop] = "done"
    /\ stop' = 0
    /\ UNCHANGED <<mu, flags, ecfg, enables, lpc, closed, Elsewhere>>

\* go exporterLoop, if the configuration asks for it; exporterMu.Unlock.
StartNew(e) ==
    /\ Step(e, "start", "idle")
    /\ IF ecfg[e].enabled /\ ecfg[e].interval
       THEN LET g == Min({h \in LoopIds : lpc[h] = "none"})
            IN stop' = g /\ lpc' = [lpc EXCEPT ![g] = "begin"]
       ELSE UNCHANGED <<stop, lpc>>
    /\ mu' = "free"
    /\ ecfg' = [ecfg EXCEPT ![e] = Off]
    /\ UNCHANGED <<flags, enables, closed, Elsewhere>>

-----------------------------------------------------------------------------
(* The loop.                                                               *)

Loop(g, from, to) == lpc[g] = from /\ lpc' = [lpc EXCEPT ![g] = to]
NotLoops == <<flags, counters, mu, stop, observers, enablers>>

\* NewTicker with the interval that is configured by now; it panics on 0.
LoopBegin(g) ==
    /\ Loop(g, "begin", "select")
    /\ panicked' = ~currCfg.interval
    /\ UNCHANGED <<NotLoops, agg, closed, todo, pt, windowPoints, evictions>>

\* publishSnapshot.
Tick(g) ==
    /\ Loop(g, "select", "range")
    /\ todo' = [todo EXCEPT ![g] = Keys]
    /\ UNCHANGED <<NotLoops, agg, closed, pt, windowPoints, panicked, evictions>>

\* Faulty variant: done is not closed.
LoopStop_NoDone(g) ==
    /\ Loop(g, "select", "none")
    /\ closed[g]
    /\ UNCHANGED <<NotLoops, agg, closed, todo, pt, windowPoints, panicked, evictions>>

LoopStop(g) ==
    /\ Loop(g, "select", "done")
    /\ closed[g]
    /\ UNCHANGED <<NotLoops, agg, closed, todo, pt, windowPoints, panicked, evictions>>

\* agg.Range comes to a key: it is kept, or evicted if its stamp is old enough.
Visit(g, k) ==
    /\ lpc[g] = "range" /\ k \in todo[g]
    /\ todo' = [todo EXCEPT ![g] = @ \ {k}]
    /\ \/ UNCHANGED <<agg, evictions>>
       \/ /\ agg[k].stamped
          /\ agg' = [agg EXCEPT ![k] = NoAgg]
          /\ gone' = [abs |-> gone.abs + agg[k].abs, net |-> gone.net + agg[k].net]
          /\ raced' = (raced \/ \E o \in Observers : omine[o] = agg[k].id)
    /\ UNCHANGED <<NotLoops, lpc, closed, pt, windowPoints, panicked>>

Load(g, from, to, field, value) ==
    /\ Loop(g, from, to)
    /\ todo[g] = {}
    /\ pt' = [pt EXCEPT ![g][field] = value]
    /\ UNCHANGED <<NotLoops, agg, closed, todo, windowPoints, panicked, evictions>>

\* The last counter is loaded; under windowMu the point is added and those that are
\* too old go, never this one.
AddPoint(g) ==
    /\ Loop(g, "net", "select")
    /\ \E old \in 1..Len(windowPoints) + 1 :
          LET all == Append(windowPoints, [pt[g] EXCEPT !.net = sumNet])
          IN /\ Len(all) - old < MaxPoints
             /\ windowPoints' = SubSeq(all, old, Len(all))
    /\ pt' = [pt EXCEPT ![g] = NoPoint]
    /\ UNCHANGED <<NotLoops, agg, closed, todo, panicked, evictions>>

\* The KPIs are the deltas from the oldest point of the window to the new one.
KPI(field) ==
    IF windowPoints = <<>> THEN 0
    ELSE windowPoints[Len(windowPoints)][field] - windowPoints[1][field]

-----------------------------------------------------------------------------
ObserverStep(o) == GetAgg(o) \/ StoreAgg(o) \/ CountKey(o) \/ Stamp(o)
EnableStep(e) == Switch(e) \/ LockExporter(e) \/ StopOld(e) \/ WaitOld(e) \/ StartNew(e)
Publish(g) ==
    \/ \E k \in Keys : Visit(g, k)
    \/ Load(g, "range", "commits", "naive", naiveAll) \/ Load(g, "commits", "abs", "commits", rows)
    \/ Load(g, "abs", "net", "abs", sumAbs) \/ AddPoint(g)
LoopStep(g) == LoopBegin(g) \/ Tick(g) \/ LoopStop(g) \/ Publish(g)

Next ==
    \/ /\ ~panicked
       /\ \/ \E o \in Observers :
                \/ ObserverStep(o)
                \/ \E k \in Keys : ObserveRequest(o, k) \/ \E v \in Vectors : ObserveCommit(o, k, v)
                \/ \E n \in 1..Cardinality(Keys) : ObserveBatch(o, n)
          \/ \E e \in Enablers : EnableStep(e) \/ \E cfg \in Configs : Enable(e, cfg)
          \/ \E g \in LoopIds : LoopStep(g)
    \/ (panicked \/ enables = MaxEnables) /\ UNCHANGED vars

Spec == Init /\ [][Next]_vars

\* Goroutines run, a mutex is handed to whoever waits for it, and select does not pass
\* over the stop channel forever.
Fairness ==
    /\ \A e \in Enablers : WF_vars(~panicked /\ EnableStep(e))
    /\ \A g \in LoopIds : WF_vars(~panicked /\ LoopStep(g)) /\ SF_vars(~panicked /\ LoopStop(g))
LiveSpec == Spec /\ Fairness

-----------------------------------------------------------------------------
\* Every variable keeps its type.
TypeOK ==
    /\ threshold \subseteq Keys /\ modEnabled \in BOOLEAN /\ currCfg \in Configs \cup {Off}
    /\ \A c \in {naiveAll, rows, sumAbs, sumNet} : c \in Nat
    /\ mu \in Enablers \cup {"free"} /\ stop \in LoopIds \cup {0}
    /\ Len(windowPoints) <= MaxPoints
    /\ epc \in [Enablers -> {"idle", "switch", "lock", "stop", "wait", "start"}]
    /\ lpc \in [LoopIds -> {"none", "begin", "select", "range", "commits", "abs", "net", "done"}]
    /\ todo \in [LoopIds -> SUBSET Keys]

\* The KPIs are made of the window's deltas, of counters that only grow: no delta is
\* negative, although the counters are loaded one by one, loops are replaced and the window
\* outlives them.  (The published write reduction, 1 - commits / naive writes, is
\* negative when the window has more commits than naive writes.)
KPIsNonNegative == \A field \in DOMAIN NoPoint : KPI(field) >= 0

SumOf(field) == SumOver([k \in Keys |-> agg[k][field]], Keys)

\* When nobody is recording, the aggregates of the keys, and what evicted ones had, add
\* up to the global sums: two observers that see a key first share its aggregate.
\* (An eviction that meets an observer loses what that is about to record.)
KeysAddUp ==
    (\A o \in Observers : opc[o] = "idle") /\ ~raced =>
        /\ SumOf("abs") + gone.abs = sumAbs
        /\ SumOf("net") + gone.net = sumNet

Running == {g \in LoopIds : lpc[g] \notin {"none", "done"}}

\* Between calls of Enable there is one loop if the latest configuration asks for it,
\* and none otherwise.
LoopMatchesConfig ==
    mu = "free" => Running = IF currCfg.enabled /\ currCfg.interval THEN {stop} ELSE {}

\* exporterMu is always released, although Enable holds it while it waits for the old
\* loop to end, whatever that loop is doing.
ExporterReleased == mu # "free" ~> mu = "free" \/ panicked

\* "cfg.LogInterval is guaranteed > 0 by the starter."
IntervalGuaranteed == ~panicked
=============================================================================
