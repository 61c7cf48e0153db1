---------------------------- MODULE ChurnProofs ----------------------------
(***************************************************************************)
(* Proofs about Churn, for any keys, goroutines, configurations and        *)
(* bounds.                                                                 *)
(***************************************************************************)
EXTENDS Churn, SumProofs, SequenceTheorems, TLAPS

-----------------------------------------------------------------------------
(* The inductive invariant.                                                *)

Points == [naive : Nat, commits : Nat, abs : Nat, net : Nat]
Aggs == [id : Nat, abs : Nat, net : Nat, stamped : BOOLEAN]
Recording == {"admit", "commit", "stampAdmit", "stampCommit"}

\* The rest of the types.
FullType ==
    /\ TypeOK
    /\ windowPoints \in Seq(Points)
    /\ agg \in [Keys -> Aggs]
    /\ opc \in [Observers -> Recording \cup {"idle"}]
    /\ oarg \in [Observers -> [key : Keys \cup {NoArg.key}, n : Nat]]
    /\ omine \in [Observers -> Int]
    /\ ecfg \in [Enablers -> Configs \cup {Off}]
    /\ closed \in [LoopIds -> BOOLEAN]
    /\ pt \in [LoopIds -> Points]
    /\ enables \in Nat
    /\ gone \in [abs : Nat, net : Nat]

Busy == {e \in Enablers : epc[e] # "idle"}
Inside(e) == epc[e] \in {"stop", "wait", "start"}
Asks(cfg) == cfg.enabled /\ cfg.interval

\* Loops are made one after the other, and there are at most as many as calls of Enable
\* have got that far.
MadeInv ==
    \E m \in Nat :
       /\ m + Cardinality(Busy) <= enables /\ enables <= MaxEnables
       /\ \A g \in LoopIds : lpc[g] # "none" <=> g <= m

\* Who holds exporterMu is the only one to touch exporterStop and the loop; only the loop
\* of exporterStop can be running, and it ends only when its channel is closed.
MutexInv ==
    /\ \A e \in Enablers : Inside(e) <=> mu = e
    /\ \A e \in Enablers : Inside(e) => currCfg = ecfg[e]
    /\ \A g \in LoopIds :
          /\ lpc[g] = "none" => ~closed[g]
          /\ lpc[g] = "done" => closed[g]
          /\ lpc[g] \notin {"none", "done"} => stop = g
    /\ stop # 0 => lpc[stop] # "none"
    /\ mu = "free" => (stop # 0 <=> Asks(currCfg))
    /\ stop # 0 /\ closed[stop] => \E e \in Enablers : epc[e] = "wait"
    /\ \A e \in Enablers : epc[e] = "wait" => stop # 0
    /\ \A e \in Enablers : epc[e] = "start" => stop = 0

\* What a loop has loaded lies between the points of the window and the counters.
Between(g, field, value) ==
    /\ \A j \in 1..Len(windowPoints) : windowPoints[j][field] <= pt[g][field]
    /\ pt[g][field] <= value

PointsInv ==
    /\ \A j \in 1..Len(windowPoints) :
          /\ windowPoints[j].naive <= naiveAll /\ windowPoints[j].commits <= rows
          /\ windowPoints[j].abs <= sumAbs /\ windowPoints[j].net <= sumNet
    /\ \A i, j \in 1..Len(windowPoints) : i <= j =>
          \A field \in DOMAIN NoPoint : windowPoints[i][field] <= windowPoints[j][field]
    /\ \A g \in LoopIds :
          /\ lpc[g] \in {"commits", "abs", "net"} => Between(g, "naive", naiveAll)
          /\ lpc[g] \in {"abs", "net"} => Between(g, "commits", rows)
          /\ lpc[g] = "net" => Between(g, "abs", sumAbs)

\* What the observers have counted for a key and not yet in the global sum.
DueAbs == [o \in Observers |-> IF opc[o] = "stampAdmit" THEN 1 ELSE 0]
DueNet == [o \in Observers |-> IF opc[o] = "stampCommit" THEN oarg[o].n ELSE 0]

\* Without a race an observer's aggregate stays in the map until it is stamped.
KeysInv ==
    /\ \A k \in Keys : agg[k].id = 0 => agg[k] = NoAgg
    /\ \A o \in Observers : opc[o] # "idle" => oarg[o].key \in Keys
    /\ \A o \in Observers : opc[o] \in {"stampAdmit", "stampCommit"} => omine[o] > 0
    /\ \A o \in Observers : omine[o] # 0 => opc[o] # "idle"
    /\ ~raced =>
         /\ \A o \in Observers : omine[o] > 0 => agg[oarg[o].key].id = omine[o]
         /\ SumOf("abs") + gone.abs = sumAbs + SumOver(DueAbs, Observers)
         /\ SumOf("net") + gone.net = sumNet + SumOver(DueNet, Observers)

ChurnInv == FullType /\ MadeInv /\ MutexInv /\ PointsInv /\ KeysInv

-----------------------------------------------------------------------------
(* Steps of each kind of goroutine.                                        *)

\* What an observer leaves alone.
LEMMA ObserverFrame ==
    ASSUME NEW o \in Observers,
           \/ ObserverStep(o)
           \/ \E k \in Keys : ObserveRequest(o, k) \/ \E v \in Vectors : ObserveCommit(o, k, v)
           \/ \E b \in 1..Cardinality(Keys) : ObserveBatch(o, b)
    PROVE  UNCHANGED <<flags, mu, stop, enablers, loops, panicked, evictions>>
BY DEF ObserverStep, GetAgg, StoreAgg, CountKey, Stamp, ObserveRequest, ObserveCommit, ObserveBatch

\* What a caller of Enable leaves alone.
LEMMA EnablerFrame ==
    ASSUME NEW e \in Enablers, EnableStep(e) \/ \E cfg \in Configs : Enable(e, cfg)
    PROVE  UNCHANGED Elsewhere
BY DEF EnableStep, Switch, LockExporter, StopOld, WaitOld, StartNew, Enable

\* What a loop leaves alone.
LEMMA LoopFrame ==
    ASSUME NEW g \in LoopIds, LoopStep(g)
    PROVE  UNCHANGED <<NotLoops, closed>>
BY DEF LoopStep, LoopBegin, Tick, LoopStop, Publish, Visit, Load, AddPoint

\* The loop that StartNew takes is the next one, and there is one: this call of Enable
\* has not made its own yet.
LEMMA NextLoop ==
    ASSUME FullType, MadeInv, NEW e \in Enablers, epc[e] # "idle"
    PROVE  \E m \in Nat :
              /\ Min({h \in LoopIds : lpc[h] = "none"}) = m + 1
              /\ m + 1 \in LoopIds /\ lpc[m + 1] = "none"
              /\ \A g \in LoopIds : lpc[g] # "none" <=> g <= m
              /\ m + 1 + Cardinality(Busy \ {e}) <= enables /\ enables <= MaxEnables
<1>1. PICK m \in Nat : /\ m + Cardinality(Busy) <= enables /\ enables <= MaxEnables
                       /\ \A g \in LoopIds : lpc[g] # "none" <=> g <= m
  BY DEF MadeInv
<1>2. IsFiniteSet(Busy) /\ e \in Busy
  <2>1. Busy \subseteq Enablers /\ e \in Busy BY DEF Busy
  <2> QED BY <2>1, ChurnAssumption, FS_Subset
<1>3. /\ Cardinality(Busy \ {e}) = Cardinality(Busy) - 1 /\ IsFiniteSet(Busy \ {e})
      /\ Cardinality(Busy) \in Nat /\ Cardinality(Busy \ {e}) \in Nat
  BY <1>2, FS_RemoveElement, FS_CardinalityType
<1>4. enables \in Nat /\ MaxEnables \in Nat BY ChurnAssumption DEF FullType
<1>5. m + 1 <= enables /\ m + 1 + Cardinality(Busy \ {e}) <= enables BY <1>1, <1>3, <1>4
<1>6. m + 1 \in LoopIds BY <1>1, <1>4, <1>5 DEF LoopIds
<1>7. lpc[m + 1] = "none" BY <1>1, <1>6
<1> DEFINE H == {h \in LoopIds : lpc[h] = "none"}
<1>8. m + 1 \in H /\ \A h \in H : m + 1 <= h /\ h \in Int BY <1>1, <1>6, <1>7 DEF LoopIds
<1> HIDE DEF H
<1>9. Min(H) = m + 1
  <2>1. Min(H) \in H /\ \A h \in H : Min(H) <= h BY <1>8 DEF Min
  <2> QED BY <1>8, <2>1
<1> QED BY <1>1, <1>5, <1>6, <1>7, <1>9 DEF H

-----------------------------------------------------------------------------
(* Types.                                                                  *)

\* The types hold at the start.
LEMMA ChurnTypeInit == Init => FullType
<1> SUFFICES ASSUME Init PROVE FullType OBVIOUS
<1>1. TypeOK
  <2>1. /\ threshold \subseteq Keys /\ modEnabled \in BOOLEAN /\ currCfg \in Configs \cup {Off}
        /\ naiveAll \in Nat /\ rows \in Nat /\ sumAbs \in Nat /\ sumNet \in Nat
        /\ mu \in Enablers \cup {"free"} /\ stop \in LoopIds \cup {0}
    BY DEF Init
  <2>2. Len(windowPoints) <= MaxPoints BY ChurnAssumption DEF Init
  <2>3. /\ epc \in [Enablers -> {"idle", "switch", "lock", "stop", "wait", "start"}]
        /\ lpc \in [LoopIds -> {"none", "begin", "select", "range", "commits", "abs", "net", "done"}]
        /\ todo \in [LoopIds -> SUBSET Keys]
    BY DEF Init
  <2> QED BY <2>1, <2>2, <2>3 DEF TypeOK
<1>2. windowPoints \in Seq(Points) BY DEF Init
<1>3. agg \in [Keys -> Aggs] /\ pt \in [LoopIds -> Points] BY DEF Init, NoAgg, NoPoint, Aggs, Points
<1>4. oarg \in [Observers -> [key : Keys \cup {NoArg.key}, n : Nat]]
  <2>1. NoArg \in [key : Keys \cup {NoArg.key}, n : Nat] BY DEF NoArg
  <2> QED BY <2>1 DEF Init
<1> QED BY <1>1, <1>2, <1>3, <1>4 DEF Init, FullType, Recording

\* A new aggregate has an id of its own.
LEMMA FreshType == FullType => Fresh \in Nat \ {0}
<1> SUFFICES ASSUME FullType PROVE Fresh \in Nat \ {0} OBVIOUS
<1> DEFINE A == {agg[k].id : k \in Keys}
           B == {omine[o] : o \in Observers}
           M == {0} \cup A \cup B
           f == [k \in Keys |-> agg[k].id]
<1>1. A = {f[k] : k \in Keys} OBVIOUS
<1>2. IsFiniteSet(A)
  <2>1. IsFiniteSet(Keys) BY ChurnAssumption
  <2> HIDE DEF f, A
  <2>2. IsFiniteSet({f[k] : k \in Keys}) BY ONLY <2>1, FiniteImage
  <2> QED BY <1>1, <2>2
<1>3. IsFiniteSet(B) BY ChurnAssumption, FiniteImage
<1>4. A \subseteq Int /\ B \subseteq Int BY DEF FullType, Aggs
<1> HIDE DEF A, B
<1>5. IsFiniteSet({0} \cup A) BY <1>2, FS_Singleton, FS_Union
<1>6. IsFiniteSet(M) BY <1>3, <1>5, FS_Union
<1>7. M \subseteq Int /\ 0 \in M BY <1>4
<1> HIDE DEF M
<1>8. Max(M) \in M /\ Max(M) >= 0 BY <1>6, <1>7, MaxInSet
<1>9. \A z \in Int : z >= 0 => 1 + z \in Nat \ {0} OBVIOUS
<1>10. 1 + Max(M) \in Nat \ {0} BY <1>7, <1>8, <1>9
<1> QED BY <1>10 DEF Fresh, M, A, B

\* What an observer writes to its aggregate.
LEMMA OnAggType ==
    ASSUME FullType, KeysInv, NEW o \in Observers, CountKey(o) \/ Stamp(o)
    PROVE  /\ agg' \in [Keys -> Aggs] /\ oarg[o].key \in Keys /\ omine[o] > 0
           /\ opc[o] \in Recording
<1>1. opc[o] \in Recording /\ omine[o] > 0 BY DEF CountKey, Stamp, Recording, KeysInv
<1>2. oarg[o].key \in Keys BY <1>1 DEF KeysInv, Recording
<1> DEFINE k == oarg[o].key
<1>3. agg \in [Keys -> Aggs] /\ agg[k] \in Aggs /\ oarg[o].n \in Nat BY <1>2 DEF FullType
<1>4. CASE CountKey(o) /\ opc[o] = "admit"
  <2>1. [agg[k] EXCEPT !.abs = @ + 1] \in Aggs BY <1>3 DEF Aggs
  <2> QED BY <1>1, <1>2, <1>3, <1>4, <2>1 DEF CountKey, OnAgg
<1>5. CASE CountKey(o) /\ opc[o] # "admit"
  <2>1. [agg[k] EXCEPT !.net = @ + oarg[o].n] \in Aggs BY <1>3 DEF Aggs
  <2> QED BY <1>1, <1>2, <1>3, <1>5, <2>1 DEF CountKey, OnAgg
<1>6. CASE Stamp(o)
  <2>1. [agg[k] EXCEPT !.stamped = TRUE] \in Aggs BY <1>3 DEF Aggs
  <2> QED BY <1>1, <1>2, <1>3, <1>6, <2>1 DEF Stamp, OnAgg
<1> QED BY <1>4, <1>5, <1>6

\* Types that observers change.
LEMMA ObserverType ==
    ASSUME FullType, KeysInv, NEW o \in Observers,
           \/ ObserverStep(o)
           \/ \E k \in Keys : ObserveRequest(o, k) \/ \E v \in Vectors : ObserveCommit(o, k, v)
           \/ \E b \in 1..Cardinality(Keys) : ObserveBatch(o, b)
    PROVE  /\ naiveAll' \in Nat /\ rows' \in Nat /\ sumAbs' \in Nat /\ sumNet' \in Nat
           /\ agg' \in [Keys -> Aggs]
           /\ opc' \in [Observers -> Recording \cup {"idle"}]
           /\ oarg' \in [Observers -> [key : Keys \cup {NoArg.key}, n : Nat]]
           /\ omine' \in [Observers -> Int]
<1> DEFINE Goal == /\ naiveAll' \in Nat /\ rows' \in Nat /\ sumAbs' \in Nat /\ sumNet' \in Nat
                   /\ agg' \in [Keys -> Aggs]
                   /\ opc' \in [Observers -> Recording \cup {"idle"}]
                   /\ oarg' \in [Observers -> [key : Keys \cup {NoArg.key}, n : Nat]]
                   /\ omine' \in [Observers -> Int]
<1> USE DEF FullType, TypeOK
<1>0. NoArg \in [key : Keys \cup {NoArg.key}, n : Nat] BY DEF NoArg
<1>1. CASE GetAgg(o)
  <2>1. oarg[o].key \in Keys BY <1>1 DEF GetAgg, KeysInv
  <2>2. agg[oarg[o].key].id \in Int BY <2>1 DEF Aggs
  <2> QED BY <1>1, <2>2 DEF GetAgg, counters
<1>2. CASE StoreAgg(o)
  <2>1. oarg[o].key \in Keys BY <1>2 DEF StoreAgg, KeysInv
  <2>2. [NoAgg EXCEPT !.id = Fresh] \in Aggs BY FreshType DEF NoAgg, Aggs
  <2>3. agg' \in [Keys -> Aggs] BY <1>2, <2>1, <2>2 DEF StoreAgg
  <2>4. agg'[oarg[o].key].id \in Int BY <2>1, <2>3 DEF Aggs
  <2> QED BY <1>2, <2>3, <2>4 DEF StoreAgg, counters
<1>3. CASE CountKey(o)
  BY <1>3, OnAggType DEF CountKey, counters, Recording
<1>4. CASE Stamp(o)
  <2>1. oarg[o].n \in Nat OBVIOUS
  <2>2. agg' \in [Keys -> Aggs] /\ naiveAll' = naiveAll /\ rows' = rows
    BY <1>4, OnAggType DEF Stamp
  <2>3. sumAbs' \in Nat /\ sumNet' \in Nat BY <1>4, <2>1 DEF Stamp
  <2>4. /\ opc' = [opc EXCEPT ![o] = "idle"] /\ oarg' = [oarg EXCEPT ![o] = NoArg]
        /\ omine' = [omine EXCEPT ![o] = 0]
    BY <1>4 DEF Stamp
  <2> QED BY <1>0, <2>2, <2>3, <2>4
<1>5. ASSUME NEW k \in Keys, ObserveRequest(o, k) PROVE Goal
  <2>1. /\ opc' = opc \/ opc' = [opc EXCEPT ![o] = "admit"]
        /\ oarg' = oarg \/ oarg' = [oarg EXCEPT ![o] = [key |-> k, n |-> 1]]
        /\ naiveAll' \in {naiveAll, naiveAll + 1}
        /\ UNCHANGED <<rows, sumAbs, sumNet, agg, omine>>
    BY <1>5 DEF ObserveRequest, ToAgg
  <2>2. [key |-> k, n |-> 1] \in [key : Keys \cup {NoArg.key}, n : Nat] OBVIOUS
  <2>3. opc' \in [Observers -> Recording \cup {"idle"}] BY <2>1 DEF Recording
  <2>4. oarg' \in [Observers -> [key : Keys \cup {NoArg.key}, n : Nat]] BY <2>1, <2>2
  <2> QED BY <2>1, <2>3, <2>4
<1>6. ASSUME NEW k \in Keys, NEW v \in Vectors, ObserveCommit(o, k, v) PROVE Goal
  <2>1. (IF v < 0 THEN -v ELSE v) \in Nat BY ChurnAssumption
  <2>2. /\ opc' = opc \/ opc' = [opc EXCEPT ![o] = "commit"]
        /\ oarg' = oarg \/ oarg' = [oarg EXCEPT ![o] = [key |-> k, n |-> IF v < 0 THEN -v ELSE v]]
        /\ UNCHANGED <<naiveAll, rows, sumAbs, sumNet, agg, omine>>
    BY <1>6 DEF ObserveCommit, ToAgg, counters
  <2>3. [key |-> k, n |-> IF v < 0 THEN -v ELSE v] \in [key : Keys \cup {NoArg.key}, n : Nat] BY <2>1
  <2>4. opc' \in [Observers -> Recording \cup {"idle"}] BY <2>2 DEF Recording
  <2>5. oarg' \in [Observers -> [key : Keys \cup {NoArg.key}, n : Nat]] BY <2>2, <2>3
  <2> QED BY <2>2, <2>4, <2>5
<1>7. ASSUME NEW b \in 1..Cardinality(Keys), ObserveBatch(o, b) PROVE Goal
  BY <1>7, SMTT(30) DEF ObserveBatch
<1> QED BY <1>1, <1>2, <1>3, <1>4, <1>5, <1>6, <1>7 DEF ObserverStep

\* Types that callers of Enable change.
LEMMA EnablerType ==
    ASSUME FullType, MadeInv, NEW e \in Enablers, EnableStep(e) \/ \E cfg \in Configs : Enable(e, cfg)
    PROVE  FullType'
<1>n. epc[e] # "idle" => Min({h \in LoopIds : lpc[h] = "none"}) \in LoopIds BY NextLoop
<1> USE DEF FullType, TypeOK
<1>0. UNCHANGED Elsewhere BY EnablerFrame
<1>u. UNCHANGED <<naiveAll, rows, sumAbs, sumNet, agg, opc, oarg, omine, todo, pt, windowPoints, gone>>
  BY <1>0 DEF Elsewhere, counters, observers, evictions
<1>e. ASSUME NEW from, NEW to \in {"idle", "switch", "lock", "stop", "wait", "start"}, Step(e, from, to)
      PROVE  epc' \in [Enablers -> {"idle", "switch", "lock", "stop", "wait", "start"}]
  BY <1>e DEF Step
<1>1. ASSUME NEW cfg \in Configs, Enable(e, cfg) PROVE FullType'
  <2>1. cfg.sampled \subseteq Keys BY ChurnAssumption
  <2>2. ecfg' \in [Enablers -> Configs \cup {Off}] BY <1>1 DEF Enable
  <2>3. epc' \in [Enablers -> {"idle", "switch", "lock", "stop", "wait", "start"}] BY <1>1, <1>e DEF Enable
  <2>4. UNCHANGED <<modEnabled, mu, stop, currCfg, lpc, closed>> /\ enables' \in Nat /\ threshold' \subseteq Keys
    BY <1>1, <2>1 DEF Enable, exporter
  <2> QED BY <1>u, <2>2, <2>3, <2>4
<1>2. CASE Switch(e)
  <2>1. ecfg[e].enabled \in BOOLEAN
    <3>1. ecfg[e] \in Configs \cup {Off} OBVIOUS
    <3>2. Off.enabled \in BOOLEAN BY DEF Off
    <3> QED BY <3>1, <3>2, ChurnAssumption
  <2>2. modEnabled' \in BOOLEAN BY <1>2, <2>1, Zenon DEF Switch
  <2>3. epc' \in [Enablers -> {"idle", "switch", "lock", "stop", "wait", "start"}] BY <1>2, <1>e DEF Switch
  <2>4. UNCHANGED <<threshold, mu, stop, currCfg, lpc, closed, ecfg, enables>> BY <1>2 DEF Switch, exporter
  <2> QED BY <1>u, <2>2, <2>3, <2>4
<1>3. CASE LockExporter(e)
  <2>1. epc' \in [Enablers -> {"idle", "switch", "lock", "stop", "wait", "start"}] BY <1>3, <1>e DEF LockExporter
  <2>2. UNCHANGED <<threshold, modEnabled, stop, ecfg, enables, lpc, closed>> BY <1>3 DEF LockExporter
  <2>3. mu' \in Enablers \cup {"free"} /\ currCfg' \in Configs \cup {Off} BY <1>3 DEF LockExporter
  <2> QED BY <1>u, <2>1, <2>2, <2>3
<1>4. CASE StopOld(e)
  <2>1. epc' \in [Enablers -> {"idle", "switch", "lock", "stop", "wait", "start"}] BY <1>4, <1>e DEF StopOld
  <2>2. UNCHANGED <<threshold, modEnabled, stop, mu, currCfg, ecfg, enables, lpc>> BY <1>4 DEF StopOld, exporter
  <2>3. closed' \in [LoopIds -> BOOLEAN] BY <1>4 DEF StopOld
  <2> QED BY <1>u, <2>1, <2>2, <2>3
<1>5. CASE WaitOld(e)
  <2>1. epc' \in [Enablers -> {"idle", "switch", "lock", "stop", "wait", "start"}] BY <1>5, <1>e DEF WaitOld
  <2>2. UNCHANGED <<threshold, modEnabled, mu, currCfg, ecfg, enables, lpc, closed>> /\ stop' = 0
    BY <1>5 DEF WaitOld, flags
  <2> QED BY <1>u, <2>1, <2>2
<1>6. CASE StartNew(e)
  <2>1. epc' \in [Enablers -> {"idle", "switch", "lock", "stop", "wait", "start"}] BY <1>6, <1>e DEF StartNew
  <2>2. /\ UNCHANGED <<threshold, modEnabled, currCfg, enables, closed>> /\ mu' = "free"
        /\ ecfg' = [ecfg EXCEPT ![e] = Off]
    BY <1>6 DEF StartNew, flags
  <2> DEFINE new == Min({h \in LoopIds : lpc[h] = "none"})
  <2>3. \/ stop' = stop /\ lpc' = lpc
        \/ stop' = new /\ lpc' = [lpc EXCEPT ![new] = "begin"]
    BY <1>6 DEF StartNew
  <2>4. new \in LoopIds
    <3>1. epc[e] # "idle" BY <1>6 DEF StartNew, Step
    <3> QED BY <3>1, <1>n
  <2> HIDE DEF new
  <2>5. stop' \in LoopIds \cup {0} /\
        lpc' \in [LoopIds -> {"none", "begin", "select", "range", "commits", "abs", "net", "done"}]
    BY <2>3, <2>4
  <2>6. ecfg' \in [Enablers -> Configs \cup {Off}] BY <2>2
  <2> QED BY <1>u, <2>1, <2>2, <2>5, <2>6
<1> QED BY <1>1, <1>2, <1>3, <1>4, <1>5, <1>6 DEF EnableStep

\* What AddPoint makes of the window.
LEMMA Window ==
    ASSUME FullType, NEW g \in LoopIds, AddPoint(g)
    PROVE  \E d \in Nat :
              /\ windowPoints' \in Seq(Points) /\ Len(windowPoints') <= MaxPoints
              /\ Len(windowPoints') = Len(windowPoints) + 1 - d /\ d <= Len(windowPoints)
              /\ \A j \in 1..Len(windowPoints') :
                    windowPoints'[j] = IF d + j = Len(windowPoints) + 1
                                       THEN [pt[g] EXCEPT !.net = sumNet]
                                       ELSE windowPoints[d + j]
<1> DEFINE p == [pt[g] EXCEPT !.net = sumNet]
           all == Append(windowPoints, p)
<1>1. PICK old \in 1..Len(windowPoints) + 1 :
         Len(all) - old < MaxPoints /\ windowPoints' = SubSeq(all, old, Len(all))
  BY DEF AddPoint
<1>2. windowPoints \in Seq(Points) /\ Len(windowPoints) \in Nat /\ MaxPoints \in Nat
  BY ChurnAssumption DEF FullType
<1>3. p \in Points BY ZenonT(30) DEF FullType, TypeOK, Points
<1> HIDE DEF p
<1>4. /\ all \in Seq(Points) /\ Len(all) = Len(windowPoints) + 1
      /\ \A j \in 1..Len(windowPoints) : all[j] = windowPoints[j]
      /\ all[Len(windowPoints) + 1] = p
  BY <1>2, <1>3, AppendProperties
<1>5. old \in Int /\ Len(all) \in Int /\ \A j \in old..Len(all) : all[j] \in Points
  BY <1>2, <1>4
<1> HIDE DEF all
<1>6. /\ SubSeq(all, old, Len(all)) \in Seq(Points)
      /\ Len(SubSeq(all, old, Len(all))) = IF old <= Len(all) THEN Len(all) - old + 1 ELSE 0
      /\ \A j \in 1..Len(all) - old + 1 : SubSeq(all, old, Len(all))[j] = all[old + j - 1]
  BY ONLY <1>5, SubSeqProperties
<1>7. Len(windowPoints') = Len(all) - old + 1 BY <1>1, <1>2, <1>4, <1>6
<1>8. Len(windowPoints') <= MaxPoints /\ old - 1 \in Nat /\ old - 1 <= Len(windowPoints)
  BY <1>1, <1>2, <1>4, <1>7
<1>9. Len(windowPoints') = Len(windowPoints) + 1 - (old - 1) BY <1>1, <1>2, <1>4, <1>7
<1>10. ASSUME NEW j \in 1..Len(windowPoints')
       PROVE  windowPoints'[j] = IF (old - 1) + j = Len(windowPoints) + 1 THEN p ELSE windowPoints[(old - 1) + j]
  <2>1. windowPoints'[j] = all[old + j - 1] BY <1>1, <1>6, <1>7
  <2>2. old + j - 1 = (old - 1) + j /\ old + j - 1 \in 1..Len(windowPoints) + 1 BY <1>2, <1>9
  <2> QED BY <1>2, <1>4, <2>1, <2>2
<1> QED BY <1>1, <1>6, <1>8, <1>9, <1>10 DEF p

\* Types that loops change.
LEMMA LoopType ==
    ASSUME FullType, NEW g \in LoopIds, LoopStep(g)
    PROVE  FullType'
<1>w. ASSUME AddPoint(g) PROVE windowPoints' \in Seq(Points) /\ Len(windowPoints') <= MaxPoints
  BY <1>w, Window
<1> USE DEF FullType, TypeOK
<1>u. UNCHANGED <<threshold, modEnabled, currCfg, naiveAll, rows, sumAbs, sumNet, mu, stop, opc, oarg,
                  omine, epc, ecfg, enables, closed>>
  BY LoopFrame DEF NotLoops, flags, counters, observers, enablers
<1>e. ASSUME NEW from, Loop(g, from, "select") \/ Loop(g, from, "range") \/ Loop(g, from, "done")
               \/ Loop(g, from, "commits") \/ Loop(g, from, "abs") \/ Loop(g, from, "net")
      PROVE  lpc' \in [LoopIds -> {"none", "begin", "select", "range", "commits", "abs", "net", "done"}]
  BY <1>e DEF Loop
<1>1. CASE LoopBegin(g) \/ LoopStop(g)
  <2>1. UNCHANGED <<agg, todo, pt, windowPoints, gone>> BY <1>1 DEF LoopBegin, LoopStop, evictions
  <2>2. lpc' \in [LoopIds -> {"none", "begin", "select", "range", "commits", "abs", "net", "done"}]
    BY <1>1, <1>e DEF LoopBegin, LoopStop
  <2> QED BY <1>u, <2>1, <2>2
<1>2. CASE Tick(g)
  <2>1. UNCHANGED <<agg, pt, windowPoints, gone>> /\ todo' = [todo EXCEPT ![g] = Keys]
    BY <1>2 DEF Tick, evictions
  <2>2. lpc' \in [LoopIds -> {"none", "begin", "select", "range", "commits", "abs", "net", "done"}]
    BY <1>2, <1>e DEF Tick
  <2>3. todo' \in [LoopIds -> SUBSET Keys] BY <2>1
  <2> QED BY <1>u, <2>1, <2>2, <2>3
<1>3. ASSUME NEW k \in Keys, Visit(g, k) PROVE FullType'
  <2>1. UNCHANGED <<lpc, pt, windowPoints>> /\ todo' = [todo EXCEPT ![g] = @ \ {k}]
    BY <1>3 DEF Visit
  <2>2. todo' \in [LoopIds -> SUBSET Keys] BY <2>1
  <2>3. NoAgg \in Aggs BY DEF NoAgg, Aggs
  <2>4. agg' \in [Keys -> Aggs] BY <1>3, <2>3 DEF Visit
  <2>5. agg[k].abs \in Nat /\ agg[k].net \in Nat BY DEF Aggs
  <2>6. gone' \in [abs : Nat, net : Nat] BY <1>3, <2>5 DEF Visit, evictions
  <2> QED BY <1>u, <2>1, <2>2, <2>4, <2>6
<1>4. ASSUME NEW from, NEW to \in {"commits", "abs", "net"}, NEW field \in {"naive", "commits", "abs"},
             NEW value \in Nat, Load(g, from, to, field, value)
      PROVE  FullType'
  <2>1. UNCHANGED <<agg, todo, windowPoints, gone>> /\ pt' = [pt EXCEPT ![g][field] = value]
    BY <1>4 DEF Load, evictions
  <2>2. lpc' \in [LoopIds -> {"none", "begin", "select", "range", "commits", "abs", "net", "done"}]
    BY <1>4, <1>e DEF Load
  <2>3. [pt[g] EXCEPT ![field] = value] \in Points
    <3>1. pt[g] \in Points /\ value \in Nat OBVIOUS
    <3>2. [pt[g] EXCEPT !.naive = value] \in Points BY <3>1 DEF Points
    <3>3. [pt[g] EXCEPT !.commits = value] \in Points BY <3>1 DEF Points
    <3>4. [pt[g] EXCEPT !.abs = value] \in Points BY <3>1 DEF Points
    <3>5. CASE field = "naive" BY <3>2, <3>5, Zenon
    <3>6. CASE field = "commits" BY <3>3, <3>6, Zenon
    <3>7. CASE field = "abs" BY <3>4, <3>7, Zenon
    <3> QED BY <3>5, <3>6, <3>7
  <2>4. pt' = [pt EXCEPT ![g] = [pt[g] EXCEPT ![field] = value]] BY <2>1
  <2>5. pt' \in [LoopIds -> Points] BY <2>3, <2>4
  <2> QED BY <1>u, <2>1, <2>2, <2>5
<1>5. CASE AddPoint(g)
  <2>1. UNCHANGED <<agg, todo, gone>> /\ pt' = [pt EXCEPT ![g] = NoPoint]
    BY <1>5 DEF AddPoint, evictions
  <2>2. lpc' \in [LoopIds -> {"none", "begin", "select", "range", "commits", "abs", "net", "done"}]
    BY <1>5, <1>e DEF AddPoint
  <2>3. NoPoint \in Points BY DEF NoPoint, Points
  <2>4. pt' \in [LoopIds -> Points] BY <2>1, <2>3
  <2> QED BY <1>u, <1>5, <1>w, <2>1, <2>2, <2>4
<1> QED BY <1>1, <1>2, <1>3, <1>4, <1>5 DEF LoopStep, Publish

-----------------------------------------------------------------------------
(* The loops that have been made.                                          *)

\* A step that keeps the calls of Enable under way and makes no loop.
LEMMA MadeStays ==
    ASSUME MadeInv, Busy' = Busy, enables' = enables,
           \A g \in LoopIds : lpc[g] = "none" <=> lpc'[g] = "none"
    PROVE  MadeInv'
<1>1. PICK m \in Nat : /\ m + Cardinality(Busy) <= enables /\ enables <= MaxEnables
                       /\ \A g \in LoopIds : lpc[g] # "none" <=> g <= m
  BY DEF MadeInv
<1>2. m + Cardinality(Busy') <= enables' /\ enables' <= MaxEnables BY <1>1
<1>3. \A g \in LoopIds : lpc'[g] # "none" <=> g <= m BY <1>1
<1> QED BY <1>2, <1>3 DEF MadeInv

\* A call of Enable on its way.
LEMMA BusyStays ==
    ASSUME FullType, NEW e \in Enablers, NEW from, NEW to, from # "idle", to # "idle", Step(e, from, to)
    PROVE  Busy' = Busy
BY DEF Step, Busy, FullType, TypeOK

\* Enable makes loops one after the other: it waits for the old one before it starts the next.
LEMMA EnablerMade ==
    ASSUME FullType, MadeInv, NEW e \in Enablers, EnableStep(e) \/ \E cfg \in Configs : Enable(e, cfg)
    PROVE  MadeInv'
<1>f. IsFiniteSet(Busy)
  <2>1. Busy \subseteq Enablers BY DEF Busy
  <2> QED BY <2>1, ChurnAssumption, FS_Subset
<1>1. ASSUME NEW cfg \in Configs, Enable(e, cfg) PROVE MadeInv'
  <2>1. PICK m \in Nat : /\ m + Cardinality(Busy) <= enables /\ enables <= MaxEnables
                         /\ \A g \in LoopIds : lpc[g] # "none" <=> g <= m
    BY DEF MadeInv
  <2>2. /\ enables' = enables + 1 /\ enables < MaxEnables /\ lpc' = lpc
        /\ epc[e] = "idle" /\ epc' = [epc EXCEPT ![e] = "switch"]
    BY <1>1 DEF Enable, Step
  <2>3. Busy' = Busy \cup {e} /\ e \notin Busy BY <2>2 DEF Busy, FullType, TypeOK
  <2>4. Cardinality(Busy') = Cardinality(Busy) + 1 /\ Cardinality(Busy) \in Nat
    BY <1>f, <2>3, FS_AddElement, FS_CardinalityType
  <2>5. enables \in Nat /\ MaxEnables \in Nat BY ChurnAssumption DEF FullType
  <2>6. m + Cardinality(Busy') <= enables' /\ enables' <= MaxEnables BY <2>1, <2>2, <2>4, <2>5
  <2> QED BY <2>1, <2>2, <2>6 DEF MadeInv
<1>2. CASE Switch(e) \/ LockExporter(e) \/ StopOld(e) \/ WaitOld(e)
  <2>1. enables' = enables /\ lpc' = lpc BY <1>2 DEF Switch, LockExporter, StopOld, WaitOld
  <2>2. Busy' = Busy BY <1>2, BusyStays DEF Switch, LockExporter, StopOld, WaitOld
  <2> QED BY <2>1, <2>2, MadeStays
<1>3. CASE StartNew(e)
  <2>1. /\ enables' = enables /\ epc[e] = "start" /\ epc' = [epc EXCEPT ![e] = "idle"]
    BY <1>3 DEF StartNew, Step
  <2>2. Busy' = Busy \ {e} /\ e \in Busy BY <2>1 DEF Busy, FullType, TypeOK
  <2> DEFINE new == Min({h \in LoopIds : lpc[h] = "none"})
  <2>3. PICK m \in Nat :
              /\ new = m + 1
              /\ m + 1 \in LoopIds /\ lpc[m + 1] = "none"
              /\ \A g \in LoopIds : lpc[g] # "none" <=> g <= m
              /\ m + 1 + Cardinality(Busy \ {e}) <= enables /\ enables <= MaxEnables
    BY <2>1, NextLoop
  <2>4. lpc' = lpc \/ lpc' = [lpc EXCEPT ![new] = "begin"] BY <1>3 DEF StartNew
  <2> HIDE DEF new
  <2>5. Cardinality(Busy \ {e}) \in Nat BY <1>f, FS_RemoveElement, FS_CardinalityType
  <2>6. enables \in Nat BY DEF FullType
  <2>7. m + Cardinality(Busy') <= enables' /\ m + 1 + Cardinality(Busy') <= enables' /\ enables' <= MaxEnables
    BY <2>1, <2>2, <2>3, <2>5, <2>6
  <2>8. CASE lpc' = lpc BY <2>3, <2>7, <2>8 DEF MadeInv
  <2>9. CASE lpc' = [lpc EXCEPT ![new] = "begin"]
    <3>1. \A g \in LoopIds : lpc'[g] # "none" <=> g <= m + 1
      BY <2>3, <2>9 DEF FullType, TypeOK, LoopIds
    <3>2. m + 1 \in Nat OBVIOUS
    <3> QED BY <2>7, <3>1, <3>2 DEF MadeInv
  <2> QED BY <2>4, <2>8, <2>9
<1> QED BY <1>1, <1>2, <1>3 DEF EnableStep

\* A loop at work keeps on being one that has been made.
LEMMA LoopMoves ==
    ASSUME FullType, NEW g \in LoopIds, LoopStep(g)
    PROVE  /\ lpc[g] \notin {"none", "done"} /\ lpc'[g] # "none"
           /\ lpc'[g] = "done" => closed[g]
           /\ \A h \in LoopIds \ {g} : lpc'[h] = lpc[h]
BY DEF LoopStep, LoopBegin, Tick, LoopStop, Publish, Visit, Load, AddPoint, Loop, FullType, TypeOK

\* A loop that goes on starts no other.
LEMMA LoopMade ==
    ASSUME FullType, MadeInv, NEW g \in LoopIds, LoopStep(g)
    PROVE  MadeInv'
<1>1. Busy' = Busy /\ enables' = enables BY LoopFrame DEF NotLoops, enablers, Busy
<1>2. \A h \in LoopIds : lpc[h] = "none" <=> lpc'[h] = "none" BY LoopMoves
<1> QED BY <1>1, <1>2, MadeStays

-----------------------------------------------------------------------------
(* The mutex.                                                              *)

\* A loop leaves exporterMu alone, and ends only when its channel is closed.
LEMMA LoopMutex ==
    ASSUME FullType, MutexInv, NEW g \in LoopIds, LoopStep(g)
    PROVE  MutexInv'
<1>1. UNCHANGED <<mu, stop, epc, ecfg, currCfg, closed>>
  BY LoopFrame DEF NotLoops, enablers, flags
<1>2. /\ lpc[g] \notin {"none", "done"} /\ lpc'[g] # "none"
      /\ lpc'[g] = "done" => closed[g]
      /\ \A h \in LoopIds \ {g} : lpc'[h] = lpc[h]
  BY LoopMoves
<1>3. stop = g BY <1>2 DEF MutexInv
<1>4. \A h \in LoopIds :
          /\ lpc'[h] = "none" => ~closed'[h]
          /\ lpc'[h] = "done" => closed'[h]
          /\ lpc'[h] \notin {"none", "done"} => stop' = h
  BY <1>1, <1>2, <1>3 DEF MutexInv
<1>5. stop' # 0 => lpc'[stop'] # "none" BY <1>1, <1>2, <1>3
<1>6. \A e \in Enablers : Inside(e)' = Inside(e) BY <1>1 DEF Inside
<1> QED BY <1>1, <1>4, <1>5, <1>6 DEF MutexInv

\* Enable holds exporterMu from the lock to the switch.
LEMMA EnablerMutex ==
    ASSUME FullType, MadeInv, MutexInv, NEW e \in Enablers,
           EnableStep(e) \/ \E cfg \in Configs : Enable(e, cfg)
    PROVE  MutexInv'
<1>f. "free" \notin Enablers /\ 0 \notin LoopIds BY ChurnAssumption DEF LoopIds
<1>t. /\ epc \in [Enablers -> {"idle", "switch", "lock", "stop", "wait", "start"}]
      /\ lpc \in [LoopIds -> {"none", "begin", "select", "range", "commits", "abs", "net", "done"}]
      /\ ecfg \in [Enablers -> Configs \cup {Off}] /\ closed \in [LoopIds -> BOOLEAN]
      /\ stop \in LoopIds \cup {0}
  BY DEF FullType, TypeOK
<1>1. ASSUME NEW cfg \in Configs, Enable(e, cfg) PROVE MutexInv'
  <2>1. /\ epc[e] = "idle" /\ epc' = [epc EXCEPT ![e] = "switch"] /\ ecfg' = [ecfg EXCEPT ![e] = cfg]
        /\ UNCHANGED <<mu, stop, currCfg, lpc, closed>>
    BY <1>1 DEF Enable, Step, exporter
  <2> QED BY <1>t, <2>1 DEF MutexInv, Inside
<1>2. CASE Switch(e)
  <2>1. /\ epc[e] = "switch" /\ epc' = [epc EXCEPT ![e] = "lock"]
        /\ UNCHANGED <<mu, stop, currCfg, ecfg, lpc, closed>>
    BY <1>2 DEF Switch, Step, exporter
  <2> QED BY <1>t, <2>1 DEF MutexInv, Inside
<1>3. CASE LockExporter(e)
  <2>1. /\ epc[e] = "lock" /\ epc' = [epc EXCEPT ![e] = "stop"] /\ mu = "free" /\ mu' = e
        /\ currCfg' = ecfg[e] /\ UNCHANGED <<stop, ecfg, lpc, closed>>
    BY <1>3 DEF LockExporter, Step
  <2> QED BY <1>f, <1>t, <2>1 DEF MutexInv, Inside
<1>4. CASE StopOld(e)
  <2>1. /\ epc[e] = "stop" /\ epc' = [epc EXCEPT ![e] = IF stop = 0 THEN "start" ELSE "wait"]
        /\ closed' = IF stop = 0 THEN closed ELSE [closed EXCEPT ![stop] = TRUE]
        /\ UNCHANGED <<mu, stop, currCfg, ecfg, lpc>>
    BY <1>4 DEF StopOld, Step, exporter
  <2> QED BY <1>f, <1>t, <2>1 DEF MutexInv, Inside
<1>5. CASE WaitOld(e)
  <2>1. /\ epc[e] = "wait" /\ epc' = [epc EXCEPT ![e] = "start"] /\ lpc[stop] = "done" /\ stop' = 0
        /\ UNCHANGED <<mu, currCfg, ecfg, lpc, closed>>
    BY <1>5 DEF WaitOld, Step, flags
  <2> QED BY <1>f, <1>t, <2>1 DEF MutexInv, Inside
<1>6. CASE StartNew(e)
  <2> DEFINE new == Min({h \in LoopIds : lpc[h] = "none"})
  <2>1. /\ epc[e] = "start" /\ epc' = [epc EXCEPT ![e] = "idle"] /\ mu' = "free"
        /\ ecfg' = [ecfg EXCEPT ![e] = Off] /\ UNCHANGED <<currCfg, closed>>
        /\ Asks(ecfg[e]) => stop' = new /\ lpc' = [lpc EXCEPT ![new] = "begin"]
        /\ ~Asks(ecfg[e]) => stop' = stop /\ lpc' = lpc
    BY <1>6 DEF StartNew, Step, flags, Asks
  <2>2. new \in LoopIds /\ lpc[new] = "none" BY <2>1, NextLoop
  <2> HIDE DEF new
  <2>3. stop = 0 /\ currCfg = ecfg[e] /\ \A d \in Enablers : Inside(d) => d = e
    BY <2>1 DEF MutexInv, Inside
  <2>4. \A d \in Enablers : ~Inside(d)' BY <1>t, <2>1, <2>3 DEF Inside
  <2>5. \A d \in Enablers : ~(epc'[d] \in {"stop", "wait", "start"}) BY <2>4 DEF Inside
  <2>6. \A h \in LoopIds : lpc[h] \in {"none", "done"} BY <1>f, <2>3 DEF MutexInv
  <2>7. CASE Asks(ecfg[e])
    <3>1. stop' = new /\ lpc' = [lpc EXCEPT ![new] = "begin"] /\ new # 0 /\ ~closed[new]
      BY <1>f, <2>1, <2>2, <2>7 DEF MutexInv
    <3>2. \A h \in LoopIds :
          /\ lpc'[h] = "none" => ~closed'[h]
          /\ lpc'[h] = "done" => closed'[h]
          /\ lpc'[h] \notin {"none", "done"} => stop' = h
      BY <1>t, <2>1, <2>6, <3>1 DEF MutexInv
    <3>3. lpc'[stop'] # "none" BY <1>t, <2>2, <3>1
    <3> QED BY <1>f, <2>1, <2>3, <2>4, <2>5, <2>7, <3>1, <3>2, <3>3 DEF MutexInv, Asks
  <2>8. CASE ~Asks(ecfg[e])
    <3>1. stop' = 0 /\ lpc' = lpc BY <2>1, <2>3, <2>8
    <3> QED BY <1>f, <2>1, <2>3, <2>4, <2>5, <2>6, <2>8, <3>1 DEF MutexInv, Asks
  <2> QED BY <2>7, <2>8
<1> QED BY <1>1, <1>2, <1>3, <1>4, <1>5, <1>6 DEF EnableStep

\* What an observer's step keeps of the rest.
LEMMA ObserverControl ==
    ASSUME FullType, MadeInv, MutexInv, UNCHANGED <<flags, mu, stop, enablers, loops>>
    PROVE  MadeInv' /\ MutexInv'
<1>1. UNCHANGED <<mu, stop, epc, ecfg, currCfg, closed, lpc, enables>>
  BY DEF flags, enablers, loops
<1>2. Busy' = Busy BY <1>1 DEF Busy
<1>3. MadeInv' BY <1>1, <1>2, MadeStays
<1>4. \A e \in Enablers : Inside(e)' = Inside(e) BY <1>1 DEF Inside
<1> QED BY <1>1, <1>3, <1>4 DEF MutexInv

-----------------------------------------------------------------------------
(* The points of the window.                                               *)

Fields == {"naive", "commits", "abs", "net"}

\* A point has the four counters.
LEMMA PointFields == DOMAIN NoPoint = Fields
BY DEF NoPoint, Fields

\* The counters only grow, and nothing else changes.
LEMMA PointsGrow ==
    ASSUME FullType, PointsInv, FullType',
           naiveAll <= naiveAll', rows <= rows', sumAbs <= sumAbs', sumNet <= sumNet',
           UNCHANGED <<pt, windowPoints>>,
           \A g \in LoopIds : lpc'[g] = lpc[g] \/ lpc'[g] \notin {"commits", "abs", "net"}
    PROVE  PointsInv'
<1>1. /\ naiveAll \in Nat /\ rows \in Nat /\ sumAbs \in Nat /\ sumNet \in Nat
      /\ naiveAll' \in Nat /\ rows' \in Nat /\ sumAbs' \in Nat /\ sumNet' \in Nat
  BY DEF FullType, TypeOK
<1>2. \A j \in 1..Len(windowPoints) :
         /\ windowPoints[j].naive \in Nat /\ windowPoints[j].commits \in Nat
         /\ windowPoints[j].abs \in Nat /\ windowPoints[j].net \in Nat
  <2>1. \A j \in 1..Len(windowPoints) : windowPoints[j] \in Points BY DEF FullType
  <2> QED BY <2>1 DEF Points
<1>3. \A j \in 1..Len(windowPoints') :
          /\ windowPoints'[j].naive <= naiveAll' /\ windowPoints'[j].commits <= rows'
          /\ windowPoints'[j].abs <= sumAbs' /\ windowPoints'[j].net <= sumNet'
  BY <1>1, <1>2, SMTT(30) DEF PointsInv
<1>4. ASSUME NEW g \in LoopIds
      PROVE  /\ lpc'[g] \in {"commits", "abs", "net"} => Between(g, "naive", naiveAll)'
             /\ lpc'[g] \in {"abs", "net"} => Between(g, "commits", rows)'
             /\ lpc'[g] = "net" => Between(g, "abs", sumAbs)'
  <2>1. pt[g]["naive"] \in Nat /\ pt[g]["commits"] \in Nat /\ pt[g]["abs"] \in Nat BY DEF FullType, Points
  <2> QED BY <1>1, <2>1, SMTT(30) DEF PointsInv, Between
<1> QED BY <1>3, <1>4 DEF PointsInv

\* Only the loop of exporterStop publishes.
LEMMA OnePublishes ==
    ASSUME FullType, MutexInv, NEW g \in LoopIds, LoopStep(g)
    PROVE  \A h \in LoopIds \ {g} : lpc[h] \in {"none", "done"} /\ lpc'[h] = lpc[h]
BY LoopMoves DEF MutexInv

\* A counter is loaded.
LEMMA PointsLoad ==
    ASSUME FullType, MutexInv, PointsInv, NEW g \in LoopIds,
           \/ Load(g, "range", "commits", "naive", naiveAll)
           \/ Load(g, "commits", "abs", "commits", rows)
           \/ Load(g, "abs", "net", "abs", sumAbs)
    PROVE  PointsInv'
<1>0. LoopStep(g) BY DEF LoopStep, Publish
<1>1. \A h \in LoopIds \ {g} : lpc'[h] \in {"none", "done"} BY <1>0, OnePublishes
<1>2. UNCHANGED <<naiveAll, rows, sumAbs, sumNet, windowPoints>>
  BY DEF Load, NotLoops, counters
<1>3. /\ naiveAll \in Nat /\ rows \in Nat /\ sumAbs \in Nat /\ pt[g] \in Points /\ pt \in [LoopIds -> Points]
      /\ lpc \in [LoopIds -> {"none", "begin", "select", "range", "commits", "abs", "net", "done"}]
  BY DEF FullType, TypeOK
<1>4. \A j \in 1..Len(windowPoints) :
         windowPoints[j]["naive"] <= naiveAll /\ windowPoints[j]["commits"] <= rows /\ windowPoints[j]["abs"] <= sumAbs
  BY DEF PointsInv
<1>5. CASE Load(g, "range", "commits", "naive", naiveAll)
  <2>1. lpc'[g] = "commits" /\ pt'[g] = [pt[g] EXCEPT !["naive"] = naiveAll] BY <1>3, <1>5 DEF Load, Loop
  <2>2. pt'[g]["naive"] = naiveAll BY <1>3, <2>1 DEF Points
  <2>3. Between(g, "naive", naiveAll)' BY <1>2, <1>3, <1>4, <2>2 DEF Between
  <2> QED BY <1>1, <1>2, <2>1, <2>3 DEF PointsInv
<1>6. CASE Load(g, "commits", "abs", "commits", rows)
  <2>1. lpc[g] = "commits" /\ lpc'[g] = "abs" /\ pt'[g] = [pt[g] EXCEPT !["commits"] = rows]
    BY <1>3, <1>6 DEF Load, Loop
  <2>2. pt'[g]["commits"] = rows /\ pt'[g]["naive"] = pt[g]["naive"] BY <1>3, <2>1 DEF Points
  <2>3. Between(g, "commits", rows)' /\ Between(g, "naive", naiveAll)'
    BY <1>2, <1>3, <1>4, <2>1, <2>2 DEF Between, PointsInv
  <2> QED BY <1>1, <1>2, <2>1, <2>3 DEF PointsInv
<1>7. CASE Load(g, "abs", "net", "abs", sumAbs)
  <2>1. lpc[g] = "abs" /\ lpc'[g] = "net" /\ pt'[g] = [pt[g] EXCEPT !["abs"] = sumAbs]
    BY <1>3, <1>7 DEF Load, Loop
  <2>2. /\ pt'[g]["abs"] = sumAbs /\ pt'[g]["naive"] = pt[g]["naive"]
        /\ pt'[g]["commits"] = pt[g]["commits"]
    BY <1>3, <2>1 DEF Points
  <2>3. Between(g, "commits", rows)' /\ Between(g, "naive", naiveAll)' /\ Between(g, "abs", sumAbs)'
    BY <1>2, <1>3, <1>4, <2>1, <2>2 DEF Between, PointsInv
  <2> QED BY <1>1, <1>2, <2>1, <2>3 DEF PointsInv
<1> QED BY <1>5, <1>6, <1>7

\* The new point.
LEMMA PointsAdd ==
    ASSUME FullType, MutexInv, PointsInv, NEW g \in LoopIds, AddPoint(g)
    PROVE  PointsInv'
<1>0. LoopStep(g) BY DEF LoopStep, Publish
<1>1. \A h \in LoopIds \ {g} : lpc'[h] \in {"none", "done"} BY <1>0, OnePublishes
<1>2. UNCHANGED <<naiveAll, rows, sumAbs, sumNet>> BY DEF AddPoint, NotLoops, counters
<1>3. /\ naiveAll \in Nat /\ rows \in Nat /\ sumAbs \in Nat /\ sumNet \in Nat
      /\ pt[g] \in Points /\ Len(windowPoints) \in Nat
      /\ lpc \in [LoopIds -> {"none", "begin", "select", "range", "commits", "abs", "net", "done"}]
  BY DEF FullType, TypeOK
<1>4. lpc[g] = "net" /\ lpc'[g] = "select" BY <1>3 DEF AddPoint, Loop
<1> DEFINE p == [pt[g] EXCEPT !.net = sumNet]
           L == Len(windowPoints)
<1>5. /\ p.naive = pt[g].naive /\ p.commits = pt[g].commits /\ p.abs = pt[g].abs /\ p.net = sumNet
      /\ p.naive \in Nat /\ p.commits \in Nat /\ p.abs \in Nat
  BY <1>3 DEF Points
<1>6. p.naive <= naiveAll /\ p.commits <= rows /\ p.abs <= sumAbs /\ p.net <= sumNet
  BY <1>3, <1>4, <1>5 DEF PointsInv, Between
<1>7. ASSUME NEW j \in 1..L
      PROVE  /\ windowPoints[j].naive <= p.naive /\ windowPoints[j].commits <= p.commits
             /\ windowPoints[j].abs <= p.abs /\ windowPoints[j].net <= p.net
  <2>1. /\ windowPoints[j]["naive"] <= pt[g]["naive"] /\ windowPoints[j]["commits"] <= pt[g]["commits"]
        /\ windowPoints[j]["abs"] <= pt[g]["abs"]
    BY <1>4 DEF PointsInv, Between
  <2>2. windowPoints[j].net <= sumNet BY DEF PointsInv
  <2> QED BY <1>5, <2>1, <2>2
<1>8. \A j \in 1..L : \A field \in Fields : windowPoints[j][field] <= p[field]
  BY <1>7 DEF Fields
<1>9. \A field \in Fields : p[field] <= p[field]
  <2>1. \A z \in Nat : z <= z OBVIOUS
  <2>2. p.naive <= p.naive /\ p.commits <= p.commits /\ p.abs <= p.abs /\ p.net <= p.net
    BY <1>3, <1>5, <2>1
  <2> HIDE DEF p
  <2> QED BY <2>2 DEF Fields
<1>10. PICK d \in Nat :
         /\ Len(windowPoints') = L + 1 - d /\ d <= L
         /\ \A j \in 1..Len(windowPoints') :
               windowPoints'[j] = IF d + j = L + 1 THEN p ELSE windowPoints[d + j]
  BY Window
<1> HIDE DEF p, L
<1>11. \A i, j \in 1..L : i <= j => \A field \in Fields : windowPoints[i][field] <= windowPoints[j][field]
  BY PointFields DEF PointsInv, L
<1>12. L \in Nat BY <1>3 DEF L
<1>13. ASSUME NEW j \in 1..Len(windowPoints')
       PROVE  /\ windowPoints'[j].naive <= naiveAll' /\ windowPoints'[j].commits <= rows'
              /\ windowPoints'[j].abs <= sumAbs' /\ windowPoints'[j].net <= sumNet'
  <2>1. CASE d + j = L + 1 BY <1>2, <1>6, <1>10, <2>1
  <2>2. CASE d + j # L + 1
    <3>1. d + j \in 1..L BY <1>10, <1>12, <2>2
    <3>2. windowPoints'[j] = windowPoints[d + j] BY <1>10, <2>2
    <3> QED BY <1>2, <3>1, <3>2 DEF PointsInv, L
  <2> QED BY <2>1, <2>2
<1>14. ASSUME NEW i \in 1..Len(windowPoints'), NEW j \in 1..Len(windowPoints'), i <= j, NEW field \in Fields
       PROVE  windowPoints'[i][field] <= windowPoints'[j][field]
  <2>1. d + i \in 1..L + 1 /\ d + j \in 1..L + 1 /\ d + i <= d + j BY <1>10, <1>12, <1>14
  <2>2. CASE d + i = L + 1
    <3>1. d + j = L + 1 BY <1>12, <2>1, <2>2
    <3> QED BY <1>9, <1>10, <2>2, <3>1
  <2>3. CASE d + i # L + 1 /\ d + j = L + 1
    <3>1. d + i \in 1..L BY <1>12, <2>1, <2>3
    <3>2. windowPoints'[i] = windowPoints[d + i] /\ windowPoints'[j] = p BY <1>10, <2>3
    <3> QED BY <1>8, <3>1, <3>2
  <2>4. CASE d + i # L + 1 /\ d + j # L + 1
    <3>1. d + i \in 1..L /\ d + j \in 1..L BY <1>12, <2>1, <2>4
    <3>2. windowPoints'[i] = windowPoints[d + i] /\ windowPoints'[j] = windowPoints[d + j] BY <1>10, <2>4
    <3> QED BY <1>11, <2>1, <3>1, <3>2
  <2> QED BY <2>2, <2>3, <2>4
<1>15. \A h \in LoopIds : lpc'[h] \notin {"commits", "abs", "net"} BY <1>1, <1>4
<1> QED BY <1>13, <1>14, <1>15, PointFields DEF PointsInv

\* The counters only grow.
LEMMA CountersGrow ==
    ASSUME FullType, NEW o \in Observers,
           \/ ObserverStep(o)
           \/ \E k \in Keys : ObserveRequest(o, k) \/ \E v \in Vectors : ObserveCommit(o, k, v)
           \/ \E b \in 1..Cardinality(Keys) : ObserveBatch(o, b)
    PROVE  naiveAll <= naiveAll' /\ rows <= rows' /\ sumAbs <= sumAbs' /\ sumNet <= sumNet'
<1>1. naiveAll \in Nat /\ rows \in Nat /\ sumAbs \in Nat /\ sumNet \in Nat /\ oarg[o].n \in Nat
  BY DEF FullType, TypeOK
<1>2. CASE GetAgg(o) \/ StoreAgg(o) \/ CountKey(o) BY <1>1, <1>2 DEF GetAgg, StoreAgg, CountKey, counters
<1>3. CASE Stamp(o)
  BY <1>1, <1>3 DEF Stamp
<1>4. CASE \E k \in Keys : ObserveRequest(o, k) BY <1>1, <1>4 DEF ObserveRequest
<1>5. CASE \E k \in Keys, v \in Vectors : ObserveCommit(o, k, v) BY <1>1, <1>5 DEF ObserveCommit, counters
<1>6. CASE \E b \in 1..Cardinality(Keys) : ObserveBatch(o, b) BY <1>1, <1>6 DEF ObserveBatch
<1> QED BY <1>2, <1>3, <1>4, <1>5, <1>6 DEF ObserverStep

\* A loop loads the counters in turn and adds its point behind the older ones.
LEMMA LoopPoints ==
    ASSUME FullType, FullType', MutexInv, PointsInv, NEW g \in LoopIds, LoopStep(g)
    PROVE  PointsInv'
<1>1. CASE LoopBegin(g) \/ LoopStop(g) \/ Tick(g) \/ \E k \in Keys : Visit(g, k)
  <2>1. UNCHANGED <<naiveAll, rows, sumAbs, sumNet, pt, windowPoints>>
    BY <1>1 DEF LoopBegin, LoopStop, Tick, Visit, NotLoops, counters
  <2>2. \A h \in LoopIds : lpc'[h] = lpc[h] \/ lpc'[h] \notin {"commits", "abs", "net"}
    BY <1>1 DEF LoopBegin, LoopStop, Tick, Visit, Loop, FullType, TypeOK
  <2>3. naiveAll <= naiveAll' /\ rows <= rows' /\ sumAbs <= sumAbs' /\ sumNet <= sumNet'
    BY <2>1 DEF FullType, TypeOK
  <2> QED BY <2>1, <2>2, <2>3, PointsGrow
<1> QED BY <1>1, PointsLoad, PointsAdd DEF LoopStep, Publish

\* Enable touches neither the counters nor the window.
LEMMA EnablerPoints ==
    ASSUME FullType, FullType', MadeInv, PointsInv, NEW e \in Enablers,
           EnableStep(e) \/ \E cfg \in Configs : Enable(e, cfg)
    PROVE  PointsInv'
<1>1. UNCHANGED <<naiveAll, rows, sumAbs, sumNet, pt, windowPoints>>
  BY EnablerFrame DEF Elsewhere, counters
<1>2. naiveAll <= naiveAll' /\ rows <= rows' /\ sumAbs <= sumAbs' /\ sumNet <= sumNet'
  BY <1>1 DEF FullType, TypeOK
<1>3. \A h \in LoopIds : lpc'[h] = lpc[h] \/ lpc'[h] \notin {"commits", "abs", "net"}
  <2>1. lpc' = lpc \/ \E new : lpc' = [lpc EXCEPT ![new] = "begin"]
    BY DEF EnableStep, Switch, LockExporter, StopOld, WaitOld, StartNew, Enable
  <2> QED BY <2>1 DEF FullType, TypeOK
<1> QED BY <1>1, <1>2, <1>3, PointsGrow

-----------------------------------------------------------------------------
(* The aggregates.                                                         *)

\* A step of an observer that changes neither sum.
LEMMA KeysSame ==
    ASSUME FullType, FullType', KeysInv, UNCHANGED <<agg, sumAbs, sumNet, gone, raced>>,
           NEW o \in Observers,
           \A u \in Observers \ {o} : opc'[u] = opc[u] /\ oarg'[u] = oarg[u] /\ omine'[u] = omine[u],
           {opc[o], opc'[o]} \cap {"stampAdmit", "stampCommit"} = {},
           opc'[o] # "idle" => oarg'[o].key \in Keys,
           omine'[o] # 0 => opc'[o] # "idle",
           omine'[o] > 0 => agg[oarg'[o].key].id = omine'[o]
    PROVE  KeysInv'
<1>1. DueAbs' = DueAbs BY DEF DueAbs
<1>2. DueNet' = DueNet BY DEF DueNet
<1>3. SumOf("abs")' = SumOf("abs") /\ SumOf("net")' = SumOf("net") BY DEF SumOf
<1> QED BY <1>1, <1>2, <1>3 DEF KeysInv

\* An observation that begins has added nothing yet.
LEMMA KeysCalled ==
    ASSUME FullType, FullType', KeysInv, NEW o \in Observers,
           \/ \E k \in Keys : ObserveRequest(o, k) \/ \E v \in Vectors : ObserveCommit(o, k, v)
           \/ \E b \in 1..Cardinality(Keys) : ObserveBatch(o, b)
    PROVE  KeysInv'
<1>1. UNCHANGED <<agg, sumAbs, sumNet, gone, raced, omine>> /\ opc[o] = "idle"
  BY DEF ObserveRequest, ObserveCommit, ObserveBatch, Called, evictions, counters
<1>2. \/ UNCHANGED <<opc, oarg>>
      \/ \E k \in Keys, l \in {"admit", "commit"}, a \in Int :
            opc' = [opc EXCEPT ![o] = l] /\ oarg' = [oarg EXCEPT ![o] = [key |-> k, n |-> a]]
  <2>1. CASE \E k \in Keys : ObserveRequest(o, k) BY <2>1 DEF ObserveRequest, ToAgg
  <2>2. ASSUME NEW k \in Keys, NEW v \in Vectors, ObserveCommit(o, k, v)
        PROVE  \/ UNCHANGED <<opc, oarg>>
               \/ \E a \in Int :
                    opc' = [opc EXCEPT ![o] = "commit"] /\ oarg' = [oarg EXCEPT ![o] = [key |-> k, n |-> a]]
    <3>1. (IF v < 0 THEN -v ELSE v) \in Int BY ChurnAssumption
    <3> QED BY <2>2, <3>1 DEF ObserveCommit, ToAgg
  <2>3. CASE \E b \in 1..Cardinality(Keys) : ObserveBatch(o, b) BY <2>3 DEF ObserveBatch
  <2> QED BY <2>1, <2>2, <2>3
<1>3. omine[o] = 0 BY <1>1 DEF KeysInv
<1>4. /\ \A u \in Observers \ {o} : opc'[u] = opc[u] /\ oarg'[u] = oarg[u] /\ omine'[u] = omine[u]
      /\ opc'[o] \in {"idle", "admit", "commit"}
      /\ opc'[o] # "idle" => oarg'[o].key \in Keys
  BY <1>1, <1>2, SMTT(30) DEF FullType
<1> QED BY <1>1, <1>3, <1>4, KeysSame

\* The Load of getAgg changes no sum.
LEMMA KeysGetAgg ==
    ASSUME FullType, FullType', KeysInv, NEW o \in Observers, GetAgg(o)
    PROVE  KeysInv'
<1>1. /\ UNCHANGED <<agg, sumAbs, sumNet, gone, raced, opc, oarg>> /\ opc[o] \in {"admit", "commit"}
      /\ omine' = [omine EXCEPT ![o] = IF agg[oarg[o].key] # NoAgg THEN agg[oarg[o].key].id ELSE -1]
  BY DEF GetAgg, evictions, counters
<1>2. omine \in [Observers -> Int] BY DEF FullType
<1> QED BY <1>1, <1>2, KeysSame DEF KeysInv

\* The aggregate of one key changes.
LEMMA FieldStep ==
    ASSUME agg \in [Keys -> Aggs], agg' \in [Keys -> Aggs], NEW k \in Keys,
           \A j \in Keys \ {k} : agg'[j] = agg[j], NEW field \in {"abs", "net"}
    PROVE  /\ SumOf(field)' = SumOf(field) - agg[k][field] + agg'[k][field]
           /\ SumOf(field) \in Int /\ agg[k][field] \in Nat /\ agg'[k][field] \in Nat
<1> DEFINE f == [j \in Keys |-> agg[j][field]]
           g == [j \in Keys |-> agg'[j][field]]
<1>1. \A a \in Aggs : a["abs"] \in Nat /\ a["net"] \in Nat BY DEF Aggs
<1>2. \A j \in Keys : agg[j][field] \in Nat /\ agg'[j][field] \in Nat BY <1>1
<1>3. \A j \in Keys : f[j] \in Int /\ g[j] \in Int BY <1>2
<1>4. \A j \in Keys \ {k} : f[j] = g[j] OBVIOUS
<1>5. IsFiniteSet(Keys) /\ k \in Keys BY ChurnAssumption
<1>6. f[k] = agg[k][field] /\ g[k] = agg'[k][field] OBVIOUS
<1> HIDE DEF f, g
<1>7. SumOver(g, Keys) = SumOver(f, Keys) - f[k] + g[k] BY ONLY <1>3, <1>4, <1>5, SumUpdate
<1>8. SumOver(f, Keys) \in Int BY ONLY <1>3, <1>5, SumType
<1> QED BY <1>2, <1>6, <1>7, <1>8 DEF SumOf, f, g

\* What one observer has to add changes.
LEMMA DueSteps ==
    ASSUME FullType, FullType', NEW o \in Observers,
           \A u \in Observers \ {o} : opc'[u] = opc[u] /\ oarg'[u] = oarg[u]
    PROVE  /\ SumOver(DueAbs', Observers) = SumOver(DueAbs, Observers) - DueAbs[o] + DueAbs'[o]
           /\ SumOver(DueNet', Observers) = SumOver(DueNet, Observers) - DueNet[o] + DueNet'[o]
           /\ SumOver(DueAbs, Observers) \in Int /\ SumOver(DueNet, Observers) \in Int
<1>0. \A u \in Observers : oarg[u].n \in Nat /\ oarg'[u].n \in Nat BY DEF FullType
<1>1. IsFiniteSet(Observers) /\ o \in Observers BY ChurnAssumption
<1> DEFINE f == DueAbs
           g == DueAbs'
           p == DueNet
           q == DueNet'
<1>2. \A u \in Observers : f[u] \in Int /\ g[u] \in Int BY DEF DueAbs
<1>3. \A u \in Observers : p[u] \in Int /\ q[u] \in Int BY <1>0 DEF DueNet
<1>4. \A u \in Observers \ {o} : f[u] = g[u] BY DEF DueAbs
<1>5. \A u \in Observers \ {o} : p[u] = q[u] BY DEF DueNet
<1> HIDE DEF f, g, p, q
<1>6. SumOver(g, Observers) = SumOver(f, Observers) - f[o] + g[o] BY ONLY <1>1, <1>2, <1>4, SumUpdate
<1>7. SumOver(q, Observers) = SumOver(p, Observers) - p[o] + q[o] BY ONLY <1>1, <1>3, <1>5, SumUpdate
<1>8. SumOver(f, Observers) \in Int BY ONLY <1>1, <1>2, SumType
<1>9. SumOver(p, Observers) \in Int BY ONLY <1>1, <1>3, SumType
<1> QED BY <1>6, <1>7, <1>8, <1>9 DEF f, g, p, q

\* The LoadOrStore of getAgg puts an empty aggregate in the map, or none.
LEMMA KeysStoreAgg ==
    ASSUME FullType, FullType', KeysInv, NEW o \in Observers, StoreAgg(o)
    PROVE  KeysInv'
<1> DEFINE k == oarg[o].key
<1>1. /\ UNCHANGED <<sumAbs, sumNet, gone, raced, opc, oarg>> /\ omine[o] = -1
      /\ agg' = IF agg[k] = NoAgg THEN [agg EXCEPT ![k] = [NoAgg EXCEPT !.id = Fresh]] ELSE agg
      /\ omine' = [omine EXCEPT ![o] = agg'[k].id]
  BY DEF StoreAgg, evictions, counters
<1>2. opc[o] \notin {"idle", "stampAdmit", "stampCommit"} /\ k \in Keys BY <1>1 DEF KeysInv
<1>3. agg \in [Keys -> Aggs] /\ agg' \in [Keys -> Aggs] /\ omine \in [Observers -> Int] BY DEF FullType
<1> HIDE DEF k
<1>4. omine' = [omine EXCEPT ![o] = agg'[k].id] /\ (agg[k] = NoAgg => agg'[k] = [NoAgg EXCEPT !.id = Fresh])
  BY <1>1, <1>2, <1>3
<1>5. \A j \in Keys : agg'[j].abs = agg[j].abs /\ agg'[j].net = agg[j].net
  BY <1>1, <1>2, <1>3 DEF NoAgg
<1>6. SumOf("abs")' = SumOf("abs") /\ SumOf("net")' = SumOf("net") BY <1>5 DEF SumOf
<1>7. DueAbs' = DueAbs /\ DueNet' = DueNet BY <1>1 DEF DueAbs, DueNet
<1>8. \A j \in Keys : agg[j].id > 0 => agg'[j] = agg[j] BY <1>1, <1>2, <1>3 DEF NoAgg
<1>9. \A j \in Keys : agg'[j].id = 0 => agg'[j] = NoAgg
  <2>1. Fresh \in Nat \ {0} BY FreshType
  <2>2. [NoAgg EXCEPT !.id = Fresh].id # 0 BY <2>1 DEF NoAgg
  <2> QED BY <1>1, <1>2, <1>3, <2>2 DEF KeysInv
<1>10. ~raced' => \A u \in Observers : omine'[u] > 0 => agg'[oarg'[u].key].id = omine'[u]
  <2> SUFFICES ASSUME ~raced, NEW u \in Observers, omine'[u] > 0 PROVE agg'[oarg[u].key].id = omine'[u]
    BY <1>1
  <2>1. CASE u = o BY <1>1, <1>3, <1>4, <2>1 DEF k
  <2>2. CASE u # o
    <3>1. omine'[u] = omine[u] BY <1>1, <1>3, <2>2
    <3>2. agg[oarg[u].key].id = omine[u] /\ oarg[u].key \in Keys BY <3>1 DEF KeysInv
    <3> QED BY <1>8, <3>1, <3>2
  <2> QED BY <2>1, <2>2
<1>11. \A u \in Observers : opc'[u] \in {"stampAdmit", "stampCommit"} => omine'[u] > 0
  BY <1>1, <1>2, <1>3 DEF KeysInv
<1>12. \A u \in Observers : omine'[u] # 0 => opc'[u] # "idle" BY <1>1, <1>2, <1>3 DEF KeysInv
<1> QED BY <1>1, <1>6, <1>7, <1>9, <1>10, <1>11, <1>12 DEF KeysInv

\* An observer writes to its aggregate and goes on: what the parts of the invariant that
\* are not sums need.
LEMMA KeysWritten ==
    ASSUME FullType, FullType', KeysInv, NEW o \in Observers, omine[o] > 0, oarg[o].key \in Keys,
           NEW new, new.id = omine[o],
           agg' = IF agg[oarg[o].key].id = omine[o] THEN [agg EXCEPT ![oarg[o].key] = new] ELSE agg
    PROVE  /\ \A j \in Keys : agg'[j].id = agg[j].id
           /\ \A j \in Keys : agg'[j].id = 0 => agg'[j] = NoAgg
           /\ \A j \in Keys \ {oarg[o].key} : agg'[j] = agg[j]
           /\ ~raced => agg'[oarg[o].key] = new /\ agg[oarg[o].key].id = omine[o]
<1>1. agg \in [Keys -> Aggs] BY DEF FullType
<1>2. \A j \in Keys : agg'[j].id = agg[j].id BY <1>1
<1>3. \A j \in Keys : agg'[j].id = 0 => agg'[j] = NoAgg BY <1>1, <1>2 DEF KeysInv
<1>4. ~raced => agg[oarg[o].key].id = omine[o] BY DEF KeysInv
<1> QED BY <1>1, <1>2, <1>3, <1>4

\* An observer adds to the aggregate it holds, if that is still in the map.
LEMMA KeysCountKey ==
    ASSUME FullType, FullType', KeysInv, NEW o \in Observers, CountKey(o)
    PROVE  KeysInv'
<1> DEFINE k == oarg[o].key
           new == IF opc[o] = "admit" THEN [agg[k] EXCEPT !.abs = @ + 1]
                                      ELSE [agg[k] EXCEPT !.net = @ + oarg[o].n]
           amount == oarg[o].n
<1>1. /\ UNCHANGED <<sumAbs, sumNet, gone, raced, oarg, omine>> /\ opc[o] \in {"admit", "commit"}
      /\ agg' = IF agg[k].id = omine[o] THEN [agg EXCEPT ![k] = new] ELSE agg
      /\ opc' = [opc EXCEPT ![o] = IF @ = "admit" THEN "stampAdmit" ELSE "stampCommit"]
      /\ omine[o] > 0
  BY DEF CountKey, OnAgg, evictions, counters
<1>2. /\ k \in Keys /\ agg[k] \in Aggs /\ amount \in Nat
      /\ agg \in [Keys -> Aggs] /\ agg' \in [Keys -> Aggs] /\ opc \in [Observers -> Recording \cup {"idle"}]
  BY <1>1 DEF KeysInv, FullType
<1>3. /\ new.id = agg[k].id
      /\ new["abs"] = agg[k]["abs"] + (IF opc[o] = "admit" THEN 1 ELSE 0)
      /\ new["net"] = agg[k]["net"] + (IF opc[o] = "admit" THEN 0 ELSE amount)
  BY <1>2 DEF Aggs
<1> HIDE DEF new
<1>4. /\ \A j \in Keys : agg'[j].id = agg[j].id
      /\ \A j \in Keys : agg'[j].id = 0 => agg'[j] = NoAgg
      /\ \A j \in Keys \ {k} : agg'[j] = agg[j]
      /\ ~raced => agg'[k] = new
  <2>1. CASE agg[k].id = omine[o] BY <1>1, <1>2, <1>3, <2>1, KeysWritten
  <2>2. CASE agg[k].id # omine[o] BY <1>1, <1>2, <2>2 DEF KeysInv
  <2> QED BY <2>1, <2>2
<1>5. /\ \A u \in Observers \ {o} : opc'[u] = opc[u] /\ oarg'[u] = oarg[u]
      /\ opc'[o] = IF opc[o] = "admit" THEN "stampAdmit" ELSE "stampCommit"
  BY <1>1, <1>2
<1>6. /\ DueAbs[o] = 0 /\ DueAbs'[o] = IF opc[o] = "admit" THEN 1 ELSE 0
  BY <1>1, <1>5 DEF DueAbs
<1>7. /\ DueNet[o] = 0 /\ DueNet'[o] = IF opc[o] = "admit" THEN 0 ELSE amount
  BY <1>1, <1>5 DEF DueNet
<1>8. ASSUME ~raced
      PROVE  /\ SumOf("abs")' + gone'.abs = sumAbs' + SumOver(DueAbs', Observers)
             /\ SumOf("net")' + gone'.net = sumNet' + SumOver(DueNet', Observers)
  <2>1. /\ SumOf("abs")' = SumOf("abs") - agg[k]["abs"] + new["abs"]
        /\ SumOf("abs") \in Int /\ agg[k]["abs"] \in Nat
    BY <1>2, <1>4, <1>8, FieldStep
  <2>2. /\ SumOf("net")' = SumOf("net") - agg[k]["net"] + new["net"]
        /\ SumOf("net") \in Int /\ agg[k]["net"] \in Nat
    BY <1>2, <1>4, <1>8, FieldStep
  <2>3. /\ SumOver(DueAbs', Observers) = SumOver(DueAbs, Observers) - DueAbs[o] + DueAbs'[o]
        /\ SumOver(DueNet', Observers) = SumOver(DueNet, Observers) - DueNet[o] + DueNet'[o]
        /\ SumOver(DueAbs, Observers) \in Int /\ SumOver(DueNet, Observers) \in Int
    BY <1>5, DueSteps
  <2>4. /\ SumOf("abs") + gone.abs = sumAbs + SumOver(DueAbs, Observers)
        /\ SumOf("net") + gone.net = sumNet + SumOver(DueNet, Observers)
    BY <1>8 DEF KeysInv
  <2>5. gone.abs \in Nat /\ gone.net \in Nat /\ sumAbs \in Nat /\ sumNet \in Nat BY DEF FullType, TypeOK
  <2>6. SumOf("abs")' + gone'.abs = sumAbs' + SumOver(DueAbs', Observers)
    BY <1>1, <1>3, <1>6, <2>1, <2>3, <2>4, <2>5
  <2>7. SumOf("net")' + gone'.net = sumNet' + SumOver(DueNet', Observers)
    BY <1>1, <1>2, <1>3, <1>7, <2>2, <2>3, <2>4, <2>5
  <2> QED BY <2>6, <2>7
<1>9. ~raced => \A u \in Observers : omine[u] > 0 => agg'[oarg[u].key].id = omine[u]
  BY <1>4 DEF KeysInv
<1>10. \A u \in Observers : opc'[u] # "idle" => opc[u] # "idle" BY <1>1, <1>5
<1>11. \A u \in Observers : opc[u] # "idle" => opc'[u] # "idle" BY <1>1, <1>5
<1>12. \A u \in Observers : opc'[u] \in {"stampAdmit", "stampCommit"} => omine[u] > 0
  BY <1>1, <1>5 DEF KeysInv
<1> QED BY <1>1, <1>4, <1>8, <1>9, <1>10, <1>11, <1>12 DEF KeysInv

\* The time stamp, and the addition to the global sum, end an observation.
LEMMA KeysStamp ==
    ASSUME FullType, FullType', KeysInv, NEW o \in Observers, Stamp(o)
    PROVE  KeysInv'
<1> DEFINE k == oarg[o].key
           new == [agg[k] EXCEPT !.stamped = TRUE]
           amount == oarg[o].n
<1>1. /\ UNCHANGED <<gone, raced>> /\ opc[o] \in {"stampAdmit", "stampCommit"}
      /\ agg' = IF agg[k].id = omine[o] THEN [agg EXCEPT ![k] = new] ELSE agg
      /\ opc' = [opc EXCEPT ![o] = "idle"] /\ oarg' = [oarg EXCEPT ![o] = NoArg]
      /\ omine' = [omine EXCEPT ![o] = 0]
      /\ sumAbs' = sumAbs + (IF opc[o] = "stampAdmit" THEN 1 ELSE 0)
      /\ sumNet' = sumNet + (IF opc[o] = "stampAdmit" THEN 0 ELSE amount)
  <2>1. sumAbs \in Nat /\ sumNet \in Nat BY DEF FullType, TypeOK
  <2> QED BY <2>1 DEF Stamp, OnAgg, evictions
<1>2. /\ k \in Keys /\ agg[k] \in Aggs /\ amount \in Nat /\ omine[o] > 0
      /\ agg \in [Keys -> Aggs] /\ agg' \in [Keys -> Aggs] /\ opc \in [Observers -> Recording \cup {"idle"}]
      /\ omine \in [Observers -> Int]
  BY <1>1 DEF KeysInv, FullType
<1>3. new.id = agg[k].id /\ new["abs"] = agg[k]["abs"] /\ new["net"] = agg[k]["net"]
  BY <1>2 DEF Aggs
<1> HIDE DEF new
<1>4. /\ \A j \in Keys : agg'[j].id = agg[j].id
      /\ \A j \in Keys : agg'[j].id = 0 => agg'[j] = NoAgg
      /\ \A j \in Keys \ {k} : agg'[j] = agg[j]
      /\ ~raced => agg'[k] = new
  <2>1. CASE agg[k].id = omine[o] BY <1>1, <1>2, <1>3, <2>1, KeysWritten
  <2>2. CASE agg[k].id # omine[o] BY <1>1, <1>2, <2>2 DEF KeysInv
  <2> QED BY <2>1, <2>2
<1>5. /\ \A u \in Observers \ {o} : opc'[u] = opc[u] /\ oarg'[u] = oarg[u] /\ omine'[u] = omine[u]
      /\ opc'[o] = "idle" /\ omine'[o] = 0
  BY <1>1, <1>2 DEF FullType
<1>6. /\ DueAbs'[o] = 0 /\ DueAbs[o] = IF opc[o] = "stampAdmit" THEN 1 ELSE 0
  BY <1>1, <1>5 DEF DueAbs
<1>7. /\ DueNet'[o] = 0 /\ DueNet[o] = IF opc[o] = "stampAdmit" THEN 0 ELSE amount
  BY <1>1, <1>5 DEF DueNet
<1>8. ASSUME ~raced
      PROVE  /\ SumOf("abs")' + gone'.abs = sumAbs' + SumOver(DueAbs', Observers)
             /\ SumOf("net")' + gone'.net = sumNet' + SumOver(DueNet', Observers)
  <2>1. /\ SumOf("abs")' = SumOf("abs") - agg[k]["abs"] + new["abs"]
        /\ SumOf("abs") \in Int /\ agg[k]["abs"] \in Nat
    BY <1>2, <1>4, <1>8, FieldStep
  <2>2. /\ SumOf("net")' = SumOf("net") - agg[k]["net"] + new["net"]
        /\ SumOf("net") \in Int /\ agg[k]["net"] \in Nat
    BY <1>2, <1>4, <1>8, FieldStep
  <2>3. /\ SumOver(DueAbs', Observers) = SumOver(DueAbs, Observers) - DueAbs[o] + DueAbs'[o]
        /\ SumOver(DueNet', Observers) = SumOver(DueNet, Observers) - DueNet[o] + DueNet'[o]
        /\ SumOver(DueAbs, Observers) \in Int /\ SumOver(DueNet, Observers) \in Int
    BY <1>5, DueSteps
  <2>4. /\ SumOf("abs") + gone.abs = sumAbs + SumOver(DueAbs, Observers)
        /\ SumOf("net") + gone.net = sumNet + SumOver(DueNet, Observers)
    BY <1>8 DEF KeysInv
  <2>5. gone.abs \in Nat /\ gone.net \in Nat /\ sumAbs \in Nat /\ sumNet \in Nat BY DEF FullType, TypeOK
  <2>6. SumOf("abs")' + gone'.abs = sumAbs' + SumOver(DueAbs', Observers)
    BY <1>1, <1>3, <1>6, <2>1, <2>3, <2>4, <2>5
  <2>7. SumOf("net")' + gone'.net = sumNet' + SumOver(DueNet', Observers)
    BY <1>1, <1>2, <1>3, <1>7, <2>2, <2>3, <2>4, <2>5
  <2> QED BY <2>6, <2>7
<1>9. ~raced => \A u \in Observers : omine'[u] > 0 => agg'[oarg'[u].key].id = omine'[u]
  <2> SUFFICES ASSUME ~raced, NEW u \in Observers, omine'[u] > 0 PROVE agg'[oarg'[u].key].id = omine'[u]
    OBVIOUS
  <2>1. u # o BY <1>5
  <2>2. oarg'[u] = oarg[u] /\ omine'[u] = omine[u] BY <1>5, <2>1
  <2>3. oarg[u].key \in Keys /\ agg[oarg[u].key].id = omine[u] BY <2>2 DEF KeysInv
  <2> QED BY <1>4, <2>2, <2>3
<1>10. \A u \in Observers : opc'[u] # "idle" => oarg'[u].key \in Keys BY <1>5 DEF KeysInv
<1>11. \A u \in Observers : omine'[u] # 0 => opc'[u] # "idle" BY <1>5 DEF KeysInv
<1>12. \A u \in Observers : opc'[u] \in {"stampAdmit", "stampCommit"} => omine'[u] > 0
  BY <1>5 DEF KeysInv
<1> QED BY <1>1, <1>4, <1>8, <1>9, <1>10, <1>11, <1>12 DEF KeysInv

\* The exporter deletes an idle aggregate: what it had moves to `gone`.
LEMMA KeysVisit ==
    ASSUME FullType, FullType', KeysInv, NEW g \in LoopIds, NEW k \in Keys, Visit(g, k)
    PROVE  KeysInv'
<1>1. UNCHANGED <<sumAbs, sumNet, opc, oarg, omine>> BY DEF Visit, NotLoops, counters, observers
<1>2. DueAbs' = DueAbs /\ DueNet' = DueNet BY <1>1 DEF DueAbs, DueNet
<1>3. CASE UNCHANGED <<agg, evictions>>
  <2>1. SumOf("abs")' = SumOf("abs") /\ SumOf("net")' = SumOf("net") BY <1>3 DEF SumOf
  <2> QED BY <1>1, <1>2, <1>3, <2>1 DEF KeysInv, evictions
<1>4. CASE ~UNCHANGED <<agg, evictions>>
  <2>1. /\ agg[k].stamped /\ agg' = [agg EXCEPT ![k] = NoAgg]
        /\ gone' = [abs |-> gone.abs + agg[k].abs, net |-> gone.net + agg[k].net]
        /\ raced' = (raced \/ \E o \in Observers : omine[o] = agg[k].id)
    BY <1>4 DEF Visit
  <2>2. agg \in [Keys -> Aggs] /\ agg' \in [Keys -> Aggs] BY DEF FullType
  <2>3. agg'[k] = NoAgg /\ \A j \in Keys \ {k} : agg'[j] = agg[j] BY <2>1, <2>2
  <2>4. \A j \in Keys : agg'[j].id = 0 => agg'[j] = NoAgg BY <2>3 DEF KeysInv
  <2>5. ASSUME ~raced'
        PROVE  /\ \A o \in Observers : omine[o] > 0 => agg'[oarg[o].key].id = omine[o]
               /\ SumOf("abs")' + gone'.abs = sumAbs + SumOver(DueAbs, Observers)
               /\ SumOf("net")' + gone'.net = sumNet + SumOver(DueNet, Observers)
    <3>1. ~raced /\ \A o \in Observers : omine[o] # agg[k].id BY <2>1, <2>5
    <3>2. ASSUME NEW o \in Observers, omine[o] > 0 PROVE agg'[oarg[o].key].id = omine[o]
      <4>1. agg[oarg[o].key].id = omine[o] /\ oarg[o].key \in Keys BY <3>1, <3>2 DEF KeysInv
      <4>2. oarg[o].key # k BY <3>1, <4>1
      <4> QED BY <2>3, <4>1, <4>2
    <3>3. /\ SumOf("abs")' = SumOf("abs") - agg[k]["abs"] + NoAgg["abs"]
          /\ SumOf("abs") \in Int /\ agg[k]["abs"] \in Nat
      BY <2>2, <2>3, FieldStep
    <3>4. /\ SumOf("net")' = SumOf("net") - agg[k]["net"] + NoAgg["net"]
          /\ SumOf("net") \in Int /\ agg[k]["net"] \in Nat
      BY <2>2, <2>3, FieldStep
    <3>5. NoAgg["abs"] = 0 /\ NoAgg["net"] = 0 BY DEF NoAgg
    <3>6. gone.abs \in Nat /\ gone.net \in Nat BY DEF FullType
    <3>7. gone'.abs = gone.abs + agg[k].abs /\ gone'.net = gone.net + agg[k].net BY <2>1
    <3>8. /\ SumOf("abs") + gone.abs = sumAbs + SumOver(DueAbs, Observers)
          /\ SumOf("net") + gone.net = sumNet + SumOver(DueNet, Observers)
      BY <3>1 DEF KeysInv
    <3>9. SumOf("abs")' + gone'.abs = SumOf("abs") + gone.abs BY <3>3, <3>5, <3>6, <3>7
    <3>10. SumOf("net")' + gone'.net = SumOf("net") + gone.net BY <3>4, <3>5, <3>6, <3>7
    <3> QED BY <3>2, <3>8, <3>9, <3>10
  <2> QED BY <1>1, <1>2, <2>4, <2>5 DEF KeysInv
<1> QED BY <1>3, <1>4

\* A step that has nothing to do with aggregates.
LEMMA KeysStay ==
    ASSUME KeysInv, UNCHANGED <<agg, sumAbs, sumNet, opc, oarg, omine, gone, raced>>
    PROVE  KeysInv'
<1>1. DueAbs' = DueAbs /\ DueNet' = DueNet BY DEF DueAbs, DueNet
<1>2. SumOf("abs")' = SumOf("abs") /\ SumOf("net")' = SumOf("net") BY DEF SumOf
<1> QED BY <1>1, <1>2 DEF KeysInv

-----------------------------------------------------------------------------
(* The inductive invariant holds.                                          *)

\* The invariant holds at the start.
LEMMA ChurnInvInit == Init => ChurnInv
<1> SUFFICES ASSUME Init PROVE ChurnInv OBVIOUS
<1>1. FullType BY ChurnTypeInit
<1>2. MadeInv
  <2>1. Busy = {} BY DEF Init, Busy
  <2>2. Cardinality(Busy) = 0 BY <2>1, FS_EmptySet
  <2>3. 0 + Cardinality(Busy) <= enables /\ enables <= MaxEnables BY <2>2, ChurnAssumption DEF Init
  <2>4. \A g \in LoopIds : lpc[g] # "none" <=> g <= 0 BY ChurnAssumption DEF Init, LoopIds
  <2> QED BY <2>3, <2>4 DEF MadeInv
<1>3. MutexInv BY ChurnAssumption DEF Init, MutexInv, Inside, Asks, Off
<1>4. PointsInv BY DEF Init, PointsInv
<1>5. KeysInv
  <2>1. \A k \in Keys : agg[k] = NoAgg BY DEF Init
  <2>2. \A o \in Observers : opc[o] = "idle" /\ omine[o] = 0 BY DEF Init
  <2> DEFINE f == [k \in Keys |-> agg[k]["abs"]]
             g == [k \in Keys |-> agg[k]["net"]]
  <2>3. \A k \in Keys : f[k] = 0 /\ g[k] = 0 BY <2>1 DEF NoAgg
  <2> HIDE DEF f, g
  <2>4. SumOver(f, Keys) = 0 /\ SumOver(g, Keys) = 0 BY <2>3, ChurnAssumption, SumZero
  <2>5. \A o \in Observers : DueAbs[o] = 0 BY <2>2 DEF DueAbs
  <2>6. \A o \in Observers : DueNet[o] = 0 BY <2>2 DEF DueNet
  <2>7. SumOver(DueAbs, Observers) = 0 /\ SumOver(DueNet, Observers) = 0
    BY <2>5, <2>6, ChurnAssumption, SumZero
  <2> QED BY <2>1, <2>2, <2>4, <2>7 DEF KeysInv, SumOf, Init, f, g
<1> QED BY <1>1, <1>2, <1>3, <1>4, <1>5 DEF ChurnInv

\* Every step keeps the invariant.
LEMMA ChurnInvNext == ChurnInv /\ [Next]_vars => ChurnInv'
<1> SUFFICES ASSUME ChurnInv, [Next]_vars PROVE ChurnInv' OBVIOUS
<1>0. FullType /\ MadeInv /\ MutexInv /\ PointsInv /\ KeysInv BY DEF ChurnInv
<1>1. CASE UNCHANGED vars
  <2>1. UNCHANGED <<flags, counters, agg, mu, stop, observers, enablers, loops, panicked, evictions>>
    BY <1>1 DEF vars
  <2>2. UNCHANGED <<threshold, modEnabled, currCfg, naiveAll, rows, sumAbs, sumNet, agg, opc, oarg, omine,
                    epc, ecfg, enables, lpc, closed, todo, pt, windowPoints, gone, raced, mu, stop>>
    BY <2>1 DEF flags, counters, observers, enablers, loops, evictions
  <2>3. FullType' BY <1>0, <2>2 DEF FullType, TypeOK
  <2>4. MadeInv' /\ MutexInv' BY <1>0, <2>1, ObserverControl
  <2>5. KeysInv' BY <1>0, <2>2, KeysStay
  <2>6. naiveAll <= naiveAll' /\ rows <= rows' /\ sumAbs <= sumAbs' /\ sumNet <= sumNet'
    BY <1>0, <2>2 DEF FullType, TypeOK
  <2>7. PointsInv' BY <1>0, <2>2, <2>3, <2>6, PointsGrow
  <2> QED BY <2>3, <2>4, <2>5, <2>7 DEF ChurnInv
<1>2. ASSUME NEW o \in Observers,
             \/ ObserverStep(o)
             \/ \E k \in Keys : ObserveRequest(o, k) \/ \E v \in Vectors : ObserveCommit(o, k, v)
             \/ \E b \in 1..Cardinality(Keys) : ObserveBatch(o, b)
      PROVE  ChurnInv'
  <2>1. UNCHANGED <<flags, mu, stop, enablers, loops, panicked, evictions>> BY <1>2, ObserverFrame
  <2>2. /\ naiveAll' \in Nat /\ rows' \in Nat /\ sumAbs' \in Nat /\ sumNet' \in Nat
        /\ agg' \in [Keys -> Aggs]
        /\ opc' \in [Observers -> Recording \cup {"idle"}]
        /\ oarg' \in [Observers -> [key : Keys \cup {NoArg.key}, n : Nat]]
        /\ omine' \in [Observers -> Int]
    BY <1>0, <1>2, ObserverType
  <2>3. UNCHANGED <<threshold, modEnabled, currCfg, epc, ecfg, enables, lpc, closed, todo, pt, windowPoints,
                    gone, raced, mu, stop>>
    BY <2>1 DEF flags, enablers, loops, evictions
  <2>4. FullType' BY <1>0, <2>2, <2>3 DEF FullType, TypeOK
  <2>5. MadeInv' /\ MutexInv' BY <1>0, <2>1, ObserverControl
  <2>6. naiveAll <= naiveAll' /\ rows <= rows' /\ sumAbs <= sumAbs' /\ sumNet <= sumNet'
    BY <1>0, <1>2, CountersGrow
  <2>7. PointsInv' BY <1>0, <2>3, <2>4, <2>6, PointsGrow
  <2>8. KeysInv'
    BY <1>0, <1>2, <2>4, KeysCalled, KeysGetAgg, KeysStoreAgg, KeysCountKey, KeysStamp DEF ObserverStep
  <2> QED BY <2>4, <2>5, <2>7, <2>8 DEF ChurnInv
<1>3. ASSUME NEW e \in Enablers, EnableStep(e) \/ \E cfg \in Configs : Enable(e, cfg) PROVE ChurnInv'
  <2>1. FullType' BY <1>0, <1>3, EnablerType
  <2>2. MadeInv' BY <1>0, <1>3, EnablerMade
  <2>3. MutexInv' BY <1>0, <1>3, EnablerMutex
  <2>4. PointsInv' BY <1>0, <1>3, <2>1, EnablerPoints
  <2>5. UNCHANGED <<agg, sumAbs, sumNet, opc, oarg, omine, gone, raced>>
    BY <1>3, EnablerFrame DEF Elsewhere, counters, observers, evictions
  <2>6. KeysInv' BY <1>0, <2>5, KeysStay
  <2> QED BY <2>1, <2>2, <2>3, <2>4, <2>6 DEF ChurnInv
<1>4. ASSUME NEW g \in LoopIds, LoopStep(g) PROVE ChurnInv'
  <2>1. FullType' BY <1>0, <1>4, LoopType
  <2>2. MadeInv' BY <1>0, <1>4, LoopMade
  <2>3. MutexInv' BY <1>0, <1>4, LoopMutex
  <2>4. PointsInv' BY <1>0, <1>4, <2>1, LoopPoints
  <2>5. KeysInv'
    <3>1. CASE \E k \in Keys : Visit(g, k) BY <1>0, <2>1, <3>1, KeysVisit
    <3>2. CASE ~\E k \in Keys : Visit(g, k)
      <4>1. UNCHANGED <<agg, sumAbs, sumNet, opc, oarg, omine, gone, raced>>
        BY <1>4, <3>2 DEF LoopStep, LoopBegin, Tick, LoopStop, Publish, Load, AddPoint, NotLoops, counters,
                          observers, evictions
      <4> QED BY <1>0, <4>1, KeysStay
    <3> QED BY <3>1, <3>2
  <2> QED BY <2>1, <2>2, <2>3, <2>4, <2>5 DEF ChurnInv
<1> QED BY <1>1, <1>2, <1>3, <1>4 DEF Next

\* The invariant holds throughout.
LEMMA ChurnInvariant == Spec => []ChurnInv
BY ChurnInvInit, ChurnInvNext, PTL DEF Spec

-----------------------------------------------------------------------------
(* The properties.                                                         *)

\* Every variable of the telemetry keeps its type: Enable always finds a loop to start,
\* and the window keeps to its bound.
THEOREM ChurnTypeCorrect == Spec => []TypeOK
<1>1. ChurnInv => TypeOK BY DEF ChurnInv, FullType
<1> QED BY <1>1, ChurnInvariant, PTL

\* Between calls of Enable (startOrUpdateExporter under exporterMu) the loop that runs is
\* the one that the latest configuration asks for, and there is no other.
THEOREM OneLoopAsConfigured == Spec => []LoopMatchesConfig
<1>1. ChurnInv => LoopMatchesConfig
  <2> SUFFICES ASSUME FullType, MutexInv, mu = "free"
               PROVE  Running = IF currCfg.enabled /\ currCfg.interval THEN {stop} ELSE {}
    BY DEF ChurnInv, LoopMatchesConfig
  <2>1. \A e \in Enablers : ~Inside(e) BY ChurnAssumption DEF MutexInv
  <2>2. stop # 0 => ~closed[stop] BY <2>1 DEF MutexInv, Inside
  <2>3. stop \in LoopIds \cup {0} /\ 0 \notin LoopIds BY DEF FullType, TypeOK, LoopIds
  <2>4. CASE Asks(currCfg)
    <3>1. stop # 0 /\ stop \in LoopIds BY <2>3, <2>4 DEF MutexInv
    <3>2. lpc[stop] \notin {"none", "done"} BY <2>2, <3>1 DEF MutexInv
    <3> QED BY <2>4, <3>1, <3>2 DEF MutexInv, Running, Asks
  <2>5. CASE ~Asks(currCfg)
    <3>1. stop = 0 BY <2>5 DEF MutexInv
    <3> QED BY <2>3, <2>5, <3>1 DEF MutexInv, Running, Asks
  <2> QED BY <2>4, <2>5
<1> QED BY <1>1, ChurnInvariant, PTL

\* The KPIs that publishSnapshot derives from the ends of its window are never negative:
\* the points grow although their counters are loaded one by one, loops are replaced and
\* old points go.
THEOREM KPIsGrow == Spec => []KPIsNonNegative
<1>1. ChurnInv => KPIsNonNegative
  <2> SUFFICES ASSUME FullType, PointsInv, NEW field \in DOMAIN NoPoint PROVE KPI(field) >= 0
    BY DEF ChurnInv, KPIsNonNegative
  <2> DEFINE L == Len(windowPoints)
  <2>1. CASE windowPoints = <<>> BY <2>1 DEF KPI
  <2>2. CASE windowPoints # <<>>
    <3>1. windowPoints \in Seq(Points) BY DEF FullType
    <3>2. L \in 1..L /\ 1 \in 1..L /\ 1 <= L BY <2>2, <3>1
    <3>3. windowPoints[1][field] <= windowPoints[L][field] BY <3>2 DEF PointsInv
    <3>4. windowPoints[1] \in Points /\ windowPoints[L] \in Points BY <3>1, <3>2
    <3>5. field \in Fields BY PointFields
    <3>6. \A p \in Points : p["naive"] \in Nat /\ p["commits"] \in Nat /\ p["abs"] \in Nat /\ p["net"] \in Nat
      BY DEF Points
    <3>7. windowPoints[1][field] \in Nat /\ windowPoints[L][field] \in Nat BY <3>4, <3>5, <3>6 DEF Fields
    <3>8. KPI(field) = windowPoints[L][field] - windowPoints[1][field] BY <2>2 DEF KPI
    <3> QED BY <3>3, <3>7, <3>8
  <2> QED BY <2>1, <2>2
<1> QED BY <1>1, ChurnInvariant, PTL

\* As long as no eviction has met an observer, the aggregates of getAgg and what evicted
\* ones had counted add up to the global sums whenever nobody is recording.
THEOREM AggregatesAddUp == Spec => []KeysAddUp
<1>1. ChurnInv => KeysAddUp
  <2> SUFFICES ASSUME FullType, KeysInv, \A o \in Observers : opc[o] = "idle", ~raced
               PROVE  SumOf("abs") + gone.abs = sumAbs /\ SumOf("net") + gone.net = sumNet
    BY DEF ChurnInv, KeysAddUp
  <2>1. \A o \in Observers : DueAbs[o] = 0 BY DEF DueAbs
  <2>2. \A o \in Observers : DueNet[o] = 0 BY DEF DueNet
  <2>3. SumOver(DueAbs, Observers) = 0 /\ SumOver(DueNet, Observers) = 0
    BY <2>1, <2>2, ChurnAssumption, SumZero
  <2>4. sumAbs \in Nat /\ sumNet \in Nat BY DEF FullType, TypeOK
  <2> QED BY <2>3, <2>4 DEF KeysInv
<1> QED BY <1>1, ChurnInvariant, PTL
=============================================================================
