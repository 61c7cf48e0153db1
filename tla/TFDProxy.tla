------------------------------ MODULE TFDProxy ------------------------------
(***************************************************************************)
(* cmd/tfd-proxy and cmd/tfd-sim: goroutines classify requests             *)
(* (classifier.go), send Scalar envelopes into the S-lane (Lane), route    *)
(* Vector envelopes to the actor of their key (vactors.go) and log them;   *)
(* /state flushes everything and replays the logs (reconstruct.go).  The   *)
(* process may crash at any moment and start again on the same files.      *)
(*                                                                         *)
(* Callers are HTTP handlers and, in the simulator, its generator.         *)
(* Envelopes are the requests, each made at most once: of a kind, for a    *)
(* key and a bucket ("" when it names none), with an amount.  Replay adds, *)
(* for both lanes, so that SeqEnd, which only sorts, is left out.          *)
(***************************************************************************)
EXTENDS Lane, FileSinks, SequencesExt, Sums

CONSTANTS
    Programs,       \* which of "proxy" and "sim" is run
    MaxRestarts     \* bound: starts after the first

Kinds == {"consume", "set_limit", "reverse", "scalar", "backdated"}

ASSUME ProxyAssumption ==
    /\ Programs \subseteq {"proxy", "sim"}
    /\ \A e \in Envelopes :
          e.kind \in Kinds /\ e.amount \in Int /\ e.key \in STRING /\ e.bucket \in STRING
    /\ IsFiniteSet(Envelopes) /\ "none" \notin Callers
    /\ MaxRestarts \in Nat

-----------------------------------------------------------------------------
(* Pure parts.                                                             *)

\* The flags that a program sets in the Op of a request.
Flags(e) ==
    CASE e.kind \in {"consume", "scalar"} -> {"IsSingleKey", "IsConservativeDelta"}
      [] e.kind = "set_limit" -> {"IsSingleKey", "ChangesPolicy"}
      [] e.kind = "reverse" -> {"IsSingleKey", "NeedsExternalDecision"}
      [] e.kind = "backdated" -> {"IsBackdated"}

Delta(e) ==
    CASE e.kind = "set_limit" -> 0
      [] e.kind = "reverse" -> -e.amount
      [] OTHER -> e.amount

Forced == {"IsBackdated", "IsCrossKey", "ChangesPolicy", "NeedsExternalDecision", "IsGlobal"}

\* Faulty variant: a /consume is taken for an ordered operation.
Classify_ConsumeIsVector(e) ==
    IF e.key = "" THEN "none"
    ELSE IF Flags(e) \cap Forced # {} \/ e.kind = "consume" THEN "V"
    ELSE "S"

\* The lane of a request, or "none" with ErrNoKey.
Classify(e) ==
    IF e.key = "" THEN "none"
    ELSE IF Flags(e) \cap Forced # {} \/ ~({"IsSingleKey", "IsConservativeDelta"} \subseteq Flags(e))
    THEN "V" ELSE "S"

CellOf(e) == <<e.key, e.bucket>>
Cells == {CellOf(e) : e \in Envelopes}
NewState == [c \in Cells |-> 0]

\* The state after the deltas of a finite function of records with a cell and a delta.
Applied(st, recs) ==
    [c \in Cells |-> st[c] +
        SumOver([j \in DOMAIN recs |-> recs[j].delta], {j \in DOMAIN recs : recs[j].cell = c})]

\* BaselineApply: every request of a set in one log.
BaselineApply(R) ==
    Applied(NewState, [e \in R |-> [cell |-> CellOf(e), delta |-> Delta(e)]])

\* A record of the V log, with, as a history, the requests it stands for.
VRecord(e) == [cell |-> CellOf(e), delta |-> Delta(e), of |-> {e}]

\* What the lane makes of the envelopes that it hands on together: per cell their sum.
Batch(G, c) ==
    LET of == {e \in G : CellOf(e) = c}
    IN [cell |-> c, delta |-> SumOver([e \in of |-> Delta(e)], of), of |-> of]
Batches(G) == {Batch(G, c) : c \in Cells}

-----------------------------------------------------------------------------
VARIABLES
    prog, gen,  \* the program, and the caller that is the generator of the simulator
    phase,      \* up, closing (signal), vclosed, laneDone, exited, crashed
    restarts,
    pc, req,    \* per caller: where it is, the request it serves
    mine,       \* per caller: who made the actor it was routed to
    st,         \* per caller: the State of /state
    actors,     \* VRouter: per key the actor's maker and its queue, or NoActor
    issued,     \* history: requests made
    must,       \* history: acknowledged requests that this life may not lose
    safe,       \* history: those of them that also a crash may not lose
    want,       \* history: per caller, `must` when it called /state
    void,       \* history: requests in batches whose sum was 0, which are not logged
    torn        \* history: a life began on a file that ended in half a line

proc == <<prog, gen, phase, restarts>>
callers == <<pc, req, mine, st, want>>
history == <<issued, must, safe, void, torn>>
vars == <<lane, sinks, proc, callers, actors, history>>

NoRequest == [kind |-> "none", key |-> "", bucket |-> "", amount |-> 0]
NoActor == [maker |-> "none", queue |-> <<>>]
NoActors == [k \in {e.key : e \in Envelopes} |-> NoActor]

Init ==
    /\ LaneInit /\ SinksInit
    /\ prog \in Programs /\ gen \in Callers /\ phase = "up" /\ restarts = 0
    /\ pc = [c \in Callers |-> "idle"]
    /\ req = [c \in Callers |-> NoRequest]
    /\ mine = [c \in Callers |-> "none"]
    /\ st = [c \in Callers |-> NewState]
    /\ want = [c \in Callers |-> {}]
    /\ actors = NoActors
    /\ issued = {} /\ must = {} /\ safe = {} /\ void = {} /\ torn = FALSE

Alive == phase \notin {"exited", "crashed"}

-----------------------------------------------------------------------------
(* Requests.  The server accepts them until the process is gone.           *)

\* The requests that a caller of the program makes.
KindsOf(c) ==
    IF prog = "proxy" THEN {"consume", "set_limit", "reverse"}
    ELSE IF c = gen THEN {"scalar", "backdated"} ELSE {"consume"}

\* A request comes in and is classified: without a key it is refused, a Scalar
\* envelope goes into the lane, a Vector envelope to the router.
Begin(c, e) ==
    /\ Alive /\ pc[c] = "idle"
    /\ e \notin issued /\ e.kind \in KindsOf(c)
    /\ \/ Classify(e) = "none" /\ UNCHANGED <<lane, pc, req, issued>>
       \/ /\ Classify(e) # "none"
          /\ issued' = issued \cup {e}
          /\ req' = [req EXCEPT ![c] = e]
          /\ \/ Classify(e) = "S" /\ Accept(e) /\ pc' = [pc EXCEPT ![c] = "ack"]
             \/ Classify(e) = "V" /\ pc' = [pc EXCEPT ![c] = "route"] /\ UNCHANGED lane
    /\ UNCHANGED <<sinks, proc, mine, st, want, actors, must, safe, void, torn>>

\* Route reads the map.
Route(c) ==
    /\ Alive /\ pc[c] = "route"
    /\ LET a == actors[req[c].key]
       IN IF a = NoActor
          THEN pc' = [pc EXCEPT ![c] = "create"] /\ UNCHANGED mine
          ELSE pc' = [pc EXCEPT ![c] = "enqueue"] /\ mine' = [mine EXCEPT ![c] = a.maker]
    /\ UNCHANGED <<lane, sinks, proc, req, st, want, actors, history>>

\* It had found no actor, and stores a new one, whatever is there by now.
Create(c) ==
    /\ Alive /\ pc[c] = "create"
    /\ actors' = [actors EXCEPT ![req[c].key] = [maker |-> c, queue |-> <<>>]]
    /\ mine' = [mine EXCEPT ![c] = c]
    /\ pc' = [pc EXCEPT ![c] = "enqueue"]
    /\ UNCHANGED <<lane, sinks, proc, req, st, want, history>>

\* Another caller pushes to the same list at the same time.
Contended(c) ==
    \E d \in Callers \ {c} : pc[d] = "enqueue" /\ mine[d] = mine[c] /\ req[d].key = req[c].key

\* Enqueue: the envelope is seen in the map's actor if that is the one it was routed
\* to.  Two pushes at the same time may lose one.
Enqueue(c) ==
    /\ Alive /\ pc[c] = "enqueue"
    /\ LET k == req[c].key
           push == [actors EXCEPT ![k].queue = Append(@, req[c])]
       IN IF actors[k].maker = mine[c]
          THEN actors' \in {push} \cup (IF Contended(c) THEN {actors} ELSE {})
          ELSE UNCHANGED actors
    /\ pc' = [pc EXCEPT ![c] = "append"]
    /\ mine' = [mine EXCEPT ![c] = "none"]
    /\ UNCHANGED <<lane, sinks, proc, req, st, want, history>>

\* persistV: the V log.
AppendV(c) ==
    /\ Alive /\ pc[c] = "append"
    /\ Write("V", <<VRecord(req[c])>>)
    /\ pc' = [pc EXCEPT ![c] = "ack"]
    /\ UNCHANGED <<lane, proc, req, mine, st, want, actors, history>>

\* The answer 202.  After a signal it promises nothing any more.
Ack(c) ==
    /\ Alive /\ pc[c] = "ack"
    /\ must' = IF phase = "up" THEN must \cup {req[c]} ELSE must
    /\ pc' = [pc EXCEPT ![c] = "idle"]
    /\ req' = [req EXCEPT ![c] = NoRequest]
    /\ UNCHANGED <<lane, sinks, proc, mine, st, want, actors, issued, safe, void, torn>>

\* The envelopes up to the nth go to the S log: the batches in any order, the order of
\* their slots in the shard, and none for a sum of 0.
OnSBatches(n) ==
    LET batches == Batches({alog[j] : j \in (handed + 1)..n})
        zero == {b \in batches : b.delta = 0}
    IN /\ \E recs \in SetToSeqs(batches \ zero) :
             IF recs = <<>> THEN UNCHANGED sinks ELSE Write("S", recs)
       /\ void' = void \cup UNION {b.of : b \in zero}

\* The lane's goroutine hands on the first n envelopes.
HandBatches(n) ==
    /\ Alive
    /\ Hand(n)
    /\ OnSBatches(n)
    /\ UNCHANGED <<proc, callers, actors, issued, must, safe, torn>>

-----------------------------------------------------------------------------
(* /state, which only the proxy has.                                       *)

\* pipe.FlushS: the call, and its return.
State(c) ==
    /\ Alive /\ prog = "proxy" /\ pc[c] = "idle"
    /\ FlushBegin(c)
    /\ pc' = [pc EXCEPT ![c] = "flush"]
    /\ want' = [want EXCEPT ![c] = must]
    /\ UNCHANGED <<sinks, proc, req, mine, st, actors, history>>

\* Faulty variant: FlushS asks for a flush and does not wait for it.
StateFlushed_NoWait(c) ==
    /\ Alive /\ pc[c] = "flush"
    /\ asked' = [asked EXCEPT ![c] = -1]
    /\ pc' = [pc EXCEPT ![c] = "flushS"]
    /\ UNCHANGED <<alog, handed, stopped, sinks, proc, req, mine, st, want, actors, history>>

StateFlushed(c) ==
    /\ Alive /\ pc[c] = "flush"
    /\ FlushEnd(c)
    /\ pc' = [pc EXCEPT ![c] = "flushS"]
    /\ UNCHANGED <<sinks, proc, req, mine, st, want, actors, history>>

\* fileSink.Flush, then vSink.Flush.
StateFlushSink(c, from, l, to) ==
    /\ Alive /\ pc[c] = from
    /\ SinkFlush(l)
    /\ pc' = [pc EXCEPT ![c] = to]
    /\ UNCHANGED <<lane, proc, req, mine, st, want, actors, history>>

\* ReadAllSLog, then ReadAllVLog, and Reconstruct.
StateRead(c, from, l, to) ==
    /\ Alive /\ pc[c] = from
    /\ st' = [st EXCEPT ![c] = Applied(@, ReadAll(l))]
    /\ pc' = [pc EXCEPT ![c] = to]
    /\ UNCHANGED <<lane, sinks, proc, req, mine, want, actors, history>>

StateAnswer(c) ==
    /\ Alive /\ pc[c] = "answer"
    /\ safe' = safe \cup want[c]
    /\ pc' = [pc EXCEPT ![c] = "idle"]
    /\ st' = [st EXCEPT ![c] = NewState]
    /\ want' = [want EXCEPT ![c] = {}]
    /\ UNCHANGED <<lane, sinks, proc, req, mine, actors, issued, must, void, torn>>

-----------------------------------------------------------------------------
(* The process.                                                            *)

Phase(from, to) == phase = from /\ phase' = to /\ UNCHANGED <<prog, gen, restarts>>

\* A signal, or the end of the simulator's time.  The server goes on.
Signal == Phase("up", "closing") /\ UNCHANGED <<lane, sinks, callers, actors, history>>

\* The deferred calls, last one first.
CloseV ==
    /\ Phase("closing", "vclosed") /\ SinkClose("V")
    /\ UNCHANGED <<lane, callers, actors, history>>

\* Faulty variant: the S log is closed before the lane has stopped.
StopLane_SinkClosed ==
    /\ Phase("vclosed", "laneDone")
    /\ LaneStop
    /\ UNCHANGED <<sinks, callers, actors, history>>

\* pipe.Stop waits for the last flush of the lane.
StopLane ==
    /\ Phase("vclosed", "laneDone")
    /\ LaneStop
    /\ OnSBatches(Len(alog))
    /\ UNCHANGED <<callers, actors, issued, must, safe, torn>>

\* The process is gone, and with it the lane, the actors and whoever was at work.
MemoryLost ==
    /\ alog' = <<>> /\ handed' = 0 /\ stopped' = FALSE /\ asked' = [c \in Callers |-> -1]
    /\ pc' = [c \in Callers |-> "idle"] /\ req' = [c \in Callers |-> NoRequest]
    /\ mine' = [c \in Callers |-> "none"] /\ st' = [c \in Callers |-> NewState]
    /\ want' = [c \in Callers |-> {}]
    /\ actors' = NoActors

\* The last deferred call; main returns.
CloseS ==
    /\ Phase("laneDone", "exited") /\ SinkClose("S")
    /\ MemoryLost
    /\ UNCHANGED history

Crash ==
    /\ Alive
    /\ phase' = "crashed" /\ UNCHANGED <<prog, gen, restarts>>
    /\ MemoryLost
    /\ buf' = Empty /\ UNCHANGED <<file, closed>>
    /\ must' = safe
    /\ UNCHANGED <<issued, safe, void, torn>>

\* main again, on the same files.
Restart ==
    /\ ~Alive /\ restarts < MaxRestarts
    /\ restarts' = restarts + 1 /\ phase' = "up"
    /\ SinksOpen
    /\ safe' = must
    /\ torn' = (torn \/ \E l \in LaneNames : Torn(l))
    /\ UNCHANGED <<lane, callers, actors, prog, gen, issued, must, void>>

Gone == ~Alive /\ restarts = MaxRestarts /\ UNCHANGED vars

Next ==
    \/ \E c \in Callers :
          \/ \E e \in Envelopes : Begin(c, e)
          \/ Route(c) \/ Create(c) \/ Enqueue(c) \/ AppendV(c) \/ Ack(c)
          \/ State(c) \/ StateFlushed(c)
          \/ StateFlushSink(c, "flushS", "S", "flushV") \/ StateFlushSink(c, "flushV", "V", "readS")
          \/ StateRead(c, "readS", "S", "readV") \/ StateRead(c, "readV", "V", "answer")
          \/ StateAnswer(c)
    \/ \E n \in 1..Len(alog) : HandBatches(n)
    \/ Signal \/ CloseV \/ StopLane \/ CloseS \/ Crash \/ Restart \/ Gone

Spec == Init /\ [][Next]_vars

-----------------------------------------------------------------------------
\* Every variable keeps its type.
TypeOK ==
    /\ SinksTypeOK
    /\ prog \in Programs /\ restarts \in 0..MaxRestarts
    /\ phase \in {"up", "closing", "vclosed", "laneDone", "exited", "crashed"}
    /\ req \in [Callers -> Envelopes \cup {NoRequest}]
    /\ handed \in 0..Len(alog)
    /\ safe \subseteq must /\ must \subseteq issued

\* A state shows every request that was due, others only if they were made, and each
\* of them once.
Shows(state, due) ==
    \E R \in SUBSET (issued \ due) : state = BaselineApply(due \cup R)

\* "Exact reconstruction via /state": an answer of /state is what a single log would
\* give for the requests acknowledged before the call, whichever way they went, in
\* whatever batches they came and whatever was going on meanwhile, and for some of
\* the others.
StateExact == \A c \in Callers : pc[c] = "answer" => Shows(st[c], want[c])

\* The same, unless a life began on a torn file: also for requests of earlier lives
\* that a /state had shown or that an orderly exit had saved.
StateReflectsAcknowledged == ~torn => StateExact

\* What was acknowledged before the signal is in the files when the process ends.
ShutdownKeepsAcknowledged ==
    phase = "exited" /\ ~torn =>
        Shows(Applied(Applied(NewState, ReadAll("S")), ReadAll("V")), must)

\* The lines of a key in the V log, what is still in the buffer included.
VLog == file["V"] \o buf["V"]
LinesOf(k) == {j \in DOMAIN VLog : VLog[j].half = 1 /\ VLog[j].rec.cell[1] = k}

\* A queue is what the lines at some positions say, in the same order.
Mirrors(q, lines) ==
    \E at \in [DOMAIN q -> lines] :
        /\ \A i, j \in DOMAIN q : i < j => at[i] < at[j]
        /\ \A l \in lines : \E i \in DOMAIN q : at[i] = l
        /\ \A i \in DOMAIN q : VLog[at[i]].rec = VRecord(q[i])

\* In the simulator, whose router has no lock, the actor of a key holds what the V log
\* holds for it, in the same order: only the generator makes Vector envelopes.
VQueueIsLog ==
    prog = "sim" /\ restarts = 0 /\ Alive /\ ~closed["V"] /\ (\A c \in Callers : pc[c] # "append") =>
        \A k \in DOMAIN actors : Mirrors(actors[k].queue, LinesOf(k))
=============================================================================
