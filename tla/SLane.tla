------------------------------- MODULE SLane -------------------------------
(***************************************************************************)
(* plugin/tfd/sservice.go behind the facade of pipeline.go: producers send *)
(* Scalar envelopes through a bounded channel to one goroutine, which      *)
(* merges them in its shard (SShard) and hands batches to the sink: at     *)
(* every tick, when a caller of Flush asks for it, and when it stops.      *)
(***************************************************************************)
EXTENDS SShard, Sequences

CONSTANTS
    Producers,        \* goroutines that call Pipeline.Handle
    Flushers,         \* goroutines that call FlushS
    Buffer            \* capacity of the channel `in`

ASSUME LaneAssumption == Buffer \in Nat \ {0} /\ "none" \notin Flushers

VARIABLES
    in,            \* the channel of envelopes
    reqs,          \* flushReqCh, of capacity 1: who asks for a flush
    stopping,      \* stopCh is closed
    quiet,         \* Stop was called after the callers had gone for good
    spc,           \* service: select, drain, reply, done
    serving,       \* drain, reply: the Flush call being served, or NoCall for Stop
    ppc, penv,     \* producers: idle, or blocked in Ingest with an envelope
    fpc, asked,    \* flushers: idle, sending, waiting; Len(alog) at the call, or -1
    alog,          \* history: the envelopes the channel took
    handed         \* history: how many of them the sink has

laneVars == <<in, reqs, stopping, quiet, spc, serving>>
callerVars == <<ppc, penv, fpc, asked, alog>>
vars == <<shardVars, laneVars, callerVars, handed>>

NoCall == "none"

Init ==
    /\ ShardInit
    /\ in = <<>> /\ reqs = <<>>
    /\ stopping = FALSE /\ quiet = FALSE
    /\ spc = "select" /\ serving = NoCall
    /\ ppc = [p \in Producers |-> "idle"]
    /\ penv = [p \in Producers |-> NoEnv]
    /\ fpc = [f \in Flushers |-> "idle"]
    /\ asked = [f \in Flushers |-> -1]
    /\ alog = <<>> /\ handed = 0

CallersMayCall == ~quiet

-----------------------------------------------------------------------------
(* Callers.                                                                *)

Accept(env) ==
    /\ in' = Append(in, env)
    /\ alog' = Append(alog, env)

\* Faulty variant: the capacity of the channel is not respected.
Handle_Unbounded(p) == \E c \in Cells, d \in Deltas, q \in SeqEnds :
    /\ ppc[p] = "idle" /\ CallersMayCall /\ sent < MaxEnvelopes
    /\ sent' = sent + 1
    /\ Accept([cell |-> c, delta |-> d, seq |-> q])
    /\ UNCHANGED <<table, reqs, stopping, quiet, spc, serving, ppc, penv, fpc, asked, handed>>

\* Faulty variant: the result of TryIngest is ignored.
Handle_Drops(p) == \E c \in Cells, d \in Deltas, q \in SeqEnds :
    LET env == [cell |-> c, delta |-> d, seq |-> q]
    IN /\ ppc[p] = "idle" /\ CallersMayCall /\ sent < MaxEnvelopes
       /\ sent' = sent + 1
       /\ IF Len(in) < Buffer
          THEN Accept(env)
          ELSE alog' = Append(alog, env) /\ UNCHANGED in
       /\ UNCHANGED <<table, reqs, stopping, quiet, spc, serving, ppc, penv, fpc, asked, handed>>

\* Handle: TryIngest, and Ingest when the buffer is full.
Handle(p) == \E c \in Cells, d \in Deltas, q \in SeqEnds :
    LET env == [cell |-> c, delta |-> d, seq |-> q]
    IN /\ ppc[p] = "idle" /\ CallersMayCall /\ sent < MaxEnvelopes
       /\ sent' = sent + 1
       /\ IF Len(in) < Buffer
          THEN Accept(env) /\ UNCHANGED <<ppc, penv>>
          ELSE /\ ppc' = [ppc EXCEPT ![p] = "blocked"]
               /\ penv' = [penv EXCEPT ![p] = env]
               /\ UNCHANGED <<in, alog>>
       /\ UNCHANGED <<table, reqs, stopping, quiet, spc, serving, fpc, asked, handed>>

\* The send that Ingest is blocked in.
Unblock(p) ==
    /\ ppc[p] = "blocked"
    /\ Len(in) < Buffer
    /\ Accept(penv[p])
    /\ ppc' = [ppc EXCEPT ![p] = "idle"]
    /\ penv' = [penv EXCEPT ![p] = NoEnv]
    /\ UNCHANGED <<shardVars, reqs, stopping, quiet, spc, serving, fpc, asked, handed>>

CallFlush(f) ==
    /\ fpc[f] = "idle" /\ CallersMayCall
    /\ fpc' = [fpc EXCEPT ![f] = "sending"]
    /\ asked' = [asked EXCEPT ![f] = Len(alog)]
    /\ UNCHANGED <<shardVars, laneVars, ppc, penv, alog, handed>>

\* s.flushReqCh <- done; then the caller waits for done.
SendRequest(f) ==
    /\ fpc[f] = "sending"
    /\ Len(reqs) < 1
    /\ reqs' = Append(reqs, f)
    /\ fpc' = [fpc EXCEPT ![f] = "waiting"]
    /\ UNCHANGED <<shardVars, in, stopping, quiet, spc, serving, ppc, penv, asked, alog, handed>>

\* Stop closes stopCh and waits for doneCh, which run closes last.  The caller may
\* have seen to it that nobody else uses the pipeline any more.
Stop ==
    /\ ~stopping
    /\ stopping' = TRUE
    /\ quiet' \in {FALSE} \cup
          (IF (\A p \in Producers : ppc[p] = "idle") /\ (\A f \in Flushers : fpc[f] = "idle")
           THEN {TRUE} ELSE {})
    /\ UNCHANGED <<shardVars, in, reqs, spc, serving, callerVars, handed>>

-----------------------------------------------------------------------------
(* The service goroutine.                                                  *)

\* SimpleVSA.Compress: one batch per cell, with the sum of the deltas and the
\* greatest SeqEnd; a sum of 0 is dropped.
Compress(B) ==
    LET of(c) == {i \in DOMAIN B : B[i].cell = c}
        sum(c) == SumOver([i \in DOMAIN B |-> B[i].delta], of(c))
    IN [c \in {d \in {B[i].cell : i \in DOMAIN B} : sum(d) # 0} |->
           [cell |-> c, delta |-> sum(c), seq |-> Max({B[i].seq : i \in of(c)})]]

\* The closure flush: FlushAll, Compress, OnSBatches.
FlushToSink ==
    \/ used = 0 /\ UNCHANGED <<table, handed>>
    \/ /\ used # 0
       /\ Emit(Occupied, Compress(Batches(Occupied)))
       /\ used' = 0
       /\ handed' = Len(alog) - Len(in)

Ready == spc \in {"select", "drain"} /\ cur = NoEnv

\* An envelope is received, by the select or by one of the two drain loops.
Receive ==
    /\ Ready
    /\ in # <<>>
    /\ Ingest(Head(in))
    /\ in' = Tail(in)
    /\ UNCHANGED <<sent, reqs, stopping, quiet, spc, serving, callerVars, handed>>

\* Ingest goes on in the shard.
IngestStep ==
    /\ Probe \/ Place
    /\ UNCHANGED <<sent, laneVars, callerVars, handed>>

\* Faulty variant: the tick flushes a full table only.
Tick_CountOnly ==
    /\ Ready /\ spc = "select"
    /\ used >= NumSlots
    /\ FlushToSink
    /\ UNCHANGED <<sent, laneVars, callerVars>>

Tick ==
    /\ Ready /\ spc = "select"
    /\ FlushToSink
    /\ UNCHANGED <<sent, laneVars, callerVars>>

\* Faulty variant: flushes without draining the channel first.
TakeRequest_NoDrain ==
    /\ Ready /\ spc = "select"
    /\ reqs # <<>>
    /\ serving' = Head(reqs)
    /\ reqs' = Tail(reqs)
    /\ FlushToSink
    /\ spc' = "reply"
    /\ UNCHANGED <<sent, in, stopping, quiet, callerVars>>

TakeRequest ==
    /\ Ready /\ spc = "select"
    /\ reqs # <<>>
    /\ serving' = Head(reqs)
    /\ reqs' = Tail(reqs)
    /\ spc' = "drain"
    /\ UNCHANGED <<shardVars, in, stopping, quiet, callerVars, handed>>

TakeStop ==
    /\ Ready /\ spc = "select"
    /\ stopping
    /\ spc' = "drain"
    /\ UNCHANGED <<shardVars, in, reqs, stopping, quiet, serving, callerVars, handed>>

\* The default case of a drain loop: the channel is empty at this moment.
DrainEnd ==
    /\ Ready /\ spc = "drain"
    /\ in = <<>>
    /\ FlushToSink
    /\ spc' = IF serving = NoCall THEN "done" ELSE "reply"
    /\ UNCHANGED <<sent, in, reqs, stopping, quiet, serving, callerVars>>

\* Faulty variant: done is not closed.
Reply_Forgets ==
    /\ spc = "reply"
    /\ serving' = NoCall
    /\ spc' = "select"
    /\ UNCHANGED <<shardVars, in, reqs, stopping, quiet, callerVars, handed>>

\* close(done).
Reply ==
    /\ spc = "reply"
    /\ fpc' = [fpc EXCEPT ![serving] = "idle"]
    /\ asked' = [asked EXCEPT ![serving] = -1]
    /\ serving' = NoCall
    /\ spc' = "select"
    /\ UNCHANGED <<shardVars, in, reqs, stopping, quiet, ppc, penv, alog, handed>>

-----------------------------------------------------------------------------
Service == Receive \/ IngestStep \/ Tick \/ TakeRequest \/ TakeStop \/ DrainEnd \/ Reply

\* After Stop has returned.
Stopped == spc = "done" /\ UNCHANGED vars

Next ==
    \/ \E p \in Producers : Handle(p) \/ Unblock(p)
    \/ \E f \in Flushers : CallFlush(f) \/ SendRequest(f)
    \/ Stop \/ Service \/ Stopped

Spec == Init /\ [][Next]_vars

\* The goroutine runs; select chooses at random between the channels that are
\* ready, so none of them is passed over forever; a channel serves the senders that
\* wait for it in turn.
Fairness ==
    /\ WF_vars(Service) /\ SF_vars(Tick) /\ SF_vars(TakeRequest) /\ SF_vars(TakeStop)
    /\ \A p \in Producers : SF_vars(Unblock(p))
    /\ \A f \in Flushers : SF_vars(SendRequest(f))

LiveSpec == Spec /\ Fairness

-----------------------------------------------------------------------------
\* Every variable keeps its type.
TypeOK ==
    /\ ShardTypeOK
    /\ Len(in) <= Buffer /\ Len(reqs) <= 1
    /\ stopping \in BOOLEAN /\ quiet \in BOOLEAN
    /\ spc \in {"select", "drain", "reply", "done"}
    /\ serving \in Flushers \cup {NoCall}
    /\ ppc \in [Producers -> {"idle", "blocked"}]
    /\ fpc \in [Flushers -> {"idle", "sending", "waiting"}]
    /\ asked \in [Flushers -> -1..Len(alog)]
    /\ handed \in 0..Len(alog)

\* The sum of the deltas that the first n envelopes bring to the cells C.
Brought(n, C) ==
    SumOver([j \in 1..n |-> alog[j].delta], {j \in 1..n : alog[j].cell \in C})

\* What the sink was given is the effect of a prefix of the envelopes the lane has
\* taken: none is lost, doubled or overtaken between channel, shard and sink, and a
\* batch that Compress drops was worth nothing.
SinkHoldsPrefix ==
    \A c \in Cells : SumOver(emitted, Twins(c)) = Brought(handed, Twins(c))

\* The lane as its callers see it.
L == INSTANCE Lane WITH
        Envelopes <- [cell : Cells, delta : Deltas, seq : SeqEnds],
        Callers <- Flushers,
        stopped <- spc = "done"

\* The service implements the lane: in particular FlushS is a barrier, and run ends
\* with everything handed on that the channel had taken.
ImplementsLane == L!LaneSpec

TrafficEnds == <>[][\A p \in Producers : ~Handle(p)]_vars

\* Once the producers send no more, every call of Flush returns, unless it meets a Stop:
\* two requests, a full channel and the ticker cannot keep it waiting.  Producers that
\* go on may: the drain loop ends when it finds the channel empty, and not before.
FlushReturns ==
    TrafficEnds =>
        \A f \in Flushers :
            fpc[f] # "idle" ~> fpc[f] = "idle" \/ (stopping /\ ~quiet)

\* Flush "blocks until it completes", whenever it is called.
FlushAlwaysReturns == \A f \in Flushers : fpc[f] # "idle" ~> fpc[f] = "idle"

\* Once the producers send no more, whatever was taken reaches the sink for good, also
\* when they were blocked on a full buffer and nobody asks for a flush, unless Stop
\* meets a caller.
EverythingReachesSink ==
    TrafficEnds => <>[](handed = Len(alog) \/ (stopping /\ ~quiet))
=============================================================================
