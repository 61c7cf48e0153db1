------------------------------- MODULE SShard -------------------------------
(***************************************************************************)
(* plugin/tfd/saccumulator.go: the open-addressed table in which one       *)
(* goroutine merges the deltas of Scalar envelopes per (key, bucket), and  *)
(* the two ways to empty it.  One shard; saccumulator_wrap.go sends a cell *)
(* always to the same one.                                                 *)
(***************************************************************************)
EXTENDS Sums

CONSTANTS
    Keys, Buckets,
    Pack,           \* packKeyBucket, from cells to hashes
    NumSlots,       \* 2^orderPow2
    Deltas,         \* what an envelope may add
    SeqEnds,        \* what a caller may stamp an envelope with
    MaxEnvelopes    \* bound: envelopes

Cells == Keys \X Buckets
SlotIds == 0..(NumSlots - 1)

ASSUME ShardAssumption ==
    /\ NumSlots \in Nat \ {0} /\ MaxEnvelopes \in Nat
    /\ IsFiniteSet(Keys) /\ IsFiniteSet(Buckets)     \* 64-bit ids
    /\ Deltas \subseteq Int /\ SeqEnds \subseteq Nat
    \* Cells may share a packed id; none has the 0 of an empty slot.
    /\ Pack \in [Cells -> Nat \ {0}]

NoCell == <<>>
NoEnv == [cell |-> NoCell, delta |-> 0, seq |-> 0]
EmptySlot == [key |-> 0, cell |-> NoCell, sum |-> 0, seq |-> 0]

VARIABLES
    slots,      \* keys, keyIDs, bucketIDs, sums, seqEnds
    used,
    cur, at,    \* the envelope being ingested and the probe's index
    ingested,   \* history: sum of the deltas given to Ingest, per cell
    emitted,    \* history: sum of the NetDeltas handed on, per cell
    ids,        \* history: <<cell, SeqEnd>> of every batch handed on
    stamps,     \* history: how many envelopes came with a packed id and a SeqEnd
    sent        \* envelopes so far

table == <<slots, used, cur, at, ingested, emitted, ids, stamps>>
shardVars == <<table, sent>>

Packed == {Pack[c] : c \in Cells}

TableInit ==
    /\ slots = [s \in SlotIds |-> EmptySlot]
    /\ used = 0
    /\ cur = NoEnv /\ at = 0
    /\ ingested = [c \in Cells |-> 0]
    /\ emitted = [c \in Cells |-> 0]
    /\ ids = {}
    /\ stamps = [t \in Packed \X SeqEnds |-> 0]

\* Ingest begins: the probe starts at the hash.
Ingest(env) ==
    /\ cur = NoEnv
    /\ cur' = env
    /\ at' = Pack[env.cell] % NumSlots
    /\ ingested' = [ingested EXCEPT ![env.cell] = @ + env.delta]
    /\ stamps' = [stamps EXCEPT ![<<Pack[env.cell], env.seq>>] = @ + 1]
    /\ UNCHANGED <<slots, used, emitted, ids>>

\* Faulty variant: the probe steps from even to odd slots and back, and misses half
\* the table.
Probe_Toggles ==
    /\ cur # NoEnv
    /\ slots[at].key \notin {0, Pack[cur.cell]}
    /\ at' = IF at % 2 = 0 THEN at + 1 ELSE at - 1
    /\ UNCHANGED <<slots, used, cur, ingested, emitted, ids, stamps>>

\* Linear probing: somebody else's slot.
Probe ==
    /\ cur # NoEnv
    /\ slots[at].key \notin {0, Pack[cur.cell]}
    /\ at' = (at + 1) % NumSlots
    /\ UNCHANGED <<slots, used, cur, ingested, emitted, ids, stamps>>

\* Faulty variant: the delta replaces the sum.
Merged_Overwrites(slot, env) ==
    [key  |-> Pack[env.cell], cell |-> env.cell, sum  |-> env.delta,
     seq  |-> IF env.seq > slot.seq THEN env.seq ELSE slot.seq]

\* The slot after the envelope is merged into it.  An occupied slot keeps its name,
\* also when another cell with the same packed id comes to it.
Merged(slot, env) ==
    [key  |-> Pack[env.cell],
     cell |-> IF slot.key = 0 THEN env.cell ELSE slot.cell,
     sum  |-> slot.sum + env.delta,
     seq  |-> IF env.seq > slot.seq THEN env.seq ELSE slot.seq]

\* The rest of Ingest.  maybeFlush says whether to flush, and nobody listens.
Place ==
    /\ cur # NoEnv
    /\ slots[at].key \in {0, Pack[cur.cell]}
    /\ slots' = [slots EXCEPT ![at] = Merged(@, cur)]
    /\ used' = IF slots[at].key = 0 THEN used + 1 ELSE used
    /\ cur' = NoEnv /\ at' = 0
    /\ UNCHANGED <<ingested, emitted, ids, stamps>>

\* Faulty variant: seqEnds is not cleared with the rest of the slot.
Cleared_KeepsSeq(S) ==
    [s \in SlotIds |-> IF s \in S THEN [EmptySlot EXCEPT !.seq = slots[s].seq] ELSE slots[s]]

Cleared(S) == [s \in SlotIds |-> IF s \in S THEN EmptySlot ELSE slots[s]]

\* The batches of the slots S, one for each slot.
Batches(S) ==
    [s \in S |-> [cell |-> slots[s].cell, delta |-> slots[s].sum, seq |-> slots[s].seq]]

\* The batches `out`, a family made of the slots S, leave the table.
Emit(S, out) ==
    /\ slots' = Cleared(S)
    /\ emitted' = [c \in Cells |->
          emitted[c] + SumOver([i \in DOMAIN out |-> out[i].delta],
                               {i \in DOMAIN out : out[i].cell = c})]
    /\ ids' = ids \cup {<<out[i].cell, out[i].seq>> : i \in DOMAIN out}
    /\ UNCHANGED <<cur, at, ingested, stamps>>

Occupied == {s \in SlotIds : slots[s].key # 0}

Flush ==
    /\ cur = NoEnv /\ used # 0
    /\ Emit(Occupied, Batches(Occupied))
    /\ used' = 0

FlushKey(k) ==
    /\ cur = NoEnv /\ used # 0
    /\ LET S == {s \in Occupied : slots[s].cell[1] = k}
       IN Emit(S, Batches(S)) /\ used' = used - Cardinality(S)

-----------------------------------------------------------------------------
(* A shard by itself, with any single writer.                              *)

ShardInit == TableInit /\ sent = 0

\* The callers stamp envelopes with time.Now().UnixNano(): two may have the same
\* SeqEnd, and a later one a smaller.
NewEnvelope == \E c \in Cells, d \in Deltas, q \in SeqEnds :
    /\ sent < MaxEnvelopes
    /\ Ingest([cell |-> c, delta |-> d, seq |-> q])
    /\ sent' = sent + 1

ShardNext ==
    \/ NewEnvelope
    \/ /\ Probe \/ Place \/ Flush \/ (\E k \in Keys : FlushKey(k))
       /\ UNCHANGED sent
    \/ sent = MaxEnvelopes /\ cur = NoEnv /\ UNCHANGED shardVars

ShardSpec == ShardInit /\ [][ShardNext]_shardVars

\* Ingest runs on once it is called.
ShardLiveSpec == ShardSpec /\ WF_shardVars((Probe \/ Place) /\ UNCHANGED sent)

-----------------------------------------------------------------------------
\* Every variable keeps its type.
ShardTypeOK ==
    /\ slots \in [SlotIds -> [key : Nat, cell : Cells \cup {NoCell}, sum : Int, seq : SeqEnds \cup {0}]]
    /\ used \in 0..NumSlots
    /\ cur \in [cell : Cells \cup {NoCell}, delta : Int, seq : SeqEnds \cup {0}]
    /\ at \in SlotIds
    /\ ingested \in [Cells -> Int] /\ emitted \in [Cells -> Int]
    /\ ids \subseteq Cells \X SeqEnds
    /\ stamps \in [Packed \X SeqEnds -> Nat]

\* The cells that cannot be told apart from c.
Twins(c) == {d \in Cells : Pack[d] = Pack[c]}
Pending(C) == SumOver([s \in SlotIds |-> IF slots[s].cell \in C THEN slots[s].sum ELSE 0], SlotIds)
InHand(C) == IF cur.cell \in C THEN cur.delta ELSE 0

\* No delta is lost, counted twice or moved to a cell with another packed id: not by
\* probing, not by the holes FlushKey leaves in a probe sequence, not by cells that
\* share a slot.
DeltasConserved ==
    \A c \in Cells :
        SumOver(ingested, Twins(c)) = InHand(Twins(c)) + Pending(Twins(c)) + SumOver(emitted, Twins(c))

\* plugin/tfd/readme.md's idempotency key of a batch, (KeyID, BucketID, SeqEnd), is as
\* good as the SeqEnds that the callers choose: the table lets two batches carry the
\* same only if two envelopes with that packed id came with that SeqEnd.  Merging,
\* displaced cells and reused slots repeat none by themselves.
RepeatedIdsWereGiven ==
    \A s \in Occupied :
        LET id(r) == <<slots[r].cell, slots[r].seq>>
        IN id(s) \in ids \/ (\E r \in Occupied \ {s} : id(r) = id(s))
           => stamps[<<slots[s].key, slots[s].seq>>] > 1

\* Ingest returns, unless the table is full: probing comes to the cell's slot or to a
\* free one, holes and displaced cells notwithstanding.
IngestReturns == cur # NoEnv ~> (cur = NoEnv \/ used = NumSlots)
=============================================================================
