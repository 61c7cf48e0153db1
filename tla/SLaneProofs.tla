----------------------------- MODULE SLaneProofs -----------------------------
(***************************************************************************)
(* Theorems about the S-lane service, for any producers and flushers, any  *)
(* channel capacity and any shard.                                         *)
(***************************************************************************)
EXTENDS SLane, SShardProofs

Received == Len(alog) - Len(in)
Blocked == {p \in Producers : ppc[p] = "blocked"}

LaneTypes ==
    /\ in \in Seq(Envelope) /\ alog \in Seq(Envelope) /\ reqs \in Seq(Flushers)
    /\ Len(in) <= Buffer /\ Len(reqs) <= 1
    /\ stopping \in BOOLEAN /\ quiet \in BOOLEAN
    /\ spc \in {"select", "drain", "reply", "done"}
    /\ serving \in Flushers \cup {NoCall}
    /\ ppc \in [Producers -> {"idle", "blocked"}]
    /\ penv \in [Producers -> Envelope \cup {NoEnv}]
    /\ \A p \in Blocked : penv[p] \in Envelope
    /\ fpc \in [Flushers -> {"idle", "sending", "waiting"}]
    /\ asked \in [Flushers -> Int] /\ handed \in Nat
    /\ sent \in Nat

\* The channel holds the last envelopes the lane has taken; the shard and the sink have
\* the others, the sink all of them when the table is empty.
ChannelInv ==
    /\ Len(in) <= Len(alog)
    /\ \A j \in 1..Len(in) : in[j] = alog[Received + j]
    /\ handed <= Received
    /\ cur = NoEnv /\ used = 0 => handed = Received

\* A call of Flush is idle, on its way to the service, in the request channel or being
\* served, in one of these places only.
FlushCallInv ==
    /\ \A f \in Flushers :
          /\ fpc[f] = "idle" <=> asked[f] = -1
          /\ asked[f] \in -1..Len(alog)
    /\ reqs # <<>> => fpc[reqs[1]] = "waiting" /\ reqs[1] # serving
    /\ serving # NoCall => fpc[serving] = "waiting"
    /\ spc \in {"select", "done"} => serving = NoCall
    /\ spc = "reply" => serving # NoCall /\ handed >= asked[serving]

\* What the shard was given, and what the sink was given.
SumInv == \A c \in Cells :
    /\ SumOver(ingested, Twins(c)) = Brought(Received, Twins(c))
    /\ SumOver(emitted, Twins(c)) = Brought(handed, Twins(c))

LaneInv ==
    /\ TableInv /\ LaneTypes /\ ChannelInv /\ FlushCallInv
    /\ DeltasConserved /\ SumInv

-----------------------------------------------------------------------------
(* Sums over a log of envelopes.                                           *)

BroughtBy(log, n, C) ==
    SumOver([j \in 1..n |-> log[j].delta], {j \in 1..n : log[j].cell \in C})

\* No envelopes bring nothing.
LEMMA BroughtNone ==
    ASSUME NEW log, NEW C
    PROVE  BroughtBy(log, 0, C) = 0
<1>1. {j \in 1..0 : log[j].cell \in C} = {} OBVIOUS
<1> QED BY <1>1, SumEmpty DEF BroughtBy

\* A later envelope does not change what the earlier ones bring.
LEMMA BroughtAppend ==
    ASSUME NEW log \in Seq(Envelope), NEW e, NEW n \in 0..Len(log), NEW C
    PROVE  BroughtBy(Append(log, e), n, C) = BroughtBy(log, n, C)
<1>1. \A j \in 1..n : Append(log, e)[j] = log[j] OBVIOUS
<1>2. [j \in 1..n |-> Append(log, e)[j].delta] = [j \in 1..n |-> log[j].delta] BY <1>1
<1>3. {j \in 1..n : Append(log, e)[j].cell \in C} = {j \in 1..n : log[j].cell \in C} BY <1>1
<1> QED BY <1>2, <1>3 DEF BroughtBy

\* One envelope more.
LEMMA BroughtNext ==
    ASSUME NEW log \in Seq(Envelope), NEW n \in Nat, n < Len(log), NEW C
    PROVE  BroughtBy(log, n + 1, C)
             = BroughtBy(log, n, C) + (IF log[n + 1].cell \in C THEN log[n + 1].delta ELSE 0)
<1> DEFINE f == [j \in 1..n |-> log[j].delta]
           g == [j \in 1..(n + 1) |-> log[j].delta]
           A == {j \in 1..n : log[j].cell \in C}
           B == {j \in 1..(n + 1) : log[j].cell \in C}
<1>1. \A j \in 1..(n + 1) : log[j] \in Envelope /\ log[j].delta \in Int
  <2>1. \A j \in 1..(n + 1) : log[j] \in Envelope OBVIOUS
  <2>2. \A e \in Envelope : e.delta \in Int BY ShardConstants DEF Envelope
  <2> QED BY <2>1, <2>2
<1>2. A \in SUBSET (1..n) /\ n + 1 \notin A OBVIOUS
<1>3. IsFiniteSet(A)
  <2>1. IsFiniteSet(1..n) BY FS_Interval
  <2> HIDE DEF A
  <2> QED BY <2>1, <1>2, FS_Subset
<1>4. \A j \in A : f[j] \in Int /\ g[j] = f[j] BY <1>1
<1>5. \A j \in A \cup {n + 1} : g[j] \in Int BY <1>1
<1>6. g[n + 1] = log[n + 1].delta OBVIOUS
<1>7. B = IF log[n + 1].cell \in C THEN A \cup {n + 1} ELSE A OBVIOUS
<1>8. BroughtBy(log, n, C) = SumOver(f, A) /\ BroughtBy(log, n + 1, C) = SumOver(g, B)
  BY DEF BroughtBy
<1> HIDE DEF f, g, A, B
<1>9. SumOver(g, A) = SumOver(f, A) BY <1>3, <1>4, SumSame
<1>10. SumOver(f, A) \in Int BY <1>3, <1>4, SumType
<1>11. SumOver(g, A \cup {n + 1}) = g[n + 1] + SumOver(g, A) BY <1>2, <1>3, <1>5, SumInsert
<1>12. g[n + 1] \in Int BY <1>5
<1>13. CASE log[n + 1].cell \in C
  <2>1. SumOver(g, B) = SumOver(g, A \cup {n + 1}) BY <1>7, <1>13
  <2> QED BY <2>1, <1>6, <1>8, <1>9, <1>10, <1>11, <1>12, <1>13
<1>14. CASE log[n + 1].cell \notin C
  <2>1. SumOver(g, B) = SumOver(g, A) BY <1>7, <1>14
  <2> QED BY <2>1, <1>8, <1>9, <1>10, <1>14
<1> QED BY <1>13, <1>14

-----------------------------------------------------------------------------
(* Compress.                                                               *)

\* Compress hands on one batch per cell with the sum of that cell's batches.
LEMMA CompressHonest ==
    ASSUME NEW B, Family(B)
    PROVE  LET out == Compress(B)
           IN /\ Family(out)
              /\ \A c \in Cells :
                    SumOver([i \in DOMAIN out |-> out[i].delta], {i \in DOMAIN out : out[i].cell = c})
                      = SumOver([i \in DOMAIN B |-> B[i].delta], {i \in DOMAIN B : B[i].cell = c})
<1> DEFINE D == DOMAIN B
           of(c) == {i \in D : B[i].cell = c}
           d == [i \in D |-> B[i].delta]
           K == {c \in {B[i].cell : i \in D} : SumOver(d, of(c)) # 0}
           out == [c \in K |->
                      [cell |-> c, delta |-> SumOver(d, of(c)), seq |-> Max({B[i].seq : i \in of(c)})]]
<1>1. Compress(B) = out BY DEF Compress
<1>b. IsFiniteSet(D) /\ \A i \in D : /\ B[i] \in [cell : Cells, delta : Int, seq : SeqEnds]
                                     /\ B[i].cell \in Cells /\ B[i].delta \in Int /\ B[i].seq \in SeqEnds
  BY DEF Family
<1> HIDE DEF D
<1>2. K \in SUBSET Cells BY <1>b
<1>3. IsFiniteSet(K) BY <1>2, ShardConstants, FS_Subset
<1>4. \A c \in Cells : SumOver(d, of(c)) \in Int
  <2> TAKE c \in Cells
  <2>1. of(c) \in SUBSET D /\ \A i \in of(c) : d[i] \in Int BY <1>b
  <2>2. IsFiniteSet(of(c)) BY <1>b, <2>1, FS_Subset
  <2> HIDE DEF of, d
  <2> QED BY <2>1, <2>2, SumType
<1>5. \A c \in K : Max({B[i].seq : i \in of(c)}) \in SeqEnds
  <2> TAKE c \in K
  <2> DEFINE q == [i \in D |-> B[i].seq]
             Q == {q[i] : i \in of(c)}
  <2>1. of(c) \in SUBSET D /\ of(c) # {} OBVIOUS
  <2>2. IsFiniteSet(of(c)) BY <1>b, <2>1, FS_Subset
  <2>3. Q = {B[i].seq : i \in of(c)} BY <2>1
  <2>4. Q \subseteq SeqEnds /\ Q \subseteq Int /\ Q # {}
    <3>0. \A i \in D : q[i] = B[i].seq OBVIOUS
    <3>1. \A i \in D : q[i] \in SeqEnds BY <1>b, <3>0
    <3>2. SeqEnds \subseteq Int BY ShardConstants
    <3> HIDE DEF q, of
    <3>3. Q \subseteq SeqEnds /\ Q # {} BY <3>1, <2>1
    <3> QED BY <3>2, <3>3
  <2>5. IsFiniteSet(Q)
    <3> HIDE DEF of, q
    <3> QED BY <2>2, FiniteImage
  <2>6. Max(Q) \in Q
    <3> HIDE DEF Q
    <3> QED BY <2>4, <2>5, MaxInSet
  <2>7. Max(Q) \in SeqEnds
    <3> HIDE DEF Q
    <3> QED BY <2>4, <2>6
  <2> QED BY <2>3, <2>7
<1>6. DOMAIN out = K /\ \A c \in K : out[c].cell = c /\ out[c].delta = SumOver(d, of(c)) OBVIOUS
<1>7. Family(out)
  <2>1. \A c \in K : out[c] \in [cell : Cells, delta : Int, seq : SeqEnds]
    <3> TAKE c \in K
    <3> DEFINE mx == Max({B[i].seq : i \in of(c)})
               sm == SumOver(d, of(c))
    <3>1. out[c] = [cell |-> c, delta |-> sm, seq |-> mx] OBVIOUS
    <3>2. c \in Cells /\ sm \in Int /\ mx \in SeqEnds BY <1>2, <1>4, <1>5
    <3> HIDE DEF mx, sm, out
    <3> QED BY <3>1, <3>2
  <2> HIDE DEF out, K
  <2> QED BY <1>3, <1>6, <2>1 DEF Family
<1>8. ASSUME NEW c \in Cells
      PROVE  SumOver([i \in DOMAIN out |-> out[i].delta], {i \in DOMAIN out : out[i].cell = c})
               = SumOver(d, of(c))
  <2> DEFINE g == [i \in DOMAIN out |-> out[i].delta]
             oc == {i \in DOMAIN out : out[i].cell = c}
  <2>1. CASE c \in K
    <3>1. oc = {} \cup {c}
      <4> HIDE DEF K, d, of, out
      <4> QED BY <1>6, <2>1
    <3>2. g[c] = SumOver(d, of(c)) /\ g[c] \in Int
      <4>1. SumOver(d, of(c)) \in Int BY <1>4
      <4> HIDE DEF K, d, of, out
      <4> QED BY <1>6, <2>1, <4>1
    <3> HIDE DEF g, oc, d, of
    <3>3. \A i \in {} \cup {c} : g[i] \in Int BY <3>2
    <3>4. SumOver(g, {} \cup {c}) = g[c] + SumOver(g, {})
      BY <3>3, FS_EmptySet, SumInsert
    <3>5. SumOver(g, {}) = 0 BY SumEmpty
    <3>6. SumOver(g, oc) = SumOver(d, of(c)) BY <3>1, <3>2, <3>4, <3>5
    <3> QED BY <3>6 DEF g, oc
  <2>2. CASE c \notin K
    <3>1. oc = {}
      <4> HIDE DEF K, d, of, out
      <4> QED BY <1>6, <2>2
    <3>2. SumOver(d, of(c)) = 0
      <4>1. CASE of(c) = {}
        <5> HIDE DEF d
        <5> QED BY <4>1, SumEmpty
      <4>2. CASE of(c) # {}
        <5>1. c \in {B[i].cell : i \in D} BY <4>2
        <5> QED BY <5>1, <2>2
      <4> QED BY <4>1, <4>2
    <3>3. SumOver(g, oc) = 0
      <4> HIDE DEF g, oc
      <4> QED BY <3>1, SumEmpty
    <3> QED BY <3>2, <3>3
  <2> QED BY <2>1, <2>2
<1> HIDE DEF out
<1>9. \A c \in Cells :
         SumOver([i \in DOMAIN out |-> out[i].delta], {i \in DOMAIN out : out[i].cell = c})
           = SumOver([i \in DOMAIN B |-> B[i].delta], {i \in DOMAIN B : B[i].cell = c})
  BY <1>8 DEF D
<1> QED BY <1>1, <1>7, <1>9

-----------------------------------------------------------------------------
(* Single operations.                                                      *)

\* Steps that move no envelope keep the sums.
LEMMA SumsUnchanged ==
    ASSUME LaneTypes, ChannelInv, SumInv, UNCHANGED <<ingested, emitted, alog, in, handed>>
    PROVE  SumInv'
BY DEF SumInv, Brought, Received

\* The channel takes an envelope.
LEMMA AcceptKeeps ==
    ASSUME LaneTypes, ChannelInv, SumInv, NEW env \in Envelope, Accept(env), Len(in) < Buffer,
           UNCHANGED <<ingested, emitted, cur, used, handed>>
    PROVE  /\ in' \in Seq(Envelope) /\ Len(in') <= Buffer
           /\ alog' \in Seq(Envelope) /\ Len(alog') = Len(alog) + 1
           /\ alog'[Len(alog) + 1] = env /\ \A n \in 1..Len(alog) : alog'[n] = alog[n]
           /\ Received' = Received
           /\ ChannelInv' /\ SumInv'
<1>1. /\ in \in Seq(Envelope) /\ alog \in Seq(Envelope) /\ Buffer \in Nat /\ handed \in Nat
      /\ in' = Append(in, env) /\ alog' = Append(alog, env)
  BY LaneAssumption DEF LaneTypes, Accept
<1>2. /\ in' \in Seq(Envelope) /\ Len(in') = Len(in) + 1
      /\ in'[Len(in) + 1] = env /\ \A n \in 1..Len(in) : in'[n] = in[n]
  BY <1>1
<1>3. /\ alog' \in Seq(Envelope) /\ Len(alog') = Len(alog) + 1
      /\ alog'[Len(alog) + 1] = env /\ \A n \in 1..Len(alog) : alog'[n] = alog[n]
  BY <1>1
<1>4. Len(in) \in Nat /\ Len(alog) \in Nat BY <1>1
<1>5. Received' = Received /\ Received \in Nat BY <1>2, <1>3, <1>4 DEF Received, ChannelInv
<1>6. ChannelInv'
  <2>1. \A j \in 1..Len(in') : in'[j] = alog'[Received + j]
    <3> TAKE j \in 1..Len(in')
    <3>1. CASE j = Len(in) + 1
      <4>1. Received + j = Len(alog) + 1 BY <3>1, <1>4 DEF Received
      <4> QED BY <3>1, <4>1, <1>2, <1>3
    <3>2. CASE j # Len(in) + 1
      <4>1. j \in 1..Len(in) BY <3>2, <1>2, <1>4
      <4>2. Received + j \in 1..Len(alog) BY <4>1, <1>4, <1>5 DEF Received
      <4>3. in[j] = alog[Received + j] BY <4>1 DEF ChannelInv
      <4> QED BY <4>1, <4>2, <4>3, <1>2, <1>3
    <3> QED BY <3>1, <3>2
  <2>2. Len(in') <= Len(alog') BY <1>2, <1>3, <1>4 DEF ChannelInv
  <2> QED BY <2>1, <2>2, <1>5 DEF ChannelInv
<1>7. SumInv'
  <2> SUFFICES ASSUME NEW c \in Cells
               PROVE  /\ SumOver(ingested', Twins(c)) = BroughtBy(alog', Received', Twins(c))
                      /\ SumOver(emitted', Twins(c)) = BroughtBy(alog', handed', Twins(c))
    BY DEF SumInv, Brought, BroughtBy
  <2> DEFINE C == Twins(c)
  <2>1. Received \in 0..Len(alog) /\ handed \in 0..Len(alog)
    BY <1>1, <1>4, <1>5 DEF ChannelInv, Received
  <2>2. /\ BroughtBy(alog', Received, C) = BroughtBy(alog, Received, C)
        /\ BroughtBy(alog', handed, C) = BroughtBy(alog, handed, C)
    <3> HIDE DEF C
    <3> QED BY <1>1, <2>1, BroughtAppend
  <2>3. SumOver(ingested, C) = BroughtBy(alog, Received, C) /\ SumOver(emitted, C) = BroughtBy(alog, handed, C)
    BY DEF SumInv, Brought, BroughtBy
  <2> QED BY <2>2, <2>3, <1>5
<1> QED BY <1>1, <1>2, <1>3, <1>4, <1>5, <1>6, <1>7

\* The service takes an envelope out of the channel and gives it to the shard.
LEMMA ReceiveKeeps ==
    ASSUME TableInv, LaneTypes, ChannelInv, SumInv, Receive
    PROVE  /\ Head(in) \in Envelope /\ in' \in Seq(Envelope) /\ Len(in') <= Buffer
           /\ ChannelInv' /\ SumInv'
<1> DEFINE env == Head(in)
<1>1. /\ in \in Seq(Envelope) /\ alog \in Seq(Envelope) /\ Buffer \in Nat /\ handed \in Nat /\ in # <<>>
      /\ in' = Tail(in) /\ cur = NoEnv /\ cur' = env
      /\ UNCHANGED <<alog, handed, emitted, used, ppc, penv>> /\ Ingest(env)
  BY LaneAssumption DEF LaneTypes, Receive, callerVars, Ready, Ingest
<1>2. /\ env = in[1] /\ env \in Envelope /\ in' \in Seq(Envelope) /\ Len(in') = Len(in) - 1
      /\ Len(in) \in Nat \ {0} /\ \A j \in 1..Len(in') : in'[j] = in[j + 1]
  BY <1>1
<1>3. Len(alog) \in Nat /\ Len(in) <= Len(alog) BY <1>1 DEF ChannelInv
<1>4. Received' = Received + 1 /\ Received \in Nat /\ Received < Len(alog)
  BY <1>1, <1>2, <1>3 DEF Received
<1>5. alog[Received + 1] = env
  <2>1. in[1] = alog[Received + 1] BY <1>2 DEF ChannelInv
  <2> QED BY <2>1, <1>2
<1> HIDE DEF env
<1>6. cur' # NoEnv
  <2>1. env.cell \in Cells BY <1>2 DEF Envelope
  <2> QED BY <2>1, <1>1, ShardConstants DEF NoEnv
<1>7. ChannelInv'
  <2>1. \A j \in 1..Len(in') : in'[j] = alog[Received' + j]
    <3> TAKE j \in 1..Len(in')
    <3>1. j + 1 \in 1..Len(in) /\ in'[j] = in[j + 1] /\ Received + (j + 1) = Received' + j
      BY <1>2, <1>4
    <3>2. in[j + 1] = alog[Received + (j + 1)] BY <3>1 DEF ChannelInv
    <3> QED BY <3>1, <3>2
  <2>2. Len(in') <= Len(alog) BY <1>2, <1>3
  <2>3. handed <= Received' BY <1>1, <1>4 DEF ChannelInv
  <2> QED BY <1>1, <1>6, <2>1, <2>2, <2>3 DEF ChannelInv
<1>8. SumInv'
  <2> SUFFICES ASSUME NEW c \in Cells
               PROVE  /\ SumOver(ingested', Twins(c)) = BroughtBy(alog', Received', Twins(c))
                      /\ SumOver(emitted', Twins(c)) = BroughtBy(alog', handed', Twins(c))
    BY DEF SumInv, Brought, BroughtBy
  <2> DEFINE C == Twins(c)
  <2>1. C \in SUBSET Cells /\ IsFiniteSet(C) BY TwinsFinite
  <2>2. SumOver(ingested, C) = BroughtBy(alog, Received, C) /\ SumOver(emitted, C) = BroughtBy(alog, handed, C)
    BY DEF SumInv, Brought, BroughtBy
  <2> HIDE DEF C
  <2>4. SumOver(ingested', C) = SumOver(ingested, C) + (IF env.cell \in C THEN env.delta ELSE 0)
    BY <1>1, <1>2, <2>1, IngestedGrows
  <2>5. BroughtBy(alog, Received + 1, C)
          = BroughtBy(alog, Received, C) + (IF env.cell \in C THEN env.delta ELSE 0)
    BY <1>1, <1>4, <1>5, BroughtNext, SMTT(30)
  <2>6. /\ SumOver(ingested', C) = BroughtBy(alog', Received', C)
        /\ SumOver(emitted', C) = BroughtBy(alog', handed', C)
    BY <1>1, <1>4, <2>2, <2>4, <2>5
  <2> QED BY <2>6 DEF C
<1>9. Len(in') <= Buffer BY <1>1, <1>2 DEF LaneTypes
<1> QED BY <1>2, <1>7, <1>8, <1>9 DEF env

\* The closure flush empties the table: the sink has what the shard was given.
LEMMA FlushKeeps ==
    ASSUME TableInv, LaneTypes, ChannelInv, SumInv, DeltasConserved,
           cur = NoEnv, FlushToSink, UNCHANGED <<alog, in>>
    PROVE  /\ TableInv' /\ DeltasConserved'
           /\ handed' = Received /\ ChannelInv' /\ SumInv' /\ UNCHANGED cur
<1>1. Received' = Received /\ Received \in Nat
  BY DEF Received, LaneTypes, ChannelInv
<1>2. CASE used = 0 /\ UNCHANGED <<table, handed>>
  <2>1. UNCHANGED <<slots, used, cur, at, ingested, emitted, ids, handed>> BY <1>2 DEF table
  <2>2. TableInv' BY <1>2, TableUnchanged
  <2>5. DeltasConserved' BY <2>1, ConservedUnchanged
  <2>6. handed' = Received BY <1>2, <2>1 DEF ChannelInv
  <2>7. ChannelInv' BY <1>1, <2>1 DEF ChannelInv
  <2>8. SumInv' BY <2>1, SumsUnchanged
  <2> QED BY <2>1, <2>2, <2>5, <2>6, <2>7, <2>8
<1>3. CASE /\ used # 0
           /\ Emit(Occupied, Compress(Batches(Occupied)))
           /\ used' = 0
           /\ handed' = Len(alog) - Len(in)
  <2> DEFINE B == Batches(Occupied)
             out == Compress(B)
  <2>1. Occupied \in SUBSET Occupied OBVIOUS
  <2>2. Family(B) /\ Honest(Occupied, B) BY <2>1, BatchesHonest
  <2> HIDE DEF B
  <2>3. /\ Family(out)
        /\ \A c \in Cells :
              SumOver([i \in DOMAIN out |-> out[i].delta], {i \in DOMAIN out : out[i].cell = c})
                = SumOver([i \in DOMAIN B |-> B[i].delta], {i \in DOMAIN B : B[i].cell = c})
    BY <2>2, CompressHonest
  <2>4. Emit(Occupied, out) BY <1>3 DEF B
  <2> HIDE DEF out
  <2>6. Honest(Occupied, out) BY <2>2, <2>3 DEF Honest
  <2>8. used' = used - Cardinality(Occupied)
    <3>1. Cardinality(Occupied) = used /\ used \in Nat BY <2>1, OccupiedFinite DEF TableInv
    <3> QED BY <3>1, <1>3
  <2>9. TableInv' BY <2>1, <2>3, <2>4, <2>8, TableEmit
  <2>11. DeltasConserved' BY <2>1, <2>4, <2>6, ConservedEmit
  <2>12. /\ handed' = Received /\ UNCHANGED <<cur, ingested>>
         /\ slots' = [s \in SlotIds |-> IF s \in Occupied THEN EmptySlot ELSE slots[s]]
    BY <1>3, <2>4 DEF Received, Emit, Cleared
  <2>13. ChannelInv' BY <1>1, <2>12 DEF ChannelInv
  <2>14. SumInv'
    <3> SUFFICES ASSUME NEW c \in Cells
                 PROVE  /\ SumOver(ingested', Twins(c)) = BroughtBy(alog', Received', Twins(c))
                        /\ SumOver(emitted', Twins(c)) = BroughtBy(alog', handed', Twins(c))
      BY DEF SumInv, Brought, BroughtBy
    <3> DEFINE C == Twins(c)
    <3>1. C \in SUBSET Cells /\ IsFiniteSet(C) /\ NoCell \notin C BY TwinsFinite
    <3>2. SumOver(ingested', C) = InHand(C)' + Pending(C)' + SumOver(emitted', C)
      BY <2>11 DEF DeltasConserved
    <3>3. SumOver(ingested, C) = BroughtBy(alog, Received, C) BY DEF SumInv, Brought, BroughtBy
    <3> HIDE DEF C
    <3>5. InHand(C)' = 0 BY <3>1, <2>12 DEF InHand, NoEnv
    <3>6. Pending(C)' = 0
      <4> DEFINE g == [s \in SlotIds |-> IF slots'[s].cell \in C THEN slots'[s].sum ELSE 0]
      <4>1. \A s \in SlotIds : slots'[s].cell = NoCell
        <5> TAKE s \in SlotIds
        <5>1. CASE s \in Occupied BY <5>1, <2>12 DEF EmptySlot
        <5>2. CASE s \notin Occupied
          <6>1. slots'[s] = slots[s] /\ slots[s].key = 0 BY <5>2, <2>12 DEF Occupied
          <6>2. slots[s] = EmptySlot BY <6>1, ShardConstants DEF TableInv, SlotInv
          <6> QED BY <6>1, <6>2 DEF EmptySlot
        <5> QED BY <5>1, <5>2
      <4>2. \A s \in SlotIds : g[s] = 0 BY <3>1, <4>1
      <4>3. Pending(C)' = SumOver(g, SlotIds) BY DEF Pending
      <4> HIDE DEF g
      <4> QED BY <4>2, <4>3, ShardConstants, SumZero
    <3>7. SumOver(emitted', C) \in Int
      <4>1. \A d \in C : emitted'[d] \in Int BY <3>1, <2>9 DEF TableInv, ShardTypeOK
      <4> QED BY <3>1, <4>1, SumType
    <3>8. /\ SumOver(ingested', C) = BroughtBy(alog', Received', C)
          /\ SumOver(emitted', C) = BroughtBy(alog', handed', C)
      BY <3>2, <3>3, <3>5, <3>6, <3>7, <1>1, <2>12
    <3> QED BY <3>8 DEF C
  <2> QED BY <2>9, <2>11, <2>12, <2>13, <2>14
<1> QED BY <1>2, <1>3 DEF FlushToSink

-----------------------------------------------------------------------------
(* The inductive invariant.                                                *)

\* The invariant holds when NewSService returns.
LEMMA LaneInvInit == Init => LaneInv
<1> SUFFICES ASSUME Init PROVE LaneInv OBVIOUS
<1>1. ShardInv BY ShardInvInit DEF Init
<1>2. Blocked = {} BY DEF Init, Blocked
<1>3. LaneTypes
  <2>1. stopping \in BOOLEAN /\ quiet \in BOOLEAN BY Zenon DEF Init
  <2> QED BY <1>2, <2>1, LaneAssumption DEF Init, ShardInit, LaneTypes
<1>4. ChannelInv /\ FlushCallInv
  BY <1>2 DEF Init, ChannelInv, FlushCallInv, Received
<1>6. SumInv
  <2> SUFFICES ASSUME NEW c \in Cells
               PROVE  /\ SumOver(ingested, Twins(c)) = BroughtBy(alog, Received, Twins(c))
                      /\ SumOver(emitted, Twins(c)) = BroughtBy(alog, handed, Twins(c))
    BY DEF SumInv, Brought, BroughtBy
  <2>1. Twins(c) \in SUBSET Cells /\ IsFiniteSet(Twins(c)) BY TwinsFinite
  <2>2. \A d \in Twins(c) : ingested[d] = 0 /\ emitted[d] = 0
    BY <2>1 DEF Init, ShardInit, TableInit
  <2>3. SumOver(ingested, Twins(c)) = 0 /\ SumOver(emitted, Twins(c)) = 0 BY <2>1, <2>2, SumZero
  <2>4. Received = 0 /\ handed = 0 BY DEF Init, Received
  <2> QED BY <2>3, <2>4, BroughtNone
<1> QED BY <1>1, <1>3, <1>4, <1>6 DEF ShardInv, LaneInv

\* A producer's envelope enters the channel, or waits in Ingest.
LEMMA StepHandle ==
    ASSUME LaneInv, NEW p \in Producers, Handle(p)
    PROVE  LaneInv'
<1> USE DEF LaneInv
<1>1. PICK c \in Cells, d \in Deltas, q \in SeqEnds :
         LET env == [cell |-> c, delta |-> d, seq |-> q]
         IN /\ ppc[p] = "idle"
            /\ sent' = sent + 1
            /\ IF Len(in) < Buffer
               THEN Accept(env) /\ UNCHANGED <<ppc, penv>>
               ELSE /\ ppc' = [ppc EXCEPT ![p] = "blocked"]
                    /\ penv' = [penv EXCEPT ![p] = env]
                    /\ UNCHANGED <<in, alog>>
            /\ UNCHANGED <<table, reqs, stopping, quiet, spc, serving, fpc, asked, handed>>
  BY DEF Handle
<1> DEFINE env == [cell |-> c, delta |-> d, seq |-> q]
<1>2. env \in Envelope BY DEF Envelope
<1>3. UNCHANGED <<slots, used, cur, at, ingested, emitted, ids>> BY <1>1 DEF table
<1>4. TableInv' /\ DeltasConserved'
  <2>1. UNCHANGED table BY <1>1
  <2> QED BY <2>1, <1>3, TableUnchanged, ConservedUnchanged
<1>5. ppc \in [Producers -> {"idle", "blocked"}] /\ p \notin Blocked BY <1>1 DEF LaneTypes, Blocked
<1>6. CASE Len(in) < Buffer
  <2>1. Accept(env) /\ UNCHANGED <<ppc, penv>> BY <1>1, <1>6
  <2> HIDE DEF env
  <2>2. /\ in' \in Seq(Envelope) /\ Len(in') <= Buffer
        /\ alog' \in Seq(Envelope) /\ Len(alog') = Len(alog) + 1 /\ Len(alog) \in Nat
        /\ alog'[Len(alog) + 1] = env /\ \A n \in 1..Len(alog) : alog'[n] = alog[n]
        /\ Received' = Received
        /\ ChannelInv' /\ SumInv'
    BY <1>1, <1>2, <1>3, <1>6, <2>1, AcceptKeeps DEF LaneTypes
  <2>3. Blocked' = Blocked /\ penv' = penv BY <2>1 DEF Blocked
  <2>4. LaneTypes' BY <1>1, <2>1, <2>2, <2>3 DEF LaneTypes
  <2>5. FlushCallInv' BY <1>1, <2>2 DEF FlushCallInv, LaneTypes
  <2> QED BY <1>4, <2>2, <2>4, <2>5
<1>7. CASE ~(Len(in) < Buffer)
  <2>1. /\ ppc' = [ppc EXCEPT ![p] = "blocked"] /\ penv' = [penv EXCEPT ![p] = env]
        /\ UNCHANGED <<in, alog>>
    BY <1>1, <1>7
  <2> HIDE DEF env
  <2>2. Blocked' = Blocked \cup {p} BY <2>1, <1>5 DEF Blocked
  <2>3. penv \in [Producers -> Envelope \cup {NoEnv}] /\ \A r \in Blocked : penv[r] \in Envelope
    BY DEF LaneTypes
  <2>4. penv'[p] = env /\ \A r \in Blocked : r # p /\ penv'[r] = penv[r]
    BY <2>1, <2>3, <1>5 DEF Blocked
  <2>5. LaneTypes'
    <3>1. penv' \in [Producers -> Envelope \cup {NoEnv}] BY <2>1, <2>3, <1>2
    <3>2. \A r \in Blocked' : penv'[r] \in Envelope BY <2>2, <2>3, <2>4, <1>2
    <3>3. ppc' \in [Producers -> {"idle", "blocked"}] BY <2>1, <1>5
    <3> QED BY <1>1, <2>1, <3>1, <3>2, <3>3 DEF LaneTypes
  <2>6. UNCHANGED <<in, alog, handed, spc, serving, reqs, fpc, asked>> /\ Received' = Received
    BY <1>1, <2>1 DEF Received
  <2>7. ChannelInv' BY <2>6, <1>3 DEF ChannelInv
  <2>8. FlushCallInv' BY <2>6 DEF FlushCallInv
  <2>9. SumInv' BY <2>6, <1>3, SumsUnchanged
  <2> QED BY <1>4, <2>5, <2>7, <2>8, <2>9
<1> QED BY <1>6, <1>7

\* The envelope of a blocked producer enters the channel.
LEMMA StepUnblock ==
    ASSUME LaneInv, NEW p \in Producers, Unblock(p)
    PROVE  LaneInv'
<1> USE DEF LaneInv
<1> DEFINE env == penv[p]
<1>1. /\ ppc[p] = "blocked" /\ Len(in) < Buffer /\ Accept(env)
      /\ ppc' = [ppc EXCEPT ![p] = "idle"] /\ penv' = [penv EXCEPT ![p] = NoEnv]
      /\ UNCHANGED <<table, sent, reqs, stopping, quiet, spc, serving, fpc, asked, handed>>
  BY DEF Unblock, shardVars
<1>2. p \in Blocked /\ env \in Envelope BY <1>1 DEF Blocked, LaneTypes
<1>3. UNCHANGED <<slots, used, cur, at, ingested, emitted, ids>> BY <1>1 DEF table
<1>4. TableInv' /\ DeltasConserved' BY <1>1, <1>3, TableUnchanged, ConservedUnchanged
<1>5. /\ ppc \in [Producers -> {"idle", "blocked"}]
      /\ penv \in [Producers -> Envelope \cup {NoEnv}] /\ \A r \in Blocked : penv[r] \in Envelope
  BY DEF LaneTypes
<1>6. Blocked' = Blocked \ {p} /\ \A r \in Blocked' : penv'[r] = penv[r]
  BY <1>1, <1>5 DEF Blocked
<1>7. /\ in' \in Seq(Envelope) /\ Len(in') <= Buffer
      /\ alog' \in Seq(Envelope) /\ Len(alog') = Len(alog) + 1 /\ Len(alog) \in Nat
      /\ alog'[Len(alog) + 1] = env /\ \A n \in 1..Len(alog) : alog'[n] = alog[n]
      /\ Received' = Received
      /\ ChannelInv' /\ SumInv'
  <2> HIDE DEF env
  <2> QED BY <1>1, <1>2, <1>3, AcceptKeeps DEF LaneTypes
<1>8. LaneTypes'
  <2>1. ppc' \in [Producers -> {"idle", "blocked"}] /\ penv' \in [Producers -> Envelope \cup {NoEnv}]
    BY <1>1, <1>5
  <2>2. \A r \in Blocked' : penv'[r] \in Envelope BY <1>5, <1>6
  <2> QED BY <1>1, <1>7, <2>1, <2>2 DEF LaneTypes
<1>9. FlushCallInv' BY <1>1, <1>7 DEF FlushCallInv, LaneTypes
<1> QED BY <1>4, <1>7, <1>8, <1>9

\* A step that leaves the envelopes where they are.
LEMMA EnvelopesStay ==
    ASSUME LaneInv, UNCHANGED <<shardVars, in, alog, ppc, penv, handed>>, LaneTypes', FlushCallInv'
    PROVE  LaneInv'
<1>1. UNCHANGED <<slots, used, cur, at, ingested, emitted, ids>> /\ UNCHANGED table
  BY DEF shardVars, table
<1>2. TableInv' /\ DeltasConserved' BY <1>1, TableUnchanged, ConservedUnchanged DEF LaneInv
<1>3. Received' = Received /\ Blocked' = Blocked BY DEF Received, Blocked
<1>4. ChannelInv' BY <1>1, <1>3 DEF LaneInv, ChannelInv
<1>6. SumInv' BY <1>1, SumsUnchanged DEF LaneInv
<1> QED BY <1>2, <1>4, <1>6 DEF LaneInv

\* A step in which the shard works and no caller's state changes.
LEMMA CallersStay ==
    ASSUME LaneInv, UNCHANGED <<sent, in, alog, ppc, penv, reqs, stopping, quiet, fpc, asked>>,
           spc' \in {"select", "drain", "reply", "done"}, serving' = serving,
           handed' \in Nat, FlushCallInv', TableInv',
           DeltasConserved', ChannelInv', SumInv'
    PROVE  LaneInv'
<1>1. Received' = Received /\ Blocked' = Blocked BY DEF Received, Blocked
<1>2. LaneTypes' BY <1>1 DEF LaneInv, LaneTypes
<1> QED BY <1>2 DEF LaneInv

\* FlushCallInv is not touched by a step that leaves the calls alone and only adds to
\* what was taken and handed on.
LEMMA CallsStay ==
    ASSUME LaneTypes, FlushCallInv, UNCHANGED <<reqs, fpc, asked, serving, alog>>,
           handed' \in Nat, handed <= handed',
           \/ spc' = spc
           \/ spc = "select" /\ spc' = "drain"
           \/ spc = "drain" /\ spc' = "done" /\ serving = NoCall
           \/ spc = "drain" /\ spc' = "reply" /\ serving # NoCall /\ handed' = Len(alog)
    PROVE  FlushCallInv'
<1>1. /\ serving # NoCall => serving \in Flushers
      /\ \A f \in Flushers : asked[f] \in Int /\ asked[f] <= Len(alog)
      /\ handed \in Nat
  BY DEF LaneTypes, FlushCallInv
<1>2. spc' = "reply" => serving # NoCall /\ handed' >= asked[serving]
  BY <1>1 DEF FlushCallInv
<1> QED BY <1>2 DEF FlushCallInv

\* Every step of producers, flushers and the service keeps the invariant.
LEMMA LaneInvNext == LaneInv /\ [Next]_vars => LaneInv'
<1> SUFFICES ASSUME LaneInv, [Next]_vars PROVE LaneInv' OBVIOUS
<1> USE DEF LaneInv
<1>t. /\ reqs \in Seq(Flushers) /\ Len(reqs) <= 1 /\ asked \in [Flushers -> Int]
      /\ fpc \in [Flushers -> {"idle", "sending", "waiting"}]
      /\ serving \in Flushers \cup {NoCall} /\ NoCall \notin Flushers
      /\ handed \in Nat /\ Len(alog) \in Nat
  BY LaneAssumption DEF LaneTypes, NoCall
<1>1. ASSUME NEW f \in Flushers, CallFlush(f) PROVE LaneInv'
  <2>1. /\ fpc[f] = "idle" /\ fpc' = [fpc EXCEPT ![f] = "sending"]
        /\ asked' = [asked EXCEPT ![f] = Len(alog)]
        /\ UNCHANGED <<shardVars, in, reqs, stopping, quiet, spc, serving, ppc, penv, alog, handed>>
    BY <1>1 DEF CallFlush, laneVars
  <2>2. LaneTypes'
    <3>1. Blocked' = Blocked /\ sent' = sent BY <2>1 DEF Blocked, shardVars
    <3>2. asked' \in [Flushers -> Int] BY <2>1, <1>t
    <3>3. fpc' \in [Flushers -> {"idle", "sending", "waiting"}] BY <2>1, <1>t
    <3> QED BY <2>1, <3>1, <3>2, <3>3 DEF LaneTypes
  <2>3. FlushCallInv'
    <3>1. reqs # <<>> => reqs[1] \in Flushers /\ reqs[1] # f
      BY <2>1, <1>t DEF FlushCallInv
    <3>2. serving # f BY <2>1, <1>t DEF FlushCallInv
    <3>3. \A g \in Flushers : g # f => fpc'[g] = fpc[g] /\ asked'[g] = asked[g] BY <2>1, <1>t
    <3>4. fpc'[f] = "sending" /\ asked'[f] = Len(alog) BY <2>1, <1>t
    <3>5. \A g \in Flushers : (fpc'[g] = "idle" <=> asked'[g] = -1) /\ asked'[g] \in -1..Len(alog)
      BY <3>3, <3>4, <1>t DEF FlushCallInv
    <3> QED BY <2>1, <3>1, <3>2, <3>3, <3>5, <1>t DEF FlushCallInv
  <2> QED BY <2>1, <2>2, <2>3, EnvelopesStay
<1>2. ASSUME NEW f \in Flushers, SendRequest(f) PROVE LaneInv'
  <2>1. /\ fpc[f] = "sending" /\ Len(reqs) < 1 /\ reqs' = Append(reqs, f)
        /\ fpc' = [fpc EXCEPT ![f] = "waiting"]
        /\ UNCHANGED <<shardVars, in, stopping, quiet, spc, serving, ppc, penv, asked, alog, handed>>
    BY <1>2 DEF SendRequest
  <2>2. reqs' \in Seq(Flushers) /\ Len(reqs') <= 1 /\ reqs'[1] = f BY <2>1, <1>t
  <2>3. LaneTypes'
    <3>1. Blocked' = Blocked /\ sent' = sent BY <2>1 DEF Blocked, shardVars
    <3>2. fpc' \in [Flushers -> {"idle", "sending", "waiting"}] BY <2>1, <1>t
    <3> QED BY <2>1, <2>2, <3>1, <3>2 DEF LaneTypes
  <2>4. FlushCallInv'
    <3>1. serving # f BY <2>1, <1>t DEF FlushCallInv
    <3>2. \A g \in Flushers : g # f => fpc'[g] = fpc[g] BY <2>1, <1>t
    <3>3. fpc'[f] = "waiting" BY <2>1, <1>t
    <3>4. \A g \in Flushers : (fpc'[g] = "idle" <=> asked'[g] = -1) /\ asked'[g] \in -1..Len(alog)
      BY <2>1, <3>2, <3>3, <1>t DEF FlushCallInv
    <3> QED BY <2>1, <2>2, <3>1, <3>2, <3>3, <3>4, <1>t DEF FlushCallInv
  <2> QED BY <2>1, <2>3, <2>4, EnvelopesStay
<1>3. CASE Stop
  <2>1. /\ UNCHANGED <<shardVars, in, reqs, spc, serving, ppc, penv, fpc, asked, alog, handed>>
        /\ stopping' = TRUE
    BY <1>3 DEF Stop, callerVars
  <2>2. quiet' \in BOOLEAN /\ stopping' \in BOOLEAN
    <3>1. stopping' \in BOOLEAN BY <2>1, Zenon
    <3>2. quiet' \in BOOLEAN BY <1>3 DEF Stop
    <3> QED BY <3>1, <3>2
  <2>3. LaneTypes'
    <3>1. Blocked' = Blocked /\ sent' = sent BY <2>1 DEF Blocked, shardVars
    <3> QED BY <2>1, <2>2, <3>1 DEF LaneTypes
  <2>4. FlushCallInv' BY <2>1 DEF FlushCallInv
  <2> QED BY <2>1, <2>3, <2>4, EnvelopesStay
<1>4. CASE Receive
  <2>1. /\ UNCHANGED <<sent, reqs, stopping, quiet, spc, serving, ppc, penv, fpc, asked, alog, handed>>
        /\ Ingest(Head(in))
    BY <1>4 DEF Receive, callerVars
  <2>2. /\ Head(in) \in Envelope /\ in' \in Seq(Envelope) /\ Len(in') <= Buffer
        /\ ChannelInv' /\ SumInv'
    BY <1>4, ReceiveKeeps
  <2>3. TableInv' /\ DeltasConserved' BY <2>1, <2>2, TableIngest, ConservedIngest
  <2>5. Blocked' = Blocked BY <2>1 DEF Blocked
  <2>6. LaneTypes' BY <2>1, <2>2, <2>5 DEF LaneTypes
  <2>7. FlushCallInv' BY <2>1 DEF FlushCallInv
  <2> QED BY <2>2, <2>3, <2>6, <2>7
<1>5. CASE IngestStep
  <2>1. /\ UNCHANGED <<sent, in, reqs, stopping, quiet, spc, serving, ppc, penv, fpc, asked, alog, handed>>
        /\ UNCHANGED <<ingested, emitted, ids>>
    BY <1>5 DEF IngestStep, laneVars, callerVars, Probe, Place
  <2>2. TableInv' BY <1>5, TableProbe, TablePlace DEF IngestStep
  <2>3. DeltasConserved'
    <3>1. CASE Probe
      <4>1. UNCHANGED <<slots, cur>> BY <3>1 DEF Probe
      <4> QED BY <4>1, <2>1, ConservedUnchanged
    <3>2. CASE Place BY <3>2, ConservedPlace
    <3> QED BY <1>5, <3>1, <3>2 DEF IngestStep
  <2>4. cur' = NoEnv /\ used' = 0 => FALSE
    <3>1. CASE Probe BY <3>1 DEF Probe
    <3>2. CASE Place
      <4>1. at \in Occupied'
        <5>1. at \in SlotIds /\ slots' = [slots EXCEPT ![at] = Merged(slots[at], cur)]
              /\ Merged(slots[at], cur).key # 0
          BY <3>2, MergedSlot
        <5> QED BY <5>1 DEF Occupied, TableInv, ShardTypeOK
      <4>2. IsFiniteSet(Occupied')
        <5>1. Occupied' \in SUBSET SlotIds BY DEF Occupied
        <5> QED BY <5>1, ShardConstants, FS_Subset
      <4>3. used' = Cardinality(Occupied') BY <2>2 DEF TableInv
      <4> QED BY <4>1, <4>2, <4>3, FS_EmptySet
    <3> QED BY <1>5, <3>1, <3>2 DEF IngestStep
  <2>5. ChannelInv'
    <3>1. Received' = Received BY <2>1 DEF Received
    <3> QED BY <2>1, <2>4, <3>1 DEF ChannelInv
  <2>6. SumInv' BY <2>1, SumsUnchanged
  <2>7. FlushCallInv' BY <2>1 DEF FlushCallInv
  <2> QED BY <2>1, <2>2, <2>3, <2>5, <2>6, <2>7, <1>t, CallersStay DEF LaneTypes
<1>6. CASE Tick \/ DrainEnd
  <2>1. /\ UNCHANGED <<sent, in, reqs, stopping, quiet, serving, ppc, penv, fpc, asked, alog>>
        /\ FlushToSink /\ cur = NoEnv
    BY <1>6 DEF Tick, DrainEnd, laneVars, callerVars, Ready
  <2>2. /\ TableInv' /\ DeltasConserved'
        /\ handed' = Received /\ ChannelInv' /\ SumInv'
    BY <2>1, FlushKeeps
  <2>3. Received \in Nat /\ handed <= Received
    BY <1>t DEF ChannelInv, Received, LaneTypes
  <2>4. \/ spc' = spc
        \/ spc = "drain" /\ spc' = "done" /\ serving = NoCall
        \/ spc = "drain" /\ spc' = "reply" /\ serving # NoCall /\ handed' = Len(alog)
    <3>1. CASE Tick BY <3>1 DEF Tick, laneVars
    <3>2. CASE DrainEnd
      <4>1. in = <<>> /\ spc = "drain" /\ spc' = IF serving = NoCall THEN "done" ELSE "reply"
        BY <3>2 DEF DrainEnd
      <4>2. Received = Len(alog) BY <4>1, <1>t DEF Received
      <4> QED BY <4>1, <4>2, <2>2
    <3> QED BY <1>6, <3>1, <3>2
  <2>5. FlushCallInv' BY <2>1, <2>2, <2>3, <2>4, CallsStay
  <2>6. spc' \in {"select", "drain", "reply", "done"} BY <2>4 DEF LaneTypes
  <2> QED BY <2>1, <2>2, <2>3, <2>5, <2>6, CallersStay
<1>7. CASE TakeRequest
  <2>1. /\ spc = "select" /\ reqs # <<>> /\ serving' = Head(reqs) /\ reqs' = Tail(reqs) /\ spc' = "drain"
        /\ UNCHANGED <<shardVars, in, stopping, quiet, ppc, penv, fpc, asked, alog, handed>>
    BY <1>7 DEF TakeRequest, callerVars
  <2>2. reqs' = <<>> /\ serving' = reqs[1] /\ reqs[1] \in Flushers /\ fpc[reqs[1]] = "waiting"
    BY <2>1, <1>t DEF FlushCallInv
  <2>3. LaneTypes'
    <3>1. Blocked' = Blocked /\ sent' = sent BY <2>1 DEF Blocked, shardVars
    <3> QED BY <2>1, <2>2, <3>1 DEF LaneTypes
  <2>4. FlushCallInv' BY <2>1, <2>2, <1>t DEF FlushCallInv
  <2> QED BY <2>1, <2>3, <2>4, EnvelopesStay
<1>8. CASE TakeStop
  <2>1. /\ spc = "select" /\ spc' = "drain"
        /\ UNCHANGED <<shardVars, in, reqs, stopping, quiet, serving, ppc, penv, fpc, asked, alog, handed>>
    BY <1>8 DEF TakeStop, callerVars
  <2>2. LaneTypes'
    <3>1. Blocked' = Blocked /\ sent' = sent BY <2>1 DEF Blocked, shardVars
    <3> QED BY <2>1, <3>1 DEF LaneTypes
  <2>3. FlushCallInv' BY <2>1, <1>t, CallsStay
  <2> QED BY <2>1, <2>2, <2>3, EnvelopesStay
<1>9. CASE Reply
  <2>1. /\ spc = "reply" /\ fpc' = [fpc EXCEPT ![serving] = "idle"]
        /\ asked' = [asked EXCEPT ![serving] = -1] /\ serving' = NoCall /\ spc' = "select"
        /\ UNCHANGED <<shardVars, in, reqs, stopping, quiet, ppc, penv, alog, handed>>
    BY <1>9 DEF Reply
  <2>2. serving \in Flushers BY <2>1, <1>t DEF FlushCallInv
  <2>3. LaneTypes'
    <3>1. Blocked' = Blocked /\ sent' = sent BY <2>1 DEF Blocked, shardVars
    <3>2. asked' \in [Flushers -> Int] BY <2>1, <2>2, <1>t DEF LaneTypes
    <3>3. fpc' \in [Flushers -> {"idle", "sending", "waiting"}] BY <2>1, <2>2, <1>t DEF LaneTypes
    <3> QED BY <2>1, <3>1, <3>2, <3>3 DEF LaneTypes
  <2>4. FlushCallInv'
    <3>1. reqs # <<>> => reqs[1] \in Flushers /\ reqs[1] # serving /\ fpc[reqs[1]] = "waiting"
      BY <1>t DEF FlushCallInv
    <3>2. \A g \in Flushers : g # serving => fpc'[g] = fpc[g] /\ asked'[g] = asked[g] BY <2>1, <1>t
    <3>3. fpc'[serving] = "idle" /\ asked'[serving] = -1 BY <2>1, <2>2, <1>t
    <3>4. \A g \in Flushers : (fpc'[g] = "idle" <=> asked'[g] = -1) /\ asked'[g] \in -1..Len(alog)
      BY <3>2, <3>3, <1>t DEF FlushCallInv
    <3>5. reqs # <<>> => reqs[1] # NoCall BY <3>1, <1>t
    <3> QED BY <2>1, <3>1, <3>2, <3>4, <3>5, <1>t DEF FlushCallInv
  <2> QED BY <2>1, <2>3, <2>4, EnvelopesStay
<1>10. CASE UNCHANGED vars
  <2>1. /\ UNCHANGED <<shardVars, in, alog, ppc, penv, handed>>
        /\ UNCHANGED <<reqs, stopping, quiet, spc, serving, fpc, asked>>
    BY <1>10 DEF vars, laneVars, callerVars
  <2>2. Blocked' = Blocked /\ sent' = sent BY <2>1 DEF Blocked, shardVars
  <2>3. LaneTypes' BY <2>1, <2>2 DEF LaneTypes
  <2>4. FlushCallInv' BY <2>1 DEF FlushCallInv
  <2> QED BY <2>1, <2>3, <2>4, EnvelopesStay
<1> QED BY <1>1, <1>2, <1>3, <1>4, <1>5, <1>6, <1>7, <1>8, <1>9, <1>10, StepHandle, StepUnblock
       DEF Next, Service, Stopped

-----------------------------------------------------------------------------
(* The theorems.                                                           *)

\* The invariant holds in every state of the service.
LEMMA LaneInductive == Spec => []LaneInv
<1> QED BY LaneInvInit, LaneInvNext, PTL DEF Spec

\* Every variable of the service keeps its type: neither channel exceeds its capacity, and
\* the sink never has more than was taken.
THEOREM LaneTypeCorrect == Spec => []TypeOK
<1>1. LaneInv => TypeOK
  <2> SUFFICES ASSUME LaneInv PROVE TypeOK OBVIOUS
  <2> USE DEF LaneInv
  <2>1. ShardTypeOK BY DEF TableInv
  <2>3. Len(alog) \in Nat /\ Len(in) \in Nat BY DEF LaneTypes
  <2>4. asked \in [Flushers -> -1..Len(alog)]
    <3>1. \A f \in Flushers : asked[f] \in -1..Len(alog) BY DEF FlushCallInv
    <3>2. asked \in [Flushers -> Int] BY DEF LaneTypes
    <3> QED BY <3>1, <3>2
  <2>5. handed \in 0..Len(alog) BY <2>3 DEF LaneTypes, ChannelInv, Received
  <2> QED BY <2>1, <2>4, <2>5 DEF LaneTypes, TypeOK
<1> QED BY <1>1, LaneInductive, PTL

\* What the sink was given is the effect of a prefix of what the channel took, for any
\* table, any colliding packed ids and any order of the goroutines.
THEOREM SinkIsPrefix == Spec => []SinkHoldsPrefix
<1>1. LaneInv => SinkHoldsPrefix BY DEF LaneInv, SumInv, SinkHoldsPrefix
<1> QED BY <1>1, LaneInductive, PTL

\* The service implements the lane that its callers see: Flush is a barrier, and run ends
\* with everything handed on.
THEOREM ServiceImplementsLane == Spec => ImplementsLane
<1>1. Init => L!LaneInit BY DEF Init, L!LaneInit
<1>2. LaneInv /\ [Next]_vars => [L!LaneNext]_(L!lane)
  <2> SUFFICES ASSUME LaneInv, [Next]_vars
               PROVE  \/ L!LaneNext
                      \/ UNCHANGED <<alog, handed, spc = "done", asked>>
    BY DEF L!lane
  <2> USE DEF LaneInv
  <2> DEFINE Same == UNCHANGED <<alog, handed, spc = "done", asked>>
  <2>t. /\ handed \in Nat /\ Len(alog) \in Nat /\ Len(in) \in Nat /\ handed <= Len(alog) - Len(in)
        /\ asked \in [Flushers -> Int] /\ Envelope = [cell : Cells, delta : Deltas, seq : SeqEnds]
    BY DEF LaneTypes, ChannelInv, Received, Envelope
  <2>1. ASSUME NEW e \in Envelope, Accept(e), UNCHANGED <<handed, spc, asked>> PROVE L!LaneNext
    <3>1. L!Accept(e) BY <2>1 DEF Accept, L!Accept
    <3> QED BY <3>1, <2>t DEF L!LaneNext
  <2>2. ASSUME NEW p \in Producers, Handle(p) PROVE L!LaneNext \/ Same
    <3>1. PICK c \in Cells, d \in Deltas, q \in SeqEnds :
             /\ Accept([cell |-> c, delta |-> d, seq |-> q]) \/ UNCHANGED alog
             /\ UNCHANGED <<handed, spc, asked>>
      BY <2>2 DEF Handle
    <3>2. [cell |-> c, delta |-> d, seq |-> q] \in Envelope BY DEF Envelope
    <3>3. CASE UNCHANGED alog BY <3>1, <3>3
    <3>4. CASE Accept([cell |-> c, delta |-> d, seq |-> q]) BY <3>1, <3>2, <3>4, <2>1
    <3> QED BY <3>1, <3>3, <3>4
  <2>3. ASSUME NEW p \in Producers, Unblock(p) PROVE L!LaneNext
    <3>1. ppc[p] = "blocked" /\ Accept(penv[p]) /\ UNCHANGED <<handed, spc, asked>> BY <2>3 DEF Unblock
    <3>2. penv[p] \in Envelope BY <3>1 DEF LaneTypes, Blocked
    <3> QED BY <3>1, <3>2, <2>1
  <2>4. ASSUME NEW f \in Flushers, CallFlush(f) PROVE L!LaneNext
    <3>1. fpc[f] = "idle" /\ asked' = [asked EXCEPT ![f] = Len(alog)] /\ UNCHANGED <<alog, handed, spc>>
      BY <2>4 DEF CallFlush, laneVars
    <3>2. asked[f] = -1 BY <3>1 DEF FlushCallInv
    <3>3. L!FlushBegin(f) BY <3>1, <3>2 DEF L!FlushBegin
    <3> QED BY <3>3 DEF L!LaneNext
  <2>5. ASSUME NEW f \in Flushers, SendRequest(f) PROVE Same BY <2>5 DEF SendRequest
  <2>6. CASE Stop BY <2>6 DEF Stop, callerVars
  <2>7. CASE Receive BY <2>7 DEF Receive, callerVars
  <2>8. CASE IngestStep BY <2>8 DEF IngestStep, laneVars, callerVars
  <2>9. CASE TakeRequest BY <2>9 DEF TakeRequest, callerVars
  <2>10. CASE TakeStop BY <2>10 DEF TakeStop, callerVars
  <2>11. CASE Tick \/ DrainEnd
    <3>1. /\ FlushToSink /\ cur = NoEnv /\ UNCHANGED <<alog, in, asked>> /\ spc # "done"
      BY <2>11 DEF Tick, DrainEnd, laneVars, callerVars, Ready
    <3>2. handed' = Len(alog) - Len(in) BY <3>1, FlushKeeps DEF Received
    <3>3. CASE spc' # "done"
      <4>1. CASE handed' = handed BY <3>1, <3>3, <4>1
      <4>2. CASE handed' # handed
        <5>1. handed' \in (handed + 1)..Len(alog) /\ handed' \in 1..Len(alog) BY <3>2, <4>2, <2>t
        <5>2. L!Hand(handed') BY <3>1, <3>3, <5>1 DEF L!Hand
        <5> QED BY <5>1, <5>2 DEF L!LaneNext
      <4> QED BY <4>1, <4>2
    <3>4. CASE spc' = "done"
      <4>1. in = <<>> BY <2>11, <3>1, <3>4 DEF Tick, DrainEnd, laneVars
      <4>2. handed' = Len(alog) BY <3>2, <4>1, <2>t
      <4> QED BY <3>1, <3>4, <4>2 DEF L!LaneStop, L!LaneNext
    <3> QED BY <3>3, <3>4
  <2>12. CASE Reply
    <3>1. /\ spc = "reply" /\ spc' = "select" /\ asked' = [asked EXCEPT ![serving] = -1]
          /\ UNCHANGED <<alog, handed>>
      BY <2>12 DEF Reply
    <3>2. serving \in Flushers /\ asked[serving] # -1 /\ handed >= asked[serving]
      <4>1. serving # NoCall /\ handed >= asked[serving] /\ serving \in Flushers
        BY <3>1 DEF FlushCallInv, LaneTypes
      <4>2. fpc[serving] = "waiting" BY <4>1 DEF FlushCallInv
      <4> QED BY <4>1, <4>2 DEF FlushCallInv
    <3>3. L!FlushEnd(serving) BY <3>1, <3>2 DEF L!FlushEnd
    <3> QED BY <3>2, <3>3 DEF L!LaneNext
  <2>13. CASE UNCHANGED vars BY <2>13 DEF vars, laneVars, callerVars
  <2> QED BY <2>2, <2>3, <2>4, <2>5, <2>6, <2>7, <2>8, <2>9, <2>10, <2>11, <2>12, <2>13
         DEF Next, Service, Stopped
<1> QED BY <1>1, <1>2, LaneInductive, PTL DEF ImplementsLane, L!LaneSpec, Spec
=============================================================================
