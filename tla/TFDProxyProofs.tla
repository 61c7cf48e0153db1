--------------------------- MODULE TFDProxyProofs ---------------------------
(***************************************************************************)
(* Proofs about TFDProxy, for any requests, callers, buffer size and       *)
(* number of restarts.                                                     *)
(***************************************************************************)
EXTENDS TFDProxy, SumProofs, SequenceTheorems, TLAPS

-----------------------------------------------------------------------------
(* Logs, as functions of sequences of chunks.                              *)

Records == [cell : Cells, delta : Int, of : SUBSET Envelopes]
Chunks == [rec : Records, half : {1, 2}]

\* The requests of a lane.
Of(l) == {e \in Envelopes : Classify(e) = l}

\* Where the whole lines of a log begin, and what they stand for.
Begins(s) == {j \in 1..(Len(s) - 1) : j % 2 = 1}
Written(s) == UNION {s[j].rec.of : j \in Begins(s)}

\* Lines one after the other, the last one perhaps not to its end.
InLines(s) ==
    \A j \in 1..Len(s) :
        /\ s[j].half = IF j % 2 = 1 THEN 1 ELSE 2
        /\ j % 2 = 0 => s[j].rec = s[j - 1].rec

\* A record is the sum of requests of one cell.
SoundRecord(r, R) ==
    /\ r.of \subseteq R
    /\ \A e \in r.of : CellOf(e) = r.cell
    /\ r.delta = SumOver([e \in r.of |-> Delta(e)], r.of)

\* No request is in two lines.
Once(s) == \A i, j \in Begins(s) : i # j => s[i].rec.of \cap s[j].rec.of = {}

GoodLog(s, R) ==
    /\ InLines(s) /\ Once(s)
    /\ \A j \in 1..Len(s) : SoundRecord(s[j].rec, R)

-----------------------------------------------------------------------------
(* The inductive invariant.                                                *)

Log(l) == file[l] \o buf[l]
Waiting == {alog[j] : j \in (handed + 1)..Len(alog)}
Serving == {"route", "create", "enqueue", "append", "ack"}
Reading == {"flush", "flushS", "flushV", "readS", "readV", "answer"}

TypeInv ==
    /\ TypeOK
    /\ buf \in [LaneNames -> Seq(Chunks)] /\ file \in [LaneNames -> Seq(Chunks)]
    /\ closed \in [LaneNames -> BOOLEAN]
    /\ alog \in Seq(Envelopes) /\ asked \in [Callers -> Int]
    /\ pc \in [Callers -> {"idle"} \cup Serving \cup Reading]
    /\ want \in [Callers -> SUBSET Envelopes]
    /\ issued \subseteq Envelopes /\ void \subseteq Envelopes
    /\ torn \in BOOLEAN /\ stopped \in BOOLEAN
    /\ gen \in Callers /\ DOMAIN st = Callers

\* What the order of the deferred calls leaves behind.
PhaseInv ==
    /\ phase = "crashed" => must = safe /\ buf = Empty
    /\ phase = "exited" => buf = Empty
    /\ phase \in {"exited", "crashed"} => alog = <<>> /\ handed = 0 /\ \A c \in Callers : pc[c] = "idle"
    /\ Alive => ~closed["S"] /\ (closed["V"] <=> phase \in {"vclosed", "laneDone"})
    /\ closed["V"] => buf["V"] = <<>>

\* Each request goes into the lane or to the router, and is on its way once.
CallerInv ==
    /\ \A c \in Callers : pc[c] \in Serving => req[c] \in issued /\ Classify(req[c]) \in {"S", "V"}
    /\ \A c \in Callers : pc[c] \in Serving \ {"ack"} => Classify(req[c]) = "V"
    /\ \A c, d \in Callers : c # d /\ pc[c] \in Serving /\ pc[d] \in Serving => req[c] # req[d]
    /\ \A i, j \in 1..Len(alog) : i # j => alog[i] # alog[j]
    /\ \A j \in 1..Len(alog) : alog[j] \in issued \cap Of("S")
    /\ \A e \in issued : Classify(e) \in {"S", "V"}
    /\ \A c \in Callers : want[c] \subseteq must

\* Unless a life began on a torn file, the logs are sound, and a request is in one place.
LogInv ==
    ~torn =>
      /\ \A l \in LaneNames : GoodLog(Log(l), issued \cap Of(l))
      /\ \A l \in LaneNames : phase # "crashed" => Len(Log(l)) % 2 = 0
      /\ void \subseteq issued \cap Of("S") /\ BaselineApply(void) = NewState
      /\ void \cap Written(Log("S")) = {}
      /\ Waiting \cap (Written(Log("S")) \cup void) = {}
      /\ \A c \in Callers : pc[c] \in Serving \ {"ack"} => req[c] \notin Written(Log("V"))

\* What was acknowledged is in a log, in the lane, or in a batch that summed to 0.
Logged == Written(Log("S")) \cup void \cup Written(Log("V"))
InFile == Written(file["S"]) \cup void \cup Written(file["V"])

MustInv ==
    ~torn =>
      /\ phase # "crashed" => must \subseteq Logged \cup Waiting
      /\ phase \in {"laneDone", "exited"} => must \subseteq Logged
      /\ safe \subseteq InFile
      /\ \A c \in Callers : pc[c] = "ack" /\ phase = "up" => req[c] \in Logged \cup Waiting

\* /state: what has become of the requests that it must show.
StateOf(c) ==
    /\ pc[c] = "flush" => /\ asked[c] \in 0..Len(alog)
                          /\ want[c] \subseteq Logged \cup {alog[j] : j \in (handed + 1)..asked[c]}
    /\ pc[c] = "flushS" => want[c] \subseteq Logged
    /\ pc[c] \in {"flushV", "readS", "readV", "answer"} =>
          want[c] \cap Of("S") \subseteq InFile /\ want[c] \subseteq Logged
    /\ pc[c] \in {"readS", "readV", "answer"} => want[c] \subseteq InFile
    /\ pc[c] \notin {"readV", "answer"} => st[c] = NewState
    /\ pc[c] = "readV" =>
          \E R \in SUBSET (issued \cap Of("S")) :
              want[c] \cap Of("S") \subseteq R /\ st[c] = BaselineApply(R)
    /\ pc[c] = "answer" =>
          \E R \in SUBSET issued : want[c] \subseteq R /\ st[c] = BaselineApply(R)

StateInv == ~torn => \A c \in Callers : StateOf(c)

ProxyInv == TypeInv /\ PhaseInv /\ CallerInv /\ LogInv /\ MustInv /\ StateInv

-----------------------------------------------------------------------------
(* Lines and logs.                                                         *)

\* What Lines makes of records.
LEMMA LinesAre ==
    ASSUME NEW recs \in Seq(Records)
    PROVE  /\ Lines(recs) \in Seq(Chunks) /\ Len(Lines(recs)) = 2 * Len(recs)
           /\ \A j \in 1..(2 * Len(recs)) :
                 /\ (j + 1) \div 2 \in 1..Len(recs)
                 /\ Lines(recs)[j].rec = recs[(j + 1) \div 2]
                 /\ Lines(recs)[j].half = IF j % 2 = 1 THEN 1 ELSE 2
<1>1. Len(recs) \in Nat /\ \A i \in 1..Len(recs) : recs[i] \in Records OBVIOUS
<1>2. \A j \in 1..(2 * Len(recs)) : (j + 1) \div 2 \in 1..Len(recs) BY <1>1
<1>3. ASSUME NEW j \in 1..(2 * Len(recs))
      PROVE  /\ Lines(recs)[j].rec = recs[(j + 1) \div 2]
             /\ Lines(recs)[j].half = IF j % 2 = 1 THEN 1 ELSE 2
             /\ Lines(recs)[j] \in Chunks
  <2> DEFINE r == recs[(j + 1) \div 2]
  <2>1. Lines(recs)[j] = Line(r)[IF j % 2 = 1 THEN 1 ELSE 2] BY DEF Lines
  <2>2. r \in Records BY <1>1, <1>2
  <2> HIDE DEF r
  <2>3. Line(r)[1] = [rec |-> r, half |-> 1] /\ Line(r)[2] = [rec |-> r, half |-> 2] BY DEF Line
  <2>4. Lines(recs)[j] = [rec |-> r, half |-> IF j % 2 = 1 THEN 1 ELSE 2] BY <2>1, <2>3
  <2> QED BY <2>2, <2>4 DEF Chunks, r
<1>4. DOMAIN Lines(recs) = 1..(2 * Len(recs)) BY DEF Lines
<1>5. 2 * Len(recs) \in Nat BY <1>1
<1>6. Lines(recs) = [j \in 1..(2 * Len(recs)) |-> Lines(recs)[j]] BY DEF Lines
<1>7. Lines(recs) \in Seq(Chunks) BY <1>3, <1>5, <1>6, IsASeq
<1>8. Len(Lines(recs)) = 2 * Len(recs) BY <1>4, <1>5, <1>7, LenProperties
<1> QED BY <1>2, <1>3, <1>7, <1>8

\* A good log with the lines of sound records of new requests behind it is a good log.
LEMMA LogGrows ==
    ASSUME NEW s \in Seq(Chunks), NEW R, GoodLog(s, R), Len(s) % 2 = 0,
           NEW recs \in Seq(Records), \A i \in 1..Len(recs) : SoundRecord(recs[i], R),
           \A i, j \in 1..Len(recs) : i # j => recs[i].of \cap recs[j].of = {},
           \A i \in 1..Len(recs) : recs[i].of \cap Written(s) = {}
    PROVE  LET u == s \o Lines(recs)
           IN /\ GoodLog(u, R) /\ Len(u) % 2 = 0
              /\ Written(u) = Written(s) \cup UNION {recs[i].of : i \in 1..Len(recs)}
<1> DEFINE t == Lines(recs)
           u == s \o t
           L == Len(s)
           M == Len(recs)
<1>1. /\ t \in Seq(Chunks) /\ Len(t) = 2 * M
      /\ \A j \in 1..(2 * M) : /\ (j + 1) \div 2 \in 1..M /\ t[j].rec = recs[(j + 1) \div 2]
                               /\ t[j].half = IF j % 2 = 1 THEN 1 ELSE 2
  BY LinesAre
<1> HIDE DEF t
<1>2. /\ u \in Seq(Chunks) /\ Len(u) = L + Len(t)
      /\ \A i \in 1..L + Len(t) : u[i] = IF i <= L THEN s[i] ELSE t[i - L]
  BY <1>1, ConcatProperties, ZenonT(30)
<1> HIDE DEF u
<1>3. L \in Nat /\ M \in Nat /\ L % 2 = 0 /\ Len(u) = L + 2 * M BY <1>1, <1>2
<1> DEFINE at(j) == (j - L + 1) \div 2
<1>4. \A j \in 1..L : u[j] = s[j] BY <1>2, <1>3
<1>5. ASSUME NEW j \in 1..Len(u), j > L
      PROVE  /\ at(j) \in 1..M /\ u[j].rec = recs[at(j)]
             /\ u[j].half = IF j % 2 = 1 THEN 1 ELSE 2
  <2>1. j - L \in 1..(2 * M) /\ (j - L) % 2 = j % 2 BY <1>3, <1>5
  <2>2. j \in 1..L + Len(t) /\ ~(j <= L)
    <3>1. Len(u) = L + Len(t) BY <1>2
    <3>2. L \in Nat /\ j \in Int BY <1>3
    <3>3. ~(j <= L) BY <1>5, <3>2
    <3> QED BY <3>1, <3>3
  <2>3. u[j] = t[j - L] BY <1>2, <2>2
  <2> QED BY <1>1, <2>1, <2>3
<1>half. \A i \in Int : /\ i % 2 = 1 => \E a \in Int : i = 2 * a + 1
                        /\ i % 2 = 0 => \E a \in Int : i = 2 * a
  <2> SUFFICES ASSUME NEW i \in Int
               PROVE  /\ i % 2 = 1 => i = 2 * (i \div 2) + 1 /\ i \div 2 \in Int
                      /\ i % 2 = 0 => i = 2 * (i \div 2) /\ i \div 2 \in Int
    OBVIOUS
  <2> QED OBVIOUS
<1>odd. ASSUME NEW i \in Int, i % 2 = 1
        PROVE  \E a \in Int : i = 2 * a + 1 /\ at(i) = a + 1 - (L \div 2)
  <2>1. PICK a \in Int : i = 2 * a + 1 BY <1>half, <1>odd
  <2>2. PICK b \in Int : L = 2 * b BY <1>3, <1>half
  <2>3. L \div 2 = b BY <2>2
  <2>4. (2 * (a - b) + 2) \div 2 = (a - b) + 1 BY <2>1, <2>2
  <2>5. i - L + 1 = 2 * (a - b) + 2 BY <2>1, <2>2
  <2>6. at(i) = a + 1 - b BY <2>4, <2>5
  <2> QED BY <2>1, <2>3, <2>6
<1>even. ASSUME NEW i \in Int, i % 2 = 0
         PROVE  at(i - 1) = at(i)
  <2>1. PICK a \in Int : i = 2 * a BY <1>half, <1>even
  <2>2. PICK b \in Int : L = 2 * b BY <1>3, <1>half
  <2>3. i - L + 1 = 2 * (a - b) + 1 /\ (i - 1) - L + 1 = 2 * (a - b) BY <2>1, <2>2
  <2>4. (2 * (a - b) + 1) \div 2 = a - b /\ (2 * (a - b)) \div 2 = a - b BY <2>1, <2>2
  <2> QED BY <2>3, <2>4
<1>6. InLines(u)
  <2> SUFFICES ASSUME NEW j \in 1..Len(u)
               PROVE  /\ u[j].half = IF j % 2 = 1 THEN 1 ELSE 2
                      /\ j % 2 = 0 => u[j].rec = u[j - 1].rec
    BY DEF InLines
  <2>1. CASE j <= L
    <3>1. j \in 1..L /\ (j % 2 = 0 => j - 1 \in 1..L) BY <1>3, <2>1
    <3> QED BY <1>4, <3>1 DEF GoodLog, InLines
  <2>2. CASE j > L
    <3>1. j % 2 = 0 => j - 1 \in 1..Len(u) /\ j - 1 > L BY <1>3, <2>2
    <3>2. j % 2 = 0 => at(j - 1) = at(j) BY <1>even
    <3> HIDE DEF at
    <3> QED BY <1>5, <2>2, <3>1, <3>2
  <2> QED BY <1>3, <2>1, <2>2
<1>7. \A j \in 1..Len(u) : SoundRecord(u[j].rec, R)
  <2> SUFFICES ASSUME NEW j \in 1..Len(u) PROVE SoundRecord(u[j].rec, R) OBVIOUS
  <2>1. CASE j <= L
    <3>1. j \in 1..L BY <1>3, <2>1
    <3> QED BY <1>4, <3>1 DEF GoodLog
  <2>2. CASE j > L BY <1>5, <2>2
  <2> QED BY <1>3, <2>1, <2>2
<1>8. Begins(s) = {j \in Begins(u) : j <= L} BY <1>3 DEF Begins
<1>9. \A j \in Begins(u) : j \in 1..Len(u) /\ (j > L => at(j) \in 1..M /\ u[j].rec = recs[at(j)])
  BY <1>3, <1>5 DEF Begins
<1>10. \A i, j \in Begins(u) : i > L /\ j > L /\ i # j => at(i) # at(j)
  <2> SUFFICES ASSUME NEW i \in Begins(u), NEW j \in Begins(u), at(i) = at(j) PROVE i = j OBVIOUS
  <2>1. i \in Int /\ j \in Int /\ i % 2 = 1 /\ j % 2 = 1 BY DEF Begins
  <2>2. PICK a \in Int : i = 2 * a + 1 /\ at(i) = a + 1 - (L \div 2) BY <1>odd, <2>1
  <2>3. PICK b \in Int : j = 2 * b + 1 /\ at(j) = b + 1 - (L \div 2) BY <1>odd, <2>1
  <2>4. L \div 2 \in Int BY <1>3
  <2> HIDE DEF at
  <2> QED BY <2>2, <2>3, <2>4
<1>11. \A j \in Begins(u) : j <= L => j \in Begins(s) /\ u[j] = s[j] /\ s[j].rec.of \subseteq Written(s)
  <2>1. \A j \in Begins(s) : j \in 1..L /\ s[j].rec.of \subseteq Written(s) BY <1>3, SMTT(30) DEF Begins, Written
  <2> QED BY <1>4, <1>8, <2>1
<1>12. Once(u)
  <2> SUFFICES ASSUME NEW i \in Begins(u), NEW j \in Begins(u), i # j
               PROVE  u[i].rec.of \cap u[j].rec.of = {}
    BY DEF Once
  <2>0. i \in Int /\ j \in Int BY DEF Begins
  <2>1. CASE i <= L /\ j <= L BY <1>11, <2>1 DEF GoodLog, Once
  <2>2. CASE i <= L /\ j > L
    <3>1. u[i].rec.of \subseteq Written(s) BY <1>11, <2>2
    <3>2. recs[at(j)].of \cap Written(s) = {} /\ u[j].rec = recs[at(j)] BY <1>9, <2>2
    <3> QED BY <3>1, <3>2
  <2>3. CASE i > L /\ j <= L
    <3>1. u[j].rec.of \subseteq Written(s) BY <1>11, <2>3
    <3>2. recs[at(i)].of \cap Written(s) = {} /\ u[i].rec = recs[at(i)] BY <1>9, <2>3
    <3> QED BY <3>1, <3>2
  <2>4. CASE i > L /\ j > L
    <3>1. at(i) \in 1..M /\ at(j) \in 1..M /\ at(i) # at(j) BY <1>9, <1>10, <2>4
    <3>2. u[i].rec = recs[at(i)] /\ u[j].rec = recs[at(j)] BY <1>9, <2>4
    <3> HIDE DEF at
    <3> QED BY <3>1, <3>2
  <2> QED BY <1>3, <2>0, <2>1, <2>2, <2>3, <2>4
<1>13. Written(u) = Written(s) \cup UNION {recs[i].of : i \in 1..M}
  <2>1. \A i \in 1..M : 2 * i - 1 + L \in Begins(u) /\ 2 * i - 1 + L > L /\ at(2 * i - 1 + L) = i
    BY <1>3 DEF Begins
  <2>2. \A j \in Begins(s) : j \in Begins(u) /\ u[j] = s[j] BY <1>8, <1>11
  <2>3. \A j \in Begins(u) : j \in Int BY DEF Begins
  <2>4. ASSUME NEW e \in Written(u) PROVE e \in Written(s) \cup UNION {recs[i].of : i \in 1..M}
    <3>1. PICK j \in Begins(u) : e \in u[j].rec.of BY <2>4 DEF Written
    <3>2. CASE j <= L BY <1>11, <3>1, <3>2
    <3>3. CASE j > L BY <1>9, <3>1, <3>3
    <3> QED BY <1>3, <2>3, <3>2, <3>3
  <2>5. ASSUME NEW e \in Written(s) PROVE e \in Written(u) BY <2>2, <2>5 DEF Written
  <2>6. ASSUME NEW i \in 1..M, NEW e \in recs[i].of PROVE e \in Written(u)
    <3>1. u[2 * i - 1 + L].rec = recs[i] BY <1>9, <2>1
    <3> QED BY <2>1, <2>6, <3>1 DEF Written
  <2> QED BY <2>4, <2>5, <2>6
<1>14. Len(u) % 2 = 0 BY <1>3
<1> QED BY <1>6, <1>7, <1>12, <1>13, <1>14 DEF GoodLog, u, t

\* The beginning of a good log is one, and holds no more.
LEMMA LogPrefix ==
    ASSUME NEW s \in Seq(Chunks), NEW t \in Seq(Chunks)
    PROVE  /\ \A R : GoodLog(s \o t, R) => GoodLog(s, R)
           /\ Written(s) \subseteq Written(s \o t)
<1> DEFINE u == s \o t
<1>1. /\ Len(u) = Len(s) + Len(t) /\ \A i \in 1..Len(s) : u[i] = s[i]
      /\ Len(s) \in Nat /\ Len(t) \in Nat
  BY ConcatProperties
<1> HIDE DEF u
<1>2. Begins(s) \subseteq Begins(u) /\ \A j \in Begins(s) : u[j] = s[j] BY <1>1 DEF Begins
<1>3. Written(s) \subseteq Written(u) BY <1>2 DEF Written
<1>4. ASSUME NEW R, GoodLog(u, R) PROVE GoodLog(s, R)
  <2>1. Once(s) BY <1>2, <1>4 DEF GoodLog, Once
  <2>2. \A j \in 1..Len(s) : j \in 1..Len(u) /\ (j % 2 = 0 => j - 1 \in 1..Len(s)) BY <1>1
  <2>3. InLines(s) BY <1>1, <1>4, <2>2 DEF GoodLog, InLines
  <2>4. \A j \in 1..Len(s) : SoundRecord(s[j].rec, R) BY <1>1, <1>4, <2>2 DEF GoodLog
  <2> QED BY <2>1, <2>3, <2>4 DEF GoodLog
<1> QED BY <1>3, <1>4 DEF u

\* More requests.
LEMMA LogWider ==
    ASSUME NEW s, NEW R, NEW Q, R \subseteq Q, GoodLog(s, R)
    PROVE  GoodLog(s, Q)
BY DEF GoodLog, SoundRecord

-----------------------------------------------------------------------------
(* Deltas, batches and states.                                             *)

Deltas == [e \in Envelopes |-> Delta(e)]

\* The delta of a request is an integer.
LEMMA DeltaIsInt == \A e \in Envelopes : Delta(e) \in Int /\ Deltas[e] = Delta(e) /\ CellOf(e) \in Cells
<1> SUFFICES ASSUME NEW e \in Envelopes
             PROVE  Delta(e) \in Int /\ Deltas[e] = Delta(e) /\ CellOf(e) \in Cells
  OBVIOUS
<1>1. e.amount \in Int /\ -e.amount \in Int BY ProxyAssumption
<1>2. CASE e.kind = "set_limit" BY <1>2 DEF Delta, Deltas, Cells
<1>3. CASE e.kind = "reverse" BY <1>1, <1>3 DEF Delta, Deltas, Cells
<1>4. CASE e.kind \notin {"set_limit", "reverse"}
  <2>1. Delta(e) = e.amount BY <1>4 DEF Delta
  <2> QED BY <1>1, <2>1 DEF Deltas, Cells
<1> QED BY <1>2, <1>3, <1>4

\* The sum over some requests.
LEMMA SumOfDeltas ==
    ASSUME NEW S, S \subseteq Envelopes
    PROVE  /\ SumOver([e \in S |-> Delta(e)], S) = SumOver(Deltas, S)
           /\ SumOver(Deltas, S) \in Int /\ IsFiniteSet(S)
<1> DEFINE f == [e \in S |-> Delta(e)]
<1>1. IsFiniteSet(S) BY ProxyAssumption, FS_Subset
<1>2. \A e \in S : f[e] = Deltas[e] /\ Deltas[e] \in Int BY DeltaIsInt
<1> HIDE DEF f
<1>3. SumOver(f, S) = SumOver(Deltas, S) BY ONLY <1>1, <1>2, SumSame
<1>4. SumOver(Deltas, S) \in Int BY ONLY <1>1, <1>2, SumType
<1> QED BY <1>1, <1>3, <1>4 DEF f

\* What a single log gives, cell by cell.
LEMMA BaselineIs ==
    ASSUME NEW R, R \subseteq Envelopes
    PROVE  /\ BaselineApply(R) \in [Cells -> Int]
           /\ \A c \in Cells : BaselineApply(R)[c] = SumOver(Deltas, {e \in R : CellOf(e) = c})
<1> DEFINE recs == [e \in R |-> [cell |-> CellOf(e), delta |-> Delta(e)]]
           g == [j \in DOMAIN recs |-> recs[j].delta]
           At(c) == {j \in DOMAIN recs : recs[j].cell = c}
<1>1. BaselineApply(R) = [c \in Cells |-> NewState[c] + SumOver(g, At(c))] BY DEF BaselineApply, Applied
<1>2. ASSUME NEW c \in Cells
      PROVE  NewState[c] + SumOver(g, At(c)) = SumOver(Deltas, {e \in R : CellOf(e) = c})
             /\ SumOver(Deltas, {e \in R : CellOf(e) = c}) \in Int
  <2> DEFINE S == {e \in R : CellOf(e) = c}
  <2>1. At(c) = S OBVIOUS
  <2>2. \A e \in S : g[e] = Deltas[e] BY DeltaIsInt
  <2>3. S \subseteq Envelopes OBVIOUS
  <2> HIDE DEF S, g, At
  <2>4. IsFiniteSet(S) /\ SumOver(Deltas, S) \in Int BY <2>3, SumOfDeltas
  <2>5. SumOver(g, S) = SumOver(Deltas, S) BY ONLY <2>2, <2>4, SumSame
  <2>6. NewState[c] = 0 BY DEF NewState
  <2> QED BY <2>1, <2>4, <2>5, <2>6 DEF S
<1> HIDE DEF g, At
<1> QED BY <1>1, <1>2

\* Two sets of requests that have none in common.
LEMMA BaselineUnion ==
    ASSUME NEW A, A \subseteq Envelopes, NEW B, B \subseteq Envelopes, A \cap B = {}, NEW c \in Cells
    PROVE  BaselineApply(A \cup B)[c] = BaselineApply(A)[c] + BaselineApply(B)[c]
<1> DEFINE X == {e \in A : CellOf(e) = c}
           Y == {e \in B : CellOf(e) = c}
<1>1. {e \in A \cup B : CellOf(e) = c} = X \cup Y /\ X \cap Y = {} /\ A \cup B \subseteq Envelopes OBVIOUS
<1>2. X \subseteq Envelopes /\ Y \subseteq Envelopes OBVIOUS
<1>3. /\ BaselineApply(A \cup B)[c] = SumOver(Deltas, {e \in A \cup B : CellOf(e) = c})
      /\ BaselineApply(A)[c] = SumOver(Deltas, X) /\ BaselineApply(B)[c] = SumOver(Deltas, Y)
  BY <1>1, BaselineIs
<1> HIDE DEF X, Y
<1>4. IsFiniteSet(X) /\ IsFiniteSet(Y) /\ \A e \in X \cup Y : Deltas[e] \in Int
  BY <1>2, SumOfDeltas, DeltaIsInt
<1>5. SumOver(Deltas, X \cup Y) = SumOver(Deltas, X) + SumOver(Deltas, Y)
  BY ONLY <1>1, <1>4, SumUnion
<1> QED BY <1>1, <1>3, <1>5

\* Nothing applied to nothing.
LEMMA BaselineEmpty == BaselineApply({}) = NewState
<1>1. BaselineApply({}) \in [Cells -> Int] /\ \A c \in Cells : BaselineApply({})[c] = SumOver(Deltas, {})
  <2>1. \A c \in Cells : {e \in {} : CellOf(e) = c} = {} OBVIOUS
  <2> QED BY <2>1, BaselineIs
<1>2. SumOver(Deltas, {}) = 0 BY SumEmpty
<1> QED BY <1>1, <1>2 DEF NewState

\* Replaying a good log is applying the requests in its whole lines.
LEMMA ReplayIs ==
    ASSUME TypeInv, NEW l \in LaneNames, NEW R, R \subseteq Envelopes, GoodLog(file[l], R),
           NEW s \in [Cells -> Int]
    PROVE  /\ Written(file[l]) \subseteq R
           /\ Applied(s, ReadAll(l)) = [c \in Cells |-> s[c] + BaselineApply(Written(file[l]))[c]]
<1> DEFINE f == file[l]
           W == Written(f)
           recs == ReadAll(l)
           g == [j \in DOMAIN recs |-> recs[j].delta]
           At(c) == {j \in DOMAIN recs : recs[j].cell = c}
<1>1. f \in Seq(Chunks) /\ Len(f) \in Nat BY DEF TypeInv
<1>2. DOMAIN recs = Begins(f) /\ \A j \in Begins(f) : recs[j] = f[j].rec
  <2> DEFINE whole == {j \in 1..(Len(f) - 1) :
                         /\ f[j].half = 1 /\ f[j + 1].half = 2
                         /\ j > 1 => f[j - 1].half = 2}
  <2>1. recs = [j \in whole |-> f[j].rec] BY DEF ReadAll
  <2>2. \A j \in 1..Len(f) : f[j].half = IF j % 2 = 1 THEN 1 ELSE 2 BY DEF GoodLog, InLines
  <2>3. whole = Begins(f)
    <3>1. ASSUME NEW j \in 1..(Len(f) - 1)
          PROVE  (f[j].half = 1 /\ f[j + 1].half = 2 /\ (j > 1 => f[j - 1].half = 2)) <=> j % 2 = 1
      <4>1. j \in 1..Len(f) /\ j + 1 \in 1..Len(f) /\ (j > 1 => j - 1 \in 1..Len(f)) BY <1>1
      <4>2. j % 2 = 1 => (j + 1) % 2 # 1 /\ (j > 1 => (j - 1) % 2 # 1) OBVIOUS
      <4> QED BY <2>2, <4>1, <4>2
    <3> QED BY <3>1 DEF Begins
  <2> HIDE DEF whole
  <2> QED BY <2>1, <2>3
<1>3. \A j \in Begins(f) : j \in 1..Len(f) /\ SoundRecord(f[j].rec, R) /\ f[j].rec.of \subseteq W
  BY <1>1 DEF Begins, GoodLog, Written
<1>4. W \subseteq R
  <2>1. \A e \in W : \E j \in Begins(f) : e \in f[j].rec.of BY DEF Written
  <2> QED BY <1>3, <2>1 DEF SoundRecord
<1> DEFINE own == [e \in W |-> CHOOSE j \in Begins(f) : e \in f[j].rec.of]
<1>5. \A e \in W : own[e] \in Begins(f) /\ e \in f[own[e]].rec.of BY DEF Written
<1> HIDE DEF own
<1>6. \A j \in Begins(f), e \in W : e \in f[j].rec.of => own[e] = j BY <1>5 DEF GoodLog, Once
<1> HIDE DEF recs
<1>7. ASSUME NEW c \in Cells
      PROVE  SumOver(g, At(c)) = BaselineApply(W)[c]
  <2> DEFINE B == {e \in W : CellOf(e) = c}
             C == {j \in Begins(f) : f[j].rec.cell = c}
             F == [j \in C |-> SumOver(Deltas, {b \in B : own[b] = j})]
  <2>1. At(c) = C BY <1>2
  <2>2. B \subseteq Envelopes BY <1>4
  <2>3. IsFiniteSet(B) /\ \A b \in B : Deltas[b] \in Int BY <2>2, SumOfDeltas, DeltaIsInt
  <2>4. IsFiniteSet(C)
    <3>1. C \subseteq 1..Len(f) BY <1>3
    <3>2. IsFiniteSet(1..Len(f)) BY <1>1, FS_Interval
    <3> HIDE DEF C
    <3> QED BY ONLY <3>1, <3>2, FS_Subset
  <2>5. {b \in B : own[b] \in C} = B BY <1>3, <1>5 DEF SoundRecord
  <2>6. \A j \in C : {b \in B : own[b] = j} = f[j].rec.of
    <3> SUFFICES ASSUME NEW j \in C PROVE {b \in B : own[b] = j} = f[j].rec.of OBVIOUS
    <3>1. j \in Begins(f) /\ f[j].rec.cell = c OBVIOUS
    <3>2. \A e \in f[j].rec.of : e \in W /\ CellOf(e) = c BY <1>3, <3>1 DEF SoundRecord
    <3>3. \A e \in f[j].rec.of : own[e] = j BY <1>6, <3>1, <3>2
    <3> QED BY <1>5, <3>1, <3>2, <3>3
  <2>7. \A j \in C : g[j] = F[j]
    <3> SUFFICES ASSUME NEW j \in C PROVE g[j] = F[j] OBVIOUS
    <3>1. j \in Begins(f) OBVIOUS
    <3>2. g[j] = f[j].rec.delta BY <1>2, <3>1
    <3>3. f[j].rec.of \subseteq Envelopes /\ f[j].rec.delta = SumOver([e \in f[j].rec.of |-> Delta(e)], f[j].rec.of)
      BY <1>3, <3>1 DEF SoundRecord
    <3>4. f[j].rec.delta = SumOver(Deltas, f[j].rec.of) BY <3>3, SumOfDeltas
    <3> QED BY <2>6, <3>2, <3>4
  <2>8. BaselineApply(W)[c] = SumOver(Deltas, B)
    <3>1. W \subseteq Envelopes BY <1>4
    <3> QED BY <3>1, BaselineIs
  <2> HIDE DEF B, C, g, At
  <2>9. SumOver(F, C) = SumOver(Deltas, {b \in B : own[b] \in C}) BY ONLY <2>3, <2>4, SumFibres
  <2> HIDE DEF F
  <2>10. SumOver(g, C) = SumOver(F, C) BY ONLY <2>4, <2>7, SumSame
  <2> QED BY <2>1, <2>5, <2>8, <2>9, <2>10
<1>8. Applied(s, recs) = [c \in Cells |-> s[c] + SumOver(g, At(c))] BY DEF Applied
<1> HIDE DEF g, At, W
<1>9. Applied(s, recs) = [c \in Cells |-> s[c] + BaselineApply(W)[c]] BY <1>7, <1>8
<1> QED BY <1>4, <1>9 DEF W, recs

\* A batch stands for the requests of its cell.
LEMMA BatchIs ==
    ASSUME NEW G, G \subseteq Envelopes, NEW c \in Cells
    PROVE  /\ Batch(G, c).of = {e \in G : CellOf(e) = c} /\ Batch(G, c).cell = c
           /\ Batch(G, c) \in Records
           /\ Batch(G, c).delta = SumOver(Deltas, Batch(G, c).of)
           /\ \A R : G \subseteq R => SoundRecord(Batch(G, c), R)
<1> DEFINE of == {e \in G : CellOf(e) = c}
           d == SumOver([e \in of |-> Delta(e)], of)
<1>1. Batch(G, c) = [cell |-> c, delta |-> d, of |-> of] BY DEF Batch
<1>2. of \subseteq Envelopes OBVIOUS
<1> HIDE DEF of
<1>3. d = SumOver(Deltas, of) /\ d \in Int BY <1>2, SumOfDeltas
<1> HIDE DEF d
<1>4. /\ Batch(G, c).of = of /\ Batch(G, c).cell = c /\ Batch(G, c).delta = d BY <1>1
<1>5. Batch(G, c) \in Records BY <1>1, <1>2, <1>3 DEF Records
<1>6. ASSUME NEW R, G \subseteq R PROVE SoundRecord(Batch(G, c), R)
  BY <1>4, <1>6 DEF SoundRecord, of, d
<1> QED BY <1>3, <1>4, <1>5, <1>6 DEF of

\* Together the batches stand for all of them, each in one batch.
LEMMA BatchesAre ==
    ASSUME NEW G, G \subseteq Envelopes
    PROVE  /\ IsFiniteSet(Batches(G)) /\ Batches(G) \subseteq Records
           /\ \A b \in Batches(G) : \A R : G \subseteq R => SoundRecord(b, R)
           /\ \A a, b \in Batches(G) : a # b => a.of \cap b.of = {}
           /\ UNION {b.of : b \in Batches(G)} = G
           /\ \A b \in Batches(G) : b.of \subseteq G
<1> DEFINE m == [c \in Cells |-> Batch(G, c)]
           k == [e \in Envelopes |-> CellOf(e)]
<1>1. Batches(G) = {m[c] : c \in Cells} /\ Cells = {k[e] : e \in Envelopes} BY DEF Batches, Cells
<1>2. IsFiniteSet(Envelopes) BY ProxyAssumption
<1> HIDE DEF m, k
<1>3. IsFiniteSet({k[e] : e \in Envelopes}) BY ONLY <1>2, FiniteImage
<1>4. IsFiniteSet(Cells) BY <1>1, <1>3
<1>5. IsFiniteSet({m[c] : c \in Cells}) BY ONLY <1>4, FiniteImage
<1>6. \A b \in Batches(G) : \E c \in Cells : b = Batch(G, c) BY DEF Batches
<1>of. ASSUME NEW c \in Cells
       PROVE  Batch(G, c).of \subseteq G /\ \A e \in G : e \in Batch(G, c).of <=> CellOf(e) = c
  <2>1. Batch(G, c).of = {e \in G : CellOf(e) = c} BY BatchIs
  <2> QED BY <2>1
<1>7. Batches(G) \subseteq Records BY <1>6, BatchIs
<1>8. \A b \in Batches(G) : \A R : G \subseteq R => SoundRecord(b, R) BY <1>6, BatchIs
<1>9. ASSUME NEW a \in Batches(G), NEW b \in Batches(G), a # b PROVE a.of \cap b.of = {}
  <2>1. PICK c \in Cells : a = Batch(G, c) BY <1>6
  <2>2. PICK d \in Cells : b = Batch(G, d) BY <1>6
  <2>3. c # d BY <1>9, <2>1, <2>2
  <2> QED BY <1>of, <2>1, <2>2, <2>3
<1>10. \A b \in Batches(G) : b.of \subseteq G BY <1>6, <1>of
<1>11. ASSUME NEW e \in G PROVE \E b \in Batches(G) : e \in b.of
  <2>1. CellOf(e) \in Cells BY DeltaIsInt
  <2>2. Batch(G, CellOf(e)) \in Batches(G) BY <2>1 DEF Batches
  <2> QED BY <1>of, <2>1, <2>2
<1> QED BY <1>1, <1>5, <1>7, <1>8, <1>9, <1>10, <1>11

\* The requests in batches that sum to 0 change no state.
LEMMA ZeroIsNothing ==
    ASSUME NEW G, G \subseteq Envelopes
    PROVE  BaselineApply(UNION {b.of : b \in {z \in Batches(G) : z.delta = 0}}) = NewState
<1> DEFINE Z == UNION {b.of : b \in {z \in Batches(G) : z.delta = 0}}
<1>1. Z \subseteq Envelopes BY BatchesAre
<1>2. ASSUME NEW c \in Cells PROVE SumOver(Deltas, {e \in Z : CellOf(e) = c}) = 0
  <2> DEFINE b == Batch(G, c)
  <2>1. b \in Batches(G) BY DEF Batches
  <2>2. b.of = {e \in G : CellOf(e) = c} /\ b.delta = SumOver(Deltas, b.of) BY BatchIs
  <2>3. \A a \in Batches(G), e \in Envelopes : e \in a.of /\ CellOf(e) = c => a = b
    <3> SUFFICES ASSUME NEW a \in Batches(G), NEW e \in Envelopes, e \in a.of, CellOf(e) = c PROVE a = b
      OBVIOUS
    <3>1. PICK d \in Cells : a = Batch(G, d) BY DEF Batches
    <3>2. a.of = {x \in G : CellOf(x) = d} BY <3>1, BatchIs
    <3> QED BY <3>1, <3>2
  <2>4. CASE b.delta = 0
    <3>1. {e \in Z : CellOf(e) = c} = b.of
      <4>1. \A e \in b.of : e \in Z /\ CellOf(e) = c BY <2>1, <2>2, <2>4
      <4>2. ASSUME NEW e \in Z, CellOf(e) = c PROVE e \in b.of
        <5>1. PICK a \in Batches(G) : e \in a.of OBVIOUS
        <5> QED BY <1>1, <2>3, <4>2, <5>1
      <4> QED BY <4>1, <4>2
    <3> QED BY <2>2, <2>4, <3>1
  <2>5. CASE b.delta # 0
    <3>1. {e \in Z : CellOf(e) = c} = {}
      <4> SUFFICES ASSUME NEW e \in Z, CellOf(e) = c PROVE FALSE OBVIOUS
      <4>1. PICK a \in Batches(G) : a.delta = 0 /\ e \in a.of OBVIOUS
      <4> QED BY <1>1, <2>3, <2>5, <4>1
    <3> QED BY <3>1, SumEmpty
  <2> QED BY <2>4, <2>5
<1> HIDE DEF Z
<1>3. BaselineApply(Z) \in [Cells -> Int] /\ \A c \in Cells : BaselineApply(Z)[c] = 0 BY <1>1, <1>2, BaselineIs
<1>4. BaselineApply(Z) = NewState BY <1>3 DEF NewState
<1> QED BY <1>4 DEF Z

-----------------------------------------------------------------------------
(* What the operations of the sinks do to the logs.                        *)

\* What is in a buffer or a file is a sequence of chunks.
SinksType ==
    /\ buf \in [LaneNames -> Seq(Chunks)] /\ file \in [LaneNames -> Seq(Chunks)]
    /\ closed \in [LaneNames -> BOOLEAN]
    /\ \A l \in LaneNames : Len(buf[l]) <= BufChunks

\* The other lane is left alone, and a file only gets longer.
Keeps(l) ==
    /\ \A m \in LaneNames \ {l} : buf'[m] = buf[m] /\ file'[m] = file[m] /\ closed'[m] = closed[m]
    /\ \A m \in LaneNames : Written(file[m]) \subseteq Written(file'[m])

\* Three logs one after the other.
LEMMA ThreeLogs == \A s, t, u \in Seq(Chunks) : (s \o t) \o u = s \o (t \o u)
<1> SUFFICES ASSUME NEW s \in Seq(Chunks), NEW t \in Seq(Chunks), NEW u \in Seq(Chunks)
             PROVE  (s \o t) \o u = s \o (t \o u)
  OBVIOUS
<1> QED BY ConcatAssociative

\* Settle splits what is to be logged between file and buffer.
LEMMA SettleSplits ==
    ASSUME SinksType, NEW l \in LaneNames, NEW all \in Seq(Chunks), NEW n \in 0..Len(all),
           Len(all) - n <= BufChunks, Settle(l, all, n)
    PROVE  /\ SinksType' /\ Keeps(l) /\ closed' = closed
           /\ Log(l)' = file[l] \o all
           /\ n = Len(all) => buf'[l] = <<>> /\ file'[l] = file[l] \o all
<1> DEFINE a == SubSeq(all, 1, n)
           b == SubSeq(all, n + 1, Len(all))
<1>1. Len(all) \in Nat /\ n \in Nat /\ n <= Len(all) /\ \A i \in 1..Len(all) : all[i] \in Chunks OBVIOUS
<1>2. a \in Seq(Chunks)
  <2>1. \A i \in 1..n : all[i] \in Chunks BY <1>1
  <2> QED BY ONLY <1>1, <2>1, SubSeqProperties
<1>3. b \in Seq(Chunks) /\ Len(b) = Len(all) - n
  <2>1. \A i \in (n + 1)..Len(all) : all[i] \in Chunks BY <1>1
  <2>2. n + 1 \in Int /\ Len(all) \in Int BY <1>1
  <2>3. b \in Seq(Chunks) /\ Len(b) = IF n + 1 <= Len(all) THEN Len(all) - (n + 1) + 1 ELSE 0
    BY ONLY <2>1, <2>2, SubSeqProperties
  <2> HIDE DEF b
  <2> QED BY <1>1, <2>3
<1>4. a \o b = all
  <2>1. 1 \in 1..Len(all) + 1 /\ n \in 1 - 1..Len(all) /\ Len(all) \in n..Len(all) BY <1>1
  <2>2. a \o b = SubSeq(all, 1, Len(all)) BY ONLY all \in Seq(Chunks), <2>1, ConcatAdjacentSubSeq
  <2> QED BY <2>2, SubSeqFull
<1>5. n = Len(all) => b = <<>> /\ a = all
  <2>1. n = Len(all) => b = <<>> BY <1>1, SubSeqEmpty
  <2> QED BY <2>1, SubSeqFull
<1>6. /\ file' = [file EXCEPT ![l] = file[l] \o a] /\ buf' = [buf EXCEPT ![l] = b] /\ closed' = closed
  BY DEF Settle
<1> HIDE DEF a, b
<1>7. file[l] \in Seq(Chunks) BY DEF SinksType
<1>8. file[l] \o a \in Seq(Chunks) BY <1>2, <1>7, ConcatProperties
<1>9. file'[l] = file[l] \o a /\ buf'[l] = b BY <1>6 DEF SinksType
<1>10. SinksType'
  <2>1. \A m \in LaneNames : Len(buf'[m]) <= BufChunks BY <1>3, <1>6 DEF SinksType
  <2> QED BY <1>3, <1>6, <1>8, <2>1 DEF SinksType
<1>11. Log(l)' = file[l] \o all
  <2>1. Log(l)' = (file[l] \o a) \o b BY <1>9 DEF Log
  <2>2. (file[l] \o a) \o b = file[l] \o (a \o b) BY ONLY <1>2, <1>3, <1>7, ThreeLogs
  <2> QED BY <1>4, <2>1, <2>2
<1>12. Keeps(l)
  <2>1. Written(file[l]) \subseteq Written(file'[l]) BY <1>2, <1>7, <1>9, LogPrefix
  <2> QED BY <1>6, <2>1 DEF Keeps, SinksType
<1> QED BY <1>5, <1>6, <1>9, <1>10, <1>11, <1>12

\* After a full buffer has gone to the file, the rest is no longer than the buffer.
LEMMA FullBuffers ==
    ASSUME NEW L \in Nat, L > 0
    PROVE  LET full == BufChunks * ((L - 1) \div BufChunks)
           IN full \in 0..L /\ L - full <= BufChunks
<1> DEFINE q == (L - 1) \div BufChunks
<1>1. BufChunks \in Nat /\ BufChunks > 0 BY SinkAssumption
<1>2. q \in Int /\ q >= 0 /\ BufChunks * q <= L - 1 /\ L - 1 < BufChunks * q + BufChunks
  BY <1>1
<1> HIDE DEF q
<1>3. BufChunks * q \in Int /\ BufChunks * q >= 0 BY <1>1, <1>2
<1>4. BufChunks * q \in 0..L /\ L - BufChunks * q <= BufChunks BY <1>1, <1>2, <1>3
<1> QED BY <1>4 DEF q

\* Write puts the lines behind the log, unless the sink is closed.
LEMMA WriteLogs ==
    ASSUME SinksType, NEW l \in LaneNames, NEW recs \in Seq(Records), Len(recs) > 0, Write(l, recs)
    PROVE  /\ SinksType' /\ Keeps(l) /\ closed' = closed
           /\ Log(l)' = IF closed[l] THEN Log(l) ELSE Log(l) \o Lines(recs)
           /\ closed[l] => UNCHANGED sinks
<1>1. CASE closed[l] /\ UNCHANGED sinks
  BY <1>1 DEF sinks, SinksType, Keeps, Log
<1>2. CASE ~closed[l]
  <2> DEFINE all == buf[l] \o Lines(recs)
  <2>1. buf[l] \in Seq(Chunks) /\ file[l] \in Seq(Chunks) BY DEF SinksType
  <2>2. Lines(recs) \in Seq(Chunks) /\ Len(Lines(recs)) = 2 * Len(recs) BY LinesAre
  <2>3. all \in Seq(Chunks) /\ Len(all) = Len(buf[l]) + Len(Lines(recs)) BY <2>1, <2>2, ConcatProperties
  <2>4. PICK n \in {BufChunks * ((Len(all) - 1) \div BufChunks), Len(all)} : Settle(l, all, n)
    BY <1>2 DEF Write
  <2>5. file[l] \o all = Log(l) \o Lines(recs)
    <3>1. (file[l] \o buf[l]) \o Lines(recs) = file[l] \o (buf[l] \o Lines(recs))
      BY ONLY <2>1, <2>2, ThreeLogs
    <3> QED BY <3>1 DEF Log
  <2> HIDE DEF all
  <2>6. Len(all) \in Nat /\ Len(all) > 0
    <3>1. Len(buf[l]) \in Nat /\ Len(recs) \in Nat BY <2>1
    <3>2. 2 * Len(recs) > 0 /\ 2 * Len(recs) \in Nat BY <3>1
    <3>3. Len(all) = Len(buf[l]) + 2 * Len(recs) BY <2>2, <2>3
    <3>4. \A x, y \in Nat : y > 0 => x + y \in Nat /\ x + y > 0 OBVIOUS
    <3> QED BY ONLY <3>1, <3>2, <3>3, <3>4, Zenon
  <2>7. n \in 0..Len(all) /\ Len(all) - n <= BufChunks
    <3>1. CASE n = Len(all) BY <2>6, <3>1, SinkAssumption
    <3>2. CASE n = BufChunks * ((Len(all) - 1) \div BufChunks) BY <2>6, <3>2, FullBuffers
    <3> QED BY <2>4, <3>1, <3>2
  <2>8. SinksType' /\ Keeps(l) /\ closed' = closed /\ Log(l)' = file[l] \o all
    BY <2>3, <2>4, <2>7, SettleSplits
  <2> QED BY <1>2, <2>5, <2>8
<1> QED BY <1>1, <1>2 DEF Write

\* Flush leaves the log as it is and, unless the sink is closed, all of it in the file.
LEMMA FlushEmpties ==
    ASSUME SinksType, NEW l \in LaneNames, SinkFlush(l)
    PROVE  /\ SinksType' /\ Keeps(l) /\ closed' = closed /\ Log(l)' = Log(l)
           /\ closed[l] => UNCHANGED sinks
           /\ ~closed[l] => buf'[l] = <<>> /\ file'[l] = Log(l)
<1>1. CASE closed[l]
  BY <1>1 DEF SinkFlush, sinks, SinksType, Keeps, Log
<1>2. CASE ~closed[l]
  <2>1. buf[l] \in Seq(Chunks) BY DEF SinksType
  <2>2. Settle(l, buf[l], Len(buf[l])) BY <1>2 DEF SinkFlush
  <2>3. Len(buf[l]) \in 0..Len(buf[l]) /\ Len(buf[l]) - Len(buf[l]) <= BufChunks
    BY <2>1, SinkAssumption
  <2>4. /\ SinksType' /\ Keeps(l) /\ closed' = closed /\ Log(l)' = file[l] \o buf[l]
        /\ buf'[l] = <<>> /\ file'[l] = file[l] \o buf[l]
    BY ONLY SinksType, l \in LaneNames, <2>1, <2>2, <2>3, SettleSplits
  <2> QED BY <1>2, <2>4 DEF Log
<1> QED BY <1>1, <1>2

\* Close leaves the log as it is, and all of it in the file.
LEMMA CloseEmpties ==
    ASSUME SinksType, NEW l \in LaneNames, SinkClose(l)
    PROVE  /\ SinksType' /\ Keeps(l) /\ closed'[l] = TRUE
           /\ Log(l)' = Log(l) /\ buf'[l] = <<>> /\ file'[l] = Log(l)
<1>1. buf[l] \in Seq(Chunks) /\ file[l] \in Seq(Chunks) BY DEF SinksType
<1>2. Log(l) \in Seq(Chunks) BY <1>1, ConcatProperties DEF Log
<1>3. /\ file' = [file EXCEPT ![l] = Log(l)] /\ buf' = [buf EXCEPT ![l] = <<>>]
      /\ closed' = [closed EXCEPT ![l] = TRUE]
  BY DEF SinkClose, Log
<1>4. file'[l] = Log(l) /\ buf'[l] = <<>> /\ closed'[l] = TRUE BY <1>3 DEF SinksType
<1>5. Written(file[l]) \subseteq Written(Log(l)) BY <1>1, LogPrefix DEF Log
<1> HIDE DEF Log
<1>6. SinksType'
  <2>1. <<>> \in Seq(Chunks) /\ Len(<<>>) = 0 OBVIOUS
  <2>2. \A m \in LaneNames : Len(buf'[m]) <= BufChunks BY <1>3, <2>1, SinkAssumption DEF SinksType
  <2> QED BY <1>2, <1>3, <2>1, <2>2 DEF SinksType
<1>7. Keeps(l) BY <1>3, <1>4, <1>5 DEF SinksType, Keeps
<1>8. Log(l)' = Log(l)
  <2>1. Log(l)' = Log(l) \o <<>> BY <1>4 DEF Log
  <2> QED BY <1>2, <2>1, ConcatEmptySeq
<1> QED BY <1>4, <1>6, <1>7, <1>8

-----------------------------------------------------------------------------
(* What handing on some envelopes does to the log of the S-lane.           *)

Group(n) == {alog[j] : j \in (handed + 1)..n}

\* The elements of a finite set of records one after the other.
LEMMA InSomeOrder ==
    ASSUME NEW S, IsFiniteSet(S), S \subseteq Records, NEW recs \in SetToSeqs(S)
    PROVE  /\ recs \in Seq(Records) /\ \A i \in 1..Len(recs) : recs[i] \in S
           /\ \A i, j \in 1..Len(recs) : i # j => recs[i] # recs[j]
           /\ \A x \in S : \E i \in 1..Len(recs) : recs[i] = x
<1> DEFINE N == Cardinality(S)
           D == 1..N
<1>1. N \in Nat BY FS_CardinalityType
<1>2. recs \in [D -> S] /\ \A i, j \in D : i # j => recs[i] # recs[j] BY DEF SetToSeqs
<1>3. IsFiniteSet(D) /\ Cardinality(D) = N BY <1>1, FS_Interval
<1> HIDE DEF N
<1>4. recs \in Seq(Records) /\ Len(recs) = N
  <2>1. recs = [i \in 1..N |-> recs[i]] /\ \A i \in 1..N : recs[i] \in Records BY <1>2
  <2>2. recs \in Seq(Records) BY <1>1, <2>1, IsASeq
  <2>3. DOMAIN recs = 1..N BY <1>2
  <2> QED BY <1>1, <2>2, <2>3, LenProperties
<1> HIDE DEF D
<1>5. recs \in Injection(D, S) BY <1>2 DEF Injection, IsInjective
<1>6. recs \in Surjection(D, S)
  <2>1. Cardinality(D) = Cardinality(S) BY <1>3 DEF N
  <2> QED BY <1>5, <2>1, FS_Injection
<1>7. \A x \in S : \E i \in D : recs[i] = x BY <1>6 DEF Surjection
<1> QED BY <1>2, <1>4, <1>7 DEF D

\* The requests in the whole lines of a good log.
LEMMA WrittenIn ==
    ASSUME NEW s \in Seq(Chunks), NEW R, GoodLog(s, R)
    PROVE  Written(s) \subseteq R
<1>1. \A j \in Begins(s) : j \in 1..Len(s) BY DEF Begins
<1>2. \A j \in Begins(s) : s[j].rec.of \subseteq R BY <1>1 DEF GoodLog, SoundRecord
<1> QED BY <1>2 DEF Written

\* The part of the types about buffers and files.
LEMMA SinksAreTyped == TypeInv => SinksType
BY DEF TypeInv, TypeOK, SinksTypeOK, SinksType

\* A log is a sequence of chunks.
LEMMA LogType == ASSUME SinksType, NEW l \in LaneNames PROVE Log(l) \in Seq(Chunks)
<1>1. file[l] \in Seq(Chunks) /\ buf[l] \in Seq(Chunks) BY DEF SinksType
<1> QED BY <1>1, ConcatProperties DEF Log

\* OnSBatches only appends, whatever happened before.
LEMMA BatchesAppend ==
    ASSUME SinksType, alog \in Seq(Envelopes), handed \in Nat, void \subseteq Envelopes,
           NEW n \in handed..Len(alog), OnSBatches(n), ~closed["S"]
    PROVE  /\ SinksType' /\ Keeps("S") /\ closed' = closed
           /\ Group(n) \subseteq Envelopes /\ void' \subseteq Envelopes
           /\ void' = void \cup UNION {b.of : b \in {z \in Batches(Group(n)) : z.delta = 0}}
           /\ \E recs \in SetToSeqs({b \in Batches(Group(n)) : b.delta # 0}) :
                 recs \in Seq(Records) /\ Log("S")' = Log("S") \o Lines(recs)
<1> DEFINE G == Group(n)
           zero == {z \in Batches(G) : z.delta = 0}
           some == {b \in Batches(G) : b.delta # 0}
<1>1. G \subseteq Envelopes
  <2>1. \A j \in (handed + 1)..n : j \in 1..Len(alog) OBVIOUS
  <2> QED BY <2>1 DEF Group
<1>2. Batches(G) \ zero = some OBVIOUS
<1>3. PICK recs \in SetToSeqs(some) : IF recs = <<>> THEN UNCHANGED sinks ELSE Write("S", recs)
  BY <1>2 DEF OnSBatches, Group
<1>4. void' = void \cup UNION {b.of : b \in zero} BY DEF OnSBatches, Group
<1> HIDE DEF G
<1>5. IsFiniteSet(some) /\ some \subseteq Records
  <2>1. some \subseteq Batches(G) OBVIOUS
  <2>2. IsFiniteSet(Batches(G)) /\ Batches(G) \subseteq Records BY <1>1, BatchesAre
  <2> HIDE DEF some
  <2> QED BY <2>1, <2>2, FS_Subset
<1> HIDE DEF some
<1>6. recs \in Seq(Records) BY <1>5, InSomeOrder
<1>7. SinksType' /\ Keeps("S") /\ closed' = closed /\ Log("S")' = Log("S") \o Lines(recs)
  <2>0. "S" \in LaneNames BY DEF LaneNames
  <2>1. CASE recs = <<>>
    <3>1. UNCHANGED sinks BY <1>3, <2>1
    <3>2. SinksType' /\ Keeps("S") /\ closed' = closed /\ Log("S")' = Log("S")
      BY <3>1 DEF sinks, SinksType, Keeps, Log
    <3>3. Lines(recs) = <<>>
      <4>1. Lines(recs) \in Seq(Chunks) /\ Len(Lines(recs)) = 2 * Len(recs) BY <1>6, LinesAre
      <4>2. Len(recs) = 0 BY <2>1
      <4>3. Len(Lines(recs)) = 0 BY <4>1, <4>2
      <4> QED BY <4>1, <4>3, EmptySeq
    <3>4. Log("S") \in Seq(Chunks) BY <2>0, LogType
    <3> QED BY <3>2, <3>3, <3>4, ConcatEmptySeq
  <2>2. CASE recs # <<>>
    <3>1. Len(recs) > 0 BY <1>6, <2>2, EmptySeq
    <3>2. Write("S", recs) BY <1>3, <2>2
    <3> QED BY <1>6, <2>0, <3>1, <3>2, WriteLogs
  <2> QED BY <2>1, <2>2
<1>8. void' \subseteq Envelopes
  <2>1. \A b \in zero : b.of \subseteq G BY <1>1, BatchesAre
  <2> QED BY <1>1, <1>4, <2>1
<1> QED BY <1>1, <1>4, <1>6, <1>7, <1>8 DEF G, some

\* On sound logs it logs each of the envelopes, or drops it with others that sum to 0.
LEMMA BatchesLogged ==
    ASSUME TypeInv, CallerInv, LogInv, ~torn, phase # "crashed",
           NEW n \in handed..Len(alog), OnSBatches(n), ~closed["S"]
    PROVE  /\ GoodLog(Log("S")', issued \cap Of("S")) /\ Len(Log("S")') % 2 = 0
           /\ void' \subseteq issued \cap Of("S") /\ BaselineApply(void') = NewState
           /\ void' \cap Written(Log("S")') = {}
           /\ Written(Log("S")') \cup void' = Written(Log("S")) \cup void \cup Group(n)
<1> DEFINE G == Group(n)
           zero == {z \in Batches(G) : z.delta = 0}
           some == {b \in Batches(G) : b.delta # 0}
           Z == UNION {b.of : b \in zero}
           Y == UNION {b.of : b \in some}
           s == Log("S")
           R == issued \cap Of("S")
<1>0. "S" \in LaneNames /\ SinksType BY SinksAreTyped DEF LaneNames
<1>1. alog \in Seq(Envelopes) /\ handed \in Nat /\ handed <= Len(alog) /\ void \subseteq Envelopes
  BY DEF TypeInv, TypeOK
<1>2. /\ G \subseteq Envelopes /\ void' = void \cup Z
      /\ \E recs \in SetToSeqs(some) : recs \in Seq(Records) /\ s' = s \o Lines(recs)
  BY <1>0, <1>1, BatchesAppend
<1>3. PICK recs \in SetToSeqs(some) : recs \in Seq(Records) /\ s' = s \o Lines(recs) BY <1>2
<1>4. G \subseteq Waiting /\ G \subseteq R
  <2>1. \A j \in (handed + 1)..n : j \in (handed + 1)..Len(alog) /\ j \in 1..Len(alog) BY <1>1
  <2> QED BY <2>1 DEF Group, Waiting, CallerInv
<1>5. /\ GoodLog(s, R) /\ Len(s) % 2 = 0 /\ s \in Seq(Chunks)
      /\ void \subseteq R /\ BaselineApply(void) = NewState /\ void \cap Written(s) = {}
      /\ G \cap Written(s) = {} /\ G \cap void = {}
  <2>1. s \in Seq(Chunks) BY <1>0, LogType
  <2>2. /\ \A l \in LaneNames : GoodLog(Log(l), issued \cap Of(l))
        /\ \A l \in LaneNames : Len(Log(l)) % 2 = 0
        /\ void \subseteq R /\ BaselineApply(void) = NewState /\ void \cap Written(s) = {}
        /\ Waiting \cap (Written(s) \cup void) = {}
    BY DEF LogInv
  <2> HIDE DEF G
  <2> QED BY <1>0, <1>4, <2>1, <2>2
<1> HIDE DEF G
<1>6. /\ IsFiniteSet(some) /\ some \subseteq Records /\ some \cup zero = Batches(G)
      /\ \A b \in Batches(G) : SoundRecord(b, R) /\ b.of \subseteq G
      /\ \A a, b \in Batches(G) : a # b => a.of \cap b.of = {}
      /\ UNION {b.of : b \in Batches(G)} = G
      /\ some \cap zero = {}
  <2>1. some \subseteq Batches(G) /\ some \cup zero = Batches(G) /\ some \cap zero = {} OBVIOUS
  <2>2. IsFiniteSet(Batches(G)) /\ Batches(G) \subseteq Records BY <1>2, BatchesAre
  <2>3. \A b \in Batches(G) : SoundRecord(b, R) /\ b.of \subseteq G BY <1>2, <1>4, BatchesAre
  <2>4. \A a, b \in Batches(G) : a # b => a.of \cap b.of = {} BY <1>2, BatchesAre
  <2>5. UNION {b.of : b \in Batches(G)} = G BY <1>2, BatchesAre
  <2> HIDE DEF some, zero
  <2> QED BY <2>1, <2>2, <2>3, <2>4, <2>5, FS_Subset
<1>7. BaselineApply(Z) = NewState BY <1>2, ZeroIsNothing
<1> HIDE DEF some, zero
<1>8. /\ \A i \in 1..Len(recs) : recs[i] \in some
      /\ \A i, j \in 1..Len(recs) : i # j => recs[i] # recs[j]
      /\ \A x \in some : \E i \in 1..Len(recs) : recs[i] = x
  BY <1>6, InSomeOrder
<1>9. UNION {recs[i].of : i \in 1..Len(recs)} = Y BY <1>8
<1>10. Z \subseteq G /\ Y \cap Z = {} /\ Y \cup Z = G
  <2>1. \A a \in some, b \in zero : a.of \cap b.of = {}
    <3> SUFFICES ASSUME NEW a \in some, NEW b \in zero PROVE a.of \cap b.of = {} OBVIOUS
    <3>1. a # b /\ a \in Batches(G) /\ b \in Batches(G) BY <1>6
    <3> QED BY <1>6, <3>1
  <2>2. \A e \in G : \E b \in some \cup zero : e \in b.of BY <1>6
  <2>3. \A b \in some \cup zero : b.of \subseteq G BY <1>6
  <2>4. (\A e \in Z : \E b \in zero : e \in b.of) /\ (\A e \in Y : \E b \in some : e \in b.of) OBVIOUS
  <2>5. (\A b \in zero : b.of \subseteq Z) /\ (\A b \in some : b.of \subseteq Y) OBVIOUS
  <2> HIDE DEF Y, Z
  <2>6. Y \cap Z = {} BY <2>1, <2>4
  <2>7. Y \cup Z \subseteq G BY <2>3, <2>4
  <2>8. G \subseteq Y \cup Z BY <2>2, <2>5
  <2> QED BY <2>6, <2>7, <2>8
<1> HIDE DEF s, Z, Y, R
<1>11. /\ \A i \in 1..Len(recs) : SoundRecord(recs[i], R) /\ recs[i].of \cap Written(s) = {}
       /\ \A i, j \in 1..Len(recs) : i # j => recs[i].of \cap recs[j].of = {}
  <2>1. \A i \in 1..Len(recs) : recs[i] \in Batches(G) BY <1>6, <1>8
  <2>2. \A i \in 1..Len(recs) : SoundRecord(recs[i], R) /\ recs[i].of \subseteq G BY <1>6, <2>1
  <2> QED BY <1>5, <1>6, <1>8, <2>1, <2>2
<1>12. /\ GoodLog(s \o Lines(recs), R) /\ Len(s \o Lines(recs)) % 2 = 0
       /\ Written(s \o Lines(recs)) = Written(s) \cup UNION {recs[i].of : i \in 1..Len(recs)}
  BY <1>3, <1>5, <1>11, LogGrows
<1>13. BaselineApply(void') = NewState
  <2>1. void \cap Z = {} /\ void \subseteq Envelopes /\ Z \subseteq Envelopes BY <1>1, <1>2, <1>5, <1>10
  <2>2. \A c \in Cells : BaselineApply(void \cup Z)[c] = BaselineApply(void)[c] + BaselineApply(Z)[c]
    BY <2>1, BaselineUnion
  <2>3. BaselineApply(void \cup Z) \in [Cells -> Int]
    <3>1. void \cup Z \subseteq Envelopes BY <2>1
    <3> QED BY <3>1, BaselineIs
  <2>4. \A c \in Cells : NewState[c] = 0 /\ NewState = [x \in Cells |-> 0] BY DEF NewState
  <2>5. ASSUME NEW c \in Cells PROVE BaselineApply(void \cup Z)[c] = 0
    <3>1. BaselineApply(void)[c] = 0 /\ BaselineApply(Z)[c] = 0 BY ONLY <1>5, <1>7, <2>4, c \in Cells
    <3>2. BaselineApply(void \cup Z)[c] = BaselineApply(void)[c] + BaselineApply(Z)[c] BY ONLY <2>2, c \in Cells
    <3> QED BY ONLY <3>1, <3>2
  <2>6. BaselineApply(void \cup Z) = NewState BY <2>3, <2>5 DEF NewState
  <2> QED BY <1>2, <2>6
<1>14. GoodLog(s', R) /\ Len(s') % 2 = 0 BY <1>3, <1>12
<1>15. Written(s') = Written(s) \cup Y BY <1>3, <1>9, <1>12
<1>16. void' \subseteq R BY <1>2, <1>4, <1>5, <1>10
<1>17. void' \cap Written(s') = {} BY <1>2, <1>5, <1>10, <1>15
<1>18. Written(s') \cup void' = Written(s) \cup void \cup G BY <1>2, <1>10, <1>15
<1> QED BY <1>13, <1>14, <1>16, <1>17, <1>18 DEF s, R, G

-----------------------------------------------------------------------------
(* Types.                                                                  *)

\* The types of what the sinks do not hold.
RestType ==
    /\ prog \in Programs /\ restarts \in 0..MaxRestarts
    /\ phase \in {"up", "closing", "vclosed", "laneDone", "exited", "crashed"}
    /\ req \in [Callers -> Envelopes \cup {NoRequest}]
    /\ alog \in Seq(Envelopes) /\ asked \in [Callers -> Int]
    /\ handed \in 0..Len(alog)
    /\ pc \in [Callers -> {"idle"} \cup Serving \cup Reading]
    /\ want \in [Callers -> SUBSET Envelopes]
    /\ void \subseteq Envelopes
    /\ torn \in BOOLEAN /\ stopped \in BOOLEAN
    /\ gen \in Callers /\ DOMAIN st = Callers

\* The histories follow one another.
HistoryType == safe \subseteq must /\ must \subseteq issued /\ issued \subseteq Envelopes

\* The types of the sinks, of the process and its callers, and of the history.
LEMMA TypeParts == TypeInv <=> SinksType /\ RestType /\ HistoryType
BY DEF TypeInv, TypeOK, SinksTypeOK, SinksType, RestType, HistoryType

\* What a caller may be about.
LEMMA Places ==
    /\ {"idle", "route", "create", "enqueue", "append", "ack", "flush", "flushS", "flushV",
        "readS", "readV", "answer"} \subseteq {"idle"} \cup Serving \cup Reading
    /\ "idle" \notin Serving /\ Serving \cap Reading = {}
    /\ Serving = {"route", "create", "enqueue", "append", "ack"}
BY DEF Serving, Reading

\* There are two logs.
LEMMA LaneAre == LaneNames = {"S", "V"} /\ "S" \in LaneNames /\ "V" \in LaneNames BY DEF LaneNames

\* The types hold at the start.
LEMMA TypeInit == ASSUME Init PROVE TypeInv
<1>1. <<>> \in Seq(Chunks) /\ <<>> \in Seq(Envelopes) /\ Len(<<>>) = 0 OBVIOUS
<1>2. SinksType BY <1>1, SinkAssumption DEF Init, SinksInit, Empty, SinksType
<1>3. RestType
  <2>1. pc \in [Callers -> {"idle"} \cup Serving \cup Reading] BY DEF Init
  <2>2. req \in [Callers -> Envelopes \cup {NoRequest}] BY DEF Init
  <2>3. want \in [Callers -> SUBSET Envelopes] /\ asked \in [Callers -> Int] BY DEF Init, LaneInit
  <2>4. torn \in BOOLEAN /\ stopped \in BOOLEAN BY DEF Init, LaneInit
  <2>5. alog \in Seq(Envelopes) /\ handed \in 0..Len(alog) BY <1>1 DEF Init, LaneInit
  <2> QED BY <2>1, <2>2, <2>3, <2>4, <2>5, ProxyAssumption DEF Init, RestType
<1>4. HistoryType BY DEF Init, HistoryType
<1> QED BY <1>2, <1>3, <1>4, TypeParts

\* A record of a Vector envelope.
LEMMA VRecordIs ==
    ASSUME NEW e \in Envelopes
    PROVE  /\ VRecord(e) \in Records /\ VRecord(e).of = {e} /\ VRecord(e).cell = CellOf(e)
           /\ \A R : e \in R => SoundRecord(VRecord(e), R)
           /\ <<VRecord(e)>> \in Seq(Records) /\ Len(<<VRecord(e)>>) = 1
<1>1. Delta(e) \in Int /\ CellOf(e) \in Cells /\ Deltas[e] = Delta(e) BY DeltaIsInt
<1>2. VRecord(e) = [cell |-> CellOf(e), delta |-> Delta(e), of |-> {e}] BY DEF VRecord
<1>3. VRecord(e) \in Records BY <1>1, <1>2 DEF Records
<1>4. VRecord(e).of = {e} /\ VRecord(e).cell = CellOf(e) /\ VRecord(e).delta = Delta(e) BY <1>2
<1>5. SumOver([x \in {e} |-> Delta(x)], {e}) = Delta(e)
  <2>1. {e} \subseteq Envelopes OBVIOUS
  <2>2. SumOver([x \in {e} |-> Delta(x)], {e}) = SumOver(Deltas, {e}) BY <2>1, SumOfDeltas
  <2> DEFINE E == {}
  <2>3. {e} = E \cup {e} /\ e \notin E /\ IsFiniteSet(E) BY FS_EmptySet
  <2>4. SumOver(Deltas, E) = 0 BY SumEmpty
  <2>5. \A x \in E \cup {e} : Deltas[x] \in Int BY <1>1
  <2> HIDE DEF E
  <2>6. SumOver(Deltas, E \cup {e}) = Deltas[e] + SumOver(Deltas, E)
    BY ONLY <2>3, <2>5, SumInsert
  <2>7. SumOver(Deltas, {e}) = SumOver(Deltas, E \cup {e}) BY ONLY <2>3
  <2> QED BY <1>1, <2>2, <2>4, <2>6, <2>7
<1>6. ASSUME NEW R, e \in R PROVE SoundRecord(VRecord(e), R) BY <1>4, <1>5, <1>6 DEF SoundRecord
<1>7. <<VRecord(e)>> \in Seq(Records) /\ Len(<<VRecord(e)>>) = 1 BY <1>3
<1> QED BY <1>3, <1>4, <1>6, <1>7

\* The steps that leave both sinks alone.
QuietStep(c) ==
    \/ \E e \in Envelopes : Begin(c, e)
    \/ Route(c) \/ Create(c) \/ Enqueue(c) \/ Ack(c) \/ State(c) \/ StateFlushed(c)
    \/ StateRead(c, "readS", "S", "readV") \/ StateRead(c, "readV", "V", "answer")
    \/ StateAnswer(c)

FlushStep(c) ==
    StateFlushSink(c, "flushS", "S", "flushV") \/ StateFlushSink(c, "flushV", "V", "readS")

\* The steps, sorted by what they do to the sinks.
LEMMA Steps ==
    [Next]_vars <=>
      \/ \E c \in Callers : QuietStep(c) \/ FlushStep(c) \/ AppendV(c)
      \/ \E n \in 1..Len(alog) : HandBatches(n)
      \/ Signal \/ CloseV \/ StopLane \/ CloseS \/ Crash \/ Restart \/ Gone \/ UNCHANGED vars
BY DEF Next, QuietStep, FlushStep

\* Steps of a caller that call no sink leave buffers, files and the process alone.
LEMMA QuietSinks ==
    \A c \in Callers : QuietStep(c) => UNCHANGED <<buf, file, closed, void, torn, phase>>
BY DEF QuietStep, Begin, Route, Create, Enqueue, Ack, State, StateFlushed, StateRead,
       StateAnswer, sinks, proc, history

\* Every step keeps the types of the sinks.
LEMMA SinksNext == ASSUME ProxyInv, [Next]_vars PROVE SinksType'
<1>1. SinksType BY SinksAreTyped DEF ProxyInv
<1>2. ASSUME UNCHANGED <<buf, file, closed>> PROVE SinksType' BY <1>1, <1>2 DEF SinksType
<1>3. ASSUME NEW c \in Callers, QuietStep(c) PROVE SinksType' BY <1>2, <1>3, QuietSinks
<1>4. ASSUME NEW c \in Callers, FlushStep(c) PROVE SinksType'
  <2>1. PICK l \in LaneNames : SinkFlush(l) BY <1>4, LaneAre DEF FlushStep, StateFlushSink
  <2> QED BY <1>1, <2>1, FlushEmpties
<1>5. ASSUME NEW c \in Callers, AppendV(c) PROVE SinksType'
  <2>1. req[c] \in Envelopes
    BY <1>5, Places DEF AppendV, ProxyInv, CallerInv, TypeInv
  <2>2. <<VRecord(req[c])>> \in Seq(Records) /\ Len(<<VRecord(req[c])>>) > 0 BY <2>1, VRecordIs
  <2>3. Write("V", <<VRecord(req[c])>>) BY <1>5 DEF AppendV
  <2> QED BY <1>1, <2>2, <2>3, WriteLogs, LaneAre
<1>6. ASSUME NEW n \in handed..Len(alog), OnSBatches(n), Alive PROVE SinksType'
  <2>1. ~closed["S"] BY <1>6 DEF ProxyInv, PhaseInv
  <2>2. alog \in Seq(Envelopes) /\ handed \in Nat /\ void \subseteq Envelopes
    BY DEF ProxyInv, TypeInv, TypeOK
  <2> QED BY <1>1, <1>6, <2>1, <2>2, BatchesAppend
<1>7. ASSUME NEW n \in 1..Len(alog), HandBatches(n) PROVE SinksType'
  <2>1. n \in handed..Len(alog) BY <1>7 DEF HandBatches, Hand, ProxyInv, TypeInv, TypeOK
  <2> QED BY <1>6, <1>7, <2>1 DEF HandBatches
<1>8. CASE StopLane
  <2>1. Len(alog) \in handed..Len(alog) BY DEF ProxyInv, TypeInv, TypeOK
  <2> QED BY <1>6, <1>8, <2>1 DEF StopLane, Phase, Alive
<1>9. CASE CloseV BY <1>1, <1>9, CloseEmpties, LaneAre DEF CloseV
<1>10. CASE CloseS BY <1>1, <1>10, CloseEmpties, LaneAre DEF CloseS
<1>11. CASE Crash \/ Restart
  <2>1. buf' = Empty /\ file' = file BY <1>11 DEF Crash, Restart, SinksOpen
  <2>2. closed' \in [LaneNames -> BOOLEAN] BY <1>1, <1>11 DEF Crash, Restart, SinksOpen, SinksType
  <2>3. <<>> \in Seq(Chunks) /\ Len(<<>>) = 0 OBVIOUS
  <2> QED BY <1>1, <2>1, <2>2, <2>3, SinkAssumption DEF SinksType, Empty
<1>12. CASE Signal \/ Gone \/ UNCHANGED vars BY <1>2, <1>12 DEF Signal, Gone, vars, sinks
<1> QED BY <1>3, <1>4, <1>5, <1>7, <1>8, <1>9, <1>10, <1>11, <1>12, Steps

\* Every step keeps the types of the process, its callers and the lane.
LEMMA RestNext == ASSUME ProxyInv, [Next]_vars PROVE RestType'
<1>1. RestType /\ HistoryType BY TypeParts DEF ProxyInv
<1>2. ASSUME NEW c \in Callers, NEW e \in Envelopes, Begin(c, e) PROVE RestType'
  <2>1. CASE Classify(e) = "none"
    BY <1>1, <1>2, <2>1 DEF Begin, RestType, lane, proc
  <2>2. CASE Classify(e) = "V"
    <3>1. pc' = [pc EXCEPT ![c] = "route"] /\ req' = [req EXCEPT ![c] = e] /\ UNCHANGED lane
      BY <1>2, <2>2 DEF Begin
    <3>2. pc' \in [Callers -> {"idle"} \cup Serving \cup Reading] BY <1>1, <3>1, Places DEF RestType
    <3> QED BY <1>1, <1>2, <3>1, <3>2 DEF Begin, RestType, lane, proc
  <2>3. CASE Classify(e) = "S"
    <3>1. pc' = [pc EXCEPT ![c] = "ack"] /\ req' = [req EXCEPT ![c] = e] /\ Accept(e)
      BY <1>2, <2>3 DEF Begin
    <3>2. pc' \in [Callers -> {"idle"} \cup Serving \cup Reading] BY <1>1, <3>1, Places DEF RestType
    <3>3. alog' \in Seq(Envelopes) /\ Len(alog') = Len(alog) + 1
      BY <1>1, <3>1, AppendProperties DEF Accept, RestType
    <3>4. handed' \in 0..Len(alog') BY <1>1, <3>1, <3>3 DEF Accept, RestType
    <3> QED BY <1>1, <1>2, <3>1, <3>2, <3>3, <3>4 DEF Begin, RestType, Accept, proc
  <2> QED BY <1>2, <2>1, <2>2, <2>3 DEF Begin
<1>3. ASSUME NEW c \in Callers, NEW p \in {"idle"} \cup Serving \cup Reading, pc' = [pc EXCEPT ![c] = p],
             UNCHANGED <<lane, proc, req, void, torn>>,
             DOMAIN st' = Callers, want' \in [Callers -> SUBSET Envelopes]
      PROVE  RestType'
  <2>1. pc' \in [Callers -> {"idle"} \cup Serving \cup Reading] BY <1>1, <1>3 DEF RestType
  <2> QED BY <1>1, <1>3, <2>1 DEF RestType, lane, proc
<1>4. ASSUME NEW c \in Callers, Route(c) \/ Create(c) \/ Enqueue(c) \/ AppendV(c) \/ FlushStep(c)
      PROVE  RestType'
  <2>1. \E p \in {"idle"} \cup Serving \cup Reading : pc' = [pc EXCEPT ![c] = p]
    BY <1>4, Places DEF Route, Create, Enqueue, AppendV, FlushStep, StateFlushSink
  <2>2. UNCHANGED <<lane, proc, req, void, torn, st, want>>
    BY <1>4 DEF Route, Create, Enqueue, AppendV, FlushStep, StateFlushSink, history
  <2> QED BY <1>1, <1>3, <2>1, <2>2 DEF RestType
<1>5. ASSUME NEW c \in Callers, Ack(c) PROVE RestType'
  <2>1. pc' \in [Callers -> {"idle"} \cup Serving \cup Reading] BY <1>1, <1>5, Places DEF RestType, Ack
  <2>2. req' \in [Callers -> Envelopes \cup {NoRequest}] BY <1>1, <1>5 DEF RestType, Ack
  <2> QED BY <1>1, <1>5, <2>1, <2>2 DEF RestType, Ack, lane, proc
<1>6. ASSUME NEW c \in Callers, State(c) PROVE RestType'
  <2>1. pc' \in [Callers -> {"idle"} \cup Serving \cup Reading] BY <1>1, <1>6, Places DEF RestType, State
  <2>2. want' \in [Callers -> SUBSET Envelopes] BY <1>1, <1>6 DEF RestType, State, HistoryType
  <2>3. asked' \in [Callers -> Int] BY <1>1, <1>6 DEF RestType, State, FlushBegin
  <2> QED BY <1>1, <1>6, <2>1, <2>2, <2>3 DEF RestType, State, FlushBegin, proc, history
<1>7. ASSUME NEW c \in Callers, StateFlushed(c) PROVE RestType'
  <2>1. pc' \in [Callers -> {"idle"} \cup Serving \cup Reading] BY <1>1, <1>7, Places DEF RestType, StateFlushed
  <2>3. asked' \in [Callers -> Int] BY <1>1, <1>7 DEF RestType, StateFlushed, FlushEnd
  <2> QED BY <1>1, <1>7, <2>1, <2>3 DEF RestType, StateFlushed, FlushEnd, proc, history
<1>8. ASSUME NEW c \in Callers, NEW from, NEW l, NEW to \in {"readV", "answer"}, StateRead(c, from, l, to)
      PROVE  RestType'
  <2>1. pc' = [pc EXCEPT ![c] = to] /\ DOMAIN st' = Callers /\ UNCHANGED <<lane, proc, req, void, torn, want>>
    BY <1>1, <1>8 DEF RestType, StateRead, history
  <2> QED BY <1>1, <1>3, <2>1, Places DEF RestType
<1>9. ASSUME NEW c \in Callers, StateAnswer(c) PROVE RestType'
  <2>1. pc' = [pc EXCEPT ![c] = "idle"] /\ DOMAIN st' = Callers /\ UNCHANGED <<lane, proc, req, void, torn>>
    BY <1>1, <1>9 DEF RestType, StateAnswer
  <2>2. want' \in [Callers -> SUBSET Envelopes] BY <1>1, <1>9 DEF RestType, StateAnswer
  <2> QED BY <1>3, <2>1, <2>2, Places
<1>10. ASSUME NEW n \in handed..Len(alog), OnSBatches(n), Alive PROVE void' \subseteq Envelopes
  <2>1. ~closed["S"] BY <1>10 DEF ProxyInv, PhaseInv
  <2>2. alog \in Seq(Envelopes) /\ handed \in Nat /\ void \subseteq Envelopes BY <1>1 DEF RestType
  <2>3. SinksType BY SinksAreTyped DEF ProxyInv
  <2> QED BY <1>10, <2>1, <2>2, <2>3, BatchesAppend
<1>11. ASSUME NEW n \in 1..Len(alog), HandBatches(n) PROVE RestType'
  <2>1. n \in handed..Len(alog) BY <1>1, <1>11 DEF HandBatches, Hand, RestType
  <2>2. void' \subseteq Envelopes BY <1>10, <1>11, <2>1 DEF HandBatches
  <2>3. handed' \in 0..Len(alog) BY <1>1, <1>11 DEF HandBatches, Hand, RestType
  <2> QED BY <1>1, <1>11, <2>2, <2>3 DEF HandBatches, Hand, RestType, proc, callers
<1>12. CASE StopLane
  <2>1. Len(alog) \in handed..Len(alog) /\ Len(alog) \in 0..Len(alog) BY <1>1 DEF RestType
  <2>2. void' \subseteq Envelopes BY <1>10, <1>12, <2>1 DEF StopLane, Phase, Alive
  <2>3. stopped' \in BOOLEAN BY <1>12 DEF StopLane, LaneStop
  <2> QED BY <1>1, <1>12, <2>1, <2>2, <2>3 DEF StopLane, LaneStop, RestType, Phase, callers
<1>13. ASSUME MemoryLost PROVE /\ req' \in [Callers -> Envelopes \cup {NoRequest}]
                               /\ alog' \in Seq(Envelopes) /\ asked' \in [Callers -> Int]
                               /\ handed' \in 0..Len(alog')
                               /\ pc' \in [Callers -> {"idle"} \cup Serving \cup Reading]
                               /\ want' \in [Callers -> SUBSET Envelopes]
                               /\ stopped' \in BOOLEAN /\ DOMAIN st' = Callers
  <2>1. <<>> \in Seq(Envelopes) /\ Len(<<>>) = 0 OBVIOUS
  <2>2. alog' \in Seq(Envelopes) /\ handed' \in 0..Len(alog') BY <1>13, <2>1 DEF MemoryLost
  <2>3. stopped' \in BOOLEAN BY <1>13 DEF MemoryLost
  <2>4. pc' \in [Callers -> {"idle"} \cup Serving \cup Reading] BY <1>13 DEF MemoryLost
  <2>5. req' \in [Callers -> Envelopes \cup {NoRequest}] BY <1>13 DEF MemoryLost
  <2>6. want' \in [Callers -> SUBSET Envelopes] /\ asked' \in [Callers -> Int] BY <1>13 DEF MemoryLost
  <2> QED BY <1>13, <2>2, <2>3, <2>4, <2>5, <2>6 DEF MemoryLost
<1>14. CASE CloseS BY <1>1, <1>13, <1>14 DEF CloseS, RestType, Phase, history
<1>15. CASE Crash BY <1>1, <1>13, <1>15 DEF Crash, RestType
<1>16. CASE Restart
  <2>1. torn' \in BOOLEAN BY <1>16, Zenon DEF Restart
  <2>2. restarts' \in 0..MaxRestarts BY <1>1, <1>16, ProxyAssumption DEF Restart, RestType
  <2> QED BY <1>1, <1>16, <2>1, <2>2 DEF Restart, RestType, lane, callers
<1>17. CASE Signal \/ CloseV
  BY <1>1, <1>17 DEF Signal, CloseV, Phase, RestType, lane, callers, history
<1>18. CASE Gone \/ UNCHANGED vars BY <1>1, <1>18 DEF Gone, vars, RestType, lane, proc, callers, history
<1> QED BY <1>2, <1>4, <1>5, <1>6, <1>7, <1>8, <1>9, <1>11, <1>12, <1>14, <1>15, <1>16, <1>17, <1>18, Steps
      DEF QuietStep

\* Every step keeps the order safe, must, issued of the histories.
LEMMA HistoryNext == ASSUME ProxyInv, [Next]_vars PROVE HistoryType'
<1>1. RestType /\ HistoryType /\ CallerInv BY TypeParts DEF ProxyInv
<1>2. ASSUME NEW c \in Callers, NEW e \in Envelopes, Begin(c, e) PROVE HistoryType'
  BY <1>1, <1>2 DEF Begin, HistoryType
<1>3. ASSUME NEW c \in Callers, Ack(c) PROVE HistoryType'
  <2>1. req[c] \in issued BY <1>1, <1>3, Places DEF Ack, CallerInv
  <2> QED BY <1>1, <1>3, <2>1 DEF Ack, HistoryType
<1>4. ASSUME NEW c \in Callers, StateAnswer(c) PROVE HistoryType'
  <2>1. want[c] \subseteq must BY <1>1 DEF CallerInv
  <2> QED BY <1>1, <1>4, <2>1 DEF StateAnswer, HistoryType
<1>5. CASE Crash \/ Restart BY <1>1, <1>5 DEF Crash, Restart, HistoryType
<1>6. ASSUME UNCHANGED <<issued, must, safe>> PROVE HistoryType' BY <1>1, <1>6 DEF HistoryType
<1>7. ASSUME NEW c \in Callers,
             \/ Route(c) \/ Create(c) \/ Enqueue(c) \/ AppendV(c) \/ State(c) \/ StateFlushed(c)
             \/ StateRead(c, "readS", "S", "readV") \/ StateRead(c, "readV", "V", "answer")
             \/ FlushStep(c)
      PROVE  HistoryType'
  BY <1>6, <1>7 DEF Route, Create, Enqueue, AppendV, State, StateFlushed, StateRead, FlushStep,
                    StateFlushSink, history
<1>8. CASE (\E n \in 1..Len(alog) : HandBatches(n)) \/ Signal \/ CloseV \/ StopLane \/ CloseS \/ Gone
           \/ UNCHANGED vars
  BY <1>6, <1>8 DEF HandBatches, Signal, CloseV, StopLane, CloseS, Gone, vars, history
<1> QED BY <1>2, <1>3, <1>4, <1>5, <1>7, <1>8, Steps DEF QuietStep

\* Every step keeps the types.
LEMMA TypeNext == ASSUME ProxyInv, [Next]_vars PROVE TypeInv'
<1>1. SinksType' /\ RestType' /\ HistoryType' BY SinksNext, RestNext, HistoryNext
<1> QED BY <1>1 DEF TypeInv, TypeOK, SinksTypeOK, SinksType, RestType, HistoryType

-----------------------------------------------------------------------------
(* The order of the deferred calls.                                        *)

\* At the start both sinks are open.
LEMMA PhaseInit == ASSUME Init PROVE PhaseInv
BY LaneAre DEF Init, SinksInit, PhaseInv, Alive, Empty

\* Sinks and lane are closed in the order of the deferred calls.
LEMMA PhaseNext == ASSUME ProxyInv, [Next]_vars PROVE PhaseInv'
<1>1. SinksType /\ RestType /\ PhaseInv /\ HistoryType BY TypeParts DEF ProxyInv
<1>2. ASSUME Alive, UNCHANGED phase, closed' = closed, closed["V"] => buf'["V"] = buf["V"] PROVE PhaseInv'
  BY <1>1, <1>2 DEF PhaseInv, Alive
<1>3. ASSUME NEW c \in Callers, QuietStep(c) PROVE PhaseInv'
  <2>1. Alive
    BY <1>3 DEF QuietStep, Begin, Route, Create, Enqueue, Ack, State, StateFlushed, StateRead, StateAnswer
  <2> QED BY <1>2, <1>3, <2>1, QuietSinks
<1>4. ASSUME NEW c \in Callers, FlushStep(c) PROVE PhaseInv'
  <2>1. PICK l \in LaneNames : SinkFlush(l) BY <1>4, LaneAre DEF FlushStep, StateFlushSink
  <2>2. Alive /\ UNCHANGED phase BY <1>4 DEF FlushStep, StateFlushSink, proc
  <2>3. Keeps(l) /\ closed' = closed /\ (closed[l] => UNCHANGED sinks) BY <1>1, <2>1, FlushEmpties
  <2>4. closed["V"] => buf'["V"] = buf["V"] BY <2>3, LaneAre DEF Keeps, sinks
  <2> QED BY <1>2, <2>2, <2>3, <2>4
<1>5. ASSUME NEW c \in Callers, AppendV(c) PROVE PhaseInv'
  <2>1. req[c] \in Envelopes
    BY <1>5, Places DEF AppendV, ProxyInv, CallerInv, TypeInv
  <2>2. <<VRecord(req[c])>> \in Seq(Records) /\ Len(<<VRecord(req[c])>>) > 0 BY <2>1, VRecordIs
  <2>3. Write("V", <<VRecord(req[c])>>) /\ Alive /\ UNCHANGED phase BY <1>5 DEF AppendV, proc
  <2>4. closed' = closed /\ (closed["V"] => UNCHANGED sinks) BY <1>1, <2>2, <2>3, WriteLogs, LaneAre
  <2> QED BY <1>2, <2>3, <2>4 DEF sinks
<1>6. ASSUME NEW n \in handed..Len(alog), OnSBatches(n), Alive
      PROVE  closed' = closed /\ buf'["V"] = buf["V"]
  <2>1. ~closed["S"] BY <1>1, <1>6 DEF PhaseInv
  <2>2. alog \in Seq(Envelopes) /\ handed \in Nat /\ void \subseteq Envelopes BY <1>1 DEF RestType
  <2>3. closed' = closed /\ Keeps("S") BY <1>1, <1>6, <2>1, <2>2, BatchesAppend
  <2> QED BY <2>3, LaneAre DEF Keeps
<1>7. ASSUME NEW n \in 1..Len(alog), HandBatches(n) PROVE PhaseInv'
  <2>1. n \in handed..Len(alog) BY <1>1, <1>7 DEF HandBatches, Hand, RestType
  <2> QED BY <1>2, <1>6, <1>7, <2>1 DEF HandBatches, proc
<1>8. CASE StopLane
  <2>1. Len(alog) \in handed..Len(alog) BY <1>1 DEF RestType
  <2>2. closed' = closed /\ buf'["V"] = buf["V"] BY <1>6, <1>8, <2>1 DEF StopLane, Phase, Alive
  <2> QED BY <1>1, <1>8, <2>2 DEF StopLane, Phase, PhaseInv, Alive
<1>9. CASE CloseV
  <2>1. Keeps("V") /\ closed'["V"] = TRUE /\ buf'["V"] = <<>> BY <1>1, <1>9, CloseEmpties, LaneAre DEF CloseV
  <2>2. closed'["S"] = closed["S"] BY <2>1, LaneAre DEF Keeps
  <2> QED BY <1>1, <1>9, <2>1, <2>2 DEF CloseV, Phase, PhaseInv, Alive
<1>10. CASE CloseS
  <2>1. SinksType' /\ Keeps("S") /\ buf'["S"] = <<>>
    BY <1>1, <1>10, CloseEmpties, LaneAre DEF CloseS
  <2>2. buf'["V"] = <<>> BY <1>1, <1>10, <2>1, LaneAre DEF Keeps, CloseS, Phase, PhaseInv, Alive
  <2>3. buf' = Empty BY <2>1, <2>2, LaneAre DEF SinksType, Empty
  <2> QED BY <1>10, <2>2, <2>3 DEF CloseS, Phase, MemoryLost, PhaseInv, Alive
<1>11. CASE Crash
  <2>1. buf' = Empty /\ must' = safe' /\ MemoryLost /\ phase' = "crashed" BY <1>11 DEF Crash
  <2> QED BY <2>1, LaneAre DEF PhaseInv, MemoryLost, Alive, Empty
<1>12. CASE Restart
  BY <1>12, LaneAre DEF Restart, SinksOpen, PhaseInv, Alive, Empty
<1>13. CASE Signal BY <1>1, <1>13 DEF Signal, Phase, sinks, PhaseInv, Alive
<1>14. CASE Gone \/ UNCHANGED vars
  <2>1. UNCHANGED <<phase, must, safe, buf, alog, handed, pc, closed>>
    BY <1>14 DEF Gone, vars, proc, history, sinks, lane, callers
  <2> QED BY <1>1, <2>1 DEF PhaseInv, Alive
<1> QED BY <1>3, <1>4, <1>5, <1>7, <1>8, <1>9, <1>10, <1>11, <1>12, <1>13, <1>14, Steps

-----------------------------------------------------------------------------
(* Requests on their way.                                                  *)

\* At the start no caller serves a request.
LEMMA CallerInit == ASSUME Init PROVE CallerInv
BY Places DEF Init, LaneInit, CallerInv

\* Every step keeps what is known of the callers and their requests.
LEMMA CallerNext == ASSUME ProxyInv, [Next]_vars PROVE CallerInv'
<1>1. RestType /\ HistoryType /\ CallerInv /\ PhaseInv BY TypeParts DEF ProxyInv
\* Everybody goes on with his own request, or has none.
<1>2. ASSUME \A c \in Callers :
               /\ pc'[c] \in Serving => pc[c] \in Serving /\ req'[c] = req[c]
               /\ pc'[c] \in Serving \ {"ack"} => pc[c] \in Serving \ {"ack"}
               /\ want'[c] \subseteq must',
             UNCHANGED <<alog, issued>>
      PROVE  CallerInv'
  BY <1>1, <1>2 DEF CallerInv
<1>3. ASSUME NEW c \in Callers, NEW e \in Envelopes, Begin(c, e) PROVE CallerInv'
  <2>1. CASE Classify(e) = "none"
    BY <1>1, <1>2, <1>3, <2>1 DEF Begin, CallerInv, lane
  <2>2. CASE Classify(e) \in {"S", "V"}
    <3> DEFINE p == IF Classify(e) = "S" THEN "ack" ELSE "route"
    <3>1. /\ e \notin issued /\ issued' = issued \cup {e} /\ req' = [req EXCEPT ![c] = e]
          /\ pc' = [pc EXCEPT ![c] = p] /\ UNCHANGED <<want, must>>
      BY <1>3, <2>2 DEF Begin
    <3>2. p \in Serving /\ (p # "ack" => Classify(e) = "V") BY <2>2, Places
    <3> HIDE DEF p
    <3>3. /\ pc'[c] = p /\ req'[c] = e
          /\ \A d \in Callers : d # c => pc'[d] = pc[d] /\ req'[d] = req[d]
      BY <1>1, <3>1 DEF RestType
    <3>4. \A d \in Callers : d # c /\ pc'[d] \in Serving => req'[d] # e BY <1>1, <3>1, <3>3 DEF CallerInv
    <3>5. /\ \A i, j \in 1..Len(alog') : i # j => alog'[i] # alog'[j]
          /\ \A j \in 1..Len(alog') : alog'[j] \in issued' \cap Of("S")
      <4>1. CASE Classify(e) = "V"
        <5>1. alog' = alog BY <1>3, <4>1 DEF Begin, lane
        <5> QED BY <1>1, <3>1, <5>1 DEF CallerInv
      <4>2. CASE Classify(e) = "S"
        <5>1. alog' = Append(alog, e) BY <1>3, <4>2 DEF Begin, Accept
        <5>2. /\ Len(alog) \in Nat /\ Len(alog') = Len(alog) + 1 /\ alog'[Len(alog) + 1] = e
              /\ \A j \in 1..Len(alog) : alog'[j] = alog[j]
          BY <1>1, <5>1, AppendProperties DEF RestType
        <5>3. e \in Of("S") BY <4>2 DEF Of
        <5>4. \A j \in 1..Len(alog) : alog[j] # e BY <1>1, <3>1 DEF CallerInv
        <5>5. \A j \in 1..Len(alog') : j \in 1..Len(alog) \/ j = Len(alog) + 1 BY <5>2
        <5> QED BY <1>1, <3>1, <5>2, <5>3, <5>4, <5>5 DEF CallerInv
      <4> QED BY <2>2, <4>1, <4>2
    <3>6. \A x \in issued' : Classify(x) \in {"S", "V"} BY <1>1, <2>2, <3>1 DEF CallerInv
    <3>7. \A d \in Callers : want'[d] \subseteq must' BY <1>1, <3>1 DEF CallerInv
    <3>8. \A d \in Callers : pc'[d] \in Serving => req'[d] \in issued' /\ Classify(req'[d]) \in {"S", "V"}
      BY <1>1, <2>2, <3>1, <3>3 DEF CallerInv
    <3>9. \A d \in Callers : pc'[d] \in Serving \ {"ack"} => Classify(req'[d]) = "V"
      BY <1>1, <3>2, <3>3 DEF CallerInv
    <3>10. \A d, f \in Callers : d # f /\ pc'[d] \in Serving /\ pc'[f] \in Serving => req'[d] # req'[f]
      BY <1>1, <3>3, <3>4 DEF CallerInv
    <3> QED BY <3>5, <3>6, <3>7, <3>8, <3>9, <3>10 DEF CallerInv
  <2> QED BY <1>3, <2>1, <2>2 DEF Begin
<1>4. ASSUME NEW c \in Callers, Route(c) \/ Create(c) \/ Enqueue(c) \/ AppendV(c) PROVE CallerInv'
  <2>1. /\ pc[c] \in {"route", "create", "enqueue", "append"} /\ UNCHANGED <<req, alog, issued, want, must>>
        /\ \A d \in Callers : d # c => pc'[d] = pc[d]
    BY <1>1, <1>4 DEF Route, Create, Enqueue, AppendV, RestType, lane, history
  <2> QED BY <1>1, <1>2, <2>1, Places DEF CallerInv
<1>5. ASSUME NEW c \in Callers, Ack(c) PROVE CallerInv'
  <2>1. /\ pc'[c] = "idle" /\ UNCHANGED <<alog, issued, want>> /\ must \subseteq must'
        /\ \A d \in Callers : d # c => pc'[d] = pc[d] /\ req'[d] = req[d]
    BY <1>1, <1>5 DEF Ack, RestType, lane
  <2> QED BY <1>1, <1>2, <2>1, Places DEF CallerInv
<1>6. ASSUME NEW c \in Callers,
             \/ State(c) \/ StateFlushed(c) \/ StateAnswer(c) \/ FlushStep(c)
             \/ StateRead(c, "readS", "S", "readV") \/ StateRead(c, "readV", "V", "answer")
      PROVE  CallerInv'
  <2>1. pc'[c] \in {"idle", "flush", "flushS", "flushV", "readS", "readV", "answer"}
    BY <1>1, <1>6 DEF State, StateFlushed, StateAnswer, FlushStep, StateFlushSink, StateRead, RestType
  <2>2. pc'[c] \notin Serving BY <2>1, Places
  <2>3. /\ UNCHANGED <<alog, issued, must, req>>
        /\ \A d \in Callers : d # c => pc'[d] = pc[d] /\ want'[d] = want[d]
    BY <1>1, <1>6 DEF State, StateFlushed, StateAnswer, FlushStep, StateFlushSink, StateRead, RestType,
                      FlushBegin, FlushEnd, lane, history
  <2>4. want'[c] \subseteq must
    <3>1. want'[c] \in {must, want[c], {}}
      BY <1>1, <1>6 DEF State, StateFlushed, StateAnswer, FlushStep, StateFlushSink, StateRead, RestType
    <3> QED BY <1>1, <3>1 DEF CallerInv
  <2> QED BY <1>1, <1>2, <2>2, <2>3, <2>4 DEF CallerInv
<1>7. ASSUME UNCHANGED <<alog, issued, callers, must>> PROVE CallerInv'
  <2>1. UNCHANGED <<pc, req, want>> BY <1>7 DEF callers
  <2> QED BY <1>1, <1>2, <1>7, <2>1 DEF CallerInv
<1>8. CASE (\E n \in 1..Len(alog) : HandBatches(n)) \/ Signal \/ CloseV \/ StopLane \/ Restart \/ Gone
           \/ UNCHANGED vars
  BY <1>7, <1>8 DEF HandBatches, Hand, Signal, CloseV, StopLane, LaneStop, Restart, Gone, vars, lane, history
<1>9. CASE CloseS \/ Crash
  <2>1. MemoryLost /\ issued' = issued BY <1>9 DEF CloseS, Crash, history
  <2>2. /\ alog' = <<>> /\ \A c \in Callers : pc'[c] \notin Serving /\ want'[c] = {}
    BY <2>1, Places DEF MemoryLost
  <2>3. Len(alog') = 0 BY <2>2
  <2>4. \A j \in 1..Len(alog') : FALSE BY <2>3
  <2> QED BY <1>1, <2>1, <2>2, <2>4 DEF CallerInv
<1> QED BY <1>3, <1>4, <1>5, <1>6, <1>8, <1>9, Steps DEF QuietStep

-----------------------------------------------------------------------------
(* Sound logs.                                                             *)

\* At the start the logs are empty.
LEMMA LogInit == ASSUME Init PROVE LogInv
<1>1. \A l \in LaneNames : Log(l) = <<>> BY DEF Init, SinksInit, Empty, Log
<1>2. Len(<<>>) = 0 OBVIOUS
<1>3. \A R : GoodLog(<<>>, R)
  <2>1. (\A j \in 1..Len(<<>>) : FALSE) /\ \A j \in Begins(<<>>) : FALSE BY <1>2 DEF Begins
  <2> QED BY <2>1 DEF GoodLog, InLines, Once
<1>4. Waiting = {} /\ void = {} /\ \A c \in Callers : pc[c] \notin Serving
  BY Places DEF Init, LaneInit, Waiting
<1> QED BY <1>1, <1>2, <1>3, <1>4, BaselineEmpty DEF LogInv

\* What LogInv says of logs that are not torn.
LEMMA LogFacts ==
    ASSUME ProxyInv, ~torn
    PROVE  /\ \A l \in LaneNames : /\ Log(l) \in Seq(Chunks) /\ GoodLog(Log(l), issued \cap Of(l))
                                   /\ Written(Log(l)) \subseteq issued \cap Of(l)
                                   /\ Written(file[l]) \subseteq Written(Log(l))
                                   /\ phase # "crashed" => Len(Log(l)) % 2 = 0
           /\ void \subseteq issued \cap Of("S") /\ BaselineApply(void) = NewState
           /\ void \cap Written(Log("S")) = {}
           /\ Waiting \cap (Written(Log("S")) \cup void) = {}
           /\ \A c \in Callers : pc[c] \in Serving \ {"ack"} => req[c] \notin Written(Log("V"))
<1>1. SinksType BY SinksAreTyped DEF ProxyInv
<1>2. ASSUME NEW l \in LaneNames
      PROVE  /\ Log(l) \in Seq(Chunks) /\ GoodLog(Log(l), issued \cap Of(l))
             /\ Written(Log(l)) \subseteq issued \cap Of(l) /\ Written(file[l]) \subseteq Written(Log(l))
  <2>1. Log(l) \in Seq(Chunks) BY <1>1, LogType
  <2>2. GoodLog(Log(l), issued \cap Of(l)) BY DEF ProxyInv, LogInv
  <2>3. file[l] \in Seq(Chunks) /\ buf[l] \in Seq(Chunks) BY <1>1 DEF SinksType
  <2>4. Written(file[l]) \subseteq Written(Log(l)) BY <2>3, LogPrefix DEF Log
  <2> QED BY <2>1, <2>2, <2>4, WrittenIn
<1> QED BY <1>2 DEF ProxyInv, LogInv

\* A step that moves nothing between the lane, the callers and the logs.
LEMMA LogFrame ==
    ASSUME ProxyInv, ~torn, \A l \in LaneNames : Log(l)' = Log(l), UNCHANGED <<void, issued>>,
           Waiting' \subseteq Waiting, phase' # "crashed" => \A l \in LaneNames : Len(Log(l)) % 2 = 0,
           \A c \in Callers :
              pc'[c] \in Serving \ {"ack"} => pc[c] \in Serving \ {"ack"} /\ req'[c] = req[c]
    PROVE  LogInv'
<1>1. Log("S")' = Log("S") /\ Log("V")' = Log("V") BY LaneAre
<1> QED BY <1>1, LogFacts DEF LogInv

\* A log whose buffer has been thrown away.
LEMMA BufferGone ==
    ASSUME SinksType, buf' = Empty, file' = file, NEW l \in LaneNames
    PROVE  Log(l)' = file[l]
<1>1. buf'[l] = <<>> BY DEF Empty
<1>2. Log(l)' = file[l] \o <<>> BY <1>1 DEF Log
<1>3. file[l] \in Seq(Chunks) BY DEF SinksType
<1> QED BY <1>2, <1>3, ConcatEmptySeq

\* A request that comes in is in no log yet.
LEMMA LogBegin ==
    ASSUME ProxyInv, ~torn, NEW c \in Callers, NEW e \in Envelopes, Begin(c, e)
    PROVE  LogInv'
<1>1. RestType BY TypeParts DEF ProxyInv
<1>2. \A l \in LaneNames : Log(l)' = Log(l) BY <1>1 DEF Begin, sinks, Log
<1>3. phase' = phase /\ phase # "crashed" /\ void' = void BY DEF Begin, proc, Alive
<1>4. CASE Classify(e) = "none"
  <2>1. UNCHANGED <<issued, alog, handed, pc, req>> BY <1>4 DEF Begin, lane
  <2>2. Waiting' = Waiting BY <2>1 DEF Waiting
  <2> QED BY <1>2, <1>3, <2>1, <2>2, LogFacts, LogFrame
<1>5. CASE Classify(e) # "none"
  <2>1. /\ e \notin issued /\ issued' = issued \cup {e} /\ req'[c] = e
        /\ \A d \in Callers : d # c => pc'[d] = pc[d] /\ req'[d] = req[d]
    BY <1>1, <1>5 DEF Begin, RestType
  <2>2. Waiting' \subseteq Waiting \cup {e}
    <3>1. CASE UNCHANGED lane BY <3>1 DEF lane, Waiting
    <3>2. CASE Accept(e)
      <4>1. alog' = Append(alog, e) /\ handed' = handed BY <3>2 DEF Accept
      <4>2. /\ Len(alog) \in Nat /\ Len(alog') = Len(alog) + 1 /\ alog'[Len(alog) + 1] = e
            /\ \A j \in 1..Len(alog) : alog'[j] = alog[j]
        BY <1>1, <4>1, AppendProperties DEF RestType
      <4>3. \A j \in (handed' + 1)..Len(alog') :
                j = Len(alog) + 1 \/ (j \in (handed + 1)..Len(alog) /\ j \in 1..Len(alog))
        BY <1>1, <4>1, <4>2 DEF RestType
      <4> QED BY <4>2, <4>3 DEF Waiting
    <3> QED BY <1>5, <3>1, <3>2 DEF Begin
  <2>3. \A l \in LaneNames : GoodLog(Log(l), issued' \cap Of(l)) /\ e \notin Written(Log(l))
    <3> SUFFICES ASSUME NEW l \in LaneNames PROVE GoodLog(Log(l), issued' \cap Of(l)) /\ e \notin Written(Log(l))
      OBVIOUS
    <3>1. GoodLog(Log(l), issued \cap Of(l)) /\ Written(Log(l)) \subseteq issued BY LogFacts
    <3>2. issued \cap Of(l) \subseteq issued' \cap Of(l) BY <2>1
    <3>3. GoodLog(Log(l), issued' \cap Of(l)) BY <3>1, <3>2, LogWider
    <3> QED BY <2>1, <3>1, <3>3
  <2>4. Log("S")' = Log("S") /\ Log("V")' = Log("V") BY <1>2, LaneAre
  <2>5. Waiting' \cap (Written(Log("S")) \cup void) = {}
    <3>1. e \notin Written(Log("S")) /\ e \notin void BY <2>1, <2>3, LaneAre, LogFacts
    <3> QED BY <2>2, <3>1, LogFacts
  <2>6. \A d \in Callers : pc'[d] \in Serving \ {"ack"} => req'[d] \notin Written(Log("V"))
    BY <2>1, <2>3, LaneAre, LogFacts
  <2> QED BY <1>2, <1>3, <2>1, <2>3, <2>4, <2>5, <2>6, LogFacts DEF LogInv
<1> QED BY <1>4, <1>5

\* The V log gets a request that is nowhere else.
LEMMA LogAppendV ==
    ASSUME ProxyInv, ~torn, NEW c \in Callers, AppendV(c)
    PROVE  /\ LogInv' /\ Log("S")' = Log("S")
           /\ Written(Log("V")') = IF closed["V"] THEN Written(Log("V")) ELSE Written(Log("V")) \cup {req[c]}
<1>1. SinksType /\ RestType BY TypeParts DEF ProxyInv
<1> DEFINE r == VRecord(req[c])
           recs == <<r>>
           s == Log("V")
           R == issued \cap Of("V")
<1>2. pc[c] = "append" /\ Alive /\ Write("V", recs) /\ UNCHANGED <<void, issued, phase, alog, handed, req>>
  BY DEF AppendV, proc, lane, history
<1>3. req[c] \in issued /\ req[c] \in Envelopes /\ Classify(req[c]) = "V"
  BY <1>2, Places DEF ProxyInv, CallerInv, TypeInv
<1>4. /\ recs \in Seq(Records) /\ Len(recs) = 1 /\ r.of = {req[c]} /\ SoundRecord(r, R)
  <2>1. req[c] \in R BY <1>3 DEF Of
  <2> QED BY <1>3, <2>1, VRecordIs
<1>5. recs[1] = r OBVIOUS
<1> HIDE DEF r, recs
<1>6. /\ Keeps("V") /\ s' = IF closed["V"] THEN s ELSE s \o Lines(recs)
      /\ closed["V"] => UNCHANGED sinks
  <2>1. "V" \in LaneNames /\ Len(recs) > 0 BY <1>4, LaneAre
  <2> QED BY ONLY <1>1, <1>2, <1>4, <2>1, WriteLogs
<1>7. Log("S")' = Log("S") BY <1>6, LaneAre DEF Keeps, Log
<1>8. /\ s \in Seq(Chunks) /\ GoodLog(s, R) /\ Len(s) % 2 = 0 /\ req[c] \notin Written(s)
      /\ phase # "crashed"
  BY <1>2, LaneAre, LogFacts, Places DEF Alive
<1>9. \A i \in 1..Len(recs) : i = 1 BY <1>4
<1>10. UNION {recs[i].of : i \in 1..Len(recs)} = {req[c]}
  <2>1. 1..Len(recs) = {1} BY <1>4
  <2> QED BY <1>4, <1>5, <2>1
<1>11. LET u == s \o Lines(recs)
       IN GoodLog(u, R) /\ Len(u) % 2 = 0 /\ Written(u) = Written(s) \cup {req[c]}
  <2>1. \A i \in 1..Len(recs) : SoundRecord(recs[i], R) /\ recs[i].of \cap Written(s) = {}
    BY <1>4, <1>5, <1>8, <1>9
  <2>2. \A i, j \in 1..Len(recs) : i # j => recs[i].of \cap recs[j].of = {} BY <1>9
  <2> HIDE DEF s, R
  <2>3. LET u == s \o Lines(recs)
        IN GoodLog(u, R) /\ Len(u) % 2 = 0 /\ Written(u) = Written(s) \cup UNION {recs[i].of : i \in 1..Len(recs)}
    BY ONLY <1>4, <1>8, <2>1, <2>2, LogGrows
  <2> QED BY <1>10, <2>3
<1> HIDE DEF s, R
<1>12. /\ GoodLog(s', R) /\ Len(s') % 2 = 0
       /\ Written(s') = IF closed["V"] THEN Written(s) ELSE Written(s) \cup {req[c]}
  BY <1>6, <1>8, <1>11
<1>13. \A d \in Callers : d # c => pc'[d] = pc[d] BY <1>1 DEF AppendV, RestType
<1>14. pc'[c] = "ack" BY <1>1 DEF AppendV, RestType
<1>15. \A d \in Callers : pc'[d] \in Serving \ {"ack"} => req[d] \notin Written(s')
  <2> SUFFICES ASSUME NEW d \in Callers, pc'[d] \in Serving \ {"ack"} PROVE req[d] \notin Written(s')
    OBVIOUS
  <2>1. d # c /\ pc[d] \in Serving \ {"ack"} BY <1>13, <1>14
  <2>2. req[d] # req[c] BY <1>2, <2>1, Places DEF ProxyInv, CallerInv
  <2>3. req[d] \notin Written(s) BY <2>1, LogFacts DEF s
  <2> QED BY <1>12, <2>2, <2>3
<1>16. Waiting' = Waiting BY <1>2 DEF Waiting
<1>17. LogInv'
  <2>1. \A l \in LaneNames : GoodLog(Log(l)', issued \cap Of(l)) /\ Len(Log(l)') % 2 = 0
    BY <1>7, <1>8, <1>12, LaneAre, LogFacts DEF s, R
  <2> QED BY <1>2, <1>7, <1>15, <1>16, <2>1, LogFacts DEF LogInv, s
<1> QED BY <1>7, <1>12, <1>17 DEF s

\* The first envelopes that wait go to the S log.
LEMMA LogHand ==
    ASSUME ProxyInv, ~torn, Alive, NEW n \in handed..Len(alog), OnSBatches(n), handed' = n,
           UNCHANGED <<alog, issued, pc, req>>
    PROVE  /\ LogInv' /\ Log("V")' = Log("V") /\ Keeps("S")
           /\ Logged' = Logged \cup Group(n)
<1>1. RestType /\ SinksType /\ CallerInv BY TypeParts DEF ProxyInv
<1>2. ~closed["S"] /\ phase # "crashed" BY DEF ProxyInv, PhaseInv, Alive
<1>3. /\ GoodLog(Log("S")', issued \cap Of("S")) /\ Len(Log("S")') % 2 = 0
      /\ void' \subseteq issued \cap Of("S") /\ BaselineApply(void') = NewState
      /\ void' \cap Written(Log("S")') = {}
      /\ Written(Log("S")') \cup void' = Written(Log("S")) \cup void \cup Group(n)
  <2>1. TypeInv /\ CallerInv /\ LogInv BY DEF ProxyInv
  <2> QED BY ONLY <1>2, <2>1, ~torn, n \in handed..Len(alog), OnSBatches(n), BatchesLogged
<1>4. Keeps("S")
  <2>1. alog \in Seq(Envelopes) /\ handed \in Nat /\ void \subseteq Envelopes BY <1>1 DEF RestType
  <2> QED BY <1>1, <1>2, <2>1, BatchesAppend
<1>5. Log("V")' = Log("V") BY <1>4, LaneAre DEF Keeps, Log
<1>6. Waiting' \cap (Written(Log("S")') \cup void') = {}
  <2>1. handed \in Nat /\ n \in Nat /\ Len(alog) \in Nat /\ handed <= n /\ n <= Len(alog) BY <1>1 DEF RestType
  <2>2. Waiting' = {alog[j] : j \in (n + 1)..Len(alog)} BY DEF Waiting
  <2>3. \A i \in (handed + 1)..n, j \in (n + 1)..Len(alog) : i \in 1..Len(alog) /\ j \in 1..Len(alog) /\ i # j
    BY <2>1
  <2>4. \A i \in (handed + 1)..n, j \in (n + 1)..Len(alog) : alog[i] # alog[j] BY <1>1, <2>3 DEF CallerInv
  <2>5. Waiting' \cap Group(n) = {} BY <2>2, <2>4 DEF Group
  <2>6. Waiting' \subseteq Waiting
    <3>1. \A j \in (n + 1)..Len(alog) : j \in (handed + 1)..Len(alog) BY <2>1
    <3> QED BY <2>2, <3>1 DEF Waiting
  <2> QED BY <1>3, <2>5, <2>6, LogFacts
<1>7. \A l \in LaneNames : GoodLog(Log(l)', issued \cap Of(l)) /\ Len(Log(l)') % 2 = 0
  BY <1>2, <1>3, <1>5, LaneAre, LogFacts
<1>8. LogInv' BY <1>3, <1>5, <1>6, <1>7, LogFacts DEF LogInv
<1>9. Logged' = Logged \cup Group(n) BY <1>3, <1>5 DEF Logged
<1> QED BY <1>4, <1>5, <1>8, <1>9

\* Every step keeps it that a request is in one place: waiting, or logged once.
LEMMA LogNext == ASSUME ProxyInv, [Next]_vars PROVE LogInv'
<1> SUFFICES ASSUME ~torn' PROVE LogInv' BY DEF LogInv
<1>1. RestType /\ SinksType BY TypeParts DEF ProxyInv
<1>2. ~torn
  BY Steps, QuietSinks DEF FlushStep, StateFlushSink, AppendV, HandBatches, Signal, CloseV, StopLane,
                           CloseS, Crash, Restart, Gone, vars, history
\* Logs, lane and requests stay.
<1>3. ASSUME \A l \in LaneNames : Log(l)' = Log(l), UNCHANGED <<void, issued, alog, handed, req>>,
             phase' # "crashed" => phase # "crashed", NEW c \in Callers,
             pc'[c] \in Serving \ {"ack"} => pc[c] \in Serving \ {"ack"},
             \A d \in Callers : d # c => pc'[d] = pc[d]
      PROVE  LogInv'
  <2>1. Waiting' = Waiting BY <1>3 DEF Waiting
  <2>2. phase' # "crashed" => \A l \in LaneNames : Len(Log(l)) % 2 = 0 BY <1>2, <1>3, LogFacts
  <2>3. \A d \in Callers : pc'[d] \in Serving \ {"ack"} => pc[d] \in Serving \ {"ack"} /\ req'[d] = req[d]
    BY <1>3
  <2> QED BY <1>2, <1>3, <2>1, <2>2, <2>3, LogFrame
<1>4. ASSUME NEW c \in Callers, NEW e \in Envelopes, Begin(c, e) PROVE LogInv' BY <1>2, <1>4, LogBegin
<1>5. ASSUME NEW c \in Callers, Route(c) \/ Create(c) \/ Enqueue(c) PROVE LogInv'
  <2>1. /\ pc[c] \in {"route", "create", "enqueue"} /\ \A d \in Callers : d # c => pc'[d] = pc[d]
        /\ UNCHANGED <<buf, file, void, issued, alog, handed, req, phase>>
    BY <1>1, <1>5 DEF Route, Create, Enqueue, RestType, sinks, lane, history, proc
  <2>2. \A l \in LaneNames : Log(l)' = Log(l) BY <2>1 DEF Log
  <2> QED BY <1>3, <2>1, <2>2, Places
<1>6. ASSUME NEW c \in Callers, Ack(c) PROVE LogInv'
  <2>1. /\ pc'[c] = "idle" /\ \A d \in Callers : d # c => pc'[d] = pc[d] /\ req'[d] = req[d]
        /\ UNCHANGED <<buf, file, void, issued, alog, handed, phase>>
    BY <1>1, <1>6 DEF Ack, RestType, sinks, lane, proc
  <2>2. \A l \in LaneNames : Log(l)' = Log(l) BY <2>1 DEF Log
  <2>3. Waiting' = Waiting BY <2>1 DEF Waiting
  <2>4. phase' # "crashed" => \A l \in LaneNames : Len(Log(l)) % 2 = 0 BY <1>2, <2>1, LogFacts
  <2>5. \A d \in Callers : pc'[d] \in Serving \ {"ack"} => pc[d] \in Serving \ {"ack"} /\ req'[d] = req[d]
    BY <2>1, Places
  <2> QED BY <1>2, <2>1, <2>2, <2>3, <2>4, <2>5, LogFrame
<1>7. ASSUME NEW c \in Callers,
             \/ State(c) \/ StateFlushed(c) \/ StateAnswer(c)
             \/ StateRead(c, "readS", "S", "readV") \/ StateRead(c, "readV", "V", "answer")
      PROVE  LogInv'
  <2>1. pc'[c] \in {"idle", "flush", "flushS", "readV", "answer"} /\ \A d \in Callers : d # c => pc'[d] = pc[d]
    BY <1>1, <1>7 DEF State, StateFlushed, StateAnswer, StateRead, RestType
  <2>2. UNCHANGED <<buf, file, void, issued, alog, handed, req, phase>>
    BY <1>7 DEF State, StateFlushed, StateAnswer, StateRead, FlushBegin, FlushEnd, sinks, lane, history, proc
  <2>3. \A l \in LaneNames : Log(l)' = Log(l) BY <2>2 DEF Log
  <2> QED BY <1>3, <2>1, <2>2, <2>3, Places
<1>8. ASSUME NEW c \in Callers, FlushStep(c) PROVE LogInv'
  <2>1. PICK l \in LaneNames : SinkFlush(l) BY <1>8, LaneAre DEF FlushStep, StateFlushSink
  <2>2. Keeps(l) /\ Log(l)' = Log(l) BY <1>1, <2>1, FlushEmpties
  <2>3. \A m \in LaneNames : Log(m)' = Log(m) BY <2>2 DEF Keeps, Log
  <2>4. /\ pc'[c] \in {"flushV", "readS"} /\ \A d \in Callers : d # c => pc'[d] = pc[d]
        /\ UNCHANGED <<void, issued, alog, handed, req, phase>>
    BY <1>1, <1>8 DEF FlushStep, StateFlushSink, RestType, lane, history, proc
  <2> QED BY <1>3, <2>3, <2>4, Places
<1>9. ASSUME NEW c \in Callers, AppendV(c) PROVE LogInv' BY <1>2, <1>9, LogAppendV
<1>10. ASSUME NEW n \in 1..Len(alog), HandBatches(n) PROVE LogInv'
  <2>1. n \in handed..Len(alog) BY <1>1, <1>10 DEF HandBatches, Hand, RestType
  <2>2. Alive /\ OnSBatches(n) /\ handed' = n /\ UNCHANGED <<alog, issued, pc, req>>
    BY <1>10 DEF HandBatches, Hand, callers
  <2> QED BY <1>2, <2>1, <2>2, LogHand
<1>11. CASE StopLane
  <2>1. Len(alog) \in handed..Len(alog) BY <1>1 DEF RestType
  <2>2. /\ Alive /\ OnSBatches(Len(alog)) /\ handed' = Len(alog) /\ UNCHANGED <<alog, issued, pc, req>>
    BY <1>11 DEF StopLane, LaneStop, Phase, Alive, callers
  <2> QED BY <1>2, <2>1, <2>2, LogHand
<1>12. ASSUME \A l \in LaneNames : Log(l)' = Log(l), UNCHANGED <<void, issued, alog, handed, pc, req>>,
              phase' # "crashed" => phase # "crashed"
       PROVE  LogInv'
  <2>1. gen \in Callers BY <1>1 DEF RestType
  <2> QED BY <1>3, <1>12, <2>1
<1>13. CASE CloseV
  <2>1. Keeps("V") /\ Log("V")' = Log("V") BY <1>1, <1>13, CloseEmpties, LaneAre DEF CloseV
  <2>2. \A m \in LaneNames : Log(m)' = Log(m) BY <2>1 DEF Keeps, Log
  <2> QED BY <1>12, <1>13, <2>2 DEF CloseV, Phase, lane, callers, history
<1>14. CASE Signal \/ Gone \/ UNCHANGED vars
  <2>1. UNCHANGED <<buf, file, void, issued, alog, handed, pc, req>> /\ (phase' # "crashed" => phase # "crashed")
    BY <1>14 DEF Signal, Phase, Gone, vars, sinks, lane, callers, history, proc
  <2> QED BY <1>12, <2>1 DEF Log
<1>15. ASSUME MemoryLost PROVE Waiting' = {} /\ \A c \in Callers : pc'[c] \notin Serving
  BY <1>15, Places DEF MemoryLost, Waiting
<1>16. CASE CloseS
  <2>1. Keeps("S") /\ Log("S")' = Log("S") BY <1>1, <1>16, CloseEmpties, LaneAre DEF CloseS
  <2>2. \A m \in LaneNames : Log(m)' = Log(m) BY <2>1 DEF Keeps, Log
  <2>3. UNCHANGED <<void, issued>> /\ phase # "crashed" /\ MemoryLost BY <1>16 DEF CloseS, Phase, history
  <2>4. \A l \in LaneNames : Len(Log(l)) % 2 = 0 BY <1>2, <2>3, LogFacts
  <2> QED BY <1>2, <1>15, <2>2, <2>3, <2>4, LogFrame
<1>17. CASE Crash
  <2>1. buf' = Empty /\ file' = file /\ MemoryLost /\ UNCHANGED <<void, issued>> /\ phase' = "crashed"
    BY <1>17 DEF Crash
  <2>2. ASSUME NEW l \in LaneNames
        PROVE  GoodLog(Log(l)', issued \cap Of(l)) /\ Written(Log(l)') \subseteq Written(Log(l))
    <3>1. Log(l)' = file[l] BY <1>1, <2>1, BufferGone
    <3>2. GoodLog(file[l] \o buf[l], issued \cap Of(l)) BY <1>2, LogFacts DEF Log
    <3>3. file[l] \in Seq(Chunks) /\ buf[l] \in Seq(Chunks) BY <1>1 DEF SinksType
    <3>4. GoodLog(file[l], issued \cap Of(l)) BY <3>2, <3>3, LogPrefix
    <3> QED BY <1>2, <3>1, <3>4, LogFacts
  <2> QED BY <1>2, <1>15, <2>1, <2>2, LaneAre, LogFacts DEF LogInv
<1>18. CASE Restart
  <2>1. /\ phase \in {"exited", "crashed"} /\ UNCHANGED <<file, void, issued, alog, handed, pc, req>>
        /\ buf' = Empty /\ \A l \in LaneNames : ~Torn(l)
    BY <1>18 DEF Restart, Alive, SinksOpen, lane, callers
  <2>2. buf = Empty BY <2>1 DEF ProxyInv, PhaseInv
  <2>3. \A l \in LaneNames : Log(l)' = Log(l) BY <2>1, <2>2 DEF Log
  <2>4. ASSUME NEW l \in LaneNames PROVE Len(Log(l)) % 2 = 0
    <3>1. Log(l)' = file[l] BY <1>1, <2>1, BufferGone
    <3>2. Log(l) = file[l] BY <2>3, <3>1
    <3>3. file[l] \in Seq(Chunks) /\ Len(file[l]) \in Nat BY <1>1 DEF SinksType
    <3>4. InLines(file[l]) BY <1>2, <3>2, LogFacts DEF GoodLog
    <3>5. CASE file[l] = <<>> BY <3>2, <3>5
    <3>6. CASE file[l] # <<>>
      <4>1. Len(file[l]) \in 1..Len(file[l]) BY <3>3, <3>6, EmptySeq
      <4>2. file[l][Len(file[l])].half # 1 BY <2>1, <3>6 DEF Torn
      <4>3. Len(file[l]) % 2 # 1 BY <3>4, <4>1, <4>2 DEF InLines
      <4>4. \A x \in Nat : x % 2 # 1 => x % 2 = 0 OBVIOUS
      <4> QED BY ONLY <3>2, <3>3, <4>3, <4>4, Zenon
    <3> QED BY <3>5, <3>6
  <2>5. Waiting' = Waiting BY <2>1 DEF Waiting
  <2> QED BY <1>2, <2>1, <2>3, <2>4, <2>5, LogFrame
<1> QED BY <1>4, <1>5, <1>6, <1>7, <1>8, <1>9, <1>10, <1>11, <1>13, <1>14, <1>16, <1>17, <1>18, Steps
      DEF QuietStep

-----------------------------------------------------------------------------
(* What was acknowledged.                                                  *)

\* In one life, short of its end, everything only grows, and what leaves the lane is logged.
GrowStep ==
    /\ torn' = torn /\ issued \subseteq issued' /\ Logged \subseteq Logged' /\ InFile \subseteq InFile'
    /\ Len(alog) <= Len(alog') /\ \A j \in 1..Len(alog) : alog'[j] = alog[j]
    /\ handed <= handed' /\ Group(handed') \subseteq Logged'

\* While a process runs, the logs, their files and what counts as logged only grow.
LEMMA Growing ==
    ASSUME ProxyInv, ~torn, [Next]_vars, ~CloseS, ~Crash, ~Restart
    PROVE  GrowStep
<1>1. RestType /\ SinksType BY TypeParts DEF ProxyInv
<1>2. Len(alog) \in Nat /\ handed \in Nat /\ Group(handed) = {} BY <1>1 DEF RestType, Group
\* The logs stay.
<1>3. ASSUME \A l \in LaneNames : Log(l)' = Log(l) /\ Written(file[l]) \subseteq Written(file'[l]),
             UNCHANGED <<void, issued, alog, handed, torn>>
      PROVE  GrowStep
  <2>1. Logged' = Logged BY <1>3, LaneAre DEF Logged
  <2>2. InFile \subseteq InFile' BY <1>3, LaneAre DEF InFile
  <2> QED BY <1>2, <1>3, <2>1, <2>2 DEF GrowStep
<1>4. ASSUME UNCHANGED <<buf, file, void, issued, alog, handed, torn>> PROVE GrowStep
  <2>1. \A l \in LaneNames : Log(l)' = Log(l) /\ Written(file[l]) \subseteq Written(file'[l]) BY <1>4 DEF Log
  <2> QED BY <1>3, <1>4, <2>1
<1>5. ASSUME NEW c \in Callers, NEW e \in Envelopes, Begin(c, e) PROVE GrowStep
  <2>1. UNCHANGED <<buf, file, void, torn, handed>> /\ issued \subseteq issued'
    BY <1>5 DEF Begin, sinks, lane, Accept
  <2>2. Logged' = Logged /\ InFile' = InFile BY <2>1 DEF Logged, InFile, Log
  <2>3. Len(alog) <= Len(alog') /\ \A j \in 1..Len(alog) : alog'[j] = alog[j]
    <3>1. CASE UNCHANGED lane BY <1>2, <3>1 DEF lane
    <3>2. CASE Accept(e)
      <4>1. alog' = Append(alog, e) /\ alog \in Seq(Envelopes) BY <1>1, <3>2 DEF Accept, RestType
      <4>2. Len(alog') = Len(alog) + 1 /\ \A j \in 1..Len(alog) : alog'[j] = alog[j]
        BY <4>1, AppendProperties
      <4> QED BY <1>2, <4>2
    <3> QED BY <1>5, <3>1, <3>2 DEF Begin
  <2> QED BY <1>2, <2>1, <2>2, <2>3 DEF GrowStep
<1>6. ASSUME NEW c \in Callers,
             \/ Route(c) \/ Create(c) \/ Enqueue(c) \/ Ack(c) \/ State(c) \/ StateFlushed(c) \/ StateAnswer(c)
             \/ StateRead(c, "readS", "S", "readV") \/ StateRead(c, "readV", "V", "answer")
      PROVE  GrowStep
  <2>1. UNCHANGED <<buf, file, void, issued, alog, handed, torn>>
    BY <1>6 DEF Route, Create, Enqueue, Ack, State, StateFlushed, StateAnswer, StateRead, FlushBegin, FlushEnd,
                sinks, lane, history
  <2> QED BY <1>4, <2>1
<1>7. ASSUME NEW c \in Callers, FlushStep(c) PROVE GrowStep
  <2>1. PICK l \in LaneNames : SinkFlush(l) BY <1>7, LaneAre DEF FlushStep, StateFlushSink
  <2>2. Keeps(l) /\ Log(l)' = Log(l) BY <1>1, <2>1, FlushEmpties
  <2>3. \A m \in LaneNames : Log(m)' = Log(m) /\ Written(file[m]) \subseteq Written(file'[m])
    BY <2>2 DEF Keeps, Log
  <2>4. UNCHANGED <<void, issued, alog, handed, torn>> BY <1>7 DEF FlushStep, StateFlushSink, lane, history
  <2> QED BY <1>3, <2>3, <2>4
<1>8. ASSUME NEW c \in Callers, AppendV(c) PROVE GrowStep
  <2>1. Log("S")' = Log("S") /\ Written(Log("V")) \subseteq Written(Log("V")') BY <1>8, LogAppendV
  <2>2. Keeps("V")
    <3>1. req[c] \in Envelopes BY <1>8, Places DEF AppendV, ProxyInv, CallerInv, TypeInv
    <3>2. <<VRecord(req[c])>> \in Seq(Records) /\ Len(<<VRecord(req[c])>>) > 0 BY <3>1, VRecordIs
    <3>3. Write("V", <<VRecord(req[c])>>) BY <1>8 DEF AppendV
    <3> QED BY <1>1, <3>2, <3>3, WriteLogs, LaneAre
  <2>3. UNCHANGED <<void, issued, alog, handed, torn>> BY <1>8 DEF AppendV, lane, history
  <2>4. Logged \subseteq Logged' BY <2>1, <2>3 DEF Logged
  <2>5. InFile \subseteq InFile' BY <2>2, <2>3, LaneAre DEF Keeps, InFile
  <2> QED BY <1>2, <2>3, <2>4, <2>5 DEF GrowStep
<1>9. ASSUME Alive, NEW n \in handed..Len(alog), OnSBatches(n), handed' = n,
             UNCHANGED <<alog, issued, pc, req, torn>>
      PROVE  GrowStep
  <2>1. Keeps("S") /\ Logged' = Logged \cup Group(n) BY <1>9, LogHand
  <2>2. void \subseteq void' BY <1>9 DEF OnSBatches
  <2>3. InFile \subseteq InFile' BY <2>1, <2>2, LaneAre DEF Keeps, InFile
  <2> QED BY <1>2, <1>9, <2>1, <2>3 DEF GrowStep
<1>10. ASSUME NEW n \in 1..Len(alog), HandBatches(n) PROVE GrowStep
  <2>1. n \in handed..Len(alog) BY <1>1, <1>10 DEF HandBatches, Hand, RestType
  <2>2. Alive /\ OnSBatches(n) /\ handed' = n /\ UNCHANGED <<alog, issued, pc, req, torn>>
    BY <1>10 DEF HandBatches, Hand, callers
  <2> QED BY <1>9, <2>1, <2>2
<1>11. CASE StopLane
  <2>1. Len(alog) \in handed..Len(alog) BY <1>1 DEF RestType
  <2>2. /\ Alive /\ OnSBatches(Len(alog)) /\ handed' = Len(alog) /\ UNCHANGED <<alog, issued, pc, req, torn>>
    BY <1>11 DEF StopLane, LaneStop, Phase, Alive, callers
  <2> QED BY <1>9, <2>1, <2>2
<1>12. CASE CloseV
  <2>1. Keeps("V") /\ Log("V")' = Log("V") BY <1>1, <1>12, CloseEmpties, LaneAre DEF CloseV
  <2>2. \A m \in LaneNames : Log(m)' = Log(m) /\ Written(file[m]) \subseteq Written(file'[m])
    BY <2>1 DEF Keeps, Log
  <2> QED BY <1>3, <1>12, <2>2 DEF CloseV, lane, history
<1>13. CASE Signal \/ Gone \/ UNCHANGED vars
  BY <1>4, <1>13 DEF Signal, Gone, vars, sinks, lane, history
<1> QED BY <1>5, <1>6, <1>7, <1>8, <1>10, <1>11, <1>12, <1>13, Steps DEF QuietStep

\* What was logged or waiting still is.
LEMMA StillThere ==
    ASSUME RestType, RestType', GrowStep
    PROVE  Logged \cup Waiting \subseteq (Logged \cup Waiting)'
<1>1. ASSUME NEW j \in (handed + 1)..Len(alog) PROVE alog[j] \in (Logged \cup Waiting)'
  <2>1. /\ j \in 1..Len(alog) /\ handed' \in Nat /\ Len(alog) \in Nat /\ Len(alog') \in Nat
        /\ alog'[j] = alog[j] /\ Len(alog) <= Len(alog') /\ handed \in Nat
    BY DEF RestType, GrowStep
  <2>2. CASE j <= handed'
    <3>1. j \in (handed + 1)..handed' BY <2>1, <2>2
    <3> QED BY <3>1 DEF GrowStep, Group
  <2>3. CASE j > handed'
    <3>1. j \in (handed' + 1)..Len(alog') BY <2>1, <2>3
    <3> QED BY <2>1, <3>1 DEF Waiting
  <2> QED BY <2>1, <2>2, <2>3
<1>2. Logged \subseteq Logged' BY DEF GrowStep
<1>3. \A x \in Waiting : \E j \in (handed + 1)..Len(alog) : x = alog[j] BY DEF Waiting
<1> QED BY <1>1, <1>2, <1>3

\* At the start nothing has been acknowledged.
LEMMA MustInit == ASSUME Init PROVE MustInv
BY DEF Init, MustInv

\* Every step keeps it that what was acknowledged is logged or still in the lane.
LEMMA MustNext == ASSUME ProxyInv, [Next]_vars PROVE MustInv'
<1> SUFFICES ASSUME ~torn' PROVE MustInv' BY DEF MustInv
<1>1. RestType /\ SinksType /\ RestType' BY TypeParts, RestNext DEF ProxyInv
<1>2. ~torn
  BY Steps, QuietSinks DEF FlushStep, StateFlushSink, AppendV, HandBatches, Signal, CloseV, StopLane,
                           CloseS, Crash, Restart, Gone, vars, history
<1>must. /\ phase # "crashed" => must \subseteq Logged \cup Waiting
         /\ phase \in {"laneDone", "exited"} => must \subseteq Logged
         /\ safe \subseteq InFile
         /\ \A c \in Callers : pc[c] = "ack" /\ phase = "up" => req[c] \in Logged \cup Waiting
  BY <1>2 DEF ProxyInv, MustInv
<1>3. CASE CloseS
  <2>1. Keeps("S") /\ Log("S")' = Log("S") BY <1>1, <1>3, CloseEmpties, LaneAre DEF CloseS
  <2>2. \A m \in LaneNames : Log(m)' = Log(m) /\ Written(file[m]) \subseteq Written(file'[m])
    BY <2>1 DEF Keeps, Log
  <2>3. UNCHANGED <<void, must, safe>> /\ phase = "laneDone" /\ phase' = "exited"
    BY <1>3 DEF CloseS, Phase, history
  <2>4. Logged' = Logged /\ InFile \subseteq InFile' BY <2>2, <2>3, LaneAre DEF Logged, InFile
  <2> QED BY <1>must, <2>3, <2>4 DEF MustInv
<1>4. CASE Crash
  <2>1. UNCHANGED <<file, void, safe>> /\ phase' = "crashed" BY <1>4 DEF Crash
  <2>2. InFile' = InFile BY <2>1 DEF InFile
  <2> QED BY <1>must, <2>1, <2>2 DEF MustInv
<1>5. CASE Restart
  <2>1. /\ phase \in {"exited", "crashed"} /\ UNCHANGED <<file, void, must, alog, handed, pc>>
        /\ buf' = Empty /\ safe' = must /\ phase' = "up"
    BY <1>5 DEF Restart, Alive, SinksOpen, lane, callers
  <2>2. buf = Empty /\ (phase = "crashed" => must = safe) /\ \A c \in Callers : pc[c] = "idle"
    BY <2>1 DEF ProxyInv, PhaseInv
  <2>3. \A l \in LaneNames : Log(l)' = Log(l) /\ Log(l)' = file[l] BY <1>1, <2>1, <2>2, BufferGone DEF Log
  <2>4. Logged' = InFile' /\ Logged = InFile /\ Logged' = Logged BY <2>1, <2>3, LaneAre DEF Logged, InFile
  <2>5. must \subseteq InFile' BY <1>must, <2>1, <2>2, <2>4
  <2> QED BY <2>1, <2>2, <2>4, <2>5 DEF MustInv
\* Otherwise what was there still is.
<1>6. ASSUME ~CloseS, ~Crash, ~Restart
      PROVE  /\ Logged \subseteq Logged' /\ InFile \subseteq InFile'
             /\ Logged \cup Waiting \subseteq (Logged \cup Waiting)'
  <2>1. GrowStep BY <1>2, <1>6, Growing
  <2> QED BY <1>1, <2>1, StillThere DEF GrowStep
<1> DEFINE There == (Logged \cup Waiting)'
<1>7. ASSUME ~CloseS, ~Crash, ~Restart, UNCHANGED <<must, safe>>, phase' = phase,
             \A c \in Callers : pc'[c] = "ack" /\ phase = "up" =>
                 (pc[c] = "ack" /\ req'[c] = req[c]) \/ req'[c] \in There
      PROVE  MustInv'
  BY <1>6, <1>7, <1>must DEF MustInv
<1>9. ASSUME NEW c \in Callers, QuietStep(c) \/ FlushStep(c) \/ AppendV(c)
      PROVE  phase' = phase /\ Alive /\ ~CloseS /\ ~Crash /\ ~Restart
  <2>1. phase' = phase /\ Alive
    BY <1>9, QuietSinks DEF QuietStep, Begin, Route, Create, Enqueue, Ack, State, StateFlushed, StateRead,
                StateAnswer, FlushStep, StateFlushSink, AppendV, proc
  <2> QED BY <2>1 DEF CloseS, Phase, Crash, Restart, Alive
<1>10. ASSUME NEW c \in Callers, NEW e \in Envelopes, Begin(c, e) PROVE MustInv'
  <2>1. phase' = phase /\ ~CloseS /\ ~Crash /\ ~Restart BY <1>9, <1>10 DEF QuietStep
  <2>2. UNCHANGED <<must, safe>> /\ \A d \in Callers : d # c => pc'[d] = pc[d] /\ req'[d] = req[d]
    BY <1>1, <1>10 DEF Begin, RestType
  <2>3. pc'[c] = "ack" => req'[c] \in There
    <3>1. CASE Classify(e) = "S"
      <4>1. alog' = Append(alog, e) /\ handed' = handed /\ req'[c] = e
        BY <1>1, <1>10, <3>1 DEF Begin, Accept, RestType
      <4>2. Len(alog') = Len(alog) + 1 /\ alog'[Len(alog) + 1] = e /\ Len(alog) \in Nat /\ handed <= Len(alog)
        BY <1>1, <4>1, AppendProperties DEF RestType
      <4>3. Len(alog) + 1 \in (handed' + 1)..Len(alog') BY <1>1, <4>1, <4>2 DEF RestType
      <4> QED BY <4>1, <4>2, <4>3 DEF Waiting
    <3>2. CASE Classify(e) # "S"
      <4>1. pc'[c] \in {"idle", "route"} BY <1>1, <1>10, <3>2 DEF Begin, RestType
      <4> QED BY <4>1
    <3> QED BY <3>1, <3>2
  <2> HIDE DEF There
  <2> QED BY <1>7, <2>1, <2>2, <2>3
<1>11. ASSUME NEW c \in Callers,
             \/ Route(c) \/ Create(c) \/ Enqueue(c) \/ State(c) \/ StateFlushed(c) \/ FlushStep(c)
             \/ StateRead(c, "readS", "S", "readV") \/ StateRead(c, "readV", "V", "answer")
      PROVE  MustInv'
  <2>1. phase' = phase /\ ~CloseS /\ ~Crash /\ ~Restart BY <1>9, <1>11 DEF QuietStep
  <2>2. UNCHANGED <<must, safe, req>> /\ pc'[c] # "ack" /\ \A d \in Callers : d # c => pc'[d] = pc[d]
    BY <1>1, <1>11 DEF Route, Create, Enqueue, State, StateFlushed, FlushStep, StateFlushSink, StateRead,
                       RestType, history
  <2> QED BY <1>7, <2>1, <2>2
<1>12. ASSUME NEW c \in Callers, Ack(c) PROVE MustInv'
  <2>1. phase' = phase /\ ~CloseS /\ ~Crash /\ ~Restart BY <1>9, <1>12 DEF QuietStep
  <2>2. /\ pc[c] = "ack" /\ must' = (IF phase = "up" THEN must \cup {req[c]} ELSE must) /\ safe' = safe
        /\ pc'[c] = "idle" /\ \A d \in Callers : d # c => pc'[d] = pc[d] /\ req'[d] = req[d]
    BY <1>1, <1>12 DEF Ack, RestType
  <2>3. phase = "up" => req[c] \in Logged \cup Waiting BY <1>must, <2>2
  <2> QED BY <1>6, <1>must, <2>1, <2>2, <2>3 DEF MustInv
<1>13. ASSUME NEW c \in Callers, StateAnswer(c) PROVE MustInv'
  <2>1. phase' = phase /\ ~CloseS /\ ~Crash /\ ~Restart BY <1>9, <1>13 DEF QuietStep
  <2>2. /\ pc[c] = "answer" /\ must' = must /\ safe' = safe \cup want[c] /\ req' = req
        /\ pc'[c] = "idle" /\ \A d \in Callers : d # c => pc'[d] = pc[d]
    BY <1>1, <1>13 DEF StateAnswer, RestType
  <2>3. want[c] \subseteq InFile BY <1>2, <2>2 DEF ProxyInv, StateInv, StateOf
  <2> QED BY <1>6, <1>must, <2>1, <2>2, <2>3 DEF MustInv
<1>14. ASSUME NEW c \in Callers, AppendV(c) PROVE MustInv'
  <2>1. phase' = phase /\ ~CloseS /\ ~Crash /\ ~Restart BY <1>9, <1>14
  <2>2. UNCHANGED <<must, safe, req>> /\ \A d \in Callers : d # c => pc'[d] = pc[d]
    BY <1>1, <1>14 DEF AppendV, RestType, history
  <2>3. phase = "up" => req[c] \in There
    <3>1. phase = "up" => ~closed["V"] BY DEF ProxyInv, PhaseInv, Alive
    <3>2. phase = "up" => req[c] \in Written(Log("V")') BY <1>2, <1>14, <3>1, LogAppendV
    <3> QED BY <3>2 DEF Logged
  <2> HIDE DEF There
  <2> QED BY <1>7, <2>1, <2>2, <2>3
<1>15. CASE \E n \in 1..Len(alog) : HandBatches(n)
  <2>1. phase' = phase /\ Alive /\ UNCHANGED <<must, safe, pc, req>> BY <1>15 DEF HandBatches, proc, callers
  <2>2. ~CloseS /\ ~Crash /\ ~Restart BY <2>1 DEF CloseS, Phase, Crash, Restart, Alive
  <2> QED BY <1>7, <2>1, <2>2
<1>16. CASE StopLane
  <2>1. /\ phase = "vclosed" /\ phase' = "laneDone" /\ UNCHANGED <<must, safe, alog>> /\ handed' = Len(alog)
    BY <1>16 DEF StopLane, LaneStop, Phase
  <2>2. ~CloseS /\ ~Crash /\ ~Restart BY <2>1 DEF CloseS, Phase, Crash, Restart, Alive
  <2>3. Waiting' = {} BY <1>1, <2>1 DEF Waiting, RestType
  <2> QED BY <1>6, <1>must, <2>1, <2>2, <2>3 DEF MustInv
<1>17. CASE Signal \/ CloseV
  <2>1. /\ phase \in {"up", "closing"} /\ phase' \in {"closing", "vclosed"} /\ UNCHANGED <<must, safe>>
    BY <1>17 DEF Signal, CloseV, Phase, history
  <2>2. ~CloseS /\ ~Crash /\ ~Restart BY <2>1 DEF CloseS, Phase, Crash, Restart, Alive
  <2> QED BY <1>6, <1>must, <2>1, <2>2 DEF MustInv
<1>18. CASE Gone \/ UNCHANGED vars
  <2>1. UNCHANGED <<buf, file, void, alog, handed, must, safe, phase, pc, req>>
    BY <1>18 DEF Gone, vars, sinks, lane, history, proc, callers
  <2>2. ~CloseS /\ ~Crash /\ ~Restart BY <2>1 DEF CloseS, Phase, Crash, Restart, Alive
  <2> QED BY <1>7, <2>1, <2>2
<1> QED BY <1>3, <1>4, <1>5, <1>10, <1>11, <1>12, <1>13, <1>14, <1>15, <1>16, <1>17, <1>18, Steps
      DEF QuietStep

-----------------------------------------------------------------------------
(* /state.                                                                 *)

\* At the start no /state is under way.
LEMMA StateInit == ASSUME Init PROVE StateInv
BY DEF Init, StateInv, StateOf

\* A call of /state is not disturbed by what the others do.
LEMMA StateKept ==
    ASSUME RestType, RestType', GrowStep, NEW c \in Callers, StateOf(c),
           pc'[c] = pc[c], want'[c] = want[c], st'[c] = st[c], asked'[c] = asked[c]
    PROVE  StateOf(c)'
<1>1. Logged \subseteq Logged' /\ InFile \subseteq InFile' /\ issued \subseteq issued' BY DEF GrowStep
<1>2. pc[c] = "flush" =>
         /\ asked'[c] \in 0..Len(alog')
         /\ want'[c] \subseteq Logged' \cup {alog'[j] : j \in (handed' + 1)..asked'[c]}
  <2> SUFFICES ASSUME pc[c] = "flush"
               PROVE  /\ asked[c] \in 0..Len(alog')
                      /\ want[c] \subseteq Logged' \cup {alog'[j] : j \in (handed' + 1)..asked[c]}
    OBVIOUS
  <2>1. /\ asked[c] \in 0..Len(alog)
        /\ want[c] \subseteq Logged \cup {alog[j] : j \in (handed + 1)..asked[c]}
    BY DEF StateOf
  <2>2. /\ Len(alog) \in Nat /\ Len(alog') \in Nat /\ handed \in Nat /\ handed' \in Nat
        /\ Len(alog) <= Len(alog') /\ \A j \in 1..Len(alog) : alog'[j] = alog[j]
    BY DEF RestType, GrowStep
  <2>3. asked[c] \in 0..Len(alog') BY <2>1, <2>2
  <2>4. ASSUME NEW j \in (handed + 1)..asked[c]
        PROVE  alog[j] \in Logged' \/ \E i \in (handed' + 1)..asked[c] : alog[j] = alog'[i]
    <3>1. j \in 1..Len(alog) BY <2>1, <2>2
    <3>2. CASE j <= handed'
      <4>1. j \in (handed + 1)..handed' BY <2>1, <2>2, <3>2
      <4> QED BY <4>1 DEF GrowStep, Group
    <3>3. CASE j > handed'
      <4>1. j \in (handed' + 1)..asked[c] BY <2>1, <2>2, <3>3
      <4> QED BY <2>2, <3>1, <4>1
    <3> QED BY <2>1, <2>2, <3>2, <3>3
  <2> QED BY <1>1, <2>1, <2>3, <2>4
<1>3. pc[c] = "readV" =>
         \E R \in SUBSET (issued' \cap Of("S")) :
             want'[c] \cap Of("S") \subseteq R /\ st'[c] = BaselineApply(R)
  BY <1>1 DEF StateOf
<1>4. pc[c] = "answer" => \E R \in SUBSET issued' : want'[c] \subseteq R /\ st'[c] = BaselineApply(R)
  BY <1>1 DEF StateOf
<1>5. /\ pc[c] = "flushS" => want[c] \subseteq Logged'
      /\ pc[c] \in {"flushV", "readS", "readV", "answer"} =>
            want[c] \cap Of("S") \subseteq InFile' /\ want[c] \subseteq Logged'
      /\ pc[c] \in {"readS", "readV", "answer"} => want[c] \subseteq InFile'
      /\ pc[c] \notin {"readV", "answer"} => st[c] = NewState
  BY <1>1 DEF StateOf
<1> QED BY <1>2, <1>3, <1>4, <1>5 DEF StateOf

\* The requests of the lanes.
LEMMA LanesApart == Of("S") \cap Of("V") = {} BY DEF Of

\* Reading the S log onto a new state shows its requests.
LEMMA ReadS ==
    ASSUME ProxyInv, ~torn
    PROVE  \E R \in SUBSET (issued \cap Of("S")) :
              InFile \cap Of("S") \subseteq R /\ Applied(NewState, ReadAll("S")) = BaselineApply(R)
<1> DEFINE W == Written(file["S"])
           Q == issued \cap Of("S")
<1>1. TypeInv /\ SinksType BY TypeParts DEF ProxyInv
<1>2. GoodLog(file["S"], Q)
  <2>1. GoodLog(file["S"] \o buf["S"], Q) BY LaneAre, LogFacts DEF Log
  <2>2. file["S"] \in Seq(Chunks) /\ buf["S"] \in Seq(Chunks) BY <1>1, LaneAre DEF SinksType
  <2> QED BY <2>1, <2>2, LogPrefix
<1>3. Q \subseteq Envelopes BY <1>1 DEF TypeInv
<1>4. NewState \in [Cells -> Int] BY DEF NewState
<1> HIDE DEF Q
<1>5. W \subseteq Q /\ Applied(NewState, ReadAll("S")) = [c \in Cells |-> NewState[c] + BaselineApply(W)[c]]
  BY <1>1, <1>2, <1>3, <1>4, LaneAre, ReplayIs
<1>6. void \subseteq Q /\ BaselineApply(void) = NewState /\ void \cap W = {} BY LogFacts, LaneAre DEF Q
<1>7. W \cup void \subseteq Envelopes /\ W \subseteq Envelopes /\ void \subseteq Envelopes BY <1>3, <1>5, <1>6
<1> HIDE DEF W
<1>8. BaselineApply(W \cup void) \in [Cells -> Int] BY <1>7, BaselineIs
<1>9. ASSUME NEW c \in Cells PROVE NewState[c] + BaselineApply(W)[c] = BaselineApply(W \cup void)[c]
  <2>1. BaselineApply(W \cup void)[c] = BaselineApply(W)[c] + BaselineApply(void)[c]
    BY <1>6, <1>7, BaselineUnion
  <2>2. NewState[c] = 0 /\ BaselineApply(void)[c] = 0 BY <1>6 DEF NewState
  <2>3. BaselineApply(W)[c] \in Int BY <1>7, BaselineIs
  <2> QED BY ONLY <2>1, <2>2, <2>3
<1>10. Applied(NewState, ReadAll("S")) = BaselineApply(W \cup void) BY <1>5, <1>8, <1>9
<1>11. InFile \cap Of("S") \subseteq W \cup void
  <2>1. Written(file["V"]) \subseteq Of("V") BY LogFacts, LaneAre
  <2> QED BY <2>1, LanesApart DEF InFile, W
<1> QED BY <1>5, <1>6, <1>10, <1>11 DEF Q

\* Reading the V log onto a state that shows some requests of the S-lane shows its own too.
LEMMA ReadV ==
    ASSUME ProxyInv, ~torn, NEW R, R \subseteq issued \cap Of("S")
    PROVE  /\ Written(file["V"]) \subseteq issued \cap Of("V") /\ InFile \cap Of("V") \subseteq Written(file["V"])
           /\ Applied(BaselineApply(R), ReadAll("V")) = BaselineApply(R \cup Written(file["V"]))
<1> DEFINE W == Written(file["V"])
           Q == issued \cap Of("V")
<1>1. TypeInv /\ SinksType BY TypeParts DEF ProxyInv
<1>2. GoodLog(file["V"], Q)
  <2>1. GoodLog(file["V"] \o buf["V"], Q) BY LaneAre, LogFacts DEF Log
  <2>2. file["V"] \in Seq(Chunks) /\ buf["V"] \in Seq(Chunks) BY <1>1, LaneAre DEF SinksType
  <2> QED BY <2>1, <2>2, LogPrefix
<1>3. Q \subseteq Envelopes /\ R \subseteq Envelopes BY <1>1 DEF TypeInv
<1>4. BaselineApply(R) \in [Cells -> Int] BY <1>3, BaselineIs
<1>5. R \cap Q = {} BY LanesApart
<1>6. InFile \cap Of("V") \subseteq W
  <2>1. Written(file["S"]) \subseteq Of("S") /\ void \subseteq Of("S") BY LogFacts, LaneAre
  <2> QED BY <2>1, LanesApart DEF InFile
<1> HIDE DEF Q
<1>7. W \subseteq Q /\ Applied(BaselineApply(R), ReadAll("V")) = [c \in Cells |-> BaselineApply(R)[c] + BaselineApply(W)[c]]
  BY <1>1, <1>2, <1>3, <1>4, LaneAre, ReplayIs
<1> HIDE DEF W
<1>8. R \cup W \subseteq Envelopes /\ W \subseteq Envelopes /\ R \cap W = {} BY <1>3, <1>5, <1>7
<1>9. BaselineApply(R \cup W) \in [Cells -> Int] BY <1>8, BaselineIs
<1>10. \A c \in Cells : BaselineApply(R \cup W)[c] = BaselineApply(R)[c] + BaselineApply(W)[c]
  BY <1>3, <1>8, BaselineUnion
<1>11. Applied(BaselineApply(R), ReadAll("V")) = BaselineApply(R \cup W) BY <1>7, <1>9, <1>10
<1> QED BY <1>6, <1>7, <1>11 DEF W, Q

\* Every step keeps it that a /state under way has read what it must show.
LEMMA StateNext == ASSUME ProxyInv, [Next]_vars PROVE StateInv'
<1> SUFFICES ASSUME ~torn' PROVE \A c \in Callers : StateOf(c)' BY DEF StateInv
<1>1. RestType /\ SinksType /\ RestType' /\ HistoryType /\ CallerInv BY TypeParts, RestNext DEF ProxyInv
<1>2. ~torn
  BY Steps, QuietSinks DEF FlushStep, StateFlushSink, AppendV, HandBatches, Signal, CloseV, StopLane,
                           CloseS, Crash, Restart, Gone, vars, history
<1>of. \A c \in Callers : StateOf(c) BY <1>2 DEF ProxyInv, StateInv
\* Nobody is at /state.
<1>3. ASSUME NEW c \in Callers, pc'[c] \notin Reading, st'[c] = NewState PROVE StateOf(c)'
  BY <1>3 DEF StateOf, Reading
<1>4. CASE CloseS \/ Crash
  <2>1. \A c \in Callers : pc'[c] = "idle" /\ st'[c] = NewState BY <1>4 DEF CloseS, Crash, MemoryLost
  <2> QED BY <1>3, <2>1 DEF Reading
<1>5. CASE Restart
  <2>1. UNCHANGED <<pc, st>> /\ phase \in {"exited", "crashed"} BY <1>5 DEF Restart, callers, Alive
  <2>2. \A c \in Callers : pc[c] = "idle" BY <2>1 DEF ProxyInv, PhaseInv
  <2>3. \A c \in Callers : st[c] = NewState BY <1>of, <2>2 DEF StateOf
  <2> QED BY <1>3, <2>1, <2>2, <2>3 DEF Reading
<1>6. ASSUME ~CloseS, ~Crash, ~Restart PROVE GrowStep BY <1>2, <1>6, Growing
\* The others are not disturbed.
<1>7. ASSUME ~CloseS, ~Crash, ~Restart, NEW c \in Callers, StateOf(c)',
             \A d \in Callers : d # c =>
                pc'[d] = pc[d] /\ want'[d] = want[d] /\ st'[d] = st[d] /\ asked'[d] = asked[d]
      PROVE  \A d \in Callers : StateOf(d)'
  <2>1. GrowStep BY <1>6, <1>7
  <2>2. ASSUME NEW d \in Callers, d # c PROVE StateOf(d)' BY <1>1, <1>7, <1>of, <2>1, <2>2, StateKept
  <2> QED BY <1>7, <2>2
<1>8. ASSUME ~CloseS, ~Crash, ~Restart, UNCHANGED <<pc, want, st, asked>>
      PROVE  \A c \in Callers : StateOf(c)'
  <2>1. GrowStep BY <1>6, <1>8
  <2> QED BY <1>1, <1>8, <1>of, <2>1, StateKept
<1>9. ASSUME NEW c \in Callers, QuietStep(c) \/ FlushStep(c) \/ AppendV(c)
      PROVE  phase' = phase /\ Alive /\ ~CloseS /\ ~Crash /\ ~Restart
  <2>1. phase' = phase /\ Alive
    BY <1>9, QuietSinks DEF QuietStep, Begin, Route, Create, Enqueue, Ack, State, StateFlushed, StateRead,
                StateAnswer, FlushStep, StateFlushSink, AppendV, proc
  <2> QED BY <2>1 DEF CloseS, Phase, Crash, Restart, Alive
\* A caller with a request.
<1>10. ASSUME NEW c \in Callers,
              \/ \E e \in Envelopes : Begin(c, e)
              \/ Route(c) \/ Create(c) \/ Enqueue(c) \/ AppendV(c) \/ Ack(c)
       PROVE  \A d \in Callers : StateOf(d)'
  <2>1. ~CloseS /\ ~Crash /\ ~Restart BY <1>9, <1>10 DEF QuietStep
  <2>2. /\ UNCHANGED <<want, st, asked>> /\ \A d \in Callers : d # c => pc'[d] = pc[d]
        /\ pc[c] \notin Reading /\ pc'[c] \notin Reading
    BY <1>1, <1>10, SMTT(30) DEF Begin, Route, Create, Enqueue, AppendV, Ack, RestType, lane, Accept, Reading
  <2>3. st'[c] = NewState BY <1>of, <2>2 DEF StateOf, Reading
  <2>4. StateOf(c)' BY <1>3, <2>2, <2>3
  <2> QED BY <1>7, <2>1, <2>2, <2>4
<1>11. ASSUME NEW c \in Callers, State(c) PROVE \A d \in Callers : StateOf(d)'
  <2>1. ~CloseS /\ ~Crash /\ ~Restart /\ phase # "crashed" BY <1>9, <1>11 DEF QuietStep, Alive
  <2>2. /\ pc[c] = "idle" /\ pc'[c] = "flush" /\ want'[c] = must /\ asked'[c] = Len(alog)
        /\ UNCHANGED <<st, alog, handed, sinks, void>>
        /\ \A d \in Callers : d # c => pc'[d] = pc[d] /\ want'[d] = want[d] /\ asked'[d] = asked[d]
    BY <1>1, <1>11 DEF State, FlushBegin, RestType, history
  <2>3. must \subseteq Logged \cup Waiting BY <1>2, <2>1 DEF ProxyInv, MustInv
  <2>4. Logged' = Logged BY <2>2 DEF Logged, Log, sinks
  <2>5. st'[c] = NewState BY <1>of, <2>2 DEF StateOf
  <2>6. Len(alog) \in 0..Len(alog) BY <1>1 DEF RestType
  <2>7. StateOf(c)' BY <2>2, <2>3, <2>4, <2>5, <2>6 DEF StateOf, Waiting
  <2> QED BY <1>7, <2>1, <2>2, <2>7
<1>12. ASSUME NEW c \in Callers, StateFlushed(c) PROVE \A d \in Callers : StateOf(d)'
  <2>1. ~CloseS /\ ~Crash /\ ~Restart BY <1>9, <1>12 DEF QuietStep
  <2>2. /\ pc[c] = "flush" /\ pc'[c] = "flushS" /\ handed >= asked[c]
        /\ UNCHANGED <<st, want, alog, handed, sinks, void>>
        /\ \A d \in Callers : d # c => pc'[d] = pc[d] /\ asked'[d] = asked[d]
    BY <1>1, <1>12 DEF StateFlushed, FlushEnd, RestType, history
  <2>3. /\ asked[c] \in Int
        /\ want[c] \subseteq Logged \cup {alog[j] : j \in (handed + 1)..asked[c]}
        /\ st[c] = NewState
    BY <1>1, <1>of, <2>2 DEF StateOf, RestType
  <2>4. handed \in Nat BY <1>1 DEF RestType
  <2>5. \A j \in (handed + 1)..asked[c] : FALSE BY <2>2, <2>3, <2>4
  <2>6. want[c] \subseteq Logged BY <2>3, <2>5
  <2>7. Logged' = Logged BY <2>2 DEF Logged, Log, sinks
  <2>8. StateOf(c)' BY <2>2, <2>3, <2>6, <2>7 DEF StateOf
  <2> QED BY <1>7, <2>1, <2>2, <2>8
<1>13. ASSUME NEW c \in Callers, StateFlushSink(c, "flushS", "S", "flushV") PROVE \A d \in Callers : StateOf(d)'
  <2>1. ~CloseS /\ ~Crash /\ ~Restart /\ Alive BY <1>9, <1>13 DEF FlushStep
  <2>2. /\ pc[c] = "flushS" /\ pc'[c] = "flushV" /\ SinkFlush("S") /\ UNCHANGED <<st, want, asked, void>>
        /\ \A d \in Callers : d # c => pc'[d] = pc[d]
    BY <1>1, <1>13 DEF StateFlushSink, RestType, history, lane
  <2>3. ~closed["S"] BY <2>1 DEF ProxyInv, PhaseInv
  <2>4. file'["S"] = Log("S") BY <1>1, <2>2, <2>3, LaneAre, FlushEmpties
  <2>5. want[c] \subseteq Logged /\ st[c] = NewState BY <1>of, <2>2 DEF StateOf
  <2>6. Written(Log("V")) \subseteq Of("V") BY <1>2, LogFacts, LaneAre
  <2>7. want[c] \cap Of("S") \subseteq InFile' BY <2>2, <2>4, <2>5, <2>6, LanesApart DEF InFile, Logged
  <2>8. want[c] \subseteq Logged' BY <1>6, <2>1, <2>5 DEF GrowStep
  <2>9. StateOf(c)' BY <2>2, <2>5, <2>7, <2>8 DEF StateOf
  <2> QED BY <1>7, <2>1, <2>2, <2>9
<1>14. ASSUME NEW c \in Callers, StateFlushSink(c, "flushV", "V", "readS") PROVE \A d \in Callers : StateOf(d)'
  <2>1. ~CloseS /\ ~Crash /\ ~Restart /\ Alive BY <1>9, <1>14 DEF FlushStep
  <2>2. /\ pc[c] = "flushV" /\ pc'[c] = "readS" /\ SinkFlush("V") /\ UNCHANGED <<st, want, asked, void>>
        /\ \A d \in Callers : d # c => pc'[d] = pc[d]
    BY <1>1, <1>14 DEF StateFlushSink, RestType, history, lane
  <2>3. file'["V"] = Log("V")
    <3>1. CASE ~closed["V"] BY <1>1, <2>2, <3>1, LaneAre, FlushEmpties
    <3>2. CASE closed["V"]
      <4>1. buf["V"] = <<>> /\ file'["V"] = file["V"]
        BY <2>2, <3>2 DEF ProxyInv, PhaseInv, SinkFlush, sinks
      <4>2. file["V"] \in Seq(Chunks) BY <1>1, LaneAre DEF SinksType
      <4>3. Log("V") = file["V"] \o <<>> BY <4>1 DEF Log
      <4> QED BY <4>1, <4>2, <4>3, ConcatEmptySeq
    <3> QED BY <3>1, <3>2
  <2>4. /\ want[c] \cap Of("S") \subseteq InFile /\ want[c] \subseteq Logged /\ st[c] = NewState
    BY <1>of, <2>2 DEF StateOf
  <2>5. Logged \subseteq Logged' /\ InFile \subseteq InFile' BY <1>6, <2>1 DEF GrowStep
  <2>6. Written(Log("S")) \subseteq Of("S") /\ void \subseteq Of("S") BY <1>2, LogFacts, LaneAre
  <2>7. ASSUME NEW e \in want[c] PROVE e \in InFile'
    <3>1. CASE e \in Of("S") BY <2>4, <2>5, <2>7, <3>1
    <3>2. CASE e \notin Of("S")
      <4>1. e \in Written(Log("V")) BY <2>4, <2>6, <2>7, <3>2 DEF Logged
      <4> QED BY <2>3, <4>1 DEF InFile
    <3> QED BY <3>1, <3>2
  <2>8. StateOf(c)' BY <2>2, <2>4, <2>5, <2>7 DEF StateOf
  <2> QED BY <1>7, <2>1, <2>2, <2>8
<1>15. ASSUME NEW c \in Callers, StateRead(c, "readS", "S", "readV") PROVE \A d \in Callers : StateOf(d)'
  <2>1. ~CloseS /\ ~Crash /\ ~Restart /\ Alive BY <1>9, <1>15 DEF QuietStep
  <2>2. /\ pc[c] = "readS" /\ pc'[c] = "readV" /\ st'[c] = Applied(st[c], ReadAll("S"))
        /\ UNCHANGED <<want, asked, issued>>
        /\ \A d \in Callers : d # c => pc'[d] = pc[d] /\ st'[d] = st[d]
    BY <1>1, <1>15 DEF StateRead, RestType, history, lane
  <2>3. /\ want[c] \cap Of("S") \subseteq InFile /\ want[c] \subseteq Logged /\ want[c] \subseteq InFile
        /\ st[c] = NewState
    BY <1>of, <2>2 DEF StateOf
  <2>4. Logged \subseteq Logged' /\ InFile \subseteq InFile' BY <1>6, <2>1 DEF GrowStep
  <2>5. \E R \in SUBSET (issued \cap Of("S")) :
            InFile \cap Of("S") \subseteq R /\ Applied(NewState, ReadAll("S")) = BaselineApply(R)
    BY <1>2, ReadS
  <2>6. \E R \in SUBSET (issued' \cap Of("S")) : want'[c] \cap Of("S") \subseteq R /\ st'[c] = BaselineApply(R)
    BY <2>2, <2>3, <2>5
  <2>7. StateOf(c)' BY <2>2, <2>3, <2>4, <2>6 DEF StateOf
  <2> QED BY <1>7, <2>1, <2>2, <2>7
<1>16. ASSUME NEW c \in Callers, StateRead(c, "readV", "V", "answer") PROVE \A d \in Callers : StateOf(d)'
  <2>1. ~CloseS /\ ~Crash /\ ~Restart /\ Alive BY <1>9, <1>16 DEF QuietStep
  <2>2. /\ pc[c] = "readV" /\ pc'[c] = "answer" /\ st'[c] = Applied(st[c], ReadAll("V"))
        /\ UNCHANGED <<want, asked, issued>>
        /\ \A d \in Callers : d # c => pc'[d] = pc[d] /\ st'[d] = st[d]
    BY <1>1, <1>16 DEF StateRead, RestType, history, lane
  <2>3. /\ want[c] \cap Of("S") \subseteq InFile /\ want[c] \subseteq Logged /\ want[c] \subseteq InFile
        /\ \E R \in SUBSET (issued \cap Of("S")) : want[c] \cap Of("S") \subseteq R /\ st[c] = BaselineApply(R)
    BY <1>of, <2>2 DEF StateOf
  <2>4. Logged \subseteq Logged' /\ InFile \subseteq InFile' BY <1>6, <2>1 DEF GrowStep
  <2>5. PICK R \in SUBSET (issued \cap Of("S")) : want[c] \cap Of("S") \subseteq R /\ st[c] = BaselineApply(R)
    BY <2>3
  <2> DEFINE W == Written(file["V"])
  <2>6. /\ W \subseteq issued \cap Of("V") /\ InFile \cap Of("V") \subseteq W
        /\ Applied(BaselineApply(R), ReadAll("V")) = BaselineApply(R \cup W)
    BY <1>2, <2>5, ReadV
  <2>7. want[c] \subseteq Of("S") \cup Of("V")
    <3>1. want[c] \subseteq issued BY <1>1 DEF CallerInv, HistoryType
    <3> QED BY <1>1, <3>1 DEF CallerInv, HistoryType, Of
  <2> HIDE DEF W
  <2>8. want[c] \subseteq R \cup W BY <2>3, <2>5, <2>6, <2>7
  <2>9. R \cup W \in SUBSET issued' BY <2>2, <2>5, <2>6
  <2>10. st'[c] = BaselineApply(R \cup W) BY <2>2, <2>5, <2>6
  <2>11. \E Q \in SUBSET issued' : want'[c] \subseteq Q /\ st'[c] = BaselineApply(Q)
    BY <2>2, <2>8, <2>9, <2>10
  <2>12. StateOf(c)' BY <2>2, <2>3, <2>4, <2>11 DEF StateOf
  <2> QED BY <1>7, <2>1, <2>2, <2>12
<1>17. ASSUME NEW c \in Callers, StateAnswer(c) PROVE \A d \in Callers : StateOf(d)'
  <2>1. ~CloseS /\ ~Crash /\ ~Restart /\ Alive BY <1>9, <1>17 DEF QuietStep
  <2>2. /\ pc'[c] = "idle" /\ st'[c] = NewState /\ UNCHANGED asked
        /\ \A d \in Callers : d # c => pc'[d] = pc[d] /\ st'[d] = st[d] /\ want'[d] = want[d]
    BY <1>1, <1>17 DEF StateAnswer, RestType, lane
  <2>3. StateOf(c)' BY <1>3, <2>2 DEF Reading
  <2> QED BY <1>7, <2>1, <2>2, <2>3
<1>18. CASE (\E n \in 1..Len(alog) : HandBatches(n)) \/ StopLane \/ Signal \/ CloseV
  <2>1. UNCHANGED <<pc, want, st, asked>> /\ phase' \in {"up", "closing", "vclosed", "laneDone"} /\ Alive
    BY <1>1, <1>18 DEF HandBatches, Hand, StopLane, LaneStop, Signal, CloseV, Phase, Alive, callers, lane, proc,
                       RestType
  <2>2. ~CloseS /\ ~Crash /\ ~Restart BY <2>1 DEF CloseS, Phase, Crash, Restart
  <2> QED BY <1>8, <2>1, <2>2
<1>19. CASE Gone \/ UNCHANGED vars
  <2>1. UNCHANGED <<pc, want, st, asked, phase>> BY <1>19 DEF Gone, vars, callers, lane, proc
  <2>2. ~CloseS /\ ~Crash /\ ~Restart BY <2>1 DEF CloseS, Phase, Crash, Restart, Alive
  <2> QED BY <1>8, <2>1, <2>2
<1> QED BY <1>4, <1>5, <1>10, <1>11, <1>12, <1>13, <1>14, <1>15, <1>16, <1>17, <1>18, <1>19, Steps
      DEF QuietStep, FlushStep

-----------------------------------------------------------------------------
(* The simulator's router.                                                 *)

\* The lines of a key in a log, and a queue that says the same.
LinesAt(k, s) == {j \in 1..Len(s) : s[j].half = 1 /\ s[j].rec.cell[1] = k}
Holds(q, k, s) ==
    \E at \in [1..Len(q) -> LinesAt(k, s)] :
        /\ \A i, j \in 1..Len(q) : i < j => at[i] < at[j]
        /\ \A l \in LinesAt(k, s) : \E i \in 1..Len(q) : at[i] = l
        /\ \A i \in 1..Len(q) : s[at[i]].rec = VRecord(q[i])

\* Until the first signal closes its log, only the generator uses the router, its actors
\* stay, and a queue is ahead of the log by the request that is about to be logged.
SimLife == prog = "sim" /\ restarts = 0 /\ Alive
QueueInv ==
    SimLife =>
      /\ actors \in [{e.key : e \in Envelopes} -> [maker : Callers \cup {"none"}, queue : Seq(Envelopes)]]
      /\ mine \in [Callers -> Callers \cup {"none"}]
      /\ \A c \in Callers : pc[c] \in Serving \ {"ack"} => c = gen
      /\ pc[gen] = "create" => actors[req[gen].key] = NoActor
      /\ pc[gen] = "enqueue" => actors[req[gen].key].maker = mine[gen]
      /\ ~closed["V"] =>
            \A k \in DOMAIN actors :
                IF pc[gen] = "append" /\ req[gen].key = k
                THEN \E q \in Seq(Envelopes) :
                        actors[k].queue = Append(q, req[gen]) /\ Holds(q, k, Log("V"))
                ELSE Holds(actors[k].queue, k, Log("V"))

\* The log and a request that is appended to it.
LEMMA LinesGrow ==
    ASSUME NEW s \in Seq(Chunks), NEW e \in Envelopes, NEW k
    PROVE  LET u == s \o Lines(<<VRecord(e)>>)
           IN /\ LinesAt(k, u) = LinesAt(k, s) \cup (IF e.key = k THEN {Len(s) + 1} ELSE {})
              /\ \A j \in LinesAt(k, s) : j \in 1..Len(s) /\ u[j] = s[j]
              /\ u[Len(s) + 1].rec = VRecord(e)
<1> DEFINE r == VRecord(e)
           t == Lines(<<r>>)
           u == s \o t
           L == Len(s)
<1>1. <<r>> \in Seq(Records) /\ Len(<<r>>) = 1 /\ r.cell = CellOf(e) BY VRecordIs
<1>2. /\ t \in Seq(Chunks) /\ Len(t) = 2 /\ t[1].half = 1 /\ t[2].half = 2 /\ t[1].rec = r
  <2>1. <<r>>[1] = r OBVIOUS
  <2> DEFINE rs == <<r>>
  <2>2. rs \in Seq(Records) /\ Len(rs) = 1 /\ rs[1] = r BY <1>1, <2>1
  <2> HIDE DEF rs
  <2>3. /\ Lines(rs) \in Seq(Chunks) /\ Len(Lines(rs)) = 2
        /\ \A j \in 1..2 : /\ Lines(rs)[j].rec = rs[(j + 1) \div 2]
                           /\ Lines(rs)[j].half = IF j % 2 = 1 THEN 1 ELSE 2
    <3>1. /\ Lines(rs) \in Seq(Chunks) /\ Len(Lines(rs)) = 2 * Len(rs)
          /\ \A j \in 1..(2 * Len(rs)) : /\ Lines(rs)[j].rec = rs[(j + 1) \div 2]
                                        /\ Lines(rs)[j].half = IF j % 2 = 1 THEN 1 ELSE 2
      BY <2>2, LinesAre
    <3>2. 2 * Len(rs) = 2 BY <2>2
    <3> QED BY <3>1, <3>2
  <2>4. (1 + 1) \div 2 = 1 /\ 1 % 2 = 1 /\ 2 % 2 # 1 OBVIOUS
  <2> QED BY <2>2, <2>3, <2>4 DEF rs
<1> HIDE DEF t, r
<1>3. /\ Len(u) = L + 2 /\ L \in Nat /\ (\A j \in 1..L : u[j] = s[j]) /\ u[L + 1] = t[1] /\ u[L + 2] = t[2]
  <2>1. Len(u) = L + Len(t) /\ \A i \in 1..L + Len(t) : u[i] = IF i <= L THEN s[i] ELSE t[i - L]
    BY <1>2, ConcatProperties
  <2>2. L \in Nat OBVIOUS
  <2> HIDE DEF u, L
  <2> QED BY <1>2, <2>1, <2>2
<1>4. u[L + 1].rec = r /\ u[L + 1].half = 1 /\ u[L + 2].half = 2 BY <1>2, <1>3
<1>5. r.cell[1] = e.key BY <1>1 DEF CellOf
<1> HIDE DEF u
<1>6. \A j \in 1..Len(u) : j \in LinesAt(k, u) <=> (j \in LinesAt(k, s) \/ (j = L + 1 /\ e.key = k))
  <2> SUFFICES ASSUME NEW j \in 1..Len(u)
               PROVE  j \in LinesAt(k, u) <=> (j \in LinesAt(k, s) \/ (j = L + 1 /\ e.key = k))
    OBVIOUS
  <2>1. CASE j \in 1..L BY <1>3, <2>1 DEF LinesAt
  <2>2. CASE j = L + 1 BY <1>3, <1>4, <1>5, <2>2 DEF LinesAt
  <2>3. CASE j = L + 2 BY <1>3, <1>4, <2>3 DEF LinesAt
  <2> QED BY <1>3, <2>1, <2>2, <2>3
<1>7. LinesAt(k, u) \subseteq 1..Len(u) /\ LinesAt(k, s) \subseteq 1..Len(u) /\ L + 1 \in 1..Len(u)
  BY <1>3 DEF LinesAt
<1>8. LinesAt(k, u) = LinesAt(k, s) \cup (IF e.key = k THEN {L + 1} ELSE {}) BY <1>6, <1>7
<1>9. \A j \in LinesAt(k, s) : j \in 1..L /\ u[j] = s[j] BY <1>3 DEF LinesAt
<1> QED BY <1>4, <1>8, <1>9 DEF u, t, r

\* The queue that gets the same request.
LEMMA HoldsGrows ==
    ASSUME NEW s \in Seq(Chunks), NEW e \in Envelopes, NEW q \in Seq(Envelopes), Holds(q, e.key, s)
    PROVE  Holds(Append(q, e), e.key, s \o Lines(<<VRecord(e)>>))
<1> DEFINE u == s \o Lines(<<VRecord(e)>>)
           k == e.key
           p == Append(q, e)
           N == Len(q)
           M == Len(s) + 1
<1>1. /\ LinesAt(k, u) = LinesAt(k, s) \cup {M} /\ u[M].rec = VRecord(e)
      /\ \A j \in LinesAt(k, s) : j \in 1..Len(s) /\ u[j] = s[j]
  BY LinesGrow
<1>2. PICK at \in [1..N -> LinesAt(k, s)] :
        /\ \A i, j \in 1..N : i < j => at[i] < at[j]
        /\ \A l \in LinesAt(k, s) : \E i \in 1..N : at[i] = l
        /\ \A i \in 1..N : s[at[i]].rec = VRecord(q[i])
  BY DEF Holds
<1>3. N \in Nat /\ Len(p) = N + 1 /\ p[N + 1] = e /\ \A i \in 1..N : p[i] = q[i] BY AppendProperties
<1>4. Len(s) \in Nat /\ M \in Nat OBVIOUS
<1> HIDE DEF u, k, p, N, M
<1> DEFINE to == [i \in 1..(N + 1) |-> IF i = N + 1 THEN M ELSE at[i]]
<1>5. \A i \in 1..(N + 1) : i = N + 1 \/ i \in 1..N BY <1>3
<1>6. \A i \in 1..N : i \in 1..(N + 1) /\ i # N + 1 /\ to[i] = at[i] /\ at[i] \in LinesAt(k, s) BY <1>2, <1>3
<1>7. to[N + 1] = M /\ N + 1 \in 1..(N + 1) BY <1>3
<1>8. to \in [1..(N + 1) -> LinesAt(k, u)] BY <1>1, <1>5, <1>6, <1>7
<1> HIDE DEF to
<1>9. \A i, j \in 1..(N + 1) : i < j => to[i] < to[j]
  <2> SUFFICES ASSUME NEW i \in 1..(N + 1), NEW j \in 1..(N + 1), i < j PROVE to[i] < to[j] OBVIOUS
  <2>1. i \in 1..N BY <1>3
  <2>2. CASE j \in 1..N BY <1>2, <1>6, <2>1, <2>2
  <2>3. CASE j = N + 1
    <3>1. to[i] \in 1..Len(s) BY <1>1, <1>6, <2>1
    <3> QED BY <1>4, <1>7, <2>3, <3>1 DEF M
  <2> QED BY <1>5, <2>2, <2>3
<1>10. \A l \in LinesAt(k, u) : \E i \in 1..(N + 1) : to[i] = l BY <1>1, <1>2, <1>6, <1>7
<1>11. \A i \in 1..(N + 1) : u[to[i]].rec = VRecord(p[i]) BY <1>1, <1>2, <1>3, <1>5, <1>6, <1>7, SMTT(30)
<1>12. Holds(p, k, u)
  <2> DEFINE D == 1..Len(p)
  <2>1. D = 1..(N + 1) BY <1>3
  <2> HIDE DEF D
  <2>2. /\ to \in [D -> LinesAt(k, u)]
        /\ \A i, j \in D : i < j => to[i] < to[j]
        /\ \A l \in LinesAt(k, u) : \E i \in D : to[i] = l
        /\ \A i \in D : u[to[i]].rec = VRecord(p[i])
    BY <1>8, <1>9, <1>10, <1>11, <2>1
  <2> QED BY <2>2 DEF Holds, D
<1> QED BY <1>12 DEF p, k, u

\* The queues of the other keys.
LEMMA HoldsStays ==
    ASSUME NEW s \in Seq(Chunks), NEW e \in Envelopes, NEW k, e.key # k, NEW q, Holds(q, k, s)
    PROVE  Holds(q, k, s \o Lines(<<VRecord(e)>>))
<1> DEFINE u == s \o Lines(<<VRecord(e)>>)
<1>1. /\ LinesAt(k, u) = LinesAt(k, s) \cup (IF e.key = k THEN {Len(s) + 1} ELSE {})
      /\ \A j \in LinesAt(k, s) : u[j] = s[j]
  BY LinesGrow
<1> HIDE DEF u
<1>2. Holds(q, k, u) BY <1>1 DEF Holds
<1> QED BY <1>2 DEF u

\* At the start the queues and the V log are empty.
LEMMA QueueInit == ASSUME Init PROVE QueueInv
<1>1. Log("V") = <<>> BY LaneAre DEF Init, SinksInit, Empty, Log
<1>2. Len(<<>>) = 0 /\ <<>> \in Seq(Envelopes) OBVIOUS
<1>3. \A k : Holds(<<>>, k, <<>>)
  <2> SUFFICES ASSUME NEW k PROVE Holds(<<>>, k, <<>>) OBVIOUS
  <2>1. 1..Len(<<>>) = {} BY <1>2
  <2>2. LinesAt(k, <<>>) = {} BY <2>1 DEF LinesAt
  <2> DEFINE at == [i \in {} |-> 0]
  <2>3. at \in [{} -> {}] OBVIOUS
  <2> QED BY <2>1, <2>2, <2>3 DEF Holds
<1>4. /\ actors \in [{e.key : e \in Envelopes} -> [maker : Callers \cup {"none"}, queue : Seq(Envelopes)]]
      /\ \A k \in DOMAIN actors : actors[k].queue = <<>>
  BY <1>2 DEF Init, NoActors, NoActor
<1>5. gen \in Callers /\ \A c \in Callers : pc[c] = "idle" BY DEF Init
<1>6. mine \in [Callers -> Callers \cup {"none"}] BY DEF Init
<1> QED BY <1>1, <1>3, <1>4, <1>5, <1>6, Places DEF QueueInv

\* Only the generator makes Vector envelopes in the simulator.
LEMMA OnlyGenerator ==
    ASSUME prog = "sim", NEW c, NEW e, e.kind \in KindsOf(c), Classify(e) = "V"
    PROVE  c = gen
<1> SUFFICES ASSUME c # gen PROVE FALSE OBVIOUS
<1>1. e.kind = "consume" BY DEF KindsOf
<1>2. Flags(e) = {"IsSingleKey", "IsConservativeDelta"} BY <1>1 DEF Flags
<1> QED BY <1>2 DEF Classify, Forced

\* Every step of the simulator keeps the queue of a key in line with its V log.
LEMMA QueueNext == ASSUME ProxyInv, QueueInv, [Next]_vars PROVE QueueInv'
<1> SUFFICES ASSUME SimLife' PROVE QueueInv' BY DEF QueueInv
<1>1. RestType /\ SinksType /\ CallerInv /\ HistoryType BY TypeParts DEF ProxyInv
<1>2. ~Restart BY <1>1 DEF SimLife, Restart, RestType
<1>3. ~CloseS /\ ~Crash BY DEF SimLife, Alive, CloseS, Phase, Crash
<1>4. SimLife /\ gen' = gen /\ prog' = prog /\ gen \in Callers
  <2>1. UNCHANGED <<prog, gen, restarts>>
    BY <1>2, <1>3, Steps DEF QuietStep, Begin, Route, Create, Enqueue, Ack, State, StateFlushed, StateRead,
            StateAnswer, FlushStep, StateFlushSink, AppendV, HandBatches, Signal, CloseV, StopLane, Gone,
            Phase, proc, vars
  <2>2. Alive
    BY <1>2, <1>3, Steps DEF QuietStep, Begin, Route, Create, Enqueue, Ack, State, StateFlushed, StateRead,
            StateAnswer, FlushStep, StateFlushSink, AppendV, HandBatches, Signal, CloseV, StopLane, Gone,
            Phase, proc, vars, Alive, SimLife
  <2> QED BY <1>1, <2>1, <2>2 DEF SimLife, RestType
<1> DEFINE Keys == {e.key : e \in Envelopes}
           Actors == [maker : Callers \cup {"none"}, queue : Seq(Envelopes)]
           Vector == Serving \ {"ack"}
<1>inv. /\ actors \in [Keys -> Actors]
        /\ mine \in [Callers -> Callers \cup {"none"}]
        /\ \A c \in Callers : pc[c] \in Vector => c = gen
        /\ pc[gen] = "create" => actors[req[gen].key] = NoActor
        /\ pc[gen] = "enqueue" => actors[req[gen].key].maker = mine[gen]
        /\ ~closed["V"] =>
              \A k \in Keys :
                  IF pc[gen] = "append" /\ req[gen].key = k
                  THEN \E q \in Seq(Envelopes) : actors[k].queue = Append(q, req[gen]) /\ Holds(q, k, Log("V"))
                  ELSE Holds(actors[k].queue, k, Log("V"))
  BY <1>4 DEF QueueInv
<1> HIDE DEF Actors
<1>vec. Vector = {"route", "create", "enqueue", "append"} BY Places
<1>all. ASSUME actors' \in [Keys -> Actors], mine' \in [Callers -> Callers \cup {"none"}],
               \A c \in Callers : pc'[c] \in Vector => c = gen,
               pc'[gen] = "create" => actors'[req'[gen].key] = NoActor,
               pc'[gen] = "enqueue" => actors'[req'[gen].key].maker = mine'[gen],
               ~closed'["V"] =>
                  \A k \in Keys :
                     IF pc'[gen] = "append" /\ req'[gen].key = k
                     THEN \E q \in Seq(Envelopes) : actors'[k].queue = Append(q, req'[gen]) /\ Holds(q, k, Log("V")')
                     ELSE Holds(actors'[k].queue, k, Log("V")')
        PROVE  QueueInv'
  <2>1. DOMAIN actors' = Keys BY <1>all
  <2> QED BY <1>4, <1>all, <2>1 DEF QueueInv, Actors
\* Router and log stay, and the generator neither creates, nor pushes, nor logs.
<1>5. ASSUME UNCHANGED <<actors, mine>>, ~closed'["V"] => ~closed["V"] /\ Log("V")' = Log("V"),
             \A c \in Callers : pc'[c] \in Vector => c = gen,
             pc'[gen] \in {"create", "enqueue", "append"} => pc'[gen] = pc[gen],
             pc[gen] = "append" => pc'[gen] = "append",
             pc'[gen] \in {"create", "enqueue", "append"} => req'[gen] = req[gen]
      PROVE  QueueInv'
  BY <1>4, <1>5, <1>inv DEF QueueInv, Actors
<1>6. ASSUME NEW c \in Callers, NEW e \in Envelopes, Begin(c, e) PROVE QueueInv'
  <2>1. UNCHANGED <<actors, mine, closed, file, buf>> /\ e.kind \in KindsOf(c) BY <1>6 DEF Begin, sinks
  <2>2. Log("V")' = Log("V") BY <2>1 DEF Log
  <2>3. pc'[c] \in {"idle", "ack", "route"} /\ pc[c] = "idle"
    BY <1>1, <1>6 DEF Begin, RestType
  <2>4. \A d \in Callers : d # c => pc'[d] = pc[d] /\ req'[d] = req[d] BY <1>1, <1>6 DEF Begin, RestType
  <2>5. pc'[c] = "route" => c = gen
    <3>1. pc'[c] = "route" => Classify(e) = "V" BY <1>1, <1>6 DEF Begin, RestType
    <3> QED BY <1>4, <2>1, <3>1, OnlyGenerator DEF SimLife
  <2>6. \A d \in Callers : pc'[d] \in Vector => d = gen BY <1>inv, <1>vec, <2>3, <2>4, <2>5
  <2> HIDE DEF Vector
  <2> QED BY <1>4, <1>5, <2>1, <2>2, <2>3, <2>4, <2>6
<1>7. ASSUME NEW c \in Callers,
             \/ Ack(c) \/ State(c) \/ StateFlushed(c) \/ StateAnswer(c)
             \/ StateRead(c, "readS", "S", "readV") \/ StateRead(c, "readV", "V", "answer")
      PROVE  QueueInv'
  <2>1. UNCHANGED <<actors, mine, closed, file, buf>>
    BY <1>7 DEF Ack, State, StateFlushed, StateAnswer, StateRead, sinks
  <2>2. Log("V")' = Log("V") BY <2>1 DEF Log
  <2>3. /\ pc'[c] \in {"idle", "flush", "flushS", "readV", "answer"} /\ pc[c] # "append"
        /\ \A d \in Callers : d # c => pc'[d] = pc[d] /\ req'[d] = req[d]
    BY <1>1, <1>7 DEF Ack, State, StateFlushed, StateAnswer, StateRead, RestType
  <2>4. \A d \in Callers : pc'[d] \in Vector => d = gen BY <1>inv, <1>vec, <2>3
  <2> HIDE DEF Vector
  <2> QED BY <1>4, <1>5, <2>1, <2>2, <2>3, <2>4
<1>8. ASSUME NEW c \in Callers, FlushStep(c) PROVE QueueInv'
  <2>1. PICK l \in LaneNames : SinkFlush(l) BY <1>8, LaneAre DEF FlushStep, StateFlushSink
  <2>2. Keeps(l) /\ closed' = closed /\ Log(l)' = Log(l) BY <1>1, <2>1, FlushEmpties
  <2>3. Log("V")' = Log("V") BY <2>2, LaneAre DEF Keeps, Log
  <2>4. /\ pc'[c] \in {"flushV", "readS"} /\ pc[c] # "append" /\ UNCHANGED <<actors, mine, req>>
        /\ \A d \in Callers : d # c => pc'[d] = pc[d]
    BY <1>1, <1>8 DEF FlushStep, StateFlushSink, RestType
  <2>5. \A d \in Callers : pc'[d] \in Vector => d = gen BY <1>inv, <1>vec, <2>4
  <2> HIDE DEF Vector
  <2> QED BY <1>4, <1>5, <2>2, <2>3, <2>4, <2>5
<1>9. ASSUME UNCHANGED <<actors, mine, pc, req>>, ~closed'["V"] => ~closed["V"] /\ Log("V")' = Log("V")
      PROVE  QueueInv'
  BY <1>4, <1>5, <1>9, <1>inv
<1>10. ASSUME NEW n \in handed..Len(alog), OnSBatches(n), UNCHANGED <<actors, mine, pc, req>> PROVE QueueInv'
  <2>1. ~closed["S"] BY <1>4 DEF ProxyInv, PhaseInv, SimLife
  <2>2. alog \in Seq(Envelopes) /\ handed \in Nat /\ void \subseteq Envelopes BY <1>1 DEF RestType
  <2>3. closed' = closed /\ Keeps("S") BY <1>1, <1>10, <2>1, <2>2, BatchesAppend
  <2>4. Log("V")' = Log("V") BY <2>3, LaneAre DEF Keeps, Log
  <2> QED BY <1>9, <1>10, <2>3, <2>4
<1>11. ASSUME NEW n \in 1..Len(alog), HandBatches(n) PROVE QueueInv'
  <2>1. n \in handed..Len(alog) BY <1>1, <1>11 DEF HandBatches, Hand, RestType
  <2> QED BY <1>10, <1>11, <2>1 DEF HandBatches, callers
<1>12. CASE StopLane
  <2>1. Len(alog) \in handed..Len(alog) BY <1>1 DEF RestType
  <2> QED BY <1>10, <1>12, <2>1 DEF StopLane, callers
<1>13. CASE CloseV
  <2>1. closed'["V"] = TRUE BY <1>1, <1>13, CloseEmpties, LaneAre DEF CloseV
  <2> QED BY <1>9, <1>13, <2>1 DEF CloseV, callers
<1>14. CASE Signal \/ Gone \/ UNCHANGED vars
  <2>1. UNCHANGED <<actors, mine, pc, req, closed, file, buf>> BY <1>14 DEF Signal, Gone, vars, callers, sinks
  <2> QED BY <1>9, <2>1 DEF Log
\* The generator's request.
<1>req. ASSUME pc[gen] \in Vector PROVE req[gen] \in Envelopes /\ req[gen].key \in Keys
  <2>1. req[gen] \in issued BY <1>1, <1>4, <1>req DEF CallerInv
  <2> QED BY <1>1, <2>1 DEF HistoryType
<1>15. ASSUME NEW c \in Callers, Route(c) PROVE QueueInv'
  <2>1. c = gen /\ pc[gen] = "route" BY <1>15, <1>inv, <1>vec DEF Route
  <2>2. req[gen].key \in Keys BY <1>req, <1>vec, <2>1
  <2>3. UNCHANGED <<actors, req, closed, file, buf>> BY <1>15 DEF Route, sinks
  <2>4. Log("V")' = Log("V") BY <2>3 DEF Log
  <2>5. \A d \in Callers : d # gen => pc'[d] = pc[d] BY <1>1, <1>15, <2>1 DEF Route, RestType
  <2>6. \A d \in Callers : pc'[d] \in Vector => d = gen BY <1>inv, <2>5
  <2>7. actors[req[gen].key] \in Actors BY <1>inv, <2>2
  <2>8. /\ mine' \in [Callers -> Callers \cup {"none"}] /\ pc'[gen] \in {"create", "enqueue"}
        /\ pc'[gen] = "create" => actors[req[gen].key] = NoActor
        /\ pc'[gen] = "enqueue" => actors[req[gen].key].maker = mine'[gen]
    <3>1. CASE actors[req[gen].key] = NoActor
      BY <1>1, <1>4, <1>15, <1>inv, <2>1, <3>1 DEF Route, RestType
    <3>2. CASE actors[req[gen].key] # NoActor
      <4>1. pc' = [pc EXCEPT ![gen] = "enqueue"] /\ mine' = [mine EXCEPT ![gen] = actors[req[gen].key].maker]
        BY <1>15, <2>1, <3>2 DEF Route
      <4>2. actors[req[gen].key].maker \in Callers \cup {"none"} BY <2>7 DEF Actors
      <4> QED BY <1>1, <1>4, <1>inv, <4>1, <4>2 DEF RestType
    <3> QED BY <3>1, <3>2
  <2>9. ~closed["V"] => \A k \in Keys : Holds(actors[k].queue, k, Log("V")) BY <1>inv, <2>1
  <2>10. pc'[gen] # "append" BY <2>8
  <2> QED BY <1>4, <1>inv, <2>3, <2>4, <2>6, <2>8, <2>9, <2>10 DEF QueueInv, Actors
<1>16. ASSUME NEW c \in Callers, Create(c) PROVE QueueInv'
  <2>1. c = gen /\ pc[gen] = "create" BY <1>16, <1>inv, <1>vec DEF Create
  <2> DEFINE k0 == req[gen].key
             a == [maker |-> gen, queue |-> <<>>]
  <2>2. k0 \in Keys BY <1>req, <1>vec, <2>1
  <2>3. /\ UNCHANGED <<req, closed, file, buf>> /\ actors' = [actors EXCEPT ![k0] = a]
        /\ mine' = [mine EXCEPT ![gen] = gen] /\ pc' = [pc EXCEPT ![gen] = "enqueue"]
    BY <1>16, <2>1 DEF Create, sinks
  <2>4. Log("V")' = Log("V") BY <2>3 DEF Log
  <2>5. a \in Actors
    <3>1. <<>> \in Seq(Envelopes) OBVIOUS
    <3> QED BY <1>4, <3>1 DEF Actors
  <2>6. actors' \in [Keys -> Actors] /\ mine' \in [Callers -> Callers \cup {"none"}]
    BY <1>4, <1>inv, <2>3, <2>5
  <2>7. /\ pc'[gen] = "enqueue" /\ mine'[gen] = gen /\ actors'[k0].maker = gen
        /\ \A d \in Callers : d # gen => pc'[d] = pc[d]
    BY <1>1, <1>4, <1>inv, <2>2, <2>3 DEF RestType
  <2>8. \A d \in Callers : pc'[d] \in Vector => d = gen BY <1>inv, <2>7
  <2>9. \A k \in Keys : actors'[k].queue = actors[k].queue
    <3>1. actors[k0].queue = <<>> BY <1>inv, <2>1 DEF NoActor
    <3>2. actors'[k0].queue = <<>> BY <1>inv, <2>2, <2>3
    <3>3. \A k \in Keys : k # k0 => actors'[k] = actors[k] BY <1>inv, <2>3
    <3> QED BY <3>1, <3>2, <3>3
  <2>10. ~closed["V"] => \A k \in Keys : Holds(actors'[k].queue, k, Log("V")) BY <1>inv, <2>1, <2>9
  <2> HIDE DEF a
  <2> HIDE DEF Keys, Vector
  <2> QED BY <1>all, <2>3, <2>4, <2>6, <2>7, <2>8, <2>10
<1>17. ASSUME NEW c \in Callers, Enqueue(c) PROVE QueueInv'
  <2>1. c = gen /\ pc[gen] = "enqueue" BY <1>17, <1>inv, <1>vec DEF Enqueue
  <2> DEFINE k0 == req[gen].key
             p == Append(actors[k0].queue, req[gen])
             push == [actors EXCEPT ![k0].queue = p]
  <2>2. k0 \in Keys /\ req[gen] \in Envelopes BY <1>req, <1>vec, <2>1
  <2>3. actors[k0].maker = mine[gen] BY <1>inv, <2>1
  <2>4. ~Contended(gen) BY <1>inv, <1>vec, <1>4 DEF Contended
  <2>5. actors' = push BY <1>17, <2>1, <2>3, <2>4 DEF Enqueue
  <2>6. /\ UNCHANGED <<req, closed, file, buf>> /\ mine' = [mine EXCEPT ![gen] = "none"]
        /\ pc' = [pc EXCEPT ![gen] = "append"]
    BY <1>17, <2>1 DEF Enqueue, sinks
  <2>7. Log("V")' = Log("V") BY <2>6 DEF Log
  <2>8. actors[k0] \in Actors /\ actors[k0].queue \in Seq(Envelopes) /\ p \in Seq(Envelopes)
    <3>1. actors[k0] \in Actors BY <1>inv, <2>2
    <3>2. actors[k0].queue \in Seq(Envelopes) BY <3>1 DEF Actors
    <3> QED BY <2>2, <3>1, <3>2, AppendProperties
  <2> DEFINE b == [actors[k0] EXCEPT !.queue = p]
  <2>9. actors' = [actors EXCEPT ![k0] = b] /\ b \in Actors /\ b.queue = p
    BY <2>5, <2>8 DEF Actors
  <2> HIDE DEF b, p
  <2>10. /\ actors' \in [Keys -> Actors] /\ mine' \in [Callers -> Callers \cup {"none"}]
         /\ actors'[k0].queue = p /\ \A k \in Keys : k # k0 => actors'[k] = actors[k]
    BY <1>inv, <2>2, <2>6, <2>9
  <2>11. pc'[gen] = "append" /\ \A d \in Callers : d # gen => pc'[d] = pc[d] BY <1>1, <1>4, <2>6 DEF RestType
  <2>12. \A d \in Callers : pc'[d] \in Vector => d = gen BY <1>inv, <2>11
  <2>13. ~closed["V"] => \A k \in Keys : Holds(actors[k].queue, k, Log("V")) BY <1>inv, <2>1
  <2>14. ~closed["V"] =>
            \A k \in Keys :
                IF k0 = k
                THEN \E q \in Seq(Envelopes) : actors'[k].queue = Append(q, req[gen]) /\ Holds(q, k, Log("V"))
                ELSE Holds(actors'[k].queue, k, Log("V"))
    BY <2>8, <2>10, <2>13 DEF p
  <2> HIDE DEF Keys, Vector
  <2> QED BY <1>all, <2>6, <2>7, <2>10, <2>11, <2>12, <2>14
<1>18. ASSUME NEW c \in Callers, AppendV(c) PROVE QueueInv'
  <2>1. c = gen /\ pc[gen] = "append" BY <1>18, <1>inv, <1>vec DEF AppendV
  <2> DEFINE k0 == req[gen].key
             s == Log("V")
             rs == <<VRecord(req[gen])>>
  <2>2. k0 \in Keys /\ req[gen] \in Envelopes BY <1>req, <1>vec, <2>1
  <2>3. UNCHANGED <<actors, mine, req>> /\ Write("V", rs) BY <1>18, <2>1 DEF AppendV
  <2>4. rs \in Seq(Records) /\ Len(rs) > 0 /\ "V" \in LaneNames BY <2>2, VRecordIs, LaneAre
  <2> HIDE DEF rs
  <2>5. closed' = closed /\ Log("V")' = IF closed["V"] THEN Log("V") ELSE Log("V") \o Lines(rs)
    BY ONLY <1>1, <2>3, <2>4, WriteLogs
  <2>6. pc'[gen] = "ack" /\ \A d \in Callers : d # gen => pc'[d] = pc[d]
    BY <1>1, <1>18, <2>1 DEF AppendV, RestType
  <2>7. \A d \in Callers : pc'[d] \in Vector => d = gen BY <1>inv, <2>6
  <2>8. s \in Seq(Chunks) BY <1>1, <2>4, LogType
  <2>9. ASSUME ~closed["V"], NEW k \in Keys PROVE Holds(actors[k].queue, k, s \o Lines(rs))
    <3> HIDE DEF s
    <3>1. CASE k = k0
      <4>1. PICK q \in Seq(Envelopes) : actors[k].queue = Append(q, req[gen]) /\ Holds(q, k, s)
        BY <1>inv, <2>1, <2>9, <3>1 DEF s
      <4>2. Holds(Append(q, req[gen]), req[gen].key, s \o Lines(<<VRecord(req[gen])>>))
        BY <2>2, <2>8, <3>1, <4>1, HoldsGrows
      <4> QED BY <3>1, <4>1, <4>2 DEF rs
    <3>2. CASE k # k0
      <4>1. Holds(actors[k].queue, k, s) BY <1>inv, <2>9, <3>2 DEF s
      <4>2. Holds(actors[k].queue, k, s \o Lines(<<VRecord(req[gen])>>))
        BY <2>2, <2>8, <3>2, <4>1, HoldsStays
      <4> QED BY <4>2 DEF rs
    <3> QED BY <3>1, <3>2
  <2>10. ~closed'["V"] => \A k \in Keys : Holds(actors'[k].queue, k, Log("V")') BY <2>3, <2>5, <2>9
  <2>11. DOMAIN actors' = Keys BY <1>inv, <2>3
  <2> HIDE DEF s
  <2> QED BY <1>4, <1>inv, <2>3, <2>6, <2>7, <2>10, <2>11 DEF QueueInv, Actors
<1> QED BY <1>2, <1>3, <1>6, <1>7, <1>8, <1>11, <1>12, <1>13, <1>14, <1>15, <1>16, <1>17, <1>18, Steps
      DEF QuietStep

-----------------------------------------------------------------------------
(* The theorems.                                                           *)

\* The invariant holds throughout, in every life of the process.
LEMMA ProxyInvariant == Spec => [](ProxyInv /\ QueueInv)
<1>1. Init => ProxyInv /\ QueueInv
  BY TypeInit, PhaseInit, CallerInit, LogInit, MustInit, StateInit, QueueInit DEF ProxyInv
<1>2. ProxyInv /\ QueueInv /\ [Next]_vars => (ProxyInv /\ QueueInv)'
  <2> SUFFICES ASSUME ProxyInv, QueueInv, [Next]_vars PROVE (ProxyInv /\ QueueInv)' OBVIOUS
  <2>1. TypeInv' /\ PhaseInv' /\ CallerInv' /\ LogInv' /\ MustInv' /\ StateInv' /\ QueueInv'
    BY TypeNext, PhaseNext, CallerNext, LogNext, MustNext, StateNext, QueueNext
  <2> QED BY <2>1 DEF ProxyInv
<1> QED BY <1>1, <1>2, PTL DEF Spec

\* The buffers of the file sinks keep their bound, the requests, phases and histories
\* their types, and what is safe was acknowledged (main.go, sinks).
THEOREM ProxyTypeCorrect == Spec => []TypeOK
<1>1. ProxyInv => TypeOK BY DEF ProxyInv, TypeInv
<1> QED BY <1>1, ProxyInvariant, PTL

\* A set of requests that contains those that are due shows them.
LEMMA ShowsDue ==
    ASSUME NEW state, NEW due, NEW R, R \subseteq issued, due \subseteq R, state = BaselineApply(R)
    PROVE  Shows(state, due)
<1>1. due \cup (R \ due) = R /\ R \ due \in SUBSET (issued \ due) OBVIOUS
<1> QED BY <1>1 DEF Shows

\* An answer of /state is what one log would give for a set of requests, each once, that
\* contains all those acknowledged before the call, also in earlier lives if a /state had
\* shown them or an orderly exit had saved them, unless a life began on a torn file.
THEOREM StateIsExact == Spec => []StateReflectsAcknowledged
<1>1. ProxyInv => StateReflectsAcknowledged
  <2> SUFFICES ASSUME ProxyInv, ~torn, NEW c \in Callers, pc[c] = "answer" PROVE Shows(st[c], want[c])
    BY DEF StateReflectsAcknowledged, StateExact
  <2>1. StateOf(c) BY DEF ProxyInv, StateInv
  <2>2. PICK R \in SUBSET issued : want[c] \subseteq R /\ st[c] = BaselineApply(R) BY <2>1 DEF StateOf
  <2> QED BY <2>2, ShowsDue
<1> QED BY <1>1, ProxyInvariant, PTL

\* After the deferred calls in main the files hold what was acknowledged before the
\* signal, whatever the buffers, the lane and the handlers were doing.
THEOREM ShutdownIsOrderly == Spec => []ShutdownKeepsAcknowledged
<1>1. ProxyInv => ShutdownKeepsAcknowledged
  <2> SUFFICES ASSUME ProxyInv, ~torn, phase = "exited"
               PROVE  Shows(Applied(Applied(NewState, ReadAll("S")), ReadAll("V")), must)
    BY DEF ShutdownKeepsAcknowledged
  <2>1. PICK R \in SUBSET (issued \cap Of("S")) :
          InFile \cap Of("S") \subseteq R /\ Applied(NewState, ReadAll("S")) = BaselineApply(R)
    BY ReadS
  <2> DEFINE W == Written(file["V"])
  <2>2. /\ W \subseteq issued \cap Of("V") /\ InFile \cap Of("V") \subseteq W
        /\ Applied(BaselineApply(R), ReadAll("V")) = BaselineApply(R \cup W)
    BY <2>1, ReadV
  <2>3. must \subseteq InFile
    <3>1. must \subseteq Logged BY DEF ProxyInv, MustInv
    <3>2. SinksType /\ buf = Empty BY TypeParts DEF ProxyInv, PhaseInv
    <3>3. ASSUME NEW l \in LaneNames PROVE Log(l) = file[l]
      <4>1. buf[l] = <<>> /\ file[l] \in Seq(Chunks) BY <3>2 DEF Empty, SinksType
      <4>2. Log(l) = file[l] \o <<>> BY <4>1 DEF Log
      <4> QED BY <4>1, <4>2, ConcatEmptySeq
    <3> QED BY <3>1, <3>3, LaneAre DEF Logged, InFile
  <2>4. must \subseteq Of("S") \cup Of("V")
    <3>1. HistoryType /\ CallerInv BY TypeParts DEF ProxyInv
    <3> QED BY <3>1 DEF HistoryType, CallerInv, Of
  <2> HIDE DEF W
  <2>5. must \subseteq R \cup W BY <2>1, <2>2, <2>3, <2>4
  <2>6. R \cup W \subseteq issued BY <2>1, <2>2
  <2>7. Applied(Applied(NewState, ReadAll("S")), ReadAll("V")) = BaselineApply(R \cup W) BY <2>1, <2>2
  <2> QED BY <2>5, <2>6, <2>7, ShowsDue
<1> QED BY <1>1, ProxyInvariant, PTL

\* In the simulator the actor of a key holds, in order, what the V log holds for the key,
\* although VRouter and VActor have no lock (vactors.go): only the generator routes.
THEOREM QueueMirrorsLog == Spec => []VQueueIsLog
<1>1. ProxyInv /\ QueueInv => VQueueIsLog
  <2> SUFFICES ASSUME ProxyInv, QueueInv, SimLife, ~closed["V"], \A c \in Callers : pc[c] # "append",
                      NEW k \in DOMAIN actors
               PROVE  Mirrors(actors[k].queue, LinesOf(k))
    BY DEF VQueueIsLog, SimLife
  <2>1. SinksType /\ RestType BY TypeParts DEF ProxyInv
  <2>2. Holds(actors[k].queue, k, Log("V")) BY <2>1 DEF QueueInv, RestType
  <2>3. VLog = Log("V") /\ VLog \in Seq(Chunks) BY <2>1, LaneAre, LogType DEF VLog, Log
  <2>4. LinesOf(k) = LinesAt(k, VLog)
    <3>1. DOMAIN VLog = 1..Len(VLog) BY <2>3, LenProperties
    <3> QED BY <3>1 DEF LinesOf, LinesAt
  <2> DEFINE q == actors[k].queue
  <2>5. DOMAIN q = 1..Len(q)
    <3>1. q \in Seq(Envelopes) BY DEF QueueInv
    <3> HIDE DEF q
    <3> QED BY <3>1, LenProperties
  <2> HIDE DEF q
  <2>6. Holds(q, k, VLog) BY <2>2, <2>3 DEF q
  <2>7. Mirrors(q, LinesOf(k)) BY <2>4, <2>5, <2>6 DEF Holds, Mirrors
  <2> QED BY <2>7 DEF q
<1> QED BY <1>1, ProxyInvariant, PTL
=============================================================================
