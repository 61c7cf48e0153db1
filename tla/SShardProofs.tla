---------------------------- MODULE SShardProofs ----------------------------
(***************************************************************************)
(* Theorems about the shard's table, for any table size, any packing of    *)
(* cells into hashes and any envelopes.  The lemmas about single           *)
(* operations do not mention `sent`: SLaneProofs uses them too.            *)
(***************************************************************************)
EXTENDS SShard, SumProofs

\* A slot is empty, or named after a cell with its packed id.
SlotInv == \A s \in SlotIds :
    \/ slots[s] = EmptySlot
    \/ /\ slots[s].cell \in Cells
       /\ slots[s].key = Pack[slots[s].cell]
       /\ slots[s].seq \in SeqEnds

Envelope == [cell : Cells, delta : Deltas, seq : SeqEnds]

\* The part of the inductive invariant that makes the types inductive.
TableInv ==
    /\ ShardTypeOK
    /\ SlotInv
    /\ cur = NoEnv \/ cur \in Envelope
    /\ used = Cardinality(Occupied)

\* The packed id and the SeqEnd that a slot, an envelope or the id of a batch carries.
SlotStamp(sl, s) == <<sl[s].key, sl[s].seq>>
EnvStamp(env) == <<Pack[env.cell], env.seq>>
IdStamp(id) == <<Pack[id[1]], id[2]>>

\* What is at the probe, in the table or handed on carries stamps that envelopes came
\* with; what is in two of these places came twice.
Stamped(sl, cu, done, st) ==
    LET occ == {s \in SlotIds : sl[s].key # 0}
    IN /\ \A id \in done : st[IdStamp(id)] >= 1
       /\ \A s \in occ : /\ st[SlotStamp(sl, s)] >= 1
                        /\ \A id \in done : IdStamp(id) = SlotStamp(sl, s) => st[SlotStamp(sl, s)] >= 2
       /\ \A s, r \in occ : s # r /\ SlotStamp(sl, s) = SlotStamp(sl, r) => st[SlotStamp(sl, s)] >= 2
       /\ cu # NoEnv => /\ st[EnvStamp(cu)] >= 1
                        /\ \A id \in done : IdStamp(id) = EnvStamp(cu) => st[EnvStamp(cu)] >= 2
                        /\ \A s \in occ : SlotStamp(sl, s) = EnvStamp(cu) => st[EnvStamp(cu)] >= 2

-----------------------------------------------------------------------------
(* Types.                                                                  *)

\* The constants, and that the table and its cells are finite.
LEMMA ShardConstants ==
    /\ NumSlots \in Nat \ {0} /\ MaxEnvelopes \in Nat
    /\ Deltas \subseteq Int /\ SeqEnds \subseteq Nat
    /\ Pack \in [Cells -> Nat \ {0}]
    /\ IsFiniteSet(Cells) /\ IsFiniteSet(SlotIds)
    /\ NoCell \notin Cells
<1>1. IsFiniteSet(Cells) BY ShardAssumption, FS_Product DEF Cells
<1>2. IsFiniteSet(SlotIds) BY ShardAssumption, FS_Interval DEF SlotIds
<1>3. NoCell \notin Cells BY DEF NoCell, Cells
<1> QED BY <1>1, <1>2, <1>3, ShardAssumption

\* Some occupied slots are finitely many.
LEMMA OccupiedFinite ==
    ASSUME NEW S \in SUBSET Occupied
    PROVE  IsFiniteSet(S) /\ Cardinality(S) \in Nat
<1>1. S \in SUBSET SlotIds BY DEF Occupied
<1> QED BY <1>1, ShardConstants, FS_Subset, FS_CardinalityType

\* The table is empty at first.
LEMMA TableInitial == TableInit => TableInv
<1> SUFFICES ASSUME TableInit PROVE TableInv OBVIOUS
<1>1. Occupied = {} BY DEF TableInit, Occupied, EmptySlot
<1>2. ShardTypeOK
  BY ShardConstants DEF TableInit, ShardTypeOK, SlotIds, EmptySlot, NoEnv
<1> QED BY <1>1, <1>2, FS_EmptySet DEF TableInit, TableInv, SlotInv

\* A step that leaves the table alone.
LEMMA TableUnchanged == TableInv /\ UNCHANGED table => TableInv'
BY DEF TableInv, table, ShardTypeOK, SlotInv, Occupied

\* Ingest begins: the envelope is at its home slot.
LEMMA TableIngest ==
    ASSUME TableInv, NEW env \in Envelope, Ingest(env)
    PROVE  TableInv'
<1>1. at' \in SlotIds
  <2>1. Pack[env.cell] \in Nat BY ShardConstants DEF Envelope
  <2> QED BY <2>1, ShardConstants DEF Ingest, SlotIds
<1>2. env.cell \in Cells /\ env.delta \in Int /\ env.seq \in SeqEnds
  BY ShardConstants DEF Envelope
<1>3. ingested' \in [Cells -> Int] BY <1>2 DEF Ingest, TableInv, ShardTypeOK
<1>4. cur' \in [cell : Cells \cup {NoCell}, delta : Int, seq : SeqEnds \cup {0}]
  BY <1>2, ShardConstants DEF Ingest, Envelope
<1>5. stamps' \in [Packed \X SeqEnds -> Nat]
  <2>1. EnvStamp(env) \in Packed \X SeqEnds BY <1>2 DEF EnvStamp, Packed
  <2> QED BY <2>1 DEF Ingest, TableInv, ShardTypeOK, EnvStamp
<1>6. ShardTypeOK' BY <1>1, <1>3, <1>4, <1>5 DEF Ingest, TableInv, ShardTypeOK
<1> QED BY <1>6 DEF TableInv, SlotInv, Occupied, Ingest

\* The probe goes to the next slot.
LEMMA TableProbe == TableInv /\ Probe => TableInv'
<1> SUFFICES ASSUME TableInv, Probe PROVE TableInv' OBVIOUS
<1>1. at' \in SlotIds
  <2>1. \A x \in Nat, m \in Nat \ {0} : x % m \in 0..(m - 1) OBVIOUS
  <2>2. at + 1 \in Nat /\ NumSlots \in Nat \ {0}
    BY ShardConstants DEF TableInv, ShardTypeOK, SlotIds
  <2>3. (at + 1) % NumSlots \in 0..(NumSlots - 1) BY <2>1, <2>2
  <2> QED BY <2>3 DEF Probe, SlotIds
<1> QED BY <1>1 DEF TableInv, ShardTypeOK, SlotInv, Occupied, Probe

\* The slot that Place leaves behind.
LEMMA MergedSlot ==
    ASSUME TableInv, Place
    PROVE  /\ cur \in Envelope /\ at \in SlotIds
           /\ slots' = [slots EXCEPT ![at] = Merged(slots[at], cur)]
           /\ LET new == Merged(slots[at], cur)
              IN /\ new.cell = IF slots[at].key = 0 THEN cur.cell ELSE slots[at].cell
                 /\ new.cell \in Cells
                 /\ new.key = Pack[new.cell] /\ new.key = Pack[cur.cell] /\ new.key # 0
                 /\ new.sum = slots[at].sum + cur.delta
                 /\ new.seq \in {slots[at].seq, cur.seq} /\ new.seq \in SeqEnds
                 /\ slots[at].key = 0 => new.seq = cur.seq
                 /\ new \in [key : Nat, cell : Cells \cup {NoCell}, sum : Int, seq : SeqEnds \cup {0}]
<1>1. cur \in Envelope /\ at \in SlotIds BY DEF TableInv, Place, ShardTypeOK
<1>2. slots' = [slots EXCEPT ![at] = Merged(slots[at], cur)]
  BY DEF Place, TableInv, ShardTypeOK
<1> DEFINE new == Merged(slots[at], cur)
<1>4. /\ new.cell = IF slots[at].key = 0 THEN cur.cell ELSE slots[at].cell
      /\ new.key = Pack[cur.cell]
      /\ new.sum = slots[at].sum + cur.delta
      /\ new.seq = IF cur.seq > slots[at].seq THEN cur.seq ELSE slots[at].seq
      /\ new = [key |-> new.key, cell |-> new.cell, sum |-> new.sum, seq |-> new.seq]
  BY DEF Merged
<1> HIDE DEF new
<1>5. cur.cell \in Cells /\ cur.delta \in Int /\ cur.seq \in SeqEnds /\ cur.seq \in Nat
  BY <1>1, ShardConstants DEF Envelope
<1>6. Pack[cur.cell] \in Nat \ {0} BY <1>5, ShardConstants
<1>7. CASE slots[at] = EmptySlot
  <2>1. slots[at].key = 0 /\ slots[at].sum = 0 /\ slots[at].seq = 0 BY <1>7 DEF EmptySlot
  <2>2. new.seq = cur.seq BY <1>4, <1>5, <2>1
  <2> QED BY <1>1, <1>2, <1>4, <1>5, <1>6, <2>1, <2>2, ShardConstants DEF new
<1>8. CASE slots[at] # EmptySlot
  <2>1. /\ slots[at].cell \in Cells /\ slots[at].key = Pack[slots[at].cell]
        /\ slots[at].seq \in SeqEnds /\ slots[at].sum \in Int
    BY <1>1, <1>8 DEF TableInv, SlotInv, ShardTypeOK
  <2>2. slots[at].key # 0 /\ slots[at].key = Pack[cur.cell] BY <2>1, ShardConstants DEF Place
  <2>3. new.cell = slots[at].cell /\ new.cell \in Cells /\ new.key = Pack[new.cell]
    BY <1>4, <2>1, <2>2
  <2>4. new.seq \in {slots[at].seq, cur.seq} /\ new.seq \in SeqEnds
    BY <1>4, <1>5, <2>1
  <2>5. new.key \in Nat \ {0} /\ new.sum \in Int BY <1>4, <1>5, <1>6, <2>1
  <2>6. new \in [key : Nat, cell : Cells \cup {NoCell}, sum : Int, seq : SeqEnds \cup {0}]
    BY <1>4, <2>3, <2>4, <2>5
  <2> QED BY <1>1, <1>2, <1>4, <2>2, <2>3, <2>4, <2>5, <2>6 DEF new
<1> QED BY <1>7, <1>8

\* The envelope is merged into the slot where the probe ends.
LEMMA TablePlace == TableInv /\ Place => TableInv'
<1> SUFFICES ASSUME TableInv, Place PROVE TableInv' OBVIOUS
<1> DEFINE new == Merged(slots[at], cur)
<1>1. /\ at \in SlotIds /\ slots' = [slots EXCEPT ![at] = new]
      /\ new.cell \in Cells /\ new.key = Pack[new.cell] /\ new.key # 0 /\ new.seq \in SeqEnds
      /\ new \in [key : Nat, cell : Cells \cup {NoCell}, sum : Int, seq : SeqEnds \cup {0}]
  BY MergedSlot
<1> HIDE DEF new
<1>2. SlotInv' BY <1>1 DEF SlotInv, TableInv, ShardTypeOK
<1>3. Occupied' = Occupied \cup {at} BY <1>1 DEF Occupied, TableInv, ShardTypeOK
<1>4. used' = Cardinality(Occupied')
  <2>1. at \in Occupied <=> slots[at].key # 0 BY <1>1 DEF Occupied
  <2> QED BY <1>3, <2>1, OccupiedFinite, FS_AddElement DEF Place, TableInv
<1>5. used' \in 0..NumSlots
  <2>1. Occupied' \in SUBSET SlotIds BY DEF Occupied
  <2>2. Cardinality(Occupied') <= Cardinality(SlotIds) /\ Cardinality(Occupied') \in Nat
    BY <2>1, ShardConstants, FS_Subset, FS_CardinalityType
  <2>3. Cardinality(SlotIds) = NumSlots BY ShardConstants, FS_Interval DEF SlotIds
  <2> QED BY <1>4, <2>2, <2>3, ShardConstants
<1>6. cur' \in [cell : Cells \cup {NoCell}, delta : Int, seq : SeqEnds \cup {0}] /\ at' \in SlotIds
  BY ShardConstants DEF Place, NoEnv, SlotIds
<1>7. slots' \in [SlotIds -> [key : Nat, cell : Cells \cup {NoCell}, sum : Int, seq : SeqEnds \cup {0}]]
  BY <1>1 DEF ShardTypeOK, TableInv
<1>8. ShardTypeOK' BY <1>5, <1>6, <1>7 DEF ShardTypeOK, TableInv, Place
<1> QED BY <1>2, <1>4, <1>8 DEF TableInv, Place

\* A finite family of batches.
Family(out) ==
    /\ IsFiniteSet(DOMAIN out)
    /\ \A i \in DOMAIN out : out[i] \in [cell : Cells, delta : Int, seq : SeqEnds]

\* Flush and FlushKey empty some of the occupied slots.
LEMMA TableEmit ==
    ASSUME TableInv, NEW S \in SUBSET Occupied, NEW out, Family(out),
           Emit(S, out), used' = used - Cardinality(S)
    PROVE  TableInv'
<1>1. slots' = [s \in SlotIds |-> IF s \in S THEN EmptySlot ELSE slots[s]] BY DEF Emit, Cleared
<1>2. SlotInv' BY <1>1 DEF SlotInv, TableInv
<1>3. Occupied' = Occupied \ S BY <1>1 DEF Occupied, EmptySlot
<1>4. used' = Cardinality(Occupied')
  <2>1. Occupied \cap S = S OBVIOUS
  <2> QED BY <1>3, <2>1, OccupiedFinite, FS_Difference DEF TableInv
<1>5. used' \in 0..NumSlots
  <2>1. used' \in Nat /\ Cardinality(S) \in Nat BY <1>3, <1>4, OccupiedFinite
  <2>2. used \in 0..NumSlots BY DEF TableInv, ShardTypeOK
  <2> QED BY <2>1, <2>2, ShardConstants
<1>6. emitted' \in [Cells -> Int]
  <2> SUFFICES ASSUME NEW c \in Cells
               PROVE  emitted[c] + SumOver([i \in DOMAIN out |-> out[i].delta],
                                           {i \in DOMAIN out : out[i].cell = c}) \in Int
    BY DEF Emit
  <2> DEFINE B == {i \in DOMAIN out : out[i].cell = c}
             f == [i \in DOMAIN out |-> out[i].delta]
  <2>1. B \in SUBSET (DOMAIN out) /\ \A b \in B : f[b] \in Int BY DEF Family
  <2>2. IsFiniteSet(B) BY <2>1, FS_Subset DEF Family
  <2> HIDE DEF B, f
  <2>3. SumOver(f, B) \in Int BY <2>1, <2>2, SumType
  <2>4. emitted[c] \in Int BY DEF TableInv, ShardTypeOK
  <2> QED BY <2>3, <2>4 DEF B, f
<1>7. ids' \subseteq Cells \X SeqEnds
  <2>1. \A i \in DOMAIN out : <<out[i].cell, out[i].seq>> \in Cells \X SeqEnds BY DEF Family
  <2> QED BY <2>1 DEF Emit, TableInv, ShardTypeOK
<1>8. slots' \in [SlotIds -> [key : Nat, cell : Cells \cup {NoCell}, sum : Int, seq : SeqEnds \cup {0}]]
  BY <1>1, ShardConstants DEF TableInv, ShardTypeOK, EmptySlot
<1>9. ShardTypeOK' BY <1>5, <1>6, <1>7, <1>8 DEF ShardTypeOK, TableInv, Emit
<1> QED BY <1>2, <1>4, <1>9 DEF TableInv, Emit

-----------------------------------------------------------------------------
(* Stamps.                                                                 *)

\* Nothing moves.
LEMMA StampedKept ==
    ASSUME Stamped(slots, cur, ids, stamps), UNCHANGED <<slots, cur, ids, stamps>>
    PROVE  Stamped(slots', cur', ids', stamps')
BY DEF Stamped, SlotStamp

\* The places of a stamp are known to the history.
LEMMA StampTypes ==
    ASSUME TableInv
    PROVE  /\ \A s \in Occupied : SlotStamp(slots, s) \in Packed \X SeqEnds
           /\ \A id \in ids : IdStamp(id) \in Packed \X SeqEnds
           /\ \A env \in Envelope : EnvStamp(env) \in Packed \X SeqEnds
<1>1. \A s \in Occupied : slots[s].key \in Packed /\ slots[s].seq \in SeqEnds
  BY DEF Occupied, TableInv, SlotInv, EmptySlot, Packed
<1>2. \A id \in ids : id[1] \in Cells /\ id[2] \in SeqEnds BY DEF TableInv, ShardTypeOK
<1>3. \A env \in Envelope : env.cell \in Cells /\ env.seq \in SeqEnds BY DEF Envelope
<1> QED BY <1>1, <1>2, <1>3 DEF SlotStamp, IdStamp, EnvStamp, Packed

\* An envelope comes: its stamp counts once more than the places it had.
LEMMA StampedIngest ==
    ASSUME TableInv, NEW env \in Envelope, Stamped(slots, cur, ids, stamps), Ingest(env)
    PROVE  Stamped(slots', cur', ids', stamps')
<1>1. slots' = slots /\ ids' = ids /\ cur' = env /\ cur = NoEnv
      /\ stamps' = [stamps EXCEPT ![EnvStamp(env)] = @ + 1]
  BY DEF Ingest, EnvStamp
<1>2. stamps \in [Packed \X SeqEnds -> Nat] BY DEF TableInv, ShardTypeOK
<1>3. EnvStamp(env) \in Packed \X SeqEnds BY StampTypes
<1>4. \A t \in Packed \X SeqEnds : /\ stamps[t] \in Nat /\ stamps'[t] \in Nat
                                  /\ stamps'[t] = IF t = EnvStamp(env) THEN stamps[t] + 1 ELSE stamps[t]
  BY <1>1, <1>2, <1>3
<1>5. /\ \A id \in ids : /\ IdStamp(id) \in Packed \X SeqEnds /\ stamps[IdStamp(id)] >= 1
      /\ \A s \in Occupied :
            /\ SlotStamp(slots, s) \in Packed \X SeqEnds /\ stamps[SlotStamp(slots, s)] >= 1
            /\ \A id \in ids : IdStamp(id) = SlotStamp(slots, s) => stamps[SlotStamp(slots, s)] >= 2
      /\ \A s, r \in Occupied :
            s # r /\ SlotStamp(slots, s) = SlotStamp(slots, r) => stamps[SlotStamp(slots, s)] >= 2
  BY StampTypes DEF Stamped, Occupied
<1>6. \A t \in Packed \X SeqEnds : stamps'[t] >= stamps[t] BY <1>4
<1>7. stamps'[EnvStamp(env)] = stamps[EnvStamp(env)] + 1 /\ stamps[EnvStamp(env)] \in Nat BY <1>3, <1>4
<1>8. /\ \A id \in ids : stamps'[IdStamp(id)] >= 1
      /\ \A s \in Occupied :
            /\ stamps'[SlotStamp(slots, s)] >= 1
            /\ \A id \in ids : IdStamp(id) = SlotStamp(slots, s) => stamps'[SlotStamp(slots, s)] >= 2
      /\ \A s, r \in Occupied :
            s # r /\ SlotStamp(slots, s) = SlotStamp(slots, r) => stamps'[SlotStamp(slots, s)] >= 2
  BY <1>4, <1>5, <1>6
<1>9. /\ stamps'[EnvStamp(env)] >= 1
      /\ \A id \in ids : IdStamp(id) = EnvStamp(env) => stamps'[EnvStamp(env)] >= 2
      /\ \A s \in Occupied : SlotStamp(slots, s) = EnvStamp(env) => stamps'[EnvStamp(env)] >= 2
  BY <1>5, <1>7
<1> QED BY <1>1, <1>8, <1>9 DEF Stamped, Occupied

\* The envelope at the probe gives its stamp to a slot, or loses to a greater SeqEnd.
LEMMA StampedPlace ==
    ASSUME TableInv, Stamped(slots, cur, ids, stamps), Place
    PROVE  Stamped(slots', cur', ids', stamps')
<1> DEFINE new == Merged(slots[at], cur)
           t == <<new.key, new.seq>>
<1>1. /\ at \in SlotIds /\ slots' = [slots EXCEPT ![at] = new] /\ new.key # 0
      /\ new.key = Pack[cur.cell]
      /\ new.seq \in {slots[at].seq, cur.seq}
      /\ slots[at].key = 0 => new.seq = cur.seq
  BY MergedSlot
<1>2. cur # NoEnv /\ cur' = NoEnv /\ ids' = ids /\ stamps' = stamps
      /\ slots[at].key \in {0, Pack[cur.cell]}
  BY DEF Place
<1> HIDE DEF new
<1>3. \A s \in SlotIds : slots'[s] = IF s = at THEN new ELSE slots[s]
  BY <1>1 DEF TableInv, ShardTypeOK
<1>4. {s \in SlotIds : slots'[s].key # 0} = Occupied \cup {at} BY <1>1, <1>3 DEF Occupied
<1>5. t = EnvStamp(cur) \/ (at \in Occupied /\ t = SlotStamp(slots, at))
  BY <1>1, <1>2 DEF EnvStamp, SlotStamp, Occupied
<1>6. /\ \A id \in ids : stamps[IdStamp(id)] >= 1
      /\ \A s \in Occupied :
            /\ stamps[SlotStamp(slots, s)] >= 1
            /\ \A id \in ids : IdStamp(id) = SlotStamp(slots, s) => stamps[SlotStamp(slots, s)] >= 2
      /\ \A s, r \in Occupied :
            s # r /\ SlotStamp(slots, s) = SlotStamp(slots, r) => stamps[SlotStamp(slots, s)] >= 2
      /\ stamps[EnvStamp(cur)] >= 1
      /\ \A id \in ids : IdStamp(id) = EnvStamp(cur) => stamps[EnvStamp(cur)] >= 2
      /\ \A s \in Occupied : SlotStamp(slots, s) = EnvStamp(cur) => stamps[EnvStamp(cur)] >= 2
  BY <1>2 DEF Stamped, Occupied
<1>7. \A s \in Occupied \cup {at} :
         SlotStamp(slots', s) = IF s = at THEN t ELSE SlotStamp(slots, s)
  BY <1>1, <1>3 DEF SlotStamp, Occupied
<1> HIDE DEF t
<1>8. /\ stamps[t] >= 1
      /\ \A id \in ids : IdStamp(id) = t => stamps[t] >= 2
      /\ \A s \in Occupied \ {at} : SlotStamp(slots, s) = t => stamps[t] >= 2
  BY <1>5, <1>6
<1>9. \A s \in Occupied \cup {at} :
         /\ stamps[SlotStamp(slots', s)] >= 1
         /\ \A id \in ids : IdStamp(id) = SlotStamp(slots', s) => stamps[SlotStamp(slots', s)] >= 2
  BY <1>6, <1>7, <1>8
<1>10. ASSUME NEW s \in Occupied \cup {at}, NEW r \in Occupied \cup {at}, s # r,
              SlotStamp(slots', s) = SlotStamp(slots', r)
       PROVE  stamps[SlotStamp(slots', s)] >= 2
  <2>1. CASE s = at
    <3>1. r \in Occupied \ {at} BY <1>10, <2>1
    <3> QED BY <1>7, <1>8, <1>10, <2>1, <3>1
  <2>2. CASE r = at
    <3>1. s \in Occupied \ {at} BY <1>10, <2>2
    <3> QED BY <1>7, <1>8, <1>10, <2>2, <3>1
  <2>3. CASE s # at /\ r # at
    <3>1. s \in Occupied /\ r \in Occupied BY <2>3
    <3> QED BY <1>6, <1>7, <1>10, <2>3, <3>1
  <2> QED BY <2>1, <2>2, <2>3
<1> QED BY <1>2, <1>4, <1>6, <1>9, <1>10 DEF Stamped

\* Batches carry the stamps of the slots they empty.
LEMMA StampedEmit ==
    ASSUME TableInv, Stamped(slots, cur, ids, stamps), NEW S \in SUBSET Occupied,
           cur = NoEnv, Emit(S, Batches(S))
    PROVE  Stamped(slots', cur', ids', stamps')
<1>1. cur' = NoEnv /\ stamps' = stamps BY DEF Emit
<1>2. ids' = ids \cup {<<slots[s].cell, slots[s].seq>> : s \in S} BY DEF Emit, Batches
<1>3. \A s \in SlotIds : slots'[s] = IF s \in S THEN EmptySlot ELSE slots[s] BY DEF Emit, Cleared
<1>4. {s \in SlotIds : slots'[s].key # 0} = Occupied \ S BY <1>3 DEF EmptySlot, Occupied
<1>5. /\ \A id \in ids : stamps[IdStamp(id)] >= 1
      /\ \A s \in Occupied :
            /\ stamps[SlotStamp(slots, s)] >= 1
            /\ \A id \in ids : IdStamp(id) = SlotStamp(slots, s) => stamps[SlotStamp(slots, s)] >= 2
      /\ \A s, r \in Occupied :
            s # r /\ SlotStamp(slots, s) = SlotStamp(slots, r) => stamps[SlotStamp(slots, s)] >= 2
  BY DEF Stamped, Occupied
<1>6. \A s \in Occupied \ S : SlotStamp(slots', s) = SlotStamp(slots, s)
  BY <1>3 DEF Occupied, SlotStamp
<1>7. \A s \in S : IdStamp(<<slots[s].cell, slots[s].seq>>) = SlotStamp(slots, s)
  <2> TAKE s \in S
  <2>1. slots[s].key = Pack[slots[s].cell] BY DEF Occupied, TableInv, SlotInv, EmptySlot
  <2> QED BY <2>1 DEF IdStamp, SlotStamp
<1>8. \A id \in ids' : id \in ids \/ \E s \in S : IdStamp(id) = SlotStamp(slots, s)
  BY <1>2, <1>7
<1>9. /\ \A id \in ids' : stamps[IdStamp(id)] >= 1
      /\ \A s \in Occupied \ S : stamps[SlotStamp(slots', s)] >= 1
      /\ \A s, r \in Occupied \ S :
            s # r /\ SlotStamp(slots', s) = SlotStamp(slots', r) => stamps[SlotStamp(slots', s)] >= 2
  BY <1>5, <1>6, <1>8
<1>10. ASSUME NEW s \in Occupied \ S, NEW id \in ids', IdStamp(id) = SlotStamp(slots', s)
       PROVE  stamps[SlotStamp(slots', s)] >= 2
  <2>1. CASE id \in ids BY <1>5, <1>6, <1>10, <2>1
  <2>2. ASSUME NEW r \in S, IdStamp(id) = SlotStamp(slots, r) PROVE stamps[SlotStamp(slots', s)] >= 2
    <3>1. r # s /\ SlotStamp(slots, r) = SlotStamp(slots, s) BY <1>6, <1>10, <2>2
    <3> QED BY <1>5, <1>6, <3>1
  <2> QED BY <1>8, <2>1, <2>2
<1> QED BY <1>1, <1>4, <1>9, <1>10 DEF Stamped

-----------------------------------------------------------------------------
(* Deltas.                                                                 *)

\* The batches `out` carry, for each cell, what the slots S hold under its name.
Honest(S, out) == \A c \in Cells :
    SumOver([i \in DOMAIN out |-> out[i].delta], {i \in DOMAIN out : out[i].cell = c})
      = SumOver([s \in S |-> slots[s].sum], {s \in S : slots[s].cell = c})

\* The cells with the packed id of a cell.
LEMMA TwinsFinite ==
    ASSUME NEW c \in Cells
    PROVE  Twins(c) \in SUBSET Cells /\ IsFiniteSet(Twins(c)) /\ NoCell \notin Twins(c)
<1>1. Twins(c) \in SUBSET Cells BY DEF Twins
<1> QED BY <1>1, ShardConstants, FS_Subset

\* A step that moves no delta.
LEMMA ConservedUnchanged ==
    ASSUME DeltasConserved, UNCHANGED <<slots, cur, ingested, emitted>>
    PROVE  DeltasConserved'
BY DEF DeltasConserved, InHand, Pending

\* What Ingest adds to the history of a set of cells.
LEMMA IngestedGrows ==
    ASSUME TableInv, NEW env \in Envelope, Ingest(env), NEW C \in SUBSET Cells, IsFiniteSet(C)
    PROVE  SumOver(ingested', C) = SumOver(ingested, C) + (IF env.cell \in C THEN env.delta ELSE 0)
<1>1. env.cell \in Cells /\ env.delta \in Int BY ShardConstants DEF Envelope
<1>2. \A d \in C : /\ ingested[d] \in Int /\ ingested'[d] \in Int
                   /\ ingested'[d] = IF d = env.cell THEN ingested[d] + env.delta ELSE ingested[d]
  BY <1>1 DEF Ingest, TableInv, ShardTypeOK
<1>3. SumOver(ingested, C) \in Int BY <1>2, SumType
<1>4. CASE env.cell \in C
  <2>1. SumOver(ingested', C) = SumOver(ingested, C) - ingested[env.cell] + ingested'[env.cell]
    <3>1. \A d \in C : ingested[d] \in Int /\ ingested'[d] \in Int BY <1>2
    <3>2. \A d \in C \ {env.cell} : ingested[d] = ingested'[d] BY <1>2
    <3> QED BY <1>4, <3>1, <3>2, SumUpdate
  <2> QED BY <2>1, <1>1, <1>2, <1>3, <1>4
<1>5. CASE env.cell \notin C
  <2>1. SumOver(ingested', C) = SumOver(ingested, C) BY <1>2, <1>5, SumSame
  <2> QED BY <2>1, <1>3, <1>5
<1> QED BY <1>4, <1>5

\* An envelope that is taken is in hand.
LEMMA ConservedIngest ==
    ASSUME TableInv, DeltasConserved, NEW env \in Envelope, Ingest(env)
    PROVE  DeltasConserved'
<1> SUFFICES ASSUME NEW c \in Cells
             PROVE  SumOver(ingested', Twins(c))
                      = InHand(Twins(c))' + Pending(Twins(c))' + SumOver(emitted', Twins(c))
  BY DEF DeltasConserved
<1> DEFINE C == Twins(c)
<1>1. C \in SUBSET Cells /\ IsFiniteSet(C) /\ NoCell \notin C BY TwinsFinite
<1>2. SumOver(ingested, C) = InHand(C) + Pending(C) + SumOver(emitted, C) BY DEF DeltasConserved
<1> HIDE DEF C
<1>3. env.cell \in Cells /\ env.delta \in Int BY ShardConstants DEF Envelope
<1>4. Pending(C)' = Pending(C) /\ emitted' = emitted BY DEF Ingest, Pending
<1>5. InHand(C) = 0 BY <1>1 DEF Ingest, InHand, NoEnv
<1>6. InHand(C)' = IF env.cell \in C THEN env.delta ELSE 0 BY DEF Ingest, InHand
<1>7. SumOver(ingested', C) = SumOver(ingested, C) + (IF env.cell \in C THEN env.delta ELSE 0)
  BY <1>1, IngestedGrows
<1>8. Pending(C) \in Int /\ SumOver(emitted, C) \in Int
  <2>1. \A d \in C : emitted[d] \in Int BY <1>1 DEF TableInv, ShardTypeOK
  <2> DEFINE f == [s \in SlotIds |-> IF slots[s].cell \in C THEN slots[s].sum ELSE 0]
  <2>2. \A s \in SlotIds : f[s] \in Int BY DEF TableInv, ShardTypeOK
  <2>3. Pending(C) = SumOver(f, SlotIds) BY DEF Pending
  <2> HIDE DEF f
  <2> QED BY <1>1, <2>1, <2>2, <2>3, ShardConstants, SumType
<1>9. SumOver(ingested', C) = InHand(C)' + Pending(C)' + SumOver(emitted', C)
  BY <1>2, <1>3, <1>4, <1>5, <1>6, <1>7, <1>8
<1> QED BY <1>9 DEF C

\* The sum of the pending deltas, as a sum of integers.
LEMMA PendingTerms ==
    ASSUME TableInv, NEW C
    PROVE  /\ \A s \in SlotIds :
                [r \in SlotIds |-> IF slots[r].cell \in C THEN slots[r].sum ELSE 0][s] \in Int
           /\ Pending(C) \in Int
<1> DEFINE f == [s \in SlotIds |-> IF slots[s].cell \in C THEN slots[s].sum ELSE 0]
<1>1. \A s \in SlotIds : f[s] \in Int BY DEF TableInv, ShardTypeOK
<1>2. Pending(C) = SumOver(f, SlotIds) BY DEF Pending
<1>3. SumOver(f, SlotIds) \in Int
  <2> HIDE DEF f
  <2> QED BY <1>1, ShardConstants, SumType
<1> QED BY <1>1, <1>2, <1>3

\* A slot that is shared belongs to the same class of cells before and after.
LEMMA ConservedPlace ==
    ASSUME TableInv, DeltasConserved, Place
    PROVE  DeltasConserved'
<1> SUFFICES ASSUME NEW c \in Cells
             PROVE  SumOver(ingested', Twins(c))
                      = InHand(Twins(c))' + Pending(Twins(c))' + SumOver(emitted', Twins(c))
  BY DEF DeltasConserved
<1> DEFINE C == Twins(c)
           new == Merged(slots[at], cur)
           f == [s \in SlotIds |-> IF slots[s].cell \in C THEN slots[s].sum ELSE 0]
           g == [s \in SlotIds |-> IF slots'[s].cell \in C THEN slots'[s].sum ELSE 0]
<1>1. C \in SUBSET Cells /\ IsFiniteSet(C) /\ NoCell \notin C BY TwinsFinite
<1>2. SumOver(ingested, C) = InHand(C) + Pending(C) + SumOver(emitted, C) BY DEF DeltasConserved
<1>3. /\ cur.cell \in Cells /\ cur.delta \in Int /\ at \in SlotIds
      /\ slots' = [slots EXCEPT ![at] = new]
      /\ new.cell \in Cells /\ new.sum = slots[at].sum + cur.delta
      /\ Pack[new.cell] = Pack[cur.cell]
  BY MergedSlot, ShardConstants DEF Envelope
<1>4. new.cell \in C <=> cur.cell \in C BY <1>3 DEF Twins
<1>5. slots[at].cell \in C => cur.cell \in C
  <2>1. slots[at].key # 0 => new.cell = slots[at].cell BY MergedSlot
  <2>2. slots[at].key = 0 => slots[at].cell = NoCell
    BY <1>3, ShardConstants DEF TableInv, SlotInv, EmptySlot
  <2> QED BY <1>1, <1>4, <2>1, <2>2
<1>6. cur.cell \in C /\ slots[at].cell \notin C => slots[at].sum = 0
  <2>1. slots[at].key # 0 => new.cell = slots[at].cell BY MergedSlot
  <2>2. slots[at].key = 0 => slots[at].sum = 0
    BY <1>3, ShardConstants DEF TableInv, SlotInv, EmptySlot
  <2> QED BY <1>4, <2>1, <2>2
<1>7. slots[at].sum \in Int BY <1>3 DEF TableInv, ShardTypeOK
<1>8. f[at] \in Int /\ g[at] = f[at] + (IF cur.cell \in C THEN cur.delta ELSE 0)
  <2>1. slots'[at] = new BY <1>3 DEF TableInv, ShardTypeOK
  <2> HIDE DEF new, C
  <2> QED BY <2>1, <1>3, <1>4, <1>5, <1>6, <1>7
<1>9. \A s \in SlotIds \ {at} : f[s] = g[s] BY <1>3 DEF TableInv, ShardTypeOK
<1>10. \A s \in SlotIds : f[s] \in Int BY PendingTerms
<1>11. Pending(C) = SumOver(f, SlotIds) /\ Pending(C)' = SumOver(g, SlotIds) BY DEF Pending
<1>12. \A s \in SlotIds : f[s] \in Int /\ g[s] \in Int
  <2> HIDE DEF f, g
  <2> QED BY <1>3, <1>8, <1>9, <1>10
<1>13. InHand(C)' = 0 BY <1>1 DEF Place, InHand, NoEnv
<1>14. InHand(C) = IF cur.cell \in C THEN cur.delta ELSE 0 BY DEF InHand
<1>15. ingested' = ingested /\ emitted' = emitted BY DEF Place
<1>16. SumOver(emitted, C) \in Int
  <2>1. \A d \in C : emitted[d] \in Int BY <1>1 DEF TableInv, ShardTypeOK
  <2> HIDE DEF C
  <2> QED BY <1>1, <2>1, SumType
<1> HIDE DEF f, g, C, new
<1>17. SumOver(g, SlotIds) = SumOver(f, SlotIds) - f[at] + g[at]
  BY <1>3, <1>9, <1>12, ShardConstants, SumUpdate
<1>18. SumOver(f, SlotIds) \in Int BY <1>12, ShardConstants, SumType
<1>19. SumOver(ingested', C) = InHand(C)' + Pending(C)' + SumOver(emitted', C)
  BY <1>2, <1>3, <1>8, <1>11, <1>13, <1>14, <1>15, <1>16, <1>17, <1>18
<1> QED BY <1>19 DEF C

\* What honest batches take out of the table is what they hand on.
LEMMA ConservedEmit ==
    ASSUME TableInv, DeltasConserved, NEW S \in SUBSET Occupied, NEW out,
           Honest(S, out), Emit(S, out)
    PROVE  DeltasConserved'
<1> SUFFICES ASSUME NEW c \in Cells
             PROVE  SumOver(ingested', Twins(c))
                      = InHand(Twins(c))' + Pending(Twins(c))' + SumOver(emitted', Twins(c))
  BY DEF DeltasConserved
<1> DEFINE C == Twins(c)
           f == [s \in SlotIds |-> IF slots[s].cell \in C THEN slots[s].sum ELSE 0]
           g == [s \in SlotIds |-> IF slots'[s].cell \in C THEN slots'[s].sum ELSE 0]
           gone == [s \in SlotIds |-> IF s \in S /\ slots[s].cell \in C THEN slots[s].sum ELSE 0]
           sums == [s \in S |-> slots[s].sum]
           cells == [s \in S |-> slots[s].cell]
           SC == {s \in S : cells[s] \in C}
           out1 == [d \in C |-> SumOver(sums, {s \in S : cells[s] = d})]
<1>1. C \in SUBSET Cells /\ IsFiniteSet(C) /\ NoCell \notin C BY TwinsFinite
<1>2. SumOver(ingested, C) = InHand(C) + Pending(C) + SumOver(emitted, C) BY DEF DeltasConserved
<1>3. ingested' = ingested /\ cur' = cur BY DEF Emit
<1>4. InHand(C)' = InHand(C) BY <1>3 DEF InHand
<1>5. S \in SUBSET SlotIds /\ IsFiniteSet(S) BY OccupiedFinite DEF Occupied
<1>6. \A s \in SlotIds : slots'[s] = IF s \in S THEN EmptySlot ELSE slots[s] BY DEF Emit, Cleared
<1>7. \A s \in SlotIds : slots[s].sum \in Int BY DEF TableInv, ShardTypeOK
<1>8. \A s \in SlotIds : g[s] \in Int /\ gone[s] \in Int /\ f[s] = g[s] + gone[s]
  BY <1>1, <1>6, <1>7 DEF EmptySlot
<1>9. Pending(C) = SumOver(f, SlotIds) /\ Pending(C)' = SumOver(g, SlotIds) BY DEF Pending
<1>10. SC \in SUBSET S /\ SC \in SUBSET SlotIds BY <1>5
<1>11. \A s \in SC : gone[s] = sums[s] /\ gone[s] \in Int BY <1>5, <1>7
<1>12. \A s \in SlotIds \ SC : gone[s] = 0 BY <1>5
<1>13. \A s \in S : sums[s] \in Int BY <1>5, <1>7
<1>14. \A d \in C : {s \in S : cells[s] = d} = {s \in S : slots[s].cell = d} OBVIOUS
<1>15. \A d \in C : emitted'[d] = emitted[d] + out1[d]
  <2> TAKE d \in C
  <2>1. d \in Cells BY <1>1
  <2>2. emitted'[d] = emitted[d] + SumOver([i \in DOMAIN out |-> out[i].delta],
                                                {i \in DOMAIN out : out[i].cell = d})
    BY <2>1 DEF Emit
  <2>3. SumOver([i \in DOMAIN out |-> out[i].delta], {i \in DOMAIN out : out[i].cell = d})
          = SumOver(sums, {s \in S : slots[s].cell = d})
    BY <2>1 DEF Honest
  <2>4. out1[d] = SumOver(sums, {s \in S : cells[s] = d}) OBVIOUS
  <2> HIDE DEF sums, cells, out1, C
  <2> QED BY <2>2, <2>3, <2>4, <1>14
<1>16. \A d \in C : emitted[d] \in Int BY <1>1 DEF TableInv, ShardTypeOK
<1>17. \A d \in C : out1[d] \in Int
  <2> TAKE d \in C
  <2> DEFINE Sd == {s \in S : cells[s] = d}
  <2>1. Sd \in SUBSET S OBVIOUS
  <2>2. out1[d] = SumOver(sums, Sd) OBVIOUS
  <2> HIDE DEF Sd, sums, out1
  <2>3. IsFiniteSet(Sd) BY <2>1, <1>5, FS_Subset
  <2>4. SumOver(sums, Sd) \in Int BY <2>1, <2>3, <1>13, SumType
  <2> QED BY <2>2, <2>4
<1>18. SumOver(out1, C) = SumOver(sums, SC)
  <2> HIDE DEF sums, cells
  <2> QED BY <1>1, <1>5, <1>13, SumFibres
<1> HIDE DEF f, g, gone, sums, cells, SC, out1, C
<1>19. SumOver(f, SlotIds) = SumOver(g, SlotIds) + SumOver(gone, SlotIds)
  BY <1>8, ShardConstants, SumPlus
<1>20. SumOver(emitted', C) = SumOver(emitted, C) + SumOver(out1, C)
  BY <1>1, <1>15, <1>16, <1>17, SumPlus
<1>21. SumOver(gone, SlotIds) = SumOver(sums, SC)
  <2> DEFINE rest == SlotIds \ SC
  <2>1. IsFiniteSet(SC) /\ IsFiniteSet(rest) BY <1>10, ShardConstants, FS_Subset
  <2>2. SC \cup rest = SlotIds /\ SC \cap rest = {} BY <1>10
  <2>3. \A s \in rest : gone[s] = 0 BY <1>12
  <2>4. \A s \in SC \cup rest : gone[s] \in Int BY <1>8, <2>2
  <2> HIDE DEF rest
  <2>5. SumOver(gone, SC \cup rest) = SumOver(gone, SC) + SumOver(gone, rest) BY <2>1, <2>2, <2>4, SumUnion
  <2>6. SumOver(gone, rest) = 0 BY <2>1, <2>3, SumZero
  <2>7. SumOver(gone, SC) = SumOver(sums, SC) BY <2>1, <1>11, SumSame
  <2>8. SumOver(gone, SC) \in Int BY <2>1, <1>11, SumType
  <2>9. SumOver(gone, SlotIds) = SumOver(gone, SC) + SumOver(gone, rest) BY <2>2, <2>5, Zenon
  <2> QED BY <2>6, <2>7, <2>8, <2>9
<1>22. SumOver(g, SlotIds) \in Int /\ SumOver(gone, SlotIds) \in Int BY <1>8, ShardConstants, SumType
<1>23. SumOver(emitted, C) \in Int BY <1>1, <1>16, SumType
<1>24. InHand(C) \in Int BY DEF InHand, TableInv, ShardTypeOK
<1>25. SumOver(ingested', C) = InHand(C)' + Pending(C)' + SumOver(emitted', C)
  BY <1>2, <1>3, <1>4, <1>9, <1>18, <1>19, <1>20, <1>21, <1>22, <1>23, <1>24
<1> QED BY <1>25 DEF C

\* The batches of some slots carry what the slots hold.
LEMMA BatchesHonest ==
    ASSUME TableInv, NEW S \in SUBSET Occupied
    PROVE  Family(Batches(S)) /\ Honest(S, Batches(S))
<1>1. /\ DOMAIN Batches(S) = S
      /\ \A s \in S : Batches(S)[s] = [cell |-> slots[s].cell, delta |-> slots[s].sum, seq |-> slots[s].seq]
  BY DEF Batches
<1>2. S \in SUBSET SlotIds /\ IsFiniteSet(S) BY OccupiedFinite DEF Occupied
<1>3. \A s \in S : slots[s].cell \in Cells /\ slots[s].sum \in Int /\ slots[s].seq \in SeqEnds
  <2> TAKE s \in S
  <2>1. slots[s] # EmptySlot BY DEF Occupied, EmptySlot
  <2> QED BY <1>2, <2>1 DEF TableInv, SlotInv, ShardTypeOK
<1>4. Family(Batches(S)) BY <1>1, <1>2, <1>3 DEF Family
<1>5. \A s \in S : Batches(S)[s].cell = slots[s].cell /\ Batches(S)[s].delta = slots[s].sum BY <1>1
<1>6. /\ [i \in DOMAIN Batches(S) |-> Batches(S)[i].delta] = [s \in S |-> slots[s].sum]
      /\ \A c \in Cells : {i \in DOMAIN Batches(S) : Batches(S)[i].cell = c} = {s \in S : slots[s].cell = c}
  BY <1>1, <1>5
<1> QED BY <1>4, <1>6 DEF Honest

-----------------------------------------------------------------------------
(* The shard.                                                              *)

\* The inductive invariant.
ShardInv ==
    /\ TableInv
    /\ sent \in 0..MaxEnvelopes
    /\ Stamped(slots, cur, ids, stamps)
    /\ DeltasConserved

\* The invariant holds for an empty table.
LEMMA ShardInvInit == ShardInit => ShardInv
<1> SUFFICES ASSUME ShardInit PROVE ShardInv OBVIOUS
<1>1. TableInv BY TableInitial DEF ShardInit
<1>2. Stamped(slots, cur, ids, stamps) BY DEF ShardInit, TableInit, Stamped, EmptySlot
<1>3. DeltasConserved
  <2> SUFFICES ASSUME NEW c \in Cells
               PROVE  SumOver(ingested, Twins(c))
                        = InHand(Twins(c)) + Pending(Twins(c)) + SumOver(emitted, Twins(c))
    BY DEF DeltasConserved
  <2>1. Twins(c) \in SUBSET Cells /\ IsFiniteSet(Twins(c)) /\ NoCell \notin Twins(c) BY TwinsFinite
  <2>2. SumOver(ingested, Twins(c)) = 0 /\ SumOver(emitted, Twins(c)) = 0
    <3>1. \A d \in Twins(c) : ingested[d] = 0 /\ emitted[d] = 0 BY <2>1 DEF ShardInit, TableInit
    <3> QED BY <2>1, <3>1, SumZero
  <2>3. InHand(Twins(c)) = 0 BY <2>1 DEF InHand, ShardInit, TableInit, NoEnv
  <2>4. Pending(Twins(c)) = 0
    <3> DEFINE f == [s \in SlotIds |-> IF slots[s].cell \in Twins(c) THEN slots[s].sum ELSE 0]
    <3>1. \A s \in SlotIds : f[s] = 0 BY DEF ShardInit, TableInit, EmptySlot
    <3>2. Pending(Twins(c)) = SumOver(f, SlotIds) BY DEF Pending
    <3> HIDE DEF f
    <3> QED BY <3>1, <3>2, ShardConstants, SumZero
  <2> QED BY <2>2, <2>3, <2>4
<1>4. sent \in 0..MaxEnvelopes BY ShardConstants DEF ShardInit
<1> QED BY <1>1, <1>2, <1>3, <1>4 DEF ShardInv

\* Every step of the shard keeps the invariant.
LEMMA ShardInvNext == ShardInv /\ [ShardNext]_shardVars => ShardInv'
<1> SUFFICES ASSUME ShardInv, [ShardNext]_shardVars PROVE ShardInv' OBVIOUS
<1> USE DEF ShardInv
<1>1. ASSUME NEW c \in Cells, NEW d \in Deltas, NEW q \in SeqEnds, sent < MaxEnvelopes,
             Ingest([cell |-> c, delta |-> d, seq |-> q]), sent' = sent + 1
      PROVE  ShardInv'
  <2> DEFINE env == [cell |-> c, delta |-> d, seq |-> q]
  <2>1. env \in Envelope BY DEF Envelope
  <2> HIDE DEF env
  <2>2. Ingest(env) BY <1>1 DEF env
  <2>3. sent' \in 0..MaxEnvelopes BY <1>1, ShardConstants
  <2> QED BY <2>1, <2>2, <2>3, TableIngest, StampedIngest, ConservedIngest
<1>2. CASE Probe /\ UNCHANGED sent
  <2>1. UNCHANGED <<slots, cur, ids, stamps>> /\ UNCHANGED <<slots, cur, ingested, emitted>> BY <1>2 DEF Probe
  <2> QED BY <1>2, <2>1, TableProbe, StampedKept, ConservedUnchanged
<1>3. CASE Place /\ UNCHANGED sent
  BY <1>3, TablePlace, StampedPlace, ConservedPlace
<1>4. ASSUME NEW S \in SUBSET Occupied, Emit(S, Batches(S)), used' = used - Cardinality(S),
             cur = NoEnv, UNCHANGED sent
      PROVE  ShardInv'
  <2> DEFINE out == Batches(S)
  <2>1. Family(out) /\ Honest(S, out) BY BatchesHonest
  <2>2. Emit(S, out) BY <1>4
  <2>3. Stamped(slots', cur', ids', stamps') BY <1>4, StampedEmit
  <2> HIDE DEF out
  <2>4. TableInv' BY <1>4, <2>1, <2>2, TableEmit
  <2>5. DeltasConserved' BY <2>1, <2>2, ConservedEmit
  <2> QED BY <1>4, <2>3, <2>4, <2>5
<1>5. CASE Flush /\ UNCHANGED sent
  <2>1. Cardinality(Occupied) = used /\ used \in Nat BY OccupiedFinite DEF TableInv
  <2>2. used' = used - Cardinality(Occupied) BY <1>5, <2>1 DEF Flush
  <2> QED BY <1>4, <1>5, <2>2 DEF Flush
<1>6. ASSUME NEW k \in Keys, FlushKey(k), UNCHANGED sent PROVE ShardInv'
  <2> DEFINE S == {s \in Occupied : slots[s].cell[1] = k}
  <2>1. S \in SUBSET Occupied OBVIOUS
  <2>2. Emit(S, Batches(S)) /\ used' = used - Cardinality(S) /\ cur = NoEnv BY <1>6 DEF FlushKey
  <2> HIDE DEF S
  <2> QED BY <1>4, <1>6, <2>1, <2>2
<1>7. CASE UNCHANGED shardVars
  <2>1. /\ UNCHANGED table /\ UNCHANGED <<slots, cur, ids, stamps>>
        /\ UNCHANGED <<slots, cur, ingested, emitted>> /\ UNCHANGED sent
    BY <1>7 DEF shardVars, table
  <2> QED BY <2>1, TableUnchanged, StampedKept, ConservedUnchanged
<1> QED BY <1>1, <1>2, <1>3, <1>5, <1>6, <1>7 DEF ShardNext, NewEnvelope

\* The invariant holds throughout.
LEMMA ShardInductive == ShardSpec => []ShardInv
BY ShardInvInit, ShardInvNext, PTL DEF ShardSpec

\* Every variable of the shard keeps its type; in particular `used` never exceeds the
\* size of the table, whatever Ingest, FlushAll and FlushKey do to it.
THEOREM ShardTypeCorrect == ShardSpec => []ShardTypeOK
<1>1. ShardInv => ShardTypeOK BY DEF ShardInv, TableInv
<1> QED BY <1>1, ShardInductive, PTL

\* Probing past displaced cells, holes left by FlushKey and cells that share a slot
\* neither lose a delta nor count one twice.
THEOREM ShardConservesDeltas == ShardSpec => []DeltasConserved
<1>1. ShardInv => DeltasConserved BY DEF ShardInv
<1> QED BY <1>1, ShardInductive, PTL

\* The table repeats no idempotency key (KeyID, BucketID, SeqEnd) by itself: two batches
\* carry the same only if two envelopes with that packed id came with that SeqEnd.
THEOREM ShardRepeatsOnlyGivenIds == ShardSpec => []RepeatedIdsWereGiven
<1>1. ShardInv => RepeatedIdsWereGiven
  <2> SUFFICES ASSUME ShardInv, NEW s \in Occupied,
                      \/ <<slots[s].cell, slots[s].seq>> \in ids
                      \/ \E r \in Occupied \ {s} :
                            <<slots[r].cell, slots[r].seq>> = <<slots[s].cell, slots[s].seq>>
               PROVE  stamps[SlotStamp(slots, s)] > 1
    BY DEF RepeatedIdsWereGiven, SlotStamp
  <2>1. \A r \in Occupied : slots[r].key = Pack[slots[r].cell]
    BY DEF Occupied, ShardInv, TableInv, SlotInv, EmptySlot
  <2>2. SlotStamp(slots, s) = IdStamp(<<slots[s].cell, slots[s].seq>>)
    BY <2>1 DEF SlotStamp, IdStamp
  <2>3. /\ \A id \in ids : IdStamp(id) = SlotStamp(slots, s) => stamps[SlotStamp(slots, s)] >= 2
        /\ \A r \in Occupied \ {s} :
              SlotStamp(slots, s) = SlotStamp(slots, r) => stamps[SlotStamp(slots, s)] >= 2
    BY DEF ShardInv, Stamped, Occupied
  <2>4. \A r \in Occupied : slots[r].cell = slots[s].cell /\ slots[r].seq = slots[s].seq
                           => SlotStamp(slots, s) = SlotStamp(slots, r)
    BY <2>1 DEF SlotStamp
  <2>5. stamps[SlotStamp(slots, s)] \in Nat
    BY StampTypes DEF ShardInv, TableInv, ShardTypeOK
  <2>6. stamps[SlotStamp(slots, s)] >= 2 BY <2>2, <2>3, <2>4
  <2> QED BY <2>5, <2>6
<1> QED BY <1>1, ShardInductive, PTL
=============================================================================
