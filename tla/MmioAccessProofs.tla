-------------------------- MODULE MmioAccessProofs --------------------------
(***************************************************************************)
(* What a read that races with writes may return, for every width of an    *)
(* access, every width of a beat, and any number of reads and writes.      *)
(***************************************************************************)
EXTENDS MmioAccess, TLAPS, WellFoundedInduction

\* Induction, for a set instead of a predicate: of the numbers outside the set
\* there would be a least one.
LEMMA NatSetInduction ==
    ASSUME NEW S, 0 \in S, \A n \in Nat : n \in S => n + 1 \in S
    PROVE  \A n \in Nat : n \in S
<1> DEFINE T == {n \in Nat : n \notin S}
           R == OpToRel(<, Nat)
<1>1. SUFFICES ASSUME T # {} PROVE FALSE
  OBVIOUS
<1>2. IsWellFoundedOn(R, Nat)
  BY NatLessThanWellFounded, Zenon
<1> HIDE DEF R
<1>3. PICK m \in T : \A y \in T : <<y, m>> \notin R
  BY <1>1, <1>2, WFMin
<1>4. \A x, y \in Nat : x < y => <<x, y>> \in R
  BY DEF R, OpToRel
<1>5. m \in Nat /\ m - 1 \in Nat /\ m = (m - 1) + 1
  OBVIOUS
<1>6. <<m - 1, m>> \in R
  BY <1>4, <1>5
<1>7. m - 1 \notin T
  BY <1>3, <1>6
<1>8. m - 1 \in S
  BY <1>5, <1>7
<1>9. QED
  BY <1>5, <1>8

-----------------------------------------------------------------------------
(***************************************************************************)
(* Weights                                                                 *)
(***************************************************************************)
IsWeight(f, n) == f = [i \in 0..n |-> IF i = 0 THEN 1 ELSE Base * f[i - 1]]

\* The weights up to any beat exist,
LEMMA WeightsUpTo == \A n \in Nat : \E f : IsWeight(f, n)
<1> DEFINE S == {n \in Nat : \E f : IsWeight(f, n)}
<1>1. 0 \in S
  <2>1. IsWeight([i \in 0..0 |-> 1], 0)
    BY DEF IsWeight
  <2>2. QED
    BY <2>1
<1>2. ASSUME NEW n \in Nat, n \in S PROVE n + 1 \in S
  <2>1. PICK f : IsWeight(f, n)
    BY <1>2
  <2> DEFINE g == [i \in 0..(n + 1) |-> IF i = n + 1 THEN Base * f[n] ELSE f[i]]
  <2>2. ASSUME NEW i \in 0..(n + 1)
        PROVE  g[i] = IF i = 0 THEN 1 ELSE Base * g[i - 1]
    <3>1. CASE i = n + 1
      BY <3>1
    <3>2. CASE i \in 0..n
      <4>1. g[i] = f[i] /\ (i # 0 => g[i - 1] = f[i - 1])
        BY <3>2
      <4>2. f[i] = IF i = 0 THEN 1 ELSE Base * f[i - 1]
        BY <2>1, <3>2 DEF IsWeight
      <4>3. QED
        BY <4>1, <4>2
    <3>3. QED
      BY <3>1, <3>2
  <2>3. IsWeight(g, n + 1)
    BY <2>2 DEF IsWeight
  <2> HIDE DEF g
  <2>4. \E h : IsWeight(h, n + 1)
    BY <2>3
  <2>5. QED
    BY <2>4
<1> HIDE DEF S
<1>3. \A n \in Nat : n \in S
  BY <1>1, <1>2, NatSetInduction
<1>4. QED
  BY <1>3 DEF S

\* they agree,
LEMMA WeightsAgree ==
    ASSUME NEW m \in Nat, NEW n \in Nat, NEW f, NEW g, IsWeight(f, m), IsWeight(g, n)
    PROVE  \A i \in Nat : i <= m /\ i <= n => f[i] = g[i]
<1> DEFINE S == {i \in Nat : i <= m /\ i <= n => f[i] = g[i]}
<1>1. 0 \in S
  BY DEF IsWeight
<1>2. ASSUME NEW i \in Nat, i \in S PROVE i + 1 \in S
  BY <1>2 DEF IsWeight
<1> HIDE DEF S
<1>3. \A i \in Nat : i \in S
  BY <1>1, <1>2, NatSetInduction
<1>4. QED
  BY <1>3 DEF S

\* and so Weight is what its definition says.
LEMMA WeightUnfold ==
    /\ Weight[0] = 1
    /\ \A n \in Nat : Weight[n + 1] = Base * Weight[n]
<1> DEFINE at(n) == CHOOSE f : IsWeight(f, n)
           w == [n \in Nat |-> at(n)[n]]
<1>1. \A n \in Nat : IsWeight(at(n), n)
  BY WeightsUpTo
<1> HIDE DEF at
<1>2. w[0] = 1
  BY <1>1 DEF IsWeight
<1>3. ASSUME NEW n \in Nat PROVE w[n + 1] = Base * w[n]
  <2>1. at(n + 1)[n] = at(n)[n]
    BY <1>1, WeightsAgree
  <2>2. at(n + 1)[n + 1] = Base * at(n + 1)[n]
    BY <1>1 DEF IsWeight
  <2>3. QED
    BY <2>1, <2>2
<1>4. w = [i \in Nat |-> IF i = 0 THEN 1 ELSE Base * w[i - 1]]
  <2>1. \A i \in Nat : w[i] = IF i = 0 THEN 1 ELSE Base * w[i - 1]
    <3> HIDE DEF w
    <3>1. ASSUME NEW i \in Nat, i # 0 PROVE w[i] = Base * w[i - 1]
      <4>1. i - 1 \in Nat /\ i = (i - 1) + 1
        BY <3>1
      <4>2. QED
        BY <1>3, <4>1
    <3>2. QED
      BY <1>2, <3>1
  <2>2. QED
    BY <2>1
<1>5. Weight = [i \in Nat |-> IF i = 0 THEN 1 ELSE Base * Weight[i - 1]]
  <2> HIDE DEF w
  <2>1. \E f : f = [i \in Nat |-> IF i = 0 THEN 1 ELSE Base * f[i - 1]]
    BY <1>4
  <2>2. QED
    BY <2>1 DEF Weight
<1>6. QED
  BY <1>5

\* The weight of a beat is positive.
LEMMA WeightPositive == \A n \in Nat : Weight[n] \in Nat \ {0}
<1> DEFINE S == {n \in Nat : Weight[n] \in Nat \ {0}}
<1>1. 0 \in S
  BY WeightUnfold
<1>2. ASSUME NEW n \in Nat, n \in S PROVE n + 1 \in S
  <2>1. Weight[n + 1] = Base * Weight[n] /\ Weight[n] \in Nat \ {0}
    BY <1>2, WeightUnfold
  <2>2. Base * Weight[n] \in Nat \ {0}
    BY <2>1, DataAssumption
  <2>3. QED
    BY <2>1, <2>2
<1> HIDE DEF S
<1>3. \A n \in Nat : n \in S
  BY <1>1, <1>2, NatSetInduction
<1>4. QED
  BY <1>3 DEF S

-----------------------------------------------------------------------------
\* The part of a value that one beat carries is a value of the bus.
LEMMA PartType == \A v, i \in Nat : Part(v, i) \in 0..(Base - 1)
<1> SUFFICES ASSUME NEW v \in Nat, NEW i \in Nat PROVE Part(v, i) \in 0..(Base - 1)
  OBVIOUS
<1>1. Weight[i] \in Nat \ {0}
  BY WeightPositive
<1>2. v \div Weight[i] \in Nat
  BY <1>1
<1>3. QED
  BY <1>2, DataAssumption DEF Part

-----------------------------------------------------------------------------
(***************************************************************************)
(* Reads and writes                                                        *)
(***************************************************************************)
TypeOK ==
    /\ kind \in {"storage", "counter"}
    /\ beats \in Nat \ {0}
    /\ mem \in [Beats -> Int] /\ got \in [Beats -> Int]
    /\ ver \in [Beats -> Nat] /\ gver \in [Beats -> Nat]
    /\ writes \in Nat /\ reads \in Nat
    /\ last \in Nat /\ value \in Nat /\ start \in Nat
    /\ wAt \in 0..beats /\ rAt \in 0..beats

FlagsOK == busy \in BOOLEAN /\ quiet \in BOOLEAN

\* The write under way has filled the beats below wAt, and the others are
\* still those of the write before; without one the register is as the last
\* write, or the counter, left it.
RegisterShape ==
    /\ busy => kind = "storage" /\ wAt < beats /\ writes > 0
    /\ \A i \in Beats :
          /\ ver[i] = IF busy /\ i >= wAt THEN writes - 1 ELSE writes
          /\ mem[i] = Part(IF busy /\ i < wAt THEN value ELSE last, i)

\* The beats read so far come from writes that have begun, and a later one is
\* at most one write older.
ReadShape ==
    \A i \in Beats : i < rAt =>
        /\ gver[i] <= writes
        /\ \A j \in Beats : i < j /\ j < rAt => gver[j] >= gver[i] - 1

\* While no write overlaps, the beats read are those of the last value.
QuietShape ==
    quiet => ~busy /\ \A i \in Beats : i < rAt => got[i] = Part(last, i)

\* The inductive invariant.  HalvesInOrder speaks of a read that is over; what
\* makes it true is that at any moment the beats of the register itself are at
\* most one write apart.
IInv == TypeOK /\ FlagsOK /\ RegisterShape /\ ReadShape /\ QuietShape

\* A new write makes nothing that was read older than it was.
LEMMA ReadShapeStable ==
    ASSUME TypeOK, ReadShape, UNCHANGED <<beats, rAt, gver>>, writes' = writes + 1
    PROVE  ReadShape'
<1>1. Beats' = Beats
  BY DEF Beats
<1>2. ASSUME NEW i \in Beats, i < rAt PROVE gver[i] <= writes + 1
  BY <1>2 DEF TypeOK, ReadShape
<1>3. QED
  BY <1>1, <1>2 DEF ReadShape

\* The start of a write keeps the invariant.
LEMMA BeginWriteStep == ASSUME IInv, BeginWrite PROVE IInv'
<1>1. /\ kind = "storage" /\ ~busy
      /\ busy' = TRUE /\ wAt' = 0 /\ value' \in Fitting
      /\ writes' = writes + 1 /\ quiet' = FALSE
      /\ UNCHANGED <<kind, beats, mem, ver, last, reads, rAt, got, gver, start>>
  BY DEF BeginWrite, readVars
<1>2. value' \in Nat
  BY <1>1, DataAssumption DEF Fitting
<1>3. TypeOK'
  BY <1>1, <1>2 DEF IInv, TypeOK, Beats
<1>4. FlagsOK' /\ QuietShape'
  BY <1>1 DEF FlagsOK, QuietShape
<1>5. RegisterShape'
  BY <1>1 DEF IInv, TypeOK, RegisterShape, Beats, Part
<1>6. ReadShape'
  BY <1>1, ReadShapeStable DEF IInv
<1>7. QED
  BY <1>3, <1>4, <1>5, <1>6 DEF IInv

\* A beat of a write keeps it.
LEMMA WriteBeatStep == ASSUME IInv, WriteBeat PROVE IInv'
<1>1. /\ busy
      /\ mem' = [mem EXCEPT ![wAt] = Part(value, wAt)]
      /\ ver' = [ver EXCEPT ![wAt] = writes]
      /\ wAt' = wAt + 1
      /\ wAt + 1 = beats => ~busy' /\ last' = value
      /\ wAt + 1 # beats => busy' /\ last' = last
      /\ UNCHANGED <<kind, beats, writes, value, reads, rAt, got, gver, start, quiet>>
  BY Zenon DEF WriteBeat, WriteBeatAt, readVars
<1>2. wAt \in Beats /\ beats \in Nat /\ value \in Nat /\ writes \in Nat
  BY <1>1 DEF IInv, TypeOK, RegisterShape, Beats
<1>3. Part(value, wAt) \in Int
  BY <1>2, PartType, DataAssumption DEF Beats
<1>4. TypeOK'
  <2>1. mem' \in [Beats -> Int] /\ ver' \in [Beats -> Nat]
    BY <1>1, <1>2, <1>3 DEF IInv, TypeOK
  <2>2. wAt' \in 0..beats /\ last' \in Nat
    BY <1>1, <1>2 DEF IInv, TypeOK, Beats
  <2>3. QED
    BY <1>1, <2>1, <2>2 DEF IInv, TypeOK, Beats
<1>5. FlagsOK'
  BY Zenon DEF IInv, FlagsOK, WriteBeat
<1>6. RegisterShape'
  <2>1. busy' => kind' = "storage" /\ wAt' < beats' /\ writes' > 0
    BY <1>1, <1>2 DEF IInv, TypeOK, RegisterShape, Beats
  <2>2. ASSUME NEW i \in Beats
        PROVE  /\ ver'[i] = IF busy' /\ i >= wAt' THEN writes' - 1 ELSE writes'
               /\ mem'[i] = Part(IF busy' /\ i < wAt' THEN value' ELSE last', i)
    <3>1. ver'[i] = (IF i = wAt THEN writes ELSE ver[i])
          /\ mem'[i] = IF i = wAt THEN Part(value, i) ELSE mem[i]
      BY <1>1, <1>2 DEF IInv, TypeOK
    <3>2. /\ ver[i] = IF i >= wAt THEN writes - 1 ELSE writes
          /\ mem[i] = Part(IF i < wAt THEN value ELSE last, i)
      BY <1>1 DEF IInv, RegisterShape
    <3>3. i \in Nat /\ i < beats /\ wAt \in Nat /\ wAt < beats
      BY <1>2 DEF Beats
    <3>4. CASE i = wAt
      BY <1>1, <1>2, <3>1, <3>3, <3>4
    <3>5. CASE i < wAt
      BY <1>1, <1>2, <3>1, <3>2, <3>3, <3>5
    <3>6. CASE i > wAt
      BY <1>1, <1>2, <3>1, <3>2, <3>3, <3>6
    <3>7. QED
      BY <3>3, <3>4, <3>5, <3>6
  <2>3. Beats' = Beats
    BY <1>1 DEF Beats
  <2> HIDE <1>1
  <2>4. QED
    BY <2>1, <2>2, <2>3 DEF RegisterShape, Part
<1>7. ReadShape'
  BY <1>1 DEF IInv, TypeOK, ReadShape, Beats
<1>8. QuietShape'
  BY <1>1 DEF IInv, QuietShape
<1>9. QED
  BY <1>4, <1>5, <1>6, <1>7, <1>8 DEF IInv

\* The device's advance keeps it.
LEMMA AdvanceStep == ASSUME IInv, Advance PROVE IInv'
<1>1. /\ kind = "counter"
      /\ last' = (last + 1) % Weight[beats]
      /\ mem' = [i \in Beats |-> Part(last', i)]
      /\ writes' = writes + 1
      /\ ver' = [i \in Beats |-> writes + 1]
      /\ quiet' = FALSE
      /\ UNCHANGED <<kind, beats, busy, wAt, value, reads, rAt, got, gver, start>>
  BY DEF Advance, writeVars, readVars
<1>2. ~busy /\ beats \in Nat /\ last \in Nat /\ writes \in Nat
  BY <1>1 DEF IInv, TypeOK, RegisterShape
<1>3. last' \in Nat
  BY <1>1, <1>2, WeightPositive
<1>4. \A i \in Beats : Part(last', i) \in Int
  BY <1>2, <1>3, PartType, DataAssumption DEF Beats
<1>5. TypeOK' /\ FlagsOK'
  <2>1. TypeOK'
    BY <1>1, <1>2, <1>3, <1>4 DEF IInv, TypeOK, Beats
  <2>2. FlagsOK'
    BY <1>1 DEF IInv, FlagsOK
  <2>3. QED
    BY <2>1, <2>2
<1>6. Beats' = Beats
  BY <1>1 DEF Beats
<1>7. RegisterShape'
  <2>1. \A i \in Beats : ver'[i] = writes' /\ mem'[i] = Part(last', i)
    BY <1>1
  <2>2. QED
    BY <1>1, <1>2, <1>6, <2>1 DEF RegisterShape, Part
<1>8. ReadShape' /\ QuietShape'
  <2>1. ReadShape'
    BY <1>1, ReadShapeStable DEF IInv
  <2>2. QuietShape'
    BY <1>1 DEF QuietShape
  <2>3. QED
    BY <2>1, <2>2
<1>9. QED
  BY <1>5, <1>7, <1>8 DEF IInv

\* The start of a read keeps it.
LEMMA BeginReadStep == ASSUME IInv, BeginRead PROVE IInv'
<1>1. /\ reads' = reads + 1 /\ rAt' = 0 /\ quiet' = ~busy /\ start' = last
      /\ UNCHANGED <<kind, beats, mem, ver, writes, last, busy, wAt, value, got, gver>>
  BY DEF BeginRead, writeVars
<1>2. TypeOK'
  BY <1>1 DEF IInv, TypeOK, Beats
<1>3. FlagsOK'
  BY <1>1 DEF IInv, FlagsOK
<1>4. RegisterShape'
  BY <1>1 DEF IInv, RegisterShape, Beats, Part
<1>5. ReadShape'
  BY <1>1 DEF ReadShape, Beats
<1>6. QuietShape'
  <2>1. \A i \in Beats' : ~(i < rAt')
    BY <1>1 DEF Beats
  <2>2. QED
    BY <1>1, <2>1 DEF QuietShape
<1>7. QED
  BY <1>2, <1>3, <1>4, <1>5, <1>6 DEF IInv

\* A beat of a read keeps it.
LEMMA ReadBeatStep == ASSUME IInv, ReadBeat PROVE IInv'
<1>1. /\ rAt < beats
      /\ got' = [got EXCEPT ![rAt] = mem[rAt]]
      /\ gver' = [gver EXCEPT ![rAt] = ver[rAt]]
      /\ rAt' = rAt + 1
      /\ UNCHANGED <<kind, beats, mem, ver, writes, last, busy, wAt, value, reads,
                     quiet, start>>
  BY DEF ReadBeat, ReadBeatAt, writeVars
<1>2. rAt \in Beats /\ beats \in Nat /\ writes \in Nat /\ Beats' = Beats
  BY <1>1 DEF IInv, TypeOK, Beats
<1>3. mem[rAt] \in Int /\ ver[rAt] \in Nat /\ ver[rAt] <= writes /\ ver[rAt] >= writes - 1
  BY <1>2 DEF IInv, TypeOK, RegisterShape
<1>4. TypeOK' /\ FlagsOK'
  BY <1>1, <1>2, <1>3 DEF IInv, TypeOK, FlagsOK, Beats
<1>5. RegisterShape'
  BY <1>1 DEF IInv, RegisterShape, Beats, Part
<1>6. \A i \in Beats : gver'[i] = (IF i = rAt THEN ver[rAt] ELSE gver[i])
                       /\ got'[i] = (IF i = rAt THEN mem[rAt] ELSE got[i])
  BY <1>1, <1>2 DEF IInv, TypeOK
<1>7. ReadShape'
  <2>1. ASSUME NEW i \in Beats, i < rAt + 1
        PROVE  gver'[i] <= writes
    <3>1. i = rAt \/ i < rAt
      BY <1>2, <2>1 DEF Beats
    <3>2. i < rAt => gver[i] <= writes
      BY DEF IInv, ReadShape
    <3>3. QED
      BY <1>3, <1>6, <3>1, <3>2
  <2>2. ASSUME NEW i \in Beats, NEW j \in Beats, i < j, j < rAt + 1
        PROVE  gver'[j] >= gver'[i] - 1
    <3>1. i < rAt /\ gver'[i] = gver[i] /\ gver[i] \in Nat /\ gver[i] <= writes
      <4>1. i < rAt /\ i # rAt
        BY <1>2, <2>2 DEF Beats
      <4>2. QED
        BY <1>6, <4>1 DEF IInv, TypeOK, ReadShape
    <3>2. CASE j = rAt
      BY <1>2, <1>3, <1>6, <3>1, <3>2
    <3>3. CASE j < rAt
      BY <1>2, <1>6, <2>2, <3>1, <3>3 DEF IInv, ReadShape, Beats
    <3>4. QED
      BY <1>2, <2>2, <3>2, <3>3 DEF Beats
  <2>3. writes' = writes /\ rAt' = rAt + 1
    BY <1>1
  <2> HIDE <1>1
  <2>4. QED
    BY <1>2, <2>1, <2>2, <2>3 DEF ReadShape
<1>8. QuietShape'
  <2> SUFFICES ASSUME quiet' PROVE ~busy' /\ \A i \in Beats : i < rAt + 1 => got'[i] = Part(last', i)
    BY <1>1, <1>2 DEF QuietShape
  <2>1. quiet /\ ~busy /\ ~busy' /\ last' = last
    BY <1>1 DEF IInv, QuietShape
  <2>2. mem[rAt] = Part(last, rAt)
    BY <1>2, <2>1 DEF IInv, RegisterShape
  <2>3. \A i \in Beats : i < rAt => got[i] = Part(last, i)
    BY <2>1 DEF IInv, QuietShape
  <2>4. \A i \in Beats : i < rAt + 1 => i = rAt \/ i < rAt
    BY <1>2 DEF Beats
  <2>5. QED
    BY <1>6, <2>1, <2>2, <2>3, <2>4
<1>9. QED
  BY <1>4, <1>5, <1>7, <1>8 DEF IInv

\* The initial state has it.
LEMMA InitStep == ASSUME Init PROVE IInv
<1>1. beats \in Nat \ {0} /\ last \in Nat
  BY BeatsAssumption, DataAssumption DEF Init, Fitting
<1>2. \A i \in Beats : Part(last, i) \in Int
  BY <1>1, PartType, DataAssumption DEF Beats
<1>3. TypeOK /\ FlagsOK
  <2>1. TypeOK
    BY <1>1, <1>2 DEF Init, TypeOK, Beats
  <2>2. FlagsOK
    BY DEF Init, FlagsOK
  <2>3. QED
    BY <2>1, <2>2
<1>4. RegisterShape
  BY <1>1 DEF Init, RegisterShape
<1>5. ReadShape /\ QuietShape
  BY <1>1 DEF Init, ReadShape, QuietShape, Beats
<1>6. QED
  BY <1>3, <1>4, <1>5 DEF IInv

\* Stuttering keeps it.
LEMMA Stutter == ASSUME IInv, UNCHANGED vars PROVE IInv'
<1>1. UNCHANGED <<kind, beats, mem, ver, writes, last, busy, wAt, value, reads, rAt,
                  got, gver, start, quiet>>
  BY DEF vars, writeVars, readVars
<1>2. TypeOK' /\ FlagsOK'
  BY <1>1 DEF IInv, TypeOK, FlagsOK, Beats
<1>3. RegisterShape' /\ ReadShape' /\ QuietShape'
  BY <1>1 DEF IInv, RegisterShape, ReadShape, QuietShape, Beats, Part
<1>4. QED
  BY <1>2, <1>3 DEF IInv

\* Every step keeps it.
LEMMA InvStep == IInv /\ [Next]_vars => IInv'
BY BeginWriteStep, WriteBeatStep, AdvanceStep, BeginReadStep, ReadBeatStep, Stutter DEF Next

\* The invariant holds in every state, whatever the threads' schedule.
THEOREM Inductive == Spec => []IInv
BY InitStep, InvStep, PTL DEF Spec

\* A read that nothing overlaps returns the last value, beat by beat, for
\* every width: fpga_read_64 undoes what fpga_write_64 did.
THEOREM QuietReadsRight == Spec => []QuietReadRight
<1>1. IInv => QuietReadRight
  <2>1. TypeOK => \A i \in Beats : i < beats
    BY DEF TypeOK, Beats
  <2>2. QED
    BY <2>1 DEF IInv, QuietShape, QuietReadRight, ReadDone
<1>2. QED
  BY <1>1, Inductive, PTL

\* However a read and writes interleave, a higher beat of what was read is at
\* most one write older than a lower one.
THEOREM HalvesAreInOrder == Spec => []HalvesInOrder
<1>1. IInv => HalvesInOrder
  BY DEF IInv, TypeOK, ReadShape, HalvesInOrder, ReadDone, Beats
<1>2. QED
  BY <1>1, Inductive, PTL

-----------------------------------------------------------------------------
(***************************************************************************)
(* Reads of a counter: what the beats of a value add up to.                *)
(***************************************************************************)
IsSum(f, g, n) ==
    f = [i \in 0..n |-> IF i = 0 THEN 0 ELSE f[i - 1] + g[i - 1] * Weight[i - 1]]

\* SumOf(g, b)[n] is the value of the lowest n of b beats.
SumOf(g, b) ==
    LET sum[n \in 0..b] ==
            IF n = 0 THEN 0 ELSE sum[n - 1] + g[n - 1] * Weight[n - 1]
    IN  sum

\* The sum that Join computes exists for any number of beats,
LEMMA SumExists == \A g : \A n \in Nat : \E f : IsSum(f, g, n)
<1> SUFFICES ASSUME NEW g PROVE \A n \in Nat : \E f : IsSum(f, g, n)
  OBVIOUS
<1> DEFINE S == {n \in Nat : \E f : IsSum(f, g, n)}
<1>1. 0 \in S
  <2>1. IsSum([i \in 0..0 |-> 0], g, 0)
    BY DEF IsSum
  <2>2. QED
    BY <2>1
<1>2. ASSUME NEW n \in Nat, n \in S PROVE n + 1 \in S
  <2>1. PICK f : IsSum(f, g, n)
    BY <1>2
  <2> DEFINE h == [i \in 0..(n + 1) |->
                     IF i = n + 1 THEN f[n] + g[n] * Weight[n] ELSE f[i]]
  <2>2. ASSUME NEW i \in 0..(n + 1)
        PROVE  h[i] = IF i = 0 THEN 0 ELSE h[i - 1] + g[i - 1] * Weight[i - 1]
    <3>1. CASE i = n + 1
      BY <3>1
    <3>2. CASE i \in 0..n
      <4>1. h[i] = f[i] /\ (i # 0 => h[i - 1] = f[i - 1])
        BY <3>2
      <4>2. f[i] = IF i = 0 THEN 0 ELSE f[i - 1] + g[i - 1] * Weight[i - 1]
        BY <2>1, <3>2 DEF IsSum
      <4>3. QED
        BY <4>1, <4>2
    <3>3. QED
      BY <3>1, <3>2
  <2>3. IsSum(h, g, n + 1)
    BY <2>2 DEF IsSum
  <2> HIDE DEF h
  <2>4. \E f2 : IsSum(f2, g, n + 1)
    BY <2>3
  <2>5. QED
    BY <2>4
<1> HIDE DEF S
<1>3. \A n \in Nat : n \in S
  BY <1>1, <1>2, NatSetInduction
<1>4. QED
  BY <1>3 DEF S

\* and is what its recursive definition says.
LEMMA SumUnfold ==
    ASSUME NEW b \in Nat, NEW g
    PROVE  /\ SumOf(g, b)[0] = 0
           /\ \A n \in Nat : n < b =>
                SumOf(g, b)[n + 1] = SumOf(g, b)[n] + g[n] * Weight[n]
<1>1. PICK f : IsSum(f, g, b)
  BY SumExists
<1>2. IsSum(SumOf(g, b), g, b)
  BY <1>1 DEF SumOf, IsSum
<1>3. PICK s : s = SumOf(g, b) /\ IsSum(s, g, b)
  BY <1>2
<1>4. s[0] = 0
  BY <1>3 DEF IsSum
<1>5. ASSUME NEW n \in Nat, n < b PROVE s[n + 1] = s[n] + g[n] * Weight[n]
  <2>1. n + 1 \in 0..b /\ n + 1 # 0 /\ (n + 1) - 1 = n
    BY <1>5
  <2>2. QED
    BY <1>3, <2>1 DEF IsSum
<1>6. QED
  BY <1>3, <1>4, <1>5

\* Join is the sum of all beats.
LEMMA JoinIsSum == Join(got) = SumOf(got, beats)[beats]
BY DEF Join, SumOf

\* Products of naturals.
LEMMA ProductType ==
    ASSUME NEW x \in Nat, NEW y \in Nat
    PROVE  x * y \in Int
OBVIOUS

\* Scaling keeps the order.
LEMMA ScaleMonotone ==
    ASSUME NEW x \in Int, NEW y \in Int, NEW w \in Nat, x <= y
    PROVE  x * w \in Int /\ y * w \in Int /\ x * w <= y * w
OBVIOUS

\* The sum depends on the beats summed only, and grows with each of them.
LEMMA SumLess ==
    ASSUME NEW b \in Nat, NEW g \in [0..(b - 1) -> Int], NEW h \in [0..(b - 1) -> Int],
           NEW m \in 0..b, \A i \in 0..(m - 1) : g[i] <= h[i]
    PROVE  /\ SumOf(g, b)[m] \in Int /\ SumOf(h, b)[m] \in Int
           /\ SumOf(g, b)[m] <= SumOf(h, b)[m]
<1> DEFINE Good(n) == /\ SumOf(g, b)[n] \in Int /\ SumOf(h, b)[n] \in Int
                      /\ SumOf(g, b)[n] <= SumOf(h, b)[n]
           S == {n \in Nat : n <= m => Good(n)}
<1>1. 0 \in S
  BY SumUnfold
<1>2. ASSUME NEW n \in Nat, n \in S PROVE n + 1 \in S
  <2> SUFFICES ASSUME n + 1 <= m PROVE Good(n + 1)
    OBVIOUS
  <2>1. Good(n) /\ n < b /\ n \in 0..(m - 1) /\ n \in 0..(b - 1)
    BY <1>2
  <2>2. /\ SumOf(g, b)[n + 1] = SumOf(g, b)[n] + g[n] * Weight[n]
        /\ SumOf(h, b)[n + 1] = SumOf(h, b)[n] + h[n] * Weight[n]
    BY <2>1, SumUnfold
  <2>3. g[n] \in Int /\ h[n] \in Int /\ g[n] <= h[n] /\ Weight[n] \in Nat
    BY <2>1, WeightPositive
  <2>4. /\ g[n] * Weight[n] \in Int /\ h[n] * Weight[n] \in Int
        /\ g[n] * Weight[n] <= h[n] * Weight[n]
    BY <2>3, ScaleMonotone
  <2>5. PICK p, q \in Int : p = g[n] * Weight[n] /\ q = h[n] * Weight[n] /\ p <= q
    BY <2>4
  <2>6. PICK s, t \in Int : s = SumOf(g, b)[n] /\ t = SumOf(h, b)[n] /\ s <= t
    BY <2>1
  <2>7. SumOf(g, b)[n + 1] = s + p /\ SumOf(h, b)[n + 1] = t + q
    BY <2>2, <2>5, <2>6
  <2>8. s + p \in Int /\ t + q \in Int /\ s + p <= t + q
    <3>1. s <= t /\ p <= q
      BY <2>5, <2>6
    <3>2. QED
      BY <3>1
  <2>9. QED
    BY <2>7, <2>8
<1> HIDE DEF S, Good
<1>3. \A n \in Nat : n \in S
  BY <1>1, <1>2, NatSetInduction
<1>4. Good(m)
  BY <1>3 DEF S
<1>5. QED
  BY <1>4 DEF Good

\* The sum depends only on the beats it adds.
LEMMA SumSame ==
    ASSUME NEW b \in Nat, NEW g \in [0..(b - 1) -> Int], NEW h \in [0..(b - 1) -> Int],
           NEW m \in 0..b, \A i \in 0..(m - 1) : g[i] = h[i]
    PROVE  SumOf(g, b)[m] \in Int /\ SumOf(g, b)[m] = SumOf(h, b)[m]
<1>1. \A i \in 0..(m - 1) : g[i] <= h[i] /\ h[i] <= g[i]
  OBVIOUS
<1>2. /\ SumOf(g, b)[m] \in Int /\ SumOf(h, b)[m] \in Int
      /\ SumOf(g, b)[m] <= SumOf(h, b)[m]
  BY <1>1, SumLess
<1>3. SumOf(h, b)[m] <= SumOf(g, b)[m]
  BY <1>1, SumLess
<1>4. QED
  BY <1>2, <1>3

\* A value's quotient by a weight splits into a beat and the next quotient.
LEMMA QuotientUnfold ==
    ASSUME NEW x \in Nat, NEW n \in Nat
    PROVE  /\ x \div Weight[n] \in Nat /\ x \div Weight[n + 1] \in Nat
           /\ x \div Weight[n + 1] = (x \div Weight[n]) \div Base
           /\ x \div Weight[n] = Part(x, n) + Base * (x \div Weight[n + 1])
<1>1. PICK w \in Nat \ {0} : w = Weight[n] /\ Weight[n + 1] = Base * w
  BY WeightPositive, WeightUnfold
<1>2. PICK B \in Nat \ {0} : B = Base
  BY DataAssumption
<1>3. x \div (B * w) = (x \div w) \div B /\ x \div w \in Nat /\ B * w \in Nat \ {0}
  OBVIOUS
<1>4. x \div (B * w) \in Nat
  BY <1>3
<1>5. x \div w = ((x \div w) % B) + B * ((x \div w) \div B)
  BY <1>3
<1>6. QED
  BY <1>1, <1>2, <1>3, <1>4, <1>5 DEF Part

\* The beats of a value add up to it.
LEMMA SumOfParts ==
    ASSUME NEW b \in Nat, NEW x \in Nat, x < Weight[b]
    PROVE  SumOf([i \in 0..(b - 1) |-> Part(x, i)], b)[b] = x
<1> DEFINE g == [i \in 0..(b - 1) |-> Part(x, i)]
           Good(n) == /\ SumOf(g, b)[n] \in Int
                      /\ SumOf(g, b)[n] + Weight[n] * (x \div Weight[n]) = x
           S == {n \in Nat : n <= b => Good(n)}
<1>0. \A n \in Nat : n < b => g[n] = Part(x, n)
  OBVIOUS
<1> HIDE DEF g
<1>1. 0 \in S
  <2>1. SumOf(g, b)[0] = 0 /\ Weight[0] = 1
    BY SumUnfold, WeightUnfold
  <2>2. 0 + 1 * (x \div 1) = x
    OBVIOUS
  <2>3. QED
    BY <2>1, <2>2
<1>2. ASSUME NEW n \in Nat, n \in S PROVE n + 1 \in S
  <2> SUFFICES ASSUME n + 1 <= b PROVE Good(n + 1)
    OBVIOUS
  <2>1. Good(n) /\ n < b /\ g[n] = Part(x, n)
    BY <1>0, <1>2
  <2>2. PICK w \in Nat : w = Weight[n]
    BY WeightPositive
  <2>3. PICK B \in Nat : B = Base
    BY DataAssumption
  <2>4. PICK d \in Int : d = Part(x, n)
    BY PartType, DataAssumption
  <2>5. PICK q \in Nat : q = x \div Weight[n]
    BY QuotientUnfold
  <2>6. PICK r \in Nat : r = x \div Weight[n + 1]
    BY QuotientUnfold
  <2>7. PICK t \in Int : t = SumOf(g, b)[n]
    BY <2>1
  <2>8. t + w * q = x
    BY <2>1, <2>2, <2>5, <2>7
  <2>9. q = d + B * r
    BY <2>3, <2>4, <2>5, <2>6, QuotientUnfold
  <2>10. SumOf(g, b)[n + 1] = t + d * w
    <3>1. SumOf(g, b)[n + 1] = SumOf(g, b)[n] + g[n] * Weight[n]
      BY <2>1, SumUnfold
    <3>2. QED
      BY <2>1, <2>2, <2>4, <2>7, <3>1
  <2>11. Weight[n + 1] = B * w
    BY <2>2, <2>3, WeightUnfold
  <2>12. t + d * w + (B * w) * r = x /\ t + d * w \in Int
    <3>1. w * (d + B * r) = d * w + (B * w) * r
      OBVIOUS
    <3>2. QED
      BY <2>8, <2>9, <3>1
  <2>13. QED
    BY <2>6, <2>10, <2>11, <2>12
<1> HIDE DEF S, Good
<1>3. \A n \in Nat : n \in S
  BY <1>1, <1>2, NatSetInduction
<1>4. Good(b)
  BY <1>3 DEF S
<1>5. x \div Weight[b] = 0 /\ Weight[b] \in Nat
  BY WeightPositive
<1>6. SumOf(g, b)[b] = x
  BY <1>4, <1>5 DEF Good
<1>7. QED
  BY <1>6 DEF g

\* Values whose upper beats are the same differ in the lowest beat only.
LEMMA UpperSame ==
    ASSUME NEW b \in Nat \ {0}, NEW x \in Nat, NEW y \in Nat,
           x < Weight[b], y < Weight[b],
           \A i \in 1..(b - 1) : Part(x, i) = Part(y, i)
    PROVE  x \div Weight[1] = y \div Weight[1]
<1> DEFINE S == {k \in Nat : k < b => x \div Weight[b - k] = y \div Weight[b - k]}
<1>1. 0 \in S
  <2>1. x \div Weight[b] = 0 /\ y \div Weight[b] = 0
    BY WeightPositive
  <2>2. b - 0 = b
    OBVIOUS
  <2>3. QED
    BY <2>1, <2>2
<1>2. ASSUME NEW k \in Nat, k \in S PROVE k + 1 \in S
  <2> SUFFICES ASSUME k + 1 < b
               PROVE  x \div Weight[b - (k + 1)] = y \div Weight[b - (k + 1)]
    OBVIOUS
  <2>1. PICK n \in 1..(b - 1) : n = b - (k + 1) /\ n + 1 = b - k /\ n \in Nat
    OBVIOUS
  <2>2. x \div Weight[n + 1] = y \div Weight[n + 1]
    BY <1>2, <2>1
  <2>3. Part(x, n) = Part(y, n)
    BY <2>1
  <2>4. x \div Weight[n] = y \div Weight[n]
    BY <2>1, <2>2, <2>3, QuotientUnfold
  <2>5. QED
    BY <2>1, <2>4
<1> HIDE DEF S
<1>3. \A k \in Nat : k \in S
  BY <1>1, <1>2, NatSetInduction
<1>4. b - 1 \in Nat /\ b - 1 < b /\ b - (b - 1) = 1
  OBVIOUS
<1>5. QED
  BY <1>3, <1>4 DEF S

\* And the other way round.
LEMMA UpperParts ==
    ASSUME NEW x \in Nat, NEW y \in Nat, x \div Weight[1] = y \div Weight[1]
    PROVE  \A n \in Nat : n >= 1 => Part(x, n) = Part(y, n)
<1> DEFINE S == {n \in Nat : x \div Weight[n + 1] = y \div Weight[n + 1]}
<1>1. 0 \in S
  OBVIOUS
<1>2. ASSUME NEW n \in Nat, n \in S PROVE n + 1 \in S
  <2>1. n + 1 \in Nat /\ x \div Weight[n + 1] = y \div Weight[n + 1]
    BY <1>2
  <2>2. x \div Weight[(n + 1) + 1] = y \div Weight[(n + 1) + 1]
    BY <2>1, QuotientUnfold
  <2>3. QED
    BY <2>2
<1> HIDE DEF S
<1>3. \A n \in Nat : n \in S
  BY <1>1, <1>2, NatSetInduction
<1>4. ASSUME NEW n \in Nat, n >= 1 PROVE Part(x, n) = Part(y, n)
  <2>1. n - 1 \in Nat /\ (n - 1) + 1 = n
    BY <1>4
  <2>2. x \div Weight[n] = y \div Weight[n]
    BY <1>3, <2>1 DEF S
  <2>3. QED
    BY <2>2 DEF Part
<1>5. QED
  BY <1>4

-----------------------------------------------------------------------------
\* The beats read so far with what the counter now has above them make up at
\* least the value that the counter had when the read began.
NotBehind ==
    SumOf(got, beats)[rAt] + Weight[rAt] * (last \div Weight[rAt]) >= start

\* Without a carry into the upper beats since then, the upper beats read are
\* those of the counter, and the lowest is one that it had.
NotAhead ==
    last \div Weight[1] = start \div Weight[1] =>
        /\ \A i \in Beats : 1 <= i /\ i < rAt => got[i] = Part(start, i)
        /\ rAt >= 1 => got[0] <= Part(last, 0)

\* The invariant for a counter: it has advanced from where it was when the
\* read began, with the read so far as it should be, or it has wrapped.
CounterShape ==
    kind = "counter" =>
        /\ last < Weight[beats] /\ start < Weight[beats]
        /\ reads > 0 =>
             \E n \in 0..writes :
                \/ last = start + n /\ NotBehind /\ NotAhead
                \/ last = start + n - Weight[beats]

CInv ==
    /\ IInv
    /\ beats \in BeatCounts /\ writes <= MaxWrites
    /\ CounterShape

\* Division keeps the order.
LEMMA QuotientMonotone ==
    ASSUME NEW x \in Nat, NEW y \in Nat, x <= y, NEW n \in Nat
    PROVE  /\ x \div Weight[n] \in Nat /\ y \div Weight[n] \in Nat
           /\ x \div Weight[n] <= y \div Weight[n]
           /\ Weight[n] * (x \div Weight[n]) <= Weight[n] * (y \div Weight[n])
<1>1. PICK w \in Nat \ {0} : w = Weight[n]
  BY WeightPositive
<1>2. PICK p, q \in Nat : p = x \div w /\ q = y \div w /\ p <= q
  OBVIOUS
<1>3. w * p <= w * q
  <2>1. p <= q
    BY <1>2
  <2>2. p * w <= q * w
    BY <2>1, ScaleMonotone
  <2>3. QED
    BY <2>2
<1>4. QED
  BY <1>1, <1>2, <1>3

\* The sums of the beats read are integers.
LEMMA SumType ==
    ASSUME TypeOK, NEW n \in 0..beats
    PROVE  SumOf(got, beats)[n] \in Int
<1>1. beats \in Nat /\ got \in [0..(beats - 1) -> Int]
  BY DEF TypeOK, Beats
<1>2. QED
  BY <1>1, SumSame

\* An advance of the counter keeps what a read has so far right.
LEMMA CounterAdvance ==
    ASSUME CInv, Advance, \A b \in BeatCounts : MaxWrites < Weight[b]
    PROVE  CounterShape'
<1>1. /\ kind = "counter" /\ writes < MaxWrites
      /\ last' = (last + 1) % Weight[beats] /\ writes' = writes + 1
      /\ UNCHANGED <<kind, beats, reads, rAt, got, start>>
  BY DEF Advance, writeVars, readVars
<1>2. TypeOK /\ beats \in Nat /\ last \in Nat /\ start \in Nat /\ writes \in Nat
      /\ rAt \in 0..beats
  BY DEF CInv, IInv, TypeOK
<1>3. PICK w \in Nat \ {0} : w = Weight[beats] /\ MaxWrites < w
  BY <1>2, WeightPositive DEF CInv
<1>4. last < w /\ start < w
  BY <1>1, <1>3 DEF CInv, CounterShape
<1>5. last' = IF last + 1 = w THEN 0 ELSE last + 1
  BY <1>1, <1>2, <1>3, <1>4
<1>6. last' < w
  BY <1>2, <1>3, <1>4, <1>5
<1>7. SUFFICES ASSUME reads > 0
      PROVE  \E n \in 0..(writes + 1) :
                \/ last' = start + n /\ NotBehind' /\ NotAhead'
                \/ last' = start + n - w
  BY <1>1, <1>3, <1>4, <1>6 DEF CounterShape
<1>8. PICK n \in 0..writes : \/ last = start + n /\ NotBehind /\ NotAhead
                             \/ last = start + n - w
  BY <1>1, <1>3, <1>7 DEF CInv, CounterShape
<1>9. n + 1 \in 0..(writes + 1) /\ n < w /\ n \in Nat
  BY <1>1, <1>2, <1>3, <1>8, BoundsAssumption
<1>10. CASE last = start + n - w
  <2>1. last' = start + (n + 1) - w
    BY <1>2, <1>4, <1>5, <1>9, <1>10
  <2>2. QED
    BY <1>9, <2>1
<1>11. CASE last = start + n /\ NotBehind /\ NotAhead /\ last + 1 = w
  <2>1. last' = start + (n + 1) - w
    BY <1>2, <1>3, <1>5, <1>9, <1>11
  <2>2. QED
    BY <1>9, <2>1
<1>12. CASE last = start + n /\ NotBehind /\ NotAhead /\ last + 1 # w
  <2>1. last' = start + (n + 1) /\ last' = last + 1 /\ start <= last
    BY <1>2, <1>5, <1>9, <1>12
  <2>2. NotBehind'
    <3>1. PICK t \in Int : t = SumOf(got, beats)[rAt]
      BY <1>2, SumType
    <3>2. PICK p, q \in Int : /\ p = Weight[rAt] * (last \div Weight[rAt])
                              /\ q = Weight[rAt] * (last' \div Weight[rAt])
                              /\ p <= q
      <4>1. rAt \in Nat /\ last' \in Nat /\ last <= last' /\ Weight[rAt] \in Nat
        BY <1>2, <2>1, WeightPositive
      <4>2. /\ last \div Weight[rAt] \in Nat /\ last' \div Weight[rAt] \in Nat
            /\ Weight[rAt] * (last \div Weight[rAt]) <= Weight[rAt] * (last' \div Weight[rAt])
        BY <1>2, <4>1, QuotientMonotone
      <4>3. QED
        BY <4>1, <4>2, ProductType
    <3>3. t + p >= start
      BY <1>12, <3>1, <3>2 DEF NotBehind
    <3>4. t + q >= start
      <4>1. p <= q
        BY <3>2
      <4>2. QED
        BY <1>2, <3>3, <4>1
    <3>5. QED
      BY <1>1, <3>1, <3>2, <3>4 DEF NotBehind
  <2>3. NotAhead'
    <3>1. SUFFICES ASSUME last' \div Weight[1] = start \div Weight[1]
          PROVE  /\ \A i \in Beats : 1 <= i /\ i < rAt => got[i] = Part(start, i)
                 /\ rAt >= 1 => got[0] <= Part(last', 0)
      BY <1>1 DEF NotAhead, Beats
    <3>2. /\ start \div Weight[1] \in Nat /\ last \div Weight[1] \in Nat
          /\ start \div Weight[1] <= last \div Weight[1]
          /\ last \div Weight[1] <= last' \div Weight[1]
      <4>1. PICK y \in Nat : y = last' /\ last <= y
        BY <1>2, <2>1
      <4>2. /\ start \div Weight[1] \in Nat /\ last \div Weight[1] \in Nat
            /\ start \div Weight[1] <= last \div Weight[1]
        BY <1>2, <2>1, QuotientMonotone
      <4>3. last \div Weight[1] <= y \div Weight[1]
        BY <1>2, <4>1, QuotientMonotone
      <4>4. QED
        BY <4>1, <4>2, <4>3
    <3>3. last \div Weight[1] = start \div Weight[1]
      BY <3>1, <3>2
    <3>4. /\ \A i \in Beats : 1 <= i /\ i < rAt => got[i] = Part(start, i)
          /\ rAt >= 1 => got[0] <= Part(last, 0)
      BY <1>12, <3>3 DEF NotAhead
    <3>5. Part(last, 0) \in Int /\ Part(last', 0) \in Int /\ Part(last, 0) <= Part(last', 0)
      <4>1. PICK B \in Nat \ {0} : B = Base /\ Weight[0] = 1 /\ Weight[1] = B
        BY WeightUnfold, DataAssumption
      <4>2. last \div B = (last + 1) \div B
        BY <2>1, <3>1, <3>3, <4>1
      <4>3. last % B \in Int /\ (last + 1) % B \in Int /\ last % B <= (last + 1) % B
        BY <1>2, <4>2
      <4>4. Part(last, 0) = last % B /\ Part(last', 0) = (last + 1) % B
        BY <1>2, <2>1, <4>1 DEF Part
      <4>5. QED
        BY <4>3, <4>4
    <3>6. rAt >= 1 => got[0] \in Int
      BY <1>2 DEF TypeOK, Beats
    <3>7. QED
      BY <3>4, <3>5, <3>6
  <2>4. QED
    BY <1>9, <2>1, <2>2, <2>3
<1>13. QED
  BY <1>8, <1>10, <1>11, <1>12

\* A read of the counter begins right.
LEMMA CounterBeginRead == ASSUME CInv, BeginRead PROVE CounterShape'
<1>1. rAt' = 0 /\ start' = last /\ UNCHANGED <<kind, beats, last, writes, got>>
  BY DEF BeginRead
<1>2. beats \in Nat /\ last \in Nat /\ writes \in Nat
  BY DEF CInv, IInv, TypeOK
<1>3. kind' = "counter" => last' < Weight[beats'] /\ start' < Weight[beats']
  BY <1>1 DEF CInv, CounterShape
<1>4. SumOf(got', beats')[rAt'] = 0 /\ Weight[rAt'] = 1
  BY <1>1, <1>2, SumUnfold, WeightUnfold
<1>5. NotBehind'
  BY <1>1, <1>2, <1>4 DEF NotBehind
<1>6. NotAhead'
  BY <1>1 DEF NotAhead, Beats
<1>7. 0 \in 0..writes' /\ last' = start' + 0
  BY <1>1, <1>2
<1>8. QED
  BY <1>3, <1>5, <1>6, <1>7 DEF CounterShape

\* A beat of a read of the counter keeps it right.
LEMMA CounterReadBeat == ASSUME CInv, ReadBeat PROVE CounterShape'
<1>1. /\ rAt < beats /\ rAt' = rAt + 1
      /\ got' = [got EXCEPT ![rAt] = mem[rAt]]
      /\ UNCHANGED <<kind, beats, last, writes, reads, start>>
  BY DEF ReadBeat, ReadBeatAt
<1>2. /\ TypeOK /\ beats \in Nat /\ last \in Nat /\ start \in Nat /\ writes \in Nat
      /\ rAt \in Nat /\ rAt \in 0..beats /\ rAt + 1 \in 0..beats
      /\ got \in [0..(beats - 1) -> Int] /\ rAt \in 0..(beats - 1)
  BY <1>1 DEF CInv, IInv, TypeOK, Beats
<1>3. SUFFICES ASSUME kind = "counter", NotBehind, NotAhead PROVE NotBehind' /\ NotAhead'
  BY <1>1 DEF CInv, CounterShape
<1>4. mem[rAt] = Part(last, rAt) /\ Part(last, rAt) \in Int
  <2>1. Part(last, rAt) \in Int
    BY <1>2, PartType, DataAssumption
  <2>2. ~busy /\ rAt \in Beats
    BY <1>2, <1>3 DEF CInv, IInv, RegisterShape, Beats
  <2>3. mem[rAt] = Part(last, rAt)
    BY <2>2 DEF CInv, IInv, RegisterShape
  <2>4. QED
    BY <2>1, <2>3
<1>5. got' \in [0..(beats - 1) -> Int] /\ got'[rAt] = Part(last, rAt)
      /\ \A i \in 0..(beats - 1) : i # rAt => got'[i] = got[i]
  BY <1>1, <1>2, <1>4
<1>6. NotBehind'
  <2>1. PICK t \in Int : t = SumOf(got, beats)[rAt] /\ t = SumOf(got', beats)[rAt]
    <3>1. \A i \in 0..(rAt - 1) : got[i] = got'[i]
      BY <1>2, <1>5
    <3>2. QED
      BY <1>2, <1>5, <3>1, SumSame
  <2>2. PICK w \in Nat : w = Weight[rAt]
    BY <1>2, WeightPositive
  <2>3. PICK B \in Nat : B = Base
    BY DataAssumption
  <2>4. PICK d \in Int : d = Part(last, rAt)
    BY <1>4
  <2>5. PICK q \in Nat : q = last \div Weight[rAt]
    BY <1>2, QuotientUnfold
  <2>6. PICK r \in Nat : r = last \div Weight[rAt + 1]
    BY <1>2, QuotientUnfold
  <2>7. q = d + B * r
    BY <1>2, <2>3, <2>4, <2>5, <2>6, QuotientUnfold
  <2>8. SumOf(got', beats)[rAt + 1] = t + d * w
    <3>1. SumOf(got', beats)[rAt + 1] = SumOf(got', beats)[rAt] + got'[rAt] * Weight[rAt]
      <4>1. PICK g : g = got'
        OBVIOUS
      <4>2. rAt \in Nat /\ beats \in Nat /\ rAt < beats
        BY <1>1, <1>2
      <4>3. SumOf(g, beats)[rAt + 1] = SumOf(g, beats)[rAt] + g[rAt] * Weight[rAt]
        BY <4>2, SumUnfold
      <4>4. QED
        BY <4>1, <4>3
    <3>2. QED
      BY <1>5, <2>1, <2>2, <2>4, <3>1
  <2>9. Weight[rAt + 1] = B * w
    BY <1>2, <2>2, <2>3, WeightUnfold
  <2>10. t + w * q >= start
    BY <1>3, <2>1, <2>2, <2>5 DEF NotBehind
  <2>11. t + d * w + (B * w) * r >= start
    <3>1. w * (d + B * r) = d * w + (B * w) * r
      OBVIOUS
    <3>2. QED
      BY <2>7, <2>10, <3>1
  <2>12. QED
    BY <1>1, <2>6, <2>8, <2>9, <2>11 DEF NotBehind
<1>7. NotAhead'
  <2>1. SUFFICES ASSUME last \div Weight[1] = start \div Weight[1]
        PROVE  /\ \A i \in Beats : 1 <= i /\ i < rAt + 1 => got'[i] = Part(start, i)
               /\ got'[0] <= Part(last, 0)
    BY <1>1 DEF NotAhead, Beats
  <2>2. /\ \A i \in Beats : 1 <= i /\ i < rAt => got[i] = Part(start, i)
        /\ rAt >= 1 => got[0] <= Part(last, 0)
    BY <1>3, <2>1 DEF NotAhead
  <2>3. ASSUME NEW i \in Beats, 1 <= i, i < rAt + 1 PROVE got'[i] = Part(start, i)
    <3>1. CASE i = rAt
      BY <1>2, <1>5, <2>1, <2>3, <3>1, UpperParts
    <3>2. CASE i < rAt
      BY <1>2, <1>5, <2>2, <2>3, <3>2 DEF Beats
    <3>3. QED
      BY <1>2, <2>3, <3>1, <3>2 DEF Beats
  <2>4. got'[0] <= Part(last, 0)
    <3>1. CASE rAt = 0
      BY <1>4, <1>5, <3>1
    <3>2. CASE rAt >= 1
      BY <1>2, <1>5, <2>2, <3>2
    <3>3. QED
      BY <1>2, <3>1, <3>2
  <2>5. QED
    BY <2>3, <2>4
<1>8. QED
  BY <1>6, <1>7

\* Every step keeps the counter's invariant.
LEMMA CounterStep ==
    ASSUME CInv, [Next]_vars, \A b \in BeatCounts : MaxWrites < Weight[b]
    PROVE  CInv'
<1>1. IInv'
  BY InvStep DEF CInv
<1>2. beats' = beats
  BY DEF Next, BeginWrite, WriteBeat, Advance, BeginRead, ReadBeat, vars
<1>3. writes' <= MaxWrites
  <2>1. writes \in Nat /\ writes <= MaxWrites
    BY DEF CInv, IInv, TypeOK
  <2>2. CASE BeginWrite \/ Advance
    BY <2>1, <2>2, BoundsAssumption DEF BeginWrite, Advance
  <2>3. CASE WriteBeat \/ BeginRead \/ ReadBeat \/ UNCHANGED vars
    BY <2>1, <2>3 DEF WriteBeat, BeginRead, ReadBeat, vars
  <2>4. QED
    BY <2>2, <2>3 DEF Next
<1>4. CounterShape'
  <2>1. CASE BeginWrite \/ WriteBeat
    <3>1. kind' = "storage"
      BY <2>1 DEF BeginWrite, WriteBeat, CInv, IInv, RegisterShape
    <3>2. QED
      BY <3>1 DEF CounterShape
  <2>2. CASE UNCHANGED vars
    <3>1. UNCHANGED <<kind, beats, last, start, reads, writes, rAt, got>>
      BY <2>2 DEF vars, readVars
    <3>2. NotBehind' = NotBehind /\ NotAhead' = NotAhead
      BY <3>1 DEF NotBehind, NotAhead, Beats
    <3>3. QED
      BY <3>1, <3>2 DEF CInv, CounterShape
  <2>3. QED
    BY <2>1, <2>2, CounterAdvance, CounterBeginRead, CounterReadBeat DEF Next
<1>5. QED
  BY <1>1, <1>2, <1>3, <1>4 DEF CInv

\* The initial state has the counter's invariant.
LEMMA CounterInit == Init => CInv
<1> SUFFICES ASSUME Init PROVE CInv
  OBVIOUS
<1>1. IInv /\ beats \in BeatCounts /\ writes = 0 /\ reads = 0 /\ start = 0
  BY InitStep DEF Init
<1>2. last < Weight[beats] /\ Weight[beats] \in Nat \ {0}
  BY <1>1, WeightPositive DEF Init, Fitting, IInv, TypeOK
<1>3. CounterShape
  BY <1>1, <1>2 DEF CounterShape
<1>4. QED
  BY <1>1, <1>3, BoundsAssumption DEF CInv

\* What the invariant says of a read that is over.
LEMMA CounterRead ==
    ASSUME CInv, \A b \in BeatCounts : MaxWrites < Weight[b]
    PROVE  CounterNotBehind
<1> SUFFICES ASSUME ReadDone, kind = "counter", last >= start
             PROVE  /\ Join(got) >= start
                    /\ UpperBeats(start) = UpperBeats(last) => Join(got) <= last
  BY DEF CounterNotBehind
<1>1. /\ TypeOK /\ beats \in Nat \ {0} /\ last \in Nat /\ start \in Nat /\ writes \in Nat
      /\ rAt = beats /\ reads > 0 /\ got \in [0..(beats - 1) -> Int]
  BY DEF CInv, IInv, TypeOK, ReadDone, Beats
<1>2. PICK w \in Nat \ {0} : w = Weight[beats] /\ MaxWrites < w
  BY <1>1, WeightPositive DEF CInv
<1>3. last < w /\ start < w
  BY <1>2 DEF CInv, CounterShape
<1>4. NotBehind /\ NotAhead
  <2>1. PICK n \in 0..writes : \/ last = start + n /\ NotBehind /\ NotAhead
                               \/ last = start + n - w
    BY <1>1, <1>2 DEF CInv, CounterShape
  <2>2. n \in Nat /\ n < w
    BY <1>1, <1>2, <2>1, BoundsAssumption DEF CInv
  <2>3. last # start + n - w
    BY <1>1, <2>2
  <2>4. QED
    BY <2>1, <2>3
<1>5. PICK t \in Int : t = Join(got) /\ t = SumOf(got, beats)[beats]
  BY <1>1, JoinIsSum, SumType
<1>6. Join(got) >= start
  <2>1. last \div Weight[beats] = 0 /\ Weight[beats] * 0 = 0
    <3>1. last \div w = 0 /\ w * 0 = 0
      BY <1>1, <1>3
    <3>2. QED
      BY <1>2, <3>1
  <2>2. t + 0 >= start
    BY <1>1, <1>4, <1>5, <2>1 DEF NotBehind
  <2>3. QED
    BY <1>5, <2>2
<1>7. ASSUME UpperBeats(start) = UpperBeats(last) PROVE Join(got) <= last
  <2>1. ASSUME NEW i \in 1..(beats - 1) PROVE Part(start, i) = Part(last, i)
    <3>1. i \in Beats \ {0}
      BY <1>1 DEF Beats
    <3>2. UpperBeats(start)[i] = Part(start, i) /\ UpperBeats(last)[i] = Part(last, i)
      BY <3>1 DEF UpperBeats
    <3>3. QED
      BY <1>7, <3>2
  <2>2. last \div Weight[1] = start \div Weight[1]
    BY <1>1, <1>2, <1>3, <2>1, UpperSame
  <2>3. /\ \A i \in Beats : 1 <= i /\ i < beats => got[i] = Part(start, i)
        /\ got[0] <= Part(last, 0)
    BY <1>1, <1>4, <2>2 DEF NotAhead
  <2> DEFINE h == [i \in 0..(beats - 1) |-> Part(last, i)]
  <2>4. h \in [0..(beats - 1) -> Int]
    BY <1>1, PartType, DataAssumption
  <2>5. \A i \in 0..(beats - 1) : got[i] <= h[i]
    <3>1. ASSUME NEW i \in 0..(beats - 1), i # 0 PROVE got[i] = h[i]
      BY <1>1, <2>1, <2>3, <3>1 DEF Beats
    <3>2. got[0] <= h[0]
      BY <1>1, <2>3
    <3> HIDE DEF h
    <3>3. QED
      BY <1>1, <2>4, <3>1, <3>2
  <2>6. SumOf(h, beats)[beats] = last
    BY <1>1, <1>2, <1>3, SumOfParts
  <2> HIDE DEF h
  <2>7. SumOf(got, beats)[beats] <= SumOf(h, beats)[beats]
    <3>1. beats \in Nat /\ beats \in 0..beats /\ got \in [0..(beats - 1) -> Int]
      BY <1>1
    <3>2. QED
      BY <2>4, <2>5, <3>1, SumLess
  <2>8. QED
    BY <1>5, <2>6, <2>7
<1>8. QED
  BY <1>6, <1>7

\* A read of a counter never returns a value that the counter had already
\* passed when the read began, and one that it really had unless a carry fell
\* into the read: for every width of the counter and of a beat, as long as the
\* counter advances less than a full turn.
THEOREM CounterReadsRight ==
    ASSUME \A b \in BeatCounts : MaxWrites < Weight[b]
    PROVE  Spec => []CounterNotBehind
<1>1. CInv /\ [Next]_vars => CInv'
  BY CounterStep
<1>2. CInv => CounterNotBehind
  BY CounterRead
<1>3. QED
  BY CounterInit, <1>1, <1>2, PTL DEF Spec
=============================================================================
