------------------------- MODULE InterfaceVecProofs -------------------------
(***************************************************************************)
(* The interface vector is correct for every number of clients, blocks and *)
(* interfaces.                                                             *)
(***************************************************************************)
EXTENDS InterfaceVec, TLAPS

\* One call keeps the shape of the array.
LEMMA TypeStep == TypeOK /\ [Next]_vars => TypeOK'
<1> SUFFICES ASSUME TypeOK, [Next]_vars PROVE TypeOK'
  OBVIOUS
<1> USE MaxSizeAssumption DEF Entry, Zero, Kinds
<1>1. ASSUME NEW n \in 0..MaxSize, Reserve(n) PROVE TypeOK'
  BY <1>1 DEF TypeOK, Reserve, ReserveVec, ReserveReserved, ReserveSize, ReserveHeap
<1>2. ASSUME NEW n \in 0..MaxSize, Resize(n) PROVE TypeOK'
  BY <1>2 DEF TypeOK, Resize, ReserveVec, ReserveReserved, ReserveHeap
<1>3. ASSUME NEW n \in 0..MaxSize, ReallocFails(n) PROVE TypeOK'
  BY <1>3 DEF TypeOK, ReallocFails
<1>4. ASSUME NEW i \in 0..MaxSize, NEW B \in SUBSET Blocks, AttachParameters(i, B)
      PROVE  TypeOK'
  BY <1>4 DEF TypeOK, AttachParameters
<1>9. ASSUME NEW c \in Clients, NEW k \in Kinds, NEW i \in 0..MaxSize, OpenTest(c, k, i)
      PROVE  TypeOK'
  BY <1>9 DEF TypeOK, OpenTest
<1>5. ASSUME NEW c \in Clients, NEW k \in Kinds, NEW i \in 0..MaxSize, OpenSet(c, k, i)
      PROVE  TypeOK'
  BY <1>5 DEF TypeOK, OpenSet
<1>6. ASSUME NEW c \in Clients, NEW k \in Kinds, NEW i \in 0..MaxSize, Close(c, k, i)
      PROVE  TypeOK'
  <2>1. i \in 0..(reserved - 1) /\ vec[i] \in Entry
    BY <1>6 DEF TypeOK, Close
  <2>2. vec[i].open \ {k} \in SUBSET Kinds
    BY <2>1
  <2>3. vec' \in [0..(reserved - 1) -> Entry]
    BY <1>6, <2>1, <2>2 DEF TypeOK, Close
  <2>4. QED
    BY <1>6, <2>3 DEF TypeOK, Close
<1>7. CASE UNCHANGED vars
  BY <1>7 DEF TypeOK, vars
<1>8. QED
  BY <1>1, <1>2, <1>3, <1>4, <1>5, <1>6, <1>7, <1>9 DEF Next

\* The array keeps its shape: after any call, the slots are exactly the
\* reserved ones and the size does not exceed them.
THEOREM TypeCorrect == Spec => []TypeOK
<1>1. Init => TypeOK
  BY MaxSizeAssumption DEF Init, TypeOK, Entry, Zero
<1>2. QED
  BY <1>1, TypeStep, PTL DEF Spec

-----------------------------------------------------------------------------
\* A claim that is held is on an entry below size.
ClaimsBelowSize == \A h \in held : h[3] < size

\* A claim on its way is on an entry below size; and unless another call
\* overlapped, its flag is still clear and no other call is on its way to it.
PendingFresh ==
    \A c \in Clients, k \in Kinds, i \in 0..MaxSize :
        <<c, k, i>> \in pending =>
            /\ i < size
            /\ <<k, i>> \notin raced =>
                  /\ k \notin vec[i].open
                  /\ \A d \in Clients : <<d, k, i>> \in pending => d = c

\* The inductive invariant.  TailZeroed alone is not enough: growth exposes
\* the tail, so the entries there must have no claim and no block, and the
\* blocks freed by a shrink must not be shared with an entry that stays.
IInv ==
    /\ TypeOK
    /\ TailZeroed
    /\ HeapReachable
    /\ NoSharedBlock
    /\ ClaimsBelowSize
    /\ PendingFresh
    /\ ExclusiveClaim
    /\ FlagMatchesClaim

\* Cutting a set of claims at a length keeps the claims below it.
LEMMA CutClaims ==
    ASSUME NEW H, NEW m, NEW c, NEW k, NEW i, i < m
    PROVE  <<c, k, i>> \in {h \in H : h[3] < m} <=> <<c, k, i>> \in H
OBVIOUS

\* Cutting the vector keeps the raced claims of the entries that stay.
LEMMA CutRaced ==
    ASSUME NEW R, NEW m, NEW k, NEW i, i < m
    PROVE  <<k, i>> \in {r \in R : r[2] < m} <=> <<k, i>> \in R
OBVIOUS

\* A claim is the triple of its client, kind and entry.
LEMMA ClaimTriple ==
    ASSUME NEW H, H \subseteq Clients \X Kinds \X (0..MaxSize), NEW h \in H
    PROVE  h[1] \in Clients /\ h = <<h[1], h[2], h[3]>>
OBVIOUS

\* Both ways of changing the length, reserve and resize: m is the new size.
\* The entries below the old and the new size keep their value, the others
\* are zero.
LEMMA LengthChange ==
    ASSUME IInv, NEW n \in 0..MaxSize, NEW m \in 0..MaxSize,
           m = n \/ (n >= size /\ m = size) \/ (n < size /\ m = n),
           vec' = ReserveVec(n), reserved' = ReserveReserved(n),
           size' = m, heap' = ReserveHeap(n),
           held' = {h \in held : h[3] < m}, raced' = {r \in raced : r[2] < m},
           pending = {}, pending' = {}, alive' = alive
    PROVE  IInv'
<1> USE MaxSizeAssumption
<1>1. TypeOK'
  BY DEF IInv, TypeOK, ReserveVec, ReserveReserved, ReserveHeap, Entry, Zero
<1>2. \A i \in 0..(reserved' - 1) :
          vec'[i] = IF i < size /\ i < m THEN vec[i] ELSE Zero
  BY DEF IInv, TypeOK, TailZeroed, ReserveVec, ReserveReserved
<1>3. TailZeroed'
  BY <1>1, <1>2 DEF IInv, TypeOK, TailZeroed
<1>4. NoSharedBlock'
  BY <1>1, <1>2 DEF IInv, TypeOK, NoSharedBlock, Zero
<1>5. HeapReachable'
  <2>1. \A i \in 0..(m - 1) : vec'[i] = IF i < size THEN vec[i] ELSE Zero
    BY <1>1, <1>2 DEF IInv, TypeOK
  <2>2. \A b : b \in heap' <=>
                /\ \E i \in 0..(size - 1) : b \in vec[i].params
                /\ ~ \E i \in n..(size - 1) : b \in vec[i].params
    BY DEF IInv, HeapReachable, ReserveHeap
  <2>3. \A b : b \in heap' <=>
                \E i \in 0..(size - 1) : i < n /\ b \in vec[i].params
    BY <2>2 DEF IInv, TypeOK, NoSharedBlock
  <2>4. \A b : b \in heap' <=> \E i \in 0..(m - 1) : b \in vec'[i].params
    BY <2>1, <2>3 DEF IInv, TypeOK, Zero
  <2>5. QED
    BY <2>4 DEF HeapReachable
<1>6. ClaimsBelowSize'
  BY DEF ClaimsBelowSize
<1>7. ExclusiveClaim'
  <2>1. \A g \in held' : <<g[2], g[3]>> \in raced => <<g[2], g[3]>> \in raced'
    OBVIOUS
  <2>2. QED
    BY <2>1 DEF IInv, ExclusiveClaim
<1>8. FlagMatchesClaim'
  <2> SUFFICES ASSUME NEW i \in 0..(m - 1), NEW k \in Kinds, <<k, i>> \notin raced'
               PROVE  k \in vec'[i].open <=> Claimed(k, i)'
    BY DEF FlagMatchesClaim
  <2> HIDE MaxSizeAssumption
  <2>00. i < m
    OBVIOUS
  <2>0. <<k, i>> \notin raced
    BY <2>00, CutRaced
  <2>01. \A c : <<c, k, i>> \in held' <=> <<c, k, i>> \in held
    BY <2>00, CutClaims
  <2>1. Claimed(k, i)' <=> Claimed(k, i)
    BY <2>01, Zenon DEF Claimed
  <2> USE MaxSizeAssumption
  <2>2. CASE i < size
    <3>1. vec'[i] = vec[i]
      BY <2>2, <1>1, <1>2 DEF IInv, TypeOK
    <3>2. i \in 0..(size - 1)
      BY <2>2 DEF IInv, TypeOK
    <3>3. k \in vec[i].open <=> Claimed(k, i)
      BY <2>0, <3>2 DEF IInv, FlagMatchesClaim
    <3>4. QED
      BY <3>1, <3>3, <2>1
  <2>3. CASE ~(i < size)
    <3>1. k \notin vec'[i].open
      BY <2>3, <1>1, <1>2 DEF TypeOK, Zero
    <3>2. ~Claimed(k, i)
      BY <2>3 DEF IInv, ClaimsBelowSize, Claimed
    <3>3. QED
      BY <3>1, <3>2, <2>1
  <2>4. QED
    BY <2>2, <2>3
<1>9. PendingFresh'
  BY DEF PendingFresh
<1>10. QED
  BY <1>1, <1>3, <1>4, <1>5, <1>6, <1>7, <1>8, <1>9 DEF IInv

\* One call of the vector or claim API keeps the invariant.
LEMMA InductiveStep == IInv /\ [Next]_vars => IInv'
<1> SUFFICES ASSUME IInv, [Next]_vars PROVE IInv'
  OBVIOUS
<1> USE MaxSizeAssumption
<1>0. TypeOK'
  BY TypeStep DEF IInv
<1>1. ASSUME NEW n \in 0..MaxSize, Reserve(n) PROVE IInv'
  <2>1. size' \in 0..MaxSize /\ (size' = n \/ (n >= size /\ size' = size))
    BY <1>1 DEF IInv, TypeOK, Reserve, ReserveSize
  <2>2. QED
    BY <1>1, <2>1, LengthChange DEF Reserve
<1>2. ASSUME NEW n \in 0..MaxSize, Resize(n) PROVE IInv'
  BY <1>2, LengthChange DEF Resize
<1>3. ASSUME NEW n \in 0..MaxSize, ReallocFails(n) PROVE IInv'
  <2>1. UNCHANGED <<vec, size, reserved, heap, pending, held, raced>>
    BY <1>3 DEF ReallocFails
  <2>2. TailZeroed' /\ HeapReachable' /\ NoSharedBlock'
    BY <2>1 DEF IInv, TailZeroed, HeapReachable, NoSharedBlock
  <2>3. ClaimsBelowSize' /\ PendingFresh' /\ ExclusiveClaim'
    BY <2>1 DEF IInv, ClaimsBelowSize, PendingFresh, ExclusiveClaim
  <2>4. FlagMatchesClaim'
    BY <2>1 DEF IInv, FlagMatchesClaim, Claimed
  <2>5. QED
    BY <1>0, <2>2, <2>3, <2>4 DEF IInv
<1>4. ASSUME NEW i \in 0..MaxSize, NEW B \in SUBSET Blocks, AttachParameters(i, B)
      PROVE  IInv'
  <2> USE <1>4 DEF AttachParameters
  <2>2. \A j \in 0..(reserved - 1) :
            /\ vec'[j].open = vec[j].open
            /\ vec'[j].params = IF j = i THEN B ELSE vec[j].params
            /\ j # i => vec'[j] = vec[j]
    BY DEF IInv, TypeOK, Entry
  <2>3. TailZeroed'
    BY <2>2 DEF IInv, TypeOK, TailZeroed
  <2>4. HeapReachable'
    <3>1. \A b : b \in heap' <=> \E j \in 0..(size - 1) : b \in vec'[j].params
      BY <2>2 DEF IInv, TypeOK, HeapReachable
    <3>2. QED
      BY <3>1 DEF HeapReachable
  <2>5. NoSharedBlock'
    BY <2>2 DEF IInv, TypeOK, HeapReachable, NoSharedBlock
  <2>6. ClaimsBelowSize' /\ ExclusiveClaim'
    BY DEF IInv, ClaimsBelowSize, ExclusiveClaim
  <2>9. PendingFresh'
    <3>1. \A j \in 0..MaxSize : j < size => vec'[j].open \subseteq vec[j].open
      BY <2>2 DEF IInv, TypeOK
    <3>2. pending' = pending /\ raced' = raced /\ size' = size
      OBVIOUS
    <3>3. QED
      BY <3>1, <3>2 DEF IInv, PendingFresh
  <2>7. FlagMatchesClaim'
    <3>1. \A j \in 0..(size - 1) : vec'[j].open = vec[j].open
      BY <2>2 DEF IInv, TypeOK
    <3>2. \A l, j : Claimed(l, j)' <=> Claimed(l, j)
      BY DEF Claimed
    <3>3. QED
      BY <3>1, <3>2 DEF IInv, FlagMatchesClaim
  <2>8. QED
    BY <1>0, <2>3, <2>4, <2>5, <2>6, <2>7, <2>9 DEF IInv
<1>9. ASSUME NEW c \in Clients, NEW k \in Kinds, NEW i \in 0..MaxSize, OpenTest(c, k, i)
      PROVE  IInv'
  <2>1. UNCHANGED <<vec, size, reserved, heap, held>>
    BY <1>9 DEF OpenTest
  <2>2. TailZeroed' /\ HeapReachable' /\ NoSharedBlock' /\ ClaimsBelowSize'
    BY <2>1 DEF IInv, TailZeroed, HeapReachable, NoSharedBlock, ClaimsBelowSize
  <2>3. raced \subseteq raced'
    BY <1>9 DEF OpenTest
  <2>4. ExclusiveClaim'
    BY <2>1, <2>3 DEF IInv, ExclusiveClaim
  <2>5. FlagMatchesClaim'
    <3>1. \A l, j : Claimed(l, j)' <=> Claimed(l, j)
      BY <2>1 DEF Claimed
    <3>2. QED
      BY <2>1, <2>3, <3>1 DEF IInv, FlagMatchesClaim
  <2>6. PendingFresh'
    <3>1. \A d \in Clients : <<d, k, i>> \in pending => <<k, i>> \in raced'
      BY <1>9 DEF OpenTest, Same
    <3>2. pending' = pending \cup {<<c, k, i>>} /\ i < size /\ k \notin vec[i].open
      BY <1>9 DEF OpenTest
    <3>3. QED
      BY <2>1, <2>3, <3>1, <3>2 DEF IInv, PendingFresh
  <2>7. QED
    BY <1>0, <2>2, <2>4, <2>5, <2>6 DEF IInv
<1>5. ASSUME NEW c \in Clients, NEW k \in Kinds, NEW i \in 0..MaxSize, OpenSet(c, k, i)
      PROVE  IInv'
  <2> USE <1>5 DEF OpenSet
  <2>2. \A j \in 0..(reserved - 1) :
            /\ vec'[j].params = vec[j].params
            /\ vec'[j].open = IF j = i THEN vec[j].open \cup {k} ELSE vec[j].open
            /\ j # i => vec'[j] = vec[j]
    BY DEF IInv, TypeOK, Entry
  <2>3. TailZeroed'
    BY <2>2 DEF IInv, TypeOK, TailZeroed
  <2>4. HeapReachable' /\ NoSharedBlock'
    BY <2>2 DEF IInv, TypeOK, HeapReachable, NoSharedBlock
  <2>5. \A h \in held' : h \in held \/ h = <<c, k, i>>
    OBVIOUS
  <2>6. ClaimsBelowSize'
    BY <2>5 DEF IInv, ClaimsBelowSize
  <2>7. ExclusiveClaim'
    <3>1. i \in 0..(size - 1)
      BY DEF IInv, TypeOK
    <3>2. <<k, i>> \notin raced => ~Claimed(k, i)
      BY <3>1 DEF IInv, FlagMatchesClaim, PendingFresh
    <3>3. <<k, i>> \notin raced => \A h \in held : h[2] # k \/ h[3] # i
      <4>1. held \subseteq Clients \X Kinds \X (0..MaxSize)
        BY DEF IInv, TypeOK
      <4>2. \A h \in held : h[1] \in Clients /\ h = <<h[1], h[2], h[3]>>
        BY <4>1, ClaimTriple
      <4>3. QED
        BY <3>2, <4>2, Zenon DEF Claimed
    <3>4. QED
      BY <2>5, <3>3 DEF IInv, ExclusiveClaim, Same
  <2>10. PendingFresh'
    <3>1. \A j \in 0..MaxSize : j < size =>
              vec'[j].open = IF j = i THEN vec[j].open \cup {k} ELSE vec[j].open
      <4> HIDE <1>5
      <4>1. \A j \in 0..MaxSize : j < size => j \in 0..(reserved - 1)
        BY DEF IInv, TypeOK
      <4>2. QED
        BY <2>2, <4>1
    <3>2. raced' = raced /\ size' = size
      OBVIOUS
    <3>3. <<k, i>> \notin raced => \A d \in Clients : <<d, k, i>> \notin pending'
      BY DEF IInv, PendingFresh
    <3>4. QED
      BY <3>1, <3>2, <3>3 DEF IInv, PendingFresh
  <2>8. FlagMatchesClaim'
    <3> HIDE <1>5
    <3>0. \A j \in 0..(size - 1) : j \in 0..(reserved - 1)
      BY DEF IInv, TypeOK
    <3>1. \A j \in 0..(size - 1) :
              vec'[j].open = IF j = i THEN vec[j].open \cup {k} ELSE vec[j].open
      BY <2>2, <3>0
    <3>2. \A l, j : Claimed(l, j)' <=> Claimed(l, j) \/ (l = k /\ j = i)
      BY <1>5 DEF Claimed
    <3>3. QED
      BY <1>5, <3>1, <3>2 DEF IInv, FlagMatchesClaim
  <2>9. QED
    BY <1>0, <2>3, <2>4, <2>6, <2>7, <2>8, <2>10 DEF IInv
<1>6. ASSUME NEW c \in Clients, NEW k \in Kinds, NEW i \in 0..MaxSize, Close(c, k, i)
      PROVE  IInv'
  <2> USE <1>6 DEF Close
  <2>2. \A j \in 0..(reserved - 1) :
            /\ vec'[j].params = vec[j].params
            /\ vec'[j].open = IF j = i THEN vec[j].open \ {k} ELSE vec[j].open
            /\ j # i => vec'[j] = vec[j]
    BY DEF IInv, TypeOK, Entry
  <2>3. TailZeroed'
    BY <2>2 DEF IInv, TypeOK, TailZeroed
  <2>4. HeapReachable' /\ NoSharedBlock'
    BY <2>2 DEF IInv, TypeOK, HeapReachable, NoSharedBlock
  <2>5. ClaimsBelowSize' /\ ExclusiveClaim'
    BY DEF IInv, ClaimsBelowSize, ExclusiveClaim
  <2>6. <<k, i>> \notin raced => \A d \in Clients : <<d, k, i>> \notin held'
    <3>1. <<k, i>> \notin raced =>
             \A d \in Clients : <<d, k, i>> \in held => <<d, k, i>> = <<c, k, i>>
      BY DEF IInv, ExclusiveClaim, Same
    <3>2. QED
      BY <3>1
  <2>9. PendingFresh'
    <3>1. \A j \in 0..MaxSize : j < size => vec'[j].open \subseteq vec[j].open
      BY <2>2 DEF IInv, TypeOK
    <3>2. pending' = pending /\ raced' = raced /\ size' = size
      OBVIOUS
    <3>3. QED
      BY <3>1, <3>2 DEF IInv, PendingFresh
  <2>7. FlagMatchesClaim'
    <3> HIDE <1>6
    <3>0. \A j \in 0..(size - 1) : j \in 0..(reserved - 1)
      BY DEF IInv, TypeOK
    <3>1. \A j \in 0..(size - 1) :
              vec'[j].open = IF j = i THEN vec[j].open \ {k} ELSE vec[j].open
      BY <2>2, <3>0
    <3>2. \A l, j : <<l, j>> \notin raced =>
                      (Claimed(l, j)' <=> Claimed(l, j) /\ ~(l = k /\ j = i))
      <4>1. \A d, l, j : <<d, l, j>> \in held' <=>
                 <<d, l, j>> \in held /\ ~(d = c /\ l = k /\ j = i)
        BY <1>6
      <4>2. \A l, j : ~(l = k /\ j = i) => (Claimed(l, j)' <=> Claimed(l, j))
        BY <4>1, Zenon DEF Claimed
      <4>3. <<k, i>> \notin raced => ~Claimed(k, i)'
        BY <2>6, Zenon DEF Claimed
      <4>4. QED
        BY <4>2, <4>3
    <3>3. size' = size /\ raced' = raced
      BY <1>6
    <3>4. QED
      BY <3>1, <3>2, <3>3 DEF IInv, FlagMatchesClaim
  <2>8. QED
    BY <1>0, <2>3, <2>4, <2>5, <2>7, <2>9 DEF IInv
<1>7. CASE UNCHANGED vars
  BY <1>0, <1>7 DEF IInv, vars, TailZeroed, HeapReachable, NoSharedBlock,
              ClaimsBelowSize, PendingFresh, ExclusiveClaim, FlagMatchesClaim,
              Claimed
<1>8. QED
  BY <1>1, <1>2, <1>3, <1>4, <1>5, <1>6, <1>7, <1>9 DEF Next

\* The invariant holds throughout.
THEOREM Invariance == Spec => []IInv
<1>1. Init => IInv
  <2>1. Init => TypeOK
    BY MaxSizeAssumption DEF Init, TypeOK, Entry, Zero
  <2>2. QED
    BY <2>1 DEF Init, IInv, TailZeroed, HeapReachable, NoSharedBlock,
                ClaimsBelowSize, PendingFresh, ExclusiveClaim, FlagMatchesClaim,
                Claimed
<1>2. QED
  BY <1>1, InductiveStep, PTL DEF Spec

\* Growing within the reserved length presents zeroed entries.
THEOREM TailSafe == Spec => []TailZeroed
<1>1. IInv => TailZeroed
  BY DEF IInv
<1>2. QED
  BY <1>1, Invariance, PTL

\* Parameter blocks neither leak nor dangle.
THEOREM HeapSafe == Spec => []HeapReachable
<1>1. IInv => HeapReachable
  BY DEF IInv
<1>2. QED
  BY <1>1, Invariance, PTL

\* No shrink frees a parameter block twice.
THEOREM BlocksSafe == Spec => []NoSharedBlock
<1>1. IInv => NoSharedBlock
  BY DEF IInv
<1>2. QED
  BY <1>1, Invariance, PTL

\* Two threads hold the same claim only when their calls of fpga_open
\* overlapped.
THEOREM ClaimSafe == Spec => []ExclusiveClaim
<1>1. IInv => ExclusiveClaim
  BY DEF IInv
<1>2. QED
  BY <1>1, Invariance, PTL

\* Only calls that overlapped can lose a claim, or leave an interface refused.
THEOREM FlagSafe == Spec => []FlagMatchesClaim
<1>1. IInv => FlagMatchesClaim
  BY DEF IInv
<1>2. QED
  BY <1>1, Invariance, PTL

-----------------------------------------------------------------------------
\* A change of the length is a resize of the abstract vector.
LEMMA ResizeRefines ==
    ASSUME IInv, NEW n \in 0..MaxSize, NEW m \in 0..MaxSize,
           m = n \/ (n >= size /\ m = size),
           vec' = ReserveVec(n), reserved' = ReserveReserved(n), size' = m
    PROVE  Abs!Resize(m)
<1> USE MaxSizeAssumption
<1>1. \A i \in 0..(m - 1) : vec'[i] = IF i < size THEN vec[i] ELSE Zero
  BY DEF IInv, TypeOK, TailZeroed, ReserveVec, ReserveReserved
<1>2. \A i \in 0..(m - 1) : i < size => i \in 0..(size - 1)
  BY DEF IInv, TypeOK
<1>3. [i \in 0..(m - 1) |-> vec'[i]] =
      [i \in 0..(m - 1) |->
          IF i < size THEN [j \in 0..(size - 1) |-> vec[j]][i] ELSE Zero]
  BY <1>1, <1>2
<1>4. QED
  BY <1>3 DEF Abs!Resize

\* A change of one entry below size is an assignment of the abstract vector.
LEMMA AssignRefines ==
    ASSUME IInv, TypeOK', NEW i \in 0..MaxSize, i < size,
           UNCHANGED <<size, reserved>>,
           \A j \in 0..(reserved - 1) : j # i => vec'[j] = vec[j]
    PROVE  \E e \in Entry : Abs!Assign(i, e)
<1> USE MaxSizeAssumption
<1>1. i \in 0..(size - 1) /\ i \in 0..(reserved - 1)
  BY DEF IInv, TypeOK
<1>2. PICK e \in Entry : e = vec'[i]
  BY <1>1 DEF TypeOK
<1>3. \A j \in 0..(size - 1) : j # i => vec'[j] = vec[j]
  BY DEF IInv, TypeOK
<1>4. [j \in 0..(size - 1) |-> vec'[j]] =
      [[j \in 0..(size - 1) |-> vec[j]] EXCEPT ![i] = e]
  BY <1>1, <1>2, <1>3
<1>5. Abs!Assign(i, e)
  BY <1>4 DEF Abs!Assign
<1>6. QED
  BY <1>5

\* The array code implements the vector that its header describes: growing
\* within the reserved length, which clears nothing, still appends default
\* entries.
THEOREM Refinement == Spec => RefinesVector
<1> USE MaxSizeAssumption
<1>1. Init => Abs!Init
  BY DEF Init, Abs!Init
<1>2. ASSUME IInv, IInv', [Next]_vars
      PROVE  [Abs!Next]_<<size, [i \in 0..(size - 1) |-> vec[i]]>>
  <2>1. ASSUME NEW n \in 0..MaxSize, Reserve(n) PROVE Abs!Next
    <3>1. PICK m \in 0..MaxSize : /\ size' = m
                                  /\ m = n \/ (n >= size /\ m = size)
      BY <1>2, <2>1 DEF IInv, TypeOK, Reserve, ReserveSize
    <3>2. Abs!Resize(m)
      BY <1>2, <2>1, <3>1, ResizeRefines DEF Reserve
    <3>3. QED
      BY <3>1, <3>2 DEF Abs!Next
  <2>2. ASSUME NEW n \in 0..MaxSize, Resize(n) PROVE Abs!Next
    BY <1>2, <2>2, ResizeRefines DEF Resize, Abs!Next
  <2>3. ASSUME NEW n \in 0..MaxSize, ReallocFails(n)
        PROVE  UNCHANGED <<size, [i \in 0..(size - 1) |-> vec[i]]>>
    BY <2>3 DEF ReallocFails
  <2>4. ASSUME NEW i \in 0..MaxSize, NEW B \in SUBSET Blocks, AttachParameters(i, B)
        PROVE  Abs!Next
    <3>1. \A j \in 0..(reserved - 1) : j # i => vec'[j] = vec[j]
      BY <1>2, <2>4 DEF IInv, TypeOK, AttachParameters
    <3>2. \E e \in Entry : Abs!Assign(i, e)
      BY <1>2, <2>4, <3>1, AssignRefines DEF IInv, AttachParameters
    <3>3. QED
      BY <3>2 DEF Abs!Next
  <2>8. ASSUME NEW c \in Clients, NEW k \in Kinds, NEW i \in 0..MaxSize,
               OpenTest(c, k, i)
        PROVE  UNCHANGED <<size, [i_1 \in 0..(size - 1) |-> vec[i_1]]>>
    BY <2>8 DEF OpenTest
  <2>5. ASSUME NEW c \in Clients, NEW k \in Kinds, NEW i \in 0..MaxSize,
               OpenSet(c, k, i) \/ Close(c, k, i)
        PROVE  Abs!Next
    <3>1. \A j \in 0..(reserved - 1) : j # i => vec'[j] = vec[j]
      BY <1>2, <2>5 DEF IInv, TypeOK, OpenSet, Close
    <3>2. \E e \in Entry : Abs!Assign(i, e)
      BY <1>2, <2>5, <3>1, AssignRefines DEF IInv, OpenSet, Close
    <3>3. QED
      BY <3>2 DEF Abs!Next
  <2>6. CASE UNCHANGED vars
    BY <2>6 DEF vars
  <2>7. QED
    BY <1>2, <2>1, <2>2, <2>3, <2>4, <2>5, <2>6, <2>8 DEF Next
<1>3. QED
  BY <1>1, <1>2, Invariance, PTL DEF Spec, RefinesVector, Abs!Spec
=============================================================================
