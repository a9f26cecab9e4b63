--------------------------- MODULE DflEntryProofs ---------------------------
(***************************************************************************)
(* What holds of the entries and of the heap.  The first half, up to       *)
(* CrashesOnlyAfterReturn, holds whatever the words of the ROM are.  The   *)
(* second half follows the layout of a list, and shows that a scan brings  *)
(* back what the list describes.                                           *)
(***************************************************************************)
EXTENDS DflEntry, TLAPS, WellFoundedInduction

-----------------------------------------------------------------------------
(***************************************************************************)
(* Parts of the invariant.                                                 *)
(***************************************************************************)
Fields == {"guid", "base", "instance", "group", "ptr", "num", "slots"}

\* num is the number of slots, and there is an array for them.
EntryOK(e) ==
    /\ DOMAIN e = Fields /\ e.ptr \in BOOLEAN /\ e.num \in Nat
    /\ e.slots = [k \in 1..e.num |-> e.slots[k]]
    /\ e.num > 0 => e.ptr

IsList(f, n) == f = [k \in 1..n |-> f[k]]

\* An entry without parameters.
Blank(e) == e.num = 0 /\ e.ptr = FALSE

\* The entries that the walk has not given parameters.
Untouched(i) == i > idx \/ (i = idx /\ (phase = "entry" \/ (phase = "params" /\ blk = 1)))

\* The headers that a walk of n headers passes.
Path(p, n) ==
    /\ p[1] = 0
    /\ \A k \in 1..(n - 1) : ~is_eol(Read(p[k])) /\ p[k + 1] = get_next_dfh_addr(Read(p[k]), p[k])

Walking == phase \in {"entry", "params", "next"}

\* The walk that collects passes the headers that the walk that counts passed.
WalkOK ==
    /\ phase = "count" => \E p : Path(p, count + 1) /\ p[count + 1] = dfh
    /\ phase = "resize" => dfh = 0
    /\ phase = "resize" \/ Walking =>
         \E p : /\ count > 0 /\ Path(p, count) /\ is_eol(Read(p[count]))
                /\ Walking => p[idx] = dfh

\* The blocks that entry i points to when it is e.
Points(i, e) ==
    {DataBlock(i, j) : j \in {k \in DOMAIN e.slots : e.slots[k].has}}
        \cup (IF e.ptr THEN {ParamsBlock(i)} ELSE {})

HeapOK == heap = UNION {Points(i, vec[i]) : i \in DOMAIN vec}

LiveOK ==
    /\ phase \in {"idle", "count", "resize"} \/ Walking
    /\ \A i \in DOMAIN vec : EntryOK(vec[i])
    /\ HeapOK
    /\ WalkOK
    /\ phase \in {"count", "resize"} => vec = <<>>
    /\ Walking => /\ vecPtr /\ DOMAIN vec = 1..count /\ idx \in 1..count
                  /\ \A i \in 1..count : Untouched(i) => Blank(vec[i])
    /\ phase = "params" => blk \in Nat \ {0} /\ (blk > 1 => vec[idx].ptr /\ vec[idx].num = blk)

\* As long as no handler returned from an exception and the process lives.
Live == ~returned /\ phase # "dead"

IInv ==
    /\ count \in Nat /\ returned \in BOOLEAN
    /\ Live => LiveOK

-----------------------------------------------------------------------------
(***************************************************************************)
(* Entries                                                                 *)
(***************************************************************************)
\* Entry i of v has got these parameters in w.
GetsParams(v, w, i, a, b, c) ==
    /\ DOMAIN w = DOMAIN v /\ \A k \in DOMAIN v : k # i => w[k] = v[k]
    /\ DOMAIN w[i] = Fields
    /\ w[i].slots = a /\ w[i].num = b /\ w[i].ptr = c

\* The parameters of one entry are set.
LEMMA ParamsSet ==
    ASSUME NEW v, NEW i \in DOMAIN v, DOMAIN v[i] = Fields, NEW a, NEW b, NEW c,
           NEW w, w = [v EXCEPT ![i].slots = a, ![i].num = b, ![i].ptr = c]
    PROVE  GetsParams(v, w, i, a, b, c)
<1> DEFINE e1 == [v[i] EXCEPT !.slots = a]
           e2 == [e1 EXCEPT !.num = b]
           e3 == [e2 EXCEPT !.ptr = c]
<1>1. w = [v EXCEPT ![i] = e3]
  OBVIOUS
<1>2. DOMAIN e1 = Fields /\ e1.slots = a
  BY DEF Fields
<1> HIDE DEF e1
<1>3. DOMAIN e2 = Fields /\ e2.slots = a /\ e2.num = b
  BY <1>2 DEF Fields
<1> HIDE DEF e2
<1>4. DOMAIN e3 = Fields /\ e3.slots = a /\ e3.num = b /\ e3.ptr = c
  BY <1>3 DEF Fields
<1> HIDE DEF e3
<1>5. QED
  BY <1>1, <1>4 DEF GetsParams

\* Properties that are not parameters leave the parameters alone.
LEMMA PropertiesSet ==
    ASSUME NEW v, NEW i \in DOMAIN v, DOMAIN v[i] = Fields, NEW a, NEW b, NEW c, NEW d,
           NEW w, w = [v EXCEPT ![i].guid = a, ![i].base = b, ![i].instance = c, ![i].group = d]
    PROVE  GetsParams(v, w, i, v[i].slots, v[i].num, v[i].ptr)
<1> DEFINE e1 == [v[i] EXCEPT !.guid = a]
           e2 == [e1 EXCEPT !.base = b]
           e3 == [e2 EXCEPT !.instance = c]
           e4 == [e3 EXCEPT !.group = d]
<1>1. w = [v EXCEPT ![i] = e4]
  OBVIOUS
<1>2. DOMAIN e1 = Fields /\ e1.slots = v[i].slots /\ e1.num = v[i].num /\ e1.ptr = v[i].ptr
  BY DEF Fields
<1> HIDE DEF e1
<1>3. DOMAIN e2 = Fields /\ e2.slots = v[i].slots /\ e2.num = v[i].num /\ e2.ptr = v[i].ptr
  BY <1>2 DEF Fields
<1> HIDE DEF e2
<1>4. DOMAIN e3 = Fields /\ e3.slots = v[i].slots /\ e3.num = v[i].num /\ e3.ptr = v[i].ptr
  BY <1>3 DEF Fields
<1> HIDE DEF e3
<1>5. DOMAIN e4 = Fields /\ e4.slots = v[i].slots /\ e4.num = v[i].num /\ e4.ptr = v[i].ptr
  BY <1>4 DEF Fields
<1> HIDE DEF e4
<1>6. QED
  BY <1>1, <1>5 DEF GetsParams

\* A fresh entry has no parameters.
LEMMA ZeroEntryOK == EntryOK(ZeroEntry) /\ Blank(ZeroEntry)
<1>1. /\ DOMAIN ZeroEntry = Fields /\ ZeroEntry.ptr = FALSE /\ ZeroEntry.num = 0
      /\ ZeroEntry.slots = <<>>
  BY DEF ZeroEntry, Fields
<1>2. <<>> = [k \in 1..0 |-> <<>>[k]]
  OBVIOUS
<1>3. ZeroEntry.slots = [k \in 1..ZeroEntry.num |-> ZeroEntry.slots[k]]
  BY <1>1, <1>2
<1>4. ~(0 > 0) /\ 0 \in Nat
  OBVIOUS
<1>5. QED
  BY <1>1, <1>3, <1>4, Zenon DEF EntryOK, Blank

\* What reserve frees with an entry is what the entry points to.
LEMMA FreedIsPointed ==
    ASSUME NEW i \in DOMAIN vec, EntryOK(vec[i])
    PROVE  FreedWith(i) = Points(i, vec[i])
<1>1. DOMAIN vec[i].slots = 1..vec[i].num
  BY DEF EntryOK
<1>2. QED
  BY <1>1, Zenon DEF FreedWith, Points

\* An entry without parameters points to nothing.
LEMMA BlankPoints ==
    ASSUME NEW i, NEW e, EntryOK(e), Blank(e)
    PROVE  Points(i, e) = {}
<1>1. DOMAIN e.slots = {}
  BY DEF EntryOK, Blank
<1>2. QED
  BY <1>1 DEF Points, Blank

\* The heap over a step that changes one entry.
LEMMA HeapOfEntry ==
    ASSUME HeapOK, NEW i \in DOMAIN vec, DOMAIN vec' = DOMAIN vec, NEW B,
           \A k \in DOMAIN vec : k # i => vec'[k] = vec[k],
           Points(i, vec'[i]) = Points(i, vec[i]) \cup B, heap' = heap \cup B
    PROVE  HeapOK'
<1>1. heap = UNION {Points(k, vec[k]) : k \in DOMAIN vec}
  BY DEF HeapOK
<1>2. ASSUME NEW x \in heap' PROVE \E k \in DOMAIN vec' : x \in Points(k, vec'[k])
  <2>1. CASE x \in B
    BY <2>1
  <2>2. CASE x \in heap
    <3>1. PICK k \in DOMAIN vec : x \in Points(k, vec[k])
      BY <1>1, <2>2
    <3>2. CASE k = i
      BY <3>1, <3>2
    <3>3. CASE k # i
      BY <3>1, <3>3
    <3>4. QED
      BY <3>2, <3>3
  <2>3. QED
    BY <1>2, <2>1, <2>2
<1>3. ASSUME NEW k \in DOMAIN vec', NEW x \in Points(k, vec'[k]) PROVE x \in heap'
  <2>1. CASE k = i
    BY <1>1, <1>3, <2>1
  <2>2. CASE k # i
    BY <1>1, <1>3, <2>2
  <2>3. QED
    BY <2>1, <2>2
<1>4. heap' = UNION {Points(k, vec'[k]) : k \in DOMAIN vec'}
  BY <1>2, <1>3
<1>5. QED
  BY <1>4 DEF HeapOK, Points

\* One block of parameters is added to the entry at idx: n slots, of which the
\* first blk - 1 were there and the one after blk, if any, is zeroed.
LEMMA BlockAdded ==
    ASSUME LiveOK, phase = "params", UsesArray,
           NEW n, n = blk \/ n = blk + 1, NEW F, IsList(F, n),
           \A k \in 1..(blk - 1) : F[k] = vec[idx].slots[k],
           F[blk].has = TRUE, n = blk + 1 => F[n].has = FALSE,
           GetsParams(vec, vec', idx, F, n, TRUE),
           heap' = heap \cup {ParamsBlock(idx), DataBlock(idx, blk)}
    PROVE  /\ DOMAIN vec' = DOMAIN vec /\ \A i \in DOMAIN vec' : EntryOK(vec'[i])
           /\ \A k \in DOMAIN vec : k # idx => vec'[k] = vec[k]
           /\ vec'[idx].num = n /\ vec'[idx].ptr = TRUE
           /\ HeapOK'
<1>1. /\ idx \in DOMAIN vec /\ blk \in Nat \ {0} /\ EntryOK(vec[idx]) /\ Walking
      /\ \A i \in DOMAIN vec : EntryOK(vec[i])
      /\ blk > 1 => vec[idx].ptr /\ vec[idx].num = blk
      /\ blk = 1 => Blank(vec[idx])
  BY DEF LiveOK, Walking, Untouched
<1>2. /\ DOMAIN vec' = DOMAIN vec /\ \A k \in DOMAIN vec : k # idx => vec'[k] = vec[k]
      /\ DOMAIN vec'[idx] = Fields
      /\ vec'[idx].slots = F /\ vec'[idx].num = n /\ vec'[idx].ptr = TRUE
  BY DEF GetsParams
<1>3. n \in Nat /\ n > 0
  BY <1>1
<1>4. EntryOK(vec'[idx])
  <2>1. TRUE \in BOOLEAN
    OBVIOUS
  <2>2. QED
    BY <1>2, <1>3, <2>1, Zenon DEF EntryOK, IsList
<1>5. \A i \in DOMAIN vec' : EntryOK(vec'[i])
  BY <1>1, <1>2, <1>4
<1>6. \A k \in 1..n : F[k].has <=> k = blk \/ (k \in DOMAIN vec[idx].slots /\ vec[idx].slots[k].has)
  <2>1. DOMAIN vec[idx].slots = 1..vec[idx].num
    BY <1>1 DEF EntryOK
  <2>2. SUFFICES ASSUME NEW k \in 1..n
                 PROVE  F[k].has <=> k = blk \/ (k \in DOMAIN vec[idx].slots /\ vec[idx].slots[k].has)
    OBVIOUS
  <2>3. CASE k = blk
    BY <2>3
  <2>4. CASE k = blk + 1
    <3>1. n = blk + 1 /\ k # blk
      BY <1>1, <2>4
    <3>2. F[k].has = FALSE
      BY <2>4, <3>1
    <3>3. k \notin DOMAIN vec[idx].slots
      BY <1>1, <2>1, <2>4 DEF Blank
    <3>4. QED
      BY <3>1, <3>2, <3>3
  <2>5. CASE k \in 1..(blk - 1)
    <3>1. F[k] = vec[idx].slots[k] /\ k # blk /\ blk > 1
      BY <1>1, <2>5
    <3>2. k \in DOMAIN vec[idx].slots
      BY <1>1, <2>1, <2>5, <3>1
    <3>3. QED
      BY <3>1, <3>2
  <2>6. QED
    BY <1>1, <2>3, <2>4, <2>5
<1>7. \A k \in DOMAIN vec[idx].slots : k \in 1..n
  BY <1>1 DEF EntryOK, Blank
<1>8. Points(idx, vec'[idx]) = Points(idx, vec[idx]) \cup {ParamsBlock(idx), DataBlock(idx, blk)}
  <2>1. DOMAIN F = 1..n /\ blk \in 1..n
    BY <1>1 DEF IsList
  <2>2. {k \in DOMAIN F : F[k].has}
          = {k \in DOMAIN vec[idx].slots : vec[idx].slots[k].has} \cup {blk}
    BY <1>6, <1>7, <2>1
  <2>3. Points(idx, vec'[idx])
          = {DataBlock(idx, j) : j \in {k \in DOMAIN F : F[k].has}} \cup {ParamsBlock(idx)}
    BY <1>2, Zenon DEF Points
  <2>4. Points(idx, vec[idx]) \cup {ParamsBlock(idx)}
          = {DataBlock(idx, j) : j \in {k \in DOMAIN vec[idx].slots : vec[idx].slots[k].has}}
              \cup {ParamsBlock(idx)}
    BY DEF Points
  <2>5. QED
    BY <2>2, <2>3, <2>4
<1>9. HeapOK'
  <2>1. HeapOK
    BY DEF LiveOK
  <2>2. QED
    BY <1>1, <1>2, <1>8, <2>1, HeapOfEntry
<1>10. QED
  BY <1>2, <1>5, <1>9

\* The slots that an iteration fills.
LEMMA FilledSlots ==
    ASSUME LiveOK, phase = "params", UsesArray, NEW w
    PROVE  /\ IsList(Filled(w), blk)
           /\ \A k \in 1..(blk - 1) : Filled(w)[k] = vec[idx].slots[k]
           /\ Filled(w)[blk].has = TRUE
<1>1. /\ idx \in DOMAIN vec /\ blk \in Nat \ {0} /\ EntryOK(vec[idx])
      /\ blk > 1 => vec[idx].ptr /\ vec[idx].num = blk
  BY DEF LiveOK, Walking
<1>2. PICK e : e = Slot(w)
  OBVIOUS
<1>3. e.has = TRUE
  BY <1>2 DEF Slot
<1>4. CASE blk = 1
  <2>1. Filled(w) = <<e>>
    BY <1>2, <1>4 DEF Filled
  <2>2. QED
    BY <1>3, <1>4, <2>1 DEF IsList
<1>5. CASE blk # 1
  <2>1. Filled(w) = [vec[idx].slots EXCEPT ![blk] = e]
    BY <1>2, <1>5 DEF Filled
  <2>2. blk > 1 /\ DOMAIN vec[idx].slots = 1..blk
    BY <1>1, <1>5 DEF EntryOK
  <2>3. QED
    BY <1>1, <1>3, <2>1, <2>2 DEF IsList
<1>6. QED
  BY <1>4, <1>5

-----------------------------------------------------------------------------
(***************************************************************************)
(* The actions.                                                            *)
(***************************************************************************)
\* A walk does not change with the ROM as it is.
LEMMA SamePath ==
    ASSUME rom' = rom
    PROVE  /\ \A p, n : Path(p, n)' <=> Path(p, n)
           /\ \A a : Read(a)' = Read(a)
<1>1. \A a : Read(a)' = Read(a)
  BY DEF Read
<1>2. QED
  BY <1>1 DEF Path, Read

\* A step that leaves entries and heap alone.
LEMMA SameEntries ==
    ASSUME LiveOK, vec' = vec, heap' = heap
    PROVE  (\A i \in DOMAIN vec' : EntryOK(vec'[i])) /\ HeapOK'
<1>1. HeapOK'
  BY DEF LiveOK, HeapOK, Points
<1>2. QED
  BY <1>1 DEF LiveOK

\* Everything is freed.
LEMMA AllFreed ==
    ASSUME LiveOK, FreeAll
    PROVE  vec' = <<>> /\ DOMAIN vec' = {} /\ HeapOK'
<1>1. \A i \in DOMAIN vec : FreedWith(i) = Points(i, vec[i])
  BY FreedIsPointed DEF LiveOK
<1>2. heap = UNION {FreedWith(i) : i \in DOMAIN vec}
  BY <1>1 DEF LiveOK, HeapOK
<1>3. heap' = {} /\ vec' = <<>> /\ DOMAIN vec' = {}
  BY <1>2 DEF FreeAll
<1>4. QED
  BY <1>3 DEF HeapOK

\* A handler is registered.
LEMMA RegisterHandlerStep ==
    ASSUME LiveOK, RegisterHandler
    PROVE  LiveOK'
<1>1. phase = "idle" /\ phase' = phase /\ vec' = vec /\ heap' = heap
  BY DEF RegisterHandler
<1>2. (\A i \in DOMAIN vec' : EntryOK(vec'[i])) /\ HeapOK'
  BY <1>1, SameEntries
<1>3. QED
  BY <1>1, <1>2 DEF LiveOK, WalkOK, Walking

\* A scan begins.
LEMMA StartScanStep ==
    ASSUME LiveOK, StartScan
    PROVE  LiveOK'
<1>1. phase' = "count" /\ count' = 0 /\ dfh' = 0 /\ FreeAll
  BY DEF StartScan
<1>2. vec' = <<>> /\ DOMAIN vec' = {} /\ HeapOK'
  BY <1>1, AllFreed
<1>3. \E p : Path(p, count + 1)' /\ p[count' + 1] = dfh'
  <2>1. PICK p : p = [k \in {1} |-> 0]
    OBVIOUS
  <2>2. p[1] = 0
    BY <2>1
  <2>3. 1..((0 + 1) - 1) = {} /\ 0 + 1 = 1
    OBVIOUS
  <2>4. Path(p, count + 1)'
    BY <1>1, <2>2, <2>3 DEF Path
  <2>5. p[count' + 1] = dfh'
    BY <1>1, <2>2, <2>3
  <2>6. QED
    BY <2>4, <2>5
<1>4. WalkOK'
  BY <1>1, <1>3 DEF WalkOK, Walking
<1>5. QED
  BY <1>1, <1>2, <1>4 DEF LiveOK, Walking

\* The vector is emptied.
LEMMA CleanupStep ==
    ASSUME LiveOK, Cleanup
    PROVE  LiveOK'
<1>1. phase = "idle" /\ phase' = phase /\ FreeAll
  BY DEF Cleanup
<1>2. vec' = <<>> /\ DOMAIN vec' = {} /\ HeapOK'
  BY <1>1, AllFreed
<1>3. QED
  BY <1>1, <1>2 DEF LiveOK, WalkOK, Walking

\* A header is counted.
LEMMA CountInterfaceStep ==
    ASSUME LiveOK, count \in Nat, CountInterface
    PROVE  LiveOK'
<1>1. /\ phase = "count" /\ count' = count + 1 /\ rom' = rom /\ vec' = vec /\ heap' = heap
      /\ vec = <<>>
  BY DEF CountInterface, LiveOK
<1>2. (\A i \in DOMAIN vec' : EntryOK(vec'[i])) /\ HeapOK'
  BY <1>1, SameEntries
<1>3. PICK p : Path(p, count + 1) /\ p[count + 1] = dfh
  BY <1>1 DEF LiveOK, WalkOK
<1>4. CASE is_eol(Read(dfh))
  <2>1. phase' = "resize" /\ dfh' = 0
    BY <1>4 DEF CountInterface
  <2>2. count' > 0 /\ Path(p, count)' /\ is_eol(Read(p[count]))'
    <3>1. PICK n : n = count + 1
      OBVIOUS
    <3>2. Path(p, n) /\ is_eol(Read(p[n])) /\ count' = n /\ n > 0
      BY <1>1, <1>3, <1>4, <3>1
    <3>3. Path(p, n)' /\ Read(p[n])' = Read(p[n])
      BY <1>1, <3>2, SamePath
    <3>4. is_eol(Read(p[n]))'
      BY <3>2, <3>3 DEF is_eol
    <3>5. QED
      BY <3>2, <3>3, <3>4
  <2>3. WalkOK'
    BY <2>1, <2>2 DEF WalkOK, Walking
  <2>4. QED
    BY <1>1, <1>2, <2>1, <2>3 DEF LiveOK, Walking
<1>5. CASE ~is_eol(Read(dfh))
  <2>1. phase' = "count" /\ dfh' = get_next_dfh_addr(Read(dfh), dfh)
    BY <1>1, <1>5 DEF CountInterface
  <2>0. PICK q : q = [k \in 1..(count + 2) |-> IF k = count + 2 THEN dfh' ELSE p[k]]
    OBVIOUS
  <2>2. q[count + 2] = dfh' /\ \A k \in 1..(count + 1) : q[k] = p[k]
    BY <2>0
  <2>3. q[1] = 0
    BY <1>3, <2>2 DEF Path
  <2>4. ASSUME NEW k \in 1..(count + 1)
        PROVE  ~is_eol(Read(q[k])) /\ q[k + 1] = get_next_dfh_addr(Read(q[k]), q[k])
    <3>1. CASE k = count + 1
      <4>1. q[k] = dfh /\ q[k + 1] = dfh'
        BY <1>3, <2>2, <3>1
      <4>2. QED
        BY <1>5, <2>1, <4>1
    <3>2. CASE k # count + 1
      <4>1. k \in 1..((count + 1) - 1) /\ k + 1 \in 1..(count + 1)
        BY <3>2
      <4>2. ~is_eol(Read(p[k])) /\ p[k + 1] = get_next_dfh_addr(Read(p[k]), p[k])
        BY <1>3, <4>1 DEF Path
      <4>3. QED
        BY <2>2, <4>1, <4>2
    <3>3. QED
      BY <3>1, <3>2
  <2>5. Path(q, count + 2)
    <3>1. (count + 2) - 1 = count + 1
      OBVIOUS
    <3>2. QED
      BY <2>3, <2>4, <3>1 DEF Path
  <2>6. Path(q, count + 1)' /\ q[count' + 1] = dfh'
    <3>1. count' + 1 = count + 2
      BY <1>1
    <3>2. Path(q, count' + 1)
      BY <2>5, <3>1
    <3>3. QED
      BY <1>1, <2>2, <3>1, <3>2, SamePath
  <2>7. WalkOK'
    BY <2>1, <2>6 DEF WalkOK, Walking
  <2>8. QED
    BY <1>1, <1>2, <2>1, <2>7 DEF LiveOK, Walking
<1>6. QED
  BY <1>4, <1>5

\* A walk that goes on where it was.
LEMMA SameWalk ==
    ASSUME LiveOK, phase = "resize" \/ Walking, Walking', rom' = rom, count' = count,
           dfh' = dfh, idx' = IF phase = "resize" THEN 1 ELSE idx
    PROVE  WalkOK'
<1>1. PICK p : /\ count > 0 /\ Path(p, count) /\ is_eol(Read(p[count]))
               /\ Walking => p[idx] = dfh
  BY DEF LiveOK, WalkOK
<1>2. Path(p, count)' /\ is_eol(Read(p[count]))'
  <2>1. Read(p[count])' = Read(p[count])
    BY SamePath
  <2>2. QED
    BY <1>1, <2>1, SamePath DEF is_eol
<1>3. p[idx'] = dfh'
  BY <1>1 DEF Path, LiveOK, WalkOK, Walking
<1>4. QED
  BY <1>1, <1>2, <1>3 DEF WalkOK, Walking

\* The vector gets its size.
LEMMA SizeVectorStep ==
    ASSUME LiveOK, count \in Nat, SizeVector
    PROVE  LiveOK'
<1>1. /\ phase = "resize" /\ phase' = "entry" /\ rom' = rom /\ count' = count /\ dfh' = dfh
      /\ idx' = 1 /\ vecPtr' = TRUE /\ heap' = heap /\ vec = <<>>
      /\ vec' = [i \in 1..count |-> ZeroEntry]
  BY DEF SizeVector, LiveOK, Walking
<1>2. count > 0 /\ 1 \in 1..count'
  BY <1>1 DEF LiveOK, WalkOK
<1>3. DOMAIN vec' = 1..count /\ \A i \in 1..count : vec'[i] = ZeroEntry
  BY <1>1
<1>4. \A i \in DOMAIN vec' : EntryOK(vec'[i]) /\ Blank(vec'[i])
  BY <1>3, ZeroEntryOK
<1>5. heap = {}
  BY <1>1 DEF LiveOK, HeapOK
<1>6. \A i \in DOMAIN vec' : Points(i, vec'[i]) = {}
  BY <1>4, BlankPoints
<1>7. HeapOK'
  <2>1. heap' = UNION {Points(i, vec'[i]) : i \in DOMAIN vec'}
    BY <1>1, <1>5, <1>6
  <2>2. QED
    BY <2>1 DEF HeapOK, Points
<1>8. WalkOK'
  BY <1>1, SameWalk DEF Walking
<1>9. QED
  BY <1>1, <1>2, <1>3, <1>4, <1>7, <1>8 DEF LiveOK, Walking

\* The properties of an interface are set.
LEMMA SetPropertiesStep ==
    ASSUME LiveOK, SetProperties
    PROVE  LiveOK'
<1>1. /\ phase = "entry" /\ Walking /\ (phase' = "params" \/ phase' = "next")
      /\ rom' = rom /\ count' = count /\ dfh' = dfh /\ idx' = idx /\ vecPtr' = vecPtr
      /\ heap' = heap /\ blk' = 1
  BY DEF SetProperties, Walking
<1>2. /\ idx \in DOMAIN vec /\ DOMAIN vec = 1..count /\ vecPtr /\ HeapOK
      /\ \A i \in DOMAIN vec : EntryOK(vec[i])
      /\ \A i \in 1..count : i > idx => Blank(vec[i])
      /\ Blank(vec[idx])
  BY <1>1 DEF LiveOK, Untouched
<1>3. GetsParams(vec, vec', idx, vec[idx].slots, vec[idx].num, vec[idx].ptr)
  <2>1. PICK a, b, c, d :
          vec' = [vec EXCEPT ![idx].guid = a, ![idx].base = b, ![idx].instance = c, ![idx].group = d]
    BY DEF SetProperties
  <2>2. DOMAIN vec[idx] = Fields
    BY <1>2 DEF EntryOK
  <2>3. QED
    BY <1>2, <2>1, <2>2, PropertiesSet
<1>4. /\ DOMAIN vec' = DOMAIN vec /\ \A k \in DOMAIN vec : k # idx => vec'[k] = vec[k]
      /\ DOMAIN vec'[idx] = Fields
      /\ vec'[idx].slots = vec[idx].slots /\ vec'[idx].num = vec[idx].num
      /\ vec'[idx].ptr = vec[idx].ptr
  BY <1>3 DEF GetsParams
<1>5. EntryOK(vec'[idx]) /\ Blank(vec'[idx])
  BY <1>2, <1>4 DEF EntryOK, Blank
<1>6. \A i \in DOMAIN vec' : EntryOK(vec'[i])
  BY <1>2, <1>4, <1>5
<1>7. HeapOK'
  <2>1. Points(idx, vec'[idx]) = Points(idx, vec[idx]) \cup {}
    BY <1>4 DEF Points
  <2>2. heap' = heap \cup {}
    BY <1>1
  <2>3. QED
    BY <1>2, <1>4, <2>1, <2>2, HeapOfEntry
<1>8. WalkOK'
  BY <1>1, SameWalk DEF Walking
<1>9. \A i \in 1..count : Untouched(i)' => Blank(vec'[i])
  <2>1. \A i \in 1..count : Untouched(i)' => i > idx \/ i = idx
    BY <1>1 DEF Untouched
  <2>2. ASSUME NEW i \in 1..count, i > idx PROVE vec'[i] = vec[i] /\ Blank(vec[i])
    BY <1>2, <1>4, <2>2
  <2>3. QED
    BY <1>5, <2>1, <2>2
<1>10. QED
  BY <1>1, <1>2, <1>4, <1>6, <1>7, <1>8, <1>9 DEF LiveOK, Walking

\* After a block, the entries behind it are as they were.
LEMMA BehindBlock ==
    ASSUME LiveOK, phase = "params", idx' = idx, blk' = blk + 1 \/ phase' = "next",
           phase' \in {"params", "next"},
           \A k \in DOMAIN vec : k # idx => vec'[k] = vec[k]
    PROVE  \A i \in 1..count : Untouched(i)' => Blank(vec'[i])
<1>1. /\ DOMAIN vec = 1..count /\ idx \in 1..count /\ blk \in Nat \ {0}
      /\ \A i \in 1..count : i > idx => Blank(vec[i])
  BY DEF LiveOK, Untouched, Walking
<1>2. \A i \in 1..count : Untouched(i)' => i > idx
  <2>1. ~(phase' = "entry" \/ (phase' = "params" /\ blk' = 1))
    BY <1>1
  <2>2. QED
    BY <2>1 DEF Untouched
<1>3. ASSUME NEW i \in 1..count, i > idx PROVE Blank(vec'[i])
  <2>1. i # idx
    BY <1>1, <1>3
  <2>2. QED
    BY <1>1, <1>3, <2>1
<1>4. QED
  BY <1>2, <1>3

\* The last block of parameters.
LEMMA LastBlockStep ==
    ASSUME LiveOK, LastBlock
    PROVE  LiveOK'
<1>1. /\ phase = "params" /\ UsesArray /\ Walking /\ phase' = "next"
      /\ rom' = rom /\ count' = count /\ dfh' = dfh /\ idx' = idx /\ vecPtr' = vecPtr
      /\ blk' = blk /\ heap' = heap \cup {ParamsBlock(idx), DataBlock(idx, blk)}
  BY DEF LastBlock, Walking, walkVars
<1>2. /\ idx \in DOMAIN vec /\ DOMAIN vec = 1..count /\ vecPtr /\ EntryOK(vec[idx])
      /\ blk \in Nat \ {0}
  BY <1>1 DEF LiveOK
<1>3. PICK F : F = Filled(Read(cur))
  OBVIOUS
<1>4. /\ IsList(F, blk) /\ F[blk].has = TRUE
      /\ \A k \in 1..(blk - 1) : F[k] = vec[idx].slots[k]
  BY <1>1, <1>3, FilledSlots
<1>5. GetsParams(vec, vec', idx, F, blk, TRUE)
  <2>1. vec' = [vec EXCEPT ![idx].slots = F, ![idx].num = blk, ![idx].ptr = TRUE]
    BY <1>3 DEF LastBlock
  <2>2. DOMAIN vec[idx] = Fields
    BY <1>2 DEF EntryOK
  <2>3. QED
    BY <1>2, <2>1, <2>2, ParamsSet
<1>6. /\ DOMAIN vec' = DOMAIN vec /\ \A i \in DOMAIN vec' : EntryOK(vec'[i])
      /\ \A k \in DOMAIN vec : k # idx => vec'[k] = vec[k]
      /\ HeapOK'
  <2>1. blk # blk + 1
    BY <1>2
  <2>2. QED
    BY <1>1, <1>4, <1>5, <2>1, BlockAdded
<1>7. WalkOK'
  BY <1>1, SameWalk DEF Walking
<1>8. \A i \in 1..count : Untouched(i)' => Blank(vec'[i])
  BY <1>1, <1>6, BehindBlock
<1>9. QED
  BY <1>1, <1>2, <1>6, <1>7, <1>8 DEF LiveOK, Walking

HasRoom(f, g, n) ==
    IsList(g, n + 1) /\ g[n + 1].has = FALSE /\ \A k \in 1..n : g[k] = f[k]

\* A zeroed slot at the end.
LEMMA RoomMade ==
    ASSUME NEW f, NEW n \in Nat, IsList(f, n), NEW g, g = Append(f, ZeroSlot)
    PROVE  HasRoom(f, g, n)
<1>1. ZeroSlot.has = FALSE
  BY DEF ZeroSlot
<1> DEFINE S == {f[k] : k \in 1..n} \cup {ZeroSlot}
<1>2. f \in Seq(S) /\ Len(f) = n /\ ZeroSlot \in S
  <2>1. f \in [1..n -> S] /\ DOMAIN f = 1..n
    BY DEF IsList
  <2> HIDE DEF S
  <2>2. f \in Seq(S) /\ Len(f) = n
    BY <2>1
  <2>3. QED
    BY <2>2 DEF S
<1> HIDE DEF S
<1>4. /\ g \in Seq(S) /\ DOMAIN g = 1..(n + 1) /\ g[n + 1] = ZeroSlot
      /\ \A k \in 1..n : g[k] = f[k]
  BY <1>2
<1>5. IsList(g, n + 1)
  BY <1>4 DEF IsList
<1>6. QED
  BY <1>1, <1>4, <1>5 DEF HasRoom

\* A block with another one after it.
LEMMA InnerBlockStep ==
    ASSUME LiveOK, InnerBlock
    PROVE  LiveOK'
<1>1. /\ phase = "params" /\ UsesArray /\ Walking /\ phase' = "params"
      /\ rom' = rom /\ count' = count /\ dfh' = dfh /\ idx' = idx /\ vecPtr' = vecPtr
      /\ blk' = blk + 1 /\ heap' = heap \cup {ParamsBlock(idx), DataBlock(idx, blk)}
  BY DEF InnerBlock, Walking
<1>2. /\ idx \in DOMAIN vec /\ DOMAIN vec = 1..count /\ vecPtr /\ EntryOK(vec[idx])
      /\ blk \in Nat \ {0}
  BY <1>1 DEF LiveOK
<1>3. PICK f : f = Filled(Read(cur))
  OBVIOUS
<1>4. /\ IsList(f, blk) /\ f[blk].has = TRUE
      /\ \A k \in 1..(blk - 1) : f[k] = vec[idx].slots[k]
  BY <1>1, <1>3, FilledSlots
<1>5. PICK F : F = Append(f, ZeroSlot)
  OBVIOUS
<1>6. IsList(F, blk + 1) /\ F[blk + 1].has = FALSE /\ \A k \in 1..blk : F[k] = f[k]
  <2>1. blk \in Nat
    BY <1>2
  <2>2. HasRoom(f, F, blk)
    BY <1>4, <1>5, <2>1, RoomMade
  <2>3. QED
    BY <2>2 DEF HasRoom
<1>7. F[blk].has = TRUE /\ \A k \in 1..(blk - 1) : F[k] = vec[idx].slots[k]
  BY <1>2, <1>4, <1>6
<1>8. GetsParams(vec, vec', idx, F, blk + 1, TRUE)
  <2>1. vec' = [vec EXCEPT ![idx].slots = F, ![idx].num = blk + 1, ![idx].ptr = TRUE]
    BY <1>3, <1>5 DEF InnerBlock
  <2>2. DOMAIN vec[idx] = Fields
    BY <1>2 DEF EntryOK
  <2>3. QED
    BY <1>2, <2>1, <2>2, ParamsSet
<1>9. /\ DOMAIN vec' = DOMAIN vec /\ \A i \in DOMAIN vec' : EntryOK(vec'[i])
      /\ \A k \in DOMAIN vec : k # idx => vec'[k] = vec[k]
      /\ vec'[idx].num = blk + 1 /\ vec'[idx].ptr = TRUE
      /\ HeapOK'
  BY <1>1, <1>6, <1>7, <1>8, BlockAdded
<1>10. WalkOK'
  BY <1>1, SameWalk DEF Walking
<1>11. \A i \in 1..count : Untouched(i)' => Blank(vec'[i])
  BY <1>1, <1>9, BehindBlock
<1>12. blk' \in Nat \ {0} /\ vec'[idx'].ptr /\ vec'[idx'].num = blk'
  BY <1>1, <1>2, <1>9
<1>13. QED
  BY <1>1, <1>2, <1>9, <1>10, <1>11, <1>12 DEF LiveOK, Walking

\* An empty block.
LEMMA EndOfParamsStep ==
    ASSUME LiveOK, EndOfParams
    PROVE  LiveOK'
<1>1. /\ phase = "params" /\ Walking /\ phase' = "next"
      /\ rom' = rom /\ count' = count /\ dfh' = dfh /\ idx' = idx /\ vecPtr' = vecPtr
      /\ vec' = vec /\ heap' = heap
  BY DEF EndOfParams, Walking, walkVars
<1>2. (\A i \in DOMAIN vec' : EntryOK(vec'[i])) /\ HeapOK'
  BY <1>1, SameEntries
<1>3. WalkOK'
  BY <1>1, SameWalk DEF Walking
<1>4. \A i \in 1..count : Untouched(i)' => Blank(vec'[i])
  BY <1>1, BehindBlock
<1>5. QED
  BY <1>1, <1>2, <1>3, <1>4 DEF LiveOK, Walking

\* The walk goes on to the next header, of which there is an entry, or ends.
LEMMA NextInterfaceStep ==
    ASSUME LiveOK, count \in Nat, NextInterface
    PROVE  LiveOK'
<1>1. /\ phase = "next" /\ Walking /\ rom' = rom /\ count' = count /\ vecPtr' = vecPtr
      /\ vec' = vec /\ heap' = heap
  BY DEF NextInterface, Walking
<1>2. (\A i \in DOMAIN vec' : EntryOK(vec'[i])) /\ HeapOK'
  BY <1>1, SameEntries
<1>3. CASE is_eol(Read(dfh))
  <2>1. phase' = "idle"
    BY <1>3 DEF NextInterface
  <2>2. QED
    BY <1>2, <2>1 DEF LiveOK, WalkOK, Walking
<1>4. CASE ~is_eol(Read(dfh))
  <2>1. phase' = "entry" /\ dfh' = get_next_dfh_addr(Read(dfh), dfh) /\ idx' = idx + 1
    BY <1>4 DEF NextInterface
  <2>2. PICK p : count > 0 /\ Path(p, count) /\ is_eol(Read(p[count])) /\ p[idx] = dfh
    BY <1>1 DEF LiveOK, WalkOK
  <2>3. idx \in 1..count /\ vecPtr /\ DOMAIN vec = 1..count
    BY <1>1 DEF LiveOK
  <2>4. idx # count
    BY <1>4, <2>2
  <2>5. idx' \in 1..count /\ idx \in 1..(count - 1)
    BY <2>1, <2>3, <2>4
  <2>6. p[idx'] = dfh'
    BY <2>1, <2>2, <2>5 DEF Path
  <2>7. Path(p, count)' /\ is_eol(Read(p[count]))'
    <3>1. Read(p[count])' = Read(p[count])
      BY <1>1, SamePath
    <3>2. QED
      BY <1>1, <2>2, <3>1, SamePath DEF is_eol
  <2>8. WalkOK'
    BY <1>1, <2>1, <2>2, <2>6, <2>7 DEF WalkOK, Walking
  <2>9. \A i \in 1..count : Untouched(i)' => Blank(vec'[i])
    <3>1. \A i \in 1..count : Untouched(i)' => i > idx
      BY <2>1, <2>3 DEF Untouched
    <3>2. \A i \in 1..count : i > idx => Blank(vec[i])
      BY <1>1 DEF LiveOK, Untouched
    <3>3. QED
      BY <1>1, <3>1, <3>2
  <2>10. QED
    BY <1>1, <1>2, <2>1, <2>3, <2>5, <2>8, <2>9 DEF LiveOK, Walking
<1>5. QED
  BY <1>3, <1>4

\* After an exception the process has ended or the handler has returned.
LEMMA ThrowEnds ==
    ASSUME NEW next, Throw(next)
    PROVE  ~Live'
BY DEF Throw, Live

\* No NULL array is used.
LEMMA NoNull ==
    ASSUME LiveOK, UseNull
    PROVE  FALSE
<1>1. CASE phase = "entry" /\ ~vecPtr
  BY <1>1 DEF LiveOK, Walking
<1>2. CASE phase = "params" /\ ~UsesArray
  BY <1>2 DEF LiveOK, Walking, UsesArray
<1>3. CASE \E i \in DOMAIN vec : Dangling(i)
  <2>1. PICK i \in DOMAIN vec : Dangling(i)
    BY <1>3
  <2>2. EntryOK(vec[i])
    BY DEF LiveOK
  <2>3. QED
    BY <2>1, <2>2 DEF EntryOK, Dangling
<1>4. QED
  BY <1>1, <1>2, <1>3 DEF UseNull

-----------------------------------------------------------------------------
(***************************************************************************)
(* The theorems.                                                           *)
(***************************************************************************)
\* Scans, rescans and cleanups keep the invariant, for every list and every ROM.
THEOREM Inductive == Spec => []IInv
<1>1. Init => IInv
  <2>1. SUFFICES ASSUME Init PROVE IInv
    OBVIOUS
  <2>2. phase = "idle" /\ vec = <<>> /\ DOMAIN vec = {} /\ heap = {} /\ count = 0 /\ returned = FALSE
    BY <2>1 DEF Init
  <2>3. LiveOK
    BY <2>2 DEF LiveOK, HeapOK, WalkOK, Walking
  <2>4. QED
    BY <2>2, <2>3 DEF IInv
<1>2. IInv /\ [Next]_vars => IInv'
  <2>1. SUFFICES ASSUME IInv, [Next]_vars PROVE IInv'
    OBVIOUS
  <2>2. count' \in Nat /\ returned' \in BOOLEAN
    <3>1. count \in Nat /\ returned \in BOOLEAN
      BY <2>1 DEF IInv
    <3>2. count' = count \/ count' = 0 \/ count' = count + 1
      BY <2>1 DEF Next, vars, RegisterHandler, StartScan, Cleanup, CountInterface, SizeVector,
           SetProperties, LastBlock, InnerBlock, EndOfParams, NextInterface,
           VectorAllocFails, BlockAllocFails, ResizeFails, UseNull, Throw
    <3>3. returned' = returned \/ returned' = (returned \/ HandlerReturns)
      BY <2>1 DEF Next, vars, RegisterHandler, StartScan, Cleanup, CountInterface, SizeVector,
           SetProperties, LastBlock, InnerBlock, EndOfParams, NextInterface,
           VectorAllocFails, BlockAllocFails, ResizeFails, UseNull, Throw
    <3>4. count' \in Nat
      BY <3>1, <3>2
    <3>5. returned' \in BOOLEAN
      BY <3>1, <3>3, Zenon DEF HandlerReturns
    <3>6. QED
      BY <3>4, <3>5
  <2>3. SUFFICES ASSUME Live' PROVE LiveOK'
    BY <2>2 DEF IInv
  <2>4. ~VectorAllocFails /\ ~BlockAllocFails /\ ~ResizeFails
    BY <2>3, ThrowEnds DEF VectorAllocFails, BlockAllocFails, ResizeFails
  <2>5. Live
    <3>1. ~returned
      BY <2>1, <2>3, <2>4 DEF Live, Next, vars, RegisterHandler, StartScan, Cleanup,
           CountInterface, SizeVector, SetProperties, LastBlock, InnerBlock, EndOfParams,
           NextInterface, UseNull
    <3>2. phase # "dead"
      BY <2>1, <2>3, <2>4 DEF Live, Next, vars, RegisterHandler, StartScan, Cleanup,
           CountInterface, SizeVector, SetProperties, LastBlock, InnerBlock, EndOfParams,
           NextInterface, UseNull
    <3>3. QED
      BY <3>1, <3>2 DEF Live
  <2>6. LiveOK /\ count \in Nat
    BY <2>1, <2>5 DEF IInv
  <2>7. CASE RegisterHandler
    BY <2>6, <2>7, RegisterHandlerStep
  <2>8. CASE StartScan
    BY <2>6, <2>8, StartScanStep
  <2>9. CASE Cleanup
    BY <2>6, <2>9, CleanupStep
  <2>10. CASE CountInterface
    BY <2>6, <2>10, CountInterfaceStep
  <2>11. CASE SizeVector
    BY <2>6, <2>11, SizeVectorStep
  <2>12. CASE SetProperties
    BY <2>6, <2>12, SetPropertiesStep
  <2>13. CASE LastBlock
    BY <2>6, <2>13, LastBlockStep
  <2>14. CASE InnerBlock
    BY <2>6, <2>14, InnerBlockStep
  <2>15. CASE EndOfParams
    BY <2>6, <2>15, EndOfParamsStep
  <2>16. CASE NextInterface
    BY <2>6, <2>16, NextInterfaceStep
  <2>17. CASE UseNull
    BY <2>6, <2>17, NoNull
  <2>18. CASE UNCHANGED vars
    <3>1. /\ phase' = phase /\ rom' = rom /\ count' = count /\ vec' = vec /\ vecPtr' = vecPtr
          /\ dfh' = dfh /\ idx' = idx /\ blk' = blk /\ heap' = heap
      BY <2>18 DEF vars, walkVars
    <3>2. (\A i \in DOMAIN vec' : EntryOK(vec'[i])) /\ HeapOK'
      BY <2>6, <3>1, SameEntries
    <3>3. WalkOK'
      BY <2>6, <3>1 DEF LiveOK, WalkOK, Walking, Path, Read, is_eol
    <3>4. \A i \in 1..count : Untouched(i)' <=> Untouched(i)
      BY <3>1 DEF Untouched
    <3>5. QED
      BY <2>6, <3>1, <3>2, <3>3, <3>4 DEF LiveOK, Walking
  <2>19. QED
    BY <2>1, <2>4, <2>7, <2>8, <2>9, <2>10, <2>11, <2>12, <2>13, <2>14, <2>15, <2>16, <2>17,
       <2>18 DEF Next
<1>3. QED
  BY <1>1, <1>2, PTL DEF Spec

\* The allocated blocks are those that entries point to: for every list, every
\* number of scans, and whatever the words of the ROM.
THEOREM HeapIsExact == Spec => []HeapExact
<1>1. IInv => HeapExact
  <2>1. SUFFICES ASSUME IInv, ~returned, phase # "dead"
                 PROVE  heap = UNION {PointedTo(i) : i \in DOMAIN vec}
    BY DEF HeapExact
  <2>2. heap = UNION {Points(i, vec[i]) : i \in DOMAIN vec}
    BY <2>1 DEF IInv, Live, LiveOK, HeapOK
  <2>3. \A i \in DOMAIN vec : Points(i, vec[i]) = PointedTo(i)
    BY DEF Points, PointedTo
  <2>4. QED
    BY <2>2, <2>3
<1>2. QED
  BY <1>1, Inductive, PTL

\* A NULL array is dereferenced only after a handler has returned.
THEOREM CrashesOnlyAfterReturn == Spec => []CrashOnlyAfterReturn
<1>1. IInv => CrashOnlyAfterReturn
  BY DEF IInv, Live, LiveOK, Walking, CrashOnlyAfterReturn
<1>2. QED
  BY <1>1, Inductive, PTL

-----------------------------------------------------------------------------
(***************************************************************************)
(* Powers of two                                                           *)
(***************************************************************************)
\* Induction, for a set instead of a predicate: of the numbers outside the set
\* there would be a least one.
LEMMA NatSetInduction ==
    ASSUME NEW S, 0 \in S, \A n \in Nat : n \in S => n + 1 \in S
    PROVE  \A n \in Nat : n \in S
<1> DEFINE T == {n \in Nat : n \notin S}
           R == OpToRel(<, Nat)
<1>1. SUFFICES ASSUME T # {} PROVE FALSE
  OBVIOUS
<1>2. IsWellFoundedOn(R, Nat)
  BY NatLessThanWellFounded, Zenon
<1> HIDE DEF R
<1>3. PICK m \in T : \A y \in T : <<y, m>> \notin R
  BY <1>1, <1>2, WFMin
<1>4. \A x, y \in Nat : x < y => <<x, y>> \in R
  BY DEF R, OpToRel
<1>5. m \in Nat /\ m - 1 \in Nat /\ m = (m - 1) + 1
  OBVIOUS
<1>6. <<m - 1, m>> \in R
  BY <1>4, <1>5
<1>7. m - 1 \notin T
  BY <1>3, <1>6
<1>8. m - 1 \in S
  BY <1>5, <1>7
<1>9. QED
  BY <1>5, <1>8

IsPower(f, n) == f = [i \in 0..n |-> IF i = 0 THEN 1 ELSE 2 * f[i - 1]]

\* The powers up to any exponent exist,
LEMMA PowersUpTo == \A n \in Nat : \E f : IsPower(f, n)
<1> DEFINE S == {n \in Nat : \E f : IsPower(f, n)}
<1>1. 0 \in S
  <2>1. IsPower([i \in 0..0 |-> 1], 0)
    BY DEF IsPower
  <2>2. QED
    BY <2>1
<1>2. ASSUME NEW n \in Nat, n \in S PROVE n + 1 \in S
  <2>1. PICK f : IsPower(f, n)
    BY <1>2
  <2> DEFINE g == [i \in 0..(n + 1) |-> IF i = n + 1 THEN 2 * f[n] ELSE f[i]]
  <2>2. ASSUME NEW i \in 0..(n + 1)
        PROVE  g[i] = IF i = 0 THEN 1 ELSE 2 * g[i - 1]
    <3>1. CASE i = n + 1
      BY <3>1
    <3>2. CASE i \in 0..n
      <4>1. g[i] = f[i] /\ (i # 0 => g[i - 1] = f[i - 1])
        BY <3>2
      <4>2. f[i] = IF i = 0 THEN 1 ELSE 2 * f[i - 1]
        BY <2>1, <3>2 DEF IsPower
      <4>3. QED
        BY <4>1, <4>2
    <3>3. QED
      BY <3>1, <3>2
  <2>3. IsPower(g, n + 1)
    BY <2>2 DEF IsPower
  <2> HIDE DEF g
  <2>4. \E h : IsPower(h, n + 1)
    BY <2>3
  <2>5. QED
    BY <2>4
<1> HIDE DEF S
<1>3. \A n \in Nat : n \in S
  BY <1>1, <1>2, NatSetInduction
<1>4. QED
  BY <1>3 DEF S

\* they agree,
LEMMA PowersAgree ==
    ASSUME NEW m \in Nat, NEW n \in Nat, NEW f, NEW g, IsPower(f, m), IsPower(g, n)
    PROVE  \A i \in Nat : i <= m /\ i <= n => f[i] = g[i]
<1> DEFINE S == {i \in Nat : i <= m /\ i <= n => f[i] = g[i]}
<1>1. 0 \in S
  BY DEF IsPower
<1>2. ASSUME NEW i \in Nat, i \in S PROVE i + 1 \in S
  BY <1>2 DEF IsPower
<1> HIDE DEF S
<1>3. \A i \in Nat : i \in S
  BY <1>1, <1>2, NatSetInduction
<1>4. QED
  BY <1>3 DEF S

\* and so Pow2 is what its definition says.
LEMMA PowerUnfold ==
    /\ Pow2[0] = 1
    /\ \A n \in Nat : Pow2[n + 1] = 2 * Pow2[n]
<1> DEFINE at(n) == CHOOSE f : IsPower(f, n)
           w == [n \in Nat |-> at(n)[n]]
<1>1. \A n \in Nat : IsPower(at(n), n)
  BY PowersUpTo
<1> HIDE DEF at
<1>2. w[0] = 1
  BY <1>1 DEF IsPower
<1>3. ASSUME NEW n \in Nat PROVE w[n + 1] = 2 * w[n]
  <2>1. at(n + 1)[n] = at(n)[n]
    BY <1>1, PowersAgree
  <2>2. at(n + 1)[n + 1] = 2 * at(n + 1)[n]
    BY <1>1 DEF IsPower
  <2>3. QED
    BY <2>1, <2>2
<1>4. w = [i \in Nat |-> IF i = 0 THEN 1 ELSE 2 * w[i - 1]]
  <2>1. \A i \in Nat : w[i] = IF i = 0 THEN 1 ELSE 2 * w[i - 1]
    <3> HIDE DEF w
    <3>1. ASSUME NEW i \in Nat, i # 0 PROVE w[i] = 2 * w[i - 1]
      <4>1. i - 1 \in Nat /\ i = (i - 1) + 1
        BY <3>1
      <4>2. QED
        BY <1>3, <4>1
    <3>2. QED
      BY <1>2, <3>1
  <2>2. QED
    BY <2>1
<1>5. Pow2 = [i \in Nat |-> IF i = 0 THEN 1 ELSE 2 * Pow2[i - 1]]
  <2> HIDE DEF w
  <2>1. \E f : f = [i \in Nat |-> IF i = 0 THEN 1 ELSE 2 * f[i - 1]]
    BY <1>4
  <2>2. QED
    BY <2>1 DEF Pow2
<1>6. QED
  BY <1>5

\* A power is positive, and exponents add up.
LEMMA PowerPositive == \A n \in Nat : Pow2[n] \in Nat \ {0}
<1> DEFINE S == {n \in Nat : Pow2[n] \in Nat \ {0}}
<1>1. 0 \in S
  BY PowerUnfold
<1>2. ASSUME NEW n \in Nat, n \in S PROVE n + 1 \in S
  BY <1>2, PowerUnfold
<1> HIDE DEF S
<1>3. \A n \in Nat : n \in S
  BY <1>1, <1>2, NatSetInduction
<1>4. QED
  BY <1>3 DEF S

\* Exponents add up.
LEMMA PowerSum == \A m, n \in Nat : Pow2[m + n] = Pow2[m] * Pow2[n]
<1> SUFFICES ASSUME NEW m \in Nat PROVE \A n \in Nat : Pow2[m + n] = Pow2[m] * Pow2[n]
  OBVIOUS
<1> DEFINE S == {n \in Nat : Pow2[m + n] = Pow2[m] * Pow2[n]}
<1>1. 0 \in S
  BY PowerUnfold, PowerPositive
<1>2. ASSUME NEW n \in Nat, n \in S PROVE n + 1 \in S
  <2>1. PICK a, b \in Nat : a = Pow2[m] /\ b = Pow2[n] /\ Pow2[m + n] = a * b
    BY <1>2, PowerPositive
  <2>2. Pow2[m + (n + 1)] = 2 * (a * b) /\ Pow2[n + 1] = 2 * b
    <3>1. m + (n + 1) = (m + n) + 1 /\ m + n \in Nat
      OBVIOUS
    <3>2. QED
      BY <2>1, <3>1, PowerUnfold
  <2>3. 2 * (a * b) = a * (2 * b)
    OBVIOUS
  <2>4. QED
    BY <2>1, <2>2, <2>3
<1> HIDE DEF S
<1>3. \A n \in Nat : n \in S
  BY <1>1, <1>2, NatSetInduction
<1>4. QED
  BY <1>3 DEF S

-----------------------------------------------------------------------------
(***************************************************************************)
(* Words: a field that was put into a word is what a getter cuts from it.  *)
(***************************************************************************)
\* Division by what the upper part of a word was multiplied with.
LEMMA Split ==
    ASSUME NEW q \in Nat, NEW r \in Nat, NEW d \in Nat \ {0}, r < d,
           NEW w, w = r + q * d
    PROVE  w \div d = q /\ w % d = r
OBVIOUS

\* Two fields next to each other are less than the weight of what follows.
LEMMA TwoFields ==
    ASSUME NEW d \in Nat \ {0}, NEW e \in Nat \ {0}, NEW x \in Nat, x < d, NEW y \in Nat, y < e
    PROVE  x + y * d \in Nat /\ x + y * d < d * e /\ d * e \in Nat \ {0}
<1>1. PICK p \in Nat, z \in Nat : p = y * d /\ z = (e - 1 - y) * d
  OBVIOUS
<1>2. d * e = p + z + d
  BY <1>1
<1>3. QED
  BY <1>1, <1>2

\* The powers that the words of a header are made of.
LEMMA Widths ==
    \E P, H, N \in Nat \ {0} :
        /\ Pow2[FieldBits] = P /\ Pow2[FieldBits - 1] = H /\ Pow2[NextBits] = N
        /\ P = 2 * H
        /\ Pow2[2 * FieldBits] = P * P /\ Pow2[2 * FieldBits + 3] = (P * P) * 8
        /\ Pow2[2 * FieldBits - 1] = P * H
        /\ Pow2[FieldBits + NextBits + 1] = (P * N) * 2
<1>1. FieldBits \in Nat /\ NextBits \in Nat /\ FieldBits - 1 \in Nat
  BY WidthsAssumption
<1>2. PICK P, H, N \in Nat \ {0} :
          Pow2[FieldBits] = P /\ Pow2[FieldBits - 1] = H /\ Pow2[NextBits] = N
  BY <1>1, PowerPositive
<1>3. P = 2 * H
  <2>1. FieldBits = (FieldBits - 1) + 1
    BY <1>1
  <2>2. QED
    BY <1>1, <1>2, <2>1, PowerUnfold
<1>4. Pow2[1] = 2 /\ Pow2[3] = 8
  <2>1. Pow2[0 + 1] = 2 * Pow2[0] /\ Pow2[1 + 1] = 2 * Pow2[1] /\ Pow2[2 + 1] = 2 * Pow2[2]
    BY PowerUnfold
  <2>2. QED
    BY <2>1, PowerUnfold
<1>5. Pow2[FieldBits + FieldBits] = P * P
  BY <1>1, <1>2, PowerSum
<1>6. Pow2[(FieldBits + FieldBits) + 3] = (P * P) * 8
  <2>1. PICK k \in Nat : k = FieldBits + FieldBits
    BY <1>1
  <2>2. Pow2[k + 3] = Pow2[k] * Pow2[3]
    BY PowerSum
  <2>3. QED
    BY <1>4, <1>5, <2>1, <2>2
<1>7. Pow2[FieldBits + (FieldBits - 1)] = P * H
  BY <1>1, <1>2, PowerSum
<1>8. Pow2[(FieldBits + NextBits) + 1] = (P * N) * 2
  <2>1. Pow2[FieldBits + NextBits] = P * N
    BY <1>1, <1>2, PowerSum
  <2>2. PICK k \in Nat : k = FieldBits + NextBits
    BY <1>1
  <2>3. Pow2[k + 1] = Pow2[k] * Pow2[1]
    BY PowerSum
  <2>4. QED
    BY <1>4, <2>1, <2>2, <2>3
<1>9. /\ FieldBits + FieldBits = 2 * FieldBits
      /\ FieldBits + (FieldBits - 1) = 2 * FieldBits - 1
  BY <1>1
<1>10. QED
  BY <1>2, <1>3, <1>5, <1>6, <1>7, <1>8, <1>9

\* The getters take the header of a parameter block apart.
Decoded(w, id, version, last, next) ==
    /\ w \in Nat
    /\ is_last_param_block(w) <=> last = 1
    /\ get_next_param_byte_offset(w) = 8 * next
    /\ get_param_block_version(w) = version
    /\ get_param_block_param_id(w) = id

\* The header of a parameter block.
LEMMA ParamHeaderRead ==
    ASSUME NEW id \in Values(FieldBits), NEW version \in Values(FieldBits),
           NEW last \in {0, 1}, NEW next \in Nat,
           NEW w, w = ParamHeader(id, version, last, next)
    PROVE  Decoded(w, id, version, last, next)
<1>1. PICK P \in Nat \ {0} : /\ Pow2[FieldBits] = P /\ Pow2[2 * FieldBits] = P * P
                             /\ Pow2[2 * FieldBits + 3] = (P * P) * 8
  BY Widths
<1>2. id \in Nat /\ id < P /\ version \in Nat /\ version < P /\ last \in Nat /\ last < 2
  BY <1>1 DEF Values
<1>3. PICK Q \in Nat \ {0} : Q = P * P
  OBVIOUS
<1>4. PICK low \in Nat : low = id + version * P /\ low < Q
  BY <1>2, <1>3, TwoFields
<1>5. w = low + last * Q + next * (Q * 8)
  BY <1>1, <1>3, <1>4 DEF ParamHeader
<1>6. PICK high \in Nat : high = last + next * 8
  BY <1>2
<1>7. w = low + high * Q
  <2>1. (last + next * 8) * Q = last * Q + next * (Q * 8)
    BY <1>2
  <2>2. QED
    BY <1>2, <1>4, <1>5, <1>6, <2>1
<1>8. w \in Nat /\ w \div Q = high
  <2>1. w \div Q = high
    BY <1>4, <1>7, Split
  <2>2. QED
    BY <1>7, <2>1
<1>9. high % 2 = last
  BY <1>2, <1>6
<1>10. w \div (Q * 8) = next
  <2>1. PICK r \in Nat : r = low + last * Q /\ r < Q * 8
    BY <1>2, <1>4
  <2>2. w = r + next * (Q * 8) /\ Q * 8 \in Nat \ {0}
    BY <1>5, <2>1
  <2>3. QED
    BY <2>1, <2>2, Split
<1>11. PICK rest \in Nat : rest = version + high * P
  BY <1>2, <1>6
<1>12. w = id + rest * P
  <2>1. (version + high * P) * P = version * P + high * (P * P)
    BY <1>2, <1>6
  <2>2. QED
    BY <1>2, <1>3, <1>4, <1>7, <1>11, <2>1
<1>13. w \div P = rest /\ w % P = id /\ rest % P = version
  <2>1. w \div P = rest /\ w % P = id
    BY <1>2, <1>12, Split
  <2>2. rest % P = version
    BY <1>2, <1>11, Split
  <2>3. QED
    BY <2>1, <2>2
<1>14. is_last_param_block(w) <=> last = 1
  BY <1>1, <1>3, <1>8, <1>9 DEF is_last_param_block, Bit
<1>15. get_next_param_byte_offset(w) = 8 * next
  BY <1>1, <1>3, <1>10 DEF get_next_param_byte_offset
<1>16. get_param_block_version(w) = version
  BY <1>1, <1>13 DEF get_param_block_version, Field
<1>17. get_param_block_param_id(w) = id
  <2>1. Pow2[0] = 1 /\ w \div 1 = w
    BY <1>8, PowerUnfold
  <2>2. QED
    BY <1>1, <1>13, <2>1 DEF get_param_block_param_id, Field
<1>18. QED
  BY <1>8, <1>14, <1>15, <1>16, <1>17 DEF Decoded

\* The word with the instance and the group.
LEMMA GroupRead ==
    ASSUME NEW instance \in Values(FieldBits), NEW group \in Values(FieldBits - 1),
           NEW params \in BOOLEAN,
           NEW w, w = instance + group * Pow2[FieldBits]
                        + (IF params THEN Pow2[2 * FieldBits - 1] ELSE 0)
    PROVE  /\ w \in Nat
           /\ get_instance_id(w) = instance /\ get_group_id(w) = group
           /\ has_params(w) <=> params
<1>1. PICK P, H \in Nat \ {0} :
          /\ Pow2[FieldBits] = P /\ Pow2[FieldBits - 1] = H /\ P = 2 * H
          /\ Pow2[2 * FieldBits - 1] = P * H
  BY Widths
<1>2. instance \in Nat /\ instance < P /\ group \in Nat /\ group < H
  BY <1>1 DEF Values
<1>3. PICK bit \in {0, 1} : bit = IF params THEN 1 ELSE 0
  OBVIOUS
<1>4. w = instance + group * P + bit * (P * H)
  BY <1>1, <1>2, <1>3
<1>5. PICK rest \in Nat : rest = group + bit * H
  BY <1>2
<1>6. w = instance + rest * P
  <2>1. (group + bit * H) * P = group * P + bit * (P * H)
    BY <1>2
  <2>2. QED
    BY <1>2, <1>4, <1>5, <2>1
<1>7. w \div P = rest /\ w % P = instance /\ w \in Nat
  <2>1. w \div P = rest /\ w % P = instance
    BY <1>2, <1>6, Split
  <2>2. QED
    BY <1>2, <1>6, <2>1
<1>8. rest % H = group
  <2>1. bit \in Nat
    OBVIOUS
  <2>2. QED
    BY <1>2, <1>5, <2>1, Split
<1>9. w \div (P * H) = bit
  <2>1. PICK low \in Nat : low = instance + group * P /\ low < P * H /\ P * H \in Nat \ {0}
    BY <1>2, TwoFields
  <2>2. w = low + bit * (P * H) /\ bit \in Nat
    BY <1>4, <2>1
  <2>3. QED
    BY <2>1, <2>2, Split
<1>10. bit % 2 = bit /\ (bit = 1 <=> params)
  BY <1>3
<1>11. Pow2[0] = 1 /\ w \div 1 = w
  BY <1>7, PowerUnfold
<1>12. get_instance_id(w) = instance
  BY <1>1, <1>7, <1>11 DEF get_instance_id, Field
<1>13. get_group_id(w) = group
  BY <1>1, <1>7, <1>8 DEF get_group_id, Field
<1>14. has_params(w) <=> params
  BY <1>1, <1>9, <1>10 DEF has_params, Bit
<1>15. QED
  BY <1>7, <1>12, <1>13, <1>14

\* The first word of a header: the mark of the last one, or an offset.
LEMMA StartRead ==
    ASSUME NEW next \in Nat, next < Pow2[NextBits]
    PROVE  /\ next * Pow2[FieldBits] \in Nat /\ Pow2[FieldBits + NextBits + 1] \in Nat
           /\ is_eol(Pow2[FieldBits + NextBits + 1])
           /\ ~is_eol(next * Pow2[FieldBits])
           /\ \A a : get_next_dfh_addr(next * Pow2[FieldBits], a) = a + next
<1>1. PICK P, N \in Nat \ {0} :
          /\ Pow2[FieldBits] = P /\ Pow2[NextBits] = N
          /\ Pow2[FieldBits + NextBits + 1] = (P * N) * 2
  BY Widths
<1>2. PICK M \in Nat \ {0} : M = (P * N) * 2
  OBVIOUS
<1>3. M \div M = 1
  BY <1>2
<1>4. PICK w \in Nat : w = next * P
  OBVIOUS
<1>5. w < M
  <2>1. next < N
    BY <1>1
  <2>2. 0 + next * P < P * N
    BY <2>1, TwoFields
  <2>3. QED
    BY <1>2, <1>4, <2>2
<1>6. w \div M = 0
  BY <1>2, <1>4, <1>5
<1>7. w \div P = next
  BY <1>4
<1>8. next % N = next
  BY <1>1
<1>9. is_eol(Pow2[FieldBits + NextBits + 1])
  BY <1>1, <1>2, <1>3 DEF is_eol, Bit
<1>10. ~is_eol(next * Pow2[FieldBits])
  BY <1>1, <1>2, <1>4, <1>6 DEF is_eol, Bit
<1>11. \A a : get_next_dfh_addr(next * Pow2[FieldBits], a) = a + next
  BY <1>1, <1>4, <1>7, <1>8 DEF get_next_dfh_addr, Field
<1>12. QED
  BY <1>1, <1>2, <1>4, <1>9, <1>10, <1>11

-----------------------------------------------------------------------------
(***************************************************************************)
(* Flattened sequences: where a part of the ROM begins, and what is there. *)
(***************************************************************************)
IsFlat(f, s, n) == f = [i \in 1..n |-> IF i = 1 THEN s[i] ELSE f[i - 1] \o s[i]]

First(s, n) == [i \in 1..n |-> s[i]]

\* The function that FlattenSeq is defined with exists for any length,
LEMMA FlatsUpTo == \A s : \A n \in Nat : \E f : IsFlat(f, s, n)
<1> SUFFICES ASSUME NEW s PROVE \A n \in Nat : \E f : IsFlat(f, s, n)
  OBVIOUS
<1> DEFINE S == {n \in Nat : \E f : IsFlat(f, s, n)}
<1>1. 0 \in S
  <2>1. IsFlat([i \in 1..0 |-> 0], s, 0)
    BY DEF IsFlat
  <2>2. QED
    BY <2>1
<1>2. ASSUME NEW n \in Nat, n \in S PROVE n + 1 \in S
  <2>1. PICK f : IsFlat(f, s, n)
    BY <1>2
  <2> DEFINE g == [i \in 1..(n + 1) |->
                     IF i = n + 1 THEN (IF i = 1 THEN s[i] ELSE f[n] \o s[i]) ELSE f[i]]
  <2>2. ASSUME NEW i \in 1..(n + 1)
        PROVE  g[i] = IF i = 1 THEN s[i] ELSE g[i - 1] \o s[i]
    <3>1. CASE i = n + 1
      <4>1. i # 1 => i - 1 = n /\ n \in 1..(n + 1) /\ n # n + 1
        BY <3>1
      <4>2. i # 1 => g[i - 1] = f[n]
        BY <4>1
      <4>3. QED
        BY <3>1, <4>2
    <3>2. CASE i \in 1..n
      <4>1. g[i] = f[i] /\ (i # 1 => g[i - 1] = f[i - 1])
        BY <3>2
      <4>2. f[i] = IF i = 1 THEN s[i] ELSE f[i - 1] \o s[i]
        BY <2>1, <3>2 DEF IsFlat
      <4>3. QED
        BY <4>1, <4>2
    <3>3. QED
      BY <3>1, <3>2
  <2>3. IsFlat(g, s, n + 1)
    BY <2>2 DEF IsFlat
  <2> HIDE DEF g
  <2>4. \E h : IsFlat(h, s, n + 1)
    BY <2>3
  <2>5. QED
    BY <2>4
<1> HIDE DEF S
<1>3. \A n \in Nat : n \in S
  BY <1>1, <1>2, NatSetInduction
<1>4. QED
  BY <1>3 DEF S

\* does not depend on what follows,
LEMMA FlatsAgree ==
    ASSUME NEW s, NEW m \in Nat, NEW n \in Nat, NEW f, NEW g, IsFlat(f, s, m), IsFlat(g, s, n)
    PROVE  \A i \in Nat : i + 1 <= m /\ i + 1 <= n => f[i + 1] = g[i + 1]
<1> DEFINE S == {i \in Nat : i + 1 <= m /\ i + 1 <= n => f[i + 1] = g[i + 1]}
<1>1. 0 \in S
  BY DEF IsFlat
<1>2. ASSUME NEW i \in Nat, i \in S PROVE i + 1 \in S
  <2> SUFFICES ASSUME (i + 1) + 1 <= m, (i + 1) + 1 <= n PROVE f[(i + 1) + 1] = g[(i + 1) + 1]
    OBVIOUS
  <2>1. f[i + 1] = g[i + 1]
    BY <1>2
  <2>2. PICK j \in Nat : j = (i + 1) + 1 /\ j - 1 = i + 1 /\ j # 1 /\ j \in 1..m /\ j \in 1..n
    OBVIOUS
  <2>3. f[j] = f[j - 1] \o s[j] /\ g[j] = g[j - 1] \o s[j]
    BY <2>2 DEF IsFlat
  <2>4. QED
    BY <2>1, <2>2, <2>3
<1> HIDE DEF S
<1>3. \A i \in Nat : i \in S
  BY <1>1, <1>2, NatSetInduction
<1>4. QED
  BY <1>3 DEF S

\* and its last value is the flattened sequence.
LEMMA FlatIs ==
    ASSUME NEW s, NEW n \in Nat, n > 0
    PROVE  \E f : IsFlat(f, s, n) /\ FlattenSeq(First(s, n)) = f[n]
<1>1. PICK x : x = First(s, n)
  OBVIOUS
<1>2. Len(x) = n /\ n # 0 /\ \A i \in 1..n : x[i] = s[i]
  <2>1. DOMAIN x = 1..n
    BY <1>1 DEF First
  <2>2. x \in Seq({x[i] : i \in 1..n})
    <3> DEFINE T == {x[i] : i \in 1..n}
    <3>1. x \in [1..n -> T]
      BY <1>1 DEF First
    <3> HIDE DEF T
    <3>2. x \in Seq(T)
      BY <3>1
    <3>3. QED
      BY <3>2 DEF T
  <2>3. QED
    BY <1>1, <2>1, <2>2 DEF First
<1>3. PICK f : f = CHOOSE g : g = [i \in 1..n |-> IF i = 1 THEN x[i] ELSE g[i - 1] \o x[i]]
  OBVIOUS
<1>4. FlattenSeq(x) = f[n]
  BY <1>2, <1>3 DEF FlattenSeq
<1>5. IsFlat(f, x, n)
  <2>1. \E g : g = [i \in 1..n |-> IF i = 1 THEN x[i] ELSE g[i - 1] \o x[i]]
    BY FlatsUpTo DEF IsFlat
  <2>2. QED
    BY <1>3, <2>1 DEF IsFlat
<1>6. IsFlat(f, s, n)
  BY <1>2, <1>5 DEF IsFlat
<1>7. QED
  BY <1>1, <1>4, <1>6

\* Nothing flattened is empty.
LEMMA FlatZero == \A s : FlattenSeq(First(s, 0)) = <<>>
<1> SUFFICES ASSUME NEW s PROVE FlattenSeq(First(s, 0)) = <<>>
  OBVIOUS
<1>1. First(s, 0) = <<>>
  BY DEF First
<1>2. Len(<<>>) = 0
  OBVIOUS
<1>3. QED
  BY <1>1, <1>2 DEF FlattenSeq

\* Concatenation.
LEMMA Joined ==
    ASSUME NEW S, NEW s \in Seq(S), NEW t \in Seq(S), NEW u, u = s \o t
    PROVE  /\ u \in Seq(S) /\ Len(u) = Len(s) + Len(t)
           /\ Len(s) \in Nat /\ Len(t) \in Nat
           /\ \A i \in 1..Len(s) : u[i] = s[i]
           /\ \A i \in 1..Len(t) : u[Len(s) + i] = t[i]
OBVIOUS

\* One more sequence is added at the end.
LEMMA FlatNext ==
    ASSUME NEW S, NEW n \in Nat, NEW s \in [1..n -> Seq(S)], NEW k \in Nat, k < n
    PROVE  FlattenSeq(First(s, k + 1)) = FlattenSeq(First(s, k)) \o s[k + 1]
<1>1. PICK f : IsFlat(f, s, k + 1) /\ FlattenSeq(First(s, k + 1)) = f[k + 1]
  <2>1. k + 1 \in Nat /\ k + 1 > 0
    OBVIOUS
  <2>2. QED
    BY <2>1, FlatIs
<1>2. CASE k = 0
  <2>1. f[k + 1] = s[k + 1]
    BY <1>1, <1>2 DEF IsFlat
  <2>2. s[k + 1] \in Seq(S)
    BY <1>2
  <2>3. <<>> \o s[k + 1] = s[k + 1]
    BY <2>2
  <2>4. FlattenSeq(First(s, k)) = <<>>
    BY <1>2, FlatZero
  <2>5. QED
    BY <1>1, <2>1, <2>3, <2>4
<1>3. CASE k > 0
  <2>1. PICK g : IsFlat(g, s, k) /\ FlattenSeq(First(s, k)) = g[k]
    BY <1>3, FlatIs
  <2>2. PICK j \in Nat : k = j + 1
    BY <1>3
  <2>3. f[j + 1] = g[j + 1]
    <3>1. k + 1 \in Nat /\ j + 1 <= k + 1 /\ j + 1 <= k
      BY <2>2
    <3>2. \A i \in Nat : i + 1 <= k + 1 /\ i + 1 <= k => f[i + 1] = g[i + 1]
      BY <1>1, <2>1, <3>1, FlatsAgree
    <3>3. QED
      BY <3>1, <3>2
  <2>4. k + 1 \in 1..(k + 1) /\ k + 1 # 1 /\ (k + 1) - 1 = k
    BY <1>3
  <2>5. f[k + 1] = f[k] \o s[k + 1]
    BY <1>1, <2>4 DEF IsFlat
  <2>6. QED
    BY <1>1, <2>1, <2>2, <2>3, <2>5
<1>4. QED
  BY <1>2, <1>3

\* The result is a sequence of the same elements.
LEMMA FlatType ==
    ASSUME NEW S, NEW n \in Nat, NEW s \in [1..n -> Seq(S)]
    PROVE  \A k \in Nat : k <= n => FlattenSeq(First(s, k)) \in Seq(S)
<1> DEFINE T == {k \in Nat : k <= n => FlattenSeq(First(s, k)) \in Seq(S)}
<1>1. 0 \in T
  <2>1. <<>> \in Seq(S)
    OBVIOUS
  <2>2. QED
    BY <2>1, FlatZero
<1>2. ASSUME NEW k \in Nat, k \in T PROVE k + 1 \in T
  <2> SUFFICES ASSUME k + 1 <= n PROVE FlattenSeq(First(s, k + 1)) \in Seq(S)
    OBVIOUS
  <2>1. FlattenSeq(First(s, k)) \in Seq(S) /\ k < n
    BY <1>2
  <2>2. FlattenSeq(First(s, k + 1)) = FlattenSeq(First(s, k)) \o s[k + 1]
    BY <2>1, FlatNext
  <2>3. s[k + 1] \in Seq(S)
    BY <2>1
  <2>4. QED
    BY <2>1, <2>2, <2>3, Joined
<1> HIDE DEF T
<1>3. \A k \in Nat : k \in T
  BY <1>1, <1>2, NatSetInduction
<1>4. QED
  BY <1>3 DEF T

\* x is found in u from position o on.
Holds(u, o, x) ==
    /\ o \in Nat /\ Len(u) \in Nat /\ o + Len(x) <= Len(u)
    /\ \A j \in 1..Len(x) : u[o + j] = x[j]

\* Where sequence k + 1 is in the flattened one.
FlatPart(s, k) ==
    /\ Holds(FlattenSeq(s), Len(FlattenSeq(First(s, k))), s[k + 1])
    /\ Len(FlattenSeq(First(s, k + 1))) = Len(FlattenSeq(First(s, k))) + Len(s[k + 1])
    /\ Len(FlattenSeq(First(s, k))) \in Nat

\* Every sequence is found behind those before it.
LEMMA FlatAt ==
    ASSUME NEW S, NEW n \in Nat, NEW s \in [1..n -> Seq(S)], NEW k \in Nat, k < n
    PROVE  FlatPart(s, k)
<1> DEFINE F(m) == FlattenSeq(First(s, m))
<1>1. F(k) \in Seq(S) /\ s[k + 1] \in Seq(S)
  BY FlatType
<1>2. PICK o \in Nat : o = Len(F(k))
  BY <1>1
<1>3. F(k + 1) = F(k) \o s[k + 1]
  BY FlatNext
<1>4. Len(F(k + 1)) = o + Len(s[k + 1]) /\ Holds(F(k + 1), o, s[k + 1])
  <2>1. /\ Len(F(k + 1)) = Len(F(k)) + Len(s[k + 1]) /\ Len(s[k + 1]) \in Nat
        /\ \A i \in 1..Len(s[k + 1]) : F(k + 1)[Len(F(k)) + i] = s[k + 1][i]
    BY <1>1, <1>3, Joined
  <2>2. QED
    BY <1>2, <2>1 DEF Holds
<1> DEFINE T == {m \in Nat : k + 1 + m <= n => Holds(F(k + 1 + m), o, s[k + 1])}
<1>5. 0 \in T
  BY <1>4
<1>6. ASSUME NEW m \in Nat, m \in T PROVE m + 1 \in T
  <2> SUFFICES ASSUME k + 1 + (m + 1) <= n PROVE Holds(F(k + 1 + (m + 1)), o, s[k + 1])
    OBVIOUS
  <2>1. PICK p \in Nat : p = k + 1 + m /\ p + 1 = k + 1 + (m + 1) /\ p < n /\ p + 1 \in 1..n
    OBVIOUS
  <2>2. Holds(F(p), o, s[k + 1])
    BY <1>6, <2>1
  <2>3. F(p) \in Seq(S) /\ s[p + 1] \in Seq(S)
    <3>1. s[p + 1] \in Seq(S)
      BY <2>1
    <3>2. p <= n
      BY <2>1
    <3>3. FlattenSeq(First(s, p)) \in Seq(S)
      BY <3>2, FlatType
    <3>4. QED
      BY <3>1, <3>3
  <2>4. F(p + 1) = F(p) \o s[p + 1]
    BY <2>1, FlatNext
  <2>5. /\ Len(F(p + 1)) = Len(F(p)) + Len(s[p + 1]) /\ Len(s[p + 1]) \in Nat /\ Len(F(p)) \in Nat
        /\ \A i \in 1..Len(F(p)) : F(p + 1)[i] = F(p)[i]
    BY <2>3, <2>4, Joined
  <2> HIDE DEF F
  <2>6. Len(s[k + 1]) \in Nat
    BY <1>1
  <2>7. Holds(F(p + 1), o, s[k + 1])
    <3>1. \A j \in 1..Len(s[k + 1]) : o + j \in 1..Len(F(p)) /\ F(p)[o + j] = s[k + 1][j]
      BY <2>2, <2>5, <2>6 DEF Holds
    <3>2. \A j \in 1..Len(s[k + 1]) : F(p + 1)[o + j] = s[k + 1][j]
      BY <2>5, <3>1
    <3>3. o + Len(s[k + 1]) <= Len(F(p + 1)) /\ Len(F(p + 1)) \in Nat
      BY <2>2, <2>5, <2>6 DEF Holds
    <3>4. QED
      BY <3>2, <3>3 DEF Holds
  <2>8. QED
    BY <2>1, <2>7
<1> HIDE DEF T
<1>7. \A m \in Nat : m \in T
  BY <1>5, <1>6, NatSetInduction
<1>8. Holds(F(n), o, s[k + 1])
  <2>1. PICK m \in Nat : n = k + 1 + m
    BY DEF F
  <2>2. k + 1 + m <= n
    BY <2>1
  <2>3. Holds(F(k + 1 + m), o, s[k + 1])
    BY <1>7, <2>2 DEF T
  <2>4. QED
    BY <2>1, <2>3
<1>9. First(s, n) = s
  BY DEF First
<1>10. QED
  BY <1>2, <1>4, <1>8, <1>9 DEF FlatPart

-----------------------------------------------------------------------------
(***************************************************************************)
(* The layout of the ROM                                                   *)
(***************************************************************************)
\* What is inside a part is inside the whole.
LEMMA HoldsInside ==
    ASSUME NEW u, NEW o, NEW x, NEW p, NEW y, Holds(u, o, x), Holds(x, p, y), Len(y) \in Nat
    PROVE  Holds(u, o + p, y)
<1>1. \A j \in 1..Len(y) : p + j \in 1..Len(x) /\ o + (p + j) = (o + p) + j
  BY DEF Holds
<1>2. \A j \in 1..Len(y) : u[(o + p) + j] = y[j]
  <2>1. SUFFICES ASSUME NEW j \in 1..Len(y) PROVE u[(o + p) + j] = y[j]
    OBVIOUS
  <2>2. u[o + (p + j)] = x[p + j]
    BY <1>1 DEF Holds
  <2>3. x[p + j] = y[j]
    BY DEF Holds
  <2>4. QED
    BY <1>1, <2>2, <2>3
<1>3. (o + p) + Len(y) <= Len(u) /\ o + p \in Nat /\ Len(u) \in Nat
  BY DEF Holds
<1>4. QED
  BY <1>2, <1>3 DEF Holds

\* The parts of a concatenation.
LEMMA HoldsParts ==
    ASSUME NEW S, NEW s \in Seq(S), NEW t \in Seq(S)
    PROVE  Holds(s \o t, 0, s) /\ Holds(s \o t, Len(s), t)
<1>1. PICK u : u = s \o t
  OBVIOUS
<1>2. /\ Len(u) = Len(s) + Len(t) /\ Len(s) \in Nat /\ Len(t) \in Nat
      /\ \A i \in 1..Len(s) : u[i] = s[i]
      /\ \A i \in 1..Len(t) : u[Len(s) + i] = t[i]
  BY <1>1, Joined
<1>3. \A i \in 1..Len(s) : 0 + i = i
  OBVIOUS
<1>4. QED
  BY <1>1, <1>2, <1>3 DEF Holds

\* Where block j of interface i begins, in words from the first one.
BlockOffset(i, j) == Len(FlattenSeq([m \in 1..(j - 1) |-> BlockWords(i, m)]))

IsLast(i, j) == ~i.nullEnd /\ j = Len(i.blocks)

BlockHeader(i, j) ==
    ParamHeader(i.blocks[j].id, i.blocks[j].version, IF IsLast(i, j) THEN 1 ELSE 0,
                IF IsLast(i, j) THEN Len(i.blocks[j].data) ELSE Len(i.blocks[j].data) + 1)

\* The fields of an interface and of a block.
LEMMA InterfaceFields ==
    ASSUME NEW i \in Interfaces
    PROVE  /\ i.guid \in Nat \X Nat /\ i.csr \in Nat /\ i.csr % 2 = 0
           /\ i.absolute \in BOOLEAN /\ i.hasParams \in BOOLEAN /\ i.nullEnd \in BOOLEAN
           /\ i.instance \in Values(FieldBits) /\ i.group \in Values(FieldBits - 1)
           /\ i.blocks \in Seq(Blocks) /\ Len(i.blocks) \in Nat
           /\ \A j \in 1..Len(i.blocks) :
                 /\ i.blocks[j].id \in Values(FieldBits)
                 /\ i.blocks[j].version \in Values(FieldBits)
                 /\ i.blocks[j].data \in Seq(Nat) /\ Len(i.blocks[j].data) \in Nat
<1>1. i.blocks \in Seq(Blocks)
  BY DEF Interfaces
<1>2. \A j \in 1..Len(i.blocks) : i.blocks[j] \in Blocks
  BY <1>1
<1>3. \A b \in Blocks : /\ b.id \in Values(FieldBits) /\ b.version \in Values(FieldBits)
                        /\ b.data \in Seq(Nat) /\ Len(b.data) \in Nat
  BY DEF Blocks
<1>4. QED
  BY <1>1, <1>2, <1>3 DEF Interfaces

\* x is a header and the data behind it.
IsBlock(x, h, d) ==
    /\ x \in Seq(Nat) /\ Len(x) = 1 + Len(d) /\ x[1] = h
    /\ \A m \in 1..Len(d) : x[1 + m] = d[m]

\* A block is its header and its data.
LEMMA BlockLayout ==
    ASSUME NEW i \in Interfaces, NEW j \in 1..Len(i.blocks), NEW x, x = BlockWords(i, j)
    PROVE  IsBlock(x, BlockHeader(i, j), i.blocks[j].data)
<1>1. PICK h : h = BlockHeader(i, j)
  OBVIOUS
<1>2. h \in Nat
  <2>1. /\ i.blocks[j].id \in Values(FieldBits) /\ i.blocks[j].version \in Values(FieldBits)
        /\ Len(i.blocks[j].data) \in Nat
    BY InterfaceFields
  <2>2. PICK last \in {0, 1}, next \in Nat :
            /\ last = IF IsLast(i, j) THEN 1 ELSE 0
            /\ next = IF IsLast(i, j) THEN Len(i.blocks[j].data) ELSE Len(i.blocks[j].data) + 1
    BY <2>1
  <2>3. h = ParamHeader(i.blocks[j].id, i.blocks[j].version, last, next)
    BY <1>1, <2>2 DEF BlockHeader
  <2>4. PICK a, b \in Values(FieldBits) : a = i.blocks[j].id /\ b = i.blocks[j].version
    BY <2>1
  <2>5. h = ParamHeader(a, b, last, next)
    BY <2>3, <2>4
  <2>6. QED
    BY <2>5, ParamHeaderRead DEF Decoded
<1>3. x = <<h>> \o i.blocks[j].data
  BY <1>1 DEF BlockWords, BlockHeader, IsLast
<1>4. <<h>> \in Seq(Nat) /\ Len(<<h>>) = 1 /\ <<h>>[1] = h
  BY <1>2
<1>5. i.blocks[j].data \in Seq(Nat)
  BY InterfaceFields
<1>6. PICK y : y = <<h>>
  OBVIOUS
<1>7. PICK d : d = i.blocks[j].data
  OBVIOUS
<1>8. y \in Seq(Nat) /\ Len(y) = 1 /\ y[1] = h /\ d \in Seq(Nat) /\ x = y \o d
  BY <1>3, <1>4, <1>5, <1>6, <1>7
<1>9. /\ x \in Seq(Nat) /\ Len(x) = Len(y) + Len(d)
      /\ \A m \in 1..Len(y) : x[m] = y[m]
      /\ \A m \in 1..Len(d) : x[Len(y) + m] = d[m]
  <2>1. y \in Seq(Nat) /\ d \in Seq(Nat) /\ x = y \o d
    BY <1>8
  <2>2. QED
    BY <2>1, Joined
<1>10. x[1] = h
  BY <1>8, <1>9
<1>11. QED
  BY <1>1, <1>7, <1>8, <1>9, <1>10 DEF IsBlock

EmptyHeader == ParamHeader(0, 0, 1, 0)

\* The empty header is a word.
LEMMA EmptyHeaderType ==
    /\ EmptyHeader \in Nat /\ is_last_param_block(EmptyHeader)
    /\ get_next_param_byte_offset(EmptyHeader) = 0
<1>1. 0 \in Values(FieldBits) /\ 1 \in {0, 1} /\ 0 \in Nat
  <2>1. Pow2[FieldBits] \in Nat \ {0}
    BY PowerPositive, WidthsAssumption
  <2>2. QED
    BY <2>1 DEF Values
<1>2. PICK w : w = ParamHeader(0, 0, 1, 0)
  OBVIOUS
<1>3. w \in Nat /\ is_last_param_block(w) /\ get_next_param_byte_offset(w) = 8 * 0
  <2>1. Decoded(w, 0, 0, 1, 0)
    BY <1>1, <1>2, ParamHeaderRead
  <2>2. QED
    BY <2>1 DEF Decoded
<1>4. QED
  BY <1>2, <1>3 DEF EmptyHeader

\* The blocks of an interface.
LEMMA ParamsLayout ==
    ASSUME NEW i \in Interfaces
    PROVE  /\ ParamWords(i) \in Seq(Nat)
           /\ BlockOffset(i, 1) = 0
           /\ \A j \in 1..Len(i.blocks) :
                 /\ Holds(ParamWords(i), BlockOffset(i, j), BlockWords(i, j))
                 /\ BlockOffset(i, j + 1) = BlockOffset(i, j) + 1 + Len(i.blocks[j].data)
           /\ i.nullEnd =>
                 Holds(ParamWords(i), BlockOffset(i, Len(i.blocks) + 1), <<EmptyHeader>>)
<1>1. PICK n \in Nat : n = Len(i.blocks)
  BY InterfaceFields
<1>2. PICK s : s = [j \in 1..n |-> BlockWords(i, j)]
  OBVIOUS
<1>3. s \in [1..n -> Seq(Nat)]
  BY <1>1, <1>2, BlockLayout DEF IsBlock
<1>4. \A k \in Nat : k <= n => BlockOffset(i, k + 1) = Len(FlattenSeq(First(s, k)))
  <2>1. SUFFICES ASSUME NEW k \in Nat, k <= n
                 PROVE  [m \in 1..((k + 1) - 1) |-> BlockWords(i, m)] = First(s, k)
    BY DEF BlockOffset
  <2>2. (k + 1) - 1 = k /\ \A m \in 1..k : m \in 1..n
    BY <2>1
  <2>3. QED
    BY <1>2, <2>2 DEF First
<1>5. BlockOffset(i, 1) = 0
  <2>1. 0 \in Nat /\ 0 <= n /\ 0 + 1 = 1
    OBVIOUS
  <2>2. BlockOffset(i, 1) = Len(FlattenSeq(First(s, 0)))
    BY <1>4, <2>1
  <2>3. QED
    BY <2>2, FlatZero
<1>6. PICK e : e = IF i.nullEnd THEN <<EmptyHeader>> ELSE <<>>
  OBVIOUS
<1>7. e \in Seq(Nat)
  BY <1>6, EmptyHeaderType
<1>8. PICK f : f = FlattenSeq(s)
  OBVIOUS
<1>9. ParamWords(i) = f \o e
  BY <1>1, <1>2, <1>6, <1>8 DEF ParamWords, EmptyHeader
<1>10. First(s, n) = s
  BY <1>3 DEF First
<1>11. f \in Seq(Nat) /\ BlockOffset(i, n + 1) = Len(f)
  <2>1. f \in Seq(Nat)
    BY <1>3, <1>8, <1>10, FlatType
  <2>2. QED
    BY <1>4, <1>8, <1>10, <2>1
<1>12. ParamWords(i) \in Seq(Nat)
  BY <1>7, <1>9, <1>11
<1>13. Holds(ParamWords(i), 0, f) /\ Holds(ParamWords(i), Len(f), e)
  BY <1>7, <1>9, <1>11, HoldsParts
<1>14. ASSUME NEW j \in 1..Len(i.blocks)
       PROVE  /\ Holds(ParamWords(i), BlockOffset(i, j), BlockWords(i, j))
              /\ BlockOffset(i, j + 1) = BlockOffset(i, j) + 1 + Len(i.blocks[j].data)
  <2>1. PICK k \in Nat : k < n /\ j = k + 1 /\ k + 1 <= n /\ k <= n /\ k + 1 \in Nat
    BY <1>1
  <2>2. /\ Holds(f, Len(FlattenSeq(First(s, k))), s[k + 1])
        /\ Len(FlattenSeq(First(s, k + 1))) = Len(FlattenSeq(First(s, k))) + Len(s[k + 1])
        /\ Len(FlattenSeq(First(s, k))) \in Nat
    <3>1. k < n
      BY <2>1
    <3>2. FlatPart(s, k)
      BY <1>3, <3>1, FlatAt
    <3>3. QED
      BY <1>8, <3>2 DEF FlatPart
  <2>3. BlockOffset(i, k + 1) = Len(FlattenSeq(First(s, k)))
    BY <1>4, <2>1
  <2>4. BlockOffset(i, (k + 1) + 1) = Len(FlattenSeq(First(s, k + 1)))
    BY <1>4, <2>1
  <2>5. s[k + 1] = BlockWords(i, j) /\ BlockWords(i, j) \in Seq(Nat)
        /\ Len(BlockWords(i, j)) = 1 + Len(i.blocks[j].data) /\ Len(i.blocks[j].data) \in Nat
    BY <1>1, <1>2, <2>1, BlockLayout, InterfaceFields DEF IsBlock
  <2>6. PICK o \in Nat : o = BlockOffset(i, j)
    BY <2>1, <2>2, <2>3
  <2>7. Holds(f, o, BlockWords(i, j))
    BY <2>1, <2>2, <2>3, <2>5, <2>6
  <2>8. Holds(ParamWords(i), 0 + o, BlockWords(i, j))
    <3>1. Len(BlockWords(i, j)) \in Nat
      BY <2>5
    <3>2. QED
      BY <1>13, <2>7, <3>1, HoldsInside
  <2>9. 0 + o = o
    OBVIOUS
  <2>10. BlockOffset(i, j + 1) = o + 1 + Len(i.blocks[j].data)
    <3>1. PICK d \in Nat : d = Len(i.blocks[j].data)
      BY <2>5
    <3>2. BlockOffset(i, j + 1) = o + (1 + d)
      BY <2>1, <2>2, <2>3, <2>4, <2>5, <2>6, <3>1
    <3>3. o + (1 + d) = o + 1 + d
      OBVIOUS
    <3>4. QED
      BY <3>1, <3>2, <3>3, Zenon
  <2>11. QED
    BY <2>6, <2>8, <2>9, <2>10
<1>15. i.nullEnd => Holds(ParamWords(i), BlockOffset(i, Len(i.blocks) + 1), <<EmptyHeader>>)
  BY <1>1, <1>6, <1>11, <1>13
<1>16. QED
  BY <1>5, <1>12, <1>14, <1>15

ParamsOf(i) == IF i.hasParams THEN ParamWords(i) ELSE <<>>

GroupWord(i) ==
    i.instance + i.group * Pow2[FieldBits]
        + (IF i.hasParams THEN Pow2[2 * FieldBits - 1] ELSE 0)

StartWord(i, eol) ==
    IF eol THEN Pow2[FieldBits + NextBits + 1]
    ELSE (8 * (5 + Len(ParamsOf(i)))) * Pow2[FieldBits]

\* An interface is five words and its blocks.
LEMMA InterfaceLayout ==
    ASSUME NEW i \in Interfaces, NEW eol \in BOOLEAN, NEW x, x = InterfaceWords(i, eol)
    PROVE  /\ x \in Seq(Nat) /\ Len(x) = 5 + Len(ParamsOf(i)) /\ Len(ParamsOf(i)) \in Nat
           /\ x[1] = StartWord(i, eol) /\ x[2] = i.guid[2] /\ x[3] = i.guid[1]
           /\ x[4] = i.csr + (IF i.absolute THEN 1 ELSE 0) /\ x[5] = GroupWord(i)
           /\ Holds(x, 5, ParamsOf(i))
<1>1. PICK p : p = ParamsOf(i)
  OBVIOUS
<1>2. p \in Seq(Nat) /\ Len(p) \in Nat
  BY <1>1, ParamsLayout DEF ParamsOf
<1>3. PICK a, b, c, d, g : /\ a = StartWord(i, eol) /\ b = i.guid[2] /\ c = i.guid[1]
                           /\ d = i.csr + (IF i.absolute THEN 1 ELSE 0) /\ g = GroupWord(i)
  OBVIOUS
<1>4. a \in Nat
  <2>1. PICK P, Q \in Nat : P = Pow2[FieldBits] /\ Q = Pow2[FieldBits + NextBits + 1]
    BY PowerPositive, WidthsAssumption
  <2>2. (8 * (5 + Len(p))) * P \in Nat
    BY <1>2
  <2>3. QED
    BY <1>1, <1>3, <2>1, <2>2 DEF StartWord
<1>5. b \in Nat /\ c \in Nat /\ d \in Nat /\ g \in Nat
  <2>1. g \in Nat
    BY <1>3, InterfaceFields, GroupRead DEF GroupWord
  <2>2. QED
    BY <1>3, <2>1, InterfaceFields
<1>6. PICK y : y = <<a, b, c, d, g>>
  OBVIOUS
<1>7. /\ y \in Seq(Nat) /\ Len(y) = 5
      /\ y[1] = a /\ y[2] = b /\ y[3] = c /\ y[4] = d /\ y[5] = g
  BY <1>4, <1>5, <1>6
<1>8. x = y \o p
  BY <1>1, <1>3, <1>6 DEF InterfaceWords, StartWord, GroupWord, ParamsOf
<1>9. /\ x \in Seq(Nat) /\ Len(x) = Len(y) + Len(p)
      /\ \A m \in 1..Len(y) : x[m] = y[m]
  <2>1. y \in Seq(Nat) /\ p \in Seq(Nat)
    BY <1>2, <1>7
  <2>2. QED
    BY <1>8, <2>1, Joined
<1>10. Holds(x, 5, p)
  BY <1>2, <1>7, <1>8, HoldsParts
<1>11. x[1] = a /\ x[2] = b /\ x[3] = c /\ x[4] = d /\ x[5] = g
  BY <1>7, <1>9
<1>12. QED
  BY <1>1, <1>2, <1>3, <1>7, <1>9, <1>10, <1>11

\* Where interface k of a list begins, in words.
HeaderOffset(l, k) == Len(FlattenSeq([j \in 1..(k - 1) |-> InterfaceWords(l[j], FALSE)]))

\* The interfaces of a list.
LEMMA ListLayout ==
    ASSUME NEW l \in Lists, NEW k \in 1..Len(l)
    PROVE  /\ HeaderOffset(l, k) \in Nat /\ HeaderOffset(l, 1) = 0
           /\ Holds(Image(l), HeaderOffset(l, k), InterfaceWords(l[k], k = Len(l)))
           /\ k < Len(l) =>
                HeaderOffset(l, k + 1) = HeaderOffset(l, k) + Len(InterfaceWords(l[k], FALSE))
<1>1. l \in Seq(Interfaces)
  BY ListsAssumption
<1>2. PICK n \in Nat : n = Len(l) /\ \A j \in 1..n : l[j] \in Interfaces
  BY <1>1
<1>3. PICK s : s = [i \in 1..n |-> InterfaceWords(l[i], i = n)]
  OBVIOUS
<1>4. s \in [1..n -> Seq(Nat)]
  <2>1. \A i \in 1..n : (i = n) \in BOOLEAN /\ InterfaceWords(l[i], i = n) \in Seq(Nat)
    BY <1>2, InterfaceLayout
  <2>2. QED
    BY <1>3, <2>1
<1>5. Image(l) = FlattenSeq(s)
  BY <1>2, <1>3 DEF Image
<1>6. \A m \in Nat : m < n => HeaderOffset(l, m + 1) = Len(FlattenSeq(First(s, m)))
  <2>1. SUFFICES ASSUME NEW m \in Nat, m < n
                 PROVE  [j \in 1..((m + 1) - 1) |-> InterfaceWords(l[j], FALSE)] = First(s, m)
    BY DEF HeaderOffset
  <2>2. (m + 1) - 1 = m /\ \A j \in 1..m : j \in 1..n /\ (j = n) = FALSE
    BY <2>1
  <2>3. \A j \in 1..m : InterfaceWords(l[j], FALSE) = s[j]
    BY <1>3, <2>2
  <2>4. QED
    BY <2>2, <2>3 DEF First
<1>7. PICK m \in Nat : k = m + 1 /\ m < n /\ 0 < n
  BY <1>2
<1>8. /\ Holds(FlattenSeq(s), Len(FlattenSeq(First(s, m))), s[m + 1])
      /\ Len(FlattenSeq(First(s, m + 1))) = Len(FlattenSeq(First(s, m))) + Len(s[m + 1])
      /\ Len(FlattenSeq(First(s, m))) \in Nat
  <2>1. m < n
    BY <1>7
  <2>2. FlatPart(s, m)
    BY <1>4, <2>1, FlatAt
  <2>3. QED
    BY <2>2 DEF FlatPart
<1>9. HeaderOffset(l, k) = Len(FlattenSeq(First(s, m)))
  BY <1>6, <1>7
<1>10. s[m + 1] = InterfaceWords(l[k], k = n)
  BY <1>2, <1>3, <1>7
<1>11. HeaderOffset(l, 1) = 0
  <2>1. 0 \in Nat /\ 0 + 1 = 1
    OBVIOUS
  <2>2. HeaderOffset(l, 1) = Len(FlattenSeq(First(s, 0)))
    BY <1>6, <1>7, <2>1
  <2>3. QED
    BY <2>2, FlatZero
<1>12. ASSUME k < n
       PROVE  HeaderOffset(l, k + 1) = HeaderOffset(l, k) + Len(InterfaceWords(l[k], FALSE))
  <2>1. m + 1 \in Nat /\ m + 1 < n /\ (k = n) = FALSE
    BY <1>7, <1>12
  <2>2. HeaderOffset(l, (m + 1) + 1) = Len(FlattenSeq(First(s, m + 1)))
    BY <1>6, <2>1
  <2>3. s[m + 1] = InterfaceWords(l[k], FALSE)
    BY <1>10, <2>1
  <2>4. QED
    BY <1>7, <1>8, <1>9, <2>2, <2>3
<1>13. QED
  BY <1>2, <1>5, <1>8, <1>9, <1>10, <1>11, <1>12

-----------------------------------------------------------------------------
(***************************************************************************)
(* What the getters find in a ROM that holds a list                        *)
(***************************************************************************)
\* A word of the ROM is read at eight times its position.
LEMMA ReadHeld ==
    ASSUME NEW o, NEW x, Holds(rom, o, x), Len(x) \in Nat, NEW j \in 1..Len(x)
    PROVE  Read(8 * o + 8 * (j - 1)) = x[j]
<1>1. o \in Nat /\ Len(rom) \in Nat /\ o + Len(x) <= Len(rom)
  BY DEF Holds
<1>2. PICK a \in Nat : a = 8 * o + 8 * (j - 1)
  BY <1>1
<1>3. a \div 8 = o + (j - 1)
  BY <1>1, <1>2
<1>4. a \div 8 < Len(rom) /\ (a \div 8) + 1 = o + j
  BY <1>1, <1>3
<1>5. rom[o + j] = x[j]
  BY DEF Holds
<1>6. Read(a) = x[j]
  BY <1>4, <1>5 DEF Read
<1>7. QED
  BY <1>2, <1>6

Laid == list \in Lists /\ rom = Image(list)

\* The interfaces of the list that the ROM holds.
LEMMA LaidList ==
    ASSUME Laid
    PROVE  /\ Len(list) \in Nat \ {0}
           /\ \A k \in 1..Len(list) : list[k] \in Interfaces
<1>1. list \in Seq(Interfaces) /\ list # <<>>
  BY ListsAssumption DEF Laid
<1>2. QED
  BY <1>1

\* The address that the list gives interface k.
BaseOf(k) ==
    IF list[k].absolute THEN list[k].csr ELSE (HeaderAddress(k) + list[k].csr) % AddrMod

HeaderRight(k, a, i) ==
    /\ a \in Nat
    /\ is_eol(Read(a)) <=> k = Len(list)
    /\ k < Len(list) => get_next_dfh_addr(Read(a), a) = HeaderAddress(k + 1)
    /\ <<Read(a + 16), Read(a + 8)>> = i.guid
    /\ get_base_address(a, Read(a + 24)) = BaseOf(k)
    /\ get_instance_id(Read(a + 32)) = i.instance
    /\ get_group_id(Read(a + 32)) = i.group
    /\ has_params(Read(a + 32)) <=> i.hasParams

\* A header is read as the list describes it.
LEMMA HeaderReads ==
    ASSUME Laid, NEW k \in 1..Len(list)
    PROVE  HeaderRight(k, HeaderAddress(k), list[k])
<1>1. list[k] \in Interfaces /\ Len(list) \in Nat
  BY LaidList
<1>2. PICK i : i = list[k]
  OBVIOUS
<1>3. PICK eol \in BOOLEAN : eol = (k = Len(list))
  OBVIOUS
<1>4. PICK x : x = InterfaceWords(i, eol)
  OBVIOUS
<1>5. PICK o \in Nat : o = HeaderOffset(list, k)
  BY ListLayout DEF Laid
<1>6. Holds(rom, o, x)
  BY <1>2, <1>3, <1>4, <1>5, ListLayout DEF Laid
<1>7. /\ Len(x) = 5 + Len(ParamsOf(i)) /\ Len(ParamsOf(i)) \in Nat
      /\ x[1] = StartWord(i, eol) /\ x[2] = i.guid[2] /\ x[3] = i.guid[1]
      /\ x[4] = i.csr + (IF i.absolute THEN 1 ELSE 0) /\ x[5] = GroupWord(i)
  BY <1>1, <1>2, <1>4, InterfaceLayout
<1>8. PICK a \in Nat : a = HeaderAddress(k) /\ a = 8 * o
  <2>1. HeaderAddress(k) = 8 * o
    BY <1>5 DEF HeaderAddress, HeaderOffset
  <2>2. QED
    BY <2>1
<1>9. /\ Read(a) = x[1] /\ Read(a + 8) = x[2] /\ Read(a + 16) = x[3]
      /\ Read(a + 24) = x[4] /\ Read(a + 32) = x[5]
  <2>1. Len(x) \in Nat /\ \A j \in 1..5 : j \in 1..Len(x)
    BY <1>7
  <2>2. \A j \in 1..5 : Read(8 * o + 8 * (j - 1)) = x[j]
    BY <1>6, <2>1, ReadHeld
  <2>3. /\ a = 8 * o + 8 * (1 - 1) /\ a + 8 = 8 * o + 8 * (2 - 1)
        /\ a + 16 = 8 * o + 8 * (3 - 1) /\ a + 24 = 8 * o + 8 * (4 - 1)
        /\ a + 32 = 8 * o + 8 * (5 - 1)
    BY <1>8
  <2>4. 1 \in 1..5 /\ 2 \in 1..5 /\ 3 \in 1..5 /\ 4 \in 1..5 /\ 5 \in 1..5
    OBVIOUS
  <2>5. QED
    BY <2>2, <2>3, <2>4
<1>10. /\ is_eol(Read(a)) <=> k = Len(list)
       /\ k < Len(list) => get_next_dfh_addr(Read(a), a) = HeaderAddress(k + 1)
  <2>1. CASE k = Len(list)
    <3>1. Read(a) = Pow2[FieldBits + NextBits + 1]
      BY <1>3, <1>7, <1>9, <2>1 DEF StartWord
    <3>2. 0 \in Nat /\ 0 < Pow2[NextBits]
      BY PowerPositive, WidthsAssumption
    <3>3. is_eol(Read(a))
      BY <3>1, <3>2, StartRead
    <3>4. QED
      BY <1>1, <2>1, <3>3
  <2>2. CASE k # Len(list)
    <3>1. PICK y : y = InterfaceWords(i, FALSE)
      OBVIOUS
    <3>2. PICK next \in Nat : next = 8 * (5 + Len(ParamsOf(i)))
      BY <1>7
    <3>3. Len(y) = 5 + Len(ParamsOf(i))
      BY <1>1, <1>2, <3>1, InterfaceLayout
    <3>4. k \in 1..(Len(list) - 1) /\ k < Len(list)
      BY <1>1, <2>2
    <3>5. next < Pow2[NextBits]
      <4>1. 8 * Len(InterfaceWords(list[k], FALSE)) < Pow2[NextBits]
        BY <3>4, ListsAssumption DEF Laid
      <4>2. QED
        BY <1>2, <3>1, <3>2, <3>3, <4>1
    <3>6. Read(a) = next * Pow2[FieldBits]
      BY <1>3, <1>7, <1>9, <2>2, <3>2 DEF StartWord
    <3>7. ~is_eol(Read(a)) /\ get_next_dfh_addr(Read(a), a) = a + next
      BY <3>5, <3>6, StartRead
    <3>8. HeaderOffset(list, k + 1) = o + Len(y)
      BY <1>2, <1>5, <3>1, <3>4, ListLayout DEF Laid
    <3>9. HeaderAddress(k + 1) = 8 * (o + Len(y))
      BY <3>8 DEF HeaderAddress, HeaderOffset
    <3>10. 8 * (o + Len(y)) = a + next
      BY <1>7, <1>8, <3>2, <3>3
    <3>11. QED
      BY <2>2, <3>7, <3>9, <3>10
  <2>3. QED
    BY <2>1, <2>2
<1>11. <<Read(a + 16), Read(a + 8)>> = i.guid
  <2>1. i.guid = <<i.guid[1], i.guid[2]>>
    BY <1>1, <1>2, InterfaceFields
  <2>2. QED
    BY <1>7, <1>9, <2>1
<1>12. get_base_address(a, Read(a + 24)) = BaseOf(k)
  <2>1. i.csr \in Nat /\ i.csr % 2 = 0 /\ i.absolute \in BOOLEAN
    BY <1>1, <1>2, InterfaceFields
  <2>2. CASE i.absolute
    <3>1. Read(a + 24) = i.csr + 1
      BY <1>7, <1>9, <2>2
    <3>2. (i.csr + 1) % 2 = 1 /\ (i.csr + 1) - 1 = i.csr
      BY <2>1
    <3>3. QED
      BY <1>2, <2>2, <3>1, <3>2 DEF get_base_address, BaseOf
  <2>3. CASE ~i.absolute
    <3>1. Read(a + 24) = i.csr
      BY <1>7, <1>9, <2>1, <2>3
    <3>2. QED
      BY <1>2, <1>8, <2>1, <2>3, <3>1 DEF get_base_address, BaseOf
  <2>4. QED
    BY <2>2, <2>3
<1>13. /\ get_instance_id(Read(a + 32)) = i.instance /\ get_group_id(Read(a + 32)) = i.group
       /\ has_params(Read(a + 32)) <=> i.hasParams
  <2>1. /\ i.instance \in Values(FieldBits) /\ i.group \in Values(FieldBits - 1)
        /\ i.hasParams \in BOOLEAN
    BY <1>1, <1>2, InterfaceFields
  <2>2. QED
    BY <1>7, <1>9, <2>1, GroupRead DEF GroupWord
<1>14. QED
  BY <1>2, <1>8, <1>10, <1>11, <1>12, <1>13 DEF HeaderRight

\* The address of block j of interface k.
BlockAddress(k, j) == HeaderAddress(k) + 40 + 8 * BlockOffset(list[k], j)

BlockRight(k, j, b) ==
    /\ BlockAddress(k, j) \in Nat
    /\ BlockAddress(k, j + 1) = BlockAddress(k, j) + 8 * (Len(b.data) + 1)
    /\ Read(BlockAddress(k, j)) = BlockHeader(list[k], j)
    /\ \A m \in 1..Len(b.data) : Read(BlockAddress(k, j) + 8 * m) = b.data[m]

\* The words of a part of the parameters.
LEMMA ParamsHeld ==
    ASSUME Laid, NEW k \in 1..Len(list), list[k].hasParams, NEW p, NEW y,
           Holds(ParamWords(list[k]), p, y), Len(y) \in Nat
    PROVE  /\ \A j \in 1..Len(y) : Read(HeaderAddress(k) + 40 + 8 * p + 8 * (j - 1)) = y[j]
           /\ HeaderAddress(k) \in Nat /\ p \in Nat
<1>1. list[k] \in Interfaces
  BY LaidList
<1>2. PICK eol \in BOOLEAN : eol = (k = Len(list))
  OBVIOUS
<1>3. PICK x : x = InterfaceWords(list[k], eol)
  OBVIOUS
<1>4. PICK o \in Nat : o = HeaderOffset(list, k)
  BY ListLayout DEF Laid
<1>5. Holds(rom, o, x)
  BY <1>2, <1>3, <1>4, ListLayout DEF Laid
<1>6. Holds(x, 5, ParamWords(list[k])) /\ Len(ParamWords(list[k])) \in Nat
  BY <1>1, <1>3, InterfaceLayout DEF ParamsOf
<1>7. Holds(rom, o + 5, ParamWords(list[k]))
  BY <1>5, <1>6, HoldsInside
<1>8. Holds(rom, (o + 5) + p, y)
  BY <1>7, HoldsInside
<1>9. HeaderAddress(k) = 8 * o
  BY <1>4 DEF HeaderAddress, HeaderOffset
<1>10. p \in Nat
  BY DEF Holds
<1>11. ASSUME NEW j \in 1..Len(y)
       PROVE  Read(HeaderAddress(k) + 40 + 8 * p + 8 * (j - 1)) = y[j]
  <2>1. Read(8 * ((o + 5) + p) + 8 * (j - 1)) = y[j]
    BY <1>8, ReadHeld
  <2>2. 8 * ((o + 5) + p) + 8 * (j - 1) = 8 * o + 40 + 8 * p + 8 * (j - 1)
    BY <1>10
  <2>3. QED
    BY <1>9, <2>1, <2>2
<1>12. QED
  BY <1>9, <1>10, <1>11

\* A block is read as the list describes it,
LEMMA BlockReads ==
    ASSUME Laid, NEW k \in 1..Len(list), list[k].hasParams, NEW j \in 1..Len(list[k].blocks)
    PROVE  BlockRight(k, j, list[k].blocks[j])
<1>1. list[k] \in Interfaces
  BY LaidList
<1>2. PICK i : i = list[k]
  OBVIOUS
<1>3. PICK L \in Nat : L = Len(i.blocks[j].data)
  BY <1>1, <1>2, InterfaceFields
<1>4. PICK x : x = BlockWords(i, j)
  OBVIOUS
<1>5. /\ Len(x) = 1 + L /\ x[1] = BlockHeader(i, j)
      /\ \A m \in 1..L : x[1 + m] = i.blocks[j].data[m]
  <2>1. i \in Interfaces /\ j \in 1..Len(i.blocks)
    BY <1>1, <1>2
  <2>2. IsBlock(x, BlockHeader(i, j), i.blocks[j].data)
    BY <1>4, <2>1, BlockLayout
  <2>3. QED
    BY <1>3, <2>2 DEF IsBlock
<1>6. PICK p : p = BlockOffset(i, j)
  OBVIOUS
<1>7. Holds(ParamWords(i), p, x) /\ BlockOffset(i, j + 1) = p + 1 + L
  BY <1>1, <1>2, <1>3, <1>4, <1>6, ParamsLayout
<1>8. Len(x) \in Nat
  BY <1>5
<1>9. /\ \A m \in 1..Len(x) : Read(HeaderAddress(k) + 40 + 8 * p + 8 * (m - 1)) = x[m]
      /\ HeaderAddress(k) \in Nat /\ p \in Nat
  BY <1>2, <1>7, <1>8, ParamsHeld
<1>10. PICK c \in Nat : c = BlockAddress(k, j) /\ c = HeaderAddress(k) + 40 + 8 * p
  BY <1>2, <1>6, <1>9 DEF BlockAddress
<1>11. Read(c) = BlockHeader(i, j)
  <2>1. 1 \in 1..Len(x) /\ c = c + 8 * (1 - 1)
    BY <1>5
  <2>2. Read(c + 8 * (1 - 1)) = x[1]
    BY <1>9, <1>10, <2>1
  <2>3. QED
    BY <1>5, <2>1, <2>2
<1>12. ASSUME NEW m \in 1..L PROVE Read(c + 8 * m) = i.blocks[j].data[m]
  <2>1. 1 + m \in 1..Len(x) /\ c + 8 * m = c + 8 * ((1 + m) - 1)
    BY <1>5
  <2>2. Read(c + 8 * ((1 + m) - 1)) = x[1 + m]
    BY <1>9, <1>10, <2>1
  <2>3. QED
    BY <1>5, <2>1, <2>2
<1>13. BlockAddress(k, j + 1) = c + 8 * (L + 1)
  <2>1. BlockAddress(k, j + 1) = HeaderAddress(k) + 40 + 8 * (p + 1 + L)
    BY <1>2, <1>7 DEF BlockAddress
  <2>2. PICK h \in Nat : h = HeaderAddress(k)
    BY <1>9
  <2>3. h + 40 + 8 * (p + 1 + L) = c + 8 * (L + 1)
    BY <1>9, <1>10, <2>2
  <2>4. QED
    BY <2>1, <2>2, <2>3
<1>14. QED
  BY <1>2, <1>3, <1>10, <1>11, <1>12, <1>13 DEF BlockRight

\* and so is the empty block behind the last one.
LEMMA EndReads ==
    ASSUME Laid, NEW k \in 1..Len(list), list[k].hasParams, list[k].nullEnd
    PROVE  Read(BlockAddress(k, Len(list[k].blocks) + 1)) = EmptyHeader
<1>1. list[k] \in Interfaces
  BY LaidList
<1>2. PICK p : p = BlockOffset(list[k], Len(list[k].blocks) + 1)
  OBVIOUS
<1>3. PICK y : y = <<EmptyHeader>>
  OBVIOUS
<1>4. Holds(ParamWords(list[k]), p, y) /\ Len(y) \in Nat /\ Len(y) = 1 /\ y[1] = EmptyHeader
  BY <1>1, <1>2, <1>3, ParamsLayout
<1>5. /\ \A j \in 1..Len(y) : Read(HeaderAddress(k) + 40 + 8 * p + 8 * (j - 1)) = y[j]
      /\ HeaderAddress(k) \in Nat /\ p \in Nat
  BY <1>4, ParamsHeld
<1>6. PICK c \in Nat : c = HeaderAddress(k) + 40 + 8 * p
  BY <1>5
<1>7. Read(c + 8 * (1 - 1)) = EmptyHeader /\ c + 8 * (1 - 1) = c
  BY <1>4, <1>5, <1>6
<1>8. QED
  BY <1>2, <1>6, <1>7 DEF BlockAddress

\* The first block is behind the header.
LEMMA FirstBlock ==
    ASSUME Laid, NEW k \in 1..Len(list)
    PROVE  BlockAddress(k, 1) = HeaderAddress(k) + 40
<1>1. BlockOffset(list[k], 1) = 0
  BY LaidList, ParamsLayout
<1>2. HeaderAddress(k) \in Nat
  BY HeaderReads DEF HeaderRight
<1>3. QED
  BY <1>1, <1>2 DEF BlockAddress

\* The first header is at address 0.
LEMMA FirstHeader ==
    ASSUME Laid
    PROVE  HeaderAddress(1) = 0
<1>1. 1 \in 1..Len(list)
  BY LaidList
<1>2. HeaderOffset(list, 1) = 0
  BY <1>1, ListLayout DEF Laid
<1>3. QED
  BY <1>2 DEF HeaderAddress, HeaderOffset

SlotOf(b) ==
    [id |-> b.id, version |-> b.version, has |-> TRUE, size |-> 8 * Len(b.data), data |-> b.data]

\* What an iteration of the loop finds at a block.
BlockFound(w, i, j) ==
    /\ is_last_param_block(w) <=> IsLast(i, j)
    /\ ~EmptyBlock(w)
    /\ Slot(w) = SlotOf(i.blocks[j])
    /\ ~IsLast(i, j) => get_next_param_byte_offset(w) = 8 * (Len(i.blocks[j].data) + 1)

\* The slot that is filled is the one that the list describes.
LEMMA BlockIsFound ==
    ASSUME Laid, NEW k \in 1..Len(list), list[k].hasParams, NEW j \in 1..Len(list[k].blocks),
           cur = BlockAddress(k, j)
    PROVE  BlockFound(Read(cur), list[k], j)
<1>1. list[k] \in Interfaces
  BY LaidList
<1>2. PICK i : i = list[k]
  OBVIOUS
<1>3. PICK b : b = i.blocks[j]
  OBVIOUS
<1>4. /\ b.id \in Values(FieldBits) /\ b.version \in Values(FieldBits)
      /\ b.data \in Seq(Nat) /\ Len(b.data) \in Nat
  BY <1>1, <1>2, <1>3, InterfaceFields
<1>5. PICK L \in Nat : L = Len(b.data)
  BY <1>4
<1>6. PICK w : w = Read(cur)
  OBVIOUS
<1>7. BlockRight(k, j, b)
  BY <1>2, <1>3, BlockReads
<1>8. w = BlockHeader(i, j) /\ \A m \in 1..L : Read(cur + 8 * m) = b.data[m]
  BY <1>2, <1>5, <1>6, <1>7 DEF BlockRight
<1>9. PICK last \in {0, 1}, next \in Nat :
          /\ last = IF IsLast(i, j) THEN 1 ELSE 0
          /\ next = IF IsLast(i, j) THEN L ELSE L + 1
  OBVIOUS
<1>10. PICK x, v \in Values(FieldBits) : x = b.id /\ v = b.version
  BY <1>4
<1>11. w = ParamHeader(x, v, last, next)
  BY <1>3, <1>5, <1>8, <1>9, <1>10 DEF BlockHeader
<1>12. /\ is_last_param_block(w) <=> last = 1
       /\ get_next_param_byte_offset(w) = 8 * next
       /\ get_param_block_version(w) = v
       /\ get_param_block_param_id(w) = x
  <2>1. Decoded(w, x, v, last, next)
    BY <1>11, ParamHeaderRead
  <2>2. QED
    BY <2>1 DEF Decoded
<1>13. is_last_param_block(w) <=> IsLast(i, j)
  BY <1>9, <1>12
<1>14. ~EmptyBlock(w)
  <2>1. SUFFICES ASSUME IsLast(i, j) PROVE 8 * next # 0
    BY <1>12, <1>13 DEF EmptyBlock
  <2>2. i.blocks[Len(i.blocks)].data # <<>>
    BY <1>1, <1>2, <2>1 DEF Interfaces, IsLast
  <2>3. b.data # <<>>
    BY <1>3, <2>1, <2>2 DEF IsLast
  <2>4. L # 0
    BY <1>4, <1>5, <2>3
  <2>5. QED
    BY <1>9, <2>1, <2>4
<1>15. DataSize(w) = 8 * L
  <2>1. CASE IsLast(i, j)
    BY <1>9, <1>12, <1>13, <2>1 DEF DataSize
  <2>2. CASE ~IsLast(i, j)
    <3>1. next = L + 1
      BY <1>9, <2>2
    <3>2. DataSize(w) = 8 * next - 8
      BY <1>12, <1>13, <2>2 DEF DataSize
    <3>3. QED
      BY <3>1, <3>2
  <2>3. QED
    BY <2>1, <2>2
<1>16. Slot(w) = SlotOf(b)
  <2>1. (8 * L) \div 8 = L
    OBVIOUS
  <2>2. b.data = [m \in 1..L |-> b.data[m]]
    BY <1>4, <1>5
  <2>3. [m \in 1..(DataSize(w) \div 8) |-> Read(cur + 8 * m)] = b.data
    BY <1>8, <1>15, <2>1, <2>2
  <2>4. QED
    BY <1>5, <1>10, <1>12, <1>15, <2>3 DEF Slot, SlotOf
<1>17. ~IsLast(i, j) => get_next_param_byte_offset(w) = 8 * (L + 1)
  BY <1>9, <1>12
<1>18. QED
  BY <1>2, <1>3, <1>5, <1>6, <1>13, <1>14, <1>16, <1>17 DEF BlockFound

-----------------------------------------------------------------------------
(***************************************************************************)
(* The entries during a scan                                               *)
(***************************************************************************)
SlotsOf(bs, n) == [j \in 1..n |-> SlotOf(bs[j])]

\* The entry of interface k with these parameters.
EntryOf(k, slots, num, ptr) ==
    [guid |-> list[k].guid, instance |-> list[k].instance, group |-> list[k].group,
     base |-> BaseOf(k), ptr |-> ptr, num |-> num, slots |-> slots]

Whole(k) == Described(k, HeaderAddress(k))

\* The entry with the blocks before block j, and room for that one.
Partial(k, j) ==
    IF j = 1 THEN EntryOf(k, <<>>, 0, FALSE)
    ELSE EntryOf(k, Append(SlotsOf(list[k].blocks, j - 1), ZeroSlot), j, TRUE)

\* The walk is at block j of interface k, or at the empty one behind the last.
AtBlock(k, j) ==
    /\ list[k].hasParams
    /\ j \in 1..Len(list[k].blocks) \/ (j = Len(list[k].blocks) + 1 /\ list[k].nullEnd)
    /\ cur = BlockAddress(k, j)
    /\ vec[k] = Partial(k, j)

\* The walk has collected the interfaces before idx.
CollectOK ==
    /\ count = Len(list) /\ idx \in 1..Len(list) /\ dfh = HeaderAddress(idx)
    /\ IsList(vec, Len(list))
    /\ \A k \in 1..(idx - 1) : vec[k] = Whole(k)
    /\ \A k \in (idx + 1)..Len(list) : vec[k] = ZeroEntry
    /\ phase = "entry" => vec[idx] = ZeroEntry
    /\ phase = "params" => AtBlock(idx, blk)
    /\ phase = "next" => vec[idx] = Whole(idx)

MatchOK ==
    /\ phase # "idle" => Laid
    /\ phase = "idle" => vec = <<>> \/ vec = [k \in 1..Len(list) |-> Whole(k)]
    /\ phase = "count" => count < Len(list) /\ dfh = HeaderAddress(count + 1)
    /\ phase = "resize" => count = Len(list) /\ dfh = 0
    /\ Walking => CollectOK

MInv == IInv /\ (Live => MatchOK)

\* What the list says of an interface stays as the list does.
LEMMA SameList ==
    ASSUME list' = list
    PROVE  /\ \A k : HeaderAddress(k)' = HeaderAddress(k) /\ Whole(k)' = Whole(k)
           /\ \A k, j : BlockAddress(k, j)' = BlockAddress(k, j) /\ Partial(k, j)' = Partial(k, j)
<1>1. \A k : HeaderAddress(k)' = HeaderAddress(k)
  BY DEF HeaderAddress
<1>2. \A k : Whole(k)' = Whole(k)
  BY DEF Whole, Described, HeaderAddress
<1>3. \A k, j : BlockAddress(k, j)' = BlockAddress(k, j)
  BY DEF BlockAddress, HeaderAddress
<1>4. \A k, j : Partial(k, j)' = Partial(k, j)
  BY DEF Partial, EntryOf, BaseOf, HeaderAddress
<1>5. QED
  BY <1>1, <1>2, <1>3, <1>4

\* Slots are a sequence.
LEMMA SlotsType ==
    ASSUME NEW bs, NEW n \in Nat, NEW f, f = SlotsOf(bs, n)
    PROVE  \E T : f \in Seq(T) /\ ZeroSlot \in T /\ Len(f) = n
<1> DEFINE T == {SlotOf(bs[j]) : j \in 1..n} \cup {ZeroSlot}
<1>1. f \in [1..n -> T] /\ ZeroSlot \in T
  BY DEF SlotsOf
<1> HIDE DEF T
<1>2. f \in Seq(T) /\ Len(f) = n
  BY <1>1
<1>3. QED
  BY <1>1, <1>2

\* The slots that the list describes for interface k.
DescribedSlots(k, bs) ==
    SlotsOf(bs, Len(bs)) \o (IF bs # <<>> /\ list[k].nullEnd THEN <<ZeroSlot>> ELSE <<>>)

\* Described, in these terms.
LEMMA WholeIs ==
    ASSUME NEW k, NEW bs, bs = IF list[k].hasParams THEN list[k].blocks ELSE <<>>
    PROVE  Whole(k) = EntryOf(k, DescribedSlots(k, bs), Len(DescribedSlots(k, bs)), bs # <<>>)
BY DEF Whole, Described, EntryOf, DescribedSlots, SlotsOf, SlotOf, BaseOf

\* An interface without blocks.
LEMMA WholeWithout ==
    ASSUME Laid, NEW k \in 1..Len(list), ~list[k].hasParams \/ Len(list[k].blocks) = 0
    PROVE  Whole(k) = EntryOf(k, <<>>, 0, FALSE)
<1>1. PICK bs : bs = IF list[k].hasParams THEN list[k].blocks ELSE <<>>
  OBVIOUS
<1>2. bs = <<>> /\ Len(bs) = 0
  <2>1. list[k].blocks \in Seq(Blocks)
    BY LaidList, InterfaceFields
  <2>2. QED
    BY <1>1, <2>1
<1>3. PICK f : f = SlotsOf(bs, 0)
  OBVIOUS
<1>4. f = <<>>
  BY <1>3 DEF SlotsOf
<1>5. DescribedSlots(k, bs) = <<>> \o <<>>
  BY <1>2, <1>3, <1>4 DEF DescribedSlots
<1>6. <<>> \o <<>> = <<>> /\ Len(<<>>) = 0
  OBVIOUS
<1>7. (bs # <<>>) = FALSE
  BY <1>2
<1>8. Whole(k) = EntryOf(k, DescribedSlots(k, bs), Len(DescribedSlots(k, bs)), bs # <<>>)
  BY <1>1, WholeIs
<1>9. QED
  BY <1>5, <1>6, <1>7, <1>8

\* An interface with blocks, and with an empty one behind them or not.
LEMMA WholeWith ==
    ASSUME Laid, NEW k \in 1..Len(list), list[k].hasParams,
           NEW n \in Nat, n = Len(list[k].blocks), n > 0
    PROVE  /\ list[k].nullEnd => Whole(k) = Partial(k, n + 1)
           /\ ~list[k].nullEnd => Whole(k) = EntryOf(k, SlotsOf(list[k].blocks, n), n, TRUE)
<1>1. PICK bs : bs = list[k].blocks
  OBVIOUS
<1>2. bs # <<>> /\ Len(bs) = n
  <2>1. Len(<<>>) = 0
    OBVIOUS
  <2>2. QED
    BY <1>1, <2>1
<1>3. (bs # <<>>) = TRUE
  BY <1>2
<1>4. PICK f : f = SlotsOf(bs, n)
  OBVIOUS
<1>5. PICK T : f \in Seq(T) /\ ZeroSlot \in T /\ Len(f) = n
  BY <1>4, SlotsType
<1>6. Whole(k) = EntryOf(k, DescribedSlots(k, bs), Len(DescribedSlots(k, bs)), bs # <<>>)
  BY <1>1, WholeIs
<1>7. ASSUME list[k].nullEnd PROVE Whole(k) = Partial(k, n + 1)
  <2>1. PICK g : g = Append(f, ZeroSlot)
    OBVIOUS
  <2>2. f \o <<ZeroSlot>> = g /\ Len(g) = n + 1
    BY <1>5, <2>1
  <2>3. DescribedSlots(k, bs) = g
    BY <1>2, <1>4, <1>7, <2>2 DEF DescribedSlots
  <2>4. n + 1 # 1 /\ (n + 1) - 1 = n
    OBVIOUS
  <2>5. Partial(k, n + 1) = EntryOf(k, g, n + 1, TRUE)
    BY <1>1, <1>4, <2>1, <2>4 DEF Partial
  <2>6. QED
    BY <1>3, <1>6, <2>2, <2>3, <2>5
<1>8. ASSUME ~list[k].nullEnd
      PROVE  Whole(k) = EntryOf(k, SlotsOf(list[k].blocks, n), n, TRUE)
  <2>1. f \o <<>> = f
    BY <1>5
  <2>2. DescribedSlots(k, bs) = f
    BY <1>2, <1>4, <1>8, <2>1 DEF DescribedSlots
  <2>3. QED
    BY <1>1, <1>3, <1>4, <1>5, <1>6, <2>2
<1>9. QED
  BY <1>7, <1>8

\* v with entry i replaced by e is w.
Replaced(v, w, i, e) ==
    /\ w = [k \in DOMAIN w |-> w[k]] /\ DOMAIN w = DOMAIN v
    /\ w[i] = e /\ \A k \in DOMAIN v : k # i => w[k] = v[k]

\* Setting the parameters of an entry.
LEMMA EntryGetsParams ==
    ASSUME NEW v, NEW i \in DOMAIN v, NEW a0, NEW b0, NEW c0, v[i] = EntryOf(i, a0, b0, c0),
           NEW a, NEW b, NEW c,
           NEW w, w = [v EXCEPT ![i].slots = a, ![i].num = b, ![i].ptr = c]
    PROVE  Replaced(v, w, i, EntryOf(i, a, b, c))
<1> DEFINE e1 == [v[i] EXCEPT !.slots = a]
           e2 == [e1 EXCEPT !.num = b]
           e3 == [e2 EXCEPT !.ptr = c]
<1>1. w = [v EXCEPT ![i] = e3]
  OBVIOUS
<1>2. e1 = EntryOf(i, a, b0, c0)
  BY DEF EntryOf
<1> HIDE DEF e1
<1>3. e2 = EntryOf(i, a, b, c0)
  BY <1>2 DEF EntryOf
<1> HIDE DEF e2
<1>4. e3 = EntryOf(i, a, b, c)
  BY <1>3 DEF EntryOf
<1> HIDE DEF e3
<1>5. QED
  BY <1>1, <1>4 DEF Replaced

\* Setting the properties of a fresh entry.
LEMMA EntryGetsProperties ==
    ASSUME NEW v, NEW i \in DOMAIN v, v[i] = ZeroEntry,
           NEW w, w = [v EXCEPT ![i].guid = list[i].guid, ![i].base = BaseOf(i),
                                ![i].instance = list[i].instance, ![i].group = list[i].group]
    PROVE  Replaced(v, w, i, EntryOf(i, <<>>, 0, FALSE))
<1>1. PICK g, b, c, d : /\ g = list[i].guid /\ b = BaseOf(i)
                        /\ c = list[i].instance /\ d = list[i].group
  OBVIOUS
<1>2. PICK p, n, s, z, t : p = FALSE /\ n = 0 /\ s = <<>> /\ z = 0 /\ t = <<0, 0>>
  OBVIOUS
<1>3. v[i] = [guid |-> t, base |-> z, instance |-> z, group |-> z,
              ptr |-> p, num |-> n, slots |-> s]
  BY <1>2, Zenon DEF ZeroEntry
<1> DEFINE e1 == [v[i] EXCEPT !.guid = g]
           e2 == [e1 EXCEPT !.base = b]
           e3 == [e2 EXCEPT !.instance = c]
           e4 == [e3 EXCEPT !.group = d]
<1>4. w = [v EXCEPT ![i] = e4]
  BY <1>1
<1>5. e1 = [guid |-> g, base |-> z, instance |-> z, group |-> z,
            ptr |-> p, num |-> n, slots |-> s]
  BY <1>3
<1> HIDE DEF e1
<1>6. e2 = [guid |-> g, base |-> b, instance |-> z, group |-> z,
            ptr |-> p, num |-> n, slots |-> s]
  BY <1>5
<1> HIDE DEF e2
<1>7. e3 = [guid |-> g, base |-> b, instance |-> c, group |-> z,
            ptr |-> p, num |-> n, slots |-> s]
  BY <1>6
<1> HIDE DEF e3
<1>8. e4 = EntryOf(i, s, n, p)
  BY <1>1, <1>7 DEF EntryOf
<1> HIDE DEF e4
<1>9. e4 = EntryOf(i, <<>>, 0, FALSE)
  BY <1>2, <1>8
<1>10. QED
  BY <1>4, <1>9 DEF Replaced

\* A step within an interface keeps what is known of the other entries.
LEMMA WithinInterface ==
    ASSUME Walking, CollectOK, Laid, list' = list, rom' = rom, count' = count, idx' = idx, dfh' = dfh,
           phase' = "params" \/ phase' = "next", NEW e, Replaced(vec, vec', idx, e),
           phase' = "params" => AtBlock(idx, blk)', phase' = "next" => e = Whole(idx)
    PROVE  MatchOK'
<1>1. /\ \A k : HeaderAddress(k)' = HeaderAddress(k) /\ Whole(k)' = Whole(k)
  BY SameList
<1>2. Len(list) \in Nat /\ idx \in 1..Len(list) /\ DOMAIN vec = 1..Len(list)
  BY LaidList DEF CollectOK, IsList
<1>3. DOMAIN vec' = 1..Len(list) /\ vec'[idx] = e /\ \A k \in 1..Len(list) : k # idx => vec'[k] = vec[k]
  BY <1>2 DEF Replaced
<1>4. IsList(vec, Len(list))'
  <2>1. vec' = [k \in 1..Len(list) |-> vec'[k]]
    BY <1>3 DEF Replaced
  <2>2. QED
    BY <2>1 DEF IsList
<1>5. QED
  BY <1>1, <1>2, <1>3, <1>4 DEF MatchOK, CollectOK, Walking, Laid

-----------------------------------------------------------------------------
(***************************************************************************)
(* Every step keeps the match of the entries with the list                 *)
(***************************************************************************)
\* A scan begins.
LEMMA StartScanMatch ==
    ASSUME StartScan
    PROVE  MatchOK'
<1>1. /\ phase' = "count" /\ list' \in Lists /\ rom' = Image(list') /\ count' = 0 /\ dfh' = 0
  BY DEF StartScan
<1>2. Laid'
  BY <1>1 DEF Laid
<1>3. Len(list') \in Nat \ {0} /\ HeaderAddress(1)' = 0
  <2>1. list' \in Seq(Interfaces) /\ list' # <<>>
    BY <1>1, ListsAssumption
  <2>2. Len(list') \in Nat \ {0}
    BY <2>1
  <2>3. HeaderOffset(list', 1) = 0
    <3>1. PICK l \in Lists : l = list'
      BY <1>1
    <3>2. 1 \in 1..Len(l)
      BY <2>2, <3>1
    <3>3. HeaderOffset(l, 1) = 0
      BY <3>2, ListLayout
    <3>4. QED
      BY <3>1, <3>3
  <2>4. QED
    BY <2>2, <2>3 DEF HeaderAddress, HeaderOffset
<1>4. count' < Len(list') /\ dfh' = HeaderAddress(count + 1)'
  <2>1. 0 + 1 = 1
    OBVIOUS
  <2>2. QED
    BY <1>1, <1>3, <2>1
<1>5. QED
  BY <1>1, <1>2, <1>4 DEF MatchOK, Walking

\* A header is counted.
LEMMA CountInterfaceMatch ==
    ASSUME MatchOK, count \in Nat, CountInterface
    PROVE  MatchOK'
<1>1. /\ phase = "count" /\ Laid /\ count < Len(list) /\ dfh = HeaderAddress(count + 1)
      /\ count' = count + 1 /\ list' = list /\ rom' = rom
  BY DEF CountInterface, MatchOK
<1>2. PICK k : k = count + 1
  OBVIOUS
<1>3. Len(list) \in Nat /\ k \in 1..Len(list)
  BY <1>1, <1>2, LaidList
<1>4. HeaderRight(k, dfh, list[k])
  BY <1>1, <1>2, <1>3, HeaderReads
<1>5. Laid' /\ \A m : HeaderAddress(m)' = HeaderAddress(m)
  BY <1>1, SameList DEF Laid
<1>6. CASE is_eol(Read(dfh))
  <2>1. phase' = "resize" /\ dfh' = 0 /\ k = Len(list)
    BY <1>4, <1>6 DEF CountInterface, HeaderRight
  <2>2. QED
    BY <1>1, <1>2, <1>5, <2>1 DEF MatchOK, Walking
<1>7. CASE ~is_eol(Read(dfh))
  <2>1. phase' = "count" /\ dfh' = get_next_dfh_addr(Read(dfh), dfh)
    BY <1>1, <1>7 DEF CountInterface
  <2>2. k < Len(list)
    BY <1>3, <1>4, <1>7 DEF HeaderRight
  <2>3. dfh' = HeaderAddress(k + 1)
    BY <1>4, <2>1, <2>2 DEF HeaderRight
  <2>4. count' = k /\ dfh' = HeaderAddress(count + 1)'
    BY <1>1, <1>2, <1>5, <2>3
  <2>5. QED
    BY <1>1, <1>5, <2>1, <2>2, <2>4 DEF MatchOK, Walking
<1>8. QED
  BY <1>6, <1>7

\* The vector gets its size.
LEMMA SizeVectorMatch ==
    ASSUME LiveOK, MatchOK, SizeVector
    PROVE  MatchOK'
<1>1. phase = "resize"
  BY DEF SizeVector, LiveOK, Walking
<1>2. /\ Laid /\ count = Len(list) /\ dfh = 0
      /\ phase' = "entry" /\ idx' = 1 /\ vec' = [i \in 1..count |-> ZeroEntry]
      /\ list' = list /\ rom' = rom /\ count' = count /\ dfh' = dfh
  BY <1>1 DEF SizeVector, MatchOK
<1>3. Len(list) \in Nat \ {0} /\ HeaderAddress(1) = 0
  BY <1>2, LaidList, FirstHeader
<1>4. Laid' /\ HeaderAddress(1)' = HeaderAddress(1)
  BY <1>2, SameList DEF Laid
<1>5. /\ idx' \in 1..Len(list') /\ dfh' = HeaderAddress(idx)'
      /\ \A k \in 1..(idx' - 1) : FALSE
      /\ \A k \in 1..Len(list') : vec'[k] = ZeroEntry
      /\ \A k \in (idx' + 1)..Len(list') : k \in 1..Len(list')
  BY <1>2, <1>3, <1>4
<1>6. IsList(vec, Len(list))'
  BY <1>2 DEF IsList
<1>7. CollectOK'
  BY <1>2, <1>5, <1>6 DEF CollectOK
<1>8. QED
  BY <1>2, <1>4, <1>7 DEF MatchOK, Walking

\* The properties of an interface are set.
LEMMA SetPropertiesMatch ==
    ASSUME MatchOK, SetProperties
    PROVE  MatchOK'
<1>1. /\ phase = "entry" /\ Walking /\ Laid /\ CollectOK
      /\ list' = list /\ rom' = rom /\ count' = count /\ idx' = idx /\ dfh' = dfh
      /\ cur' = dfh + 40 /\ blk' = 1
      /\ phase' = IF has_params(Read(dfh + 32)) THEN "params" ELSE "next"
  BY DEF SetProperties, MatchOK, Walking
<1>2. idx \in 1..Len(list) /\ dfh = HeaderAddress(idx) /\ vec[idx] = ZeroEntry /\ idx \in DOMAIN vec
  BY <1>1 DEF CollectOK, IsList
<1>3. HeaderRight(idx, dfh, list[idx])
  BY <1>1, <1>2, HeaderReads
<1>4. vec' = [vec EXCEPT ![idx].guid = list[idx].guid, ![idx].base = BaseOf(idx),
                         ![idx].instance = list[idx].instance, ![idx].group = list[idx].group]
  <2>1. /\ <<Read(dfh + 16), Read(dfh + 8)>> = list[idx].guid
        /\ get_base_address(dfh, Read(dfh + 24)) = BaseOf(idx)
        /\ get_instance_id(Read(dfh + 32)) = list[idx].instance
        /\ get_group_id(Read(dfh + 32)) = list[idx].group
    BY <1>3 DEF HeaderRight
  <2>2. vec' = [vec EXCEPT ![idx].guid = <<Read(dfh + 16), Read(dfh + 8)>>,
                           ![idx].base = get_base_address(dfh, Read(dfh + 24)),
                           ![idx].instance = get_instance_id(Read(dfh + 32)),
                           ![idx].group = get_group_id(Read(dfh + 32))]
    BY DEF SetProperties
  <2>3. QED
    BY <2>1, <2>2
<1>5. PICK e : e = EntryOf(idx, <<>>, 0, FALSE)
  OBVIOUS
<1>6. Replaced(vec, vec', idx, e)
  BY <1>2, <1>4, <1>5, EntryGetsProperties
<1>7. ASSUME phase' = "params" PROVE AtBlock(idx, blk)'
  <2>1. list[idx].hasParams
    BY <1>1, <1>3, <1>7 DEF HeaderRight
  <2>2. 1 \in 1..Len(list[idx].blocks) \/ (1 = Len(list[idx].blocks) + 1 /\ list[idx].nullEnd)
    <3>1. list[idx] \in Interfaces /\ list[idx].blocks \in Seq(Blocks)
      BY <1>1, <1>2, LaidList, InterfaceFields
    <3>2. list[idx].nullEnd \/ list[idx].blocks # <<>>
      BY <2>1, <3>1 DEF Interfaces
    <3>3. Len(list[idx].blocks) \in Nat /\ (list[idx].blocks # <<>> => Len(list[idx].blocks) > 0)
      BY <3>1
    <3>4. QED
      BY <3>2, <3>3
  <2>3. cur' = BlockAddress(idx, 1)
    BY <1>1, <1>2, FirstBlock
  <2>4. vec'[idx] = Partial(idx, 1)
    BY <1>5, <1>6 DEF Replaced, Partial
  <2>5. BlockAddress(idx, 1)' = BlockAddress(idx, 1) /\ Partial(idx, 1)' = Partial(idx, 1)
    BY <1>1, SameList
  <2>6. QED
    BY <1>1, <2>1, <2>2, <2>3, <2>4, <2>5 DEF AtBlock
<1>8. ASSUME phase' = "next" PROVE e = Whole(idx)
  <2>1. ~list[idx].hasParams
    BY <1>1, <1>3, <1>8 DEF HeaderRight
  <2>2. QED
    BY <1>1, <1>2, <1>5, <2>1, WholeWithout
<1>9. phase' = "params" \/ phase' = "next"
  BY <1>1
<1>10. QED
  BY <1>1, <1>6, <1>7, <1>8, <1>9, WithinInterface

\* The walk is at a block that is not the empty one.
InBlocks == blk \in 1..Len(list[idx].blocks)

\* What an iteration of the loop over parameter blocks begins with.
LEMMA ParamsPhase ==
    ASSUME MatchOK, phase = "params"
    PROVE  /\ Walking /\ Laid /\ CollectOK /\ AtBlock(idx, blk)
           /\ idx \in 1..Len(list) /\ idx \in DOMAIN vec
           /\ Len(list[idx].blocks) \in Nat /\ blk \in Nat \ {0}
           /\ InBlocks => BlockFound(Read(cur), list[idx], blk)
           /\ ~InBlocks => /\ EmptyBlock(Read(cur)) /\ is_last_param_block(Read(cur))
                           /\ blk = Len(list[idx].blocks) + 1 /\ list[idx].nullEnd
<1>1. Walking /\ Laid /\ CollectOK /\ AtBlock(idx, blk)
  BY DEF MatchOK, CollectOK, Walking
<1>2. idx \in 1..Len(list) /\ idx \in DOMAIN vec
  BY <1>1 DEF CollectOK, IsList
<1>3. Len(list[idx].blocks) \in Nat
  BY <1>1, <1>2, LaidList, InterfaceFields
<1>4. blk \in Nat \ {0}
  BY <1>1, <1>3 DEF AtBlock
<1>5. InBlocks => BlockFound(Read(cur), list[idx], blk)
  BY <1>1, <1>2, BlockIsFound DEF AtBlock, InBlocks
<1>6. ASSUME ~InBlocks
      PROVE  /\ EmptyBlock(Read(cur)) /\ is_last_param_block(Read(cur))
             /\ blk = Len(list[idx].blocks) + 1 /\ list[idx].nullEnd
  <2>1. blk = Len(list[idx].blocks) + 1 /\ list[idx].nullEnd
    BY <1>1, <1>6 DEF AtBlock, InBlocks
  <2>2. Read(cur) = EmptyHeader
    BY <1>1, <1>2, <2>1, EndReads DEF AtBlock
  <2>3. QED
    BY <2>1, <2>2, EmptyHeaderType DEF EmptyBlock
<1>7. QED
  BY <1>1, <1>2, <1>3, <1>4, <1>5, <1>6

\* The slots of the blocks up to this one.
LEMMA FilledMatch ==
    ASSUME MatchOK, phase = "params", InBlocks
    PROVE  /\ Filled(Read(cur)) = SlotsOf(list[idx].blocks, blk)
           /\ \E a, b, c : vec[idx] = EntryOf(idx, a, b, c)
<1>1. AtBlock(idx, blk) /\ blk \in Nat \ {0} /\ BlockFound(Read(cur), list[idx], blk)
  BY ParamsPhase
<1>2. PICK bs : bs = list[idx].blocks
  OBVIOUS
<1>3. PICK s : s = SlotOf(bs[blk])
  OBVIOUS
<1>4. Slot(Read(cur)) = s
  BY <1>1, <1>2, <1>3 DEF BlockFound
<1>5. vec[idx] = Partial(idx, blk)
  BY <1>1 DEF AtBlock
<1>6. \E a, b, c : vec[idx] = EntryOf(idx, a, b, c)
  BY <1>5 DEF Partial
<1>7. CASE blk = 1
  <2>1. Filled(Read(cur)) = <<s>>
    BY <1>4, <1>7 DEF Filled
  <2>2. SlotsOf(bs, 1) = <<s>>
    BY <1>3, <1>7 DEF SlotsOf
  <2>3. QED
    BY <1>2, <1>6, <1>7, <2>1, <2>2
<1>8. CASE blk # 1
  <2>1. PICK n \in Nat : blk = n + 1 /\ n = blk - 1 /\ n > 0
    BY <1>1, <1>8
  <2>2. PICK f : f = SlotsOf(bs, n)
    OBVIOUS
  <2>3. PICK T : f \in Seq(T) /\ ZeroSlot \in T /\ Len(f) = n
    BY <2>2, SlotsType
  <2>4. PICK g : g = Append(f, ZeroSlot)
    OBVIOUS
  <2>5. g \in Seq(T) /\ DOMAIN g = 1..(n + 1) /\ \A j \in 1..n : g[j] = f[j]
    BY <2>3, <2>4
  <2>6. vec[idx].slots = g
    <3>1. vec[idx] = EntryOf(idx, g, blk, TRUE)
      BY <1>2, <1>5, <1>8, <2>1, <2>2, <2>4 DEF Partial
    <3>2. QED
      BY <3>1 DEF EntryOf
  <2>7. Filled(Read(cur)) = [g EXCEPT ![blk] = s]
    BY <1>4, <1>8, <2>6 DEF Filled
  <2>8. \A j \in 1..n : f[j] = SlotOf(bs[j])
    BY <2>2 DEF SlotsOf
  <2>9. [g EXCEPT ![n + 1] = s] = [j \in 1..(n + 1) |-> SlotOf(bs[j])]
    <3>1. PICK h : h = [g EXCEPT ![n + 1] = s]
      OBVIOUS
    <3>2. /\ DOMAIN h = 1..(n + 1) /\ h = [j \in 1..(n + 1) |-> h[j]]
          /\ h[n + 1] = s /\ \A j \in 1..n : h[j] = g[j]
      <4>1. PICK m \in Nat : m = n + 1
        OBVIOUS
      <4>2. PICK D : D = DOMAIN g
        OBVIOUS
      <4>3. m \in D /\ D = 1..m /\ 1..n \subseteq D /\ m \notin 1..n
        BY <2>1, <2>5, <4>1, <4>2
      <4>4. h = [j \in D |-> IF j = m THEN s ELSE g[j]]
        BY <3>1, <4>1, <4>2
      <4>5. DOMAIN h = D /\ h = [j \in D |-> h[j]]
        BY <4>4
      <4>6. h[m] = s
        BY <4>3, <4>4
      <4>7. \A j \in 1..n : h[j] = g[j]
        BY <4>3, <4>4
      <4>8. QED
        BY <4>1, <4>3, <4>5, <4>6, <4>7
    <3>3. \A j \in 1..(n + 1) : h[j] = SlotOf(bs[j])
      <4>1. SUFFICES ASSUME NEW j \in 1..(n + 1) PROVE h[j] = SlotOf(bs[j])
        OBVIOUS
      <4>2. CASE j = n + 1
        BY <1>3, <2>1, <3>2, <4>2
      <4>3. CASE j \in 1..n
        BY <2>5, <2>8, <3>2, <4>3
      <4>4. QED
        BY <4>2, <4>3
    <3>4. QED
      BY <3>1, <3>2, <3>3
  <2>10. QED
    BY <1>2, <1>6, <2>1, <2>7, <2>9 DEF SlotsOf
<1>9. QED
  BY <1>7, <1>8

\* The last block of parameters.
LEMMA LastBlockMatch ==
    ASSUME MatchOK, LastBlock
    PROVE  MatchOK'
<1>1. /\ phase = "params" /\ phase' = "next"
      /\ list' = list /\ rom' = rom /\ count' = count /\ idx' = idx /\ dfh' = dfh
      /\ is_last_param_block(Read(cur)) /\ ~EmptyBlock(Read(cur))
  BY DEF LastBlock, walkVars
<1>2. /\ Walking /\ Laid /\ CollectOK /\ AtBlock(idx, blk)
      /\ idx \in 1..Len(list) /\ idx \in DOMAIN vec /\ blk \in Nat \ {0}
      /\ InBlocks /\ BlockFound(Read(cur), list[idx], blk)
  BY <1>1, ParamsPhase
<1>3. ~list[idx].nullEnd /\ blk = Len(list[idx].blocks)
  BY <1>1, <1>2 DEF BlockFound, IsLast
<1>4. PICK f : f = SlotsOf(list[idx].blocks, blk)
  OBVIOUS
<1>5. PICK a, b, c : vec[idx] = EntryOf(idx, a, b, c)
  BY <1>1, <1>2, FilledMatch
<1>6. vec' = [vec EXCEPT ![idx].slots = f, ![idx].num = blk, ![idx].ptr = TRUE]
  <2>1. Filled(Read(cur)) = f
    BY <1>1, <1>2, <1>4, FilledMatch
  <2>2. QED
    BY <2>1 DEF LastBlock
<1>7. PICK e : e = EntryOf(idx, f, blk, TRUE)
  OBVIOUS
<1>8. Replaced(vec, vec', idx, e)
  BY <1>2, <1>5, <1>6, <1>7, EntryGetsParams
<1>9. e = Whole(idx)
  <2>1. list[idx].hasParams /\ blk \in Nat /\ blk > 0
    BY <1>2 DEF AtBlock
  <2>2. QED
    BY <1>2, <1>3, <1>4, <1>7, <2>1, WholeWith
<1>10. QED
  BY <1>1, <1>2, <1>8, <1>9, WithinInterface

\* A block with another one after it.
LEMMA InnerBlockMatch ==
    ASSUME MatchOK, InnerBlock
    PROVE  MatchOK'
<1>1. /\ phase = "params" /\ phase' = "params"
      /\ list' = list /\ rom' = rom /\ count' = count /\ idx' = idx /\ dfh' = dfh
      /\ ~is_last_param_block(Read(cur)) /\ blk' = blk + 1
      /\ cur' = cur + get_next_param_byte_offset(Read(cur))
  BY DEF InnerBlock
<1>2. /\ Walking /\ Laid /\ CollectOK /\ AtBlock(idx, blk)
      /\ idx \in 1..Len(list) /\ idx \in DOMAIN vec /\ blk \in Nat \ {0}
      /\ Len(list[idx].blocks) \in Nat
      /\ InBlocks /\ BlockFound(Read(cur), list[idx], blk)
  BY <1>1, ParamsPhase
<1>3. ~IsLast(list[idx], blk)
  BY <1>1, <1>2 DEF BlockFound
<1>4. PICK f : f = Append(SlotsOf(list[idx].blocks, blk), ZeroSlot)
  OBVIOUS
<1>5. PICK a, b, c : vec[idx] = EntryOf(idx, a, b, c)
  BY <1>1, <1>2, FilledMatch
<1>6. vec' = [vec EXCEPT ![idx].slots = f, ![idx].num = blk + 1, ![idx].ptr = TRUE]
  <2>1. Filled(Read(cur)) = SlotsOf(list[idx].blocks, blk)
    BY <1>1, <1>2, FilledMatch
  <2>2. QED
    BY <1>4, <2>1 DEF InnerBlock
<1>7. PICK e : e = EntryOf(idx, f, blk + 1, TRUE)
  OBVIOUS
<1>8. Replaced(vec, vec', idx, e)
  BY <1>2, <1>5, <1>6, <1>7, EntryGetsParams
<1>9. AtBlock(idx, blk)'
  <2>1. \/ blk + 1 \in 1..Len(list[idx].blocks)
        \/ blk + 1 = Len(list[idx].blocks) + 1 /\ list[idx].nullEnd
    BY <1>2, <1>3 DEF IsLast, InBlocks
  <2>2. cur' = BlockAddress(idx, blk + 1)
    <3>1. BlockRight(idx, blk, list[idx].blocks[blk])
      BY <1>2, BlockReads DEF AtBlock, InBlocks
    <3>2. QED
      BY <1>1, <1>2, <1>3, <3>1 DEF BlockRight, BlockFound, AtBlock
  <2>3. e = Partial(idx, blk + 1)
    <3>1. blk + 1 # 1 /\ (blk + 1) - 1 = blk
      BY <1>2
    <3>2. QED
      BY <1>4, <1>7, <3>1 DEF Partial
  <2>4. list[idx].hasParams
    BY <1>2 DEF AtBlock
  <2>5. PICK n : n = blk + 1
    OBVIOUS
  <2>6. BlockAddress(idx, n)' = BlockAddress(idx, n) /\ Partial(idx, n)' = Partial(idx, n)
    BY <1>1, <2>5, SameList
  <2>7. vec'[idx] = e
    BY <1>8 DEF Replaced
  <2>8. QED
    BY <1>1, <2>1, <2>2, <2>3, <2>4, <2>5, <2>6, <2>7 DEF AtBlock
<1>10. QED
  BY <1>1, <1>2, <1>8, <1>9, WithinInterface

\* An empty block.
LEMMA EndOfParamsMatch ==
    ASSUME MatchOK, EndOfParams
    PROVE  MatchOK'
<1>1. /\ phase = "params" /\ phase' = "next" /\ EmptyBlock(Read(cur))
      /\ list' = list /\ rom' = rom /\ count' = count /\ idx' = idx /\ dfh' = dfh
      /\ vec' = vec
  BY DEF EndOfParams, walkVars
<1>2. /\ Walking /\ Laid /\ CollectOK /\ AtBlock(idx, blk)
      /\ idx \in 1..Len(list) /\ Len(list[idx].blocks) \in Nat
      /\ InBlocks => BlockFound(Read(cur), list[idx], blk)
      /\ ~InBlocks => blk = Len(list[idx].blocks) + 1 /\ list[idx].nullEnd
  BY <1>1, ParamsPhase
<1>3. PICK n \in Nat : n = Len(list[idx].blocks)
  BY <1>2
<1>4. blk = n + 1 /\ list[idx].nullEnd
  BY <1>1, <1>2, <1>3 DEF BlockFound
<1>5. vec[idx] = Partial(idx, n + 1) /\ list[idx].hasParams
  BY <1>2, <1>4 DEF AtBlock
<1>6. Partial(idx, n + 1) = Whole(idx)
  <2>1. CASE n = 0
    <3>1. Partial(idx, n + 1) = EntryOf(idx, <<>>, 0, FALSE)
      BY <2>1 DEF Partial
    <3>2. Whole(idx) = EntryOf(idx, <<>>, 0, FALSE)
      BY <1>2, <1>3, <2>1, WholeWithout
    <3>3. QED
      BY <3>1, <3>2
  <2>2. CASE n > 0
    BY <1>2, <1>3, <1>4, <1>5, <2>2, WholeWith
  <2>3. QED
    BY <2>1, <2>2
<1>7. Replaced(vec, vec', idx, Whole(idx))
  BY <1>1, <1>2, <1>5, <1>6 DEF Replaced, CollectOK, IsList
<1>8. QED
  BY <1>1, <1>2, <1>7, WithinInterface

\* The walk goes on to the next header or ends.
LEMMA NextInterfaceMatch ==
    ASSUME MatchOK, NextInterface
    PROVE  MatchOK'
<1>1. /\ phase = "next" /\ Walking /\ Laid /\ CollectOK
      /\ list' = list /\ rom' = rom /\ count' = count /\ vec' = vec
  BY DEF NextInterface, MatchOK, Walking
<1>2. /\ count = Len(list) /\ idx \in 1..Len(list) /\ dfh = HeaderAddress(idx)
      /\ IsList(vec, Len(list)) /\ Len(list) \in Nat
      /\ \A k \in 1..(idx - 1) : vec[k] = Whole(k)
      /\ vec[idx] = Whole(idx)
      /\ \A k \in (idx + 1)..Len(list) : vec[k] = ZeroEntry
  BY <1>1, LaidList DEF CollectOK
<1>3. \A k \in 1..idx : vec[k] = Whole(k)
  <2>1. \A k \in 1..idx : k \in 1..(idx - 1) \/ k = idx
    BY <1>2
  <2>2. QED
    BY <1>2, <2>1
<1>4. HeaderRight(idx, dfh, list[idx])
  BY <1>1, <1>2, HeaderReads
<1>5. Laid' /\ \A k : HeaderAddress(k)' = HeaderAddress(k) /\ Whole(k)' = Whole(k)
  BY <1>1, SameList DEF Laid
<1>6. CASE is_eol(Read(dfh))
  <2>1. phase' = "idle"
    BY <1>6 DEF NextInterface
  <2>2. idx = Len(list)
    BY <1>4, <1>6 DEF HeaderRight
  <2>3. vec = [k \in 1..Len(list) |-> Whole(k)]
    BY <1>2, <1>3, <2>2 DEF IsList
  <2>4. vec' = [k \in 1..Len(list') |-> Whole(k)']
    BY <1>1, <1>5, <2>3
  <2>5. QED
    BY <2>1, <2>4 DEF MatchOK, Walking
<1>7. CASE ~is_eol(Read(dfh))
  <2>1. phase' = "entry" /\ dfh' = get_next_dfh_addr(Read(dfh), dfh) /\ idx' = idx + 1
    BY <1>7 DEF NextInterface
  <2>2. idx < Len(list)
    BY <1>2, <1>4, <1>7 DEF HeaderRight
  <2>3. PICK n : n = idx + 1
    OBVIOUS
  <2>4. dfh' = HeaderAddress(n) /\ idx' = n
    BY <1>4, <2>1, <2>2, <2>3 DEF HeaderRight
  <2>5. n \in 1..Len(list) /\ n \in (idx + 1)..Len(list) /\ n - 1 = idx
        /\ \A k \in (n + 1)..Len(list) : k \in (idx + 1)..Len(list)
    BY <1>2, <2>2, <2>3
  <2>6. CollectOK'
    <3>1. idx' \in 1..Len(list') /\ dfh' = HeaderAddress(idx)' /\ IsList(vec, Len(list))'
      BY <1>1, <1>2, <1>5, <2>4, <2>5 DEF IsList
    <3>2. \A k \in 1..(idx' - 1) : vec'[k] = Whole(k)'
      BY <1>1, <1>3, <1>5, <2>4, <2>5
    <3>3. vec'[idx'] = ZeroEntry /\ \A k \in (idx' + 1)..Len(list') : vec'[k] = ZeroEntry
      BY <1>1, <1>2, <2>4, <2>5
    <3>4. QED
      BY <1>1, <1>2, <2>1, <3>1, <3>2, <3>3 DEF CollectOK
  <2>7. QED
    BY <1>5, <2>1, <2>6 DEF MatchOK, Walking
<1>8. QED
  BY <1>6, <1>7

\* Nothing changes that the invariant speaks of.
LEMMA NothingMatch ==
    ASSUME MatchOK, UNCHANGED <<phase, list, rom, count, vec, dfh, idx, cur, blk>>
    PROVE  MatchOK'
<1>1. /\ \A k : HeaderAddress(k)' = HeaderAddress(k) /\ Whole(k)' = Whole(k)
      /\ \A k, j : BlockAddress(k, j)' = BlockAddress(k, j) /\ Partial(k, j)' = Partial(k, j)
  BY SameList
<1>2. CollectOK' <=> CollectOK
  <2>1. \A k, j : AtBlock(k, j)' <=> AtBlock(k, j)
    BY <1>1 DEF AtBlock
  <2>2. QED
    BY <1>1, <2>1 DEF CollectOK, IsList
<1>3. QED
  BY <1>1, <1>2 DEF MatchOK, Laid, Walking

-----------------------------------------------------------------------------
(***************************************************************************)
(* The theorem about the entries                                           *)
(***************************************************************************)
\* A scan collects what the list describes, step by step.
THEOREM MatchInductive == Spec => []MInv
<1>1. Init => (Live => MatchOK)
  BY DEF Init, MatchOK, Walking
<1>2. IInv /\ (Live => MatchOK) /\ [Next]_vars => (Live => MatchOK)'
  <2>1. SUFFICES ASSUME IInv, Live => MatchOK, [Next]_vars, Live' PROVE MatchOK'
    OBVIOUS
  <2>2. ~VectorAllocFails /\ ~BlockAllocFails /\ ~ResizeFails
    BY <2>1, ThrowEnds DEF VectorAllocFails, BlockAllocFails, ResizeFails
  <2>3. Live
    <3>1. ~returned
      BY <2>1, <2>2 DEF Live, Next, vars, RegisterHandler, StartScan, Cleanup,
           CountInterface, SizeVector, SetProperties, LastBlock, InnerBlock, EndOfParams,
           NextInterface, UseNull
    <3>2. phase # "dead"
      BY <2>1, <2>2 DEF Live, Next, vars, RegisterHandler, StartScan, Cleanup,
           CountInterface, SizeVector, SetProperties, LastBlock, InnerBlock, EndOfParams,
           NextInterface, UseNull
    <3>3. QED
      BY <3>1, <3>2 DEF Live
  <2>4. LiveOK /\ MatchOK /\ count \in Nat
    BY <2>1, <2>3 DEF IInv
  <2>5. CASE RegisterHandler
    BY <2>4, <2>5, NothingMatch DEF RegisterHandler, walkVars
  <2>6. CASE StartScan
    BY <2>6, StartScanMatch
  <2>7. CASE Cleanup
    BY <2>7 DEF Cleanup, FreeAll, MatchOK, Walking
  <2>8. CASE CountInterface
    BY <2>4, <2>8, CountInterfaceMatch
  <2>9. CASE SizeVector
    BY <2>4, <2>9, SizeVectorMatch
  <2>10. CASE SetProperties
    BY <2>4, <2>10, SetPropertiesMatch
  <2>11. CASE LastBlock
    BY <2>4, <2>11, LastBlockMatch
  <2>12. CASE InnerBlock
    BY <2>4, <2>12, InnerBlockMatch
  <2>13. CASE EndOfParams
    BY <2>4, <2>13, EndOfParamsMatch
  <2>14. CASE NextInterface
    BY <2>4, <2>14, NextInterfaceMatch
  <2>15. CASE UseNull
    BY <2>4, <2>15, NoNull
  <2>16. CASE UNCHANGED vars
    BY <2>4, <2>16, NothingMatch DEF vars, walkVars
  <2>17. QED
    BY <2>1, <2>2, <2>5, <2>6, <2>7, <2>8, <2>9, <2>10, <2>11, <2>12, <2>13, <2>14, <2>15,
       <2>16 DEF Next
<1>3. QED
  BY <1>1, <1>2, Inductive, PTL DEF Spec, MInv

\* After a scan the vector holds what the list describes: for all widths of the
\* fields and every list that a generator can lay out.
THEOREM ScanMatchesList == Spec => []EntriesMatchList
<1>1. MInv => EntriesMatchList
  <2>1. SUFFICES ASSUME MInv, phase = "idle", vec # <<>>, ~returned
                 PROVE  vec = [k \in 1..Len(list) |-> Described(k, HeaderAddress(k))]
    BY DEF EntriesMatchList
  <2>2. MatchOK
    BY <2>1 DEF MInv, Live
  <2>3. QED
    BY <2>1, <2>2 DEF MatchOK, Whole
<1>2. QED
  BY <1>1, MatchInductive, PTL
=============================================================================
