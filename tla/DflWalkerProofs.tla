--------------------------- MODULE DflWalkerProofs ---------------------------
(***************************************************************************)
(* The walk over a Device Feature List, for lists of any shape and depth.  *)
(*                                                                         *)
(* The state of the walk is what its calls in progress say: a link of the  *)
(* list has been followed exactly when the call that reads its node has    *)
(* gone past it, and a node has been reached exactly when the one link to  *)
(* it has been followed.  So a node is never reached twice, and when no    *)
(* call is left, every node has been.                                      *)
(***************************************************************************)
EXTENDS DflWalker, TLAPS, FiniteSetTheorems, WellFoundedInduction

\* Induction, for a set instead of a predicate: of the numbers outside the set
\* there would be a least one.
LEMMA NatSetInduction ==
    ASSUME NEW S, 0 \in S, \A n \in Nat : n \in S => n + 1 \in S
    PROVE  \A n \in Nat : n \in S
<1> DEFINE T == {n \in Nat : n \notin S}
           R == OpToRel(<, Nat)
<1>1. SUFFICES ASSUME T # {} PROVE FALSE
  OBVIOUS
<1>2. IsWellFoundedOn(R, Nat)
  BY NatLessThanWellFounded, Zenon
<1> HIDE DEF R
<1>3. PICK m \in T : \A y \in T : <<y, m>> \notin R
  BY <1>1, <1>2, WFMin
<1>4. \A x, y \in Nat : x < y => <<x, y>> \in R
  BY DEF R, OpToRel
<1>5. m \in Nat /\ m - 1 \in Nat /\ m = (m - 1) + 1
  OBVIOUS
<1>6. <<m - 1, m>> \in R
  BY <1>4, <1>5
<1>7. m - 1 \notin T
  BY <1>3, <1>6
<1>8. m - 1 \in S
  BY <1>5, <1>7
<1>9. QED
  BY <1>5, <1>8

-----------------------------------------------------------------------------
(***************************************************************************)
(* Calls in progress fs on a list r, after visiting the nodes v: those     *)
(* whose interface was counted or collected.                               *)
(***************************************************************************)
NodesOf(fs) == {fs[i].node : i \in DOMAIN fs}

\* The call that reads the node of the link, if there is one, is past the link.
PassedBy(fs, l) ==
    \A i \in DOMAIN fs : fs[i].node = l[1] => l[2] # 0 /\ l[2] < fs[i].k

CallsOK(r, fs, v) ==
    /\ fs \in Seq([node : r.nodes, k : Nat])
    /\ \A i, j \in DOMAIN fs : fs[i].node = fs[j].node => i = j
    /\ \A i \in DOMAIN fs : fs[i].k = 0 => i = Len(fs)
    /\ \A i \in DOMAIN fs : fs[i].k # 0 <=> fs[i].node \in v

ReachedOK(r, fs, v) ==
    /\ v \subseteq r.nodes
    /\ 1 \in v \cup NodesOf(fs)
    /\ \A l \in LinksOf(r) :
          Target(r, l) # 0 =>
              (Target(r, l) \in v \cup NodesOf(fs) <=> l[1] \in v /\ PassedBy(fs, l))

Walked(r, fs, v) == CallsOK(r, fs, v) /\ ReachedOK(r, fs, v)

\* A link is a node and the number of a block of it, or 0.
LEMMA LinkShape ==
    ASSUME NEW r \in Roms
    PROVE  /\ \A l \in LinksOf(r) : /\ l[1] \in r.nodes /\ l[2] \in 0..Len(r.params[l[1]])
                                     /\ l = <<l[1], l[2]>>
           /\ \A n \in r.nodes : \A j \in 0..Len(r.params[n]) : <<n, j>> \in LinksOf(r)
           /\ \A l \in LinksOf(r) : Target(r, l) \in r.nodes \cup {0}
           /\ \A n \in r.nodes : n \in Nat \ {0} /\ Len(r.params[n]) \in Nat
<1>1. /\ \A n \in r.nodes : n \in Nat \ {0}
      /\ r.next \in [r.nodes -> r.nodes \cup {0}]
      /\ \A n \in r.nodes : r.params[n] \in Seq(r.nodes \cup {0})
  BY RomsAssumption
<1>2. ASSUME NEW l \in LinksOf(r)
      PROVE  /\ l[1] \in r.nodes /\ l[2] \in 0..Len(r.params[l[1]])
             /\ l = <<l[1], l[2]>>
  BY DEF LinksOf
<1>3. ASSUME NEW n \in r.nodes, NEW j \in 0..Len(r.params[n]) PROVE <<n, j>> \in LinksOf(r)
  BY DEF LinksOf
<1>4. ASSUME NEW l \in LinksOf(r) PROVE Target(r, l) \in r.nodes \cup {0}
  <2>1. CASE l[2] = 0
    BY <1>1, <1>2, <2>1 DEF Target
  <2>2. CASE l[2] # 0
    <3>1. r.params[l[1]] \in Seq(r.nodes \cup {0}) /\ l[2] \in 1..Len(r.params[l[1]])
      BY <1>1, <1>2, <2>2
    <3>2. QED
      BY <2>2, <3>1 DEF Target
  <2>3. QED
    BY <2>1, <2>2
<1>5. QED
  BY <1>1, <1>2, <1>3, <1>4

\* The walk begins at the first node, to which no link goes.
LEMMA FirstCall ==
    ASSUME NEW r \in Roms
    PROVE  Walked(r, <<Frame(1, 0)>>, {})
<1> DEFINE fs == <<Frame(1, 0)>>
<1>1. 1 \in r.nodes
  BY RomsAssumption
<1>2. /\ fs \in Seq([node : r.nodes, k : Nat]) /\ DOMAIN fs = {1} /\ Len(fs) = 1
      /\ fs[1].node = 1 /\ fs[1].k = 0
  BY <1>1 DEF Frame
<1> HIDE DEF fs
<1>3. NodesOf(fs) = {1}
  BY <1>2 DEF NodesOf
<1>4. ASSUME NEW l \in LinksOf(r), Target(r, l) # 0 PROVE Target(r, l) # 1
  BY <1>4, TreesAssumption, LinkShape
<1>5. CallsOK(r, fs, {})
  BY <1>2 DEF CallsOK
<1>6. ReachedOK(r, fs, {})
  BY <1>1, <1>3, <1>4 DEF ReachedOK
<1>7. QED
  BY <1>5, <1>6 DEF Walked, fs

\* gs is fs with its last call moved on to x.
Moved(S, fs, gs, x) ==
    /\ gs \in Seq([node : S, k : Nat]) /\ DOMAIN gs = DOMAIN fs /\ Len(gs) = Len(fs)
    /\ gs[Len(fs)].node = fs[Len(fs)].node /\ gs[Len(fs)].k = x
    /\ \A i \in DOMAIN fs : i # Len(fs) => gs[i] = fs[i]
    /\ NodesOf(gs) = NodesOf(fs)

\* The last call in progress moves on.
LEMMA MovedOn ==
    ASSUME NEW S, NEW fs \in Seq([node : S, k : Nat]), fs # <<>>, NEW x \in Nat
    PROVE  Moved(S, fs, [fs EXCEPT ![Len(fs)].k = x], x)
<1> DEFINE t == Len(fs)
           gs == [fs EXCEPT ![t].k = x]
<1>1. t \in Nat /\ t \in DOMAIN fs /\ DOMAIN fs = 1..t
  OBVIOUS
<1>2. fs[t] \in [node : S, k : Nat]
  <2> DEFINE R == [node : S, k : Nat]
  <2>1. fs \in Seq(R)
    OBVIOUS
  <2> HIDE DEF R
  <2>2. fs[t] \in R
    BY <1>1, <2>1
  <2>3. QED
    BY <2>2 DEF R
<1>3. [fs[t] EXCEPT !.k = x] \in [node : S, k : Nat]
  BY <1>2
<1> DEFINE c == [fs[t] EXCEPT !.k = x]
<1>4. c.node = fs[t].node /\ c.k = x
  BY <1>2
<1>5. gs = [fs EXCEPT ![t] = c]
  OBVIOUS
<1>6. c \in [node : S, k : Nat]
  BY <1>3
<1> HIDE DEF c, gs
<1>7. gs \in Seq([node : S, k : Nat]) /\ DOMAIN gs = DOMAIN fs /\ Len(gs) = t
  BY <1>1, <1>5, <1>6
<1>8. gs[t] = c /\ \A i \in DOMAIN fs : i # t => gs[i] = fs[i]
  BY <1>1, <1>5
<1>9. NodesOf(gs) = NodesOf(fs)
  <2>1. \A i \in DOMAIN fs : gs[i].node = fs[i].node
    BY <1>4, <1>8
  <2>2. QED
    BY <1>7, <2>1, Zenon DEF NodesOf
<1>10. Moved(S, fs, gs, x)
  BY <1>1, <1>2, <1>4, <1>7, <1>8, <1>9 DEF Moved
<1>11. QED
  BY <1>10 DEF gs

\* The node of the last call, and the calls below it.
LastOK(r, fs, v) ==
    /\ fs \in Seq([node : r.nodes, k : Nat])
    /\ Len(fs) \in Nat /\ Len(fs) \in DOMAIN fs
    /\ fs[Len(fs)].node \in r.nodes /\ fs[Len(fs)].k \in Nat
    /\ fs[Len(fs)].k = 0 <=> fs[Len(fs)].node \notin v
    /\ fs[Len(fs)].node \in NodesOf(fs)
    /\ \A i \in DOMAIN fs : i # Len(fs) =>
          /\ fs[i].node # fs[Len(fs)].node /\ fs[i].node \in r.nodes
          /\ fs[i].k # 0 /\ fs[i].k \in Nat /\ fs[i].node \in v

\* Only the last call may still have to visit its node.
LEMMA LastCall ==
    ASSUME NEW r, NEW v, NEW fs, Walked(r, fs, v), fs # <<>>
    PROVE  LastOK(r, fs, v)
<1>1. fs \in Seq([node : r.nodes, k : Nat])
  BY DEF Walked, CallsOK
<1>2. Len(fs) \in Nat /\ Len(fs) \in DOMAIN fs
  BY <1>1
<1>3. \A i \in DOMAIN fs : fs[i] \in [node : r.nodes, k : Nat]
  <2> DEFINE R == [node : r.nodes, k : Nat]
  <2>1. fs \in Seq(R)
    BY <1>1
  <2> HIDE DEF R
  <2>2. \A i \in DOMAIN fs : fs[i] \in R
    BY <2>1
  <2>3. QED
    BY <2>2 DEF R
<1>4. \A i \in DOMAIN fs : fs[i].node \in r.nodes /\ fs[i].k \in Nat
  BY <1>3
<1>5. QED
  BY <1>1, <1>2, <1>4, Zenon DEF Walked, CallsOK, LastOK, NodesOf

\* The interface of the node is counted or collected, for the first time.
LEMMA Entered ==
    ASSUME NEW r \in Roms, NEW v, NEW fs, Walked(r, fs, v),
           fs # <<>>, fs[Len(fs)].k = 0
    PROVE  /\ fs[Len(fs)].node \in r.nodes \ v
           /\ Walked(r, [fs EXCEPT ![Len(fs)].k = 1], v \cup {fs[Len(fs)].node})
<1> DEFINE t == Len(fs)
           n == fs[t].node
           gs == [fs EXCEPT ![t].k = 1]
           w == v \cup {n}
<1>1. LastOK(r, fs, v)
  BY LastCall
<1>2. Moved(r.nodes, fs, gs, 1)
  <2>1. fs \in Seq([node : r.nodes, k : Nat])
    BY <1>1 DEF LastOK
  <2>2. QED
    BY <2>1, MovedOn
<1> HIDE DEF gs
<1>3. CallsOK(r, gs, w)
  <2>1. \A i \in DOMAIN gs : gs[i].node = fs[i].node
    BY <1>2 DEF Moved
  <2>2. \A i, j \in DOMAIN gs : gs[i].node = gs[j].node => i = j
    BY <1>2, <2>1 DEF Moved, Walked, CallsOK
  <2>3. \A i \in DOMAIN gs : gs[i].k # 0 /\ gs[i].node \in w
    BY <1>1, <1>2 DEF Moved, LastOK
  <2>4. QED
    BY <1>2, <2>2, <2>3 DEF CallsOK, Moved
<1>4. w \cup NodesOf(gs) = v \cup NodesOf(fs) /\ n \in r.nodes \ v
  BY <1>1, <1>2 DEF LastOK, Moved
<1>5. ASSUME NEW l \in LinksOf(r)
      PROVE  l[1] \in v /\ PassedBy(fs, l) <=> l[1] \in w /\ PassedBy(gs, l)
  <2>1. l[2] \in Nat
    BY LinkShape
  <2>2. CASE l[1] = n
    <3>1. l[1] \notin v
      BY <1>1, <2>2 DEF LastOK
    <3>2. PassedBy(gs, l) => l[2] # 0 /\ l[2] < 1
      BY <1>1, <1>2, <2>2, Zenon DEF PassedBy, LastOK, Moved
    <3>3. QED
      BY <2>1, <3>1, <3>2
  <2>3. CASE l[1] # n
    BY <1>1, <1>2, <2>3 DEF PassedBy, LastOK, Moved
  <2>4. QED
    BY <2>2, <2>3
<1>6. ReachedOK(r, gs, w)
  BY <1>4, <1>5 DEF ReachedOK, Walked
<1>7. QED
  BY <1>3, <1>4, <1>6 DEF Walked, gs

\* Going from fs to gs, the last call has passed the one link l.
Passes(r, fs, gs, v, l) ==
    /\ CallsOK(r, gs, v) /\ NodesOf(gs) = NodesOf(fs)
    /\ \A i \in DOMAIN gs : gs[i].k # 0
    /\ \A m \in LinksOf(r) : m # l => (PassedBy(fs, m) <=> PassedBy(gs, m))
    /\ ~PassedBy(fs, l) /\ PassedBy(gs, l) /\ l[1] \in v

\* A call that goes past a block has passed one more link.
LEMMA PastBlock ==
    ASSUME NEW r \in Roms, NEW v, NEW fs, Walked(r, fs, v), fs # <<>>, fs[Len(fs)].k # 0
    PROVE  Passes(r, fs, [fs EXCEPT ![Len(fs)].k = @ + 1], v,
                  <<fs[Len(fs)].node, fs[Len(fs)].k>>)
<1> DEFINE t == Len(fs)
           n == fs[t].node
           k == fs[t].k
           gs == [fs EXCEPT ![t].k = @ + 1]
<1>1. LastOK(r, fs, v)
  BY LastCall
<1>2. Moved(r.nodes, fs, gs, k + 1)
  <2>1. fs \in Seq([node : r.nodes, k : Nat]) /\ k + 1 \in Nat
    BY <1>1 DEF LastOK
  <2>2. gs = [fs EXCEPT ![t].k = k + 1]
    OBVIOUS
  <2>3. QED
    BY <2>1, <2>2, MovedOn
<1> HIDE DEF gs
<1>3. \A i \in DOMAIN gs : gs[i].k # 0 /\ gs[i].node \in v
  BY <1>1, <1>2 DEF Moved, LastOK
<1>4. CallsOK(r, gs, v)
  <2>1. \A i \in DOMAIN gs : gs[i].node = fs[i].node
    BY <1>2 DEF Moved
  <2>2. \A i, j \in DOMAIN gs : gs[i].node = gs[j].node => i = j
    BY <1>2, <2>1 DEF Moved, Walked, CallsOK
  <2>3. QED
    BY <1>2, <1>3, <2>2 DEF CallsOK, Moved
<1>5. ASSUME NEW l \in LinksOf(r), l # <<n, k>>
      PROVE  PassedBy(fs, l) <=> PassedBy(gs, l)
  <2>1. l[2] \in Nat /\ l = <<l[1], l[2]>>
    BY LinkShape
  <2>2. CASE l[1] = n
    <3>1. l[2] # k
      BY <1>5, <2>1, <2>2
    <3>2. l[2] < k <=> l[2] < k + 1
      BY <1>1, <2>1, <3>1 DEF LastOK
    <3>3. PassedBy(fs, l) <=> l[2] # 0 /\ l[2] < k
      BY <1>1, <2>2, Zenon DEF PassedBy, LastOK
    <3>4. PassedBy(gs, l) <=> l[2] # 0 /\ l[2] < k + 1
      BY <1>1, <1>2, <2>2, Zenon DEF PassedBy, LastOK, Moved
    <3>5. QED
      BY <3>2, <3>3, <3>4
  <2>3. CASE l[1] # n
    BY <1>1, <1>2, <2>3 DEF PassedBy, LastOK, Moved
  <2>4. QED
    BY <2>2, <2>3
<1>6. ~PassedBy(fs, <<n, k>>) /\ PassedBy(gs, <<n, k>>) /\ n \in v
  <2>1. ~(k < k) /\ k < k + 1 /\ n \in v
    BY <1>1 DEF LastOK
  <2>2. PassedBy(fs, <<n, k>>) => k < k
    BY <1>1, Zenon DEF PassedBy, LastOK
  <2>3. \A i \in DOMAIN gs : gs[i].node = n => i = t
    BY <1>1, <1>2 DEF LastOK, Moved
  <2>4. gs[t].k = k + 1
    BY <1>2 DEF Moved
  <2>5. PassedBy(gs, <<n, k>>)
    BY <2>1, <2>3, <2>4 DEF PassedBy
  <2>6. QED
    BY <2>1, <2>2, <2>5
<1>7. Passes(r, fs, gs, v, <<n, k>>)
  BY <1>2, <1>3, <1>4, <1>5, <1>6 DEF Passes, Moved
<1>8. QED
  BY <1>7 DEF gs

\* A block of no interest is no link to a node.
LEMMA Skipped ==
    ASSUME NEW r \in Roms, NEW v, NEW fs, Walked(r, fs, v), fs # <<>>,
           fs[Len(fs)].k \in 1..Len(r.params[fs[Len(fs)].node]),
           r.params[fs[Len(fs)].node][fs[Len(fs)].k] = 0
    PROVE  Walked(r, [fs EXCEPT ![Len(fs)].k = @ + 1], v)
<1> DEFINE n == fs[Len(fs)].node
           k == fs[Len(fs)].k
           gs == [fs EXCEPT ![Len(fs)].k = @ + 1]
<1>1. LastOK(r, fs, v)
  BY LastCall
<1>2. k # 0
  BY <1>1, LinkShape DEF LastOK
<1>3. Passes(r, fs, gs, v, <<n, k>>)
  BY <1>2, PastBlock
<1>4. Target(r, <<n, k>>) = 0
  BY <1>2 DEF Target
<1> HIDE DEF gs
<1>5. ReachedOK(r, gs, v)
  BY <1>3, <1>4 DEF ReachedOK, Walked, Passes
<1>6. QED
  BY <1>3, <1>5 DEF Walked, Passes, gs

\* A branch leads to a node that had not been reached.
LEMMA Branched ==
    ASSUME NEW r \in Roms, NEW v, NEW fs, Walked(r, fs, v), fs # <<>>,
           fs[Len(fs)].k \in 1..Len(r.params[fs[Len(fs)].node]),
           r.params[fs[Len(fs)].node][fs[Len(fs)].k] # 0
    PROVE  Walked(r, Append([fs EXCEPT ![Len(fs)].k = @ + 1],
                            Frame(r.params[fs[Len(fs)].node][fs[Len(fs)].k], 0)), v)
<1> DEFINE n == fs[Len(fs)].node
           k == fs[Len(fs)].k
           gs == [fs EXCEPT ![Len(fs)].k = @ + 1]
           m == r.params[n][k]
           hs == Append(gs, Frame(m, 0))
           link == <<n, k>>
<1>1. LastOK(r, fs, v)
  BY LastCall
<1>2. k # 0 /\ link \in LinksOf(r)
  BY <1>1, LinkShape DEF LastOK
<1>3. Passes(r, fs, gs, v, link)
  BY <1>2, PastBlock
<1>4. Target(r, link) = m /\ m \in r.nodes /\ m # 0
  <2>1. Target(r, link) = m
    BY <1>2 DEF Target
  <2>2. QED
    BY <1>2, <2>1, LinkShape
<1> HIDE DEF gs, m, link
<1>5. m \notin v /\ m \notin NodesOf(fs) /\ m \notin NodesOf(gs) /\ NodesOf(gs) = NodesOf(fs)
  BY <1>2, <1>3, <1>4 DEF ReachedOK, Walked, Passes
<1>6. /\ hs \in Seq([node : r.nodes, k : Nat]) /\ Len(hs) = Len(gs) + 1
      /\ DOMAIN hs = DOMAIN gs \cup {Len(hs)} /\ Len(hs) \notin DOMAIN gs
      /\ \A i \in DOMAIN gs : hs[i] = gs[i]
      /\ hs[Len(hs)].node = m /\ hs[Len(hs)].k = 0
  <2> DEFINE R == [node : r.nodes, k : Nat]
             f == Frame(m, 0)
  <2>1. f \in R /\ f.node = m /\ f.k = 0
    BY <1>4 DEF Frame
  <2>2. gs \in Seq(R)
    BY <1>3 DEF CallsOK, Passes
  <2> HIDE DEF R, f
  <2>3. /\ Append(gs, f) \in Seq(R) /\ Len(Append(gs, f)) = Len(gs) + 1
        /\ DOMAIN Append(gs, f) = 1..(Len(gs) + 1) /\ DOMAIN gs = 1..Len(gs)
        /\ Len(gs) \in Nat
        /\ \A i \in 1..Len(gs) : Append(gs, f)[i] = gs[i]
        /\ Append(gs, f)[Len(gs) + 1] = f
    BY <2>1, <2>2
  <2>4. QED
    BY <2>1, <2>3 DEF R, f
<1> HIDE DEF hs
<1>7. NodesOf(hs) = NodesOf(fs) \cup {m}
  <2>1. NodesOf(hs) = NodesOf(gs) \cup {m}
    BY <1>6 DEF NodesOf
  <2>2. QED
    BY <1>5, <2>1
<1>8. CallsOK(r, hs, v)
  <2>1. \A i \in DOMAIN gs : gs[i].node # m
    BY <1>5 DEF NodesOf
  <2>2. \A i, j \in DOMAIN hs : hs[i].node = hs[j].node => i = j
    <3>1. \A i, j \in DOMAIN gs : gs[i].node = gs[j].node => i = j
      BY <1>3, Zenon DEF CallsOK, Passes
    <3>2. \A i, j \in DOMAIN gs : hs[i].node = hs[j].node => i = j
      BY <1>6, <3>1, Zenon
    <3>3. \A i \in DOMAIN gs : hs[i].node # hs[Len(hs)].node
      BY <1>6, <2>1, Zenon
    <3>4. QED
      BY <1>6, <3>2, <3>3, Zenon
  <2>3. \A i \in DOMAIN hs : hs[i].k = 0 => i = Len(hs)
    BY <1>3, <1>6 DEF Passes
  <2>4. \A i \in DOMAIN hs : hs[i].k # 0 <=> hs[i].node \in v
    BY <1>3, <1>5, <1>6 DEF CallsOK, Passes
  <2>5. QED
    BY <1>6, <2>2, <2>3, <2>4 DEF CallsOK
<1>9. ASSUME NEW l \in LinksOf(r), l[1] \in v PROVE PassedBy(hs, l) <=> PassedBy(gs, l)
  <2>1. l[1] # m
    BY <1>5, <1>9
  <2>2. QED
    BY <1>6, <2>1, Zenon DEF PassedBy
<1>10. ASSUME NEW l \in LinksOf(r), l # link PROVE Target(r, l) # m
  BY <1>2, <1>4, <1>10, TreesAssumption
<1>11. ASSUME NEW l \in LinksOf(r), Target(r, l) # 0
       PROVE  Target(r, l) \in v \cup NodesOf(hs) <=> l[1] \in v /\ PassedBy(hs, l)
  <2>1. CASE l = link
    BY <1>3, <1>4, <1>7, <1>9, <2>1 DEF Passes
  <2>2. CASE l # link
    <3>1. Target(r, l) \in v \cup NodesOf(hs) <=> Target(r, l) \in v \cup NodesOf(fs)
      BY <1>7, <1>10, <2>2
    <3>2. Target(r, l) \in v \cup NodesOf(fs) <=> l[1] \in v /\ PassedBy(fs, l)
      BY <1>11 DEF Walked, ReachedOK
    <3>3. QED
      BY <1>3, <1>9, <2>2, <3>1, <3>2 DEF Passes
  <2>3. QED
    BY <2>1, <2>2
<1>12. ReachedOK(r, hs, v)
  BY <1>7, <1>11 DEF ReachedOK, Walked
<1>13. QED
  BY <1>8, <1>12 DEF Walked, hs, gs, m

\* The call that has read all the blocks of its node is past all its links but
\* the one to the next node.
LEMMA AtEnd ==
    ASSUME NEW r \in Roms, NEW v, NEW fs, Walked(r, fs, v), fs # <<>>,
           fs[Len(fs)].k > Len(r.params[fs[Len(fs)].node])
    PROVE  /\ fs[Len(fs)].k # 0
           /\ ~PassedBy(fs, <<fs[Len(fs)].node, 0>>)
           /\ \A l \in LinksOf(r) :
                 l[1] = fs[Len(fs)].node /\ l # <<fs[Len(fs)].node, 0>> => PassedBy(fs, l)
<1> DEFINE t == Len(fs)
           n == fs[t].node
           k == fs[t].k
<1>1. LastOK(r, fs, v)
  BY LastCall
<1>2. n \in r.nodes /\ k \in Nat /\ Len(r.params[n]) \in Nat /\ t \in DOMAIN fs
  BY <1>1, LinkShape DEF LastOK
<1>3. k # 0
  BY <1>2
<1>4. ~PassedBy(fs, <<n, 0>>)
  BY <1>2 DEF PassedBy
<1>5. ASSUME NEW l \in LinksOf(r), l[1] = n, l # <<n, 0>> PROVE PassedBy(fs, l)
  <2>1. l[2] \in 0..Len(r.params[n]) /\ l = <<n, l[2]>>
    BY <1>5, LinkShape
  <2>2. l[2] # 0
    BY <1>5, <2>1
  <2>3. l[2] < k
    BY <1>2, <2>1
  <2>4. \A i \in DOMAIN fs : fs[i].node = n => i = t
    BY <1>1 DEF LastOK
  <2>5. QED
    BY <1>5, <2>2, <2>3, <2>4 DEF PassedBy
<1>6. QED
  BY <1>3, <1>4, <1>5

\* The call that takes the place of the last one is on a new node.
LEMMA Followed ==
    ASSUME NEW r \in Roms, NEW v, NEW fs, Walked(r, fs, v), fs # <<>>,
           fs[Len(fs)].k > Len(r.params[fs[Len(fs)].node]),
           r.next[fs[Len(fs)].node] # 0
    PROVE  Walked(r, [fs EXCEPT ![Len(fs)] = Frame(r.next[fs[Len(fs)].node], 0)], v)
<1> DEFINE t == Len(fs)
           n == fs[t].node
           m == r.next[n]
           hs == [fs EXCEPT ![t] = Frame(m, 0)]
           link == <<n, 0>>
<1>1. LastOK(r, fs, v)
  BY LastCall
<1>2. /\ fs[t].k # 0 /\ ~PassedBy(fs, link)
      /\ \A l \in LinksOf(r) : l[1] = n /\ l # link => PassedBy(fs, l)
  BY AtEnd
<1>3. n \in v /\ n \in r.nodes /\ link \in LinksOf(r) /\ link[1] = n
  BY <1>1, <1>2, LinkShape DEF LastOK
<1>4. Target(r, link) = m /\ m \in r.nodes /\ m # 0
  <2>1. Target(r, link) = m
    BY DEF Target
  <2>2. QED
    BY <1>3, <2>1, LinkShape
<1> HIDE DEF m, link
<1>5. m \notin v /\ m \notin NodesOf(fs)
  BY <1>2, <1>3, <1>4 DEF ReachedOK, Walked
<1>6. /\ hs \in Seq([node : r.nodes, k : Nat]) /\ Len(hs) = t
      /\ DOMAIN hs = DOMAIN fs /\ t \in DOMAIN fs
      /\ \A i \in DOMAIN fs : i # t => hs[i] = fs[i]
      /\ hs[t].node = m /\ hs[t].k = 0
  <2> DEFINE R == [node : r.nodes, k : Nat]
             f == Frame(m, 0)
  <2>1. f \in R /\ f.node = m /\ f.k = 0
    BY <1>4 DEF Frame
  <2>2. fs \in Seq(R) /\ t \in DOMAIN fs
    BY <1>1 DEF LastOK
  <2> HIDE DEF R, f
  <2>3. /\ [fs EXCEPT ![t] = f] \in Seq(R) /\ Len([fs EXCEPT ![t] = f]) = t
        /\ DOMAIN [fs EXCEPT ![t] = f] = DOMAIN fs
        /\ \A i \in DOMAIN fs : i # t => [fs EXCEPT ![t] = f][i] = fs[i]
        /\ [fs EXCEPT ![t] = f][t] = f
    BY <2>1, <2>2
  <2>4. QED
    BY <2>1, <2>2, <2>3 DEF R, f
<1> HIDE DEF hs
<1>7. v \cup NodesOf(hs) = v \cup NodesOf(fs) \cup {m}
  <2>1. m \in NodesOf(hs)
    BY <1>6 DEF NodesOf
  <2>2. \A x \in NodesOf(hs) : x \in NodesOf(fs) \cup {m}
    BY <1>6, Zenon DEF NodesOf
  <2>3. \A x \in NodesOf(fs) : x = n \/ x \in NodesOf(hs)
    BY <1>6, Zenon DEF NodesOf
  <2>4. QED
    BY <1>3, <2>1, <2>2, <2>3
<1>8. CallsOK(r, hs, v)
  <2>1. \A i \in DOMAIN fs : fs[i].node # m
    BY <1>5 DEF NodesOf
  <2>2. \A i, j \in DOMAIN hs : hs[i].node = hs[j].node => i = j
    BY <1>6, <2>1 DEF CallsOK, Walked
  <2>3. \A i \in DOMAIN hs : hs[i].k = 0 => i = Len(hs)
    BY <1>1, <1>6 DEF LastOK
  <2>4. \A i \in DOMAIN hs : hs[i].k # 0 <=> hs[i].node \in v
    BY <1>1, <1>5, <1>6 DEF LastOK
  <2>5. QED
    BY <1>6, <2>2, <2>3, <2>4 DEF CallsOK
<1>9. ASSUME NEW l \in LinksOf(r), l[1] \in v PROVE PassedBy(hs, l) <=> l = link \/ PassedBy(fs, l)
  <2>1. l[1] # m
    BY <1>5, <1>9
  <2>2. CASE l[1] = n
    <3>1. PassedBy(hs, l)
      BY <1>1, <1>6, <2>1, <2>2, Zenon DEF PassedBy, LastOK
    <3>2. QED
      BY <1>2, <2>2, <3>1
  <2>3. CASE l[1] # n
    <3>1. PassedBy(hs, l) <=> PassedBy(fs, l)
      BY <1>1, <1>6, <2>1, <2>3, Zenon DEF PassedBy, LastOK
    <3>2. QED
      BY <1>3, <2>3, <3>1
  <2>4. QED
    BY <2>2, <2>3
<1>10. ASSUME NEW l \in LinksOf(r), l # link PROVE Target(r, l) # m
  BY <1>3, <1>4, <1>10, TreesAssumption
<1>11. ASSUME NEW l \in LinksOf(r), Target(r, l) # 0
       PROVE  Target(r, l) \in v \cup NodesOf(hs) <=> l[1] \in v /\ PassedBy(hs, l)
  <2>1. CASE l = link
    BY <1>3, <1>4, <1>7, <1>9, <2>1
  <2>2. CASE l # link
    <3>1. Target(r, l) \in v \cup NodesOf(hs) <=> Target(r, l) \in v \cup NodesOf(fs)
      BY <1>7, <1>10, <2>2
    <3>2. Target(r, l) \in v \cup NodesOf(fs) <=> l[1] \in v /\ PassedBy(fs, l)
      BY <1>11 DEF Walked, ReachedOK
    <3>3. QED
      BY <1>9, <2>2, <3>1, <3>2
  <2>3. QED
    BY <2>1, <2>2
<1>12. ReachedOK(r, hs, v)
  BY <1>7, <1>11 DEF ReachedOK, Walked
<1>13. QED
  BY <1>8, <1>12 DEF Walked, hs, m

\* A call returns when its node has no next one.
LEMMA Ended ==
    ASSUME NEW r \in Roms, NEW v, NEW fs, Walked(r, fs, v), fs # <<>>,
           fs[Len(fs)].k > Len(r.params[fs[Len(fs)].node]),
           r.next[fs[Len(fs)].node] = 0
    PROVE  Walked(r, SubSeq(fs, 1, Len(fs) - 1), v)
<1> DEFINE t == Len(fs)
           n == fs[t].node
           hs == SubSeq(fs, 1, t - 1)
           link == <<n, 0>>
<1>1. LastOK(r, fs, v)
  BY LastCall
<1>2. /\ fs[t].k # 0
      /\ \A l \in LinksOf(r) : l[1] = n /\ l # link => PassedBy(fs, l)
  BY AtEnd
<1>3. n \in v
  BY <1>1, <1>2 DEF LastOK
<1>4. Target(r, link) = 0
  BY DEF Target
<1> HIDE DEF link
<1>5. /\ hs \in Seq([node : r.nodes, k : Nat]) /\ Len(hs) = t - 1
      /\ DOMAIN fs = DOMAIN hs \cup {t} /\ t \notin DOMAIN hs
      /\ \A i \in DOMAIN hs : hs[i] = fs[i]
  <2> DEFINE R == [node : r.nodes, k : Nat]
  <2>1. fs \in Seq(R) /\ t \in DOMAIN fs
    BY <1>1 DEF LastOK
  <2> HIDE DEF R
  <2>2. DOMAIN fs = 1..t /\ t \in Nat \ {0} /\ \A i \in 1..t : fs[i] \in R
    BY <2>1
  <2>3. hs = [i \in 1..(t - 1) |-> fs[i]]
    BY <2>2 DEF hs
  <2>4. hs \in Seq(R)
    BY <2>2, <2>3
  <2>5. Len(hs) = t - 1 /\ DOMAIN hs = 1..(t - 1)
    BY <2>2, <2>3, <2>4
  <2>6. QED
    BY <2>2, <2>3, <2>4, <2>5 DEF R
<1> HIDE DEF hs
<1>6. v \cup NodesOf(hs) = v \cup NodesOf(fs)
  BY <1>3, <1>5, Zenon DEF NodesOf
<1>7. CallsOK(r, hs, v)
  <2>1. \A i, j \in DOMAIN hs : hs[i].node = hs[j].node => i = j
    BY <1>5 DEF CallsOK, Walked
  <2>2. \A i \in DOMAIN hs : hs[i].k # 0 /\ hs[i].node \in v
    BY <1>1, <1>5 DEF LastOK
  <2>3. QED
    BY <1>5, <2>1, <2>2 DEF CallsOK
<1>8. ASSUME NEW l \in LinksOf(r), l # link PROVE PassedBy(hs, l) <=> PassedBy(fs, l)
  <2>1. CASE l[1] = n
    <3>1. PassedBy(hs, l)
      BY <1>1, <1>5, <2>1, Zenon DEF PassedBy, LastOK
    <3>2. QED
      BY <1>2, <1>8, <2>1, <3>1
  <2>2. CASE l[1] # n
    BY <1>5, <2>2, Zenon DEF PassedBy
  <2>3. QED
    BY <2>1, <2>2
<1>9. ReachedOK(r, hs, v)
  BY <1>4, <1>6, <1>8 DEF ReachedOK, Walked
<1>10. QED
  BY <1>7, <1>9 DEF Walked, hs

\* When no call is left, the walk has visited every node: the least one it has
\* not visited would have a link from a lower one.
LEMMA AllVisited ==
    ASSUME NEW r \in Roms, NEW v, Walked(r, <<>>, v)
    PROVE  v = r.nodes
<1>1. NodesOf(<<>>) = {} /\ \A l : PassedBy(<<>>, l)
  BY DEF NodesOf, PassedBy
<1>2. /\ v \subseteq r.nodes /\ 1 \in v
      /\ \A l \in LinksOf(r) : Target(r, l) # 0 => (Target(r, l) \in v <=> l[1] \in v)
  BY <1>1 DEF Walked, ReachedOK
<1> DEFINE S == {n \in Nat : \A m \in r.nodes : m <= n => m \in v}
<1>3. 0 \in S
  BY LinkShape
<1>4. ASSUME NEW n \in Nat, n \in S PROVE n + 1 \in S
  <2>1. SUFFICES ASSUME NEW m \in r.nodes, m <= n + 1 PROVE m \in v
    OBVIOUS
  <2>2. CASE m = 1
    BY <1>2, <2>2
  <2>3. CASE m # 1
    <3>1. PICK l \in LinksOf(r) : Target(r, l) = m
      BY <2>3, TreesAssumption
    <3>2. m \in Nat \ {0} /\ l[1] \in r.nodes /\ l[1] \in Nat
      BY LinkShape
    <3>3. l[1] < m
      BY <3>1, <3>2, TreesAssumption
    <3>4. l[1] \in v
      BY <1>4, <2>1, <3>2, <3>3
    <3>5. QED
      BY <1>2, <3>1, <3>2, <3>4
  <2>4. QED
    BY <2>2, <2>3
<1> HIDE DEF S
<1>5. \A n \in Nat : n \in S
  BY <1>3, <1>4, NatSetInduction
<1>6. \A m \in r.nodes : m \in v
  BY <1>5, LinkShape DEF S
<1>7. QED
  BY <1>2, <1>6

-----------------------------------------------------------------------------
(***************************************************************************)
(* Levels: where the first node of a level, its owner and its depth stand. *)
(***************************************************************************)
HasPred(r, m) == \E p \in r.nodes : r.next[p] = m
Pred(r, m) == CHOOSE p \in r.nodes : r.next[p] = m

\* The node before another one on its level has a lower number, and there is
\* only one.
LEMMA PredBelow ==
    ASSUME NEW r \in Roms, NEW m \in r.nodes, HasPred(r, m)
    PROVE  /\ Pred(r, m) \in r.nodes /\ r.next[Pred(r, m)] = m /\ Pred(r, m) < m
           /\ \A p \in r.nodes : r.next[p] = m => p = Pred(r, m)
<1>1. Pred(r, m) \in r.nodes /\ r.next[Pred(r, m)] = m
  BY DEF HasPred, Pred
<1>2. ASSUME NEW p \in r.nodes, r.next[p] = m
      PROVE  <<p, 0>> \in LinksOf(r) /\ Target(r, <<p, 0>>) = m /\ m # 0
  BY <1>2, LinkShape DEF Target
<1>3. Pred(r, m) < m
  <2> DEFINE l == <<Pred(r, m), 0>>
  <2>1. l \in LinksOf(r) /\ Target(r, l) = m /\ m # 0 /\ l[1] = Pred(r, m)
    BY <1>1, <1>2
  <2> HIDE DEF l
  <2>2. l[1] < Target(r, l)
    BY <2>1, TreesAssumption
  <2>3. QED
    BY <2>1, <2>2
<1>4. ASSUME NEW p \in r.nodes, r.next[p] = m PROVE p = Pred(r, m)
  <2> DEFINE l == <<p, 0>>
             k == <<Pred(r, m), 0>>
  <2>1. l \in LinksOf(r) /\ k \in LinksOf(r) /\ Target(r, l) = m /\ Target(r, k) = m /\ m # 0
    BY <1>1, <1>2, <1>4
  <2>2. l = k
    BY <2>1, TreesAssumption
  <2>3. QED
    BY <2>2
<1>5. QED
  BY <1>1, <1>3, <1>4

UpTo(r, n) == {m \in r.nodes : m <= n}

IsStart(r, f, n) ==
    f = [m \in UpTo(r, n) |-> IF HasPred(r, m) THEN f[Pred(r, m)] ELSE m]

\* The recursion that defines the first node of a level goes down,
LEMMA StartExists ==
    ASSUME NEW r \in Roms
    PROVE  \A n \in Nat : \E f : IsStart(r, f, n)
<1> DEFINE S == {n \in Nat : \E f : IsStart(r, f, n)}
<1>1. 0 \in S
  <2>1. UpTo(r, 0) = {}
    BY LinkShape DEF UpTo
  <2>2. IsStart(r, [m \in {} |-> 0], 0)
    BY <2>1 DEF IsStart
  <2>3. QED
    BY <2>2
<1>2. ASSUME NEW n \in Nat, n \in S PROVE n + 1 \in S
  <2>1. PICK f : IsStart(r, f, n)
    BY <1>2
  <2> DEFINE g == [m \in UpTo(r, n + 1) |->
                     IF m = n + 1 THEN IF HasPred(r, m) THEN f[Pred(r, m)] ELSE m ELSE f[m]]
  <2>2. \A m \in UpTo(r, n + 1) :
            /\ m \in r.nodes /\ m \in Nat /\ (m # n + 1 => m \in UpTo(r, n))
            /\ HasPred(r, m) => Pred(r, m) \in UpTo(r, n) /\ Pred(r, m) # n + 1
                               /\ Pred(r, m) \in UpTo(r, n + 1)
    <3>1. ASSUME NEW m \in UpTo(r, n + 1)
          PROVE  m \in r.nodes /\ m \in Nat /\ m <= n + 1 /\ (m # n + 1 => m \in UpTo(r, n))
      BY LinkShape DEF UpTo
    <3>2. ASSUME NEW m \in UpTo(r, n + 1), HasPred(r, m)
          PROVE  /\ Pred(r, m) \in UpTo(r, n) /\ Pred(r, m) # n + 1
                 /\ Pred(r, m) \in UpTo(r, n + 1)
      <4>1. Pred(r, m) \in r.nodes /\ Pred(r, m) < m
        BY <3>1, <3>2, PredBelow
      <4>2. Pred(r, m) \in Nat
        BY <4>1, LinkShape
      <4>3. QED
        BY <3>1, <4>1, <4>2 DEF UpTo
    <3>3. QED
      BY <3>1, <3>2
  <2>3. ASSUME NEW m \in UpTo(r, n + 1)
        PROVE  g[m] = IF HasPred(r, m) THEN g[Pred(r, m)] ELSE m
    <3>1. HasPred(r, m) => g[Pred(r, m)] = f[Pred(r, m)]
      BY <2>2
    <3>2. m # n + 1 => f[m] = IF HasPred(r, m) THEN f[Pred(r, m)] ELSE m
      BY <2>1, <2>2 DEF IsStart
    <3>3. QED
      BY <3>1, <3>2
  <2>4. IsStart(r, g, n + 1)
    BY <2>3 DEF IsStart
  <2> HIDE DEF g
  <2>5. \E h : IsStart(r, h, n + 1)
    BY <2>4
  <2>6. QED
    BY <2>5
<1> HIDE DEF S
<1>3. \A n \in Nat : n \in S
  BY <1>1, <1>2, NatSetInduction
<1>4. QED
  BY <1>3 DEF S

\* so that it says what it seems to say: the first node of a level is its own
\* start, any other has the one of the node before it.
LEMMA LevelStartUnfold ==
    ASSUME NEW r \in Roms, NEW n \in r.nodes
    PROVE  LevelStart(r, n) = IF HasPred(r, n) THEN LevelStart(r, Pred(r, n)) ELSE n
<1> DEFINE start[m \in r.nodes] == IF HasPred(r, m) THEN start[Pred(r, m)] ELSE m
<1>1. \A m : LevelStart(r, m) = start[m]
  BY DEF LevelStart, HasPred, Pred
<1>2. PICK max \in r.nodes : \A m \in r.nodes : m <= max
  BY RomsAssumption
<1>3. max \in Nat /\ UpTo(r, max) = r.nodes
  BY <1>2, LinkShape DEF UpTo
<1>4. \E f : f = [m \in r.nodes |-> IF HasPred(r, m) THEN f[Pred(r, m)] ELSE m]
  <2>1. PICK f : IsStart(r, f, max)
    BY <1>3, StartExists
  <2>2. QED
    BY <1>3, <2>1 DEF IsStart
<1>5. start = [m \in r.nodes |-> IF HasPred(r, m) THEN start[Pred(r, m)] ELSE m]
  BY <1>4
<1> HIDE DEF start
<1>6. start[n] = IF HasPred(r, n) THEN start[Pred(r, n)] ELSE n
  BY <1>5
<1>7. QED
  BY <1>1, <1>6

\* A level starts with a node of no higher number.
LEMMA LevelStartBelow ==
    ASSUME NEW r \in Roms
    PROVE  \A n \in r.nodes : LevelStart(r, n) \in r.nodes /\ LevelStart(r, n) <= n
<1> DEFINE Good(m) == LevelStart(r, m) \in r.nodes /\ LevelStart(r, m) <= m
           S == {n \in Nat : \A m \in r.nodes : m <= n => Good(m)}
<1>1. 0 \in S
  BY LinkShape
<1>2. ASSUME NEW n \in Nat, n \in S PROVE n + 1 \in S
  <2>1. SUFFICES ASSUME NEW m \in r.nodes, m <= n + 1 PROVE Good(m)
    OBVIOUS
  <2>2. m \in Nat
    BY LinkShape
  <2>3. CASE ~HasPred(r, m)
    <3>1. LevelStart(r, m) = m
      BY <2>3, LevelStartUnfold
    <3>2. QED
      BY <2>2, <3>1
  <2>4. CASE HasPred(r, m)
    <3>1. LevelStart(r, m) = LevelStart(r, Pred(r, m))
      BY <2>4, LevelStartUnfold
    <3>2. Pred(r, m) \in r.nodes /\ Pred(r, m) < m
      BY <2>4, PredBelow
    <3>3. Pred(r, m) \in Nat
      BY <3>2, LinkShape
    <3>4. Pred(r, m) <= n
      BY <2>1, <2>2, <3>2, <3>3
    <3>5. Good(Pred(r, m))
      BY <1>2, <3>2, <3>4
    <3>6. LevelStart(r, Pred(r, m)) \in Nat
      BY <3>5, LinkShape
    <3>7. QED
      BY <2>2, <3>1, <3>2, <3>3, <3>5, <3>6
  <2>5. QED
    BY <2>3, <2>4
<1> HIDE DEF S, Good
<1>3. \A n \in Nat : n \in S
  BY <1>1, <1>2, NatSetInduction
<1>4. \A m \in r.nodes : Good(m)
  BY <1>3, LinkShape DEF S
<1>5. QED
  BY <1>4 DEF Good

\* Who opens a level, has the one link to its first node.
LEMMA OpensLink ==
    ASSUME NEW r \in Roms, NEW p \in r.nodes, NEW n \in r.nodes,
           NEW j \in 1..Len(r.params[p]), r.params[p][j] = LevelStart(r, n)
    PROVE  /\ <<p, j>> \in LinksOf(r) /\ Target(r, <<p, j>>) = LevelStart(r, n)
           /\ LevelStart(r, n) # 0 /\ p < LevelStart(r, n)
<1> DEFINE l == <<p, j>>
<1>1. Len(r.params[p]) \in Nat
  BY LinkShape
<1>2. l \in LinksOf(r) /\ j # 0
  BY <1>1, LinkShape
<1>3. Target(r, l) = LevelStart(r, n) /\ l[1] = p
  BY <1>2 DEF Target
<1>4. LevelStart(r, n) # 0
  BY LevelStartBelow, LinkShape
<1> HIDE DEF l
<1>5. l[1] < Target(r, l)
  BY <1>2, <1>3, <1>4, TreesAssumption
<1>6. QED
  BY <1>2, <1>3, <1>4, <1>5 DEF l

\* A level has one owner, and one block of it opens the level.
LEMMA OwnerUnique ==
    ASSUME NEW r \in Roms, NEW n \in r.nodes,
           NEW p \in r.nodes, NEW j \in 1..Len(r.params[p]),
           r.params[p][j] = LevelStart(r, n)
    PROVE  /\ BranchOwner(r, n) = p
           /\ \A i \in 1..Len(r.params[p]) : r.params[p][i] = LevelStart(r, n) => i = j
<1>1. \A q \in r.nodes : \A i \in 1..Len(r.params[q]) :
          r.params[q][i] = LevelStart(r, n) => q = p /\ i = j
  <2>1. SUFFICES ASSUME NEW q \in r.nodes, NEW i \in 1..Len(r.params[q]),
                        r.params[q][i] = LevelStart(r, n)
                 PROVE  q = p /\ i = j
    OBVIOUS
  <2> DEFINE l == <<p, j>>
             k == <<q, i>>
  <2>2. l \in LinksOf(r) /\ Target(r, l) = LevelStart(r, n) /\ LevelStart(r, n) # 0
    BY OpensLink
  <2>3. k \in LinksOf(r) /\ Target(r, k) = LevelStart(r, n)
    BY <2>1, OpensLink
  <2>4. l = k
    BY <2>2, <2>3, TreesAssumption
  <2>5. QED
    BY <2>4
<1>2. Opens(r, p, n) /\ \A q \in r.nodes : Opens(r, q, n) => q = p
  BY <1>1, Zenon DEF Opens
<1>3. BranchOwner(r, n) = p
  BY <1>2 DEF BranchOwner
<1>4. QED
  BY <1>1, <1>3

\* The owner of a level has a lower number than the nodes on it.
LEMMA OwnerBelow ==
    ASSUME NEW r \in Roms, NEW n \in r.nodes, BranchOwner(r, n) # 0
    PROVE  /\ BranchOwner(r, n) \in r.nodes /\ BranchOwner(r, n) < n
<1>1. \E p \in r.nodes : Opens(r, p, n)
  BY DEF BranchOwner
<1>2. PICK p \in r.nodes : Opens(r, p, n)
  BY <1>1
<1>3. PICK j \in 1..Len(r.params[p]) : r.params[p][j] = LevelStart(r, n)
  BY <1>2 DEF Opens
<1>4. BranchOwner(r, n) = p
  BY <1>3, OwnerUnique
<1>5. p < LevelStart(r, n)
  BY <1>3, OpensLink
<1>6. /\ LevelStart(r, n) \in r.nodes /\ LevelStart(r, n) <= n
  BY LevelStartBelow
<1>7. p \in Nat /\ n \in Nat /\ LevelStart(r, n) \in Nat
  BY <1>6, LinkShape
<1>8. QED
  BY <1>4, <1>5, <1>6, <1>7

IsDepth(r, f, n) ==
    f = [m \in UpTo(r, n) |-> IF BranchOwner(r, m) = 0 THEN 1 ELSE 1 + f[BranchOwner(r, m)]]

\* The recursion that defines the depth goes down too,
LEMMA DepthExists ==
    ASSUME NEW r \in Roms
    PROVE  \A n \in Nat : \E f : IsDepth(r, f, n)
<1> DEFINE S == {n \in Nat : \E f : IsDepth(r, f, n)}
           B(m) == BranchOwner(r, m)
<1>1. 0 \in S
  <2>1. UpTo(r, 0) = {}
    BY LinkShape DEF UpTo
  <2>2. IsDepth(r, [m \in {} |-> 0], 0)
    BY <2>1 DEF IsDepth
  <2>3. QED
    BY <2>2
<1>2. ASSUME NEW n \in Nat, n \in S PROVE n + 1 \in S
  <2>1. PICK f : IsDepth(r, f, n)
    BY <1>2
  <2> DEFINE g == [m \in UpTo(r, n + 1) |->
                     IF m = n + 1 THEN IF B(m) = 0 THEN 1 ELSE 1 + f[B(m)] ELSE f[m]]
  <2>2. \A m \in UpTo(r, n + 1) :
            /\ m \in r.nodes /\ m \in Nat /\ (m # n + 1 => m \in UpTo(r, n))
            /\ B(m) # 0 => B(m) \in UpTo(r, n) /\ B(m) # n + 1 /\ B(m) \in UpTo(r, n + 1)
    <3>1. ASSUME NEW m \in UpTo(r, n + 1)
          PROVE  m \in r.nodes /\ m \in Nat /\ m <= n + 1 /\ (m # n + 1 => m \in UpTo(r, n))
      BY LinkShape DEF UpTo
    <3>2. ASSUME NEW m \in UpTo(r, n + 1), B(m) # 0
          PROVE  B(m) \in UpTo(r, n) /\ B(m) # n + 1 /\ B(m) \in UpTo(r, n + 1)
      <4>1. B(m) \in r.nodes /\ B(m) < m
        BY <3>1, <3>2, OwnerBelow
      <4>2. B(m) \in Nat
        BY <4>1, LinkShape
      <4>3. QED
        BY <3>1, <4>1, <4>2 DEF UpTo
    <3>3. QED
      BY <3>1, <3>2
  <2> HIDE DEF B
  <2>3. ASSUME NEW m \in UpTo(r, n + 1)
        PROVE  g[m] = IF B(m) = 0 THEN 1 ELSE 1 + g[B(m)]
    <3>1. B(m) # 0 => g[B(m)] = f[B(m)]
      BY <2>2
    <3>2. m # n + 1 => f[m] = IF B(m) = 0 THEN 1 ELSE 1 + f[B(m)]
      BY <2>1, <2>2 DEF IsDepth, B
    <3>3. QED
      BY <3>1, <3>2
  <2>4. IsDepth(r, g, n + 1)
    BY <2>3 DEF IsDepth, B
  <2> HIDE DEF g
  <2>5. \E h : IsDepth(r, h, n + 1)
    BY <2>4
  <2>6. QED
    BY <2>5
<1> HIDE DEF S
<1>3. \A n \in Nat : n \in S
  BY <1>1, <1>2, NatSetInduction
<1>4. QED
  BY <1>3 DEF S

\* and a level is one deeper than the one of its owner.
LEMMA DepthUnfold ==
    ASSUME NEW r \in Roms, NEW n \in r.nodes
    PROVE  Depth(r, n) = IF BranchOwner(r, n) = 0 THEN 1 ELSE 1 + Depth(r, BranchOwner(r, n))
<1> DEFINE depth[m \in r.nodes] ==
             IF BranchOwner(r, m) = 0 THEN 1 ELSE 1 + depth[BranchOwner(r, m)]
<1>1. \A m : Depth(r, m) = depth[m]
  BY DEF Depth
<1>2. PICK max \in r.nodes : \A m \in r.nodes : m <= max
  BY RomsAssumption
<1>3. max \in Nat /\ UpTo(r, max) = r.nodes
  BY <1>2, LinkShape DEF UpTo
<1>4. \E f : f = [m \in r.nodes |->
                    IF BranchOwner(r, m) = 0 THEN 1 ELSE 1 + f[BranchOwner(r, m)]]
  <2>1. PICK f : IsDepth(r, f, max)
    BY <1>3, DepthExists
  <2>2. QED
    BY <1>3, <2>1 DEF IsDepth
<1>5. depth = [m \in r.nodes |->
                 IF BranchOwner(r, m) = 0 THEN 1 ELSE 1 + depth[BranchOwner(r, m)]]
  BY <1>4
<1> HIDE DEF depth
<1>6. depth[n] = IF BranchOwner(r, n) = 0 THEN 1 ELSE 1 + depth[BranchOwner(r, n)]
  BY <1>5
<1>7. QED
  BY <1>1, <1>6

\* The level of the first node has no owner.
LEMMA FirstLevel ==
    ASSUME NEW r \in Roms
    PROVE  BranchOwner(r, 1) = 0 /\ Depth(r, 1) = 1
<1>1. 1 \in r.nodes
  BY RomsAssumption
<1>2. BranchOwner(r, 1) = 0
  <2>1. SUFFICES ASSUME BranchOwner(r, 1) # 0 PROVE FALSE
    OBVIOUS
  <2>2. BranchOwner(r, 1) \in r.nodes /\ BranchOwner(r, 1) < 1
    BY <1>1, <2>1, OwnerBelow
  <2>3. QED
    BY <2>2, LinkShape
<1>3. QED
  BY <1>1, <1>2, DepthUnfold

\* The next node is on the same level.
LEMMA SameLevel ==
    ASSUME NEW r \in Roms, NEW n \in r.nodes, r.next[n] # 0
    PROVE  /\ r.next[n] \in r.nodes
           /\ LevelStart(r, r.next[n]) = LevelStart(r, n)
           /\ BranchOwner(r, r.next[n]) = BranchOwner(r, n)
           /\ Depth(r, r.next[n]) = Depth(r, n)
<1> DEFINE m == r.next[n]
<1>1. m \in r.nodes
  BY RomsAssumption
<1>2. HasPred(r, m) /\ Pred(r, m) = n
  <2>1. HasPred(r, m)
    BY DEF HasPred
  <2>2. QED
    BY <1>1, <2>1, PredBelow
<1> HIDE DEF m
<1>3. LevelStart(r, m) = LevelStart(r, n)
  BY <1>1, <1>2, LevelStartUnfold
<1>4. BranchOwner(r, m) = BranchOwner(r, n)
  BY <1>3 DEF BranchOwner, Opens
<1>5. Depth(r, m) = Depth(r, n)
  BY <1>1, <1>4, DepthUnfold
<1>6. QED
  BY <1>1, <1>3, <1>4, <1>5 DEF m

\* A branch opens a level of which its node is the owner.
LEMMA NewLevel ==
    ASSUME NEW r \in Roms, NEW n \in r.nodes, NEW j \in 1..Len(r.params[n]),
           r.params[n][j] # 0
    PROVE  /\ r.params[n][j] \in r.nodes
           /\ LevelStart(r, r.params[n][j]) = r.params[n][j]
           /\ BranchOwner(r, r.params[n][j]) = n
           /\ Depth(r, r.params[n][j]) = 1 + Depth(r, n)
<1> DEFINE m == r.params[n][j]
           l == <<n, j>>
<1>1. Len(r.params[n]) \in Nat /\ n # 0
  BY LinkShape
<1>2. l \in LinksOf(r) /\ j # 0
  BY <1>1, LinkShape
<1>3. Target(r, l) = m
  BY <1>2 DEF Target
<1>4. m \in r.nodes
  BY <1>2, <1>3, LinkShape
<1>5. ~HasPred(r, m)
  <2>1. SUFFICES ASSUME NEW p \in r.nodes, r.next[p] = m PROVE FALSE
    BY DEF HasPred
  <2> DEFINE k == <<p, 0>>
  <2>2. k \in LinksOf(r) /\ Target(r, k) = m
    BY <2>1, LinkShape DEF Target
  <2>3. l = k
    BY <1>2, <1>3, <2>2, TreesAssumption
  <2>4. QED
    BY <1>2, <2>3
<1>6. LevelStart(r, m) = m
  BY <1>4, <1>5, LevelStartUnfold
<1>7. BranchOwner(r, m) = n
  BY <1>4, <1>6, OwnerUnique
<1>8. Depth(r, m) = 1 + Depth(r, n)
  BY <1>1, <1>4, <1>7, DepthUnfold
<1>9. QED
  BY <1>4, <1>6, <1>7, <1>8

-----------------------------------------------------------------------------
(***************************************************************************)
(* The invariant of the two walks                                          *)
(***************************************************************************)
TypeOK ==
    /\ phase \in {"idle", "count", "collect", "dead"}
    /\ scans \in Nat
    /\ rom \in Roms
    /\ count \in Nat /\ index \in Int /\ vecSize \in Nat

StackOK ==
    /\ top \in Nat /\ capacity \in Nat
    /\ top = Len(frames)
    /\ capacity = 0 \/ capacity >= Incr
    /\ frames # <<>> => capacity >= Incr

EntryNodes == {entries[i].node : i \in DOMAIN entries}

Distinct == \A i, j \in DOMAIN entries : entries[i].node = entries[j].node => i = j

\* The first walk has counted the nodes it visited,
Counting ==
    /\ vecSize = 0 /\ DOMAIN entries = {}
    /\ \E v \in SUBSET rom.nodes :
          Walked(rom, frames, v) /\ IsFiniteSet(v) /\ count = Cardinality(v)

\* and the second one has made an entry for each node it visited.
Collecting ==
    /\ Walked(rom, frames, EntryNodes)
    /\ IsFiniteSet(rom.nodes) /\ vecSize = Cardinality(rom.nodes)
    /\ IsFiniteSet(EntryNodes) /\ index + 1 = Cardinality(EntryNodes)
    /\ DOMAIN entries = 0..index
    /\ Distinct

IInv ==
    /\ TypeOK /\ StackOK
    /\ WalksAgree /\ ListedPerBranch
    /\ phase = "idle" => frames = <<>>
    /\ phase = "count" => Counting
    /\ phase = "collect" => Collecting

\* dfh_parent_stack_push keeps the array at least as long as the increment.
LEMMA Pushed ==
    ASSUME StackOK, NEW x, Push(x), Len(frames') = Len(frames) + 1
    PROVE  StackOK'
<1>1. top \in Nat /\ capacity \in Nat /\ top = Len(frames) /\ Incr \in Nat \ {0}
  BY IncrAssumption DEF StackOK
<1>2. top' = top + 1 /\ capacity' = IF top = capacity THEN capacity + Incr ELSE capacity
  BY DEF Push
<1>3. capacity' \in Nat /\ top' \in Nat
  BY <1>1, <1>2
<1>4. capacity' >= Incr
  <2>1. CASE top = capacity
    BY <1>1, <1>2, <2>1
  <2>2. CASE top # capacity
    <3>1. capacity >= Incr
      <4>1. CASE frames # <<>>
        BY <4>1 DEF StackOK
      <4>2. CASE frames = <<>>
        BY <1>1, <2>2, <4>2 DEF StackOK
      <4>3. QED
        BY <4>1, <4>2
    <3>2. QED
      BY <1>2, <2>2, <3>1
  <2>3. QED
    BY <2>1, <2>2
<1>5. QED
  BY <1>1, <1>2, <1>3, <1>4 DEF StackOK

\* What a step within a walk preserves that neither counts nor collects.
LEMMA Carried ==
    ASSUME IInv, StackOK', Walking,
           UNCHANGED <<phase, scans, rom, count, index, vecSize, entries>>,
           \A v : Walked(rom, frames, v) => Walked(rom, frames', v)
    PROVE  IInv'
<1>1. TypeOK' /\ WalksAgree' /\ ListedPerBranch' /\ phase' # "idle"
  BY DEF IInv, TypeOK, WalksAgree, ListedPerBranch, Walking, Scanned
<1>2. EntryNodes' = EntryNodes /\ (Distinct <=> Distinct')
  BY DEF EntryNodes, Distinct
<1>3. phase' = "count" => Counting'
  <2>1. SUFFICES ASSUME phase = "count" PROVE Counting'
    OBVIOUS
  <2>2. /\ vecSize = 0 /\ DOMAIN entries = {}
        /\ \E v \in SUBSET rom.nodes :
              Walked(rom, frames, v) /\ IsFiniteSet(v) /\ count = Cardinality(v)
    BY <2>1 DEF IInv, Counting
  <2>3. PICK v \in SUBSET rom.nodes :
          Walked(rom, frames, v) /\ IsFiniteSet(v) /\ count = Cardinality(v)
    BY <2>2
  <2>4. Walked(rom', frames', v) /\ count' = Cardinality(v) /\ v \in SUBSET rom'.nodes
    BY <2>3
  <2>5. QED
    BY <2>2, <2>3, <2>4 DEF Counting
<1>4. phase' = "collect" => Collecting'
  BY <1>2 DEF IInv, Collecting
<1>5. QED
  BY <1>1, <1>3, <1>4 DEF IInv

\* Each step of a walk has a set of visited nodes to start from.
LEMMA WalkedSome ==
    ASSUME IInv, Walking
    PROVE  /\ rom \in Roms /\ frames # <<>> /\ top = Len(frames)
           /\ \E v \in SUBSET rom.nodes : Walked(rom, frames, v)
           /\ frames \in Seq([node : rom.nodes, k : Nat]) /\ Len(frames) \in Nat \ {0}
<1>1. rom \in Roms /\ frames # <<>> /\ top = Len(frames)
  BY DEF IInv, Walking, TypeOK, StackOK
<1>2. PICK v \in SUBSET rom.nodes : Walked(rom, frames, v)
  <2>1. CASE phase = "count"
    BY <2>1 DEF IInv, Counting
  <2>2. CASE phase = "collect"
    <3>1. Walked(rom, frames, EntryNodes)
      BY <2>2 DEF IInv, Collecting
    <3>2. EntryNodes \in SUBSET rom.nodes
      BY <3>1 DEF Walked, ReachedOK
    <3>3. QED
      BY <3>1, <3>2
  <2>3. QED
    BY <2>1, <2>2 DEF Walking
<1>3. frames \in Seq([node : rom.nodes, k : Nat])
  BY <1>2 DEF Walked, CallsOK
<1>4. Len(frames) \in Nat \ {0}
  BY <1>1, <1>3
<1>5. QED
  BY <1>1, <1>2, <1>3, <1>4

\* Skipping a parameter block keeps the invariant.
LEMMA SkipStep ==
    ASSUME IInv, SkipParam
    PROVE  IInv'
<1>1. /\ Walking /\ Current.k \in 1..Len(Params) /\ Params[Current.k] = 0
      /\ frames' = [frames EXCEPT ![Len(frames)].k = @ + 1]
      /\ UNCHANGED <<phase, scans, rom, count, index, vecSize, entries, stackVars>>
  BY DEF SkipParam
<1>2. /\ rom \in Roms /\ frames # <<>> /\ frames \in Seq([node : rom.nodes, k : Nat])
      /\ Len(frames) \in Nat \ {0}
  BY <1>1, WalkedSome
<1>3. ASSUME NEW v, Walked(rom, frames, v) PROVE Walked(rom, frames', v)
  BY <1>1, <1>2, <1>3, Skipped DEF Current, Params
<1>4. Len(frames') = Len(frames) /\ frames' # <<>>
  BY <1>1, <1>2
<1>5. StackOK'
  BY <1>1, <1>2, <1>4 DEF StackOK, IInv, stackVars
<1>6. QED
  BY <1>1, <1>3, <1>5, Carried DEF stackVars

\* Entering a branch does.
LEMMA BranchStep ==
    ASSUME IInv, Branch
    PROVE  IInv'
<1>1. /\ Walking /\ Current.k \in 1..Len(Params) /\ Params[Current.k] # 0
      /\ Push(index)
      /\ frames' = Append([frames EXCEPT ![Len(frames)].k = @ + 1], Frame(Params[Current.k], 0))
      /\ UNCHANGED <<phase, scans, rom, count, index, vecSize, entries>>
  BY DEF Branch
<1>2. /\ rom \in Roms /\ frames # <<>> /\ frames \in Seq([node : rom.nodes, k : Nat])
      /\ Len(frames) \in Nat \ {0}
  BY <1>1, WalkedSome
<1>3. ASSUME NEW v, Walked(rom, frames, v) PROVE Walked(rom, frames', v)
  BY <1>1, <1>2, <1>3, Branched DEF Current, Params
<1>4. Len(frames') = Len(frames) + 1
  BY <1>1, <1>2
<1>5. StackOK'
  BY <1>1, <1>4, Pushed DEF IInv
<1>6. QED
  BY <1>1, <1>3, <1>5, Carried

\* Going on to the next interface does.
LEMMA FollowStep ==
    ASSUME IInv, NextInterface
    PROVE  IInv'
<1>1. /\ Walking /\ Current.k > Len(Params) /\ rom.next[Current.node] # 0
      /\ frames' = [frames EXCEPT ![Len(frames)] = Frame(rom.next[Current.node], 0)]
      /\ UNCHANGED <<phase, scans, rom, count, index, vecSize, entries, stackVars>>
  BY DEF NextInterface
<1>2. /\ rom \in Roms /\ frames # <<>> /\ frames \in Seq([node : rom.nodes, k : Nat])
      /\ Len(frames) \in Nat \ {0}
  BY <1>1, WalkedSome
<1>3. ASSUME NEW v, Walked(rom, frames, v) PROVE Walked(rom, frames', v)
  BY <1>1, <1>2, <1>3, Followed DEF Current, Params
<1>4. Len(frames') = Len(frames) /\ frames' # <<>>
  BY <1>1, <1>2
<1>5. StackOK'
  BY <1>1, <1>2, <1>4 DEF StackOK, IInv, stackVars
<1>6. QED
  BY <1>1, <1>3, <1>5, Carried DEF stackVars

\* Returning from a level does.
LEMMA EndStep ==
    ASSUME IInv, EndOfLevel
    PROVE  IInv'
<1>1. /\ Walking /\ Current.k > Len(Params) /\ rom.next[Current.node] = 0
      /\ frames' = SubSeq(frames, 1, Len(frames) - 1)
      /\ top' = top - 1 /\ capacity' = capacity
      /\ UNCHANGED <<phase, scans, rom, count, index, vecSize, entries>>
  BY DEF EndOfLevel, Pop
<1>2. /\ rom \in Roms /\ frames # <<>> /\ top = Len(frames)
      /\ frames \in Seq([node : rom.nodes, k : Nat]) /\ Len(frames) \in Nat \ {0}
  BY <1>1, WalkedSome
<1>3. ASSUME NEW v, Walked(rom, frames, v) PROVE Walked(rom, frames', v)
  BY <1>1, <1>2, <1>3, Ended DEF Current, Params
<1>4. Len(frames') = Len(frames) - 1
  BY <1>1, <1>2
<1>5. StackOK'
  BY <1>1, <1>2, <1>4 DEF StackOK, IInv
<1>6. QED
  BY <1>1, <1>3, <1>5, Carried

\* A visit in the counting walk keeps the invariant.
LEMMA CountStep ==
    ASSUME IInv, CountInterface
    PROVE  IInv'
<1>1. /\ Walking /\ phase = "count" /\ Current.k = 0
      /\ count' = count + 1
      /\ frames' = [frames EXCEPT ![Len(frames)].k = 1]
      /\ UNCHANGED <<phase, scans, rom, index, vecSize, entries, stackVars>>
  BY DEF CountInterface
<1>2. /\ rom \in Roms /\ frames # <<>> /\ frames \in Seq([node : rom.nodes, k : Nat])
      /\ Len(frames) \in Nat \ {0}
  BY <1>1, WalkedSome
<1>3. Len(frames') = Len(frames) /\ frames' # <<>>
  BY <1>1, <1>2
<1>4. StackOK'
  BY <1>1, <1>2, <1>3 DEF StackOK, IInv, stackVars
<1>5. TypeOK' /\ WalksAgree' /\ ListedPerBranch'
  BY <1>1 DEF IInv, TypeOK, WalksAgree, ListedPerBranch, Scanned
<1>6. PICK v \in SUBSET rom.nodes :
        Walked(rom, frames, v) /\ IsFiniteSet(v) /\ count = Cardinality(v)
  BY <1>1 DEF IInv, Counting
<1> DEFINE n == frames[Len(frames)].node
           w == v \cup {n}
<1>7. n \in rom.nodes \ v /\ Walked(rom, frames', w)
  BY <1>1, <1>2, <1>6, Entered DEF Current
<1>8. IsFiniteSet(w) /\ Cardinality(w) = count + 1
  BY <1>6, <1>7, FS_AddElement
<1> HIDE DEF n
<1>9. Counting'
  <2>1. w \in SUBSET rom'.nodes /\ Walked(rom', frames', w) /\ count' = Cardinality(w)
    BY <1>1, <1>7, <1>8
  <2>2. vecSize' = 0 /\ DOMAIN entries' = {}
    BY <1>1 DEF IInv, Counting
  <2> HIDE DEF w
  <2>3. QED
    BY <1>8, <2>1, <2>2 DEF Counting
<1>10. QED
  BY <1>1, <1>4, <1>5, <1>9 DEF IInv

\* A visit in the collecting walk keeps the invariant.
LEMMA CollectStep ==
    ASSUME IInv, CollectInterface
    PROVE  IInv'
<1>1. /\ Walking /\ phase = "collect" /\ Current.k = 0
      /\ index' = index + 1
      /\ \E p \in Peek :
            entries' = [i \in DOMAIN entries \cup {index'} |->
                          IF i = index' THEN [node |-> Current.node, parent |-> p]
                                        ELSE entries[i]]
      /\ frames' = [frames EXCEPT ![Len(frames)].k = 1]
      /\ UNCHANGED <<phase, scans, rom, count, vecSize, stackVars>>
  BY DEF CollectInterface
<1>2. /\ rom \in Roms /\ frames # <<>> /\ frames \in Seq([node : rom.nodes, k : Nat])
      /\ Len(frames) \in Nat \ {0}
  BY <1>1, WalkedSome
<1>3. Len(frames') = Len(frames) /\ frames' # <<>>
  BY <1>1, <1>2
<1>4. StackOK'
  BY <1>1, <1>2, <1>3 DEF StackOK, IInv, stackVars
<1>5. Collecting /\ index \in Int
  BY <1>1 DEF IInv, TypeOK
<1> DEFINE n == frames[Len(frames)].node
           w == EntryNodes \cup {n}
<1>6. n \in rom.nodes \ EntryNodes /\ Walked(rom, frames', w)
  BY <1>1, <1>2, <1>5, Entered DEF Current, Collecting
<1>7. IsFiniteSet(w) /\ Cardinality(w) = index + 2
  <2>1. IsFiniteSet(w) /\ Cardinality(w) = Cardinality(EntryNodes) + 1
    BY <1>5, <1>6, FS_AddElement DEF Collecting
  <2>2. QED
    BY <1>5, <2>1 DEF Collecting
<1>8. /\ DOMAIN entries' = DOMAIN entries \cup {index + 1}
      /\ entries'[index + 1].node = n
      /\ \A i \in DOMAIN entries : i # index + 1 => entries'[i] = entries[i]
  BY <1>1 DEF Current
<1>9. index + 1 \in Nat /\ index + 1 \notin DOMAIN entries /\ DOMAIN entries' = 0..(index + 1)
  <2>1. index + 1 \in Nat
    BY <1>5, FS_CardinalityType DEF Collecting
  <2>2. QED
    BY <1>5, <1>8, <2>1 DEF Collecting
<1> HIDE DEF n
<1>10. EntryNodes' = w
  <2>1. EntryNodes' = {entries'[i].node : i \in DOMAIN entries'}
    BY DEF EntryNodes
  <2>2. \A i \in DOMAIN entries : entries'[i].node = entries[i].node
    BY <1>8, <1>9
  <2>3. \A x \in w : x \in EntryNodes'
    BY <1>8, <2>1, <2>2 DEF EntryNodes
  <2>4. \A x \in EntryNodes' : x \in w
    BY <1>8, <2>1, <2>2 DEF EntryNodes
  <2>5. QED
    BY <2>3, <2>4
<1>11. Distinct'
  <2>1. \A i \in DOMAIN entries : entries[i].node # n
    BY <1>6 DEF EntryNodes
  <2>2. Distinct
    BY <1>5 DEF Collecting
  <2>3. \A i \in DOMAIN entries : entries'[i].node = entries[i].node
    BY <1>8, <1>9
  <2>4. QED
    BY <1>8, <2>1, <2>2, <2>3 DEF Distinct
<1>12. Collecting'
  <2>1. Walked(rom', frames', EntryNodes')
    BY <1>1, <1>6, <1>10
  <2>2. IsFiniteSet(EntryNodes') /\ index' + 1 = Cardinality(EntryNodes')
    BY <1>1, <1>5, <1>7, <1>10
  <2>3. DOMAIN entries' = 0..index'
    BY <1>1, <1>9
  <2> HIDE DEF w
  <2>4. QED
    BY <1>1, <1>5, <1>11, <2>1, <2>2, <2>3 DEF Collecting
<1>13. index' + 1 <= vecSize'
  <2>1. w \in SUBSET rom.nodes
    BY <1>6 DEF Walked, ReachedOK
  <2>2. Cardinality(w) <= Cardinality(rom.nodes)
    BY <1>5, <2>1, FS_Subset DEF Collecting
  <2>3. QED
    BY <1>1, <1>5, <1>7, <2>2 DEF Collecting
<1>14. TypeOK' /\ WalksAgree' /\ ListedPerBranch'
  <2>1. vecSize' \in Nat /\ index' \in Int
    BY <1>1, <1>5 DEF IInv, TypeOK
  <2>2. TypeOK'
    BY <1>1, <2>1 DEF IInv, TypeOK
  <2>3. DOMAIN entries' \subseteq 0..(vecSize' - 1)
    BY <1>1, <1>9, <1>13, <2>1
  <2>4. QED
    BY <1>1, <2>2, <2>3 DEF WalksAgree, ListedPerBranch, Scanned
<1>15. QED
  BY <1>1, <1>4, <1>12, <1>14 DEF IInv

\* The start of a scan keeps the invariant.
LEMMA StartStep ==
    ASSUME IInv, StartScan
    PROVE  IInv'
<1>1. /\ phase = "idle" /\ scans' = scans + 1 /\ rom' \in Roms /\ phase' = "count"
      /\ count' = 0 /\ vecSize' = 0 /\ entries' = [i \in {} |-> 0]
      /\ Push(-1) /\ frames' = <<Frame(1, 0)>> /\ UNCHANGED index
  BY DEF StartScan
<1>2. frames = <<>> /\ Len(frames) = 0 /\ Len(frames') = 1
  BY <1>1 DEF IInv
<1>3. StackOK'
  BY <1>1, <1>2, Pushed DEF IInv
<1>4. TypeOK' /\ WalksAgree' /\ ListedPerBranch'
  BY <1>1 DEF IInv, TypeOK, WalksAgree, ListedPerBranch, Scanned
<1>5. Counting'
  <2>1. Walked(rom', frames', {})
    BY <1>1, FirstCall
  <2>2. IsFiniteSet({}) /\ count' = Cardinality({}) /\ {} \in SUBSET rom'.nodes
    BY <1>1, FS_EmptySet
  <2>3. QED
    BY <1>1, <2>1, <2>2 DEF Counting
<1>6. QED
  BY <1>1, <1>3, <1>4, <1>5 DEF IInv

\* The end of the counting walk, where the vector gets its size, keeps it.
LEMMA EndCountStep ==
    ASSUME IInv, EndCount
    PROVE  IInv'
<1>1. /\ phase = "count" /\ frames = <<>> /\ phase' = "collect" /\ vecSize' = count
      /\ index' = -1 /\ Push(-1) /\ frames' = <<Frame(1, 0)>>
      /\ UNCHANGED <<scans, rom, count, entries>>
  BY DEF EndCount
<1>2. Len(frames) = 0 /\ Len(frames') = 1
  BY <1>1
<1>3. StackOK'
  BY <1>1, <1>2, Pushed DEF IInv
<1>4. rom \in Roms /\ count \in Nat /\ scans \in Nat
  BY DEF IInv, TypeOK
<1>5. PICK v \in SUBSET rom.nodes :
        Walked(rom, <<>>, v) /\ IsFiniteSet(v) /\ count = Cardinality(v)
  BY <1>1 DEF IInv, Counting
<1>6. v = rom.nodes
  BY <1>4, <1>5, AllVisited
<1>7. DOMAIN entries' = {} /\ EntryNodes' = {}
  <2>1. DOMAIN entries' = {}
    BY <1>1 DEF IInv, Counting
  <2>2. QED
    BY <2>1 DEF EntryNodes
<1>8. Collecting'
  <2>1. Walked(rom', frames', EntryNodes')
    BY <1>1, <1>4, <1>7, FirstCall
  <2>2. IsFiniteSet(rom'.nodes) /\ vecSize' = Cardinality(rom'.nodes)
    BY <1>1, <1>5, <1>6
  <2>3. IsFiniteSet(EntryNodes') /\ index' + 1 = Cardinality(EntryNodes')
    BY <1>1, <1>7, FS_EmptySet
  <2>4. DOMAIN entries' = 0..index'
    BY <1>1, <1>7
  <2>5. Distinct'
    BY <1>7 DEF Distinct
  <2>6. QED
    BY <2>1, <2>2, <2>3, <2>4, <2>5 DEF Collecting
<1>9. TypeOK' /\ WalksAgree' /\ ListedPerBranch'
  BY <1>1, <1>4, <1>7 DEF TypeOK, WalksAgree, ListedPerBranch, Scanned
<1>10. QED
  BY <1>1, <1>3, <1>8, <1>9 DEF IInv

\* The end of the scan keeps it.
LEMMA EndScanStep ==
    ASSUME IInv, EndScan
    PROVE  IInv'
<1>1. /\ phase = "collect" /\ frames = <<>> /\ phase' = "idle" /\ capacity' = 0
      /\ UNCHANGED <<scans, rom, frames, count, index, vecSize, entries, top>>
  BY DEF EndScan
<1>2. Collecting /\ rom \in Roms /\ index \in Int /\ vecSize \in Nat
  BY <1>1 DEF IInv, TypeOK
<1>3. EntryNodes = rom.nodes
  BY <1>1, <1>2, AllVisited DEF Collecting
<1>4. DOMAIN entries = 0..(vecSize - 1)
  BY <1>2, <1>3 DEF Collecting
<1>5. WalksAgree'
  BY <1>1, <1>4 DEF WalksAgree
<1>6. ListedPerBranch'
  BY <1>1, <1>2, <1>3 DEF ListedPerBranch, Collecting, Distinct, EntryNodes
<1>7. TypeOK' /\ StackOK'
  BY <1>1, IncrAssumption DEF IInv, TypeOK, StackOK
<1>8. QED
  BY <1>1, <1>5, <1>6, <1>7 DEF IInv

\* A failed allocation keeps it.
LEMMA AllocFailsStep ==
    ASSUME IInv, StackAllocFails
    PROVE  IInv'
<1>1. /\ phase' = "dead"
      /\ UNCHANGED <<scans, rom, frames, count, index, vecSize, entries, stackVars>>
  BY DEF StackAllocFails
<1>2. TypeOK' /\ StackOK'
  BY <1>1 DEF IInv, TypeOK, StackOK, stackVars
<1>3. WalksAgree' /\ ListedPerBranch'
  BY <1>1 DEF IInv, WalksAgree, ListedPerBranch, Scanned
<1>4. QED
  BY <1>1, <1>2, <1>3 DEF IInv

\* Stuttering keeps it.
LEMMA UnchangedStep ==
    ASSUME IInv, UNCHANGED vars
    PROVE  IInv'
<1>1. UNCHANGED <<phase, scans, rom, frames, count, index, vecSize, entries, top, capacity>>
  BY DEF vars, stackVars
<1>2. TypeOK' /\ StackOK' /\ WalksAgree' /\ ListedPerBranch'
  BY <1>1 DEF IInv, TypeOK, StackOK, WalksAgree, ListedPerBranch, Scanned
<1>3. phase = "count" => Counting'
  BY <1>1 DEF IInv, Counting
<1>4. phase = "collect" => Collecting'
  <2>1. EntryNodes' = EntryNodes /\ (Distinct <=> Distinct')
    BY <1>1 DEF EntryNodes, Distinct
  <2>2. QED
    BY <1>1, <2>1 DEF IInv, Collecting
<1>5. QED
  BY <1>1, <1>2, <1>3, <1>4 DEF IInv

-----------------------------------------------------------------------------
\* The invariant is inductive: what the two walks of
\* common_dfl_scan_multi_interfaces have visited, counted and collected.
THEOREM Inductive == Spec => []IInv
<1>1. Init => IInv
  <2>1. SUFFICES ASSUME Init PROVE IInv
    OBVIOUS
  <2>2. TypeOK /\ StackOK
    BY <2>1 DEF Init, TypeOK, StackOK
  <2>3. WalksAgree /\ ListedPerBranch
    BY <2>1 DEF Init, WalksAgree, ListedPerBranch, Scanned
  <2>4. QED
    BY <2>1, <2>2, <2>3 DEF Init, IInv
<1>2. IInv /\ [Next]_vars => IInv'
  <2>1. SUFFICES ASSUME IInv, [Next]_vars PROVE IInv'
    OBVIOUS
  <2>2. CASE StartScan
    BY <2>1, <2>2, StartStep
  <2>3. CASE WalkStep
    BY <2>1, <2>3, CountStep, CollectStep, SkipStep, BranchStep, FollowStep, EndStep,
       EndCountStep, EndScanStep DEF WalkStep
  <2>4. CASE StackAllocFails
    BY <2>1, <2>4, AllocFailsStep
  <2>5. CASE UNCHANGED vars
    BY <2>1, <2>5, UnchangedStep
  <2>6. QED
    BY <2>1, <2>2, <2>3, <2>4, <2>5 DEF Next
<1>3. QED
  BY <1>1, <1>2, PTL DEF Spec

\* The walk that collects stays within the vector that the walk that counts
\* sized, and fills it: for lists of any size, shape and depth.
THEOREM VectorIsFilled == Spec => []WalksAgree
<1>1. IInv => WalksAgree
  BY DEF IInv
<1>2. QED
  BY <1>1, Inductive, PTL

\* A scan makes one entry for each way to reach an interface, for every list,
\* with levels that several branches share or without.
THEOREM ListingPerBranch == Spec => []ListedPerBranch
<1>1. IInv => ListedPerBranch
  BY DEF IInv
<1>2. QED
  BY <1>1, Inductive, PTL

\* Pushes and pops of dfh_parent_stack balance, whatever the list.
THEOREM StackIsBalanced == Spec => []StackMirrorsCalls
<1>1. IInv => StackMirrorsCalls
  BY DEF IInv, StackOK, StackMirrorsCalls
<1>2. QED
  BY <1>1, Inductive, PTL

\* dfh_parent_stack_peek stays in the array for lists less deep than its
\* increment.
THEOREM PeekInBounds == Spec => []StackInBounds
<1>1. IInv => StackInBounds
  <2>1. SUFFICES ASSUME IInv, Len(frames) < Incr, frames # <<>> PROVE top < capacity
    BY DEF StackInBounds
  <2>2. QED
    BY <2>1, IncrAssumption DEF IInv, StackOK
<1>2. QED
  BY <1>1, Inductive, PTL

-----------------------------------------------------------------------------
(***************************************************************************)
(* The parents: the calls in progress stand on the levels of the list, and *)
(* the stack holds the index of the owner of each level that is the first  *)
(* one its owner opens.                                                    *)
(***************************************************************************)
LevelOK(r, fs, i) ==
    /\ Depth(r, fs[i].node) = i
    /\ i = 1 => BranchOwner(r, fs[i].node) = 0
    /\ i # 1 => /\ BranchOwner(r, fs[i].node) = fs[i - 1].node
                /\ fs[i - 1].k - 1 \in 1..Len(r.params[fs[i - 1].node])
                /\ r.params[fs[i - 1].node][fs[i - 1].k - 1] = LevelStart(r, fs[i].node)

LevelsOK(r, fs) == \A i \in DOMAIN fs : LevelOK(r, fs, i)

\* No block of n before block k opens a level.
Clear(r, n, k) == \A l \in 1..(k - 1) : r.params[n][l] = 0

IsIndex(i, n) == i \in DOMAIN entries /\ entries[i].node = n

HeadOK(i) ==
    /\ i = 1 => head[i] = -1
    /\ i # 1 /\ Clear(rom, frames[i - 1].node, frames[i - 1].k - 1)
          => IsIndex(head[i], frames[i - 1].node)

HeadsOK == \A i \in DOMAIN frames : i < Incr => HeadOK(i)

\* Until the node branches, the index last assigned is its own.
LastIndexOK ==
    frames # <<>> /\ Current.k # 0 /\ Clear(rom, Current.node, Current.k)
        => IsIndex(index, Current.node)

ParentOK(i) ==
    OnFirstBranch(rom, entries[i].node) /\ Depth(rom, entries[i].node) < Incr =>
        IF BranchOwner(rom, entries[i].node) = 0 THEN entries[i].parent = -1
        ELSE IsIndex(entries[i].parent, BranchOwner(rom, entries[i].node))

ParentsOK == \A i \in DOMAIN entries : ParentOK(i)

PInv ==
    /\ ParentsOK /\ Distinct
    /\ phase = "collect" => LevelsOK(rom, frames) /\ HeadsOK /\ LastIndexOK

\* Moving the last call on leaves the levels as they are.
LEMMA LevelsMoved ==
    ASSUME NEW r, NEW fs \in Seq([node : r.nodes, k : Nat]), NEW gs, NEW x,
           Moved(r.nodes, fs, gs, x), LevelsOK(r, fs)
    PROVE  LevelsOK(r, gs)
<1>1. SUFFICES ASSUME NEW i \in DOMAIN gs PROVE LevelOK(r, gs, i)
  BY DEF LevelsOK
<1>2. i \in DOMAIN fs /\ gs[i].node = fs[i].node
  BY DEF Moved
<1>3. LevelOK(r, fs, i)
  BY <1>2 DEF LevelsOK
<1>4. i # 1 => i - 1 \in DOMAIN fs /\ i - 1 # Len(fs)
  BY <1>2
<1>5. i # 1 => gs[i - 1] = fs[i - 1]
  BY <1>4 DEF Moved
<1>6. QED
  BY <1>2, <1>3, <1>5 DEF LevelOK

\* A step that leaves the entries alone.
LEMMA KeptEntries ==
    ASSUME PInv, UNCHANGED <<rom, entries>>,
           phase' = "collect" => LevelsOK(rom', frames') /\ HeadsOK' /\ LastIndexOK'
    PROVE  PInv'
<1>1. Distinct'
  BY DEF PInv, Distinct
<1>2. ASSUME NEW i \in DOMAIN entries PROVE ParentOK(i)'
  BY DEF PInv, ParentsOK, ParentOK, IsIndex
<1>3. QED
  BY <1>1, <1>2 DEF PInv, ParentsOK

\* The heads of the levels below depend on the calls below only.
LEMMA KeptHeads ==
    ASSUME NEW i, HeadOK(i), UNCHANGED <<rom, entries>>, head'[i] = head[i],
           i # 1 => frames'[i - 1] = frames[i - 1]
    PROVE  HeadOK(i)'
BY DEF HeadOK, IsIndex

\* The last call.
LEMMA CurrentType ==
    ASSUME IInv, Walking
    PROVE  /\ rom \in Roms /\ frames # <<>> /\ frames \in Seq([node : rom.nodes, k : Nat])
           /\ Len(frames) \in Nat \ {0} /\ Len(frames) \in DOMAIN frames
           /\ DOMAIN frames = 1..Len(frames)
           /\ Current = frames[Len(frames)] /\ Current.node \in rom.nodes /\ Current.k \in Nat
           /\ Params \in Seq(rom.nodes \cup {0}) /\ Len(Params) \in Nat
           /\ Params = rom.params[Current.node]
           /\ top = Len(frames) /\ top \in Nat /\ capacity \in Nat /\ capacity >= Incr
<1>1. /\ rom \in Roms /\ frames # <<>> /\ frames \in Seq([node : rom.nodes, k : Nat])
      /\ Len(frames) \in Nat \ {0}
  BY WalkedSome
<1>2. PICK v \in SUBSET rom.nodes : Walked(rom, frames, v)
  BY WalkedSome
<1>3. LastOK(rom, frames, v)
  BY <1>1, <1>2, LastCall
<1>4. Current = frames[Len(frames)] /\ Current.node \in rom.nodes /\ Current.k \in Nat
  BY <1>3 DEF LastOK, Current
<1>5. Params = rom.params[Current.node] /\ Params \in Seq(rom.nodes \cup {0})
  BY <1>1, <1>4, RomsAssumption DEF Params
<1>6. /\ top = Len(frames) /\ top \in Nat /\ capacity \in Nat /\ capacity >= Incr
  BY <1>1 DEF IInv, StackOK
<1>7. QED
  BY <1>1, <1>3, <1>4, <1>5, <1>6 DEF LastOK

\* Skipping a parameter block keeps the parents right.
LEMMA SkipParents ==
    ASSUME IInv, PInv, SkipParam
    PROVE  PInv'
<1>1. /\ Walking /\ Current.k \in 1..Len(Params) /\ Params[Current.k] = 0
      /\ frames' = [frames EXCEPT ![Len(frames)].k = @ + 1]
      /\ UNCHANGED <<phase, rom, index, entries, head>>
  BY DEF SkipParam, stackVars
<1> DEFINE t == Len(frames)
           n == Current.node
           k == Current.k
<1>2. /\ rom \in Roms /\ frames # <<>> /\ frames \in Seq([node : rom.nodes, k : Nat])
      /\ t \in Nat \ {0} /\ DOMAIN frames = 1..t /\ Current = frames[t]
      /\ n \in rom.nodes /\ k \in Nat /\ Params = rom.params[n]
  BY <1>1, CurrentType
<1>3. Moved(rom.nodes, frames, frames', k + 1)
  <2>1. frames' = [frames EXCEPT ![t].k = k + 1] /\ k + 1 \in Nat
    BY <1>1, <1>2
  <2>2. QED
    BY <1>2, <2>1, MovedOn
<1>4. SUFFICES ASSUME phase = "collect"
               PROVE  LevelsOK(rom', frames') /\ HeadsOK' /\ LastIndexOK'
  BY <1>1, KeptEntries
<1>5. LevelsOK(rom, frames) /\ HeadsOK /\ LastIndexOK
  BY <1>4 DEF PInv
<1>6. LevelsOK(rom', frames')
  BY <1>1, <1>2, <1>3, <1>5, LevelsMoved
<1>7. HeadsOK'
  <2>1. SUFFICES ASSUME NEW i \in DOMAIN frames', i < Incr PROVE HeadOK(i)'
    BY DEF HeadsOK
  <2>2. i \in DOMAIN frames
    BY <1>3 DEF Moved
  <2>3. i # 1 => i - 1 \in DOMAIN frames /\ i - 1 # t
    BY <1>2, <2>2
  <2>4. i # 1 => frames'[i - 1] = frames[i - 1]
    BY <1>3, <2>3 DEF Moved
  <2>5. HeadOK(i)
    BY <1>5, <2>1, <2>2 DEF HeadsOK
  <2>6. QED
    BY <1>1, <2>4, <2>5, KeptHeads
<1>8. LastIndexOK'
  <2>1. Current'.node = n /\ Current'.k = k + 1
    BY <1>2, <1>3 DEF Moved, Current
  <2>2. SUFFICES ASSUME Clear(rom', n, k + 1) PROVE IsIndex(index, Current.node)'
    BY <2>1 DEF LastIndexOK
  <2>3. Clear(rom, n, k)
    BY <1>1, <1>2, <2>2 DEF Clear
  <2>4. IsIndex(index, n)
    BY <1>1, <1>2, <1>5, <2>3 DEF LastIndexOK
  <2>5. QED
    BY <1>1, <2>1, <2>4 DEF IsIndex
<1>9. QED
  BY <1>6, <1>7, <1>8

\* Going on to the next interface keeps the parents right.
LEMMA FollowParents ==
    ASSUME IInv, PInv, NextInterface
    PROVE  PInv'
<1> DEFINE t == Len(frames)
           n == Current.node
           m == rom.next[n]
<1>1. /\ Walking /\ m # 0
      /\ frames' = [frames EXCEPT ![t] = Frame(m, 0)]
      /\ UNCHANGED <<phase, rom, index, entries, head>>
  BY DEF NextInterface, stackVars
<1>2. /\ rom \in Roms /\ frames # <<>> /\ frames \in Seq([node : rom.nodes, k : Nat])
      /\ t \in Nat \ {0} /\ DOMAIN frames = 1..t /\ Current = frames[t] /\ n \in rom.nodes
  BY <1>1, CurrentType
<1>3. /\ DOMAIN frames' = 1..t /\ Len(frames') = t
      /\ frames'[t].node = m /\ frames'[t].k = 0
      /\ \A i \in 1..t : i # t => frames'[i] = frames[i]
  <2> DEFINE f == Frame(m, 0)
  <2>1. f.node = m /\ f.k = 0
    BY DEF Frame
  <2>2. m \in rom.nodes
    BY <1>1, <1>2, RomsAssumption
  <2>3. f \in [node : rom.nodes, k : Nat]
    BY <2>2 DEF Frame
  <2> HIDE DEF f, m
  <2>4. frames' = [frames EXCEPT ![t] = f]
    BY <1>1 DEF f
  <2>5. DOMAIN frames' = 1..t /\ frames' \in Seq([node : rom.nodes, k : Nat])
    BY <1>2, <2>3, <2>4
  <2>6. Len(frames') = t
    BY <1>2, <2>5
  <2>7. frames'[t] = f /\ \A i \in 1..t : i # t => frames'[i] = frames[i]
    <3>1. t \in 1..t /\ DOMAIN frames = 1..t
      BY <1>2
    <3>2. QED
      BY <2>4, <3>1, Zenon
  <2>8. QED
    BY <2>1, <2>5, <2>6, <2>7
<1>4. SUFFICES ASSUME phase = "collect"
               PROVE  LevelsOK(rom', frames') /\ HeadsOK' /\ LastIndexOK'
  BY <1>1, KeptEntries
<1>5. LevelsOK(rom, frames) /\ HeadsOK /\ LastIndexOK
  BY <1>4 DEF PInv
<1>6. /\ LevelStart(rom, m) = LevelStart(rom, n) /\ BranchOwner(rom, m) = BranchOwner(rom, n)
      /\ Depth(rom, m) = Depth(rom, n)
  BY <1>1, <1>2, SameLevel
<1>7. ASSUME NEW i \in 1..t, i # 1 PROVE frames'[i - 1] = frames[i - 1]
  <2>1. i - 1 \in 1..t /\ i - 1 # t
    BY <1>2, <1>7
  <2>2. QED
    BY <1>3, <2>1
<1> HIDE DEF m
<1>8. LevelsOK(rom', frames')
  <2>1. SUFFICES ASSUME NEW i \in 1..t PROVE LevelOK(rom, frames', i)
    BY <1>1, <1>3 DEF LevelsOK
  <2>2. LevelOK(rom, frames, i)
    BY <1>2, <1>5 DEF LevelsOK
  <2>3. CASE i = t
    BY <1>2, <1>3, <1>6, <1>7, <2>2, <2>3 DEF LevelOK
  <2>4. CASE i # t
    <3>1. frames'[i] = frames[i]
      BY <1>3, <2>4
    <3>2. QED
      BY <1>7, <2>2, <3>1 DEF LevelOK
  <2>5. QED
    BY <2>3, <2>4
<1>9. HeadsOK'
  <2>1. SUFFICES ASSUME NEW i \in 1..t, i < Incr PROVE HeadOK(i)'
    BY <1>3 DEF HeadsOK
  <2>2. HeadOK(i)
    BY <1>2, <1>5, <2>1 DEF HeadsOK
  <2>3. QED
    BY <1>1, <1>7, <2>2, KeptHeads
<1>10. LastIndexOK'
  BY <1>3 DEF LastIndexOK, Current
<1>11. QED
  BY <1>8, <1>9, <1>10

\* Counting an interface keeps the parents right.
LEMMA EnterParents ==
    ASSUME IInv, PInv, CountInterface
    PROVE  PInv'
BY KeptEntries DEF CountInterface

\* Entering a branch keeps the parents right.
LEMMA BranchParents ==
    ASSUME IInv, PInv, Branch
    PROVE  PInv'
<1> DEFINE t == Len(frames)
           n == Current.node
           k == Current.k
           m == Params[k]
           gs == [frames EXCEPT ![t].k = @ + 1]
<1>1. /\ Walking /\ k \in 1..Len(Params) /\ m # 0
      /\ Push(index)
      /\ frames' = Append(gs, Frame(m, 0))
      /\ UNCHANGED <<phase, rom, index, entries>>
  BY DEF Branch
<1>2. /\ rom \in Roms /\ frames # <<>> /\ frames \in Seq([node : rom.nodes, k : Nat])
      /\ t \in Nat \ {0} /\ t \in 1..t /\ DOMAIN frames = 1..t /\ Current = frames[t]
      /\ n \in rom.nodes /\ k \in Nat /\ Params = rom.params[n] /\ Len(Params) \in Nat
      /\ top = t /\ capacity \in Nat /\ capacity >= Incr
  BY <1>1, CurrentType
<1>3. Moved(rom.nodes, frames, gs, k + 1)
  <2>1. gs = [frames EXCEPT ![t].k = k + 1] /\ k + 1 \in Nat
    BY <1>2
  <2>2. QED
    BY <1>2, <2>1, MovedOn
<1> HIDE DEF gs
<1>4. /\ m \in rom.nodes /\ LevelStart(rom, m) = m /\ BranchOwner(rom, m) = n
      /\ Depth(rom, m) = 1 + Depth(rom, n)
  BY <1>1, <1>2, NewLevel
<1>5. SUFFICES ASSUME phase = "collect"
               PROVE  LevelsOK(rom', frames') /\ HeadsOK' /\ LastIndexOK'
  BY <1>1, KeptEntries
<1>6. LevelsOK(rom, frames) /\ HeadsOK /\ LastIndexOK
  BY <1>5 DEF PInv
<1>7. /\ DOMAIN frames' = 1..(t + 1) /\ Len(frames') = t + 1
      /\ frames'[t + 1].node = m /\ frames'[t + 1].k = 0
      /\ \A i \in 1..t : frames'[i] = gs[i]
  <2> DEFINE f == Frame(m, 0)
             R == [node : rom.nodes, k : Nat]
  <2>1. f.node = m /\ f.k = 0 /\ f \in R
    BY <1>4 DEF Frame
  <2>2. gs \in Seq(R) /\ Len(gs) = t
    BY <1>3 DEF Moved
  <2>3. frames' = Append(gs, f)
    BY <1>1
  <2> HIDE DEF f, R, m
  <2>4. /\ DOMAIN frames' = 1..(t + 1) /\ Len(frames') = t + 1 /\ frames'[t + 1] = f
        /\ \A i \in 1..t : frames'[i] = gs[i]
    BY <1>2, <2>1, <2>2, <2>3
  <2>5. QED
    BY <2>1, <2>4
<1>8. /\ \A i \in 1..t : frames'[i].node = frames[i].node
      /\ \A i \in 1..t : i # t => frames'[i] = frames[i]
      /\ frames'[t].k = k + 1 /\ frames'[t].node = n
  BY <1>2, <1>3, <1>7 DEF Moved
<1> HIDE DEF m
<1>9. LevelsOK(rom', frames')
  <2>1. SUFFICES ASSUME NEW i \in 1..(t + 1) PROVE LevelOK(rom, frames', i)
    BY <1>1, <1>7 DEF LevelsOK
  <2>2. CASE i = t + 1
    <3>1. i # 1 /\ i - 1 = t /\ (k + 1) - 1 = k
      BY <1>2, <2>2
    <3>2. Depth(rom, n) = t
      BY <1>2, <1>6 DEF LevelsOK, LevelOK
    <3>3. Depth(rom, m) = i
      BY <1>2, <1>4, <2>2, <3>2
    <3>4. rom.params[n][k] = m
      BY <1>2 DEF m
    <3>5. frames'[i].node = m /\ frames'[i - 1].node = n /\ frames'[i - 1].k - 1 = k
      BY <1>7, <1>8, <2>2, <3>1
    <3>6. k \in 1..Len(rom.params[n])
      BY <1>1, <1>2
    <3>7. QED
      BY <1>4, <3>1, <3>3, <3>4, <3>5, <3>6, Zenon DEF LevelOK
  <2>3. CASE i # t + 1
    <3>1. i \in 1..t /\ (i # 1 => i - 1 \in 1..t /\ i - 1 # t)
      BY <1>2, <2>3
    <3>2. frames'[i].node = frames[i].node /\ (i # 1 => frames'[i - 1] = frames[i - 1])
      BY <1>8, <3>1
    <3>3. LevelOK(rom, frames, i)
      BY <1>2, <1>6, <3>1 DEF LevelsOK
    <3>4. QED
      BY <3>2, <3>3 DEF LevelOK
  <2>4. QED
    BY <2>2, <2>3
<1>10. /\ t + 1 < Incr => head'[t + 1] = index
       /\ \A i \in 1..t : i < Incr => head'[i] = head[i]
  <2>1. PICK cap \in Nat :
          /\ cap >= capacity
          /\ head' = [i \in 0..(cap - 1) |-> IF i = top + 1 THEN index
                                            ELSE IF i < capacity THEN head[i] ELSE 0]
    <3> DEFINE c == IF top = capacity THEN capacity + Incr ELSE capacity
    <3>1. c \in Nat /\ c >= capacity
      <4>1. capacity \in Nat /\ Incr \in Nat
        BY <1>2, IncrAssumption
      <4>2. QED
        BY <4>1
    <3>2. head' = [i \in 0..(c - 1) |-> IF i = top + 1 THEN index
                                       ELSE IF i < capacity THEN head[i] ELSE 0]
      BY <1>1 DEF Push
    <3> HIDE DEF c
    <3>3. QED
      BY <3>1, <3>2
  <2>2. t + 1 < Incr => head'[t + 1] = index
    <3>1. SUFFICES ASSUME t + 1 < Incr PROVE head'[t + 1] = index
      OBVIOUS
    <3>2. t + 1 \in 0..(cap - 1)
      BY <1>2, <2>1, <3>1, IncrAssumption
    <3>3. QED
      BY <1>2, <2>1, <3>2
  <2>3. ASSUME NEW i \in 1..t, i < Incr PROVE head'[i] = head[i]
    <3>1. i \in 0..(cap - 1) /\ i # top + 1 /\ i < capacity
      BY <1>2, <2>1, <2>3, IncrAssumption
    <3>2. QED
      BY <2>1, <3>1
  <2>4. QED
    BY <2>2, <2>3
<1>11. HeadsOK'
  <2>1. SUFFICES ASSUME NEW i \in 1..(t + 1), i < Incr PROVE HeadOK(i)'
    BY <1>7 DEF HeadsOK
  <2>2. CASE i = t + 1
    <3>1. i # 1 /\ i - 1 = t /\ (k + 1) - 1 = k /\ k # 0
      BY <1>1, <1>2, <2>2
    <3>2. head'[i] = index
      BY <1>10, <2>1, <2>2
    <3>3. Clear(rom, n, k) => IsIndex(index, n)
      BY <1>2, <1>6, <3>1 DEF LastIndexOK
    <3>4. Clear(rom', frames'[i - 1].node, frames'[i - 1].k - 1) <=> Clear(rom, n, k)
      BY <1>1, <1>8, <3>1
    <3>5. IsIndex(index, n) => IsIndex(head[i], frames[i - 1].node)'
      BY <1>1, <1>8, <3>1, <3>2 DEF IsIndex
    <3>6. QED
      BY <3>1, <3>3, <3>4, <3>5 DEF HeadOK
  <2>3. CASE i # t + 1
    <3>1. i \in 1..t /\ (i # 1 => i - 1 \in 1..t /\ i - 1 # t)
      BY <1>2, <2>3
    <3>2. i # 1 => frames'[i - 1] = frames[i - 1]
      BY <1>8, <3>1
    <3>3. head'[i] = head[i]
      BY <1>10, <2>1, <3>1
    <3>4. HeadOK(i)
      BY <1>2, <1>6, <2>1, <3>1 DEF HeadsOK
    <3>5. QED
      BY <1>1, <3>2, <3>3, <3>4, KeptHeads
  <2>4. QED
    BY <2>2, <2>3
<1>12. LastIndexOK'
  BY <1>7 DEF LastIndexOK, Current
<1>13. QED
  BY <1>9, <1>11, <1>12

\* Returning from a level keeps the parents right.
LEMMA EndParents ==
    ASSUME IInv, PInv, EndOfLevel
    PROVE  PInv'
<1> DEFINE t == Len(frames)
           s == t - 1
<1>1. /\ Walking
      /\ frames' = SubSeq(frames, 1, t - 1)
      /\ UNCHANGED <<phase, rom, index, entries, head>>
  BY DEF EndOfLevel, Pop
<1>2. /\ rom \in Roms /\ frames \in Seq([node : rom.nodes, k : Nat])
      /\ t \in Nat \ {0} /\ t \in 1..t /\ DOMAIN frames = 1..t /\ Current = frames[t]
      /\ Current.node \in rom.nodes
  BY <1>1, CurrentType
<1>3. /\ DOMAIN frames' = 1..s /\ Len(frames') = s
      /\ \A i \in 1..s : frames'[i] = frames[i]
  BY <1>1, <1>2
<1>4. SUFFICES ASSUME phase = "collect"
               PROVE  LevelsOK(rom', frames') /\ HeadsOK' /\ LastIndexOK'
  BY <1>1, KeptEntries
<1>5. LevelsOK(rom, frames) /\ HeadsOK /\ LastIndexOK
  BY <1>4 DEF PInv
<1>6. ASSUME NEW i \in 1..s
      PROVE  i \in 1..t /\ frames'[i] = frames[i] /\ (i # 1 => frames'[i - 1] = frames[i - 1])
  <2>1. i \in 1..t /\ (i # 1 => i - 1 \in 1..s)
    BY <1>2
  <2>2. QED
    BY <1>3, <2>1
<1>7. LevelsOK(rom', frames')
  <2>1. SUFFICES ASSUME NEW i \in 1..s PROVE LevelOK(rom, frames', i)
    BY <1>1, <1>3 DEF LevelsOK
  <2>2. LevelOK(rom, frames, i)
    BY <1>2, <1>5, <1>6 DEF LevelsOK
  <2>3. QED
    BY <1>6, <2>2 DEF LevelOK
<1>8. HeadsOK'
  <2>1. SUFFICES ASSUME NEW i \in 1..s, i < Incr PROVE HeadOK(i)'
    BY <1>3 DEF HeadsOK
  <2>2. HeadOK(i)
    BY <1>2, <1>5, <1>6, <2>1 DEF HeadsOK
  <2>3. QED
    BY <1>1, <1>6, <2>2, KeptHeads
<1>9. LastIndexOK'
  <2>1. SUFFICES ASSUME frames' # <<>> PROVE ~Clear(rom, Current'.node, Current'.k)
    BY <1>1 DEF LastIndexOK
  <2>2. s \in 1..s /\ t # 1 /\ t - 1 = s
    BY <1>1, <1>2, <1>3, <2>1
  <2>3. Current' = frames[s]
    BY <1>3, <2>2 DEF Current
  <2> DEFINE o == frames[s].node
             j == frames[s].k - 1
  <2>4. /\ j \in 1..Len(rom.params[o]) /\ rom.params[o][j] = LevelStart(rom, Current.node)
    BY <1>2, <1>5, <2>2 DEF LevelsOK, LevelOK
  <2>5. rom.params[o][j] # 0
    BY <1>2, <2>4, LevelStartBelow, LinkShape
  <2>6. j \in 1..(frames[s].k - 1)
    BY <2>4
  <2>7. QED
    BY <2>3, <2>5, <2>6 DEF Clear
<1>10. QED
  BY <1>7, <1>8, <1>9

\* The new entry's parent is the owner of its level: the peeked head is the one
\* pushed when the owner branched, which was before it had branched elsewhere.
LEMMA CollectParents ==
    ASSUME IInv, PInv, CollectInterface, Distinct'
    PROVE  PInv'
<1> DEFINE t == Len(frames)
           n == Current.node
           o == BranchOwner(rom, n)
<1>1. /\ Walking /\ phase = "collect" /\ Current.k = 0 /\ index' = index + 1
      /\ frames' = [frames EXCEPT ![t].k = 1]
      /\ UNCHANGED <<phase, rom, head>>
  BY DEF CollectInterface, stackVars
<1>2. PICK p \in Peek :
        entries' = [i \in DOMAIN entries \cup {index'} |->
                      IF i = index' THEN [node |-> n, parent |-> p] ELSE entries[i]]
  BY DEF CollectInterface
<1>3. /\ rom \in Roms /\ frames # <<>> /\ frames \in Seq([node : rom.nodes, k : Nat])
      /\ t \in Nat \ {0} /\ t \in 1..t /\ DOMAIN frames = 1..t /\ Current = frames[t]
      /\ n \in rom.nodes /\ top = t /\ capacity \in Nat /\ capacity >= Incr
  BY <1>1, CurrentType
<1>4. Moved(rom.nodes, frames, frames', 1)
  BY <1>1, <1>3, MovedOn
<1>5. LevelsOK(rom, frames) /\ HeadsOK /\ LastIndexOK
  BY <1>1 DEF PInv
<1>6. index \in Int /\ DOMAIN entries = 0..index
  BY <1>1 DEF IInv, TypeOK, Collecting
<1>7. /\ DOMAIN entries' = DOMAIN entries \cup {index'} /\ index' \notin DOMAIN entries
      /\ entries'[index'].node = n /\ entries'[index'].parent = p
      /\ \A i \in DOMAIN entries : entries'[i] = entries[i]
  <2>1. index' \notin DOMAIN entries
    BY <1>1, <1>6
  <2>2. QED
    BY <1>2, <2>1
<1>8. ASSUME NEW i, NEW m, IsIndex(i, m) PROVE i \in DOMAIN entries' /\ entries'[i].node = m
  BY <1>7, <1>8 DEF IsIndex
<1>9. LevelsOK(rom', frames')
  BY <1>1, <1>3, <1>4, <1>5, LevelsMoved
<1>10. HeadsOK'
  <2>1. SUFFICES ASSUME NEW i \in DOMAIN frames', i < Incr PROVE HeadOK(i)'
    BY DEF HeadsOK
  <2>2. i \in DOMAIN frames
    BY <1>4 DEF Moved
  <2>3. i # 1 => i - 1 \in DOMAIN frames /\ i - 1 # t
    BY <1>3, <2>2
  <2>4. i # 1 => frames'[i - 1] = frames[i - 1]
    BY <1>4, <2>3 DEF Moved
  <2>5. HeadOK(i)
    BY <1>5, <2>1, <2>2 DEF HeadsOK
  <2>6. QED
    BY <1>1, <1>8, <2>4, <2>5 DEF HeadOK, IsIndex
<1>11. LastIndexOK'
  <2>1. Current'.node = n
    BY <1>3, <1>4 DEF Moved, Current
  <2>2. QED
    BY <1>7, <2>1 DEF LastIndexOK, IsIndex
<1>12. ASSUME NEW i \in DOMAIN entries PROVE ParentOK(i)'
  <2>1. ParentOK(i) /\ entries'[i] = entries[i]
    BY <1>7 DEF PInv, ParentsOK
  <2>2. QED
    BY <1>1, <1>8, <2>1 DEF ParentOK, IsIndex
<1>13. LevelOK(rom, frames, t)
  BY <1>3, <1>5 DEF LevelsOK
<1>14. ASSUME OnFirstBranch(rom, n), Depth(rom, n) < Incr
       PROVE  IF o = 0 THEN p = -1 ELSE IsIndex(p, o)
  <2>1. Depth(rom, n) = t
    BY <1>3, <1>13 DEF LevelOK
  <2>2. t < Incr /\ top < capacity
    BY <1>3, <1>14, <2>1, IncrAssumption
  <2>3. p = head[t]
    BY <1>3, <2>2 DEF Peek
  <2>4. HeadOK(t)
    BY <1>3, <1>5, <2>2 DEF HeadsOK
  <2>5. CASE t = 1
    <3>1. o = 0
      BY <1>3, <1>13, <2>5 DEF LevelOK
    <3>2. QED
      BY <2>3, <2>4, <2>5, <3>1 DEF HeadOK
  <2>6. CASE t # 1
    <3> DEFINE q == frames[t - 1].node
               j == frames[t - 1].k - 1
    <3>1. /\ o = q /\ j \in 1..Len(rom.params[q])
          /\ rom.params[q][j] = LevelStart(rom, n)
      BY <1>3, <1>13, <2>6 DEF LevelOK
    <3>2. q \in rom.nodes /\ q # 0
      <4> DEFINE R == [node : rom.nodes, k : Nat]
      <4>1. frames \in Seq(R) /\ t - 1 \in DOMAIN frames
        BY <1>3, <2>6
      <4> HIDE DEF R
      <4>2. frames[t - 1] \in R
        BY <4>1
      <4>3. q \in rom.nodes
        BY <4>2 DEF R
      <4>4. QED
        BY <1>3, <4>3, LinkShape
    <3>3. PICK i \in 1..Len(rom.params[q]) :
            rom.params[q][i] = LevelStart(rom, n) /\ \A l \in 1..(i - 1) : rom.params[q][l] = 0
      BY <1>14, <3>1, <3>2 DEF OnFirstBranch
    <3>4. i = j
      <4>1. \A l \in 1..Len(rom.params[q]) : rom.params[q][l] = LevelStart(rom, n) => l = j
        <5> HIDE DEF q, j, n
        <5>1. rom \in Roms /\ n \in rom.nodes
          BY <1>3
        <5>2. QED
          BY <3>1, <3>2, <5>1, OwnerUnique
      <4>2. QED
        BY <3>3, <4>1
    <3>5. Clear(rom, q, j)
      BY <3>3, <3>4 DEF Clear
    <3>6. IsIndex(head[t], q)
      BY <2>4, <2>6, <3>5 DEF HeadOK
    <3>7. QED
      BY <2>3, <3>1, <3>2, <3>6
  <2>7. QED
    BY <2>5, <2>6
<1>15. ParentsOK'
  <2>1. SUFFICES ASSUME NEW i \in DOMAIN entries' PROVE ParentOK(i)'
    BY DEF ParentsOK
  <2>2. CASE i \in DOMAIN entries
    BY <1>12, <2>2
  <2>3. CASE i \notin DOMAIN entries
    <3>1. entries'[i].node = n /\ entries'[i].parent = p
      BY <1>7, <2>1, <2>3
    <3>2. OnFirstBranch(rom, n) /\ Depth(rom, n) < Incr /\ o # 0
            => p \in DOMAIN entries' /\ entries'[p].node = o
      BY <1>8, <1>14
    <3>3. QED
      BY <1>1, <1>14, <3>1, <3>2 DEF ParentOK, IsIndex
  <2>4. QED
    BY <2>2, <2>3
<1>16. QED
  BY <1>9, <1>10, <1>11, <1>15 DEF PInv

\* Before the second walk, -1 is pushed for the top level.
LEMMA EndCountParents ==
    ASSUME IInv, PInv, EndCount
    PROVE  PInv'
<1>1. /\ frames = <<>> /\ Push(-1) /\ frames' = <<Frame(1, 0)>>
      /\ UNCHANGED <<rom, entries>>
  BY DEF EndCount
<1>2. rom \in Roms /\ top = 0 /\ capacity \in Nat /\ (capacity = 0 \/ capacity >= Incr)
  BY <1>1 DEF IInv, TypeOK, StackOK
<1>3. DOMAIN frames' = {1} /\ Len(frames') = 1 /\ frames'[1].node = 1 /\ frames'[1].k = 0
  BY <1>1 DEF Frame
<1>4. LevelsOK(rom', frames')
  <2>1. Depth(rom, 1) = 1 /\ BranchOwner(rom, 1) = 0
    BY <1>2, FirstLevel
  <2>2. LevelOK(rom, frames', 1)
    BY <1>3, <2>1 DEF LevelOK
  <2>3. QED
    BY <1>1, <1>3, <2>2 DEF LevelsOK
<1>5. 1 < Incr => head'[1] = -1
  <2>1. SUFFICES ASSUME 1 < Incr PROVE head'[1] = -1
    OBVIOUS
  <2> DEFINE c == IF top = capacity THEN capacity + Incr ELSE capacity
  <2>2. c \in Nat /\ c >= Incr
    <3>1. capacity \in Nat /\ Incr \in Nat
      BY <1>2, IncrAssumption
    <3>2. QED
      BY <1>2, <3>1
  <2>3. head' = [i \in 0..(c - 1) |-> IF i = top + 1 THEN -1
                                     ELSE IF i < capacity THEN head[i] ELSE 0]
    BY <1>1 DEF Push
  <2> HIDE DEF c
  <2>4. 1 \in 0..(c - 1) /\ top + 1 = 1
    BY <1>2, <2>1, <2>2, IncrAssumption
  <2>5. QED
    BY <2>3, <2>4
<1>6. HeadsOK'
  BY <1>3, <1>5 DEF HeadsOK, HeadOK
<1>7. LastIndexOK'
  BY <1>3 DEF LastIndexOK, Current
<1>8. QED
  BY <1>1, <1>4, <1>6, <1>7, KeptEntries

\* The start of a scan does, as there are no entries.
LEMMA StartParents ==
    ASSUME IInv, PInv, StartScan
    PROVE  PInv'
<1>1. phase' = "count" /\ DOMAIN entries' = {}
  BY DEF StartScan
<1>2. QED
  BY <1>1 DEF PInv, ParentsOK, Distinct

\* The parents of the entries are inductive too.
THEOREM ParentsInductive == Spec => []PInv
<1>1. Init => PInv
  <2>1. SUFFICES ASSUME Init PROVE PInv
    OBVIOUS
  <2>2. phase = "idle" /\ DOMAIN entries = {}
    BY <2>1 DEF Init
  <2>3. QED
    BY <2>2 DEF PInv, ParentsOK, Distinct
<1>2. IInv /\ IInv' /\ PInv /\ [Next]_vars => PInv'
  <2>1. SUFFICES ASSUME IInv, IInv', PInv, [Next]_vars PROVE PInv'
    OBVIOUS
  <2>2. CASE StartScan
    BY <2>1, <2>2, StartParents
  <2>3. CASE CountInterface
    BY <2>1, <2>3, EnterParents
  <2>4. CASE CollectInterface
    <3>1. phase' = "collect"
      BY <2>4 DEF CollectInterface
    <3>2. Distinct'
      BY <2>1, <3>1 DEF IInv, Collecting
    <3>3. QED
      BY <2>1, <2>4, <3>2, CollectParents
  <2>5. CASE SkipParam
    BY <2>1, <2>5, SkipParents
  <2>6. CASE Branch
    BY <2>1, <2>6, BranchParents
  <2>7. CASE NextInterface
    BY <2>1, <2>7, FollowParents
  <2>8. CASE EndOfLevel
    BY <2>1, <2>8, EndParents
  <2>9. CASE EndCount
    BY <2>1, <2>9, EndCountParents
  <2>10. CASE EndScan \/ StackAllocFails
    <3>1. phase' # "collect" /\ UNCHANGED <<rom, entries>>
      BY <2>10 DEF EndScan, StackAllocFails
    <3>2. QED
      BY <2>1, <3>1, KeptEntries
  <2>11. CASE UNCHANGED vars
    <3>1. UNCHANGED <<phase, rom, frames, entries, index, head>>
      BY <2>11 DEF vars, stackVars
    <3>2. phase = "collect" => HeadsOK' /\ LastIndexOK'
      BY <2>1, <3>1 DEF PInv, HeadsOK, HeadOK, LastIndexOK, IsIndex, Current
    <3>3. QED
      BY <2>1, <3>1, <3>2, KeptEntries DEF PInv
  <2>12. QED
    BY <2>1, <2>2, <2>3, <2>4, <2>5, <2>6, <2>7, <2>8, <2>9, <2>10, <2>11 DEF Next, WalkStep
<1>3. QED
  BY <1>1, <1>2, Inductive, PTL DEF Spec

\* On the first branch of its owner, and less deep than the stack's increment,
\* an interface gets the right dfh_parent: for lists of any size and shape.
THEOREM ParentsAreRight == Spec => []FirstBranchParent
<1>1. PInv => FirstBranchParent
  <2>1. SUFFICES ASSUME PInv, NEW i \in DOMAIN entries,
                        OnFirstBranch(rom, entries[i].node), Depth(rom, entries[i].node) < Incr
                 PROVE  RightParent(i)
    BY DEF FirstBranchParent
  <2> DEFINE o == BranchOwner(rom, entries[i].node)
  <2>2. ParentOK(i) /\ Distinct
    BY <2>1 DEF PInv, ParentsOK
  <2>3. CASE o = 0
    BY <2>1, <2>2, <2>3 DEF ParentOK, RightParent
  <2>4. CASE o # 0
    <3>1. entries[i].parent \in DOMAIN entries /\ entries[entries[i].parent].node = o
      BY <2>1, <2>2, <2>4 DEF ParentOK, IsIndex
    <3>2. IndexOf(o) = entries[i].parent
      BY <2>2, <3>1 DEF IndexOf, Distinct
    <3>3. QED
      BY <2>4, <3>2 DEF RightParent
  <2>5. QED
    BY <2>3, <2>4
<1>2. QED
  BY <1>1, ParentsInductive, PTL
=============================================================================
