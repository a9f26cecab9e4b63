----------------------------- MODULE MCDflWalker -----------------------------
(***************************************************************************)
(* Instances of DflWalker.  A ROM with nodes 1..n is given by one link for *)
(* each node above 1: the lower node it follows on its level, or the one   *)
(* whose branch block points to it.  Every list has such a numbering.      *)
(***************************************************************************)
EXTENDS DflWalker, SequencesExt, FiniteSetsExt

CONSTANTS
    MaxNodes    \* bound: interfaces in a ROM without shared levels

Links(n) ==
    {f \in [2..n -> {"next", "branch"} \X (1..(n - 1))] :
        /\ \A m \in 2..n : f[m][2] < m
        /\ \A m, o \in 2..n : f[m] = f[o] /\ f[m][1] = "next" => m = o}

\* A node with an even number has a block of another id before its branches.
RomOf(n, f) ==
    [nodes |-> 1..n,
     at |-> [m \in 1..n |-> m],
     next |-> [m \in 1..n |->
                 IF \E o \in 2..n : f[o] = <<"next", m>>
                 THEN CHOOSE o \in 2..n : f[o] = <<"next", m>> ELSE 0],
     params |-> [m \in 1..n |->
                   (IF m % 2 = 0 THEN <<0>> ELSE <<>>) \o
                   SetToSortSeq({o \in 2..n : f[o] = <<"branch", m>>}, <)]]

SmallRoms == UNION {{RomOf(n, f) : f \in Links(n)} : n \in 1..MaxNodes}

\* An interface with two branches.
TwoBranches == {RomOf(3, [m \in 2..3 |-> <<"branch", 1>>])}

-----------------------------------------------------------------------------
(***************************************************************************)
(* Lists with shared levels, those of intel_fpga_api_hier_dfl_test.cpp:    *)
(* 878-956: headers 1..5, 6..10 and 11..15 are the levels, and a branch    *)
(* <<h, j>> is block j of header h, which opens the level below.           *)
(***************************************************************************)
Shared(branches) ==
    [next |-> [h \in 1..15 |-> IF h % 5 = 0 THEN 0 ELSE h + 1],
     params |-> [h \in 1..15 |-> [j \in 1..3 |->
                   IF <<h, j>> \notin branches THEN 0 ELSE IF h <= 5 THEN 6 ELSE 11]]]

\* A way is the links followed from the first header: 0 to the next one, j of
\* block j.
RECURSIVE HeaderOf(_, _), WaysFrom(_, _)
HeaderOf(d, w) ==
    IF w = <<>> THEN 1
    ELSE LET h == HeaderOf(d, Front(w))
         IN  IF Last(w) = 0 THEN d.next[h] ELSE d.params[h][Last(w)]
WaysFrom(d, w) ==
    IF HeaderOf(d, w) = 0 THEN {}
    ELSE {w} \cup UNION {WaysFrom(d, Append(w, j)) : j \in 0..3}

\* The ways, shorter ones first, numbered.
Before(v, w) ==
    \/ Len(v) < Len(w)
    \/ Len(v) = Len(w) /\ \E i \in 1..Len(v) :
          v[i] < w[i] /\ SubSeq(v, 1, i - 1) = SubSeq(w, 1, i - 1)

Unfold(d) ==
    LET ways == WaysFrom(d, <<>>)
        number == [w \in ways |-> 1 + Cardinality({v \in ways : Before(v, w)})]
        way == [n \in 1..Cardinality(ways) |-> CHOOSE w \in ways : number[w] = n]
        link(n, j) == LET w == Append(way[n], j) IN IF w \in ways THEN number[w] ELSE 0
    IN  [nodes |-> DOMAIN way,
         at |-> [n \in DOMAIN way |-> HeaderOf(d, way[n])],
         next |-> [n \in DOMAIN way |-> link(n, 0)],
         params |-> [n \in DOMAIN way |-> [j \in 1..3 |-> link(n, j)]]]

Test15 == Unfold(Shared({<<1, 1>>, <<4, 3>>}))
Test20 == Unfold(Shared({<<1, 1>>, <<6, 1>>, <<7, 2>>}))
Test25 == Unfold(Shared({<<1, 1>>, <<2, 2>>, <<7, 2>>}))
Test35 == Unfold(Shared({<<1, 1>>, <<2, 2>>, <<7, 2>>, <<8, 3>>}))

\* As many ways as the tests expect entries.
ASSUME ExpectedSizes ==
    /\ Cardinality(Test15.nodes) = 15 /\ Cardinality(Test20.nodes) = 20
    /\ Cardinality(Test25.nodes) = 25 /\ Cardinality(Test35.nodes) = 35

MCRoms == SmallRoms \cup {Test15, Test20, Test25, Test35}
=============================================================================
