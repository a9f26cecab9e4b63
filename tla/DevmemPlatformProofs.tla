------------------------ MODULE DevmemPlatformProofs ------------------------
(***************************************************************************)
(* Sessions on the devmem platform are right for every page size, every    *)
(* range of numbers, every placement of the mapping and every set of       *)
(* argument lists, lists of any length included.  Facts about the parser's *)
(* loop are proved by induction on the number of options parsed.           *)
(***************************************************************************)
EXTENDS DevmemPlatform, TLAPS, WellFoundedInduction

Options == [opt : Names, val : Nat \cup {Text}]

\* Induction, for a set instead of a predicate: of the numbers outside the set
\* there would be a least one.
LEMMA NatSetInduction ==
    ASSUME NEW S, 0 \in S, \A n \in Nat : n \in S => n + 1 \in S
    PROVE  \A n \in Nat : n \in S
<1> DEFINE T == {n \in Nat : n \notin S}
           R == OpToRel(<, Nat)
<1>1. SUFFICES ASSUME T # {} PROVE FALSE
  OBVIOUS
<1>2. IsWellFoundedOn(R, Nat)
  BY NatLessThanWellFounded, Zenon
<1> HIDE DEF R
<1>3. PICK m \in T : \A y \in T : <<y, m>> \notin R
  BY <1>1, <1>2, WFMin
<1>4. \A x, y \in Nat : x < y => <<x, y>> \in R
  BY DEF R, OpToRel
<1>5. m \in Nat /\ m - 1 \in Nat /\ m = (m - 1) + 1
  OBVIOUS
<1>6. <<m - 1, m>> \in R
  BY <1>4, <1>5
<1>7. m - 1 \notin T
  BY <1>3, <1>6
<1>8. m - 1 \in S
  BY <1>5, <1>7
<1>9. QED
  BY <1>5, <1>8

\* The loop of devmem_parse_args over a list: f[i] are the settings after i
\* options, if they are those of the program before the first.
IsRun(f, c, argv, n) ==
    f = [i \in 0..n |-> IF i = 0 THEN c ELSE ParseOption(f[i - 1], argv[i])]

\* Such a function exists, however long the list.
LEMMA RunExists == \A c, argv : \A n \in Nat : \E f : IsRun(f, c, argv, n)
<1> SUFFICES ASSUME NEW c, NEW argv PROVE \A n \in Nat : \E f : IsRun(f, c, argv, n)
  OBVIOUS
<1> DEFINE S == {n \in Nat : \E f : IsRun(f, c, argv, n)}
<1>1. 0 \in S
  <2>1. IsRun([i \in 0..0 |-> c], c, argv, 0)
    BY DEF IsRun
  <2>2. QED
    BY <2>1
<1>2. ASSUME NEW n \in Nat, n \in S PROVE n + 1 \in S
  <2>1. PICK f : IsRun(f, c, argv, n)
    BY <1>2
  <2> DEFINE g == [i \in 0..(n + 1) |->
                     IF i = n + 1 THEN ParseOption(f[n], argv[i]) ELSE f[i]]
  <2>2. ASSUME NEW i \in 0..(n + 1)
        PROVE  g[i] = IF i = 0 THEN c ELSE ParseOption(g[i - 1], argv[i])
    <3>1. CASE i = n + 1
      BY <3>1
    <3>2. CASE i \in 0..n
      <4>1. g[i] = f[i] /\ (i # 0 => g[i - 1] = f[i - 1])
        BY <3>2
      <4>2. f[i] = IF i = 0 THEN c ELSE ParseOption(f[i - 1], argv[i])
        BY <2>1, <3>2 DEF IsRun
      <4>3. QED
        BY <4>1, <4>2
    <3>3. QED
      BY <3>1, <3>2
  <2>3. IsRun(g, c, argv, n + 1)
    BY <2>2 DEF IsRun
  <2> HIDE DEF g
  <2>4. \E h : IsRun(h, c, argv, n + 1)
    BY <2>3
  <2>5. QED
    BY <2>4
<1> HIDE DEF S
<1>3. \A n \in Nat : n \in S
  BY <1>1, <1>2, NatSetInduction
<1>4. QED
  BY <1>3 DEF S

\* What ParseArgs computes: the last value of such a run.
LEMMA ParseArgsRun ==
    ASSUME NEW argv \in Seq(Options)
    PROVE  \E f : /\ ParseArgs(argv) = f[Len(argv)]
                  /\ f[0] = cfg
                  /\ \A i \in 1..Len(argv) : f[i] = ParseOption(f[i - 1], argv[i])
<1> DEFINE parsed[i \in 0..Len(argv)] ==
             IF i = 0 THEN cfg ELSE ParseOption(parsed[i - 1], argv[i])
<1>1. ParseArgs(argv) = parsed[Len(argv)]
  BY DEF ParseArgs
<1>2. Len(argv) \in Nat
  OBVIOUS
<1>3. \E f : f = [i \in 0..Len(argv) |->
                    IF i = 0 THEN cfg ELSE ParseOption(f[i - 1], argv[i])]
  <2>1. \E f : IsRun(f, cfg, argv, Len(argv))
    BY <1>2, RunExists
  <2>2. QED
    BY <2>1 DEF IsRun
<1>4. parsed = [i \in 0..Len(argv) |->
                  IF i = 0 THEN cfg ELSE ParseOption(parsed[i - 1], argv[i])]
  BY <1>3
<1> HIDE DEF parsed
<1>5. parsed[0] = cfg
  BY <1>2, <1>4
<1>6. \A i \in 1..Len(argv) : parsed[i] = ParseOption(parsed[i - 1], argv[i])
  BY <1>2, <1>4
<1>7. QED
  BY <1>1, <1>5, <1>6

-----------------------------------------------------------------------------
Settings == [span : 0..MaxLong, start : 0..MaxLong, entry : 0..MaxLong,
             single : BOOLEAN, erange : BOOLEAN]

\* What settings c have to do with the options G given since the last cleanup.
Fit(c, G) ==
    /\ ~c.single => "entry" \in G
    /\ c.span # 0 => "span" \in G
    /\ c.start # 0 => "start" \in G
    /\ "entry" \in G /\ "single" \notin G => ~c.single

\* devmem_parse_integer_arg returns a number that a long can hold.
LEMMA IntegerArgType ==
    ASSUME NEW c \in Settings, NEW v \in Nat \cup {Text}
    PROVE  IntegerArg(c, v) \in 0..MaxLong /\ LeavesErange(c, v) \in BOOLEAN
<1>1. IntegerArg(c, v) \in 0..MaxLong
  BY BoundsAssumption DEF IntegerArg, Settings
<1>2. LeavesErange(c, v) \in BOOLEAN
  BY DEF LeavesErange
<1>3. QED
  BY <1>1, <1>2

\* One iteration of devmem_parse_args keeps settings in their types and fitting.
LEMMA ParseOptionFits ==
    ASSUME NEW c \in Settings, NEW G, Fit(c, G), NEW o \in Options
    PROVE  /\ ParseOption(c, o) \in Settings
           /\ Fit(ParseOption(c, o), G \cup {o.opt})
<1>1. PICK n \in 0..MaxLong : n = IntegerArg(c, o.val)
  BY IntegerArgType DEF Options
<1>2. PICK e \in BOOLEAN : e = LeavesErange(c, o.val)
  BY IntegerArgType DEF Options
<1> DEFINE d == [c EXCEPT !.erange = e]
<1>3. d \in Settings /\ Fit(d, G)
  BY DEF Settings, Fit
<1>4. ParseOption(c, o) =
        CASE o.opt = "span"   -> [d EXCEPT !.span = n]
          [] o.opt = "start"  -> [d EXCEPT !.start = n]
          [] o.opt = "entry"  -> [d EXCEPT !.entry = n, !.single = FALSE]
          [] o.opt = "single" -> [c EXCEPT !.single = TRUE]
          [] o.opt = "path"   -> c
  BY <1>1, <1>2 DEF ParseOption
<1> HIDE DEF d
<1> USE DEF Settings, Fit
<1>5. CASE o.opt = "span"
  BY <1>3, <1>4, <1>5
<1>6. CASE o.opt = "start"
  BY <1>3, <1>4, <1>6
<1>7. CASE o.opt = "entry"
  <2> DEFINE b == [d EXCEPT !.entry = n]
  <2>1. b \in Settings /\ Fit(b, G)
    BY <1>3
  <2>2. ParseOption(c, o) = [b EXCEPT !.single = FALSE]
    BY <1>4, <1>7
  <2> HIDE DEF b
  <2>3. [b EXCEPT !.single = FALSE] \in Settings
    BY <2>1
  <2>4. Fit([b EXCEPT !.single = FALSE], G \cup {"entry"})
    BY <2>1
  <2>5. QED
    BY <1>7, <2>2, <2>3, <2>4
<1>8. CASE o.opt = "single"
  <2>1. [c EXCEPT !.single = TRUE] \in Settings
    OBVIOUS
  <2>2. Fit([c EXCEPT !.single = TRUE], G \cup {"single"})
    OBVIOUS
  <2>3. QED
    BY <1>4, <1>8, <2>1, <2>2
<1>9. CASE o.opt = "path"
  BY <1>4, <1>9
<1>10. QED
  BY <1>5, <1>6, <1>7, <1>8, <1>9 DEF Options, Names

\* And so does the whole of it, for a list of any length.
LEMMA ParseArgsFits ==
    ASSUME cfg \in Settings, Fit(cfg, given), NEW argv \in Seq(Options)
    PROVE  /\ ParseArgs(argv) \in Settings
           /\ Fit(ParseArgs(argv), given \cup {argv[i].opt : i \in 1..Len(argv)})
<1>1. PICK f : /\ ParseArgs(argv) = f[Len(argv)]
               /\ f[0] = cfg
               /\ \A i \in 1..Len(argv) : f[i] = ParseOption(f[i - 1], argv[i])
  BY ParseArgsRun
<1> DEFINE seen(i) == given \cup {argv[k].opt : k \in 1..i}
           Good(i) == f[i] \in Settings /\ Fit(f[i], seen(i))
           S == {i \in Nat : i <= Len(argv) => Good(i)}
<1>2. Len(argv) \in Nat /\ \A i \in 1..Len(argv) : argv[i] \in Options
  OBVIOUS
<1>3. 0 \in S
  <2>1. seen(0) = given
    OBVIOUS
  <2>2. QED
    BY <1>1, <2>1
<1>4. ASSUME NEW n \in Nat, n \in S PROVE n + 1 \in S
  <2>1. SUFFICES ASSUME n + 1 <= Len(argv) PROVE Good(n + 1)
    OBVIOUS
  <2>2. Good(n)
    BY <1>2, <1>4, <2>1
  <2>3. n + 1 \in 1..Len(argv) /\ argv[n + 1] \in Options
    BY <1>2, <2>1
  <2>4. f[n + 1] = ParseOption(f[n], argv[n + 1])
    BY <1>1, <2>3
  <2>5. seen(n + 1) = seen(n) \cup {argv[n + 1].opt}
    OBVIOUS
  <2> HIDE DEF seen
  <2>6. /\ ParseOption(f[n], argv[n + 1]) \in Settings
        /\ Fit(ParseOption(f[n], argv[n + 1]), seen(n) \cup {argv[n + 1].opt})
    BY <2>2, <2>3, ParseOptionFits
  <2>7. QED
    BY <2>4, <2>5, <2>6
<1> HIDE DEF S, Good
<1>5. \A n \in Nat : n \in S
  BY <1>3, <1>4, NatSetInduction
<1>6. Good(Len(argv))
  BY <1>2, <1>5 DEF S
<1>7. QED
  BY <1>1, <1>6 DEF Good

-----------------------------------------------------------------------------
TypeOK ==
    /\ cfg \in Settings
    /\ handle \in BOOLEAN /\ fdOpen \in BOOLEAN
    /\ mmapPtr \in Int /\ base \in Int
    /\ mapping \in [len : Int, off : Int]
    /\ vecSize \in Nat /\ calls \in Nat /\ sweptTo \in Nat
    /\ pages \subseteq AppPages
    /\ status \in {"down", "up", "failed"}

\* In a session everything that map, scan and validation derived from the
\* settings is still in place, and nobody else uses the mapping's addresses;
\* outside of one the pointer is NULL or MAP_FAILED.
UpConsistent ==
    /\ status # "up" => mmapPtr \in {0, -1}
    /\ status = "up" =>
        /\ Valid(cfg) /\ Room(RoundUp(cfg.span))
        /\ handle /\ mmapPtr = MapBase
        /\ mapping = Map(cfg) /\ base = FirstAddress(cfg)

\* The inductive invariant.  That cleanup unmaps the whole mapping needs the
\* span to be the one that was mapped, and that it unmaps no more than that the
\* addresses to be the library's own, hence UpConsistent.
IInv ==
    /\ TypeOK
    /\ Fit(cfg, given)
    /\ UpConsistent
    /\ ResourcesBalance

\* Page arithmetic.
LEMMA PageOffsetRange == \A a \in Nat : PageOffset(a) \in 0..(Page - 1)
BY PageAssumption DEF PageOffset

\* Rounding up to a page loses nothing.
LEMMA RoundUpCovers == \A n \in Nat : RoundUp(n) \in Nat /\ RoundUp(n) >= n
BY PageAssumption DEF RoundUp

\* What devmem_map_mmio maps for valid settings is never empty.
LEMMA MapType ==
    ASSUME NEW c \in Settings
    PROVE  /\ Map(c) \in [len : Int, off : Int]
           /\ Map(c).len = RoundUp(c.span) /\ Map(c).off = c.start - PageOffset(c.start)
           /\ FirstAddress(c) \in Int
           /\ Valid(c) => Map(c) # NoMapping
<1>1. c.span \in Nat /\ c.start \in Nat /\ c.entry \in Nat
  BY BoundsAssumption DEF Settings
<1>2. RoundUp(c.span) \in Nat /\ RoundUp(c.span) >= c.span
  BY <1>1, RoundUpCovers
<1>3. PageOffset(c.start) \in Int
  BY <1>1, PageOffsetRange, PageAssumption
<1>4. Map(c) = [len |-> RoundUp(c.span), off |-> c.start - PageOffset(c.start)]
  BY DEF Map
<1>5. FirstAddress(c) \in Int
  BY <1>1, <1>3, MapAssumption DEF FirstAddress
<1>6. Valid(c) => RoundUp(c.span) # 0
  BY <1>1, <1>2 DEF Valid
<1>7. QED
  BY <1>1, <1>2, <1>3, <1>4, <1>5, <1>6 DEF NoMapping

\* The settings that a call of fpga_platform_init works with.
LEMMA Configured ==
    ASSUME IInv, NEW argv \in Argvs, Begin(argv)
    PROVE  /\ calls' \in Nat /\ status # "up"
           /\ ParseArgs(argv) \in Settings /\ Fit(ParseArgs(argv), given')
<1>1. argv \in Seq(Options)
  BY ArgvsAssumption DEF Options
<1>2. cfg \in Settings /\ Fit(cfg, given) /\ calls \in Nat
  BY DEF IInv, TypeOK
<1>3. /\ calls' = calls + 1 /\ status # "up"
      /\ given' = given \cup {argv[i].opt : i \in 1..Len(argv)}
  BY DEF Begin
<1>4. QED
  BY <1>1, <1>2, <1>3, ParseArgsFits

\* Every error path of fpga_platform_init, by what it leaves behind.
LEMMA FailedStep ==
    ASSUME IInv, NEW argv \in Argvs, Begin(argv),
           cfg' \in Settings, Fit(cfg', given'),
           handle' \in BOOLEAN, mmapPtr' \in {0, -1},
           fdOpen' = fdOpen, mapping' = mapping, base' = base, vecSize' = vecSize,
           status' = "failed"
    PROVE  IInv'
<1>1. /\ calls' \in Nat /\ status # "up"
      /\ pages' = pages /\ sweptTo' = sweptTo
  BY Configured DEF Begin
<1>2. TypeOK'
  BY <1>1 DEF IInv, TypeOK
<1>3. ResourcesBalance'
  BY <1>1 DEF IInv, ResourcesBalance, NoMapping
<1>4. QED
  BY <1>2, <1>3 DEF IInv, UpConsistent

\* Clearing errno leaves the settings fit.
LEMMA ClearedFits ==
    ASSUME NEW c \in Settings, NEW G, Fit(c, G)
    PROVE  [c EXCEPT !.erange = FALSE] \in Settings /\ Fit([c EXCEPT !.erange = FALSE], G)
BY DEF Settings, Fit

\* An init that refuses its arguments keeps the invariant.
LEMMA RejectedStep ==
    ASSUME IInv, NEW argv \in Argvs, InitRejected(argv) PROVE IInv'
<1>1. Begin(argv) /\ cfg' = ParseArgs(argv)
  BY DEF InitRejected
<1>2. cfg' \in Settings /\ Fit(cfg', given')
  BY <1>1, Configured
<1>3. /\ handle' = handle /\ fdOpen' = fdOpen /\ mmapPtr' = mmapPtr /\ mapping' = mapping
      /\ base' = base /\ vecSize' = vecSize /\ status' = "failed"
  BY DEF InitRejected
<1>4. handle \in BOOLEAN /\ mmapPtr \in {0, -1}
  BY <1>1, Configured DEF IInv, TypeOK, UpConsistent
<1>5. QED
  BY <1>1, <1>2, <1>3, <1>4, FailedStep

\* An init whose open fails keeps it.
LEMMA OpenFailsStep ==
    ASSUME IInv, NEW argv \in Argvs, InitOpenFails(argv) PROVE IInv'
<1>1. Begin(argv) /\ cfg' = [ParseArgs(argv) EXCEPT !.erange = FALSE]
  BY DEF InitOpenFails
<1>2. cfg' \in Settings /\ Fit(cfg', given')
  BY <1>1, Configured, ClearedFits
<1>3. /\ handle' = FALSE /\ fdOpen' = fdOpen /\ mmapPtr' = mmapPtr /\ mapping' = mapping
      /\ base' = base /\ vecSize' = vecSize /\ status' = "failed"
  BY DEF InitOpenFails
<1>4. mmapPtr \in {0, -1}
  BY <1>1, Configured DEF IInv, UpConsistent
<1>5. QED
  BY <1>1, <1>2, <1>3, <1>4, FailedStep

\* An init whose mmap fails keeps it.
LEMMA MapFailsStep ==
    ASSUME IInv, NEW argv \in Argvs, InitMapFails(argv) PROVE IInv'
<1>1. Begin(argv) /\ cfg' = [ParseArgs(argv) EXCEPT !.erange = FALSE]
  BY DEF InitMapFails
<1>2. cfg' \in Settings /\ Fit(cfg', given')
  BY <1>1, Configured, ClearedFits
<1>3. /\ handle' = TRUE /\ fdOpen' = fdOpen /\ mmapPtr' = -1 /\ mapping' = mapping
      /\ base' = base /\ vecSize' = vecSize /\ status' = "failed"
  BY DEF InitMapFails
<1>4. handle' \in BOOLEAN /\ mmapPtr' \in {0, -1}
  BY <1>3
<1>5. QED
  BY <1>1, <1>2, <1>3, <1>4, FailedStep

\* An init that succeeds keeps it.
LEMMA SucceedsStep ==
    ASSUME IInv, NEW argv \in Argvs, InitSucceeds(argv) PROVE IInv'
<1>1. /\ Begin(argv) /\ cfg' = ParseArgs(argv) /\ Valid(cfg')
      /\ Room(RoundUp(cfg'.span))
      /\ pages' = pages /\ sweptTo' = sweptTo
  BY DEF InitSucceeds, Begin
<1>2. cfg' \in Settings /\ Fit(cfg', given') /\ calls' \in Nat
  BY <1>1, Configured
<1>3. /\ handle' = TRUE /\ fdOpen' = TRUE /\ mmapPtr' = MapBase
      /\ mapping' = Map(cfg') /\ base' = FirstAddress(cfg')
      /\ vecSize' = 1 /\ status' = "up"
  BY DEF InitSucceeds
<1>4. /\ Map(cfg') \in [len : Int, off : Int] /\ FirstAddress(cfg') \in Int
      /\ Map(cfg') # NoMapping
  BY <1>1, <1>2, MapType
<1>5. TypeOK'
  <2>1. handle' \in BOOLEAN /\ fdOpen' \in BOOLEAN
    BY <1>3
  <2>2. /\ mmapPtr' \in Int /\ base' \in Int /\ vecSize' \in Nat
        /\ mapping' \in [len : Int, off : Int]
    BY <1>3, <1>4, MapAssumption
  <2>3. QED
    BY <1>1, <1>2, <1>3, <2>1, <2>2 DEF IInv, TypeOK
<1>6. UpConsistent'
  <2>1. Room(RoundUp(cfg.span))'
    BY <1>1 DEF Room, RoundUp
  <2>2. QED
    BY <1>1, <1>3, <2>1
    DEF UpConsistent, Valid, Map, FirstAddress, RoundUp, PageOffset, SizeMod
<1>7. ResourcesBalance'
  BY <1>1, <1>3, <1>4 DEF IInv, ResourcesBalance, NoMapping
<1>8. QED
  BY <1>2, <1>5, <1>6, <1>7 DEF IInv

\* What fpga_platform_cleanup leaves of the settings fits a new session.
LEMMA ResetFits ==
    ASSUME NEW c \in Settings
    PROVE  ResetSettings(c) \in Settings /\ Fit(ResetSettings(c), {})
<1> DEFINE c1 == [c EXCEPT !.span = 0]
           c2 == [c1 EXCEPT !.start = 0]
           c3 == [c2 EXCEPT !.single = TRUE]
           c4 == [c3 EXCEPT !.erange = FALSE]
<1>1. ResetSettings(c) = c4
  BY DEF ResetSettings
<1>2. c1 \in Settings /\ c1.span = 0
  BY BoundsAssumption DEF Settings
<1> HIDE DEF c1
<1>3. c2 \in Settings /\ c2.span = 0 /\ c2.start = 0
  BY <1>2, BoundsAssumption DEF Settings
<1> HIDE DEF c2
<1>4. c3 \in Settings /\ c3.span = 0 /\ c3.start = 0 /\ c3.single = TRUE
  BY <1>3 DEF Settings
<1> HIDE DEF c3
<1>5. c4 \in Settings /\ c4.span = 0 /\ c4.start = 0 /\ c4.single = TRUE
  BY <1>4 DEF Settings
<1> HIDE DEF c4
<1>6. Fit(c4, {})
  BY <1>5 DEF Fit
<1>7. QED
  BY <1>1, <1>5, <1>6

\* The munmap of cleanup frees all of the mapping, and pages of the rest of the
\* process at most below sweptTo.
LEMMA CleanupUnmaps ==
    ASSUME IInv, Cleanup
    PROVE  /\ mapping' = NoMapping
           /\ pages' \subseteq AppPages /\ sweptTo' \in Nat
           /\ \A a \in AppPages \ pages' : a < sweptTo'
<1> DEFINE n == RoundUp(cfg.span)
<1>1. cfg.span \in Nat /\ n \in Nat
  BY RoundUpCovers, BoundsAssumption DEF IInv, TypeOK, Settings
<1>2. /\ pages \subseteq AppPages /\ sweptTo \in Nat
      /\ \A a \in AppPages \ pages : a < sweptTo
  BY DEF IInv, TypeOK, ResourcesBalance
<1>3. /\ pages' = pages \ Unmap
      /\ mapping' = IF MapBase..(MapBase + mapping.len - 1) \subseteq Unmap
                    THEN NoMapping ELSE mapping
      /\ sweptTo' = IF status = "failed" /\ mmapPtr = 0 /\ n > sweptTo
                    THEN n ELSE sweptTo
      /\ status \in {"up", "failed"}
  BY DEF Cleanup
<1>4. Unmap = IF mmapPtr < 0 \/ cfg.span = 0 \/ mmapPtr + n > TaskSize THEN {}
              ELSE mmapPtr..(mmapPtr + n - 1)
  BY DEF Unmap, Munmap
<1> HIDE DEF n
<1>5. CASE status = "up"
  <2>1. /\ mmapPtr = MapBase /\ mapping.len = n /\ cfg.span > 0
        /\ MapBase + n <= TaskSize
        /\ \A a \in pages : a + Page <= MapBase \/ MapBase + n <= a
    BY <1>5, MapType DEF IInv, TypeOK, UpConsistent, Valid, Room, n
  <2>2. Unmap = MapBase..(MapBase + n - 1)
    BY <1>1, <1>4, <2>1, MapAssumption, AppAssumption
  <2>3. pages' = pages /\ sweptTo' = sweptTo /\ mapping' = NoMapping
    <3>1. \A a \in pages : a \notin Unmap
      BY <1>1, <1>2, <2>1, <2>2, MapAssumption, PageAssumption, AppAssumption
    <3>2. QED
      BY <1>3, <1>5, <2>1, <2>2, <3>1
  <2>4. QED
    BY <1>2, <2>3
<1>6. CASE status = "failed"
  <2>1. mapping = NoMapping /\ mmapPtr \in {0, -1}
    BY <1>6 DEF IInv, ResourcesBalance, UpConsistent
  <2>2. mapping' = NoMapping
    BY <1>3, <2>1
  <2>3. sweptTo' \in Nat /\ sweptTo <= sweptTo'
    BY <1>1, <1>2, <1>3
  <2>4. \A a \in AppPages : a \in Unmap => a < sweptTo'
    BY <1>1, <1>2, <1>3, <1>4, <1>6, <2>1, AppAssumption
  <2>5. ASSUME NEW a \in AppPages, a \notin pages' PROVE a < sweptTo'
    <3>1. a \notin pages \/ a \in Unmap
      BY <1>3, <2>5
    <3>2. a \in Nat
      BY AppAssumption
    <3>3. QED
      BY <1>2, <2>3, <2>4, <3>1, <3>2
  <2>6. pages' \subseteq AppPages
    BY <1>2, <1>3
  <2>7. QED
    BY <2>2, <2>3, <2>5, <2>6
<1>7. QED
  BY <1>3, <1>5, <1>6

\* So does cleanup.
LEMMA CleanupStep == ASSUME IInv, Cleanup PROVE IInv'
<1>1. /\ fdOpen' = (fdOpen /\ ~handle)
      /\ cfg' = ResetSettings(cfg)
      /\ handle' = FALSE /\ mmapPtr' = 0 /\ vecSize' = 0 /\ base' = 0
      /\ status' = "down" /\ given' = {} /\ calls' = calls
  BY DEF Cleanup
<1>2. cfg' \in Settings /\ Fit(cfg', given')
  BY <1>1, ResetFits DEF IInv, TypeOK
<1>3. /\ mapping' = NoMapping
      /\ pages' \subseteq AppPages /\ sweptTo' \in Nat
      /\ \A a \in AppPages \ pages' : a < sweptTo'
  BY CleanupUnmaps
<1>4. fdOpen' = FALSE
  BY <1>1 DEF IInv, ResourcesBalance, UpConsistent
<1>5. TypeOK'
  <2>1. handle' \in BOOLEAN /\ fdOpen' \in BOOLEAN
    BY <1>1, <1>4
  <2>2. QED
    BY <1>1, <1>2, <1>3, <2>1 DEF IInv, TypeOK, NoMapping
<1>6. UpConsistent' /\ ResourcesBalance'
  BY <1>1, <1>3, <1>4 DEF UpConsistent, ResourcesBalance, NoMapping
<1>7. QED
  BY <1>2, <1>5, <1>6 DEF IInv

\* And so does an errno that the application leaves.
LEMMA AppErrnoStep == ASSUME IInv, AppErrno PROVE IInv'
<1>1. PICK e \in BOOLEAN : cfg' = [cfg EXCEPT !.erange = e]
  BY DEF AppErrno
<1>2. UNCHANGED <<handle, fdOpen, mmapPtr, mapping, pages, base, vecSize, status,
                  given, sweptTo, calls>>
  BY DEF AppErrno
<1>3. /\ cfg' \in Settings
      /\ cfg'.span = cfg.span /\ cfg'.start = cfg.start /\ cfg'.entry = cfg.entry
      /\ cfg'.single = cfg.single
  BY <1>1 DEF IInv, TypeOK, Settings
<1>4. TypeOK'
  BY <1>2, <1>3 DEF IInv, TypeOK
<1>5. Fit(cfg', given') /\ ResourcesBalance'
  BY <1>2, <1>3 DEF IInv, Fit, ResourcesBalance, NoMapping
<1>6. UpConsistent'
  <2>1. Valid(cfg) => Valid(cfg')
    BY <1>3 DEF Valid
  <2>2. Map(cfg') = Map(cfg) /\ FirstAddress(cfg') = FirstAddress(cfg)
    BY <1>3 DEF Map, FirstAddress
  <2>3. Room(RoundUp(cfg.span)) => Room(RoundUp(cfg.span))'
    BY <1>2, <1>3 DEF Room, RoundUp
  <2>4. UpConsistent
    BY DEF IInv
  <2>5. /\ Valid(cfg)' = Valid(cfg') /\ Map(cfg)' = Map(cfg')
        /\ FirstAddress(cfg)' = FirstAddress(cfg')
    BY DEF Valid, Map, FirstAddress, RoundUp, PageOffset, SizeMod
  <2>6. QED
    BY <1>2, <2>1, <2>2, <2>3, <2>4, <2>5 DEF UpConsistent
<1>7. QED
  BY <1>4, <1>5, <1>6 DEF IInv

\* The invariant is inductive, and holds in every state of every run of the
\* program: over any number of sessions, failed calls in between included.
THEOREM Inductive == Spec => []IInv
<1>1. Init => IInv
  <2> SUFFICES ASSUME Init PROVE IInv
    OBVIOUS
  <2>1. cfg \in Settings
    BY BoundsAssumption DEF Init, Settings
  <2>2. TypeOK
    <3>1. handle \in BOOLEAN /\ fdOpen \in BOOLEAN
      BY DEF Init
    <3>2. QED
      BY <2>1, <3>1 DEF Init, TypeOK, NoMapping
  <2>3. Fit(cfg, given)
    BY DEF Init, Fit
  <2>4. QED
    BY <2>2, <2>3 DEF Init, IInv, UpConsistent, ResourcesBalance
<1>2. IInv /\ [Next]_vars => IInv'
  <2> SUFFICES ASSUME IInv, [Next]_vars PROVE IInv'
    OBVIOUS
  <2>1. CASE UNCHANGED vars
    <3>1. TypeOK' /\ Fit(cfg, given)' /\ ResourcesBalance'
      BY <2>1 DEF vars, IInv, TypeOK, ResourcesBalance, Fit, NoMapping
    <3>2. UpConsistent'
      BY <2>1 DEF vars, IInv, UpConsistent, Valid, Map, FirstAddress, RoundUp,
                  PageOffset, SizeMod, Room
    <3>3. QED
      BY <3>1, <3>2 DEF IInv
  <2>2. QED
    BY <2>1, RejectedStep, OpenFailsStep, MapFailsStep, SucceedsStep, CleanupStep,
       AppErrnoStep
    DEF Next
<1>3. QED
  BY <1>1, <1>2, PTL DEF Spec

\* The driver is open and mapped exactly in a session: no error path of
\* fpga_platform_init and no cleanup leaks either, and only the cleanup after
\* an init that failed before it mapped the driver takes pages from the rest of
\* the process, for every placement of these pages.
THEOREM ResourcesBalanced == Spec => []ResourcesBalance
<1>1. IInv => ResourcesBalance
  BY DEF IInv
<1>2. QED
  BY <1>1, Inductive, PTL

\* The page arithmetic of devmem_map_mmio, devmem_scan_interfaces and the
\* decoder cancels out for every page size and every start address.
THEOREM FirstAddressIsRight == Spec => []FirstAddressRight
<1>1. IInv => FirstAddressRight
  <2> SUFFICES ASSUME IInv, status = "up" PROVE FirstAddressRight
    BY DEF FirstAddressRight
  <2>1. cfg.start \in Nat /\ cfg.entry \in Nat /\ PageOffset(cfg.start) \in Int
    BY PageOffsetRange, PageAssumption, BoundsAssumption DEF IInv, TypeOK, Settings
  <2>2. /\ mmapPtr = MapBase /\ base = FirstAddress(cfg)
        /\ mapping.off = cfg.start - PageOffset(cfg.start)
    BY MapType DEF IInv, TypeOK, UpConsistent
  <2>3. QED
    BY <2>1, <2>2, MapAssumption DEF FirstAddressRight, FirstAddress, Physical, Decode
<1>2. QED
  BY <1>1, Inductive, PTL

\* The mapping covers the range asked for, but for the offset of the start
\* address in its page, for every page size.
THEOREM RangeIsMapped == Spec => []RangeMapped
<1>1. IInv => RangeMapped
  <2> SUFFICES ASSUME IInv, status = "up" PROVE RangeMapped
    BY DEF RangeMapped
  <2>1. cfg.start \in Nat /\ cfg.span \in Nat
    BY BoundsAssumption DEF IInv, TypeOK, Settings
  <2>2. PageOffset(cfg.start) \in Nat /\ RoundUp(cfg.span) \in Nat
        /\ RoundUp(cfg.span) >= cfg.span
    BY <2>1, PageOffsetRange, RoundUpCovers, PageAssumption
  <2>3. /\ mapping.off = cfg.start - PageOffset(cfg.start)
        /\ mapping.len = RoundUp(cfg.span)
    BY MapType DEF IInv, TypeOK, UpConsistent
  <2>4. QED
    BY <2>1, <2>2, <2>3 DEF RangeMapped
<1>2. QED
  BY <1>1, Inductive, PTL

\* A DFL walk starts in the range asked for: two numbers that a long can hold
\* cannot make the sum in devmem_validate_args wrap.
THEOREM EntryIsInRange == Spec => []EntryInRange
<1>1. IInv => EntryInRange
  <2> SUFFICES ASSUME IInv, status = "up", ~cfg.single PROVE EntryInRange
    BY DEF EntryInRange
  <2>1. /\ cfg.start \in 0..MaxLong /\ cfg.span \in 0..MaxLong
        /\ cfg.entry \in 0..MaxLong
    BY DEF IInv, TypeOK, Settings
  <2>2. cfg.entry >= cfg.start /\ cfg.entry < (cfg.start + cfg.span) % SizeMod
    BY DEF IInv, UpConsistent, Valid
  <2>3. (cfg.start + cfg.span) % SizeMod = cfg.start + cfg.span
    BY <2>1, BoundsAssumption DEF SizeMod
  <2>4. QED
    BY <2>1, <2>2, <2>3, BoundsAssumption DEF EntryInRange
<1>2. QED
  BY <1>1, Inductive, PTL

\* No setting outlives the cleanup of its session, and the mode is the one that
\* the options of the session select.
THEOREM SettingsAreOfSession == Spec => []SettingsOfSession
<1>1. IInv => SettingsOfSession
  BY DEF IInv, Fit, SettingsOfSession
<1>2. QED
  BY <1>1, Inductive, PTL
=============================================================================
