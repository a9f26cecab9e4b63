-------------------------- MODULE UioPlatformProofs --------------------------
(***************************************************************************)
(* Sessions on the UIO platform are right for every set of argument lists, *)
(* lists of any length included, every number of descriptors and of calls. *)
(* Facts about the parser's loop are proved by induction on the number of  *)
(* options parsed.                                                         *)
(***************************************************************************)
EXTENDS UioPlatform, TLAPS, WellFoundedInduction

\* Induction, for a set instead of a predicate: of the numbers outside the set
\* there would be a least one.
LEMMA NatSetInduction ==
    ASSUME NEW S, 0 \in S, \A n \in Nat : n \in S => n + 1 \in S
    PROVE  \A n \in Nat : n \in S
<1> DEFINE T == {n \in Nat : n \notin S}
           R == OpToRel(<, Nat)
<1>1. SUFFICES ASSUME T # {} PROVE FALSE
  OBVIOUS
<1>2. IsWellFoundedOn(R, Nat)
  BY NatLessThanWellFounded, Zenon
<1> HIDE DEF R
<1>3. PICK m \in T : \A y \in T : <<y, m>> \notin R
  BY <1>1, <1>2, WFMin
<1>4. \A x, y \in Nat : x < y => <<x, y>> \in R
  BY DEF R, OpToRel
<1>5. m \in Nat /\ m - 1 \in Nat /\ m = (m - 1) + 1
  OBVIOUS
<1>6. <<m - 1, m>> \in R
  BY <1>4, <1>5
<1>7. m - 1 \notin T
  BY <1>3, <1>6
<1>8. m - 1 \in S
  BY <1>5, <1>7
<1>9. QED
  BY <1>5, <1>8

\* The loop of uio_parse_args over a list: f[i] are the settings after i
\* options, if they are those of the program before the first.
IsRun(f, c, argv, n) ==
    f = [i \in 0..n |-> IF i = 0 THEN c ELSE ParseOption(f[i - 1], argv[i])]

\* Such a function exists, however long the list.
LEMMA RunExists == \A c, argv : \A n \in Nat : \E f : IsRun(f, c, argv, n)
<1> SUFFICES ASSUME NEW c, NEW argv PROVE \A n \in Nat : \E f : IsRun(f, c, argv, n)
  OBVIOUS
<1> DEFINE S == {n \in Nat : \E f : IsRun(f, c, argv, n)}
<1>1. 0 \in S
  <2>1. IsRun([i \in 0..0 |-> c], c, argv, 0)
    BY DEF IsRun
  <2>2. QED
    BY <2>1
<1>2. ASSUME NEW n \in Nat, n \in S PROVE n + 1 \in S
  <2>1. PICK f : IsRun(f, c, argv, n)
    BY <1>2
  <2> DEFINE g == [i \in 0..(n + 1) |->
                     IF i = n + 1 THEN ParseOption(f[n], argv[i]) ELSE f[i]]
  <2>2. ASSUME NEW i \in 0..(n + 1)
        PROVE  g[i] = IF i = 0 THEN c ELSE ParseOption(g[i - 1], argv[i])
    <3>1. CASE i = n + 1
      BY <3>1
    <3>2. CASE i \in 0..n
      <4>1. g[i] = f[i] /\ (i # 0 => g[i - 1] = f[i - 1])
        BY <3>2
      <4>2. f[i] = IF i = 0 THEN c ELSE ParseOption(f[i - 1], argv[i])
        BY <2>1, <3>2 DEF IsRun
      <4>3. QED
        BY <4>1, <4>2
    <3>3. QED
      BY <3>1, <3>2
  <2>3. IsRun(g, c, argv, n + 1)
    BY <2>2 DEF IsRun
  <2> HIDE DEF g
  <2>4. \E h : IsRun(h, c, argv, n + 1)
    BY <2>3
  <2>5. QED
    BY <2>4
<1> HIDE DEF S
<1>3. \A n \in Nat : n \in S
  BY <1>1, <1>2, NatSetInduction
<1>4. QED
  BY <1>3 DEF S

\* What ParseArgs computes: the last value of such a run.
LEMMA ParseArgsRun ==
    ASSUME NEW argv \in Seq(Options)
    PROVE  \E f : /\ ParseArgs(argv) = f[Len(argv)]
                  /\ f[0] = cfg
                  /\ \A i \in 1..Len(argv) : f[i] = ParseOption(f[i - 1], argv[i])
<1> DEFINE parsed[i \in 0..Len(argv)] ==
             IF i = 0 THEN cfg ELSE ParseOption(parsed[i - 1], argv[i])
<1>1. ParseArgs(argv) = parsed[Len(argv)]
  BY DEF ParseArgs
<1>2. Len(argv) \in Nat
  OBVIOUS
<1>3. \E f : f = [i \in 0..Len(argv) |->
                    IF i = 0 THEN cfg ELSE ParseOption(f[i - 1], argv[i])]
  <2>1. \E f : IsRun(f, cfg, argv, Len(argv))
    BY <1>2, RunExists
  <2>2. QED
    BY <2>1 DEF IsRun
<1>4. parsed = [i \in 0..Len(argv) |->
                  IF i = 0 THEN cfg ELSE ParseOption(parsed[i - 1], argv[i])]
  BY <1>3
<1> HIDE DEF parsed
<1>5. parsed[0] = cfg
  BY <1>2, <1>4
<1>6. \A i \in 1..Len(argv) : parsed[i] = ParseOption(parsed[i - 1], argv[i])
  BY <1>2, <1>4
<1>7. QED
  BY <1>1, <1>5, <1>6

-----------------------------------------------------------------------------
Settings == [path : {"default", "null", "given"}, span : 0..1, start : 0..1,
             entry : 0..1, single : BOOLEAN, erange : BOOLEAN]

TypeOK ==
    /\ cfg \in Settings
    /\ handle \in Fds \cup {-1}
    /\ mmapPtr \in {"null", "failed", "mapped"}
    /\ vecSize \in Nat
    /\ owner \in [Fds -> {"free", "lib", "app"}]
    /\ status \in {"down", "up", "failed", "crashed"}
    /\ calls \in Nat

\* What settings c have to do with the options G given since the last cleanup.
\* A number that is too large leaves ERANGE behind and so may spoil a span
\* that is given after it.
Spoilers == SpanSpoilers \ {"span_text"}

Fit(c, G) ==
    /\ c.path = "given" => "path" \in G
    /\ c.path = "null" => "path" \notin G
    /\ c.start # 0 => "start" \in G
    /\ c.erange => G \cap Spoilers # {}
    /\ c.span = 0 /\ "span" \in G => G \cap SpanSpoilers # {}

\* One iteration of uio_parse_args keeps settings in their types and fitting.
LEMMA ParseOptionFits ==
    ASSUME NEW c \in Settings, NEW G, Fit(c, G), NEW o \in Options
    PROVE  /\ ParseOption(c, o) \in Settings
           /\ Fit(ParseOption(c, o), G \cup {o})
           /\ ParseOption(c, o).path = "null" => c.path = "null"
<1>0. IntegerArg(c) \in 0..1 /\ (IntegerArg(c) = 0 => c.erange)
  BY DEF IntegerArg, Settings
<1> USE DEF ParseOption, Fit, Settings
<1>1. CASE o = "path"
  BY <1>1
<1>2. CASE o = "span"
  BY <1>0, <1>2 DEF Spoilers
<1>3. CASE o = "span_text"
  BY <1>3 DEF SpanSpoilers
<1>4. CASE o = "span_huge"
  <2>1. ParseOption(c, o) = [c EXCEPT !.span = 0, !.erange = TRUE]
    BY <1>4
  <2>2. [c EXCEPT !.span = 0, !.erange = TRUE] \in Settings
    <3> DEFINE d == [c EXCEPT !.span = 0]
    <3>1. d \in Settings /\ [c EXCEPT !.span = 0, !.erange = TRUE] = [d EXCEPT !.erange = TRUE]
      OBVIOUS
    <3> HIDE DEF d
    <3>2. [d EXCEPT !.erange = TRUE] \in Settings
      BY <3>1
    <3>3. QED
      BY <3>1, <3>2
  <2>3. (G \cup {o}) \cap Spoilers # {}
    BY <1>4 DEF Spoilers, SpanSpoilers
  <2>4. (G \cup {o}) \cap SpanSpoilers # {}
    BY <1>4 DEF SpanSpoilers
  <2>5. Fit([c EXCEPT !.span = 0, !.erange = TRUE], G \cup {o})
    BY <1>4, <2>3, <2>4
  <2>6. QED
    BY <2>1, <2>2, <2>5
<1>5. CASE o = "start"
  BY <1>0, <1>5
<1>6. CASE o = "start_huge"
  <2>1. ParseOption(c, o) = [c EXCEPT !.start = 0, !.erange = TRUE]
    BY <1>6
  <2>2. [c EXCEPT !.start = 0, !.erange = TRUE] \in Settings
    <3> DEFINE d == [c EXCEPT !.start = 0]
    <3>1. d \in Settings /\ [c EXCEPT !.start = 0, !.erange = TRUE] = [d EXCEPT !.erange = TRUE]
      OBVIOUS
    <3> HIDE DEF d
    <3>2. [d EXCEPT !.erange = TRUE] \in Settings
      BY <3>1
    <3>3. QED
      BY <3>1, <3>2
  <2>3. (G \cup {o}) \cap Spoilers # {}
    BY <1>6 DEF Spoilers, SpanSpoilers
  <2>5. Fit([c EXCEPT !.start = 0, !.erange = TRUE], G \cup {o})
    BY <1>6, <2>3
  <2>6. QED
    BY <2>1, <2>2, <2>5
<1>7. CASE o = "entry"
  BY <1>0, <1>7
<1>8. CASE o = "single"
  BY <1>8
<1>9. CASE o = "start_text" \/ o = "entry_text"
  <2>1. CASE o = "start_text"
    BY <2>1
  <2>2. CASE o = "entry_text"
    BY <2>2
  <2>3. QED
    BY <1>9, <2>1, <2>2
<1>10. CASE o = "entry_huge"
  <2>1. ParseOption(c, o) = [c EXCEPT !.entry = 0, !.erange = TRUE]
    BY <1>10
  <2>2. [c EXCEPT !.entry = 0, !.erange = TRUE] \in Settings
    <3> DEFINE d == [c EXCEPT !.entry = 0]
    <3>1. d \in Settings /\ [c EXCEPT !.entry = 0, !.erange = TRUE] = [d EXCEPT !.erange = TRUE]
      OBVIOUS
    <3> HIDE DEF d
    <3>2. [d EXCEPT !.erange = TRUE] \in Settings
      BY <3>1
    <3>3. QED
      BY <3>1, <3>2
  <2>3. (G \cup {o}) \cap Spoilers # {}
    BY <1>10 DEF Spoilers, SpanSpoilers
  <2>5. Fit([c EXCEPT !.entry = 0, !.erange = TRUE], G \cup {o})
    BY <1>10, <2>3
  <2>6. QED
    BY <2>1, <2>2, <2>5
<1>11. QED
  BY <1>1, <1>2, <1>3, <1>4, <1>5, <1>6, <1>7, <1>8, <1>9, <1>10 DEF Options

\* And so does the whole of it, for a list of any length.
LEMMA ParseArgsFits ==
    ASSUME cfg \in Settings, Fit(cfg, given), NEW argv \in Seq(Options)
    PROVE  /\ ParseArgs(argv) \in Settings
           /\ Fit(ParseArgs(argv), given \cup Range(argv))
           /\ ParseArgs(argv).path = "null" => cfg.path = "null"
<1>1. PICK f : /\ ParseArgs(argv) = f[Len(argv)]
               /\ f[0] = cfg
               /\ \A i \in 1..Len(argv) : f[i] = ParseOption(f[i - 1], argv[i])
  BY ParseArgsRun
<1> DEFINE seen(i) == given \cup {argv[k] : k \in 1..i}
           Good(i) == /\ f[i] \in Settings
                      /\ Fit(f[i], seen(i))
                      /\ f[i].path = "null" => cfg.path = "null"
           S == {i \in Nat : i <= Len(argv) => Good(i)}
<1>2. Len(argv) \in Nat /\ \A i \in 1..Len(argv) : argv[i] \in Options
  OBVIOUS
<1>3. 0 \in S
  <2>1. seen(0) = given
    OBVIOUS
  <2>2. QED
    BY <1>1, <2>1
<1>4. ASSUME NEW n \in Nat, n \in S PROVE n + 1 \in S
  <2>1. SUFFICES ASSUME n + 1 <= Len(argv) PROVE Good(n + 1)
    OBVIOUS
  <2>2. Good(n)
    BY <1>2, <1>4, <2>1
  <2>3. n + 1 \in 1..Len(argv) /\ argv[n + 1] \in Options
    BY <1>2, <2>1
  <2>4. f[n + 1] = ParseOption(f[n], argv[n + 1])
    BY <1>1, <2>3
  <2>5. seen(n + 1) = seen(n) \cup {argv[n + 1]}
    OBVIOUS
  <2> HIDE DEF seen
  <2>6. /\ ParseOption(f[n], argv[n + 1]) \in Settings
        /\ Fit(ParseOption(f[n], argv[n + 1]), seen(n) \cup {argv[n + 1]})
        /\ ParseOption(f[n], argv[n + 1]).path = "null" => f[n].path = "null"
    BY <2>2, <2>3, ParseOptionFits
  <2>7. QED
    BY <2>2, <2>4, <2>5, <2>6
<1> HIDE DEF S, Good
<1>5. \A n \in Nat : n \in S
  BY <1>3, <1>4, NatSetInduction
<1>6. Good(Len(argv))
  BY <1>2, <1>5 DEF S
<1> USE DEF Good
<1>7. seen(Len(argv)) = given \cup Range(argv)
  BY <1>2 DEF Range
<1>8. QED
  BY <1>1, <1>6, <1>7

-----------------------------------------------------------------------------
\* The library owns a descriptor in a session, and then the one its handle
\* names; outside of a session only a failed mapping leaves a handle behind.
HandleOwned ==
    /\ status = "up" => handle \in Fds
    /\ \A f \in Fds : owner[f] = "lib" <=> status = "up" /\ f = handle
    /\ handle # -1 /\ status # "up" => mmapPtr = "failed"

\* The inductive invariant.  The outcome of an init depends on all the options
\* of its session and on the path that the last cleanup left, hence Fit.
IInv ==
    /\ TypeOK
    /\ Fit(cfg, given)
    /\ calls = 0 => cfg.path # "null" /\ status = "down"
    /\ HandleOwned
    /\ InitOutcome

\* Clearing errno, and filling in a span, keep settings in their types and
\* fitting.
LEMMA ClearedFits ==
    ASSUME NEW c \in Settings, NEW G, Fit(c, G)
    PROVE  /\ [c EXCEPT !.erange = FALSE] \in Settings
           /\ Fit([c EXCEPT !.erange = FALSE], G)
           /\ [c EXCEPT !.erange = FALSE].path = c.path
           /\ [c EXCEPT !.erange = FALSE].span = c.span
BY DEF Settings, Fit

\* What sysfs adds to the settings fits the session.
LEMMA SysfsFits ==
    ASSUME NEW c \in Settings, NEW G, Fit(c, G), NEW d \in WithSysfs(c)
    PROVE  d \in Settings /\ Fit(d, G) /\ d.path = c.path
<1>1. CASE d = c
  BY <1>1
<1>2. CASE d = [c EXCEPT !.span = 1]
  BY <1>2 DEF Settings, Fit
<1>3. CASE d = [c EXCEPT !.erange = FALSE]
  BY <1>3, ClearedFits
<1>4. QED
  BY <1>1, <1>2, <1>3 DEF WithSysfs

\* The settings that a call of fpga_platform_init works with.
LEMMA Configured ==
    ASSUME IInv, NEW argv \in Argvs, Begin(argv)
    PROVE  /\ calls' \in Nat /\ calls' # 0
           /\ \A c \in {ParseArgs(argv)} \cup WithSysfs(ParseArgs(argv)) :
                 /\ c \in Settings
                 /\ Fit(c, given')
                 /\ c.path = "null" => calls' > 1
<1>1. argv \in Seq(Options)
  BY ArgvsAssumption
<1>2. calls \in Nat /\ calls' = calls + 1 /\ given' = given \cup Range(argv)
  BY DEF IInv, TypeOK, Begin
<1>3. /\ ParseArgs(argv) \in Settings
      /\ Fit(ParseArgs(argv), given')
      /\ ParseArgs(argv).path = "null" => cfg.path = "null"
  BY <1>1, <1>2, ParseArgsFits DEF IInv, TypeOK
<1>4. ParseArgs(argv).path = "null" => calls' > 1
  BY <1>2, <1>3 DEF IInv
<1>5. \A c \in WithSysfs(ParseArgs(argv)) :
        c \in Settings /\ Fit(c, given') /\ c.path = ParseArgs(argv).path
  BY <1>3, SysfsFits
<1>6. QED
  BY <1>2, <1>3, <1>4, <1>5

\* The descriptor that open returns is free before.
LEMMA LowestIsFree ==
    ASSUME TypeOK, NEW f \in Fds, LowestFree(f)
    PROVE  owner[f] = "free"
BY DEF LowestFree

\* An init that ends in a crash keeps the invariant.
LEMMA CrashStep ==
    ASSUME IInv, NEW argv \in Argvs, InitCrashes(argv) PROVE IInv'
<1>1. Begin(argv)
  BY DEF InitCrashes
<1>2. /\ cfg' = ParseArgs(argv) /\ cfg'.path = "null" /\ cfg'.span = 0
      /\ status' = "crashed"
      /\ handle' = handle /\ mmapPtr' = mmapPtr /\ vecSize' = vecSize /\ owner' = owner
  BY DEF InitCrashes
<1>3. /\ calls' \in Nat /\ calls' # 0 /\ calls' > 1
      /\ cfg' \in Settings /\ Fit(cfg', given')
  BY <1>1, <1>2, Configured
<1>4. TypeOK'
  BY <1>2, <1>3 DEF IInv, TypeOK, Fds
<1>5. HandleOwned'
  <2>1. status # "up"
    BY <1>1 DEF Begin
  <2>2. QED
    BY <1>2, <2>1 DEF IInv, HandleOwned, Fds
<1>6. InitOutcome'
  BY <1>2, <1>3 DEF InitOutcome, Fit
<1>7. QED
  BY <1>3, <1>4, <1>5, <1>6 DEF IInv

\* Every error path of fpga_platform_init, by what it leaves behind.
LEMMA FailedStep ==
    ASSUME IInv, NEW argv \in Argvs, Begin(argv),
           cfg' \in Settings, Fit(cfg', given'),
           handle' \in Fds \cup {-1}, mmapPtr' \in {"null", "failed", "mapped"},
           handle' # -1 => mmapPtr' = "failed",
           vecSize' = vecSize, owner' = owner, status' = "failed"
    PROVE  IInv'
<1>1. calls' \in Nat /\ calls' # 0
  BY Configured
<1>2. TypeOK'
  BY <1>1 DEF IInv, TypeOK, Fds
<1>3. HandleOwned'
  <2>1. status # "up"
    BY DEF Begin
  <2>2. QED
    BY <2>1 DEF IInv, HandleOwned, Fds
<1>4. InitOutcome'
  BY DEF InitOutcome
<1>5. QED
  BY <1>1, <1>2, <1>3, <1>4 DEF IInv

\* An init that refuses its arguments keeps it.
LEMMA RejectedStep ==
    ASSUME IInv, NEW argv \in Argvs, InitRejected(argv) PROVE IInv'
<1>1. Begin(argv) /\ cfg' \in WithSysfs(ParseArgs(argv))
  BY DEF InitRejected, Configure
<1>2. cfg' \in Settings /\ Fit(cfg', given')
  BY <1>1, Configured
<1>3. status # "up"
  BY <1>1 DEF Begin
<1>4. QED
  BY <1>1, <1>2, <1>3, FailedStep DEF IInv, TypeOK, HandleOwned, InitRejected

\* The settings with which open is called fit the session.
LEMMA ReopenedFits ==
    ASSUME IInv, NEW argv \in Argvs, Begin(argv),
           \E c \in WithSysfs(ParseArgs(argv)) :
              Valid(c) /\ cfg' = [c EXCEPT !.erange = FALSE]
    PROVE  cfg' \in Settings /\ Fit(cfg', given')
<1>1. PICK c \in WithSysfs(ParseArgs(argv)) : cfg' = [c EXCEPT !.erange = FALSE]
  OBVIOUS
<1>2. c \in Settings /\ Fit(c, given')
  BY Configured
<1>3. QED
  BY <1>1, <1>2, ClearedFits

\* An init whose open fails keeps it.
LEMMA OpenFailsStep ==
    ASSUME IInv, NEW argv \in Argvs, InitOpenFails(argv) PROVE IInv'
<1>1. Begin(argv)
  BY DEF InitOpenFails
<1>2. cfg' \in Settings /\ Fit(cfg', given')
  BY <1>1, ReopenedFits DEF InitOpenFails
<1>3. QED
  BY <1>1, <1>2, FailedStep DEF IInv, TypeOK, InitOpenFails

\* An init whose mmap fails keeps it.
LEMMA MapFailsStep ==
    ASSUME IInv, NEW argv \in Argvs, InitMapFails(argv) PROVE IInv'
<1>1. Begin(argv)
  BY DEF InitMapFails
<1>2. cfg' \in Settings /\ Fit(cfg', given')
  BY <1>1, ReopenedFits DEF InitMapFails
<1>3. handle' \in Fds
  BY DEF InitMapFails
<1>4. QED
  BY <1>1, <1>2, <1>3, FailedStep DEF InitMapFails

\* An init that succeeds keeps it.
LEMMA SucceedsStep ==
    ASSUME IInv, NEW argv \in Argvs, InitSucceeds(argv) PROVE IInv'
<1>1. Begin(argv) /\ cfg' \in WithSysfs(ParseArgs(argv)) /\ Valid(cfg')
  BY DEF InitSucceeds, Configure
<1>2. cfg' \in Settings /\ Fit(cfg', given') /\ calls' \in Nat /\ calls' # 0
  BY <1>1, Configured
<1>3. PICK f \in Fds : LowestFree(f) /\ handle' = f /\ owner' = [owner EXCEPT ![f] = "lib"]
  BY DEF InitSucceeds
<1>4. mmapPtr' = "mapped" /\ vecSize' = 1 /\ status' = "up"
  BY DEF InitSucceeds
<1>5. TypeOK'
  BY <1>2, <1>3, <1>4 DEF IInv, TypeOK, Fds
<1>6. HandleOwned'
  <2>1. status # "up"
    BY <1>1 DEF Begin
  <2>2. \A g \in Fds : owner[g] # "lib"
    BY <2>1 DEF IInv, HandleOwned
  <2>3. \A g \in Fds : owner'[g] = "lib" <=> g = f
    BY <1>3, <2>2 DEF IInv, TypeOK
  <2>4. QED
    BY <1>3, <1>4, <2>3 DEF HandleOwned, Fds
<1>7. InitOutcome'
  BY <1>1, <1>4 DEF InitOutcome, Valid
<1>8. QED
  BY <1>2, <1>5, <1>6, <1>7 DEF IInv

\* What fpga_platform_cleanup leaves of the settings fits a new session.
LEMMA ResetFits ==
    ASSUME NEW c \in Settings
    PROVE  /\ ResetSettings(c) \in Settings
           /\ ResetSettings(c).path = "null"
           /\ ResetSettings(c).start = 0
           /\ ResetSettings(c).erange = FALSE
<1> DEFINE c1 == [c EXCEPT !.path = "null"]
           c2 == [c1 EXCEPT !.span = 0]
           c3 == [c2 EXCEPT !.start = 0]
           c4 == [c3 EXCEPT !.single = FALSE]
           c5 == [c4 EXCEPT !.erange = FALSE]
<1>1. ResetSettings(c) = c5
  BY DEF ResetSettings
<1>2. c1 \in Settings /\ c1.path = "null"
  BY DEF Settings
<1> HIDE DEF c1
<1>3. c2 \in Settings /\ c2.path = "null"
  BY <1>2 DEF Settings
<1> HIDE DEF c2
<1>4. c3 \in Settings /\ c3.path = "null" /\ c3.start = 0
  BY <1>3 DEF Settings
<1> HIDE DEF c3
<1>5. c4 \in Settings /\ c4.path = "null" /\ c4.start = 0
  BY <1>4 DEF Settings
<1> HIDE DEF c4
<1>6. c5 \in Settings /\ c5.path = "null" /\ c5.start = 0 /\ c5.erange = FALSE
  BY <1>5 DEF Settings
<1>7. QED
  BY <1>1, <1>6

\* Cleanup keeps it.
LEMMA CleanupStep == ASSUME IInv, Cleanup PROVE IInv'
<1>1. cfg' \in Settings /\ cfg'.path = "null" /\ cfg'.start = 0 /\ cfg'.erange = FALSE
  BY ResetFits DEF IInv, TypeOK, Cleanup
<1>2. /\ handle' = -1 /\ mmapPtr' = "null" /\ vecSize' = 0 /\ status' = "down"
      /\ given' = {} /\ calls' = calls
      /\ owner' = IF handle >= 0 THEN [owner EXCEPT ![handle] = "free"] ELSE owner
  BY DEF Cleanup
<1>3. TypeOK'
  BY <1>1, <1>2 DEF IInv, TypeOK, Fds
<1>4. \A f \in Fds : owner'[f] # "lib"
  BY <1>2 DEF IInv, TypeOK, HandleOwned, Fds
<1>5. HandleOwned'
  BY <1>2, <1>4 DEF HandleOwned, Fds
<1>6. Fit(cfg', given')
  BY <1>1, <1>2 DEF Fit
<1>7. InitOutcome' /\ calls' # 0
  BY <1>2 DEF IInv, InitOutcome, Cleanup
<1>8. QED
  BY <1>3, <1>5, <1>6, <1>7 DEF IInv

\* A descriptor that the application opens keeps it.
LEMMA AppOpenStep == ASSUME IInv, AppOpen PROVE IInv'
<1>1. PICK f \in Fds : LowestFree(f) /\ owner' = [owner EXCEPT ![f] = "app"]
  BY DEF AppOpen
<1>2. UNCHANGED <<cfg, handle, mmapPtr, vecSize, status, given, calls>>
  BY DEF AppOpen
<1>3. owner[f] = "free" /\ TypeOK'
  BY <1>1, <1>2, LowestIsFree DEF IInv, TypeOK, Fds
<1>4. \A g \in Fds : owner'[g] = "lib" <=> owner[g] = "lib"
  BY <1>1, <1>3 DEF IInv, TypeOK
<1>5. HandleOwned' /\ InitOutcome'
  BY <1>2, <1>4 DEF IInv, HandleOwned, InitOutcome, Fds
<1>6. QED
  BY <1>2, <1>3, <1>5 DEF IInv

\* A descriptor that the application closes keeps it.
LEMMA AppCloseStep == ASSUME IInv, AppClose PROVE IInv'
<1>1. PICK f \in Fds : owner[f] = "app" /\ owner' = [owner EXCEPT ![f] = "free"]
  BY DEF AppClose
<1>2. UNCHANGED <<cfg, handle, mmapPtr, vecSize, status, given, calls>>
  BY DEF AppClose
<1>3. TypeOK'
  BY <1>1, <1>2 DEF IInv, TypeOK, Fds
<1>4. \A g \in Fds : owner'[g] = "lib" <=> owner[g] = "lib"
  BY <1>1 DEF IInv, TypeOK
<1>5. HandleOwned' /\ InitOutcome'
  BY <1>2, <1>4 DEF IInv, HandleOwned, InitOutcome, Fds
<1>6. QED
  BY <1>2, <1>3, <1>5 DEF IInv

\* An errno that the application leaves keeps it.
LEMMA AppErrnoStep == ASSUME IInv, AppErrno PROVE IInv'
<1>1. PICK e \in BOOLEAN : /\ cfg' = [cfg EXCEPT !.erange = e]
                           /\ given' = IF e THEN given \cup {"errno"} ELSE given
  BY DEF AppErrno
<1>2. UNCHANGED <<handle, mmapPtr, vecSize, owner, status, calls>> /\ status # "crashed"
  BY DEF AppErrno
<1>3. /\ cfg' \in Settings
      /\ cfg'.path = cfg.path /\ cfg'.span = cfg.span /\ cfg'.start = cfg.start
      /\ cfg'.erange = e
  BY <1>1 DEF IInv, TypeOK, Settings
<1>4. /\ \A x : x # "errno" => (x \in given' <=> x \in given)
      /\ given \subseteq given' /\ (e => "errno" \in given')
  BY <1>1
<1>5. "errno" \in Spoilers
  BY DEF Spoilers, SpanSpoilers
<1>6. Fit(cfg', given')
  BY <1>3, <1>4, <1>5 DEF IInv, Fit
<1>7. TypeOK'
  BY <1>2, <1>3 DEF IInv, TypeOK, Fds
<1>8. HandleOwned' /\ InitOutcome'
  BY <1>2, <1>3 DEF IInv, HandleOwned, InitOutcome, Fds
<1>9. QED
  BY <1>2, <1>3, <1>6, <1>7, <1>8 DEF IInv

\* The invariant is inductive, and holds in every state of every run of the
\* program: over any number of sessions, failed calls in between included.
THEOREM Inductive == Spec => []IInv
<1>1. Init => IInv
  <2> SUFFICES ASSUME Init PROVE IInv
    OBVIOUS
  <2>1. cfg \in Settings
    BY DEF Init, Settings
  <2>2. TypeOK
    BY <2>1, BoundsAssumption DEF Init, TypeOK, Fds
  <2>3. Fit(cfg, given)
    BY DEF Init, Fit
  <2>4. QED
    BY <2>2, <2>3 DEF Init, IInv, HandleOwned, InitOutcome
<1>2. IInv /\ [Next]_vars => IInv'
  <2> SUFFICES ASSUME IInv, [Next]_vars PROVE IInv'
    OBVIOUS
  <2>1. CASE UNCHANGED vars
    BY <2>1 DEF vars, IInv, TypeOK, HandleOwned, InitOutcome, Fit, Fds
  <2>2. QED
    BY <2>1, CrashStep, RejectedStep, OpenFailsStep, MapFailsStep, SucceedsStep,
       CleanupStep, AppOpenStep, AppCloseStep, AppErrnoStep DEF Next
<1>3. QED
  BY <1>1, <1>2, PTL DEF Spec

\* No error path of fpga_platform_init leaks the driver's descriptor, and no
\* session ends with it open: the library has exactly one descriptor in a
\* session, the one in s_uio_drv_handle, and otherwise none.
THEOREM DescriptorsBalance == Spec => []DescriptorBalance
<1>1. IInv => DescriptorBalance
  BY DEF IInv, HandleOwned, DescriptorBalance, LibFds
<1>2. QED
  BY <1>1, Inductive, PTL

\* A successful fpga_platform_init leaves valid settings, a mapping and an
\* interface; and the NULL path is dereferenced only in the case that
\* InitOutcome names, for argument lists of any length.
THEOREM InitOutcomes == Spec => []InitOutcome
<1>1. IInv => InitOutcome
  BY DEF IInv
<1>2. QED
  BY <1>1, Inductive, PTL

\* No driver path and no start address outlives the cleanup of its session.
THEOREM ArgumentsOfSession == Spec => []NoStaleArguments
<1>1. IInv => NoStaleArguments
  BY DEF IInv, Fit, NoStaleArguments
<1>2. QED
  BY <1>1, Inductive, PTL

\* fpga_platform_cleanup closes the library's own descriptor, or none, unless
\* mapping the driver has failed.
THEOREM CleanupSafe == Spec => []CleanupClosesOwn
<1>1. IInv => CleanupClosesOwn
  BY DEF IInv, TypeOK, HandleOwned, CleanupClosesOwn, Fds
<1>2. QED
  BY <1>1, Inductive, PTL
=============================================================================
