------------------------ MODULE ZephyrPlatformProofs ------------------------
(***************************************************************************)
(* What the Zephyr platform keeps right for every table of devices, every  *)
(* ROM, any number of sessions, calls and interrupts.                      *)
(***************************************************************************)
EXTENDS ZephyrPlatform, TLAPS, FiniteSetTheorems

-----------------------------------------------------------------------------
(***************************************************************************)
(* Parts of the invariant.  It speaks of the vector as it will be once the *)
(* entry that init has added, and not yet filled in, is: to that vector a  *)
(* device is added in one step, whatever isr comes in between.             *)
(***************************************************************************)
Devices == [type : 0..2, base : 0..(AddrMod - 1), irq : Nat \cup {NoIrq}]

TableOK ==
    /\ build \in {"device", "model"}
    /\ table \in Seq(Devices)
    /\ \A n \in DOMAIN table : table[n].irq \in Irqs \cup {NoIrq}
    /\ build = "model" => table = <<>>

Entries == [base : Nat, dfl : BOOLEAN, dev : Nat, irq : Irqs \cup {NoIrq},
            cb : Isrs \cup {NoIsr}, flag : BOOLEAN]

FilledIn(e, n) == [e EXCEPT !.base = table[n].base, !.dev = n, !.irq = table[n].irq]

Filled ==
    IF call.step = "store" THEN [vec EXCEPT ![Len(vec)] = FilledIn(@, call.h)] ELSE vec

\* The number of devices that init has handled.
Seen == IF call.step = "scan" THEN call.h - 1
        ELSE IF call.step = "store" THEN call.h ELSE Len(table)

PlatformOK ==
    /\ vec \in Seq(Entries)
    /\ dflAddr \in 0..(AddrMod - 1) /\ dflFound \in BOOLEAN
    /\ inits \in Nat /\ session \in Nat /\ doubled \in BOOLEAN
    /\ session = 0 <=> result = "none" /\ call.op # "init"
    /\ call.op = "init" => result = "none"
    /\ session = 0 => vec = <<>>
    /\ session <= inits

\* An interface that the call may switch or connect.
Usable(h) == h \in DOMAIN vec /\ vec[h].irq # NoIrq

Calls == [op : {"none", "init", "register", "enable", "disable"}, h : Nat,
          isr : Isrs \cup {NoIsr},
          step : {"none", "scan", "store", "connect", "kernel", "flag"}]

Scanning ==
    /\ build = "device" /\ call.op = "init" /\ call.isr = NoIsr
    /\ \/ call.step = "scan" /\ call.h \in 1..(Len(table) + 1)
       \/ call.step = "store" /\ call.h \in DOMAIN table /\ vec # <<>>

CallOK ==
    /\ call \in Calls
    /\ \/ call = Idle
       \/ Scanning
       \/ /\ Usable(call.h) /\ call.op = "register"
          /\ call.step = "connect" /\ call.isr \in Isrs
       \/ /\ Usable(call.h) /\ call.op \in {"enable", "disable"}
          /\ call.step \in {"kernel", "flag"}

\* No call is a call.
LEMMA IdleCall == Idle \in Calls
BY DEF Idle, Calls

\* An irq that is on belongs to an interface of this session or of an earlier
\* one, or to an entry that init was about to fill in.
OnKnown == \A q \in on : q \in left \cup crossed \/ \E h \in DOMAIN Filled : Filled[h].irq = q

\* No irq is on until the first init has returned.
Quiet == inits = 0 \/ (inits = 1 /\ call.op = "init") => on = {}

Alone(v, h) == \A k \in DOMAIN v : v[k].irq = v[h].irq => k = h

\* What interrupt_enable has to agree with: the kernel, or, once the kernel has
\* been called and the flag not yet stored, the call.
FlagOK(h) ==
    Filled[h].irq # NoIrq /\ Alone(Filled, h) /\ Filled[h].irq \notin left \cup crossed =>
        IF call.step = "flag" /\ call.h = h
        THEN call.op = "enable" <=> Filled[h].irq \in on
        ELSE Filled[h].flag <=> Filled[h].irq \in on

FlagsOK == \A h \in DOMAIN Filled : FlagOK(h)

RegisteredOK ==
    /\ registered \in Seq(Isrs \cup {NoIsr}) /\ DOMAIN registered = DOMAIN Filled
    /\ connected \in [Irqs -> Isrs \cup {NoIsr}]
    /\ \A h \in DOMAIN Filled : registered[h] # NoIsr =>
          /\ Filled[h].irq # NoIrq
          /\ Alone(Filled, h) => connected[Filled[h].irq] = registered[h]

\* The address that a ROM at this base gives its k-th interface.
RomAddr(k, base) == IF Rom[k].abs THEN Rom[k].addr ELSE (base + Rom[k].addr) % AddrMod

\* What an access to the interface reaches.
AccessOK(e, h, addr) ==
    IF e.dfl THEN h \in DOMAIN Rom /\ e.base = RomAddr(h, addr)
    ELSE e.dev \in DOMAIN table /\ table[e.dev].base = e.base

ModelOK ==
    /\ Len(vec) <= 1
    /\ ~doubled => /\ session <= 1
                   /\ vec = <<>> => buffers = {} /\ result # "true"
                   /\ vec # <<>> => buffers = {vec[1].base} /\ result = "true"

\* No ROM, and at most one ROM, up to this place in the table.
Romless(n) == \A r \in RomsOf : n < r
OneRom(n) == \A r, q \in RomsOf : r <= n /\ q <= n => r = q

Counted == Len(table) % CountMod # 0

\* s_zephyr_dfl_found says whether a ROM has been met.
FoundOK ==
    /\ inits = 0 \/ ~Counted => ~dflFound
    /\ inits > 0 /\ Counted =>
         (dflFound <=> ~Romless(IF inits = 1 THEN Seen ELSE Len(table)))
    /\ RomsOf = {} => dflAddr = 0

\* Why init will return false.
Fails == ~Counted \/ Cardinality(RomsOf) > 1 \/ (RomsOf # {} /\ inits > 1)

OutcomeOK ==
    /\ result # "none" => (result = "false" <=> Fails)
    /\ call.op = "init" => Counted /\ OneRom(Seen) /\ (inits > 1 => Romless(Seen))
    /\ result \in {"none", "true", "false"}

\* The first scan after a cleanup, as far as it has come.
RomPart(n) == IF Romless(n) THEN 0 ELSE Len(Rom)
ListedUpTo(n) == {m \in DOMAIN table : /\ m <= n /\ table[m].type = 1
                                       /\ \A r \in RomsOf : r <= n => r < m}
Listed(v, roms, devs) ==
    /\ roms <= Len(v)
    /\ \A k \in DOMAIN v : v[k].dfl <=> k <= roms
    /\ devs = {v[k].dev : k \in (roms + 1)..Len(v)}
    /\ \A k, l \in (roms + 1)..Len(v) : k < l => v[k].dev < v[l].dev

ListingOK ==
    session = 1 /\ result # "false" => Listed(Filled, RomPart(Seen), ListedUpTo(Seen))

ReachOK == \A h \in DOMAIN Filled : AccessOK(Filled[h], h, dflAddr)

DeviceOK == ReachOK /\ FoundOK /\ OutcomeOK /\ ListingOK

IInv ==
    /\ TableOK /\ PlatformOK /\ CallOK /\ OnKnown /\ Quiet /\ RegisteredOK /\ FlagsOK
    /\ build = "model" => ModelOK
    /\ build = "device" => DeviceOK

-----------------------------------------------------------------------------
(***************************************************************************)
(* Addresses that wrap.                                                    *)
(***************************************************************************)
\* The remainder is the only one.
LEMMA ModUnique ==
    ASSUME NEW m \in Nat \ {0}, NEW q \in Int, NEW r \in 0..(m - 1),
           NEW a \in Int, a = q * m + r
    PROVE  a % m = r
OBVIOUS

\* Every number has a quotient and a remainder.
LEMMA Quotient ==
    ASSUME NEW m \in Nat \ {0}, NEW a \in Int
    PROVE  \E q \in Int, r \in 0..(m - 1) : a = q * m + r /\ a % m = r
<1>1. a \div m \in Int /\ a % m \in 0..(m - 1)
  OBVIOUS
<1>2. a = (a \div m) * m + (a % m)
  OBVIOUS
<1>3. QED
  BY <1>1, <1>2

\* The decoder takes the base off again, wherever the sum wrapped.
LEMMA BaseTakenOff ==
    ASSUME NEW m \in Nat \ {0}, NEW d \in Int, NEW a \in Int
    PROVE  (((d + a) % m) - d) % m = a % m
<1>1. d + a \in Int
  OBVIOUS
<1>2. PICK p \in Int, r \in 0..(m - 1) : a = p * m + r /\ a % m = r
  BY Quotient
<1>3. PICK s \in Int, c \in 0..(m - 1) : d + a = s * m + c /\ (d + a) % m = c
  BY <1>1, Quotient
<1>4. c - d \in Int /\ p - s \in Int /\ p * m \in Int /\ s * m \in Int /\ c \in Int /\ r \in Int
  OBVIOUS
<1>5. (p - s) * m = p * m - s * m
  OBVIOUS
<1>6. c - d = (p - s) * m + r
  <2>1. c - d = a - s * m
    BY <1>3, <1>4
  <2>2. a - s * m = (p * m - s * m) + r
    BY <1>2, <1>4
  <2>3. QED
    BY <1>5, <2>1, <2>2
<1>7. (c - d) % m = r
  BY <1>4, <1>6, ModUnique
<1>8. QED
  BY <1>2, <1>3, <1>7

-----------------------------------------------------------------------------
(***************************************************************************)
(* Tables, ROMs and entries.                                               *)
(***************************************************************************)
IsEntry(e, b, d, n) ==
    /\ e \in Entries /\ e.base = b /\ e.dfl = d /\ e.dev = n
    /\ e.cb = NoIsr /\ e.flag = FALSE

\* Entries are what they are made of.
LEMMA EntryType ==
    ASSUME NEW b \in Nat, NEW d \in BOOLEAN, NEW n \in Nat, NEW q \in Irqs \cup {NoIrq}
    PROVE  IsEntry(Entry(b, d, n, q), b, d, n)
BY DEF Entry, Entries, IsEntry

\* The irq of the interfaces of a ROM.
LEMMA ZeroIrq == 0 \in Irqs
<1>1. 0 # NoIrq
  BY DEF NoIrq
<1>2. QED
  BY <1>1 DEF Irqs

\* The devices of a table.
LEMMA DeviceType ==
    ASSUME TableOK, NEW n \in DOMAIN table
    PROVE  /\ n \in Nat /\ n \in 1..Len(table) /\ table[n].type \in 0..2
           /\ table[n].base \in 0..(AddrMod - 1) /\ table[n].base \in Nat
           /\ table[n].irq \in Irqs \cup {NoIrq}
<1>1. n \in Nat /\ table[n] \in Devices /\ table[n].irq \in Irqs \cup {NoIrq} /\ n \in 1..Len(table)
  BY DEF TableOK
<1>2. table[n].type \in 0..2 /\ table[n].base \in 0..(AddrMod - 1)
  BY <1>1 DEF Devices
<1>3. table[n].base \in Nat
  BY <1>2, ModAssumption
<1>4. QED
  BY <1>1, <1>2, <1>3

\* The addresses of a ROM are addresses.
LEMMA RomAddrType ==
    ASSUME NEW k \in DOMAIN Rom, NEW b \in Nat
    PROVE  RomAddr(k, b) \in Nat
<1>1. Rom[k] \in [abs : BOOLEAN, addr : Int] /\ AddrMod \in Nat \ {0}
  <2> DEFINE R == [abs : BOOLEAN, addr : Int]
  <2>1. Rom \in Seq(R)
    BY RomAssumption
  <2> HIDE DEF R
  <2>2. Rom[k] \in R
    BY <2>1
  <2>3. QED
    BY <2>2, ModAssumption DEF R
<1>2. CASE Rom[k].abs
  <2>1. Rom[k].addr \in Nat
    BY <1>1, <1>2, RomAssumption
  <2>2. QED
    BY <1>2, <2>1 DEF RomAddr
<1>3. CASE ~Rom[k].abs
  <2>1. b + Rom[k].addr \in Int
    BY <1>1
  <2>2. (b + Rom[k].addr) % AddrMod \in Nat
    BY <1>1, <2>1
  <2>3. QED
    BY <1>3, <2>2 DEF RomAddr
<1>4. QED
  BY <1>2, <1>3

IsRomList(v, b) ==
    /\ v \in Seq(Entries) /\ Len(v) = Len(Rom) /\ DOMAIN v = 1..Len(Rom)
    /\ Len(Rom) \in Nat /\ DOMAIN Rom = 1..Len(Rom)
    /\ \A k \in 1..Len(Rom) : IsEntry(v[k], RomAddr(k, b), TRUE, 0)

\* A ROM gives entries of its own.
LEMMA RomEntriesType ==
    ASSUME NEW b \in Nat
    PROVE  IsRomList(RomEntries(b), b)
<1>1. Len(Rom) \in Nat /\ DOMAIN Rom = 1..Len(Rom)
  BY RomAssumption
<1>2. ASSUME NEW k \in 1..Len(Rom)
      PROVE  IsEntry(Entry(RomAddr(k, b), TRUE, 0, 0), RomAddr(k, b), TRUE, 0)
  <2>1. RomAddr(k, b) \in Nat
    BY <1>1, RomAddrType
  <2>2. QED
    BY <2>1, EntryType, ZeroIrq
<1>3. RomEntries(b) = [k \in 1..Len(Rom) |-> Entry(RomAddr(k, b), TRUE, 0, 0)]
  BY <1>1 DEF RomEntries, RomAddr
<1>4. RomEntries(b) \in Seq(Entries) /\ DOMAIN RomEntries(b) = 1..Len(Rom)
  <2>1. \A k \in 1..Len(Rom) : Entry(RomAddr(k, b), TRUE, 0, 0) \in Entries
    BY <1>2 DEF IsEntry
  <2>2. RomEntries(b) \in [1..Len(Rom) -> Entries]
    BY <1>3, <2>1, Zenon
  <2>3. QED
    BY <1>1, <2>2
<1>5. Len(RomEntries(b)) = Len(Rom)
  BY <1>1, <1>4
<1>6. \A k \in 1..Len(Rom) : IsEntry(RomEntries(b)[k], RomAddr(k, b), TRUE, 0)
  BY <1>2, <1>3
<1>7. QED
  BY <1>1, <1>4, <1>5, <1>6 DEF IsRomList

\* At the end of the table.
LEMMA WholeTable ==
    ASSUME TableOK
    PROVE  /\ Romless(Len(table)) <=> RomsOf = {}
           /\ ListedUpTo(Len(table)) = ListedDevices
           /\ OneRom(Len(table)) => ~(Cardinality(RomsOf) > 1)
           /\ IsFiniteSet(RomsOf)
<1>1. /\ table \in Seq(Devices) /\ Len(table) \in Nat /\ DOMAIN table = 1..Len(table)
      /\ RomsOf \subseteq 1..Len(table)
  BY DEF TableOK, RomsOf
<1>2. \A r \in 1..Len(table) : r <= Len(table) /\ ~(Len(table) < r)
  BY <1>1
<1>3. Romless(Len(table)) <=> RomsOf = {}
  BY <1>1, <1>2 DEF Romless
<1>4. ListedUpTo(Len(table)) = ListedDevices
  BY <1>1, <1>2 DEF ListedUpTo, ListedDevices
<1>5. IsFiniteSet(RomsOf)
  <2>1. 1 \in Int /\ Len(table) \in Int
    BY <1>1
  <2>2. IsFiniteSet(1..Len(table))
    BY <2>1, FS_Interval
  <2>3. QED
    BY <1>1, <2>2, FS_Subset
<1>6. ASSUME OneRom(Len(table)) PROVE ~(Cardinality(RomsOf) > 1)
  <2>1. \A r, q \in RomsOf : r = q
    BY <1>1, <1>2, <1>6 DEF OneRom
  <2>2. CASE RomsOf = {}
    <3>1. Cardinality({}) = 0
      BY FS_EmptySet
    <3>2. QED
      BY <2>2, <3>1
  <2>3. CASE RomsOf # {}
    <3>1. PICK r : r \in RomsOf
      BY <2>3
    <3>2. RomsOf = {r}
      BY <2>1, <3>1
    <3>3. Cardinality({r}) = 1
      BY FS_Singleton
    <3>4. QED
      BY <3>2, <3>3
  <2>4. QED
    BY <2>2, <2>3
<1>7. QED
  BY <1>3, <1>4, <1>5, <1>6

\* Two elements make a cardinality above 1.
LEMMA TwoElements ==
    ASSUME NEW S, IsFiniteSet(S), NEW x \in S, NEW y \in S, x # y
    PROVE  Cardinality(S) > 1
<1>1. IsFiniteSet({x}) /\ Cardinality({x}) = 1
  BY FS_Singleton
<1>2. IsFiniteSet({x} \cup {y}) /\ Cardinality({x} \cup {y}) = 2
  <2>1. y \notin {x}
    OBVIOUS
  <2>2. IsFiniteSet({x} \cup {y}) /\ Cardinality({x} \cup {y}) = Cardinality({x}) + 1
    BY <1>1, <2>1, FS_AddElement
  <2>3. QED
    BY <1>1, <2>2
<1>3. {x} \cup {y} \subseteq S
  OBVIOUS
<1>4. Cardinality({x} \cup {y}) <= Cardinality(S) /\ Cardinality(S) \in Nat
  BY <1>3, FS_Subset, FS_CardinalityType
<1>5. QED
  BY <1>2, <1>4

\* One device further.
LEMMA OneFurther ==
    ASSUME TableOK, NEW n \in DOMAIN table
    PROVE  /\ n - 1 \in Nat
           /\ table[n].type = 2 => /\ n \in RomsOf /\ ~Romless(n) /\ ListedUpTo(n) = {}
                                   /\ Romless(n - 1) => OneRom(n)
           /\ table[n].type # 2 => /\ Romless(n) <=> Romless(n - 1)
                                   /\ OneRom(n) <=> OneRom(n - 1)
           /\ table[n].type = 0 => ListedUpTo(n) = ListedUpTo(n - 1)
           /\ table[n].type = 1 => ListedUpTo(n) = ListedUpTo(n - 1) \cup {n}
<1>1. /\ n \in Nat /\ n - 1 \in Nat
      /\ \A m \in DOMAIN table : m \in Nat /\ m >= 1
      /\ \A r \in RomsOf : r \in Nat /\ r \in DOMAIN table /\ table[r].type = 2
  BY DEF TableOK, RomsOf
<1>2. /\ \A m \in DOMAIN table : m # n => (m <= n <=> m <= n - 1)
      /\ \A m \in DOMAIN table : m # n => (n < m <=> n - 1 < m)
      /\ n <= n /\ ~(n < n) /\ ~(n <= n - 1) /\ n - 1 < n
      /\ \A m \in DOMAIN table : n - 1 < m /\ m <= n => m = n
      /\ \A m \in DOMAIN table : m <= n => ~(n < m)
      /\ \A m \in DOMAIN table : m <= n - 1 => m < n
  BY <1>1
<1>3. CASE table[n].type = 2
  <2>1. n \in RomsOf
    BY <1>3 DEF RomsOf
  <2>2. ~Romless(n) /\ ListedUpTo(n) = {}
    BY <1>2, <2>1 DEF Romless, ListedUpTo
  <2>3. Romless(n - 1) => OneRom(n)
    BY <1>1, <1>2 DEF Romless, OneRom
  <2>4. QED
    BY <1>1, <1>3, <2>1, <2>2, <2>3
<1>4. CASE table[n].type # 2
  <2>1. \A r \in RomsOf : r # n /\ r \in DOMAIN table
    BY <1>1, <1>4
  <2>2. \A r \in RomsOf : (r <= n <=> r <= n - 1) /\ (n < r <=> n - 1 < r)
    BY <1>2, <2>1
  <2>3. (Romless(n) <=> Romless(n - 1)) /\ (OneRom(n) <=> OneRom(n - 1))
    BY <2>2 DEF Romless, OneRom
  <2>4. table[n].type = 0 => ListedUpTo(n) = ListedUpTo(n - 1)
    BY <1>2, <2>2 DEF ListedUpTo
  <2>5. ASSUME table[n].type = 1 PROVE ListedUpTo(n) = ListedUpTo(n - 1) \cup {n}
    <3>1. n \in ListedUpTo(n)
      BY <1>2, <2>1, <2>2, <2>5 DEF ListedUpTo
    <3>2. \A m \in DOMAIN table : m # n => (m \in ListedUpTo(n) <=> m \in ListedUpTo(n - 1))
      BY <1>2, <2>2 DEF ListedUpTo
    <3>3. ListedUpTo(n) \subseteq DOMAIN table /\ ListedUpTo(n - 1) \subseteq DOMAIN table
      BY DEF ListedUpTo
    <3>4. QED
      BY <3>1, <3>2, <3>3
  <2>6. QED
    BY <1>1, <1>4, <2>3, <2>4, <2>5
<1>5. QED
  BY <1>3, <1>4

\* The entry filled in; the others are left as they are.
LEMMA FilledEntry ==
    ASSUME TableOK, NEW v \in Seq(Entries), v # <<>>, NEW n \in DOMAIN table,
           NEW w, w = [v EXCEPT ![Len(v)] = FilledIn(v[Len(v)], n)]
    PROVE  /\ w \in Seq(Entries) /\ Len(w) = Len(v) /\ DOMAIN w = DOMAIN v
           /\ Len(v) \in DOMAIN v
           /\ \A h \in DOMAIN v : h # Len(v) => w[h] = v[h]
           /\ w[Len(v)].base = table[n].base /\ w[Len(v)].dev = n
           /\ w[Len(v)].irq = table[n].irq
           /\ \A h \in DOMAIN v : /\ w[h].dfl = v[h].dfl /\ w[h].cb = v[h].cb
                                  /\ w[h].flag = v[h].flag
<1>1. Len(v) \in Nat /\ DOMAIN v = 1..Len(v) /\ Len(v) \in DOMAIN v /\ v[Len(v)] \in Entries
  OBVIOUS
<1>2. n \in Nat /\ table[n].base \in Nat /\ table[n].irq \in Irqs \cup {NoIrq}
  BY DeviceType
<1>3. PICK e : e = FilledIn(v[Len(v)], n)
  OBVIOUS
<1>4. /\ e \in Entries /\ e.base = table[n].base /\ e.dev = n /\ e.irq = table[n].irq
      /\ e.dfl = v[Len(v)].dfl /\ e.cb = v[Len(v)].cb /\ e.flag = v[Len(v)].flag
  BY <1>1, <1>2, <1>3 DEF Entries, FilledIn
<1>5. w = [v EXCEPT ![Len(v)] = e]
  BY <1>3
<1>6. /\ w \in Seq(Entries) /\ Len(w) = Len(v) /\ DOMAIN w = DOMAIN v /\ w[Len(v)] = e
      /\ \A h \in DOMAIN v : h # Len(v) => w[h] = v[h]
  BY <1>1, <1>4, <1>5
<1>7. QED
  BY <1>1, <1>4, <1>6

\* The vector as it will be.
LEMMA FilledType ==
    ASSUME TableOK, PlatformOK, CallOK
    PROVE  /\ vec \in Seq(Entries) /\ Len(vec) \in Nat /\ DOMAIN vec = 1..Len(vec)
           /\ Filled \in Seq(Entries) /\ Len(Filled) = Len(vec) /\ DOMAIN Filled = DOMAIN vec
           /\ call.step # "store" => Filled = vec
           /\ call.step = "store" =>
                /\ call.op = "init" /\ Len(vec) \in DOMAIN vec
                /\ call.h \in DOMAIN table /\ Filled[Len(vec)].irq = table[call.h].irq
           /\ \A h \in DOMAIN vec : /\ Filled[h].flag = vec[h].flag
                                    /\ (call.step = "store" /\ h = Len(vec)) \/ Filled[h] = vec[h]
<1>1. vec \in Seq(Entries)
  BY DEF PlatformOK
<1>2. CASE call.step # "store"
  BY <1>1, <1>2 DEF Filled
<1>3. CASE call.step = "store"
  <2>1. call.op = "init" /\ call.h \in DOMAIN table /\ vec # <<>>
    BY <1>3 DEF CallOK, Scanning, Idle
  <2>2. Filled = [vec EXCEPT ![Len(vec)] = FilledIn(vec[Len(vec)], call.h)]
    BY <1>3 DEF Filled
  <2>3. QED
    BY <1>1, <1>3, <2>1, <2>2, FilledEntry
<1>4. QED
  BY <1>2, <1>3

-----------------------------------------------------------------------------
(***************************************************************************)
(* What init keeps.                                                        *)
(***************************************************************************)
Fresh(e) == e.cb = NoIsr /\ e.flag = FALSE

\* The vector has at most grown, by entries that nobody has used.
Grown(v, w) ==
    /\ w \in Seq(Entries) /\ DOMAIN v \subseteq DOMAIN w
    /\ \A h \in DOMAIN v : w[h] = v[h]
    /\ \A h \in DOMAIN w : h \notin DOMAIN v => Fresh(w[h])

\* An interface that is alone with its irq in the longer vector is so in the shorter.
LEMMA GrownAlone ==
    ASSUME NEW v, NEW w, Grown(v, w), NEW h \in DOMAIN v, Alone(w, h)
    PROVE  Alone(v, h)
BY DEF Grown, Alone

\* Interrupts over a step of init.
LEMMA GrownKeeps ==
    ASSUME IInv, Grown(Filled, Filled'), call.step # "flag", call'.step # "flag",
           UNCHANGED <<kernelVars, crossed>>,
           registered' \in Seq(Isrs \cup {NoIsr}), DOMAIN registered' = DOMAIN Filled',
           \A h \in DOMAIN Filled' : registered'[h] # NoIsr =>
              h \in DOMAIN Filled /\ registered'[h] = registered[h]
    PROVE  OnKnown' /\ RegisteredOK' /\ FlagsOK'
<1>1. connected' = connected /\ on' = on /\ left' = left /\ crossed' = crossed
  BY DEF kernelVars
<1>2. OnKnown'
  BY <1>1 DEF IInv, OnKnown, Grown
<1>3. RegisteredOK'
  <2>1. connected' \in [Irqs -> Isrs \cup {NoIsr}]
    BY <1>1 DEF IInv, RegisteredOK
  <2>2. ASSUME NEW h \in DOMAIN Filled', registered'[h] # NoIsr
        PROVE  /\ Filled'[h].irq # NoIrq
               /\ Alone(Filled', h) => connected'[Filled'[h].irq] = registered'[h]
    <3>1. h \in DOMAIN Filled /\ registered'[h] = registered[h] /\ Filled'[h] = Filled[h]
      BY <2>2 DEF Grown
    <3>2. /\ Filled[h].irq # NoIrq
          /\ Alone(Filled, h) => connected[Filled[h].irq] = registered[h]
      BY <2>2, <3>1 DEF IInv, RegisteredOK
    <3>3. Alone(Filled', h) => Alone(Filled, h)
      BY <3>1, GrownAlone
    <3>4. QED
      BY <1>1, <3>1, <3>2, <3>3
  <2>3. QED
    BY <2>1, <2>2 DEF RegisteredOK, Alone
<1>4. ASSUME NEW h \in DOMAIN Filled', Filled'[h].irq # NoIrq, Alone(Filled', h),
             Filled'[h].irq \notin left \cup crossed
      PROVE  Filled'[h].flag <=> Filled'[h].irq \in on
  <2>1. CASE h \in DOMAIN Filled
    <3>1. Filled'[h] = Filled[h] /\ Alone(Filled, h)
      BY <1>4, <2>1, GrownAlone DEF Grown
    <3>2. FlagOK(h)
      BY <2>1 DEF IInv, FlagsOK
    <3>3. QED
      BY <1>4, <3>1, <3>2 DEF FlagOK
  <2>2. CASE h \notin DOMAIN Filled
    <3>1. Filled'[h].flag = FALSE
      BY <1>4, <2>2 DEF Grown, Fresh
    <3>2. SUFFICES ASSUME Filled'[h].irq \in on PROVE FALSE
      BY <3>1
    <3>3. PICK k \in DOMAIN Filled : Filled[k].irq = Filled'[h].irq
      BY <1>4, <3>2 DEF IInv, OnKnown
    <3>4. k \in DOMAIN Filled' /\ Filled'[k] = Filled[k]
      BY <3>3 DEF Grown
    <3>5. QED
      BY <1>4, <2>2, <3>3, <3>4 DEF Alone
  <2>3. QED
    BY <2>1, <2>2
<1>5. FlagsOK'
  BY <1>1, <1>4 DEF FlagsOK, FlagOK, Alone
<1>6. QED
  BY <1>2, <1>3, <1>5

\* What the next state has to say of the devices, in the words of this one.
LEMMA DeviceNext ==
    ASSUME table' = table, NEW n, n = Seen', NEW v, v = Filled',
           inits' = 0 \/ ~Counted => ~dflFound',
           inits' > 0 /\ Counted =>
             (dflFound' <=> ~Romless(IF inits' = 1 THEN n ELSE Len(table))),
           RomsOf = {} => dflAddr' = 0,
           result' # "none" =>
             (result' = "false" <=> \/ ~Counted \/ Cardinality(RomsOf) > 1
                                    \/ RomsOf # {} /\ inits' > 1),
           call'.op = "init" => Counted /\ OneRom(n) /\ (inits' > 1 => Romless(n)),
           result' \in {"none", "true", "false"},
           session' = 1 /\ result' # "false" => Listed(v, RomPart(n), ListedUpTo(n)),
           \A h \in DOMAIN v : AccessOK(v[h], h, dflAddr')
    PROVE  DeviceOK'
<1>1. RomsOf' = RomsOf /\ (Counted' <=> Counted)
  BY DEF RomsOf, Counted
<1>2. FoundOK'
  <2>1. PICK m : m = IF inits' = 1 THEN n ELSE Len(table)
    OBVIOUS
  <2>2. Romless(m) <=> \A r \in RomsOf : m < r
    BY DEF Romless
  <2>3. QED
    BY <1>1, <2>1, <2>2 DEF FoundOK, Romless
<1>3. OutcomeOK'
  <2>1. (OneRom(n) => OneRom(Seen)') /\ (Romless(n) => Romless(Seen)')
    BY <1>1 DEF OneRom, Romless
  <2>2. Fails' <=> ~Counted \/ Cardinality(RomsOf) > 1 \/ (RomsOf # {} /\ inits' > 1)
    BY <1>1 DEF Fails
  <2>3. QED
    BY <1>1, <2>1, <2>2, Zenon DEF OutcomeOK
<1>4. ListingOK'
  <2>1. RomPart(Seen)' = RomPart(n)
    BY <1>1 DEF RomPart, Romless
  <2>2. ListedUpTo(Seen)' = ListedUpTo(n)
    BY <1>1 DEF ListedUpTo
  <2>3. QED
    BY <2>1, <2>2, Zenon DEF ListingOK
<1>5. ReachOK'
  BY DEF ReachOK, AccessOK
<1>6. QED
  BY <1>2, <1>3, <1>4, <1>5 DEF DeviceOK

\* Where init is.
LEMMA InitRuns ==
    ASSUME IInv, call.step \in {"scan", "store"}
    PROVE  /\ TableOK /\ PlatformOK /\ CallOK /\ Scanning /\ DeviceOK /\ RegisteredOK
           /\ build = "device" /\ call.op = "init" /\ result = "none"
           /\ Len(table) \in Nat /\ DOMAIN table = 1..Len(table)
           /\ inits \in Nat /\ inits > 0 /\ session \in Nat /\ session # 0
           /\ Counted /\ OneRom(Seen) /\ (inits > 1 => Romless(Seen))
           /\ dflFound <=> ~Romless(IF inits = 1 THEN Seen ELSE Len(table))
<1>1. TableOK /\ PlatformOK /\ CallOK /\ RegisteredOK
  BY DEF IInv
<1>2. Scanning /\ call.op = "init" /\ build = "device"
  BY <1>1 DEF CallOK, Idle, Scanning
<1>3. DeviceOK
  BY <1>2 DEF IInv
<1>4. result = "none" /\ session # 0 /\ session \in Nat /\ inits \in Nat /\ inits > 0
  BY <1>1, <1>2 DEF PlatformOK
<1>5. Len(table) \in Nat /\ DOMAIN table = 1..Len(table)
  BY <1>1 DEF TableOK
<1>6. Counted /\ OneRom(Seen) /\ (inits > 1 => Romless(Seen))
  BY <1>2, <1>3 DEF DeviceOK, OutcomeOK
<1>7. dflFound <=> ~Romless(IF inits = 1 THEN Seen ELSE Len(table))
  BY <1>3, <1>4, <1>6 DEF DeviceOK, FoundOK
<1>8. QED
  BY <1>1, <1>2, <1>3, <1>4, <1>5, <1>6, <1>7

\* Init goes on to a device.
LEMMA ScanMoves ==
    ASSUME IInv, call.step \in {"scan", "store"}, UNCHANGED scanUnchanged, result' = result,
           vec' \in Seq(Entries), dflAddr' \in 0..(AddrMod - 1), dflFound' \in BOOLEAN,
           NEW n, NEW st, call' = ScanAt(n, st),
           \/ st = "scan" /\ n \in 1..(Len(table) + 1)
           \/ st = "store" /\ n \in DOMAIN table /\ vec' # <<>>
    PROVE  /\ TableOK' /\ PlatformOK' /\ CallOK' /\ Quiet'
           /\ call'.op = "init" /\ call'.step = st /\ call'.h = n
           /\ table' = table /\ build' = build /\ inits' = inits /\ session' = session
           /\ UNCHANGED <<kernelVars, crossed>>
<1>1. /\ build' = build /\ table' = table /\ inits' = inits /\ session' = session
      /\ doubled' = doubled /\ on' = on /\ UNCHANGED <<kernelVars, crossed>>
  BY DEF scanUnchanged, kernelVars
<1>2. /\ call'.op = "init" /\ call'.step = st /\ call'.h = n /\ call'.isr = NoIsr
  BY DEF ScanAt
<1>3. /\ TableOK /\ PlatformOK /\ build = "device" /\ call.op = "init" /\ result = "none"
      /\ Len(table) \in Nat /\ DOMAIN table = 1..Len(table) /\ session # 0
  BY InitRuns
<1>4. n \in Nat
  BY <1>3
<1>5. TableOK'
  BY <1>1, <1>3 DEF TableOK
<1>6. PlatformOK'
  BY <1>1, <1>2, <1>3 DEF PlatformOK
<1>7. CallOK'
  <2>1. call' \in Calls
    BY <1>4 DEF Calls, ScanAt
  <2>2. Scanning'
    BY <1>1, <1>2, <1>3 DEF Scanning
  <2>3. QED
    BY <2>1, <2>2 DEF CallOK
<1>8. Quiet'
  BY <1>1, <1>3 DEF IInv, Quiet
<1>9. QED
  BY <1>1, <1>2, <1>5, <1>6, <1>7, <1>8

\* Init returns.
LEMMA ScanReturns ==
    ASSUME IInv, call.step = "scan", UNCHANGED <<scanUnchanged, vec, dflAddr, dflFound, registered>>,
           result' \in {"true", "false"}, call' = Idle
    PROVE  /\ TableOK' /\ PlatformOK' /\ CallOK' /\ Quiet'
           /\ OnKnown' /\ RegisteredOK' /\ FlagsOK' /\ Filled' = Filled
           /\ call'.op # "init" /\ Seen' = Len(table)
           /\ table' = table /\ build' = build /\ inits' = inits /\ session' = session
           /\ dflAddr' = dflAddr /\ dflFound' = dflFound
<1>1. /\ build' = build /\ table' = table /\ inits' = inits /\ session' = session
      /\ doubled' = doubled /\ UNCHANGED <<kernelVars, crossed>>
      /\ vec' = vec /\ dflAddr' = dflAddr /\ dflFound' = dflFound /\ registered' = registered
  BY DEF scanUnchanged
<1>2. call'.op # "init" /\ call'.step # "store" /\ call'.step # "flag" /\ call'.step # "scan"
  BY DEF Idle
<1>3. /\ TableOK /\ PlatformOK /\ CallOK /\ RegisteredOK /\ build = "device"
      /\ inits \in Nat /\ inits > 0 /\ session # 0
  BY InitRuns
<1>4. Filled = vec /\ Filled' = vec' /\ Filled' \in Seq(Entries)
  BY <1>1, <1>2, <1>3, FilledType DEF Filled
<1>5. TableOK'
  BY <1>1, <1>3 DEF TableOK
<1>6. PlatformOK'
  BY <1>1, <1>2, <1>3 DEF PlatformOK
<1>7. CallOK'
  BY IdleCall DEF CallOK
<1>8. Quiet'
  BY <1>1, <1>2, <1>3 DEF Quiet
<1>9. Grown(Filled, Filled')
  BY <1>1, <1>4 DEF Grown
<1>10. OnKnown' /\ RegisteredOK' /\ FlagsOK'
  <2>1. DOMAIN registered = DOMAIN Filled /\ registered \in Seq(Isrs \cup {NoIsr})
    BY <1>3 DEF RegisteredOK
  <2>2. QED
    BY <1>1, <1>2, <1>4, <1>9, <2>1, GrownKeeps
<1>11. Seen' = Len(table)
  BY <1>1, <1>2 DEF Seen
<1>12. QED
  BY <1>1, <1>2, <1>4, <1>5, <1>6, <1>7, <1>8, <1>10, <1>11

\* No devices, as far as the count says: init fails.
LEMMA InitEmptyStep ==
    ASSUME IInv, InitEmpty
    PROVE  IInv'
<1>1. /\ build = "device" /\ call = Idle /\ call' = call /\ result' = "false"
      /\ inits' = inits + 1 /\ session' = session + 1 /\ doubled' = (doubled \/ session > 0)
      /\ build' = build /\ table' = table /\ vec' = vec /\ dflAddr' = dflAddr
      /\ dflFound' = dflFound /\ registered' = registered
      /\ UNCHANGED <<kernelVars, crossed>>
      /\ ~Counted
  BY DEF InitEmpty, InitCalled, Counted
<1>2. /\ TableOK /\ PlatformOK /\ CallOK /\ RegisteredOK /\ DeviceOK
      /\ inits \in Nat /\ session \in Nat /\ session <= inits
  BY <1>1 DEF IInv, PlatformOK
<1>3. /\ call.op # "init" /\ call.step # "store" /\ call.step # "flag" /\ call.step # "scan"
  BY <1>1 DEF Idle
<1>4. /\ Filled = vec /\ Filled' = vec' /\ Filled' \in Seq(Entries)
      /\ Seen = Len(table) /\ Seen' = Len(table)
  BY <1>1, <1>2, <1>3, FilledType DEF Filled, Seen
<1>5. inits' \in Nat /\ session' \in Nat /\ inits' > 0 /\ inits' # 0 /\ session' # 0 /\ session' <= inits'
  BY <1>1, <1>2
<1>6. TableOK'
  BY <1>1, <1>2 DEF TableOK
<1>7. PlatformOK'
  BY <1>1, <1>2, <1>3, <1>5 DEF PlatformOK
<1>8. CallOK'
  BY <1>1, IdleCall DEF CallOK
<1>9. Quiet'
  BY <1>1, <1>3, <1>5 DEF Quiet
<1>10. OnKnown' /\ RegisteredOK' /\ FlagsOK'
  <2>1. DOMAIN registered = DOMAIN Filled /\ registered \in Seq(Isrs \cup {NoIsr})
    BY <1>2 DEF RegisteredOK
  <2>2. Grown(Filled, Filled')
    BY <1>1, <1>4 DEF Grown
  <2>3. QED
    BY <1>1, <1>3, <1>4, <2>1, <2>2, GrownKeeps
<1>11. DeviceOK'
  <2>1. /\ ~dflFound' /\ (RomsOf = {} => dflAddr' = 0)
        /\ \A h \in DOMAIN Filled' : AccessOK(Filled'[h], h, dflAddr')
    BY <1>1, <1>2, <1>4 DEF DeviceOK, FoundOK, ReachOK
  <2>2. call'.op # "init"
    BY <1>1, <1>3
  <2>3. QED
    BY <1>1, <1>4, <2>1, <2>2, DeviceNext
<1>12. QED
  BY <1>1, <1>6, <1>7, <1>8, <1>9, <1>10, <1>11 DEF IInv

\* Init begins.
LEMMA InitBeginsStep ==
    ASSUME IInv, InitBegins
    PROVE  IInv'
<1>1. /\ build = "device" /\ call = Idle /\ call' = ScanAt(1, "scan") /\ result' = "none"
      /\ inits' = inits + 1 /\ session' = session + 1 /\ doubled' = (doubled \/ session > 0)
      /\ build' = build /\ table' = table /\ vec' = vec /\ dflAddr' = dflAddr
      /\ dflFound' = dflFound /\ registered' = registered
      /\ UNCHANGED <<kernelVars, crossed>>
      /\ Counted
  BY DEF InitBegins, InitCalled, Counted
<1>2. /\ TableOK /\ PlatformOK /\ CallOK /\ RegisteredOK /\ DeviceOK
      /\ inits \in Nat /\ session \in Nat /\ session <= inits
      /\ Len(table) \in Nat /\ DOMAIN table = 1..Len(table)
  BY <1>1 DEF IInv, PlatformOK, TableOK
<1>3. /\ call.op # "init" /\ call.step # "store" /\ call.step # "flag" /\ call.step # "scan"
      /\ call'.op = "init" /\ call'.step = "scan" /\ call'.h = 1 /\ call'.isr = NoIsr
  BY <1>1 DEF Idle, ScanAt
<1>4. /\ Filled = vec /\ Filled' = vec' /\ Filled' \in Seq(Entries)
      /\ Seen = Len(table) /\ Seen' = 0
  BY <1>1, <1>2, <1>3, FilledType DEF Filled, Seen
<1>5. inits' \in Nat /\ session' \in Nat /\ inits' > 0 /\ inits' # 0 /\ session' # 0 /\ session' <= inits'
  BY <1>1, <1>2
<1>6. TableOK'
  BY <1>1, <1>2 DEF TableOK
<1>7. PlatformOK'
  BY <1>1, <1>2, <1>3, <1>5 DEF PlatformOK
<1>8. CallOK'
  <2>1. call' \in Calls
    BY <1>1 DEF Calls, ScanAt
  <2>2. Scanning'
    BY <1>1, <1>2, <1>3 DEF Scanning
  <2>3. QED
    BY <2>1, <2>2 DEF CallOK
<1>9. Quiet'
  <2>1. inits' = 1 => inits = 0
    BY <1>1, <1>2
  <2>2. on' = on
    BY <1>1 DEF kernelVars
  <2>3. QED
    BY <1>5, <2>1, <2>2 DEF IInv, Quiet
<1>10. OnKnown' /\ RegisteredOK' /\ FlagsOK'
  <2>1. DOMAIN registered = DOMAIN Filled /\ registered \in Seq(Isrs \cup {NoIsr})
    BY <1>2 DEF RegisteredOK
  <2>2. Grown(Filled, Filled')
    BY <1>1, <1>4 DEF Grown
  <2>3. QED
    BY <1>1, <1>3, <1>4, <2>1, <2>2, GrownKeeps
<1>11. DeviceOK'
  <2>1. /\ (RomsOf = {} => dflAddr' = 0)
        /\ \A h \in DOMAIN Filled' : AccessOK(Filled'[h], h, dflAddr')
    BY <1>1, <1>2, <1>4 DEF DeviceOK, FoundOK, ReachOK
  <2>2. \A r \in RomsOf : r \in Nat /\ r >= 1
    BY <1>2 DEF RomsOf
  <2>3. Romless(0) /\ OneRom(0) /\ RomPart(0) = 0
    BY <2>2 DEF Romless, OneRom, RomPart
  <2>4. dflFound' <=> ~Romless(IF inits' = 1 THEN 0 ELSE Len(table))
    <3>1. CASE inits = 0
      <4>1. inits' = 1 /\ ~dflFound'
        BY <1>1, <1>2, <3>1 DEF DeviceOK, FoundOK
      <4>2. QED
        BY <2>3, <4>1
    <3>2. CASE inits # 0
      <4>1. inits > 0 /\ inits' # 1
        BY <1>1, <1>2, <3>2
      <4>2. dflFound <=> ~Romless(IF inits = 1 THEN Seen ELSE Len(table))
        BY <1>1, <1>2, <4>1 DEF DeviceOK, FoundOK
      <4>3. QED
        BY <1>1, <1>4, <4>1, <4>2
    <3>3. QED
      BY <3>1, <3>2
  <2>5. ASSUME session' = 1 PROVE Listed(Filled', RomPart(0), ListedUpTo(0))
    <3>1. session = 0
      BY <1>1, <1>2, <2>5
    <3>2. vec = <<>>
      BY <1>2, <3>1 DEF PlatformOK
    <3>3. Filled' = <<>> /\ Len(Filled') = 0 /\ DOMAIN Filled' = {}
      BY <1>1, <1>4, <3>2
    <3>4. ListedUpTo(0) = {}
      BY <1>2 DEF ListedUpTo
    <3>5. (0 + 1)..0 = {}
      OBVIOUS
    <3>6. QED
      BY <2>3, <3>3, <3>4, <3>5 DEF Listed
  <2>6. QED
    BY <1>1, <1>4, <1>5, <2>1, <2>3, <2>4, <2>5, DeviceNext
<1>12. QED
  BY <1>1, <1>6, <1>7, <1>8, <1>9, <1>10, <1>11 DEF IInv

\* One entry more, with a device that comes after those listed.
LEMMA ListedGrows ==
    ASSUME NEW v \in Seq(Entries), NEW w \in Seq(Entries), NEW c \in Nat, NEW S \in SUBSET Nat,
           Listed(v, c, S), NEW n \in Nat, \A m \in S : m < n,
           Len(w) = Len(v) + 1, \A k \in DOMAIN v : w[k] = v[k],
           w[Len(v) + 1].dfl = FALSE, w[Len(v) + 1].dev = n
    PROVE  Listed(w, c, S \cup {n})
<1> DEFINE d == Len(v)
<1>1. /\ d \in Nat /\ DOMAIN v = 1..d /\ DOMAIN w = 1..(d + 1) /\ c <= d
      /\ S = {v[k].dev : k \in (c + 1)..d}
      /\ \A k \in 1..d : v[k].dfl <=> k <= c
      /\ \A k, l \in (c + 1)..d : k < l => v[k].dev < v[l].dev
  BY DEF Listed
<1> HIDE DEF d
<1>2. /\ Len(w) = d + 1 /\ w[d + 1].dfl = FALSE /\ w[d + 1].dev = n
      /\ \A k \in 1..d : w[k] = v[k]
  BY <1>1 DEF d
<1>3. \A k \in (c + 1)..d : v[k].dev \in S
  BY <1>1
<1>4. \A k \in (c + 1)..(d + 1) : k # d + 1 => k \in (c + 1)..d /\ k \in 1..d
  BY <1>1
<1>5. \A k \in (c + 1)..d : k \in (c + 1)..(d + 1) /\ k \in 1..d
  BY <1>1
<1>6. d + 1 \in (c + 1)..(d + 1) /\ ~(d + 1 <= c)
  BY <1>1
<1>7. \A k \in DOMAIN w : w[k].dfl <=> k <= c
  <2>1. SUFFICES ASSUME NEW k \in 1..(d + 1) PROVE w[k].dfl <=> k <= c
    BY <1>1
  <2>2. CASE k = d + 1
    BY <1>2, <1>6, <2>2
  <2>3. CASE k # d + 1
    <3>1. k \in 1..d
      BY <1>1, <2>3
    <3>2. QED
      BY <1>1, <1>2, <3>1
  <2>4. QED
    BY <2>2, <2>3
<1>8. S \cup {n} = {w[k].dev : k \in (c + 1)..(d + 1)}
  <2>1. ASSUME NEW x \in S \cup {n} PROVE \E k \in (c + 1)..(d + 1) : x = w[k].dev
    <3>1. CASE x = n
      BY <1>2, <1>6, <3>1
    <3>2. CASE x \in S
      <4>1. PICK k \in (c + 1)..d : x = v[k].dev
        BY <1>1, <3>2
      <4>2. QED
        BY <1>2, <1>5, <4>1
    <3>3. QED
      BY <3>1, <3>2
  <2>2. ASSUME NEW k \in (c + 1)..(d + 1) PROVE w[k].dev \in S \cup {n}
    <3>1. CASE k = d + 1
      BY <1>2, <3>1
    <3>2. CASE k # d + 1
      BY <1>2, <1>3, <1>4, <3>2
    <3>3. QED
      BY <3>1, <3>2
  <2>3. QED
    BY <2>1, <2>2
<1>9. ASSUME NEW k \in (c + 1)..(d + 1), NEW l \in (c + 1)..(d + 1), k < l
      PROVE  w[k].dev < w[l].dev
  <2>1. k # d + 1
    BY <1>1, <1>9
  <2>2. k \in (c + 1)..d /\ w[k] = v[k]
    BY <1>2, <1>4, <2>1
  <2>3. CASE l = d + 1
    BY <1>2, <1>3, <2>2, <2>3
  <2>4. CASE l # d + 1
    <3>1. l \in (c + 1)..d /\ w[l] = v[l]
      BY <1>2, <1>4, <2>4
    <3>2. QED
      BY <1>1, <1>9, <2>2, <3>1
  <2>5. QED
    BY <2>3, <2>4
<1>10. c <= Len(w)
  BY <1>1, <1>2
<1>11. QED
  BY <1>2, <1>7, <1>8, <1>9, <1>10 DEF Listed

\* The vector with one device more.
IsLonger(v, w, n) ==
    /\ w \in Seq(Entries) /\ Len(w) = Len(v) + 1 /\ DOMAIN w = 1..(Len(v) + 1)
    /\ \A k \in DOMAIN v : w[k] = v[k]
    /\ w[Len(v) + 1].base = table[n].base /\ w[Len(v) + 1].dev = n
    /\ w[Len(v) + 1].dfl = FALSE /\ Fresh(w[Len(v) + 1])

\* A zeroed entry, once it is filled in.
LEMMA GrownEntry ==
    ASSUME TableOK, NEW v \in Seq(Entries), NEW n \in DOMAIN table, NEW e,
           e = Entry(0, FALSE, 0, 0), NEW u, NEW w
    PROVE  u = Append(v, e) /\ w = [u EXCEPT ![Len(u)] = FilledIn(u[Len(u)], n)] =>
              u \in Seq(Entries) /\ u # <<>> /\ IsLonger(v, w, n)
<1>2. e \in Entries /\ e.dfl = FALSE /\ e.cb = NoIsr /\ e.flag = FALSE
  <2>1. IsEntry(e, 0, FALSE, 0)
    BY EntryType, ZeroIrq
  <2>2. QED
    BY <2>1 DEF IsEntry
<1>3. \A x \in Entries : u = Append(v, x) =>
      /\ u \in Seq(Entries) /\ Len(u) = Len(v) + 1 /\ DOMAIN u = 1..(Len(v) + 1)
      /\ u[Len(v) + 1] = x /\ \A k \in DOMAIN v : u[k] = v[k]
      /\ Len(v) \in Nat /\ DOMAIN v = 1..Len(v) /\ u # <<>>
  OBVIOUS
<1>4. ASSUME u \in Seq(Entries), u # <<>>
      PROVE  w = [u EXCEPT ![Len(u)] = FilledIn(u[Len(u)], n)] =>
      /\ w \in Seq(Entries) /\ Len(w) = Len(u) /\ DOMAIN w = DOMAIN u
      /\ \A k \in DOMAIN u : k # Len(u) => w[k] = u[k]
      /\ w[Len(u)].base = table[n].base /\ w[Len(u)].dev = n
      /\ \A k \in DOMAIN u : w[k].dfl = u[k].dfl /\ w[k].cb = u[k].cb /\ w[k].flag = u[k].flag
  BY <1>4, FilledEntry
<1>5. SUFFICES ASSUME u = Append(v, e), w = [u EXCEPT ![Len(u)] = FilledIn(u[Len(u)], n)]
               PROVE  u \in Seq(Entries) /\ u # <<>> /\ IsLonger(v, w, n)
  OBVIOUS
<1>6. /\ u \in Seq(Entries) /\ Len(u) = Len(v) + 1 /\ DOMAIN u = 1..(Len(v) + 1)
      /\ u[Len(v) + 1] = e /\ \A k \in DOMAIN v : u[k] = v[k]
      /\ Len(v) \in Nat /\ DOMAIN v = 1..Len(v) /\ u # <<>>
  BY <1>2, <1>3, <1>5, Zenon
<1>7. /\ w \in Seq(Entries) /\ Len(w) = Len(u) /\ DOMAIN w = DOMAIN u
      /\ \A k \in DOMAIN u : k # Len(u) => w[k] = u[k]
      /\ w[Len(u)].base = table[n].base /\ w[Len(u)].dev = n
      /\ \A k \in DOMAIN u : w[k].dfl = u[k].dfl /\ w[k].cb = u[k].cb /\ w[k].flag = u[k].flag
  BY <1>4, <1>5, <1>6, Zenon
<1>8. \A k \in DOMAIN v : k \in DOMAIN u /\ k # Len(u)
  BY <1>6
<1>9. Len(v) + 1 \in DOMAIN u
  BY <1>6
<1>10. w[Len(v) + 1].dfl = FALSE /\ Fresh(w[Len(v) + 1])
  BY <1>2, <1>6, <1>7, <1>9 DEF Fresh
<1>11. QED
  BY <1>6, <1>7, <1>8, <1>10 DEF IsLonger

\* A plain device: its entry is added.
LEMMA DeviceGrowsStep ==
    ASSUME IInv, DeviceGrows
    PROVE  IInv'
<1> DEFINE n == call.h
<1>1. /\ call.step = "scan" /\ n \in DOMAIN table /\ table[n].type = 1
      /\ vec' = Append(vec, Entry(0, FALSE, 0, 0))
      /\ registered' = Append(registered, NoIsr)
      /\ call' = ScanAt(n, "store")
      /\ UNCHANGED scanUnchanged /\ dflAddr' = dflAddr /\ dflFound' = dflFound /\ result' = result
  BY DEF DeviceGrows, AtDevice
<1>2. /\ TableOK /\ PlatformOK /\ CallOK /\ DeviceOK /\ RegisteredOK /\ build = "device"
      /\ result = "none" /\ Counted /\ OneRom(Seen) /\ (inits > 1 => Romless(Seen))
      /\ dflFound <=> ~Romless(IF inits = 1 THEN Seen ELSE Len(table))
      /\ DOMAIN table = 1..Len(table) /\ Len(table) \in Nat /\ inits \in Nat /\ inits > 0
  BY <1>1, InitRuns
<1>3. /\ Filled = vec /\ vec \in Seq(Entries) /\ Seen = n - 1
      /\ dflAddr \in 0..(AddrMod - 1) /\ dflFound \in BOOLEAN
      /\ Len(vec) \in Nat /\ DOMAIN vec = 1..Len(vec)
  BY <1>1, <1>2, FilledType DEF Seen, PlatformOK
<1>4. call'.step = "store" /\ call'.h = n /\ call'.op = "init" /\ table' = table
  BY <1>1 DEF ScanAt, scanUnchanged
<1>5. Filled' = [vec' EXCEPT ![Len(vec')] = FilledIn(vec'[Len(vec')], n)] /\ Seen' = n
  BY <1>4 DEF Filled, FilledIn, Seen
<1>6. PICK w : w = Filled'
  OBVIOUS
<1> DEFINE d == Len(vec)
<1>7. /\ vec' \in Seq(Entries) /\ vec' # <<>> /\ w \in Seq(Entries)
      /\ Len(w) = d + 1 /\ DOMAIN w = 1..(d + 1)
      /\ \A k \in DOMAIN vec : w[k] = vec[k]
      /\ w[d + 1].base = table[n].base /\ w[d + 1].dev = n
      /\ w[d + 1].dfl = FALSE /\ Fresh(w[d + 1])
  <2>1. PICK e : e = Entry(0, FALSE, 0, 0)
    OBVIOUS
  <2>2. TableOK /\ vec \in Seq(Entries) /\ vec' = Append(vec, e) /\ n \in DOMAIN table
    BY <1>1, <1>2, <1>3, <2>1
  <2>3. w = [vec' EXCEPT ![Len(vec')] = FilledIn(vec'[Len(vec')], n)]
    BY <1>5, <1>6
  <2> HIDE DEF n
  <2>4. vec' \in Seq(Entries) /\ vec' # <<>> /\ IsLonger(vec, w, n)
    BY <2>1, <2>2, <2>3, GrownEntry, Zenon
  <2>5. QED
    BY <2>4 DEF IsLonger
<1>8. /\ TableOK' /\ PlatformOK' /\ CallOK' /\ Quiet' /\ build' = build /\ inits' = inits
      /\ session' = session /\ UNCHANGED <<kernelVars, crossed>>
  BY <1>1, <1>2, <1>3, <1>7, ScanMoves
<1> HIDE DEF d
<1>9. \A k \in 1..(d + 1) : k \in DOMAIN vec \/ k = d + 1
  BY <1>3 DEF d
<1>10. DOMAIN vec \subseteq 1..(d + 1) /\ d \in Nat /\ d + 1 \in 1..(d + 1)
  BY <1>3 DEF d
<1>11. OnKnown' /\ RegisteredOK' /\ FlagsOK'
  <2>1. Grown(Filled, Filled')
    BY <1>3, <1>6, <1>7, <1>9, <1>10 DEF Grown
  <2>2. /\ registered \in Seq(Isrs \cup {NoIsr}) /\ DOMAIN registered = DOMAIN vec
        /\ DOMAIN registered = 1..d
    BY <1>2, <1>3 DEF RegisteredOK, d
  <2>3. /\ DOMAIN registered' = 1..(d + 1) /\ registered'[d + 1] = NoIsr
        /\ \A k \in 1..d : registered'[k] = registered[k]
        /\ registered' \in Seq(Isrs \cup {NoIsr})
    <3>1. Len(registered) = d
      BY <1>10, <2>2
    <3>2. QED
      BY <1>1, <2>2, <3>1
  <2>4. \A h \in DOMAIN Filled' : registered'[h] # NoIsr =>
              h \in DOMAIN Filled /\ registered'[h] = registered[h]
    BY <1>3, <1>6, <1>7, <1>9, <2>2, <2>3
  <2>5. QED
    BY <1>1, <1>4, <1>6, <1>7, <1>8, <2>1, <2>3, <2>4, GrownKeeps
<1>12. DeviceOK'
  <2>1. /\ n - 1 \in Nat
        /\ Romless(n) <=> Romless(n - 1)
        /\ OneRom(n) <=> OneRom(n - 1)
        /\ ListedUpTo(n) = ListedUpTo(n - 1) \cup {n}
    BY <1>1, <1>2, OneFurther
  <2>2. /\ inits' > 0
        /\ dflFound' <=> ~Romless(IF inits' = 1 THEN n ELSE Len(table))
        /\ OneRom(n) /\ (inits' > 1 => Romless(n))
    BY <1>1, <1>2, <1>3, <1>8, <2>1
  <2>3. RomsOf = {} => dflAddr' = 0
    BY <1>1, <1>2 DEF DeviceOK, FoundOK
  <2>4. ASSUME session' = 1 PROVE Listed(w, RomPart(n), ListedUpTo(n))
    <3>1. Listed(vec, RomPart(n - 1), ListedUpTo(n - 1))
      BY <1>2, <1>3, <1>8, <2>4 DEF DeviceOK, ListingOK
    <3>2. RomPart(n) = RomPart(n - 1) /\ RomPart(n) \in Nat
      <4>1. Len(Rom) \in Nat
        BY RomAssumption
      <4>2. QED
        BY <2>1, <4>1 DEF RomPart
    <3>3. n \in Nat /\ ListedUpTo(n - 1) \subseteq Nat
      BY <1>1, <1>2 DEF ListedUpTo
    <3>4. \A m \in ListedUpTo(n - 1) : m < n
      BY <1>1, <1>2, <3>3 DEF ListedUpTo
    <3>5. /\ Len(w) = Len(vec) + 1 /\ w[Len(vec) + 1].dfl = FALSE
          /\ w[Len(vec) + 1].dev = n
      BY <1>7 DEF d
    <3>6. Listed(w, RomPart(n - 1), ListedUpTo(n - 1) \cup {n})
      BY <1>3, <1>7, <3>1, <3>2, <3>3, <3>4, <3>5, ListedGrows
    <3>7. QED
      BY <2>1, <3>2, <3>6
  <2>5. ASSUME NEW h \in DOMAIN w PROVE AccessOK(w[h], h, dflAddr')
    <3>1. CASE h \in DOMAIN vec
      BY <1>1, <1>2, <1>3, <1>7, <3>1 DEF DeviceOK, ReachOK
    <3>2. CASE h = d + 1
      BY <1>1, <1>7, <3>2 DEF AccessOK
    <3>3. QED
      BY <1>7, <1>9, <3>1, <3>2
  <2>6. result' = "none" /\ inits' # 0
    BY <1>1, <1>2, <1>8
  <2>7. QED
    BY <1>2, <1>4, <1>5, <1>6, <2>2, <2>3, <2>4, <2>5, <2>6, DeviceNext
<1>13. QED
  BY <1>2, <1>8, <1>11, <1>12 DEF IInv

\* Init goes on, with the vector as it was to be.
LEMMA ScanGoesOn ==
    ASSUME IInv, call.step \in {"scan", "store"}, UNCHANGED scanUnchanged,
           UNCHANGED <<dflAddr, dflFound, result, registered>>,
           vec' \in Seq(Entries), Filled' = Filled, NEW n \in 1..(Len(table) + 1),
           call' = ScanAt(n, "scan"),
           Romless(n - 1) <=> Romless(Seen), OneRom(n - 1) <=> OneRom(Seen),
           ListedUpTo(n - 1) = ListedUpTo(Seen)
    PROVE  IInv'
<1>1. /\ TableOK /\ PlatformOK /\ CallOK /\ DeviceOK /\ RegisteredOK /\ build = "device"
      /\ result = "none" /\ Counted /\ OneRom(Seen) /\ (inits > 1 => Romless(Seen))
      /\ dflFound <=> ~Romless(IF inits = 1 THEN Seen ELSE Len(table))
      /\ inits \in Nat /\ inits > 0
  BY InitRuns
<1>2. dflAddr \in 0..(AddrMod - 1) /\ dflFound \in BOOLEAN
  BY <1>1 DEF PlatformOK
<1>3. /\ TableOK' /\ PlatformOK' /\ CallOK' /\ Quiet' /\ build' = build /\ inits' = inits
      /\ session' = session /\ UNCHANGED <<kernelVars, crossed>>
      /\ call'.op = "init" /\ call'.step = "scan" /\ call'.h = n /\ table' = table
  BY <1>2, ScanMoves
<1>4. Filled \in Seq(Entries) /\ Seen' = n - 1
  BY <1>1, <1>3, FilledType DEF Seen
<1>5. OnKnown' /\ RegisteredOK' /\ FlagsOK'
  <2>1. Grown(Filled, Filled')
    BY <1>4 DEF Grown
  <2>2. registered \in Seq(Isrs \cup {NoIsr}) /\ DOMAIN registered = DOMAIN Filled
    BY <1>1 DEF RegisteredOK
  <2>3. QED
    BY <1>3, <2>1, <2>2, GrownKeeps
<1>6. DeviceOK'
  <2>1. RomPart(n - 1) = RomPart(Seen)
    BY DEF RomPart
  <2>2. session' = 1 => Listed(Filled', RomPart(n - 1), ListedUpTo(n - 1))
    BY <1>1, <1>3, <2>1 DEF DeviceOK, ListingOK
  <2>3. /\ RomsOf = {} => dflAddr' = 0
        /\ \A h \in DOMAIN Filled' : AccessOK(Filled'[h], h, dflAddr')
    BY <1>1 DEF DeviceOK, FoundOK, ReachOK
  <2>4. /\ dflFound' <=> ~Romless(IF inits' = 1 THEN n - 1 ELSE Len(table))
        /\ OneRom(n - 1) /\ (inits' > 1 => Romless(n - 1))
        /\ inits' # 0 /\ result' = "none"
    BY <1>1, <1>3
  <2>5. QED
    BY <1>1, <1>3, <1>4, <2>2, <2>3, <2>4, DeviceNext
<1>7. QED
  BY <1>1, <1>3, <1>5, <1>6 DEF IInv

\* The entry is filled in.
LEMMA DeviceStoresStep ==
    ASSUME IInv, DeviceStores
    PROVE  IInv'
<1> DEFINE n == call.h
<1>1. /\ call.step = "store" /\ call' = ScanAt(n + 1, "scan")
      /\ vec' = [vec EXCEPT ![Len(vec)] = FilledIn(vec[Len(vec)], n)]
      /\ UNCHANGED scanUnchanged /\ UNCHANGED <<dflAddr, dflFound, result, registered>>
  BY DEF DeviceStores, FilledIn
<1>2. TableOK /\ PlatformOK /\ CallOK /\ Scanning /\ DOMAIN table = 1..Len(table) /\ Len(table) \in Nat
  BY <1>1, InitRuns
<1>3. n \in DOMAIN table /\ Seen = n /\ Filled \in Seq(Entries)
  BY <1>1, <1>2, FilledType DEF Scanning, Seen
<1>4. Filled = vec' /\ Filled' = vec'
  BY <1>1 DEF Filled, ScanAt
<1>5. n + 1 \in 1..(Len(table) + 1) /\ (n + 1) - 1 = Seen
  BY <1>2, <1>3
<1>6. QED
  BY <1>1, <1>3, <1>4, <1>5, ScanGoesOn

\* A device of another type.
LEMMA DeviceSkippedStep ==
    ASSUME IInv, DeviceSkipped
    PROVE  IInv'
<1> DEFINE n == call.h
<1>1. /\ call.step = "scan" /\ n \in DOMAIN table /\ table[n].type = 0
      /\ call' = ScanAt(n + 1, "scan") /\ vec' = vec
      /\ UNCHANGED scanUnchanged /\ UNCHANGED <<dflAddr, dflFound, result, registered>>
  BY DEF DeviceSkipped, AtDevice
<1>2. TableOK /\ PlatformOK /\ CallOK /\ DOMAIN table = 1..Len(table) /\ Len(table) \in Nat
  BY <1>1, InitRuns
<1>3. Seen = n - 1 /\ vec \in Seq(Entries) /\ Filled = vec /\ Filled' = vec'
  BY <1>1, <1>2, FilledType DEF Seen, Filled, ScanAt
<1>4. n + 1 \in 1..(Len(table) + 1) /\ (n + 1) - 1 = n
  BY <1>1, <1>2
<1>5. /\ Romless(n) <=> Romless(n - 1)
      /\ OneRom(n) <=> OneRom(n - 1)
      /\ ListedUpTo(n) = ListedUpTo(n - 1)
  BY <1>1, <1>2, OneFurther
<1>6. QED
  BY <1>1, <1>3, <1>4, <1>5, ScanGoesOn

\* A ROM where one has been met before: init fails.
LEMMA DeviceIsSecondRomStep ==
    ASSUME IInv, DeviceIsSecondRom
    PROVE  IInv'
<1> DEFINE n == call.h
<1>1. /\ call.step = "scan" /\ n \in DOMAIN table /\ table[n].type = 2 /\ dflFound
      /\ result' = "false" /\ call' = Idle
      /\ UNCHANGED <<scanUnchanged, vec, dflAddr, dflFound, registered>>
  BY DEF DeviceIsSecondRom, AtDevice
<1>2. /\ TableOK /\ DeviceOK /\ build = "device" /\ Counted /\ inits \in Nat /\ inits > 0
      /\ dflFound <=> ~Romless(IF inits = 1 THEN Seen ELSE Len(table))
  BY <1>1, InitRuns
<1>3. /\ TableOK' /\ PlatformOK' /\ CallOK' /\ Quiet'
      /\ OnKnown' /\ RegisteredOK' /\ FlagsOK' /\ Filled' = Filled
      /\ call'.op # "init" /\ Seen' = Len(table)
      /\ table' = table /\ build' = build /\ inits' = inits
      /\ dflAddr' = dflAddr /\ dflFound' = dflFound
  BY <1>1, ScanReturns
<1>4. n \in RomsOf /\ n \in Nat /\ Seen = n - 1
  <2>1. n \in RomsOf
    BY <1>1 DEF RomsOf
  <2>2. QED
    BY <1>1, <1>2, <2>1, DeviceType DEF Seen
<1>5. IsFiniteSet(RomsOf) /\ ~Romless(Len(table))
  BY <1>2, <1>4, WholeTable
<1>6. Cardinality(RomsOf) > 1 \/ (RomsOf # {} /\ inits > 1)
  <2>1. CASE inits > 1
    BY <1>4, <2>1
  <2>2. CASE inits = 1
    <3>1. PICK r \in RomsOf : ~(n - 1 < r)
      BY <1>1, <1>2, <1>4, <2>2 DEF Romless
    <3>2. r # n
      BY <1>4, <3>1
    <3>3. QED
      BY <1>4, <1>5, <3>2, TwoElements
  <2>3. QED
    BY <1>2, <2>1, <2>2
<1>7. DeviceOK'
  <2>1. /\ RomsOf = {} => dflAddr' = 0
        /\ \A h \in DOMAIN Filled' : AccessOK(Filled'[h], h, dflAddr')
    BY <1>2, <1>3 DEF DeviceOK, FoundOK, ReachOK
  <2>2. dflFound' <=> ~Romless(IF inits' = 1 THEN Len(table) ELSE Len(table))
    BY <1>1, <1>3, <1>5
  <2>3. inits' # 0
    BY <1>2, <1>3
  <2>4. QED
    BY <1>1, <1>2, <1>3, <1>6, <2>1, <2>2, <2>3, DeviceNext
<1>8. QED
  BY <1>2, <1>3, <1>7 DEF IInv

\* The whole table has been seen: init succeeds.
LEMMA InitEndsStep ==
    ASSUME IInv, InitEnds
    PROVE  IInv'
<1>1. /\ call.step = "scan" /\ call.h > Len(table) /\ result' = "true" /\ call' = Idle
      /\ UNCHANGED <<scanUnchanged, vec, dflAddr, dflFound, registered>>
  BY DEF InitEnds
<1>2. /\ TableOK /\ DeviceOK /\ build = "device" /\ Counted /\ inits \in Nat /\ inits > 0
      /\ Scanning /\ Len(table) \in Nat /\ result = "none"
      /\ OneRom(Seen) /\ (inits > 1 => Romless(Seen))
      /\ dflFound <=> ~Romless(IF inits = 1 THEN Seen ELSE Len(table))
  BY <1>1, InitRuns
<1>3. /\ TableOK' /\ PlatformOK' /\ CallOK' /\ Quiet'
      /\ OnKnown' /\ RegisteredOK' /\ FlagsOK' /\ Filled' = Filled
      /\ call'.op # "init" /\ Seen' = Len(table)
      /\ table' = table /\ build' = build /\ inits' = inits /\ session' = session
      /\ dflAddr' = dflAddr /\ dflFound' = dflFound
  BY <1>1, ScanReturns
<1>4. Seen = Len(table)
  <2>1. call.h \in 1..(Len(table) + 1)
    BY <1>1, <1>2 DEF Scanning
  <2>2. call.h = Len(table) + 1
    BY <1>1, <1>2, <2>1
  <2>3. QED
    BY <1>1, <1>2, <2>2 DEF Seen
<1>5. ~(Cardinality(RomsOf) > 1) /\ ~(RomsOf # {} /\ inits > 1)
  BY <1>2, <1>4, WholeTable
<1>6. DeviceOK'
  <2>1. /\ RomsOf = {} => dflAddr' = 0
        /\ \A h \in DOMAIN Filled' : AccessOK(Filled'[h], h, dflAddr')
        /\ session' = 1 => Listed(Filled', RomPart(Len(table)), ListedUpTo(Len(table)))
    BY <1>2, <1>3, <1>4 DEF DeviceOK, FoundOK, ReachOK, ListingOK
  <2>2. dflFound' <=> ~Romless(IF inits' = 1 THEN Len(table) ELSE Len(table))
    BY <1>2, <1>3, <1>4
  <2>3. inits' # 0
    BY <1>2, <1>3
  <2>4. QED
    BY <1>1, <1>2, <1>3, <1>5, <2>1, <2>2, <2>3, DeviceNext
<1>7. QED
  BY <1>2, <1>3, <1>6 DEF IInv

\* The ROM: it is met in the first init, when no interrupt can be on.
LEMMA DeviceIsRomStep ==
    ASSUME IInv, DeviceIsRom
    PROVE  IInv'
<1> DEFINE n == call.h
<1>1. /\ call.step = "scan" /\ n \in DOMAIN table /\ table[n].type = 2 /\ ~dflFound
      /\ vec' = RomEntries(table[n].base) /\ dflAddr' = table[n].base /\ dflFound' = TRUE
      /\ registered' = [h \in DOMAIN vec' |-> NoIsr]
      /\ call' = ScanAt(n + 1, "scan") /\ UNCHANGED scanUnchanged /\ result' = result
  BY DEF DeviceIsRom, AtDevice
<1>2. /\ TableOK /\ PlatformOK /\ CallOK /\ RegisteredOK /\ build = "device" /\ Counted
      /\ result = "none" /\ call.op = "init"
      /\ inits \in Nat /\ inits > 0 /\ DOMAIN table = 1..Len(table) /\ Len(table) \in Nat
      /\ dflFound <=> ~Romless(IF inits = 1 THEN Seen ELSE Len(table))
  BY <1>1, InitRuns
<1>3. table[n].base \in 0..(AddrMod - 1) /\ table[n].base \in Nat /\ n \in Nat
  BY <1>1, <1>2, DeviceType
<1>4. IsRomList(vec', table[n].base)
  BY <1>1, <1>3, RomEntriesType
<1>5. /\ vec' \in Seq(Entries) /\ Len(vec') = Len(Rom) /\ DOMAIN vec' = 1..Len(Rom)
      /\ Len(Rom) \in Nat /\ DOMAIN Rom = 1..Len(Rom)
      /\ \A k \in DOMAIN vec' : IsEntry(vec'[k], RomAddr(k, table[n].base), TRUE, 0)
  BY <1>4 DEF IsRomList
<1>6. n + 1 \in 1..(Len(table) + 1) /\ (n + 1) - 1 = n
  BY <1>1, <1>2, <1>3
<1>7. /\ TableOK' /\ PlatformOK' /\ CallOK' /\ Quiet' /\ build' = build /\ inits' = inits
      /\ session' = session /\ UNCHANGED <<kernelVars, crossed>>
      /\ call'.op = "init" /\ call'.step = "scan" /\ call'.h = n + 1 /\ table' = table
  <2>1. TRUE \in BOOLEAN
    OBVIOUS
  <2>2. QED
    BY <1>1, <1>3, <1>5, <1>6, <2>1, ScanMoves
<1>8. Filled' = vec' /\ Seen' = n /\ Seen = n - 1
  BY <1>1, <1>6, <1>7 DEF Filled, Seen
<1>9. n \in RomsOf /\ ~Romless(n) /\ ListedUpTo(n) = {} /\ (Romless(n - 1) => OneRom(n))
  BY <1>1, <1>2, OneFurther
<1>10. ~Romless(Len(table))
  BY <1>2, <1>9, WholeTable
<1>11. inits = 1 /\ Romless(n - 1)
  BY <1>1, <1>2, <1>8, <1>10
<1>12. on = {} /\ on' = {} /\ connected' = connected
  BY <1>2, <1>7, <1>11 DEF IInv, Quiet, kernelVars
<1>13. OnKnown'
  BY <1>12 DEF OnKnown
<1>14. RegisteredOK'
  <2>1. registered' \in [1..Len(Rom) -> Isrs \cup {NoIsr}]
    BY <1>1, <1>5
  <2>2. registered' \in Seq(Isrs \cup {NoIsr}) /\ DOMAIN registered' = DOMAIN Filled'
    BY <1>5, <1>8, <2>1
  <2>3. connected' \in [Irqs -> Isrs \cup {NoIsr}]
    BY <1>2, <1>12 DEF RegisteredOK
  <2>4. \A h \in DOMAIN Filled' : registered'[h] = NoIsr
    BY <1>1, <1>8
  <2>5. QED
    BY <2>2, <2>3, <2>4 DEF RegisteredOK
<1>15. FlagsOK'
  <2>1. \A h \in DOMAIN Filled' : Filled'[h].flag = FALSE
    BY <1>5, <1>8 DEF IsEntry
  <2>2. call'.step # "flag"
    BY <1>7
  <2>3. QED
    BY <1>12, <2>1, <2>2 DEF FlagsOK, FlagOK
<1>16. DeviceOK'
  <2>1. \A h \in DOMAIN Filled' : AccessOK(Filled'[h], h, dflAddr')
    BY <1>1, <1>5, <1>8 DEF IsEntry, AccessOK
  <2>2. Listed(Filled', RomPart(n), ListedUpTo(n))
    <3>1. RomPart(n) = Len(Rom)
      BY <1>9 DEF RomPart
    <3>2. (Len(Rom) + 1)..Len(Rom) = {}
      BY <1>5
    <3>3. \A k \in DOMAIN Filled' : Filled'[k].dfl = TRUE /\ k <= Len(Rom)
      BY <1>5, <1>8 DEF IsEntry
    <3>4. Len(Rom) <= Len(Filled')
      BY <1>5, <1>8
    <3>5. QED
      BY <1>5, <1>8, <1>9, <3>1, <3>2, <3>3, <3>4 DEF Listed
  <2>3. /\ dflFound' <=> ~Romless(IF inits' = 1 THEN n ELSE Len(table))
        /\ OneRom(n) /\ ~(inits' > 1) /\ inits' # 0 /\ RomsOf # {} /\ result' = "none"
    BY <1>1, <1>2, <1>7, <1>9, <1>11
  <2>4. QED
    BY <1>2, <1>7, <1>8, <2>1, <2>2, <2>3, DeviceNext
<1>17. QED
  BY <1>2, <1>7, <1>13, <1>14, <1>15, <1>16 DEF IInv

\* The software model's init.
LEMMA InitModelStep ==
    ASSUME IInv, InitModel
    PROVE  IInv'
<1>1. /\ TableOK /\ PlatformOK /\ CallOK /\ ModelOK /\ RegisteredOK
      /\ build = "model" /\ build' = build /\ table' = table
  BY DEF IInv, InitModel
<1>2. /\ inits' = inits + 1 /\ session' = session + 1 /\ doubled' = (doubled \/ session > 0)
      /\ dflAddr' = dflAddr /\ dflFound' = dflFound
      /\ inits \in Nat /\ session \in Nat /\ session <= inits
      /\ vec \in Seq(Entries) /\ Len(vec) \in Nat /\ DOMAIN vec = 1..Len(vec) /\ Len(vec) <= 1
  BY <1>1 DEF InitModel, PlatformOK, ModelOK
<1>3. inits' \in Nat /\ session' \in Nat /\ session' # 0 /\ inits' # 0 /\ session' <= inits'
  BY <1>2
<1>4. table = <<>> /\ RomsOf = {} /\ RomsOf' = {}
  BY <1>1 DEF TableOK, RomsOf
<1>5. doubled \in BOOLEAN /\ doubled' \in BOOLEAN /\ (~doubled' => session = 0 /\ ~doubled)
  <2>1. doubled \in BOOLEAN
    BY <1>1 DEF PlatformOK
  <2>2. ~(session > 0) => session = 0
    BY <1>2
  <2>3. QED
    BY <1>2, <2>1, <2>2, Zenon
<1>6. \/ vec' = vec /\ buffers' = buffers /\ result' = "false"
      \/ /\ vec' = IF vec = <<>> THEN <<Entry(inits', FALSE, 0, 0)>>
                   ELSE [vec EXCEPT ![1].base = inits']
         /\ buffers' = buffers \cup {inits'} /\ result' = "true"
  BY DEF InitModel
<1>7. /\ call = Idle /\ UNCHANGED <<kernelVars, call, crossed>>
      /\ registered' = [h \in DOMAIN vec' |->
                          IF h \in DOMAIN registered THEN registered[h] ELSE NoIsr]
      /\ DOMAIN registered = DOMAIN vec /\ registered \in Seq(Isrs \cup {NoIsr})
      /\ Filled = vec /\ Filled' = vec' /\ call.step # "flag" /\ call.op # "init"
  <2>1. call = Idle /\ UNCHANGED <<kernelVars, call, crossed>>
    BY DEF InitModel
  <2>2. Filled = vec /\ Filled' = vec' /\ call.step # "flag" /\ call.op # "init"
    BY <2>1 DEF Idle, Filled
  <2>3. QED
    BY <1>1, <2>1, <2>2 DEF InitModel, RegisteredOK
<1>8. DOMAIN registered' = DOMAIN vec' /\ \A h \in DOMAIN vec' : registered'[h] # NoIsr =>
              h \in DOMAIN vec /\ registered'[h] = registered[h]
  BY <1>7
<1>9. TableOK'
  BY <1>1 DEF TableOK
<1>10. result' # "none"
  BY <1>6
<1>11. CallOK' /\ Quiet'
  BY <1>3, <1>7, IdleCall DEF CallOK, Quiet
<1>12. ASSUME vec' \in Seq(Entries) PROVE registered' \in Seq(Isrs \cup {NoIsr})
  <2>1. DOMAIN vec' = 1..Len(vec') /\ Len(vec') \in Nat
    BY <1>12
  <2>2. \A h \in DOMAIN registered : registered[h] \in Isrs \cup {NoIsr}
    BY <1>7
  <2>3. registered' \in [1..Len(vec') -> Isrs \cup {NoIsr}]
    BY <1>7, <2>1, <2>2
  <2>4. QED
    BY <2>1, <2>3
<1>13. SUFFICES vec' \in Seq(Entries) /\ ModelOK' /\ OnKnown' /\ RegisteredOK' /\ FlagsOK'
  <2>1. ASSUME vec' \in Seq(Entries) PROVE PlatformOK'
    BY <1>1, <1>2, <1>3, <1>5, <1>7, <1>10, <2>1 DEF PlatformOK
  <2>2. QED
    BY <1>1, <1>9, <1>11, <2>1 DEF IInv
<1>14. CASE vec' = vec /\ buffers' = buffers /\ result' = "false"
  <2>1. Grown(vec, vec') /\ vec' \in Seq(Entries)
    BY <1>2, <1>14 DEF Grown
  <2>2. OnKnown' /\ RegisteredOK' /\ FlagsOK'
    BY <1>7, <1>8, <1>12, <2>1, GrownKeeps
  <2>3. ModelOK'
    <3>1. Len(vec') <= 1
      BY <1>2, <1>14
    <3>2. ASSUME ~doubled'
          PROVE  session' <= 1 /\ vec' = <<>> /\ buffers' = {} /\ result' # "true"
      <4>1. session = 0 /\ ~doubled
        BY <1>5, <3>2
      <4>2. vec = <<>> /\ session' = 1
        BY <1>1, <1>2, <4>1 DEF PlatformOK
      <4>3. buffers = {}
        BY <1>1, <4>1, <4>2 DEF ModelOK
      <4>4. QED
        BY <1>14, <4>2, <4>3
    <3>3. QED
      BY <3>1, <3>2, Zenon DEF ModelOK
  <2>4. QED
    BY <1>2, <1>13, <1>14, <2>2, <2>3
<1>15. CASE /\ vec = <<>> /\ vec' = <<Entry(inits', FALSE, 0, 0)>>
            /\ buffers' = buffers \cup {inits'} /\ result' = "true"
  <2>1. PICK e : e = Entry(inits', FALSE, 0, 0)
    OBVIOUS
  <2>2. e \in Entries /\ e.base = inits' /\ Fresh(e)
    <3>1. 0 \in Irqs /\ FALSE \in BOOLEAN
      BY DEF Irqs, NoIrq
    <3>2. IsEntry(e, inits', FALSE, 0)
      BY <1>3, <2>1, <3>1, EntryType
    <3>3. QED
      BY <3>2 DEF IsEntry, Fresh
  <2>3. vec' = <<e>>
    BY <1>15, <2>1
  <2>4. vec' \in Seq(Entries) /\ DOMAIN vec' = {1} /\ vec'[1] = e /\ Len(vec') = 1
    BY <2>2, <2>3
  <2>5. DOMAIN vec = {}
    BY <1>15
  <2>6. Grown(vec, vec')
    BY <2>2, <2>4, <2>5 DEF Grown
  <2>7. OnKnown' /\ RegisteredOK' /\ FlagsOK'
    BY <1>7, <1>8, <1>12, <2>4, <2>6, GrownKeeps
  <2>8. ModelOK'
    <3>1. Len(vec') <= 1 /\ vec' # <<>>
      BY <2>4
    <3>2. ASSUME ~doubled'
          PROVE  session' <= 1 /\ buffers' = {vec'[1].base} /\ result' = "true"
      <4>1. session = 0 /\ ~doubled
        BY <1>5, <3>2
      <4>2. buffers = {} /\ session' = 1
        BY <1>1, <1>2, <1>15, <4>1 DEF ModelOK
      <4>3. vec'[1].base = inits' /\ result' = "true" /\ buffers' = buffers \cup {inits'}
        BY <1>15, <2>2, <2>4, Zenon
      <4>4. QED
        BY <4>2, <4>3
    <3>3. QED
      BY <3>1, <3>2, Zenon DEF ModelOK
  <2>9. QED
    BY <1>13, <2>4, <2>7, <2>8
<1>16. CASE /\ vec # <<>> /\ vec' = [vec EXCEPT ![1].base = inits']
            /\ buffers' = buffers \cup {inits'} /\ result' = "true"
  <2>1. Len(vec) = 1 /\ DOMAIN vec = {1} /\ vec[1] \in Entries
    <3>1. Len(vec) # 0
      BY <1>2, <1>16
    <3>2. QED
      BY <1>2, <3>1
  <2>2. PICK e : e = [vec[1] EXCEPT !.base = inits']
    OBVIOUS
  <2>3. /\ e \in Entries /\ e.irq = vec[1].irq /\ e.flag = vec[1].flag
    BY <1>3, <2>1, <2>2 DEF Entries
  <2>4. vec' = [vec EXCEPT ![1] = e]
    BY <1>16, <2>2
  <2>5. vec' \in Seq(Entries) /\ DOMAIN vec' = {1} /\ Len(vec') = 1 /\ vec'[1] = e
    BY <1>2, <2>1, <2>3, <2>4
  <2>6. doubled' = TRUE
    <3>1. session # 0
      BY <1>1, <1>16 DEF PlatformOK
    <3>2. QED
      BY <1>5, <3>1
  <2>7. ModelOK'
    BY <2>5, <2>6 DEF ModelOK
  <2>8. connected' = connected /\ on' = on /\ left' = left /\ call' = call /\ crossed' = crossed
    BY <1>7 DEF kernelVars
  <2>10. \A h \in DOMAIN vec' : h \in DOMAIN vec /\ vec'[h].irq = vec[h].irq
                                /\ vec'[h].flag = vec[h].flag
    BY <2>1, <2>3, <2>5
  <2>11. OnKnown'
    BY <1>7, <2>1, <2>5, <2>8, <2>10 DEF IInv, OnKnown
  <2>12. \A h \in DOMAIN vec' : Alone(vec', h) <=> Alone(vec, h)
    BY <2>1, <2>5 DEF Alone
  <2>13. RegisteredOK'
    <3>1. \A h \in DOMAIN vec' : registered'[h] = registered[h]
      BY <1>7, <2>10
    <3>2. DOMAIN registered' = DOMAIN vec' /\ connected' \in [Irqs -> Isrs \cup {NoIsr}]
      BY <1>1, <1>8, <2>8 DEF RegisteredOK
    <3>5. registered' \in Seq(Isrs \cup {NoIsr})
      BY <1>12, <2>5
    <3>3. \A h \in DOMAIN vec' : registered'[h] # NoIsr =>
             vec'[h].irq # NoIrq /\ (Alone(vec', h) => connected'[vec'[h].irq] = registered'[h])
      BY <1>1, <1>7, <2>8, <2>10, <2>12, <3>1 DEF RegisteredOK
    <3>4. QED
      BY <1>7, <3>2, <3>3, <3>5 DEF RegisteredOK, Alone
  <2>14. FlagsOK'
    <3>1. ASSUME NEW h \in DOMAIN vec', vec'[h].irq # NoIrq, Alone(vec', h),
                 vec'[h].irq \notin left \cup crossed
          PROVE  vec'[h].flag <=> vec'[h].irq \in on
      <4>1. FlagOK(h) /\ call.step # "flag"
        BY <1>7, <2>10 DEF IInv, FlagsOK
      <4>2. QED
        BY <1>7, <2>10, <2>12, <3>1, <4>1 DEF FlagOK
    <3>2. call'.step # "flag"
      BY <1>7, <2>8
    <3>3. QED
      BY <1>7, <2>8, <3>1, <3>2 DEF FlagsOK, FlagOK, Alone
  <2>15. QED
    BY <1>13, <2>5, <2>7, <2>11, <2>13, <2>14
<1>17. QED
  BY <1>6, <1>14, <1>15, <1>16

\* The end of a session.
LEMMA CleanupStep ==
    ASSUME IInv, Cleanup
    PROVE  IInv'
<1>1. /\ vec' = <<>> /\ registered' = <<>> /\ call = Idle /\ call' = call /\ result # "none"
      /\ result' = "none" /\ session' = 0 /\ left' = left \cup on'
      /\ buffers' = buffers \ FreedBuffers
      /\ UNCHANGED <<build, table, dflAddr, dflFound, inits, doubled, connected>>
  BY DEF Cleanup
<1>2. TableOK /\ PlatformOK /\ CallOK /\ RegisteredOK /\ inits \in Nat /\ inits # 0
  BY <1>1 DEF IInv, PlatformOK
<1>3. /\ call.op # "init" /\ call.step # "store" /\ call.step # "scan" /\ Filled' = <<>>
      /\ Seen = Len(table) /\ Seen' = Len(table)
  BY <1>1 DEF Idle, Filled, Seen
<1>4. /\ DOMAIN vec' = {} /\ DOMAIN Filled' = {} /\ DOMAIN registered' = {}
      /\ vec' \in Seq(Entries) /\ Len(vec') = 0 /\ registered' \in Seq(Isrs \cup {NoIsr})
  BY <1>1, <1>3
<1>5. TableOK'
  BY <1>1, <1>2 DEF TableOK
<1>6. PlatformOK'
  BY <1>1, <1>2, <1>3, <1>4 DEF PlatformOK
<1>7. CallOK' /\ OnKnown' /\ Quiet'
  BY <1>1, <1>2, <1>3, IdleCall DEF CallOK, OnKnown, Quiet
<1>8. RegisteredOK' /\ FlagsOK'
  BY <1>1, <1>2, <1>4 DEF RegisteredOK, FlagsOK
<1>9. (build = "model" => ModelOK)'
  <2>1. SUFFICES ASSUME build = "model" PROVE ModelOK'
    BY <1>1
  <2>2. ~doubled => buffers' = {}
    BY <1>1, <2>1 DEF IInv, ModelOK, FreedBuffers
  <2>3. QED
    BY <1>1, <1>4, <2>2 DEF ModelOK
<1>10. (build = "device" => DeviceOK)'
  <2>1. SUFFICES ASSUME build = "device" PROVE DeviceOK'
    BY <1>1
  <2>2. /\ RomsOf = {} => dflAddr' = 0
        /\ inits' = 0 \/ ~Counted => ~dflFound'
        /\ inits' > 0 /\ Counted =>
             (dflFound' <=> ~Romless(IF inits' = 1 THEN Len(table) ELSE Len(table)))
    BY <1>1, <1>2, <1>3, <2>1 DEF IInv, DeviceOK, FoundOK
  <2>3. QED
    BY <1>1, <1>3, <1>4, <2>2, DeviceNext
<1>11. QED
  BY <1>5, <1>6, <1>7, <1>8, <1>9, <1>10 DEF IInv

\* A vector with the same interfaces, whatever their isrs and flags.
Same(v, w) ==
    /\ w \in Seq(Entries) /\ DOMAIN w = DOMAIN v /\ Len(w) = Len(v)
    /\ \A h \in DOMAIN v : /\ w[h].base = v[h].base /\ w[h].dfl = v[h].dfl
                           /\ w[h].dev = v[h].dev /\ w[h].irq = v[h].irq

\* The vector with one field of one entry changed.
LEMMA EntryChanged ==
    ASSUME vec \in Seq(Entries), NEW h \in DOMAIN vec, NEW e \in Entries,
           e.base = vec[h].base, e.dfl = vec[h].dfl, e.dev = vec[h].dev, e.irq = vec[h].irq,
           NEW w, w = [vec EXCEPT ![h] = e]
    PROVE  Same(vec, w) /\ w[h] = e /\ \A k \in DOMAIN vec : k # h => w[k] = vec[k]
<1>1. /\ w \in Seq(Entries) /\ DOMAIN w = DOMAIN vec /\ Len(w) = Len(vec) /\ w[h] = e
      /\ \A k \in DOMAIN vec : k # h => w[k] = vec[k]
  OBVIOUS
<1>2. QED
  BY <1>1 DEF Same

\* interrupt_enable stored,
LEMMA FlagStored ==
    ASSUME vec \in Seq(Entries), NEW h \in DOMAIN vec, NEW b \in BOOLEAN,
           NEW w, w = [vec EXCEPT ![h].flag = b]
    PROVE  /\ Same(vec, w) /\ w[h].flag = b
           /\ \A k \in DOMAIN vec : k # h => w[k] = vec[k]
<1> DEFINE e == [vec[h] EXCEPT !.flag = b]
<1>1. vec[h] \in Entries
  OBVIOUS
<1>2. /\ e \in Entries /\ e.base = vec[h].base /\ e.dfl = vec[h].dfl /\ e.dev = vec[h].dev
      /\ e.irq = vec[h].irq /\ e.flag = b
  BY <1>1 DEF Entries
<1>3. w = [vec EXCEPT ![h] = e]
  OBVIOUS
<1> HIDE DEF e
<1>4. Same(vec, w) /\ w[h] = e /\ \A k \in DOMAIN vec : k # h => w[k] = vec[k]
  BY <1>2, <1>3, EntryChanged
<1>5. QED
  BY <1>2, <1>4

\* and isr_callback stored.
LEMMA IsrStored ==
    ASSUME vec \in Seq(Entries), NEW h \in DOMAIN vec, NEW b \in Isrs,
           NEW w, w = [vec EXCEPT ![h].cb = b]
    PROVE  Same(vec, w) /\ \A k \in DOMAIN vec : w[k].flag = vec[k].flag
<1> DEFINE e == [vec[h] EXCEPT !.cb = b]
<1>1. vec[h] \in Entries
  OBVIOUS
<1>2. /\ e \in Entries /\ e.base = vec[h].base /\ e.dfl = vec[h].dfl /\ e.dev = vec[h].dev
      /\ e.irq = vec[h].irq /\ e.flag = vec[h].flag
  BY <1>1 DEF Entries
<1>3. w = [vec EXCEPT ![h] = e]
  OBVIOUS
<1> HIDE DEF e
<1>4. Same(vec, w) /\ w[h] = e /\ \A k \in DOMAIN vec : k # h => w[k] = vec[k]
  BY <1>2, <1>3, EntryChanged
<1>5. QED
  BY <1>2, <1>4

\* The calls for interrupts leave discovery and memory alone.
LEMMA SameKeeps ==
    ASSUME IInv, Same(vec, vec'), Same(Filled, Filled'), Seen' = Seen,
           call.op = "init" <=> call'.op = "init", UNCHANGED <<build, table, platformVars>>,
           CallOK', OnKnown', Quiet', RegisteredOK', FlagsOK'
    PROVE  IInv'
<1>1. /\ dflAddr' = dflAddr /\ dflFound' = dflFound /\ span' = span /\ erange' = erange
      /\ buffers' = buffers /\ result' = result /\ inits' = inits /\ session' = session
      /\ doubled' = doubled /\ build' = build /\ table' = table
  BY DEF platformVars
<1>2. TableOK'
  BY <1>1 DEF IInv, TableOK
<1>3. /\ vec \in Seq(Entries) /\ vec' \in Seq(Entries) /\ Len(vec) \in Nat
      /\ DOMAIN vec = 1..Len(vec) /\ DOMAIN vec' = DOMAIN vec /\ Len(vec') = Len(vec)
  BY DEF IInv, PlatformOK, Same
<1>4. vec' = <<>> <=> vec = <<>>
  BY <1>3
<1>5. PlatformOK'
  BY <1>1, <1>3, <1>4 DEF IInv, PlatformOK
<1>6. (build = "model" => ModelOK)'
  <2>1. vec # <<>> => vec'[1].base = vec[1].base
    <3>1. vec # <<>> => 1 \in DOMAIN vec
      BY <1>3
    <3>2. QED
      BY <3>1 DEF Same
  <2>2. QED
    BY <1>1, <1>3, <1>4, <2>1 DEF IInv, ModelOK
<1>7. (build = "device" => DeviceOK)'
  <2>1. SUFFICES ASSUME build = "device" PROVE DeviceOK'
    BY <1>1
  <2>2. DeviceOK /\ ReachOK /\ FoundOK /\ OutcomeOK /\ ListingOK
    BY <2>1 DEF IInv, DeviceOK
  <2>3. \A h \in DOMAIN Filled' : AccessOK(Filled'[h], h, dflAddr')
    BY <1>1, <2>2 DEF ReachOK, AccessOK, Same
  <2> DEFINE roms == RomPart(Seen)
             devs == ListedUpTo(Seen)
  <2>4. ASSUME Listed(Filled, roms, devs) PROVE Listed(Filled', roms, devs)
    <3>1. roms \in Nat
      <4>1. Len(Rom) \in Nat
        BY RomAssumption
      <4>2. QED
        BY <4>1 DEF RomPart
    <3>2. Filled \in Seq(Entries) /\ Len(Filled) \in Nat /\ DOMAIN Filled = 1..Len(Filled)
      <4>1. Filled \in Seq(Entries)
        BY FilledType DEF IInv
      <4>2. QED
        BY <4>1
    <3> HIDE DEF roms, devs
    <3>3. \A k \in (roms + 1)..Len(Filled) : k \in DOMAIN Filled
      BY <3>1, <3>2
    <3>4. \A k \in (roms + 1)..Len(Filled) : Filled'[k].dev = Filled[k].dev
      BY <3>3 DEF Same
    <3>5. {Filled'[k].dev : k \in (roms + 1)..Len(Filled)}
            = {Filled[k].dev : k \in (roms + 1)..Len(Filled)}
      BY <3>4
    <3>6. /\ DOMAIN Filled' = DOMAIN Filled /\ Len(Filled') = Len(Filled)
          /\ \A k \in DOMAIN Filled : Filled'[k].dfl = Filled[k].dfl
      BY DEF Same
    <3>7. QED
      BY <2>4, <3>4, <3>5, <3>6 DEF Listed
  <2>5. session' = 1 /\ result' # "false" => Listed(Filled', roms, devs)
    BY <1>1, <2>2, <2>4 DEF ListingOK
  <2>6. /\ inits' = 0 \/ ~Counted => ~dflFound'
        /\ inits' > 0 /\ Counted =>
             (dflFound' <=> ~Romless(IF inits' = 1 THEN Seen ELSE Len(table)))
        /\ RomsOf = {} => dflAddr' = 0
    BY <1>1, <2>2 DEF FoundOK
  <2>7. /\ result' # "none" =>
             (result' = "false" <=> \/ ~Counted \/ Cardinality(RomsOf) > 1
                                    \/ RomsOf # {} /\ inits' > 1)
        /\ call'.op = "init" => Counted /\ OneRom(Seen) /\ (inits' > 1 => Romless(Seen))
        /\ result' \in {"none", "true", "false"}
    BY <1>1, <2>2 DEF OutcomeOK, Fails
  <2>8. QED
    BY <1>1, <2>3, <2>5, <2>6, <2>7, DeviceNext
<1>8. QED
  BY <1>2, <1>5, <1>6, <1>7 DEF IInv

\* Outside init.
LEMMA CallFrame ==
    ASSUME IInv, call.step \notin {"scan", "store"}, call'.step \notin {"scan", "store"},
           call'.op # "init", call = Idle => result = "true",
           UNCHANGED <<build, table, platformVars>>
    PROVE  /\ vec \in Seq(Entries) /\ Filled = vec /\ Filled' = vec' /\ Seen' = Seen
           /\ call.op = "init" <=> call'.op = "init"
           /\ Quiet'
<1>1. TableOK /\ PlatformOK /\ CallOK
  BY DEF IInv
<1>2. vec \in Seq(Entries) /\ Filled = vec /\ Filled' = vec' /\ Seen' = Seen
  BY <1>1, FilledType DEF Filled, Seen
<1>3. call.op # "init"
  BY <1>1 DEF CallOK, Scanning, Usable, Idle
<1>4. inits' = inits /\ inits \in Nat /\ session \in Nat /\ session <= inits
  BY <1>1 DEF PlatformOK, platformVars
<1>5. session # 0
  <2>1. CASE call = Idle
    BY <1>1, <2>1 DEF PlatformOK
  <2>2. CASE call # Idle
    <3>1. Usable(call.h)
      BY <1>1, <2>2 DEF CallOK, Scanning
    <3>2. vec # <<>>
      BY <3>1 DEF Usable
    <3>3. QED
      BY <1>1, <3>2 DEF PlatformOK
  <2>3. QED
    BY <2>1, <2>2
<1>6. Quiet'
  BY <1>4, <1>5 DEF Quiet
<1>7. QED
  BY <1>2, <1>3, <1>6

\* Being alone with an irq does not depend on isrs and flags.
LEMMA SameAlone ==
    ASSUME NEW v, NEW w, Same(v, w), NEW h \in DOMAIN v
    PROVE  Alone(w, h) <=> Alone(v, h)
BY DEF Same, Alone

\* Registration over a step that neither connects nor registers.
LEMMA SameRegistered ==
    ASSUME RegisteredOK, Same(Filled, Filled'), UNCHANGED <<connected, registered>>
    PROVE  RegisteredOK'
<1>1. DOMAIN Filled' = DOMAIN Filled /\ \A h \in DOMAIN Filled : Filled'[h].irq = Filled[h].irq
  BY DEF Same
<1>2. \A h \in DOMAIN Filled : Alone(Filled', h) <=> Alone(Filled, h)
  BY SameAlone
<1>3. \A h \in DOMAIN Filled' : registered'[h] # NoIsr =>
          /\ Filled'[h].irq # NoIrq
          /\ Alone(Filled', h) => connected'[Filled'[h].irq] = registered'[h]
  BY <1>1, <1>2 DEF RegisteredOK
<1>4. QED
  BY <1>1, <1>3 DEF RegisteredOK, Alone

\* The call stays what it is.
LEMMA SameCall ==
    ASSUME IInv, Same(vec, vec'), UNCHANGED <<call, build, table>>
    PROVE  CallOK'
<1>1. CallOK /\ vec \in Seq(Entries) /\ vec' \in Seq(Entries) /\ Len(vec') = Len(vec)
  BY DEF IInv, PlatformOK, Same
<1>2. \A h : Usable(h) => Usable(h)'
  BY DEF Usable, Same
<1>3. Scanning => Scanning'
  <2>1. vec # <<>> => vec' # <<>>
    BY <1>1
  <2>2. QED
    BY <2>1 DEF Scanning
<1>4. QED
  BY <1>1, <1>2, <1>3 DEF CallOK, Usable

\* What the flag of an interface has to agree with, from its values in the next state.
LEMMA FlagNext ==
    ASSUME DOMAIN Filled' = DOMAIN Filled, Same(Filled, Filled'),
           \A h \in DOMAIN Filled : 
              Filled[h].irq # NoIrq /\ Alone(Filled, h) /\ Filled[h].irq \notin left' \cup crossed' =>
                 IF call'.step = "flag" /\ call'.h = h
                 THEN call'.op = "enable" <=> Filled[h].irq \in on'
                 ELSE Filled'[h].flag <=> Filled[h].irq \in on'
    PROVE  FlagsOK'
<1>1. \A h \in DOMAIN Filled : (Alone(Filled', h) <=> Alone(Filled, h)) /\ Filled'[h].irq = Filled[h].irq
  BY SameAlone DEF Same
<1>2. \A h \in DOMAIN Filled' :
        Filled'[h].irq # NoIrq /\ Alone(Filled', h) /\ Filled'[h].irq \notin left' \cup crossed' =>
                 IF call'.step = "flag" /\ call'.h = h
                 THEN call'.op = "enable" <=> Filled'[h].irq \in on'
                 ELSE Filled'[h].flag <=> Filled'[h].irq \in on'
  BY <1>1
<1>3. QED
  BY <1>2 DEF FlagsOK, FlagOK, Alone

\* The isr is stored.
LEMMA RegisterStoresStep ==
    ASSUME IInv, RegisterStores
    PROVE  IInv'
<1>1. PICK h \in DOMAIN vec, isr \in Isrs :
        /\ vec[h].irq > NoIrq
        /\ Begin("register", h, isr, "connect")
        /\ vec' = [vec EXCEPT ![h].cb = isr]
        /\ UNCHANGED <<kernelVars, registered, crossed>>
  BY DEF RegisterStores
<1>2. /\ call = Idle /\ result = "true" /\ UNCHANGED <<build, table, platformVars>>
      /\ call' = [op |-> "register", h |-> h, isr |-> isr, step |-> "connect"]
      /\ connected' = connected /\ on' = on /\ left' = left /\ crossed' = crossed
      /\ registered' = registered
  BY <1>1 DEF Begin, kernelVars
<1>3. /\ vec \in Seq(Entries) /\ Filled = vec /\ Filled' = vec' /\ Seen' = Seen /\ Quiet'
      /\ call.op = "init" <=> call'.op = "init"
  BY <1>2, CallFrame DEF Idle
<1>4. Same(vec, vec') /\ \A k \in DOMAIN vec : vec'[k].flag = vec[k].flag
  BY <1>1, <1>3, IsrStored
<1>5. CallOK'
  <2>1. vec[h].irq # NoIrq
    BY <1>1 DEF NoIrq
  <2>2. Usable(h)'
    BY <1>4, <2>1 DEF Usable, Same
  <2>3. call' \in Calls
    BY <1>2, <1>3 DEF Calls
  <2>4. QED
    BY <1>2, <2>2, <2>3 DEF CallOK, Usable
<1>6. OnKnown'
  BY <1>2, <1>3, <1>4 DEF IInv, OnKnown, Same
<1>7. RegisteredOK'
  BY <1>2, <1>3, <1>4, SameRegistered DEF IInv
<1>8. FlagsOK'
  <2>1. call.step # "flag" /\ call'.step # "flag"
    BY <1>2 DEF Idle
  <2>2. \A k \in DOMAIN Filled :
          Filled[k].irq # NoIrq /\ Alone(Filled, k) /\ Filled[k].irq \notin left' \cup crossed' =>
             (Filled'[k].flag <=> Filled[k].irq \in on')
    BY <1>2, <1>3, <1>4, <2>1 DEF IInv, FlagsOK, FlagOK
  <2>3. QED
    BY <1>3, <1>4, <2>1, <2>2, FlagNext DEF Same
<1>9. QED
  BY <1>2, <1>3, <1>4, <1>5, <1>6, <1>7, <1>8, SameKeeps

\* The isr is connected.
LEMMA RegisterConnectsStep ==
    ASSUME IInv, RegisterConnects
    PROVE  IInv'
<1>1. /\ call.step = "connect" /\ vec' = vec /\ call' = Idle
      /\ connected' = [connected EXCEPT ![vec[call.h].irq] = call.isr]
      /\ registered' = [registered EXCEPT ![call.h] = call.isr]
      /\ UNCHANGED <<build, table, platformVars>>
      /\ on' = on /\ left' = left /\ crossed' = crossed
  BY DEF RegisterConnects
<1>2. /\ vec \in Seq(Entries) /\ Filled = vec /\ Filled' = vec' /\ Seen' = Seen /\ Quiet'
      /\ call.op = "init" <=> call'.op = "init"
      /\ Same(vec, vec')
  <2>1. /\ vec \in Seq(Entries) /\ Filled = vec /\ Filled' = vec' /\ Seen' = Seen /\ Quiet'
        /\ call.op = "init" <=> call'.op = "init"
    BY <1>1, CallFrame DEF Idle
  <2>2. QED
    BY <1>1, <2>1 DEF Same
<1>3. Usable(call.h) /\ call.isr \in Isrs
  BY <1>1 DEF IInv, CallOK, Idle, Scanning
<1>4. CallOK' /\ OnKnown'
  BY <1>1, <1>2, IdleCall DEF CallOK, IInv, OnKnown
<1>5. \A k \in DOMAIN Filled : Filled[k].irq # NoIrq => Filled[k].irq \in Irqs
  <2>1. \A k \in DOMAIN Filled : Filled[k] \in Entries
    BY <1>2
  <2>2. QED
    BY <2>1 DEF Entries
<1>6. RegisteredOK'
  <2>1. /\ connected' \in [Irqs -> Isrs \cup {NoIsr}] /\ DOMAIN registered' = DOMAIN Filled'
        /\ registered' \in Seq(Isrs \cup {NoIsr})
    <3>1. /\ registered \in Seq(Isrs \cup {NoIsr}) /\ DOMAIN registered = DOMAIN vec
          /\ connected \in [Irqs -> Isrs \cup {NoIsr}] /\ call.h \in DOMAIN vec
      BY <1>2, <1>3 DEF IInv, RegisteredOK, Usable
    <3>2. registered' \in Seq(Isrs \cup {NoIsr}) /\ DOMAIN registered' = DOMAIN registered
      BY <1>1, <1>3, <3>1
    <3>3. connected' \in [Irqs -> Isrs \cup {NoIsr}]
      BY <1>1, <1>3, <3>1
    <3>4. QED
      BY <1>1, <1>2, <3>1, <3>2, <3>3
  <2>2. ASSUME NEW k \in DOMAIN Filled, registered'[k] # NoIsr
        PROVE  Filled[k].irq # NoIrq /\ (Alone(Filled, k) => connected'[Filled[k].irq] = registered'[k])
    <3>1. k \in DOMAIN registered /\ DOMAIN connected = Irqs
      BY DEF IInv, RegisteredOK
    <3>2. CASE k = call.h
      <4>1. Filled[k].irq # NoIrq /\ Filled[k].irq \in Irqs
        BY <1>2, <1>3, <1>5, <3>2 DEF Usable
      <4>2. registered'[k] = call.isr /\ connected'[Filled[k].irq] = call.isr
        BY <1>1, <1>2, <3>1, <3>2, <4>1
      <4>3. QED
        BY <4>1, <4>2
    <3>3. CASE k # call.h
      <4>1. registered'[k] = registered[k]
        BY <1>1, <3>1, <3>3
      <4>2. Filled[k].irq # NoIrq /\ (Alone(Filled, k) => connected[Filled[k].irq] = registered[k])
        BY <2>2, <4>1 DEF IInv, RegisteredOK
      <4>3. Alone(Filled, k) => Filled[k].irq # Filled[call.h].irq
        BY <1>2, <1>3, <3>3 DEF Alone, Usable
      <4>4. Alone(Filled, k) => connected'[Filled[k].irq] = connected[Filled[k].irq]
        BY <1>1, <1>2, <1>5, <3>1, <4>2, <4>3
      <4>5. QED
        BY <4>1, <4>2, <4>4
    <3>4. QED
      BY <3>2, <3>3
  <2>3. QED
    BY <1>1, <1>2, <2>1, <2>2 DEF RegisteredOK, Alone
<1>7. FlagsOK'
  <2>1. call'.step # "flag"
    BY <1>1 DEF Idle
  <2>2. \A k \in DOMAIN Filled :
          Filled[k].irq # NoIrq /\ Alone(Filled, k) /\ Filled[k].irq \notin left' \cup crossed' =>
             (Filled'[k].flag <=> Filled[k].irq \in on')
    BY <1>1, <1>2 DEF IInv, FlagsOK, FlagOK
  <2>3. QED
    BY <1>2, <2>1, <2>2, FlagNext DEF Same
<1>8. QED
  BY <1>1, <1>2, <1>4, <1>6, <1>7, SameKeeps

\* A call to switch an interrupt passes its test.
LEMMA SwitchBeginsStep ==
    ASSUME IInv, SwitchBegins
    PROVE  IInv'
<1>1. PICK h \in DOMAIN vec, op \in {"enable", "disable"} :
        /\ Changes(op, h)
        /\ Begin(op, h, NoIsr, "kernel")
        /\ UNCHANGED <<vec, kernelVars, registered, crossed>>
  BY DEF SwitchBegins
<1>2. /\ call = Idle /\ result = "true" /\ UNCHANGED <<build, table, platformVars>> /\ vec' = vec
      /\ call' = [op |-> op, h |-> h, isr |-> NoIsr, step |-> "kernel"]
      /\ connected' = connected /\ on' = on /\ left' = left /\ crossed' = crossed
      /\ registered' = registered
  BY <1>1 DEF Begin, kernelVars
<1>3. /\ vec \in Seq(Entries) /\ Filled = vec /\ Filled' = vec' /\ Seen' = Seen /\ Quiet'
      /\ call.op = "init" <=> call'.op = "init"
      /\ Same(vec, vec')
  <2>1. /\ vec \in Seq(Entries) /\ Filled = vec /\ Filled' = vec' /\ Seen' = Seen /\ Quiet'
        /\ call.op = "init" <=> call'.op = "init"
    BY <1>2, CallFrame DEF Idle
  <2>2. QED
    BY <1>2, <2>1 DEF Same
<1>4. CallOK'
  <2>1. vec[h].irq # NoIrq
    BY <1>1 DEF NoIrq, Changes
  <2>2. call' \in Calls
    BY <1>2, <1>3 DEF Calls
  <2>3. QED
    BY <1>2, <2>1, <2>2 DEF CallOK, Usable
<1>5. OnKnown'
  BY <1>2, <1>3 DEF IInv, OnKnown
<1>6. RegisteredOK'
  BY <1>2, <1>3, SameRegistered DEF IInv
<1>7. FlagsOK'
  <2>1. call.step # "flag" /\ call'.step # "flag"
    BY <1>2 DEF Idle
  <2>2. \A k \in DOMAIN Filled :
          Filled[k].irq # NoIrq /\ Alone(Filled, k) /\ Filled[k].irq \notin left' \cup crossed' =>
             (Filled'[k].flag <=> Filled[k].irq \in on')
    BY <1>2, <1>3, <2>1 DEF IInv, FlagsOK, FlagOK
  <2>3. QED
    BY <1>3, <2>1, <2>2, FlagNext DEF Same
<1>8. QED
  BY <1>2, <1>3, <1>4, <1>5, <1>6, <1>7, SameKeeps

\* The kernel switches one irq; the others stay as they are.
LEMMA Switched ==
    ASSUME NEW op \in {"enable", "disable"}, NEW q, Switch(op, q)
    PROVE  /\ q \notin left' /\ (q \in on' <=> op = "enable")
           /\ \A p : p # q => (p \in on' <=> p \in on) /\ (p \in left' <=> p \in left)
BY DEF Switch

\* Irqs that are on stay known.
LEMMA SwitchedKnown ==
    ASSUME OnKnown, Same(Filled, Filled'), NEW h \in DOMAIN Filled, NEW op \in {"enable", "disable"},
           Switch(op, Filled[h].irq), crossed \subseteq crossed'
    PROVE  OnKnown'
<1>1. \A p : p # Filled[h].irq => (p \in on' <=> p \in on) /\ (p \in left' <=> p \in left)
  BY Switched
<1>2. \A k \in DOMAIN Filled : k \in DOMAIN Filled' /\ Filled'[k].irq = Filled[k].irq
  BY DEF Same
<1>3. QED
  BY <1>1, <1>2 DEF OnKnown

\* The kernel is called.
LEMMA SwitchKernelStep ==
    ASSUME IInv, SwitchKernel
    PROVE  IInv'
<1>1. /\ call.step = "kernel" /\ Switch(call.op, vec[call.h].irq)
      /\ call' = [call EXCEPT !.step = "flag"]
      /\ UNCHANGED <<build, table, platformVars>> /\ vec' = vec
      /\ connected' = connected /\ crossed' = crossed /\ registered' = registered
  BY DEF SwitchKernel
<1>2. Usable(call.h) /\ call.op \in {"enable", "disable"}
  BY <1>1 DEF IInv, CallOK, Idle, Scanning
<1>3. call'.h = call.h /\ call'.op = call.op /\ call'.step = "flag" /\ call' \in Calls
  <2>1. call \in Calls
    BY DEF IInv, CallOK
  <2>2. QED
    BY <1>1, <2>1 DEF Calls
<1>4. /\ vec \in Seq(Entries) /\ Filled = vec /\ Filled' = vec' /\ Seen' = Seen /\ Quiet'
      /\ call.op = "init" <=> call'.op = "init"
      /\ Same(vec, vec')
  <2>1. /\ vec \in Seq(Entries) /\ Filled = vec /\ Filled' = vec' /\ Seen' = Seen /\ Quiet'
        /\ call.op = "init" <=> call'.op = "init"
    BY <1>1, <1>2, <1>3, CallFrame DEF Idle
  <2>2. QED
    BY <1>1, <2>1 DEF Same
<1>5. CallOK'
  BY <1>1, <1>2, <1>3 DEF CallOK, Usable
<1>6. OnKnown'
  BY <1>1, <1>2, <1>4, SwitchedKnown DEF IInv, Usable
<1>7. RegisteredOK'
  BY <1>1, <1>4, SameRegistered DEF IInv
<1>8. FlagsOK'
  <2>1. /\ Filled[call.h].irq \in on' <=> call.op = "enable"
        /\ \A p : p # Filled[call.h].irq =>
              (p \in on' <=> p \in on) /\ (p \in left' <=> p \in left)
    BY <1>1, <1>2, <1>4, Switched
  <2>2. ASSUME NEW k \in DOMAIN Filled, Filled[k].irq # NoIrq, Alone(Filled, k),
               Filled[k].irq \notin left' \cup crossed'
        PROVE  IF call'.step = "flag" /\ call'.h = k
               THEN call'.op = "enable" <=> Filled[k].irq \in on'
               ELSE Filled'[k].flag <=> Filled[k].irq \in on'
    <3>1. CASE k = call.h
      BY <1>3, <2>1, <3>1
    <3>2. CASE k # call.h
      <4>1. Filled[k].irq # Filled[call.h].irq
        BY <1>2, <1>4, <2>2, <3>2 DEF Alone, Usable
      <4>2. Filled[k].irq \notin left \cup crossed
        BY <1>1, <2>1, <2>2, <4>1
      <4>3. Filled[k].flag <=> Filled[k].irq \in on
        BY <1>1, <2>2, <4>2 DEF IInv, FlagsOK, FlagOK
      <4>4. QED
        BY <1>1, <1>3, <1>4, <2>1, <3>2, <4>1, <4>3
    <3>3. QED
      BY <3>1, <3>2
  <2>3. QED
    BY <1>4, <2>2, FlagNext DEF Same
<1>9. QED
  BY <1>1, <1>4, <1>5, <1>6, <1>7, <1>8, SameKeeps

\* The flag is stored.
LEMMA SwitchFlagStep ==
    ASSUME IInv, SwitchFlag
    PROVE  IInv'
<1>1. /\ call.step = "flag" /\ call' = Idle
      /\ vec' = [vec EXCEPT ![call.h].flag = (call.op = "enable")]
      /\ UNCHANGED <<build, table, platformVars>>
      /\ connected' = connected /\ on' = on /\ left' = left /\ crossed' = crossed
      /\ registered' = registered
  BY DEF SwitchFlag, kernelVars
<1>2. Usable(call.h) /\ call.op \in {"enable", "disable"}
  BY <1>1 DEF IInv, CallOK, Idle, Scanning
<1>3. /\ vec \in Seq(Entries) /\ Filled = vec /\ Filled' = vec' /\ Seen' = Seen /\ Quiet'
      /\ call.op = "init" <=> call'.op = "init"
      /\ call.h \in DOMAIN Filled
  <2>1. /\ vec \in Seq(Entries) /\ Filled = vec /\ Filled' = vec' /\ Seen' = Seen /\ Quiet'
        /\ call.op = "init" <=> call'.op = "init"
    BY <1>1, CallFrame DEF Idle
  <2>2. QED
    BY <1>2, <2>1 DEF Usable
<1>4. /\ Same(Filled, Filled') /\ Filled'[call.h].flag = (call.op = "enable")
      /\ \A k \in DOMAIN Filled : k # call.h => Filled'[k] = Filled[k]
  <2>1. /\ Same(vec, vec') /\ vec'[call.h].flag = (call.op = "enable")
        /\ \A k \in DOMAIN vec : k # call.h => vec'[k] = vec[k]
    <3>1. PICK h, op : h = call.h /\ op = call.op
      OBVIOUS
    <3>2. h \in DOMAIN vec /\ (op = "enable") \in BOOLEAN /\ vec \in Seq(Entries)
      BY <1>3, <3>1
    <3>3. vec' = [vec EXCEPT ![h].flag = (op = "enable")]
      BY <1>1, <3>1
    <3>4. /\ Same(vec, vec') /\ vec'[h].flag = (op = "enable")
          /\ \A k \in DOMAIN vec : k # h => vec'[k] = vec[k]
      BY <3>2, <3>3, FlagStored
    <3>5. QED
      BY <3>1, <3>4
  <2>2. QED
    BY <1>3, <2>1
<1>5. CallOK'
  BY <1>1, IdleCall DEF CallOK
<1>6. OnKnown'
  BY <1>1, <1>4 DEF IInv, OnKnown, Same
<1>7. RegisteredOK'
  BY <1>1, <1>4, SameRegistered DEF IInv
<1>8. FlagsOK'
  <2>1. call'.step # "flag"
    BY <1>1 DEF Idle
  <2>2. ASSUME NEW k \in DOMAIN Filled, Filled[k].irq # NoIrq, Alone(Filled, k),
               Filled[k].irq \notin left' \cup crossed'
        PROVE  Filled'[k].flag <=> Filled[k].irq \in on'
    <3>1. FlagOK(k) /\ Filled[k].irq \notin left \cup crossed
      BY <1>1, <2>2 DEF IInv, FlagsOK
    <3>2. CASE k = call.h
      <4>1. call.op = "enable" <=> Filled[k].irq \in on
        BY <1>1, <2>2, <3>1, <3>2 DEF FlagOK
      <4>2. QED
        BY <1>1, <1>4, <3>2, <4>1
    <3>3. CASE k # call.h
      <4>1. Filled[k].flag <=> Filled[k].irq \in on
        BY <2>2, <3>1, <3>3 DEF FlagOK
      <4>2. QED
        BY <1>1, <1>4, <3>3, <4>1
    <3>4. QED
      BY <3>2, <3>3
  <2>3. QED
    BY <1>4, <2>1, <2>2, FlagNext DEF Same
<1>9. QED
  BY <1>1, <1>3, <1>4, <1>5, <1>6, <1>7, <1>8, SameKeeps

\* An isr switches an interrupt.
LEMMA IsrSwitchesStep ==
    ASSUME IInv, IsrSwitches
    PROVE  IInv'
<1>1. /\ UNCHANGED <<build, table, platformVars>> /\ table' = table /\ inits' = inits
      /\ connected' = connected /\ call' = call /\ registered' = registered /\ on # {}
  BY DEF IsrSwitches, platformVars, IsrRuns
<1>2. PICK h \in DOMAIN vec, op \in {"enable", "disable"} :
         /\ Switch(op, vec[h].irq)
         /\ vec' = [vec EXCEPT ![h].flag = (op = "enable")]
         /\ crossed' = crossed \cup Overwritten(op, h)
  BY DEF IsrSwitches
<1>3. /\ TableOK /\ vec \in Seq(Entries) /\ Filled \in Seq(Entries) /\ DOMAIN vec = 1..Len(vec)
      /\ DOMAIN Filled = DOMAIN vec /\ Len(Filled) = Len(vec) /\ Len(vec) \in Nat
      /\ call.step # "store" => Filled = vec
      /\ call.step = "store" =>
           call.h \in DOMAIN table /\ Filled[Len(vec)].irq = table[call.h].irq
      /\ \A k \in DOMAIN vec : (call.step = "store" /\ k = Len(vec)) \/ Filled[k] = vec[k]
      /\ \A k \in DOMAIN vec : Filled[k].flag = vec[k].flag
  BY FilledType DEF IInv
<1>4. /\ Same(vec, vec') /\ vec'[h].flag = (op = "enable")
      /\ \A k \in DOMAIN vec : k # h => vec'[k] = vec[k]
  <2>1. (op = "enable") \in BOOLEAN
    OBVIOUS
  <2>2. QED
    BY <1>2, <1>3, <2>1, FlagStored
<1>5. Same(Filled, Filled') /\ \A k \in DOMAIN vec : Filled'[k].flag = vec'[k].flag
  <2>1. CASE call.step # "store"
    <3>1. Filled' = vec' /\ Filled = vec
      BY <1>1, <1>3, <2>1 DEF Filled
    <3>2. QED
      BY <1>4, <3>1
  <2>2. CASE call.step = "store"
    <3>1. PICK n \in DOMAIN table : n = call.h
      BY <1>3, <2>2
    <3>2. /\ Filled = [vec EXCEPT ![Len(vec)] = FilledIn(vec[Len(vec)], n)]
          /\ Filled' = [vec' EXCEPT ![Len(vec')] = FilledIn(vec'[Len(vec')], n)]
      BY <1>1, <2>2, <3>1 DEF Filled, FilledIn
    <3>3. vec' \in Seq(Entries) /\ vec # <<>> /\ vec' # <<>> /\ Len(vec') = Len(vec)
          /\ DOMAIN vec' = DOMAIN vec
      <4>1. vec' \in Seq(Entries) /\ Len(vec') = Len(vec) /\ DOMAIN vec' = DOMAIN vec
        BY <1>4 DEF Same
      <4>2. Len(vec) # 0
        BY <1>2, <1>3
      <4>3. QED
        BY <1>3, <4>1, <4>2
    <3>4. /\ \A k \in DOMAIN vec : k # Len(vec) => Filled[k] = vec[k]
          /\ Filled[Len(vec)].base = table[n].base /\ Filled[Len(vec)].dev = n
          /\ Filled[Len(vec)].irq = table[n].irq
          /\ \A k \in DOMAIN vec : Filled[k].dfl = vec[k].dfl
      <4>1. PICK v \in Seq(Entries) : v = vec
        BY <1>3
      <4>2. v # <<>> /\ Filled = [v EXCEPT ![Len(v)] = FilledIn(v[Len(v)], n)]
        BY <3>2, <3>3, <4>1
      <4>3. /\ \A k \in DOMAIN v : k # Len(v) => Filled[k] = v[k]
            /\ Filled[Len(v)].base = table[n].base /\ Filled[Len(v)].dev = n
            /\ Filled[Len(v)].irq = table[n].irq
            /\ \A k \in DOMAIN v : Filled[k].dfl = v[k].dfl
        BY <1>3, <4>2, FilledEntry
      <4>4. QED
        BY <4>1, <4>3
    <3>5. /\ Filled' \in Seq(Entries) /\ Len(Filled') = Len(vec') /\ DOMAIN Filled' = DOMAIN vec'
          /\ \A k \in DOMAIN vec' : k # Len(vec') => Filled'[k] = vec'[k]
          /\ Filled'[Len(vec')].base = table[n].base /\ Filled'[Len(vec')].dev = n
          /\ Filled'[Len(vec')].irq = table[n].irq
          /\ \A k \in DOMAIN vec' : Filled'[k].dfl = vec'[k].dfl /\ Filled'[k].flag = vec'[k].flag
      <4>1. PICK v \in Seq(Entries) : v = vec'
        BY <3>3
      <4>2. v # <<>> /\ Filled' = [v EXCEPT ![Len(v)] = FilledIn(v[Len(v)], n)]
        BY <3>2, <3>3, <4>1
      <4>3. /\ Filled' \in Seq(Entries) /\ Len(Filled') = Len(v) /\ DOMAIN Filled' = DOMAIN v
            /\ \A k \in DOMAIN v : k # Len(v) => Filled'[k] = v[k]
            /\ Filled'[Len(v)].base = table[n].base /\ Filled'[Len(v)].dev = n
            /\ Filled'[Len(v)].irq = table[n].irq
            /\ \A k \in DOMAIN v : Filled'[k].dfl = v[k].dfl /\ Filled'[k].flag = v[k].flag
        BY <1>3, <4>2, FilledEntry
      <4>4. QED
        BY <4>1, <4>3
    <3>6. \A k \in DOMAIN vec : /\ Filled'[k].base = Filled[k].base /\ Filled'[k].dfl = Filled[k].dfl
                                /\ Filled'[k].dev = Filled[k].dev /\ Filled'[k].irq = Filled[k].irq
      BY <1>4, <3>3, <3>4, <3>5 DEF Same
    <3>7. QED
      BY <1>3, <3>3, <3>5, <3>6 DEF Same
  <2>3. QED
    BY <2>1, <2>2
<1>6. CallOK' /\ Quiet' /\ Seen' = Seen
  <2>1. CallOK'
    BY <1>1, <1>4, SameCall
  <2>2. QED
    BY <1>1, <2>1 DEF IInv, Quiet, Seen
<1>7. RegisteredOK'
  BY <1>1, <1>5, SameRegistered DEF IInv
<1>8. /\ vec[h].irq \notin left' /\ (vec[h].irq \in on' <=> op = "enable")
      /\ \A p : p # vec[h].irq => (p \in on' <=> p \in on) /\ (p \in left' <=> p \in left)
  BY <1>2, Switched
<1>9. CASE call.step = "store" /\ h = Len(vec)
  <2>1. crossed' = crossed \cup {vec[h].irq, Filled[h].irq}
    BY <1>2, <1>3, <1>9 DEF Overwritten
  <2>2. OnKnown'
    BY <1>5, <1>8, <2>1 DEF IInv, OnKnown, Same
  <2>3. ASSUME NEW k \in DOMAIN Filled, Filled[k].irq # NoIrq, Alone(Filled, k),
               Filled[k].irq \notin left' \cup crossed'
        PROVE  Filled'[k].flag <=> Filled[k].irq \in on'
    <3>1. k # h /\ Filled[k].irq # vec[h].irq
      BY <2>1, <2>3
    <3>2. Filled[k].irq \notin left \cup crossed
      BY <1>8, <2>1, <2>3, <3>1
    <3>3. Filled[k].flag <=> Filled[k].irq \in on
      BY <1>9, <2>3, <3>2 DEF IInv, FlagsOK, FlagOK
    <3>4. Filled'[k].flag = Filled[k].flag
      BY <1>3, <1>4, <1>5, <3>1
    <3>5. QED
      BY <1>8, <3>1, <3>3, <3>4
  <2>4. FlagsOK'
    <3>1. call'.step # "flag"
      BY <1>1, <1>9
    <3>2. QED
      BY <1>5, <2>3, <3>1, FlagNext DEF Same
  <2>5. QED
    BY <1>1, <1>4, <1>5, <1>6, <1>7, <2>2, <2>4, SameKeeps
<1>10. CASE ~(call.step = "store" /\ h = Len(vec))
  <2>1. Filled[h] = vec[h] /\ h \in DOMAIN Filled
    BY <1>3, <1>10
  <2>2. crossed \subseteq crossed'
    BY <1>2
  <2>3. OnKnown'
    BY <1>2, <1>5, <2>1, <2>2, SwitchedKnown DEF IInv
  <2>4. ASSUME NEW k \in DOMAIN Filled, Filled[k].irq # NoIrq, Alone(Filled, k),
               Filled[k].irq \notin left' \cup crossed'
        PROVE  IF call'.step = "flag" /\ call'.h = k
               THEN call'.op = "enable" <=> Filled[k].irq \in on'
               ELSE Filled'[k].flag <=> Filled[k].irq \in on'
    <3>1. CASE k = h
      <4>1. call.step = "flag" /\ call.h = h => call.op = op
        BY <1>2, <2>1, <2>4, <3>1 DEF Overwritten
      <4>2. QED
        BY <1>1, <1>3, <1>4, <1>5, <1>8, <2>1, <3>1, <4>1
    <3>2. CASE k # h
      <4>1. Filled[k].irq # vec[h].irq
        BY <2>1, <2>4, <3>2 DEF Alone
      <4>2. Filled[k].irq \notin left \cup crossed
        BY <1>8, <2>2, <2>4, <4>1
      <4>3. FlagOK(k)
        BY DEF IInv, FlagsOK
      <4>4. IF call.step = "flag" /\ call.h = k
            THEN call.op = "enable" <=> Filled[k].irq \in on
            ELSE Filled[k].flag <=> Filled[k].irq \in on
        BY <2>4, <4>2, <4>3 DEF FlagOK
      <4>5. (Filled[k].irq \in on' <=> Filled[k].irq \in on) /\ Filled'[k].flag = Filled[k].flag
        BY <1>3, <1>4, <1>5, <1>8, <3>2, <4>1
      <4>6. QED
        BY <1>1, <4>4, <4>5
    <3>3. QED
      BY <3>1, <3>2
  <2>5. FlagsOK'
    BY <1>5, <2>4, FlagNext DEF Same
  <2>6. QED
    BY <1>1, <1>4, <1>5, <1>6, <1>7, <2>3, <2>5, SameKeeps
<1>11. QED
  BY <1>9, <1>10

\* An isr switches an interrupt while realloc moves the vector.
LEMMA IsrStoreLostStep ==
    ASSUME IInv, IsrStoreLost
    PROVE  IInv'
<1>1. /\ UNCHANGED <<build, table, platformVars>> /\ table' = table /\ inits' = inits
      /\ connected' = connected /\ call' = call /\ registered' = registered /\ on # {}
      /\ vec' = vec /\ call.step = "scan"
  BY DEF IsrStoreLost, platformVars, IsrRuns, AtDevice
<1>2. PICK h \in DOMAIN vec, op \in {"enable", "disable"} :
         Switch(op, vec[h].irq) /\ crossed' = crossed \cup {vec[h].irq}
  BY DEF IsrStoreLost
<1>3. /\ vec \in Seq(Entries) /\ Filled = vec /\ Filled' = vec'
  BY <1>1, FilledType DEF IInv, Filled
<1>4. Same(vec, vec')
  BY <1>1, <1>3 DEF Same
<1>5. CallOK' /\ Quiet' /\ Seen' = Seen
  <2>1. CallOK'
    BY <1>1, <1>4, SameCall
  <2>2. QED
    BY <1>1, <2>1 DEF IInv, Quiet, Seen
<1>6. RegisteredOK'
  BY <1>1, <1>3, <1>4, SameRegistered DEF IInv
<1>7. OnKnown'
  BY <1>2, <1>3, <1>4, SwitchedKnown DEF IInv
<1>8. FlagsOK'
  <2>1. \A p : p # vec[h].irq => (p \in on' <=> p \in on) /\ (p \in left' <=> p \in left)
    BY <1>2, Switched
  <2>2. ASSUME NEW k \in DOMAIN Filled, Filled[k].irq # NoIrq, Alone(Filled, k),
               Filled[k].irq \notin left' \cup crossed'
        PROVE  Filled'[k].flag <=> Filled[k].irq \in on'
    <3>1. Filled[k].irq # vec[h].irq /\ Filled[k].irq \notin left \cup crossed
      BY <1>2, <2>1, <2>2
    <3>2. Filled[k].flag <=> Filled[k].irq \in on
      BY <1>1, <2>2, <3>1 DEF IInv, FlagsOK, FlagOK
    <3>3. QED
      BY <1>1, <1>3, <2>1, <3>1, <3>2
  <2>3. call'.step # "flag"
    BY <1>1
  <2>4. QED
    BY <1>3, <1>4, <2>2, <2>3, FlagNext DEF Same
<1>9. QED
  BY <1>1, <1>3, <1>4, <1>5, <1>6, <1>7, <1>8, SameKeeps


\* The program starts in the invariant.
LEMMA InitOK == Init => IInv
<1>1. SUFFICES ASSUME Init PROVE IInv
  OBVIOUS
<1>2. /\ vec = <<>> /\ DOMAIN vec = {} /\ Len(vec) = 0 /\ vec \in Seq(Entries)
      /\ call = Idle /\ inits = 0 /\ session = 0 /\ result = "none" /\ on = {} /\ buffers = {}
      /\ dflAddr = 0 /\ registered = <<>> /\ connected = [i \in Irqs |-> NoIsr]
  BY <1>1 DEF Init
<1>3. dflFound = FALSE /\ doubled = FALSE
  BY <1>1 DEF Init
<1>4. TableOK
  <2>1. CASE build = "model"
    BY <1>1, <2>1 DEF TableOK, Init
  <2>2. CASE build = "device"
    <3>1. table \in Tables /\ table \in Seq(Devices)
      BY <1>1, <2>2, TablesAssumption DEF Devices, Init
    <3>2. ASSUME NEW n \in DOMAIN table PROVE table[n].irq \in Irqs \cup {NoIrq}
      <4>1. table[n].irq \in IrqsOf(table)
        BY <3>2 DEF IrqsOf
      <4>2. table[n].irq \in UNION {IrqsOf(t) : t \in Tables}
        BY <3>1, <4>1
      <4>3. QED
        BY <4>2 DEF Irqs
    <3>3. QED
      BY <2>2, <3>1, <3>2 DEF TableOK
  <2>3. QED
    BY <1>1, <2>1, <2>2 DEF Init
<1>5. PlatformOK
  <2>1. inits \in Nat /\ session \in Nat /\ session <= inits /\ dflAddr \in 0..(AddrMod - 1)
    BY <1>2, ModAssumption
  <2>2. dflFound \in BOOLEAN /\ doubled \in BOOLEAN
    BY <1>3
  <2>3. call.op # "init"
    BY <1>2 DEF Idle
  <2>4. QED
    BY <1>2, <2>1, <2>2, <2>3, Zenon DEF PlatformOK
<1>6. Filled = <<>> /\ DOMAIN Filled = {}
  BY <1>2 DEF Filled, Idle
<1>7. CallOK /\ OnKnown /\ Quiet /\ FlagsOK
  BY <1>2, <1>6, IdleCall DEF CallOK, OnKnown, Quiet, FlagsOK
<1>8. RegisteredOK
  BY <1>2, <1>6 DEF RegisteredOK
<1>9. ModelOK
  BY <1>2 DEF ModelOK
<1>10. DeviceOK
  <2>1. ReachOK
    BY <1>6 DEF ReachOK
  <2>2. FoundOK
    BY <1>2, <1>3 DEF FoundOK
  <2>3. OutcomeOK /\ ListingOK
    BY <1>2 DEF OutcomeOK, ListingOK, Idle
  <2>4. QED
    BY <2>1, <2>2, <2>3 DEF DeviceOK
<1>11. QED
  BY <1>4, <1>5, <1>7, <1>8, <1>9, <1>10 DEF IInv

\* Nothing changes.
LEMMA StutterStep ==
    ASSUME IInv, UNCHANGED vars
    PROVE  IInv'
<1>1. /\ UNCHANGED <<build, table, platformVars>> /\ vec' = vec /\ call' = call
      /\ connected' = connected /\ on' = on /\ left' = left /\ crossed' = crossed
      /\ registered' = registered /\ inits' = inits /\ table' = table
  BY DEF vars, kernelVars, callVars, platformVars
<1>2. Filled' = Filled /\ Seen' = Seen
  BY <1>1 DEF Filled, FilledIn, Seen
<1>3. /\ vec \in Seq(Entries) /\ Filled \in Seq(Entries)
  BY FilledType DEF IInv
<1>4. Same(vec, vec') /\ Same(Filled, Filled')
  BY <1>1, <1>2, <1>3 DEF Same
<1>5. CallOK' /\ RegisteredOK'
  BY <1>1, <1>4, SameCall, SameRegistered DEF IInv
<1>6. OnKnown' /\ Quiet'
  BY <1>1, <1>2 DEF IInv, OnKnown, Quiet
<1>7. FlagsOK'
  <2>1. \A h \in DOMAIN Filled :
           Filled[h].irq # NoIrq /\ Alone(Filled, h) /\ Filled[h].irq \notin left' \cup crossed' =>
              IF call'.step = "flag" /\ call'.h = h
              THEN call'.op = "enable" <=> Filled[h].irq \in on'
              ELSE Filled'[h].flag <=> Filled[h].irq \in on'
    BY <1>1, <1>2 DEF IInv, FlagsOK, FlagOK
  <2>2. QED
    BY <1>2, <1>4, <2>1, FlagNext
<1>8. QED
  BY <1>1, <1>2, <1>4, <1>5, <1>6, <1>7, SameKeeps

-----------------------------------------------------------------------------
(***************************************************************************)
(* The theorems.                                                           *)
(***************************************************************************)
\* Every step of init, of the calls for interrupts and of the isrs that preempt
\* them keeps the invariant.
THEOREM Inductive == Spec => []IInv
<1>1. IInv /\ [Next]_vars => IInv'
  <2>1. SUFFICES ASSUME IInv, [Next]_vars PROVE IInv'
    OBVIOUS
  <2>2. CASE InitEmpty
    BY <2>1, <2>2, InitEmptyStep
  <2>3. CASE InitBegins
    BY <2>1, <2>3, InitBeginsStep
  <2>4. CASE DeviceGrows
    BY <2>1, <2>4, DeviceGrowsStep
  <2>5. CASE DeviceStores
    BY <2>1, <2>5, DeviceStoresStep
  <2>6. CASE DeviceIsRom
    BY <2>1, <2>6, DeviceIsRomStep
  <2>7. CASE DeviceIsSecondRom
    BY <2>1, <2>7, DeviceIsSecondRomStep
  <2>8. CASE DeviceSkipped
    BY <2>1, <2>8, DeviceSkippedStep
  <2>9. CASE InitEnds
    BY <2>1, <2>9, InitEndsStep
  <2>10. CASE InitModel
    BY <2>1, <2>10, InitModelStep
  <2>11. CASE Cleanup
    BY <2>1, <2>11, CleanupStep
  <2>12. CASE RegisterStores
    BY <2>1, <2>12, RegisterStoresStep
  <2>13. CASE RegisterConnects
    BY <2>1, <2>13, RegisterConnectsStep
  <2>14. CASE SwitchBegins
    BY <2>1, <2>14, SwitchBeginsStep
  <2>15. CASE SwitchKernel
    BY <2>1, <2>15, SwitchKernelStep
  <2>16. CASE SwitchFlag
    BY <2>1, <2>16, SwitchFlagStep
  <2>17. CASE IsrSwitches
    BY <2>1, <2>17, IsrSwitchesStep
  <2>18. CASE IsrStoreLost
    BY <2>1, <2>18, IsrStoreLostStep
  <2>19. CASE UNCHANGED vars
    BY <2>1, <2>19, StutterStep
  <2>20. QED
    BY <2>1, <2>2, <2>3, <2>4, <2>5, <2>6, <2>7, <2>8, <2>9, <2>10, <2>11, <2>12, <2>13,
       <2>14, <2>15, <2>16, <2>17, <2>18, <2>19 DEF Next
<1>2. QED
  BY <1>1, InitOK, PTL DEF Spec

\* For every table of devices, zephyr_scan_interfaces lists the interfaces of
\* the ROM and after them the plain devices that follow it, each once and in
\* order, and fails exactly as stated: also for a table of 256 devices.
THEOREM DiscoveryIsRight == Spec => []DiscoveryRight
<1>1. IInv => DiscoveryRight
  <2>1. SUFFICES ASSUME IInv, build = "device" PROVE DiscoveryRight
    BY DEF DiscoveryRight
  <2>2. TableOK /\ PlatformOK /\ CallOK /\ OutcomeOK /\ ListingOK
    BY <2>1 DEF IInv, DeviceOK
  <2>3. result # "none" => (result = "false" <=> Fails)
    BY <2>2 DEF OutcomeOK
  <2>4. ASSUME result = "true", session = 1
        PROVE  Listed(vec, IF RomsOf = {} THEN 0 ELSE Len(Rom), ListedDevices)
    <3>1. call.step \notin {"scan", "store"}
      BY <2>2, <2>4 DEF PlatformOK, CallOK, Scanning, Idle
    <3>2. Filled = vec /\ Seen = Len(table)
      BY <3>1 DEF Filled, Seen
    <3>3. Listed(vec, RomPart(Len(table)), ListedUpTo(Len(table)))
      BY <2>2, <2>4, <3>2 DEF ListingOK
    <3>4. QED
      BY <2>2, <3>3, WholeTable DEF RomPart
  <2>5. QED
    BY <2>3, <2>4 DEF DiscoveryRight, Listed, Fails, Counted
<1>2. QED
  BY <1>1, Inductive, PTL

\* What an address that the ROM gives turns into when the decoder has taken the
\* ROM's base off.
LEMMA RomReached ==
    ASSUME NEW k \in DOMAIN Rom, NEW d \in 0..(AddrMod - 1), ~Rom[k].abs \/ d = 0
    PROVE  (RomAddr(k, d) - d) % AddrMod = Rom[k].addr % AddrMod
<1>1. AddrMod \in Nat \ {0} /\ d \in Int /\ Rom[k].addr \in Int
  <2>1. AddrMod \in Nat \ {0}
    BY ModAssumption
  <2> DEFINE R == [abs : BOOLEAN, addr : Int]
  <2>2. Rom \in Seq(R)
    BY RomAssumption
  <2> HIDE DEF R
  <2>3. Rom[k] \in R
    BY <2>2
  <2>4. QED
    BY <2>1, <2>3 DEF R
<1>2. CASE ~Rom[k].abs
  <2>1. RomAddr(k, d) = (d + Rom[k].addr) % AddrMod
    BY <1>2 DEF RomAddr
  <2>2. QED
    BY <1>1, <2>1, BaseTakenOff
<1>3. CASE Rom[k].abs
  <2>1. RomAddr(k, d) = Rom[k].addr /\ d = 0
    BY <1>3 DEF RomAddr
  <2>2. QED
    BY <1>1, <2>1
<1>4. QED
  BY <1>2, <1>3

\* The accesses reach the device or the place that the ROM names, wherever the
\* sums wrap.
THEOREM AccessesReach == Spec => []AccessReaches
<1>1. IInv => AccessReaches
  <2>1. SUFFICES ASSUME IInv, build = "device", call.op # "init", NEW h \in DOMAIN vec
        PROVE  IF vec[h].dfl
               THEN /\ h \in DOMAIN Rom
                    /\ ~Rom[h].abs \/ dflAddr = 0 =>
                          /\ Reach(h) = Rom[h].addr % AddrMod
                          /\ Reach32(h) = Rom[h].addr % AddrMod
               ELSE /\ Reach32(h) = vec[h].base
                    /\ RomsOf = {} => Reach(h) = vec[h].base
    BY Zenon DEF AccessReaches
  <2>2. /\ TableOK /\ PlatformOK /\ CallOK /\ ReachOK /\ FoundOK
        /\ dflAddr \in 0..(AddrMod - 1) /\ vec \in Seq(Entries)
    BY <2>1 DEF IInv, DeviceOK, PlatformOK
  <2>3. Filled = vec
    <3>1. call.step # "store"
      BY <2>1, <2>2 DEF CallOK, Scanning, Idle
    <3>2. QED
      BY <3>1 DEF Filled
  <2>4. AccessOK(vec[h], h, dflAddr) /\ vec[h] \in Entries
    BY <2>1, <2>2, <2>3 DEF ReachOK
  <2>5. Reach(h) = (vec[h].base - dflAddr) % AddrMod
    BY DEF Reach, zephyr_dfl_base_addr_decoder
  <2>6. CASE vec[h].dfl
    <3>1. h \in DOMAIN Rom /\ vec[h].base = RomAddr(h, dflAddr)
      BY <2>4, <2>6 DEF AccessOK
    <3>2. ~Rom[h].abs \/ dflAddr = 0 => Reach(h) = Rom[h].addr % AddrMod
      BY <2>2, <2>5, <3>1, RomReached
    <3>3. Reach32(h) = Reach(h)
      BY <2>6 DEF Reach32
    <3>4. QED
      BY <2>6, <3>1, <3>2, <3>3
  <2>7. CASE ~vec[h].dfl
    <3>1. vec[h].dev \in DOMAIN table /\ table[vec[h].dev].base = vec[h].base
      BY <2>4, <2>7 DEF AccessOK
    <3>2. Reach32(h) = vec[h].base
      BY <2>7, <3>1 DEF Reach32
    <3>3. ASSUME RomsOf = {} PROVE Reach(h) = vec[h].base
      <4>1. dflAddr = 0 /\ vec[h].base \in 0..(AddrMod - 1) /\ AddrMod \in Nat \ {0}
        BY <2>2, <3>1, <3>3, DeviceType, ModAssumption DEF FoundOK
      <4>2. QED
        BY <2>5, <4>1
    <3>4. QED
      BY <2>7, <3>2, <3>3
  <2>8. QED
    BY <2>6, <2>7
<1>2. QED
  BY <1>1, Inductive, PTL

\* interrupt_enable agrees with the kernel between calls, however isrs preempt
\* them and init.
THEOREM FlagsMatchKernel == Spec => []FlagMatchesKernel
<1>1. IInv => FlagMatchesKernel
  <2>1. SUFFICES ASSUME IInv, call.step = "none", NEW h \in DOMAIN vec,
                        vec[h].irq # NoIrq, Owners(vec[h].irq) = {h},
                        vec[h].irq \notin left \cup crossed
                 PROVE  vec[h].flag <=> vec[h].irq \in on
    BY Zenon DEF FlagMatchesKernel
  <2>2. Alone(vec, h)
    BY <2>1 DEF Owners, Alone
  <2>3. Filled = vec
    BY <2>1 DEF Filled
  <2>4. QED
    BY <2>1, <2>2, <2>3 DEF IInv, FlagsOK, FlagOK
<1>2. QED
  BY <1>1, Inductive, PTL

\* While init has an entry to fill in, nothing is registered for that entry, and
\* registration is right for the vector as it stands too.
StoringOK ==
    call.step = "store" =>
        \A h \in DOMAIN vec : registered[h] # NoIsr =>
            h # Len(vec) /\ (Alone(vec, h) => connected[vec[h].irq] = registered[h])

\* That holds in every step.
LEMMA StoringNext == IInv /\ StoringOK /\ [Next]_vars => StoringOK'
<1>1. SUFFICES ASSUME IInv, StoringOK, [Next]_vars PROVE StoringOK'
  OBVIOUS
<1>2. TableOK /\ PlatformOK /\ CallOK /\ RegisteredOK /\ vec \in Seq(Entries)
  BY <1>1 DEF IInv, PlatformOK
<1>3. CASE DeviceGrows
  <2>1. /\ call.step = "scan" /\ vec' = Append(vec, Entry(0, FALSE, 0, 0))
        /\ registered' = Append(registered, NoIsr) /\ connected' = connected
    BY <1>3 DEF DeviceGrows, AtDevice, scanUnchanged, kernelVars
  <2>2. Filled = vec
    BY <2>1 DEF Filled
  <2>3. /\ registered \in Seq(Isrs \cup {NoIsr}) /\ DOMAIN registered = DOMAIN vec
        /\ Len(registered) = Len(vec) /\ Len(vec) \in Nat /\ DOMAIN vec = 1..Len(vec)
    BY <1>2, <2>2 DEF RegisteredOK
  <2>4. PICK e : e = Entry(0, FALSE, 0, 0)
    OBVIOUS
  <2>5. /\ DOMAIN vec' = 1..(Len(vec) + 1) /\ Len(vec') = Len(vec) + 1
        /\ \A h \in DOMAIN vec : vec'[h] = vec[h]
    BY <1>2, <2>1, <2>3, <2>4
  <2>6. /\ registered'[Len(vec) + 1] = NoIsr
        /\ \A h \in DOMAIN vec : registered'[h] = registered[h]
    BY <2>1, <2>3
  <2>7. ASSUME NEW h \in DOMAIN vec', registered'[h] # NoIsr
        PROVE  h # Len(vec') /\ (Alone(vec', h) => connected'[vec'[h].irq] = registered'[h])
    <3>1. h # Len(vec') /\ h \in DOMAIN vec
      BY <2>3, <2>5, <2>6, <2>7
    <3>2. Alone(vec', h) => Alone(vec, h)
      BY <2>3, <2>5, <3>1 DEF Alone
    <3>3. Alone(vec, h) => connected[vec[h].irq] = registered[h]
      BY <1>2, <2>2, <2>6, <2>7, <3>1 DEF RegisteredOK
    <3>4. QED
      BY <2>1, <2>5, <2>6, <3>1, <3>2, <3>3
  <2>8. QED
    BY <2>7 DEF StoringOK, Alone
<1>4. ASSUME Same(vec, vec'), call' = call, connected' = connected, registered' = registered
      PROVE  StoringOK'
  <2>1. /\ DOMAIN vec' = DOMAIN vec /\ Len(vec') = Len(vec)
        /\ \A h \in DOMAIN vec : vec'[h].irq = vec[h].irq
    BY <1>4 DEF Same
  <2>2. \A h \in DOMAIN vec : Alone(vec', h) <=> Alone(vec, h)
    BY <1>4, SameAlone
  <2>3. call'.step = "store" =>
          \A h \in DOMAIN vec' : registered'[h] # NoIsr =>
             h # Len(vec') /\ (Alone(vec', h) => connected'[vec'[h].irq] = registered'[h])
    BY <1>1, <1>4, <2>1, <2>2 DEF StoringOK
  <2>4. QED
    BY <2>3 DEF StoringOK, Alone
<1>5. CASE IsrSwitches
  <2>1. PICK h \in DOMAIN vec, op \in {"enable", "disable"} :
          vec' = [vec EXCEPT ![h].flag = (op = "enable")]
    BY <1>5 DEF IsrSwitches
  <2>2. (op = "enable") \in BOOLEAN
    OBVIOUS
  <2>3. Same(vec, vec')
    BY <1>2, <2>1, <2>2, FlagStored
  <2>4. QED
    BY <1>4, <1>5, <2>3 DEF IsrSwitches
<1>6. CASE UNCHANGED <<vec, call, connected, registered>>
  <2>1. Same(vec, vec')
    BY <1>2, <1>6 DEF Same
  <2>2. QED
    BY <1>4, <1>6, <2>1
<1>7. CASE IsrStoreLost
  BY <1>6, <1>7 DEF IsrStoreLost
<1>8. CASE call'.step # "store"
  BY <1>8 DEF StoringOK
<1>9. CASE InitEmpty \/ InitModel \/ Cleanup
  <2>1. call' = call /\ call = Idle
    BY <1>9 DEF InitEmpty, InitCalled, InitModel, Cleanup
  <2>2. QED
    BY <1>8, <2>1 DEF Idle
<1>10. CASE InitBegins \/ DeviceStores \/ DeviceIsRom \/ DeviceIsSecondRom \/ DeviceSkipped \/ InitEnds
  BY <1>8, <1>10 DEF InitBegins, DeviceStores, DeviceIsRom, DeviceIsSecondRom, DeviceSkipped,
     InitEnds, ScanAt, Idle
<1>11. CASE RegisterStores \/ RegisterConnects \/ SwitchBegins \/ SwitchFlag
  BY <1>8, <1>11 DEF RegisterStores, RegisterConnects, SwitchBegins, SwitchFlag, Begin, Idle
<1>12. CASE SwitchKernel
  <2>1. call' = [call EXCEPT !.step = "flag"] /\ call \in Calls
    BY <1>2, <1>12 DEF SwitchKernel, CallOK
  <2>2. call'.step = "flag"
    BY <2>1 DEF Calls
  <2>3. QED
    BY <1>8, <2>2
<1>13. CASE UNCHANGED vars
  BY <1>6, <1>13 DEF vars, callVars, kernelVars
<1>14. QED
  BY <1>1, <1>3, <1>5, <1>7, <1>9, <1>10, <1>11, <1>12, <1>13 DEF Next

\* The isr that fpga_register_isr passed last is the one connected, also while a
\* later init adds entries.
THEOREM RegisteredAreCalled == Spec => []RegisteredIsCalled
<1>1. Init => StoringOK
  BY DEF Init, StoringOK, Idle
<1>2. IInv /\ StoringOK => RegisteredIsCalled
  <2>1. SUFFICES ASSUME IInv, StoringOK, NEW h \in DOMAIN registered, registered[h] # NoIsr,
                        Owners(vec[h].irq) = {h}
                 PROVE  connected[vec[h].irq] = registered[h]
    BY DEF RegisteredIsCalled
  <2>2. RegisteredOK /\ DOMAIN Filled = DOMAIN vec /\ (call.step # "store" => Filled = vec)
    BY <2>1, FilledType DEF IInv
  <2>3. h \in DOMAIN vec
    BY <2>1, <2>2 DEF RegisteredOK
  <2>4. Alone(vec, h)
    BY <2>1, <2>3 DEF Owners, Alone
  <2>5. CASE call.step = "store"
    BY <2>1, <2>3, <2>4, <2>5 DEF StoringOK
  <2>6. CASE call.step # "store"
    BY <2>1, <2>2, <2>3, <2>4, <2>6 DEF RegisteredOK
  <2>7. QED
    BY <2>5, <2>6
<1>3. QED
  BY <1>1, <1>2, Inductive, StoringNext, PTL DEF Spec

\* The software model's memory is allocated exactly while the interface points to it.
THEOREM ModelBuffersOwned == Spec => []ModelBufferOwned
<1>1. IInv => ModelBufferOwned
  <2>1. SUFFICES ASSUME IInv, build = "model", ~doubled
                 PROVE  /\ buffers = {vec[h].base : h \in DOMAIN vec}
                        /\ buffers # {} <=> result = "true"
    BY DEF ModelBufferOwned
  <2>2. ModelOK /\ vec \in Seq(Entries) /\ Len(vec) \in Nat /\ DOMAIN vec = 1..Len(vec)
    BY <2>1 DEF IInv, PlatformOK
  <2>3. CASE vec = <<>>
    <3>1. DOMAIN vec = {} /\ buffers = {} /\ result # "true"
      BY <2>1, <2>2, <2>3 DEF ModelOK
    <3>2. QED
      BY <3>1
  <2>4. CASE vec # <<>>
    <3>1. DOMAIN vec = {1}
      BY <2>2, <2>4 DEF ModelOK
    <3>2. buffers = {vec[1].base} /\ result = "true"
      BY <2>1, <2>2, <2>4 DEF ModelOK
    <3>3. QED
      BY <3>1, <3>2
  <2>5. QED
    BY <2>3, <2>4
<1>2. QED
  BY <1>1, Inductive, PTL
=============================================================================
