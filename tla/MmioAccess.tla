----------------------------- MODULE MmioAccess -----------------------------
(***************************************************************************)
(* A read and a write of one register in two threads.  The accesses up to  *)
(* 32 bits are one bus access, here a beat.  fpga_read_64 and              *)
(* fpga_write_64 are one beat too, or two when the build forces the        *)
(* emulation of 64-bit accesses, the lower half first; fpga_read_512 and   *)
(* fpga_write_512 are eight of those, upwards.  The three platforms have   *)
(* the same code (uio/inc/intel_fpga_api_uio.h and its siblings).          *)
(*                                                                         *)
(* A register is either storage, written by software, or a counter that    *)
(* the device advances as a whole.                                         *)
(***************************************************************************)
EXTENDS Integers

CONSTANTS
    BeatCounts, \* beats of one access: 1, or 2 (64 bits), 8 or 16 (512 bits)
    Base,       \* 2^32 or 2^64: values of one beat
    Values,     \* values that are written, and the counter's first values
    MaxWrites,  \* bound: writes, or advances of the counter
    MaxReads    \* bound: reads

ASSUME BeatsAssumption == BeatCounts \subseteq Nat \ {0}
ASSUME DataAssumption == Base \in Nat \ {0} /\ Values \subseteq Nat
ASSUME BoundsAssumption == MaxWrites \in Nat /\ MaxReads \in Nat

VARIABLES
    kind,       \* "storage" or "counter"
    beats,      \* beats of an access to this register
    mem,        \* what each beat of the register holds
    ver,        \* history: the write each beat comes from
    writes,     \* writes begun; 0 is the one that the register starts with
    last,       \* history: the last value written as a whole, or the counter
    busy, wAt, value,   \* the write under way: the next beat, and the value
    reads,      \* reads begun
    rAt,        \* the read's next beat; all beats when no read is under way
    got, gver,  \* the beats that were read, and the writes they come from
    quiet,      \* history: no write overlapped the read
    start       \* history: last, when the read began

writeVars == <<busy, wAt, value>>
readVars == <<reads, rAt, got, gver, start>>
vars == <<kind, beats, mem, ver, writes, last, writeVars, readVars, quiet>>

Beats == 0..(beats - 1)

\* What a unit of beat i counts for in the value: 1 << 32 and its like.
Weight[i \in Nat] == IF i = 0 THEN 1 ELSE Base * Weight[i - 1]

\* (uint32_t)(value >> 32) and its like: beat i of a value.
Part(v, i) == (v \div Weight[i]) % Base

\* The value that the beats make up: data |= (uint64_t)... << 32.
Join(g) ==
    LET sum[n \in 0..beats] ==
            IF n = 0 THEN 0 ELSE sum[n - 1] + g[n - 1] * Weight[n - 1]
    IN  sum[beats]

\* Slip: the second half is written over the first.
WriteBeatAt_SameOffset(k) == 0

\* The beat that the k-th access of a write is for.
WriteBeatAt(k) == k

\* Slip: the upper half is read first.
ReadBeatAt_HighFirst(k) == beats - 1 - k

\* The beat that the k-th access of a read is for.
ReadBeatAt(k) == k

\* The values that an access of this width can carry.
Fitting == {v \in Values : v < Weight[beats]}

Init ==
    /\ kind \in {"storage", "counter"}
    /\ beats \in BeatCounts
    /\ last \in Fitting
    /\ mem = [i \in Beats |-> Part(last, i)]
    /\ ver = [i \in Beats |-> 0]
    /\ writes = 0
    /\ busy = FALSE /\ wAt = 0 /\ value = 0
    /\ reads = 0 /\ rAt = beats
    /\ got = [i \in Beats |-> 0] /\ gver = [i \in Beats |-> 0]
    /\ quiet = FALSE /\ start = 0

\* fpga_write_64 or fpga_write_512 is called.
BeginWrite ==
    /\ kind = "storage" /\ ~busy /\ writes < MaxWrites
    /\ busy' = TRUE /\ wAt' = 0 /\ value' \in Fitting
    /\ writes' = writes + 1
    /\ quiet' = FALSE
    /\ UNCHANGED <<kind, beats, mem, ver, last, readVars>>

WriteBeat ==
    /\ busy
    /\ mem' = [mem EXCEPT ![WriteBeatAt(wAt)] = Part(value, wAt)]
    /\ ver' = [ver EXCEPT ![WriteBeatAt(wAt)] = writes]
    /\ wAt' = wAt + 1
    /\ IF wAt + 1 = beats
       THEN busy' = FALSE /\ last' = value
       ELSE UNCHANGED <<busy, last>>
    /\ UNCHANGED <<kind, beats, writes, value, readVars, quiet>>

\* The device advances its counter, all beats at once.
Advance ==
    /\ kind = "counter" /\ writes < MaxWrites
    /\ last' = (last + 1) % Weight[beats]
    /\ mem' = [i \in Beats |-> Part(last', i)]
    /\ writes' = writes + 1
    /\ ver' = [i \in Beats |-> writes + 1]
    /\ quiet' = FALSE
    /\ UNCHANGED <<kind, beats, writeVars, readVars>>

\* fpga_read_64 or fpga_read_512 is called.
BeginRead ==
    /\ rAt = beats /\ reads < MaxReads
    /\ reads' = reads + 1
    /\ rAt' = 0
    /\ quiet' = ~busy
    /\ start' = last
    /\ UNCHANGED <<kind, beats, mem, ver, writes, last, writeVars, got, gver>>

ReadBeat ==
    /\ rAt < beats
    /\ got' = [got EXCEPT ![ReadBeatAt(rAt)] = mem[ReadBeatAt(rAt)]]
    /\ gver' = [gver EXCEPT ![ReadBeatAt(rAt)] = ver[ReadBeatAt(rAt)]]
    /\ rAt' = rAt + 1
    /\ UNCHANGED <<kind, beats, mem, ver, writes, last, writeVars, reads, quiet, start>>

Next == BeginWrite \/ WriteBeat \/ Advance \/ BeginRead \/ ReadBeat

Spec == Init /\ [][Next]_vars

-----------------------------------------------------------------------------
(***************************************************************************)
(* Properties                                                              *)
(***************************************************************************)
ReadDone == reads > 0 /\ rAt = beats

\* A read that no write and no advance overlaps returns, beat by beat, the
\* value of the last access as a whole: fpga_write_64 and fpga_read_64 split
\* and place the halves alike, emulated or not, and so do the 512-bit ones.
QuietReadRight ==
    ReadDone /\ quiet => \A i \in Beats : got[i] = Part(last, i)

\* A read that races with writes may mix them, but as both threads go upwards
\* a higher beat is never more than one write older than a lower one: the
\* emulated fpga_read_64 cannot pair a new lower half with a long outdated
\* upper half, however the threads are scheduled.
HalvesInOrder ==
    ReadDone =>
        \A i, j \in Beats : i < j => gver[j] >= gver[i] - 1

UpperBeats(v) == [i \in Beats \ {0} |-> Part(v, i)]

\* As long as the counter does not wrap around, an emulated read of it never
\* returns a value that it had already passed when the read began; and it
\* returns a value that the counter really had, unless a carry into an upper
\* beat fell into the read.
CounterNotBehind ==
    ReadDone /\ kind = "counter" /\ last >= start =>
        /\ Join(got) >= start
        /\ UpperBeats(start) = UpperBeats(last) => Join(got) <= last

=============================================================================
