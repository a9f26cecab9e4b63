-------------------------- MODULE MCDevmemPlatform --------------------------
(* Instances of DevmemPlatform: pages of 4, numbers up to 31 accepted. *)
EXTENDS DevmemPlatform

Option(o, v) == [opt |-> o, val |-> v]

\* Values on both sides of a page boundary and of LONG_MAX, zero and text.  A
\* span of 31 does not fit the address space, one of 6 reaches a page at 4.
Values == {0, 3, 4, 6, 31, 40, Text}

\* A start and a span, alone and with an entry address or the mode; and lists
\* that give one option only.
Ranges == {<<Option("start", a), Option("span", s)>> : a, s \in Values}
Tails == {<<>>, <<Option("single", Text)>>, <<Option("path", Text)>>}
            \cup {<<Option("entry", e)>> : e \in Values}
MCArgvs ==
    {r \o t : r \in Ranges, t \in Tails}
        \cup {<<Option(o, v)>> : o \in {"start", "span", "entry"}, v \in Values}
=============================================================================
