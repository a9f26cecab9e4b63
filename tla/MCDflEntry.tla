----------------------------- MODULE MCDflEntry -----------------------------
(***************************************************************************)
(* DflEntry on lists of one and two interfaces, with every way to end a    *)
(* list of parameter blocks, blocks without data, relative addresses that  *)
(* wrap below the ROM, absolute ones, and a scan of a list after another.  *)
(***************************************************************************)
EXTENDS DflEntry

B(id, version, data) == [id |-> id, version |-> version, data |-> data]
I(guid, csr, absolute, instance, group, hasParams, blocks, nullEnd) ==
    [guid |-> guid, csr |-> csr, absolute |-> absolute, instance |-> instance,
     group |-> group, hasParams |-> hasParams, blocks |-> blocks, nullEnd |-> nullEnd]

BlockLists ==
    {<<B(1, 2, <<5>>)>>, <<B(3, 0, <<5, 6>>), B(2, 1, <<7>>)>>,
     <<B(3, 3, <<>>), B(1, 1, <<8>>)>>,
     <<B(1, 0, <<2>>), B(2, 3, <<9, 0>>), B(3, 2, <<4>>)>>}

Plain == I(<<11, 21>>, 512, FALSE, 3, 1, FALSE, <<>>, TRUE)
Params ==
    {I(<<12, 22>>, AddrMod - 8, FALSE, 1, 0, TRUE, blocks, nullEnd) :
        blocks \in BlockLists, nullEnd \in BOOLEAN}
NoBlocks == I(<<13, 23>>, 256, TRUE, 0, 1, TRUE, <<>>, TRUE)

MCLists ==
    {<<Plain>>, <<NoBlocks, Plain>>}
        \cup {<<p>> : p \in Params}
        \cup {<<p, Plain>> : p \in Params}
        \cup {<<NoBlocks, p>> : p \in Params}
        \cup {<<p, q>> : p \in Params, q \in {r \in Params : Len(r.blocks) = 2}}

=============================================================================
