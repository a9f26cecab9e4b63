-------------------------- MODULE MCZephyrPlatform --------------------------
(***************************************************************************)
(* ZephyrPlatform on tables with devices before and after a ROM, without a *)
(* ROM, with two, with devices that share an irq or have none, empty, and  *)
(* with as many devices as CountMod.                                       *)
(***************************************************************************)
EXTENDS ZephyrPlatform

Dev(type, base, irq) == [type |-> type, base |-> base, irq |-> irq]

MCTables ==
    {<<>>,
     <<Dev(2, 100, -1), Dev(1, 10, 17), Dev(1, 20, -1)>>,
     <<Dev(1, 10, 17), Dev(2, 100, -1), Dev(0, 5, -1), Dev(1, 20, 18)>>,
     <<Dev(1, 10, 17), Dev(1, 20, 18)>>,
     <<Dev(1, 10, 17), Dev(1, 20, 17)>>,
     <<Dev(2, 0, -1), Dev(1, 10, 17), Dev(2, 200, -1)>>,
     <<Dev(1, 10, 17), Dev(2, 100, -1), Dev(1, 20, 18), Dev(0, 5, -1), Dev(0, 5, -1)>>}

\* Behind the ROM's base, and at an absolute address.
MCRom == <<[abs |-> FALSE, addr |-> -200], [abs |-> TRUE, addr |-> 400]>>
=============================================================================
