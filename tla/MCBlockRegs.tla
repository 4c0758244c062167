----------------------------- MODULE MCBlockRegs -----------------------------
EXTENDS BlockRegs

\* Blocks that read nothing, as many registers as have a place, and more, and
\* write others than they read, or one of them.
MCBlocks ==
    {[in |-> {}, out |-> {8, 14}], [in |-> {0, 14, CPSR}, out |-> {8, 14}],
     [in |-> {0, 8, 14}, out |-> {0}]}
MCLists == {{8, 14}, {0, 8, 14}}
==============================================================================
