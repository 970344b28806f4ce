------------------------------- MODULE MCChip ------------------------------
EXTENDS FUSB302Chip
ChipPartners ==
    {[kind |-> "none", flip |-> 0], [kind |-> "drp", flip |-> 1],
     [kind |-> "dts", flip |-> 0], [kind |-> "audio", flip |-> 0]}
ChipHeaders == {<<1, 1>>}
=============================================================================
