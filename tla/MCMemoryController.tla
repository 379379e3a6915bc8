------------------------- MODULE MCMemoryController -------------------------
(* An instance of MemoryController: three banks, two of them in one rank.  *)
EXTENDS MemoryController

SmallRank == [b1 |-> 0, b2 |-> 0, b3 |-> 1]
SmallBanks == DOMAIN SmallRank

SmallConfigs == {
    [policy |-> "open",   par_bs |-> TRUE,  full_duplex |-> FALSE],
    [policy |-> "closed", par_bs |-> TRUE,  full_duplex |-> FALSE],
    [policy |-> "open",   par_bs |-> FALSE, full_duplex |-> TRUE],
    [policy |-> "closed", par_bs |-> FALSE, full_duplex |-> FALSE]}

\* Two rows of one bank, a bank beside it and one in the other rank.
SmallReqs == {
    [bank |-> "b1", page |-> 1, type |-> "read",    th |-> 1],
    [bank |-> "b1", page |-> 2, type |-> "s_rd_wr", th |-> 2],
    [bank |-> "b2", page |-> 1, type |-> "evict",   th |-> 1],
    [bank |-> "b3", page |-> 1, type |-> "read",    th |-> 2]}
=============================================================================
