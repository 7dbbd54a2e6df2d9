--------------------------- MODULE MCPoolAllocator --------------------------
(***************************************************************************)
(* Pages of 32 bytes: two items of 12 bytes (and 8 left over), two of 16   *)
(* or, in two pages, one of 48.  Requests of 1 and of 11 share a bank.     *)
(***************************************************************************)
EXTENDS PoolAllocator

MCRequests == {1, 11, 12, 40}
MCKinds == {"transparent", "mmap", "standard"}
MCMayFail == {"map", "madvise"}
=============================================================================
