---------------------------- MODULE MCNetThreads ----------------------------
(* TLC instances of NetThreads. *)
EXTENDS NetThreads, TLC

\* Allocations, frees, and what reads or fills the fast cache
MixedCalls == {"sn_malloc", "sn_free", "sn_query_tid",
               "sn_fast_cache_clear", "sn_set_alloc_limit"}

HeapCalls == {"sn_malloc", "sn_free"}

Alike == Permutations(Addrs) \cup Permutations(Entries) \cup Permutations(Threads)
============================================================================
