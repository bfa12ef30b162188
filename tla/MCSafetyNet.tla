---------------------------- MODULE MCSafetyNet ----------------------------
(***************************************************************************)
(* TLC instances of SafetyNet: which functions the program calls.          *)
(***************************************************************************)
EXTENDS SafetyNet, TLC

\* Allocation and accounting; nothing here fills the fast cache.
AllocCalls == {"sn_malloc", "sn_calloc", "sn_realloc", "sn_free", "sn_set_alloc_limit",
               "sn_do_auto_free_at_exit", "exit"}

\* Everything that reads or fills the fast cache.
CacheCalls == {"sn_malloc", "sn_free", "sn_realloc", "sn_query_tid",
               "sn_request_to_fast_cache", "sn_fast_cache_clear",
               "sn_do_fast_caching", "sn_lock_fast_cache", "sn_unlock_fast_cache", "exit"}

\* The program registers blocks of its own, sets ids, and asks about both.
RegisterCalls == {"sn_free", "app_malloc", "sn_register", "sn_register_size",
                  "sn_calculate_checksum", "sn_query_metadata", "sn_query_static_metadata",
                  "sn_is_tracked_block", "sn_query_size", "sn_query_thread_memory_usage",
                  "sn_set_block_id", "sn_query_block_id", "sn_reset_last_error", "exit"}

Addresses == Permutations(Addrs) \cup Permutations(Entries)

\* error_code is written and never read: states that differ in it are one.
Seen == <<heap, list, entry, cache, flags, global_memory_usage, control, status>>
============================================================================
