----------------------------- MODULE MCFileWork -----------------------------
(* TLC instances of FileWork. *)
EXTENDS FileWork, TLC

\* Block ids, the queries that only read, and the files.
FileCalls == {"sn_malloc", "sn_free", "sn_set_alloc_limit",
              "sn_set_block_id", "sn_get_block_id", "sn_query_block_id",
              "sn_is_tracked_block", "sn_query_size", "sn_query_thread_memory_usage",
              "sn_lock_fast_cache", "sn_unlock_fast_cache",
              "sn_dump_to_file", "sn_mount_file_to_ram"}

Addresses == Permutations(Addrs) \cup Permutations(Entries)

\* error_code is written and never read: states that differ in it are one.
Seen == <<heap, list, entry, cache, flags, global_memory_usage, control, status, pending>>
============================================================================
