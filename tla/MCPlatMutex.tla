---------------------------- MODULE MCPlatMutex ----------------------------
(***************************************************************************)
(* TLC instances of PlatMutex: which functions the threads call.           *)
(***************************************************************************)
EXTENDS PlatMutex

\* Only functions that lock once (push, setters, the cache's functions).
Flat == {FlatLocks}

\* Functions with one unlock, at their end: pushes and walks of 1 entry or 2.
OneUnlock == {FlatLocks, linked_list_forEach_locks(1), linked_list_forEach_locks(2)}
============================================================================
