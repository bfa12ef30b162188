--------------------------- MODULE BlockRegistry ---------------------------
(***************************************************************************)
(* What libsafetynet promises about memory blocks, without saying how it   *)
(* tracks them: a block it owns is given back to libc exactly when it      *)
(* leaves the registry, and nothing else is ever given back.               *)
(***************************************************************************)
CONSTANT Addrs

VARIABLES
  heap,   \* the blocks libc has allocated
  owned,  \* those the library tracks
  state   \* how the process is doing

registryVars == <<heap, owned, state>>

Init == heap = {} /\ owned = {} /\ state = "running"

\* sn_malloc, sn_calloc, sn_query_static_metadata
Allocate(a) == a \notin heap /\ heap' = heap \cup {a} /\ owned' = owned \cup {a}

\* The program allocates a block itself; sn_register, sn_register_size take it over.
Elsewhere(a) == a \notin heap /\ heap' = heap \cup {a} /\ owned' = owned
Adopt(a) == a \in heap \ owned /\ owned' = owned \cup {a} /\ heap' = heap

\* sn_free
Release(a) == a \in owned /\ heap' = heap \ {a} /\ owned' = owned \ {a}

\* sn_realloc to another address
Move(a, b) ==
  /\ a \in owned /\ b \notin heap
  /\ heap' = (heap \ {a}) \cup {b}
  /\ owned' = (owned \ {a}) \cup {b}

\* The process exits, with or without freeing what is owned.
Close ==
  /\ state' \in {"exited", "crashed"}
  /\ owned' = {}
  /\ heap' \in {heap, heap \ owned}

\* It aborts, perhaps with a block allocated but not yet tracked.
Die == state' = "aborted" /\ owned' = owned /\ \E A \in SUBSET Addrs : heap' = heap \cup A

Next ==
  /\ state = "running"
  /\ \/ /\ state' = state
        /\ \/ \E a \in Addrs : Allocate(a) \/ Elsewhere(a) \/ Adopt(a) \/ Release(a)
           \/ \E a, b \in Addrs : Move(a, b)
     \/ Close
     \/ Die

Spec == Init /\ [][Next]_registryVars
============================================================================
