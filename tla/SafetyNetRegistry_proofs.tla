---------------------- MODULE SafetyNetRegistry_proofs ----------------------
(***************************************************************************)
(* SafetyNet implements BlockRegistry: through every function, the blocks  *)
(* libc has allocated and the blocks the list tracks change together, as   *)
(* the registry says.  The step simulation rests on the invariant IInv.    *)
(***************************************************************************)
EXTENDS SafetyNetSafety_proofs

Owned == Tracked \ {NULL}

\* A step as the registry sees it: one of its steps, or none at all
RegistryStep == [Registry!Next]_(Registry!registryVars)

----------------------------------------------------------------------------
(* The kinds of step *)

\* Neither libc's blocks nor the tracked ones change.
LEMMA StutterStep ==
  ASSUME UNCHANGED <<live, list, data, status>>
  PROVE  RegistryStep
<1>1. Tracked' = Tracked
  BY DEF Tracked, Listed
<1> QED
  BY <1>1 DEF RegistryStep, Registry!registryVars

\* A call that gives up or answers.
LEMMA ClosesStep ==
  ASSUME status = "running", NEW e \in Listed \cup {NULL}, Closes(e)
  PROVE  RegistryStep
<1>1. UNCHANGED <<live, list, data>> /\ Reads({e} \ {NULL})
  BY DEF Closes, Ends, heap
<1>2. status' = "running"
  BY <1>1 DEF Reads
<1> QED
  BY <1>1, <1>2, StutterStep

\* A new entry tracks its block, or there is no memory for the entry.
LEMMA PushTracks ==
  ASSUME TypeOK, NEW p \in Pointers, NEW bytes \in Nat, NEW touched \in Listed \cup {NULL},
         linked_list_push(p, bytes, touched)
  PROVE  \/ status' = "running" /\ Tracked' = Tracked \cup {p}
         \/ status' = "aborted" /\ Tracked' = Tracked
<1>1. CASE Abort /\ UNCHANGED <<list, entry>>
  BY <1>1 DEF Abort, Listed, Tracked, entry
<1>2. CASE ~(Abort /\ UNCHANGED <<list, entry>>)
  <2>1. PICK f \in Entries \ Listed :
          /\ list' = Append(list, f)
          /\ data' = [data EXCEPT ![f] = p]
          /\ Reads({touched} \ {NULL})
    BY <1>2, Zenon DEF linked_list_push
  <2>2. status' = "running"
    BY <2>1 DEF Reads
  <2>3. Listed' = Listed \cup {f}
    <3>1. /\ Len(list) \in Nat /\ DOMAIN list = 1..Len(list) /\ DOMAIN list' = 1..(Len(list) + 1)
          /\ \A i \in 1..Len(list) : list'[i] = list[i]
          /\ list'[Len(list) + 1] = f
      BY <2>1 DEF TypeOK, DataType
    <3>2. DOMAIN list' = DOMAIN list \cup {Len(list) + 1}
      BY <3>1
    <3> QED
      BY <3>1, <3>2 DEF Listed
  <2>4. data'[f] = p /\ \A e \in Listed : data'[e] = data[e]
    BY <2>1 DEF TypeOK, DataType, Listed
  <2> QED
    BY <2>2, <2>3, <2>4 DEF Tracked
<1> QED
  BY <1>1, <1>2

\* Allocation of a block and its entry.
LEMMA AllocatedStep ==
  ASSUME TypeOK, Core, status = "running", NEW bytes \in Nat \ {0}, NEW recorded \in Nat,
         NEW e \in Listed \cup {NULL}, Allocated(bytes, recorded, e)
  PROVE  RegistryStep
<1>1. PICK a \in FreeAddrs :
        /\ live' = [live EXCEPT ![a] = bytes]
        /\ linked_list_push(a, recorded, e)
  BY DEF Allocated
<1>2. a \in Addrs /\ a \in Pointers /\ a # NULL /\ live[a] = 0
  BY NullAssumption DEF FreeAddrs, Pointers
<1>3. Allocd' = Allocd \cup {a} /\ a \notin Allocd
  BY <1>1, <1>2 DEF Allocd, TypeOK, DataType
<1>4. \/ status' = "running" /\ Owned' = Owned \cup {a}
      \/ status' = "aborted" /\ Owned' = Owned
  BY <1>1, <1>2, PushTracks DEF Owned
<1>5. CASE status' = "running" /\ Owned' = Owned \cup {a}
  <2>1. Registry!Allocate(a)
    BY <1>3, <1>5 DEF Registry!Allocate, Allocd, Owned
  <2> QED
    BY <1>2, <1>5, <2>1 DEF RegistryStep, Registry!Next
<1>6. CASE status' = "aborted" /\ Owned' = Owned
  <2>1. {a} \in SUBSET Addrs
    BY <1>2
  <2>2. Registry!Die
    BY <1>3, <1>6, <2>1 DEF Registry!Die, Allocd, Owned
  <2> QED
    BY <2>2 DEF RegistryStep, Registry!Next
<1> QED
  BY <1>4, <1>5, <1>6

LEMMA MallocStep ==
  ASSUME TypeOK, Core, status = "running", NEW bytes \in Nat, NEW e \in Listed \cup {NULL},
         Malloc(bytes, e)
  PROVE  RegistryStep
<1>1. (\E code : sn_error(code, e)) \/ (bytes # 0 /\ Allocated(bytes, bytes, e))
  BY DEF Malloc
<1> QED
  BY <1>1, ClosesForms, ClosesStep, AllocatedStep

\* The process leaves through exit, at the end or from sn_crash.
LEMMA ExitStep ==
  ASSUME TypeOK, Core, status = "running", NEW how \in {"exited", "crashed"}, doexit(how)
  PROVE  RegistryStep
<1>1. Tracked' = {}
  BY DEF doexit, Listed, Tracked
<1>2. Owned = Allocd \ foreign
  BY DEF Core, OwnedOnce, Allocd, Owned
<1>3. \A i, j \in DOMAIN list : data[list[i]] = data[list[j]] /\ data[list[i]] # NULL => i = j
  BY DEF Core, OwnedOnce, Listed
<1>4. freeOnListFree \in {{}, Owned} /\ \A a \in freeOnListFree : live[a] > 0
  BY <1>2 DEF freeOnListFree, Allocd, Owned
<1>5. status' = how
  BY <1>3, <1>4 DEF doexit
<1>6. live' = [a \in Addrs |-> IF a \in freeOnListFree THEN 0 ELSE live[a]]
  BY DEF doexit
<1>7. Allocd' = Allocd \ freeOnListFree
  BY <1>6 DEF Allocd, TypeOK, DataType
<1>8. Registry!Close
  BY <1>1, <1>4, <1>5, <1>7 DEF Registry!Close, Allocd, Owned
<1> QED
  BY <1>8 DEF RegistryStep, Registry!Next

----------------------------------------------------------------------------
(* The functions *)

\* Only the blocks that are the program's own may be taken over.
LEMMA RegistersStep ==
  ASSUME IInv, sn_register \/ sn_register_size
  PROVE  RegistryStep
<1>1. status = "running" /\ Core /\ TypeOK /\ CallOK
  BY CoreOf DEF sn_register, sn_register_size, Body
<1>2. CASE Closes(NULL)
  BY <1>1, <1>2, ClosesStep
<1>3. CASE ~Closes(NULL)
  <2>1. call.ptr \in Pointers /\ call.n \in Nat
    BY <1>1 DEF TypeOK, ControlType
  <2>2. Owned = Allocd \ foreign /\ foreign \subseteq Allocd
    BY <1>1 DEF Core, OwnedOnce, Allocd, Owned
  <2>3. /\ \E n \in Nat : linked_list_push(call.ptr, n, NULL)
        /\ live' = live
        /\ call.ptr # NULL => call.ptr \in foreign
    <3>1. CASE sn_register
      BY <1>1, <3>1 DEF sn_register, Body, CallOK
    <3>2. CASE sn_register_size
      <4>1. /\ call.ptr # NULL /\ ~linked_list_hasPtr(call.ptr) /\ call.op = "sn_register_size"
            /\ linked_list_push(call.ptr, call.n, NULL)
            /\ UNCHANGED <<live, cache, flags, global_memory_usage, error_code>>
        <5>1. /\ ~Ends(error_code, NULL, linked_list_getByPtr(call.ptr))
              /\ \A code : ~sn_error(code, NULL)
          BY <1>3, ClosesForms DEF Closes
        <5> QED
          BY <3>2, <5>1, Zenon DEF sn_register_size, Body
      <4>2. call.ptr \notin Tracked
        BY <1>1, <4>1, FoundByPtr DEF linked_list_hasPtr
      <4> QED
        BY <1>1, <2>1, <4>1, <4>2 DEF CallOK
    <3> QED
      BY <3>1, <3>2
  <2>4. \/ status' = "running" /\ Tracked' = Tracked \cup {call.ptr}
        \/ status' = "aborted" /\ Tracked' = Tracked
    BY <1>1, <2>1, <2>3, PushTracks
  <2>5. CASE status' = "aborted" /\ Tracked' = Tracked
    <3>1. {} \in SUBSET Addrs
      OBVIOUS
    <3>2. Registry!Die
      BY <2>3, <2>5, <3>1 DEF Registry!Die
    <3> QED
      BY <1>1, <3>2 DEF RegistryStep, Registry!Next
  <2>6. CASE status' = "running" /\ Tracked' = Tracked \cup {call.ptr} /\ call.ptr = NULL
    <3>1. Owned' = Owned
      BY <2>6 DEF Owned
    <3> QED
      BY <1>1, <2>3, <2>6, <3>1 DEF RegistryStep, Registry!registryVars, Owned
  <2>7. CASE status' = "running" /\ Tracked' = Tracked \cup {call.ptr} /\ call.ptr # NULL
    <3>1. call.ptr \in Allocd \ Owned /\ Owned' = Owned \cup {call.ptr} /\ call.ptr \in Addrs
      BY <2>2, <2>3, <2>7 DEF Owned, Allocd
    <3>2. PICK a \in Addrs : a = call.ptr
      BY <3>1
    <3>3. Registry!Adopt(a)
      BY <2>3, <3>1, <3>2 DEF Registry!Adopt, Owned, Allocd
    <3> QED
      BY <1>1, <2>7, <3>3 DEF RegistryStep, Registry!Next
  <2> QED
    BY <2>4, <2>5, <2>6, <2>7
<1> QED
  BY <1>2, <1>3

LEMMA MallocsStep ==
  ASSUME IInv, sn_malloc \/ sn_calloc \/ sn_query_static_metadata_copy
  PROVE  RegistryStep
<1>0. TypeOK /\ Core
  BY CoreOf
<1>1. CASE sn_malloc
  <2>1. status = "running" /\ \E bytes \in Nat : Malloc(bytes, NULL)
    BY <1>1, InputAssumption DEF sn_malloc, Begin, Idle
  <2> QED
    BY <1>0, <2>1, MallocStep
<1>2. CASE sn_calloc
  <2>1. status = "running"
    BY <1>2 DEF sn_calloc, Begin, Idle
  <2>2. PICK num \in Nums, bytes \in Sizes :
          \/ \E code : sn_error(code, NULL)
          \/ bytes * num # 0 /\ Allocated(bytes * num, bytes, NULL)
    BY <1>2 DEF sn_calloc
  <2>3. num \in Nat /\ bytes \in Nat
    BY InputAssumption
  <2>4. bytes * num \in Nat
    BY <2>3
  <2> QED
    BY <1>0, <2>1, <2>2, <2>3, <2>4, ClosesForms, ClosesStep, AllocatedStep
<1>3. CASE sn_query_static_metadata_copy
  <2>1. status = "running"
    BY <1>3 DEF sn_query_static_metadata_copy, Body
  <2>2. \/ Misses(call.ptr) \/ \E code : sn_error(code, NULL)
        \/ call.ptr # NULL /\ Malloc(META, memman_TryCacheHit(call.ptr))
    BY <1>3 DEF sn_query_static_metadata_copy
  <2>3. call.ptr \in Pointers /\ META \in Nat
    BY <1>0, WidthAssumption DEF TypeOK, ControlType
  <2> QED
    BY <1>0, <2>1, <2>2, <2>3, FoundListed, ClosesForms, ClosesStep, MallocStep
<1> QED
  BY <1>1, <1>2, <1>3

LEMMA FreeStep ==
  ASSUME IInv, sn_free
  PROVE  RegistryStep
<1>1. status = "running" /\ TypeOK /\ Core
  BY CoreOf DEF sn_free, Begin, Idle
<1>2. CASE \E code : sn_error(code, NULL)
  BY <1>1, <1>2, ClosesForms, ClosesStep
<1>3. CASE ~(\E code : sn_error(code, NULL))
  <2>1. PICK ptr \in Pointers : ptr # NULL /\ Lookup(ptr) # NULL /\ FreeBlock(ptr)
    BY <1>3, Zenon DEF sn_free
  <2>2. ptr \in Addrs /\ ptr \in Owned
    BY <1>1, <2>1, LookupListed DEF Pointers, Core, Owned, Tracked
  <2>3. Core' /\ foreign' = foreign
    BY <1>1, <2>1, <2>2, FreeKeeps DEF FreeBlock
  <2>4. data[Lookup(ptr)] = ptr /\ Lookup(ptr) \in Listed
    BY <1>1, <2>1, <2>2, LookupListed DEF Core
  <2>5. Allocd' = Allocd \ {ptr}
    <3>1. live' = [a \in Addrs |-> IF a = data[Lookup(ptr)] THEN 0 ELSE live[a]]
      BY <2>1 DEF FreeBlock
    <3> QED
      BY <1>1, <2>4, <3>1 DEF Allocd, TypeOK, DataType
  <2>6. status' = "running"
    <3>1. status' \in {"running", "undefined"}
      BY <2>1 DEF FreeBlock
    <3> QED
      BY <2>3, <3>1 DEF Core, NeverUndefined
  <2>7. Owned' = Owned \ {ptr}
    BY <1>1, <2>3, <2>5, <2>6 DEF Core, OwnedOnce, Allocd, Owned
  <2>8. Registry!Release(ptr)
    BY <2>2, <2>5, <2>7 DEF Registry!Release, Allocd, Owned
  <2> QED
    BY <1>1, <2>2, <2>6, <2>8 DEF RegistryStep, Registry!Next
<1> QED
  BY <1>2, <1>3

\* A block that moves is one block all along: the old address is given back
\* and the new one tracked in the same step.
LEMMA ReallocStep ==
  ASSUME SafeClient, IInv, sn_realloc
  PROVE  RegistryStep
<1>1. status = "running" /\ TypeOK /\ Core /\ CacheUnused
  BY CoreOf DEF sn_realloc, Begin, Idle
<1>2. PICK ptr \in Pointers, new_size \in Sizes :
        \/ \E code : sn_error(code, NULL)
        \/ /\ ptr # NULL
           /\ \E code : Ends(code, linked_list_getByPtr(ptr), linked_list_getByPtr(ptr))
        \/ /\ ptr # NULL /\ linked_list_getByPtr(ptr) # NULL /\ new_size # 0
           /\ Resize(ptr, linked_list_getByPtr(ptr), new_size)
  BY Zenon DEF sn_realloc
<1> DEFINE e == linked_list_getByPtr(ptr)
<1>3. CASE (\E code : sn_error(code, NULL)) \/ (ptr # NULL /\ \E code : Ends(code, e, e))
  <2>1. Closes(NULL) \/ (ptr # NULL /\ Closes(e))
    BY <1>3, ClosesForms DEF Closes
  <2> QED
    BY <1>1, <2>1, FoundListed, ClosesStep
<1>4. CASE ptr # NULL /\ e # NULL /\ new_size # 0 /\ Resize(ptr, e, new_size)
  <2>1. e \in Listed /\ data[e] = ptr /\ ptr \in Addrs /\ new_size \in Nat \ {0}
    BY <1>1, <1>4, ByPtrListed, InputAssumption DEF Pointers
  <2>2. Core'
    BY <1>1, <1>4, <2>1, ResizeKeeps
  <2>3. PICK new_ptr \in {ptr} \cup (IF ReallocMayMove THEN FreeAddrs ELSE {}) :
          live' = [live EXCEPT ![ptr] = 0, ![new_ptr] = new_size]
    BY <1>4 DEF Resize
  <2>4. live[ptr] > 0 /\ ptr \in Owned
    BY <1>1, <1>4, <2>1, TrackedBlock DEF Owned, Tracked
  <2>5. status' = "running" /\ foreign' = foreign
    BY <1>4, <2>4 DEF Resize
  <2>6. new_ptr \in Addrs /\ (new_ptr # ptr => live[new_ptr] = 0)
    BY <2>1, <2>3 DEF FreeAddrs
  <2>7. Allocd' = (Allocd \ {ptr}) \cup {new_ptr}
    <3>1. \A a \in Addrs : live'[a] = IF a = new_ptr THEN new_size ELSE IF a = ptr THEN 0 ELSE live[a]
      BY <1>1, <2>1, <2>3, <2>6 DEF TypeOK, DataType
    <3> QED
      BY <2>1, <2>6, <3>1 DEF Allocd
  <2>8. /\ Owned = Allocd \ foreign /\ foreign \subseteq Allocd
        /\ Owned' = Allocd' \ foreign'
    BY <1>1, <2>2, <2>5 DEF Core, OwnedOnce, Allocd, Owned
  <2>9. CASE new_ptr = ptr
    <3>1. Allocd' = Allocd /\ Owned' = Owned
      BY <2>4, <2>5, <2>7, <2>8, <2>9
    <3> QED
      BY <1>1, <2>5, <3>1 DEF RegistryStep, Registry!registryVars, Allocd, Owned
  <2>10. CASE new_ptr # ptr
    <3>1. new_ptr \notin Allocd
      BY <2>6, <2>10 DEF Allocd
    <3>2. Owned' = (Owned \ {ptr}) \cup {new_ptr}
      BY <2>4, <2>5, <2>7, <2>8, <3>1
    <3>3. Registry!Move(ptr, new_ptr)
      BY <2>4, <2>7, <3>1, <3>2 DEF Registry!Move, Allocd, Owned
    <3> QED
      BY <1>1, <2>1, <2>5, <2>6, <3>3 DEF RegistryStep, Registry!Next
  <2> QED
    BY <2>9, <2>10
<1> QED
  BY <1>2, <1>3, <1>4

LEMMA CachePutStep ==
  ASSUME IInv, sn_request_to_fast_cache
  PROVE  RegistryStep
<1>1. status = "running" /\ TypeOK /\ Core
  BY CoreOf DEF sn_request_to_fast_cache, Begin, Idle
<1>2. PICK ptr \in Pointers :
        \/ \E code : sn_error(code, NULL)
        \/ /\ ptr # NULL /\ linked_list_getByPtr(ptr) # NULL
           /\ memman_tryCachePut(linked_list_getByPtr(ptr))
  BY Zenon DEF sn_request_to_fast_cache
<1> DEFINE e == linked_list_getByPtr(ptr)
<1>3. CASE \E code : sn_error(code, NULL)
  BY <1>1, <1>3, ClosesForms, ClosesStep
<1>4. CASE ~(\E code : sn_error(code, NULL))
  <2>1. e \in Listed /\ memman_tryCachePut(e)
    BY <1>1, <1>2, <1>4, ByPtrListed
  <2>2. Closes(e) \/ doexit("crashed") \/ UNCHANGED <<heap, list, data, status>>
    BY <2>1 DEF memman_tryCachePut, Closes
  <2> QED
    BY <1>1, <2>1, <2>2, ClosesStep, ExitStep, StutterStep DEF heap
<1> QED
  BY <1>3, <1>4

LEMMA AppMallocStep ==
  ASSUME IInv, app_malloc
  PROVE  RegistryStep
<1>1. status = "running" /\ TypeOK
  BY CoreOf DEF app_malloc, Begin, Idle
<1>2. PICK a \in FreeAddrs, n \in Sizes \ {0} : live' = [live EXCEPT ![a] = n]
  BY DEF app_malloc
<1>3. UNCHANGED <<list, data, status>>
  BY DEF app_malloc, entry
<1>4. a \in Addrs /\ live[a] = 0 /\ n \in Nat \ {0}
  BY InputAssumption DEF FreeAddrs
<1>5. Allocd' = Allocd \cup {a} /\ a \notin Allocd /\ Owned' = Owned
  BY <1>1, <1>2, <1>3, <1>4 DEF Allocd, Owned, Tracked, Listed, TypeOK, DataType
<1>6. Registry!Elsewhere(a)
  BY <1>5 DEF Registry!Elsewhere, Allocd, Owned
<1> QED
  BY <1>1, <1>3, <1>4, <1>6 DEF RegistryStep, Registry!Next

\* Queries, settings, marks and the worker, which leave the blocks alone.
LEMMA QuietStep ==
  ASSUME IInv, IInv',
         \/ \E op \in WorkCalls : Enter(op)
         \/ memman_CacheAlgorithmWorker
         \/ sn_query_size \/ sn_calculate_checksum \/ sn_is_tracked_block
         \/ \E op \in PtrQueries : QueryField(op)
         \/ sn_set_block_id \/ sn_query_block_id \/ sn_query_thread_memory_usage
         \/ sn_query_static_metadata
         \/ sn_do_auto_free_at_exit \/ sn_set_alloc_limit
         \/ sn_lock_fast_cache \/ sn_unlock_fast_cache
         \/ sn_do_fast_caching \/ sn_fast_cache_clear
         \/ sn_reset_last_error \/ Terminated
  PROVE  RegistryStep
<1>1. UNCHANGED <<live, list, data>>
  <2>1. \A e : Closes(e) => UNCHANGED <<live, list, data>>
    BY DEF Closes, Ends, heap
  <2>2. /\ \A op : Enter(op) => UNCHANGED <<live, list, data>>
        /\ memman_CacheAlgorithmWorker \/ sn_query_static_metadata => UNCHANGED <<live, list, data>>
    BY DEF Enter, memman_CacheAlgorithmWorker, sn_query_static_metadata, heap, entry
  <2>3. sn_set_block_id \/ sn_query_block_id => UNCHANGED <<live, list, data>>
    <3>1. Misses(call.ptr) \/ (\E code : sn_error(code, NULL)) => UNCHANGED <<live, list, data>>
      BY <2>1, ClosesForms
    <3> QED
      BY <3>1 DEF sn_set_block_id, sn_query_block_id, heap
  <2>4. \/ sn_do_auto_free_at_exit \/ sn_set_alloc_limit \/ sn_lock_fast_cache
        \/ sn_unlock_fast_cache \/ sn_do_fast_caching \/ sn_fast_cache_clear
        \/ sn_reset_last_error \/ Terminated
        => UNCHANGED <<live, list, data>>
    BY DEF sn_do_auto_free_at_exit, sn_set_alloc_limit, sn_lock_fast_cache, sn_unlock_fast_cache,
           sn_do_fast_caching, sn_fast_cache_clear, sn_reset_last_error, Terminated, vars, heap, entry
  <2> QED
    BY <2>1, <2>2, <2>3, <2>4, QueryAnswers, Zenon
<1>2. status' = status
  <2>1. NeverUndefined'
    BY DEF IInv
  <2>2. \A e : Closes(e) => status' \in {"running", "undefined"}
    BY DEF Closes, Ends, Reads
  <2>3. sn_set_block_id \/ sn_query_block_id => status' \in {"running", "undefined"} /\ status = "running"
    <3>1. Misses(call.ptr) \/ (\E code : sn_error(code, NULL)) => status' \in {"running", "undefined"}
      BY <2>2, ClosesForms
    <3> QED
      BY <3>1 DEF sn_set_block_id, sn_query_block_id, Reads, Body
  <2>4. \/ sn_query_size \/ (\E op \in PtrQueries : QueryField(op))
        \/ sn_calculate_checksum \/ sn_is_tracked_block \/ sn_query_thread_memory_usage
        => status' \in {"running", "undefined"} /\ status = "running"
    BY <2>2, QueryAnswers DEF Body
  <2>5. (\E op \in WorkCalls : Enter(op)) \/ sn_query_static_metadata => status' = status
    BY DEF Enter, sn_query_static_metadata
  <2>6. \/ memman_CacheAlgorithmWorker \/ sn_fast_cache_clear
        => status' \in {status, "running", "undefined"} /\ status = "running"
    BY DEF memman_CacheAlgorithmWorker, sn_fast_cache_clear, Reads, Begin, Idle
  <2>7. \/ sn_do_auto_free_at_exit \/ sn_set_alloc_limit \/ sn_lock_fast_cache
        \/ sn_unlock_fast_cache \/ sn_do_fast_caching \/ sn_reset_last_error \/ Terminated
        => status' = status
    BY DEF sn_do_auto_free_at_exit, sn_set_alloc_limit, sn_lock_fast_cache, sn_unlock_fast_cache,
           sn_do_fast_caching, sn_reset_last_error, Terminated, vars
  <2> QED
    BY <2>1, <2>3, <2>4, <2>5, <2>6, <2>7 DEF NeverUndefined
<1> QED
  BY <1>1, <1>2, StutterStep

----------------------------------------------------------------------------
(* The refinement *)

LEMMA RegistryInit == Init => Registry!Init
<1> SUFFICES ASSUME Init PROVE Registry!Init
  OBVIOUS
<1>1. Tracked = {} /\ Allocd = {}
  BY DEF Init, Tracked, Listed, Allocd
<1> QED
  BY <1>1 DEF Init, Registry!Init, Allocd

LEMMA RegistryNext ==
  ASSUME SafeClient
  PROVE  IInv /\ IInv' /\ [Next]_vars => RegistryStep
<1> SUFFICES ASSUME IInv, IInv', [Next]_vars PROVE RegistryStep
  OBVIOUS
<1>1. CASE UNCHANGED vars
  BY <1>1, StutterStep DEF vars, heap, entry
<1>2. CASE library_cleanup
  BY <1>2, CoreOf, ExitStep DEF library_cleanup, Begin, Idle
<1>3. CASE ~UNCHANGED vars /\ ~library_cleanup
  BY <1>3, RegistersStep, MallocsStep, FreeStep, ReallocStep, CachePutStep, AppMallocStep, QuietStep, Zenon
     DEF Next
<1> QED
  BY <1>1, <1>2, <1>3

\* The library implements BlockRegistry: sn_malloc and its kin track exactly
\* the block they allocate, the register functions take over a block of the
\* program, sn_free gives back exactly the block that leaves the list,
\* sn_realloc replaces one by the other, and nothing else is given to libc
\* until the process leaves.
THEOREM Refinement ==
  ASSUME SafeClient
  PROVE  Spec => Implements
<1>1. IInv /\ IInv' /\ [Next]_vars => [Registry!Next]_(Registry!registryVars)
  BY RegistryNext DEF RegistryStep
<1> QED
  BY <1>1, RegistryInit, Safety, PTL DEF Spec, Implements, Registry!Spec

============================================================================
