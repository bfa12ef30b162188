----------------------------- MODULE SafetyNet -----------------------------
(***************************************************************************)
(* The library seen from one thread: the tracking list (mem_list), the     *)
(* memory manager with its fast cache and its accounting, and the public   *)
(* functions of src/src that work on them, over libc's heap.               *)
(*                                                                         *)
(* With one thread the mutexes are transparent and a call is atomic, but   *)
(* for memman_work: the functions that start with it visit the entries one *)
(* worker step at a time (walk) before their own body runs.                *)
(*                                                                         *)
(* The list is the sequence of its entries; its links are left out.        *)
(* An entry is named by its address and a new entry may reuse the address  *)
(* of a destroyed one, as a new block may reuse the address of a freed one.*)
(* Reading a destroyed entry or freeing a block that is not allocated is   *)
(* undefined behaviour: status becomes "undefined" and the model stops.    *)
(*                                                                         *)
(* An operator named Faulty_X is X with a mistake that code could have had;*)
(* nothing uses it.  It documents, for a property, a mistake it notices.   *)
(***************************************************************************)
EXTENDS Integers, Sequences, FiniteSetsExt

CONSTANTS
  Addrs,          \* addresses libc's allocator hands out for blocks
  Entries,        \* addresses it hands out for linked_list_entry_t
  NULL,
  MAX_SLOTS,      \* MEMMAN_MAX_CACHE_SLOTS (5)
  HOT,            \* the weight 10 of memman_CacheAlgorithmWorker
  BYTE,           \* 2^8: width of _weight and available_cache_slots
  SIZE_MOD,       \* 2^64: width of size_t
  MaxUsage,       \* bound: the largest sum a charge of global_memory_usage forms
  Sizes, Nums,    \* sizes and element counts the program asks for
  Ids,            \* block ids it uses
  Limits,         \* allocation limits it sets
  META,           \* sizeof(sn_mem_metadata_t)
  Calls,          \* the library functions it calls
  ReallocMayMove  \* whether realloc may return another address

ASSUME NullAssumption == NULL \notin Addrs /\ NULL \notin Entries
ASSUME WidthAssumption ==
  /\ BYTE \in Nat \ {0} /\ SIZE_MOD \in Nat \ {0}
  /\ MAX_SLOTS \in 0..(BYTE - 1) /\ HOT \in Nat /\ META \in 1..(SIZE_MOD - 1)
ASSUME InputAssumption ==
  /\ Sizes \subseteq 0..(SIZE_MOD - 1) /\ Nums \subseteq 0..(SIZE_MOD - 1)
  /\ Limits \subseteq 0..(SIZE_MOD - 1) /\ Ids \subseteq Nat
  /\ MaxUsage \in Nat /\ ReallocMayMove \in BOOLEAN

VARIABLES
  live,     \* libc: bytes of the block at each address, 0 where there is none
  foreign,  \* blocks the program got from libc itself and did not register
  list,     \* mem_list from firstEntry to lastEntry
  data, size, cached, block_id, weight,   \* the fields of each entry
  lastAccess,                             \* the entry a search of mem_list last noted
  key, value,                             \* memory_manager->cache_list
  available_cache_slots, cache_lock, use_cache,
  alloc_limit, global_memory_usage,
  error_code,
  doFree,   \* free what is still tracked at exit
  call,     \* the function inside memman_work, with its arguments
  walk,     \* index in list of the next entry memman_work visits
  status    \* how the process is doing

heap == <<live, foreign>>
entry == <<data, size, cached, block_id, weight, lastAccess>>
cache == <<key, value, available_cache_slots>>
flags == <<cache_lock, use_cache, alloc_limit, doFree>>
control == <<call, walk>>
vars == <<heap, list, entry, cache, flags, global_memory_usage, error_code, control, status>>

----------------------------------------------------------------------------
(* Data *)

Slots == 1..MAX_SLOTS
NoCall == [op |-> "none", ptr |-> NULL, n |-> 0]

Pointers == Addrs \cup {NULL}
Listed == {list[i] : i \in DOMAIN list}
Tracked == {data[e] : e \in Listed}
FreeAddrs == {a \in Addrs : live[a] = 0}

\* Functions that start with memman_work, by the arguments they take
PtrQueries == {"sn_query_size", "sn_query_tid", "sn_get_block_id", "sn_query_metadata",
               "sn_query_static_metadata", "sn_calculate_checksum", "sn_is_tracked_block"}
WorkCalls == PtrQueries \cup {"sn_register", "sn_register_size", "sn_set_block_id",
                              "sn_query_block_id", "sn_query_thread_memory_usage"}
CacheFilling == WorkCalls \cup {"sn_request_to_fast_cache"}

Errors == {"SN_ERR_OK", "SN_ERR_NULL_PTR", "SN_ERR_BAD_SIZE", "SN_ERR_BAD_ALLOC",
           "SN_ERR_NO_ADDER_FOUND", "SN_ERR_BAD_BLOCK_ID", "SN_ERR_ALLOC_LIMIT_HIT",
           "SN_ERR_FILE_PRE_EXIST", "SN_ERR_FILE_IO", "SN_ERR_FILE_NOT_EXIST"}

----------------------------------------------------------------------------
(* Lookups: what the code computes without changing anything *)

\* linked_list_forEach with linked_list_searchForPointer: the first match
linked_list_searchForPointer(p) ==
  LET I == {i \in DOMAIN list : data[list[i]] = p}
  IN  IF I = {} THEN 0 ELSE Min(I)

EntryAt(i) == IF i = 0 THEN NULL ELSE list[i]

linked_list_getByPtr(p) == EntryAt(linked_list_searchForPointer(p))

linked_list_searchForId(id) ==
  LET I == {i \in DOMAIN list : block_id[list[i]] = id}
  IN  EntryAt(IF I = {} THEN 0 ELSE Min(I))

\* The search starts at the second entry.
Faulty_hasPtr(p) == \E i \in 2..Len(list) : data[list[i]] = p

linked_list_hasPtr(p) == linked_list_searchForPointer(p) # 0

\* The first entry that comes after k is unlinked instead.
Faulty_removeEntry(k) ==
  IF k = 0 THEN list
  ELSE [i \in 1..(Len(list) - 1) |-> IF i <= k THEN list[i] ELSE list[i + 1]]

\* The list without its k-th entry
linked_list_removeEntry(k) ==
  IF k = 0 THEN list
  ELSE [i \in 1..(Len(list) - 1) |-> IF i < k THEN list[i] ELSE list[i + 1]]

\* A field of the entries after e was destroyed
Cleared(field, e, zero) == [x \in Entries |-> IF x = e THEN zero ELSE field[x]]

\* The slot memman_TryCacheHit stops at, 0 on a miss
HitSlot(p) ==
  LET I == {i \in Slots : key[i] = p}
  IN  IF ~use_cache \/ I = {} THEN 0 ELSE Min(I)

memman_TryCacheHit(p) == IF HitSlot(p) = 0 THEN NULL ELSE value[HitSlot(p)]

\* The slot memman_TryCacheHitById stops at, 0 on a miss
HitByIdSlot(id) ==
  LET I == {i \in Slots : value[i] # NULL /\ block_id[value[i]] = id}
  IN  IF ~use_cache \/ I = {} THEN 0 ELSE Min(I)

\* The lookup of sn_free: the cache first, then the list
Lookup(p) ==
  IF memman_TryCacheHit(p) # NULL THEN memman_TryCacheHit(p) ELSE linked_list_getByPtr(p)

\* Slots whose value memman_TryCacheHitById reads
ReadForId(id) ==
  IF ~use_cache THEN {}
  ELSE {i \in Slots : value[i] # NULL /\ (HitByIdSlot(id) = 0 \/ i <= HitByIdSlot(id))}

\* The loop stops at the first slot.
Faulty_cacheInvalidate(p) ==
  {i \in Slots : key[i] = p /\ \A j \in Slots : key[j] = p => i <= j}

\* The slots memman_cacheInvalidate empties: the worker may have put an
\* entry in more than one.
memman_cacheInvalidate(p) == {i \in Slots : key[i] = p}

\* This is memman_canAllocateBasedOnLimit: the request itself is not counted.
Faulty_canAllocate(bytes) == alloc_limit = 0 \/ alloc_limit > global_memory_usage

\* The sum wraps, as size_t does.
memman_canAllocateBasedOnLimitAndSize(bytes) ==
  alloc_limit = 0 \/ alloc_limit > (global_memory_usage + bytes) % SIZE_MOD

\* The weight is wider than the byte it is stored in.
Faulty_Touch(e) == IF e = NULL THEN weight ELSE [weight EXCEPT ![e] = @ + 1]

\* Both lookups increment the weight of what they return.
Touch(e) == IF e = NULL THEN weight ELSE [weight EXCEPT ![e] = (@ + 1) % BYTE]

\* lastAccess after a search of the list that found e, or nothing
Noted(e) == IF e = NULL THEN lastAccess ELSE e

----------------------------------------------------------------------------
(* Steps shared by the functions *)

Idle == status = "running" /\ call = NoCall

\* A function without memman_work is called.
Begin(op) == Idle /\ op \in Calls /\ UNCHANGED control

\* The body of a function after its memman_work
Body(op) ==
  /\ status = "running" /\ call.op = op /\ walk > Len(list)
  /\ call' = NoCall /\ walk' = 0

\* The entries of S are read; a destroyed one is not there to be read.
Reads(S) == status' = IF S \subseteq Listed THEN "running" ELSE "undefined"

\* The call ends and has changed nothing but the weight of the entry e it
\* found, error_code and lastAccess.
Ends(code, e, last) ==
  /\ error_code' = code /\ lastAccess' = last
  /\ weight' = Touch(e)
  /\ Reads({e} \ {NULL})
  /\ UNCHANGED <<heap, list, data, size, cached, block_id, cache, flags, global_memory_usage>>

\* sn_error(code) before anything was looked up, or after a hit in the cache
sn_error(code, hit) == Ends(code, hit, lastAccess)

\* The call returns after a hit in the cache.
Answer(hit) == Ends(error_code, hit, lastAccess)

\* A search of the list ends the call: e is what it found.
Searched(e) == Ends(IF e = NULL THEN "SN_ERR_NO_ADDER_FOUND" ELSE error_code, e, Noted(e))

\* sn_crash(SN_ERR_CATASTROPHIC)
Abort == status' = "aborted"

\* A new entry at the end, after the weight of `touched` was raised, or the
\* end of the process when there is no memory for it.
linked_list_push(p, bytes, touched) ==
  \/ \E e \in Entries \ Listed :
       /\ list' = Append(list, e)
       /\ data' = [data EXCEPT ![e] = p] /\ size' = [size EXCEPT ![e] = bytes]
       /\ cached' = [cached EXCEPT ![e] = 0] /\ block_id' = [block_id EXCEPT ![e] = 0]
       /\ weight' = [Touch(touched) EXCEPT ![e] = 0] /\ UNCHANGED lastAccess
       /\ Reads({touched} \ {NULL})
  \/ Abort /\ UNCHANGED <<list, entry>>

\* The walk stops before the last entry.
Faulty_freeOnListFree ==
  IF doFree THEN {data[list[i]] : i \in 1..(Len(list) - 1)} \ {NULL} ELSE {}

\* The blocks the walk of the destructor frees
freeOnListFree == IF doFree THEN Tracked \ {NULL} ELSE {}

\* The process leaves through exit: the library destructor frees what is
\* tracked, unless told not to, and destroys the list and the manager.
doexit(how) ==
  LET freed == freeOnListFree
      once == \A i, j \in DOMAIN list : data[list[i]] = data[list[j]] /\ data[list[i]] # NULL => i = j
  IN  /\ live' = [a \in Addrs |-> IF a \in freed THEN 0 ELSE live[a]]
      /\ status' = IF (\A a \in freed : live[a] > 0) /\ (doFree => once) THEN how ELSE "undefined"
      /\ list' = << >>
      /\ key' = [i \in Slots |-> NULL] /\ value' = [i \in Slots |-> NULL]
      /\ UNCHANGED <<foreign, entry, available_cache_slots, flags, global_memory_usage>>

----------------------------------------------------------------------------
(* memman_work *)

Init ==
  /\ live = [a \in Addrs |-> 0]
  /\ foreign = {}
  /\ list = << >>
  /\ data = [e \in Entries |-> NULL]
  /\ size = [e \in Entries |-> 0] /\ cached = [e \in Entries |-> 0]
  /\ block_id = [e \in Entries |-> 0] /\ weight = [e \in Entries |-> 0]
  /\ lastAccess = NULL
  /\ key = [i \in Slots |-> NULL] /\ value = [i \in Slots |-> NULL]
  /\ available_cache_slots = MAX_SLOTS
  /\ cache_lock = FALSE /\ use_cache = TRUE
  /\ alloc_limit = 0 /\ global_memory_usage = 0
  /\ error_code = "SN_ERR_OK"
  /\ doFree = TRUE
  /\ call = NoCall /\ walk = 0
  /\ status = "running"

\* What the program may pass: any pointer and any id to a query, but only
\* blocks of its own, or tracked ones with sn_register_size, to a register call.
Arguments(op) ==
  CASE op \in PtrQueries -> Pointers \X {0}
    [] op = "sn_register" -> (foreign \cup {NULL}) \X {0}
    [] op = "sn_register_size" ->
         {x \in (foreign \cup Tracked \cup {NULL}) \X Sizes : x[1] # NULL => x[2] <= live[x[1]]}
    [] op = "sn_set_block_id" -> Pointers \X Ids
    [] op = "sn_query_block_id" -> {NULL} \X Ids
    [] OTHER -> {<<NULL, 0>>}

\* A function that starts with memman_work is called.
Enter(op) ==
  /\ Idle /\ op \in Calls
  /\ \E x \in Arguments(op) : call' = [op |-> op, ptr |-> x[1], n |-> x[2]]
  /\ walk' = 1
  /\ UNCHANGED <<heap, list, entry, cache, flags, global_memory_usage, error_code, status>>

\* The worker on one entry: a cold entry takes the first slot that is empty
\* or holds a cold one.  Neither cache_lock nor use_cache is looked at, and
\* available_cache_slots stays.
memman_CacheAlgorithmWorker ==
  /\ status = "running" /\ call # NoCall /\ walk <= Len(list)
  /\ walk' = walk + 1
  /\ LET ctx == list[walk]
         reset == [weight EXCEPT ![ctx] = 0]
         yields(i) == value[i] = NULL \/ reset[value[i]] < HOT
         taken == {i \in Slots : yields(i) /\ \A j \in Slots : j < i => ~yields(j)}
     IN  IF weight[ctx] > HOT
         THEN UNCHANGED <<cached, weight, key, value, status>>
         ELSE /\ weight' = reset
              /\ cached' = [cached EXCEPT ![ctx] = 1]
              /\ key' = [i \in Slots |-> IF i \in taken THEN data[ctx] ELSE key[i]]
              /\ value' = [i \in Slots |-> IF i \in taken THEN ctx ELSE value[i]]
              /\ Reads({value[i] : i \in {j \in Slots : \A k \in taken : j <= k}} \ {NULL})
  /\ UNCHANGED <<heap, list, data, size, block_id, lastAccess, available_cache_slots, flags,
                 global_memory_usage, error_code, call>>

----------------------------------------------------------------------------
(* sn_metadata.c: the bodies that follow memman_work *)

sn_query_size ==
  /\ Body("sn_query_size")
  /\ \/ call.ptr = NULL /\ sn_error("SN_ERR_NULL_PTR", NULL)
     \/ call.ptr # NULL /\ Searched(linked_list_getByPtr(call.ptr))

\* After a miss in the cache the other queries search the list, and then
\* return 0 or NULL whatever it has: sn_error is two statements, of which an
\* `if` without braces guards the first.
Misses(p) == p # NULL /\ memman_TryCacheHit(p) = NULL /\ Searched(linked_list_getByPtr(p))

\* sn_query_tid, sn_get_block_id and sn_query_metadata differ in the field
\* they return.
QueryField(op) ==
  /\ op \in {"sn_query_tid", "sn_get_block_id", "sn_query_metadata"}
  /\ Body(op)
  /\ LET hit == memman_TryCacheHit(call.ptr)
     IN  \/ call.ptr = NULL /\ sn_error("SN_ERR_NULL_PTR", NULL)
         \/ Misses(call.ptr)
         \/ call.ptr # NULL /\ hit # NULL /\ Answer(hit)

\* A block registered without a size has no checksum.
sn_calculate_checksum ==
  /\ Body("sn_calculate_checksum")
  /\ LET hit == memman_TryCacheHit(call.ptr)
     IN  \/ call.ptr = NULL /\ sn_error("SN_ERR_NULL_PTR", NULL)
         \/ Misses(call.ptr)
         \/ call.ptr # NULL /\ hit # NULL /\ size[hit] = 0 /\ sn_error("SN_ERR_BAD_SIZE", hit)
         \/ call.ptr # NULL /\ hit # NULL /\ size[hit] # 0 /\ Answer(hit)

\* The list is searched after a hit in the cache only.
sn_is_tracked_block ==
  /\ Body("sn_is_tracked_block")
  /\ LET hit == memman_TryCacheHit(call.ptr)
     IN  \/ call.ptr = NULL /\ sn_error("SN_ERR_NULL_PTR", NULL)
         \/ call.ptr # NULL /\ hit = NULL /\ Answer(NULL)
         \/ /\ call.ptr # NULL /\ hit # NULL
            /\ Ends(error_code, hit, Noted(linked_list_getByPtr(call.ptr)))

\* After a miss in the cache no id is set.
sn_set_block_id ==
  /\ Body("sn_set_block_id")
  /\ LET hit == memman_TryCacheHit(call.ptr)
     IN  \/ call.ptr = NULL /\ sn_error("SN_ERR_NULL_PTR", NULL)
         \/ call.ptr # NULL /\ call.n <= 20 /\ sn_error("SN_ERR_BAD_BLOCK_ID", NULL)
         \/ call.n > 20 /\ Misses(call.ptr)
         \/ /\ call.ptr # NULL /\ call.n > 20 /\ hit # NULL
            /\ weight' = Touch(hit)
            /\ block_id' = [block_id EXCEPT ![hit] = call.n]
            /\ Reads({hit})
            /\ UNCHANGED <<heap, list, data, size, cached, lastAccess, cache, flags,
                           global_memory_usage, error_code>>

\* Only a hit in the cache, which adds no weight, is answered.
sn_query_block_id ==
  /\ Body("sn_query_block_id")
  /\ LET hit == HitByIdSlot(call.n)
         e == linked_list_searchForId(call.n)
     IN  \/ call.n = 0 /\ sn_error("SN_ERR_BAD_BLOCK_ID", NULL)
         \/ /\ call.n # 0
            /\ weight' = IF hit = 0 THEN Touch(e) ELSE weight
            /\ lastAccess' = IF hit = 0 THEN Noted(e) ELSE lastAccess
            /\ error_code' = IF hit = 0 /\ e = NULL THEN "SN_ERR_NO_ADDER_FOUND" ELSE error_code
            /\ Reads({value[i] : i \in ReadForId(call.n)})
            /\ UNCHANGED <<heap, list, data, size, cached, block_id, cache, flags, global_memory_usage>>

sn_query_thread_memory_usage == Body("sn_query_thread_memory_usage") /\ Answer(NULL)

\* No check at all: the size is 0, and NULL is tracked like any pointer.
sn_register ==
  /\ Body("sn_register")
  /\ foreign' = foreign \ {call.ptr}
  /\ linked_list_push(call.ptr, 0, NULL)
  /\ UNCHANGED <<live, cache, flags, global_memory_usage, error_code>>

\* The block is not charged to global_memory_usage.
sn_register_size ==
  /\ Body("sn_register_size")
  /\ LET known == linked_list_hasPtr(call.ptr)
     IN  \/ call.ptr = NULL /\ sn_error("SN_ERR_NULL_PTR", NULL)
         \/ call.ptr # NULL /\ call.n = 0 /\ sn_error("SN_ERR_BAD_SIZE", NULL)
         \/ /\ call.ptr # NULL /\ call.n # 0 /\ known
            /\ Ends(error_code, NULL, linked_list_getByPtr(call.ptr))
         \/ /\ call.ptr # NULL /\ call.n # 0 /\ ~known
            /\ foreign' = foreign \ {call.ptr}
            /\ linked_list_push(call.ptr, call.n, NULL)
            /\ UNCHANGED <<live, cache, flags, global_memory_usage, error_code>>

----------------------------------------------------------------------------
(* sn_allocator.c *)

\* A block of `bytes` bytes is charged and pushed with the size to record.
Allocated(bytes, recorded, touched) ==
  \E a \in FreeAddrs :
    /\ global_memory_usage + bytes <= MaxUsage
    /\ live' = [live EXCEPT ![a] = bytes]
    /\ global_memory_usage' = (global_memory_usage + bytes) % SIZE_MOD
    /\ linked_list_push(a, recorded, touched)
    /\ UNCHANGED <<foreign, cache, flags, error_code>>

\* The body of sn_malloc.  libc may always be out of memory.
Malloc(bytes, touched) ==
  LET may == memman_canAllocateBasedOnLimitAndSize(bytes)
  IN  \/ bytes = 0 /\ sn_error("SN_ERR_BAD_SIZE", touched)
      \/ bytes # 0 /\ ~may /\ sn_error("SN_ERR_ALLOC_LIMIT_HIT", touched)
      \/ bytes # 0 /\ may /\ sn_error("SN_ERR_BAD_ALLOC", touched)
      \/ bytes # 0 /\ may /\ Allocated(bytes, bytes, touched)

\* sn_malloc_pre_initialized is the same but for the bytes it writes.
sn_malloc == Begin("sn_malloc") /\ \E bytes \in Sizes : Malloc(bytes, NULL)

\* The product is charged and checked modulo SIZE_MOD, libc refuses one that
\* overflows, and the entry records the size of one element.
sn_calloc ==
  /\ Begin("sn_calloc")
  /\ \E num \in Nums, bytes \in Sizes :
       LET may == memman_canAllocateBasedOnLimitAndSize(bytes * num)
       IN  \/ bytes * num = 0 /\ sn_error("SN_ERR_BAD_SIZE", NULL)
           \/ bytes * num # 0 /\ ~may /\ sn_error("SN_ERR_ALLOC_LIMIT_HIT", NULL)
           \/ bytes * num # 0 /\ may /\ sn_error("SN_ERR_BAD_ALLOC", NULL)
           \/ bytes * num # 0 /\ may /\ bytes * num < SIZE_MOD /\ Allocated(bytes * num, bytes, NULL)

\* sn_query_static_metadata calls sn_query_metadata, which runs memman_work
\* again ...
sn_query_static_metadata ==
  /\ status = "running" /\ call.op = "sn_query_static_metadata" /\ call.n = 0
  /\ walk > Len(list)
  /\ walk' = 1 /\ call' = [op |-> call.op, ptr |-> call.ptr, n |-> 1]
  /\ UNCHANGED <<heap, list, entry, cache, flags, global_memory_usage, error_code, status>>

\* ... and copies what that answers to a tracked block.
sn_query_static_metadata_copy ==
  /\ call.n = 1
  /\ Body("sn_query_static_metadata")
  /\ LET hit == memman_TryCacheHit(call.ptr)
     IN  \/ call.ptr = NULL /\ sn_error("SN_ERR_NULL_PTR", NULL)
         \/ Misses(call.ptr)
         \/ call.ptr # NULL /\ hit # NULL /\ Malloc(META, hit)

\* sn_free with an entry found.  The block freed is the one of that entry, the
\* entry destroyed is the first one in the list for ptr.
FreeBlock(ptr) ==
  LET e == Lookup(ptr)
      d == data[e]
      k == linked_list_searchForPointer(ptr)
      keyed == memman_cacheInvalidate(ptr)
      hit == {value[i] : i \in keyed}
  IN  /\ global_memory_usage' = (global_memory_usage - size[e]) % SIZE_MOD
      /\ key' = [i \in Slots |-> IF i \in keyed THEN NULL ELSE key[i]]
      /\ value' = [i \in Slots |-> IF i \in keyed THEN NULL ELSE value[i]]
      /\ available_cache_slots' = (available_cache_slots + Cardinality(keyed)) % BYTE
      /\ live' = [a \in Addrs |-> IF a = d THEN 0 ELSE live[a]]
      /\ status' = IF {e} \cup hit \subseteq Listed /\ (d # NULL => live[d] > 0)
                   THEN "running" ELSE "undefined"
      /\ list' = linked_list_removeEntry(k)
      /\ cached' = [x \in Entries |-> IF x \in hit \cup {EntryAt(k)} THEN 0 ELSE cached[x]]
      /\ data' = Cleared(data, EntryAt(k), NULL)
      /\ size' = Cleared(size, EntryAt(k), 0)
      /\ block_id' = Cleared(block_id, EntryAt(k), 0)
      /\ weight' = Cleared(Touch(e), EntryAt(k), 0)
      /\ lastAccess' = IF memman_TryCacheHit(ptr) = NULL THEN e ELSE lastAccess
      /\ UNCHANGED <<foreign, flags, error_code>>

sn_free ==
  /\ Begin("sn_free")
  /\ \E ptr \in Pointers :
       \/ ptr = NULL /\ sn_error("SN_ERR_NULL_PTR", NULL)
       \/ ptr # NULL /\ Lookup(ptr) = NULL /\ sn_error("SN_ERR_NO_ADDER_FOUND", NULL)
       \/ ptr # NULL /\ Lookup(ptr) # NULL /\ FreeBlock(ptr)

\* The size is only ever raised.
Faulty_setSize(e, new_size) ==
  [size EXCEPT ![e] = IF new_size > @ THEN new_size ELSE @]

linked_list_entry_setSize(e, new_size) == [size EXCEPT ![e] = new_size]

\* sn_realloc once it may: libc resizes the block of entry e, in place or to
\* another address.  The cache is not told.
Resize(ptr, e, new_size) ==
  /\ global_memory_usage - size[e] + new_size <= MaxUsage
  /\ \E new_ptr \in {ptr} \cup (IF ReallocMayMove THEN FreeAddrs ELSE {}) :
       /\ live' = [live EXCEPT ![ptr] = 0, ![new_ptr] = new_size]
       /\ data' = [data EXCEPT ![e] = new_ptr]
  /\ size' = linked_list_entry_setSize(e, new_size)
  /\ weight' = Touch(e) /\ lastAccess' = e
  /\ global_memory_usage' = (global_memory_usage - size[e] + new_size) % SIZE_MOD
  /\ status' = IF live[ptr] > 0 THEN "running" ELSE "undefined"
  /\ UNCHANGED <<foreign, list, cached, block_id, cache, flags, error_code>>

\* The entry is looked up, and its weight raised, before the sizes are checked.
sn_realloc ==
  /\ Begin("sn_realloc")
  /\ \E ptr \in Pointers, new_size \in Sizes :
       LET e == linked_list_getByPtr(ptr)
           may == new_size > size[e] =>
                    memman_canAllocateBasedOnLimitAndSize(new_size - size[e])
       IN  \/ ptr = NULL /\ sn_error("SN_ERR_NULL_PTR", NULL)
           \/ ptr # NULL /\ e = NULL /\ sn_error("SN_ERR_NO_ADDER_FOUND", NULL)
           \/ ptr # NULL /\ e # NULL /\ new_size = 0 /\ Ends("SN_ERR_BAD_SIZE", e, e)
           \/ ptr # NULL /\ e # NULL /\ new_size # 0 /\ ~may /\ Ends("SN_ERR_ALLOC_LIMIT_HIT", e, e)
           \/ ptr # NULL /\ e # NULL /\ new_size # 0 /\ may /\ Ends("SN_ERR_BAD_ALLOC", e, e)
           \/ ptr # NULL /\ e # NULL /\ new_size # 0 /\ may /\ Resize(ptr, e, new_size)

sn_do_auto_free_at_exit ==
  /\ Begin("sn_do_auto_free_at_exit")
  /\ doFree' \in BOOLEAN
  /\ UNCHANGED <<heap, list, entry, cache, cache_lock, use_cache, alloc_limit,
                 global_memory_usage, error_code, status>>

sn_set_alloc_limit ==
  /\ Begin("sn_set_alloc_limit")
  /\ alloc_limit' \in Limits
  /\ UNCHANGED <<heap, list, entry, cache, cache_lock, use_cache, doFree,
                 global_memory_usage, error_code, status>>

----------------------------------------------------------------------------
(* sn_cache.c *)

\* available_cache_slots is trusted: when there is no slot with a NULL key
\* after all, sn_crash(SN_ERR_SYS_FAIL) ends the process through exit.
memman_tryCachePut(e) ==
  LET refused == cache_lock \/ ~use_cache \/ available_cache_slots = 0
      unkeyed == {i \in Slots : key[i] = NULL}
  IN  \/ refused /\ Ends(error_code, e, e)
      \/ /\ ~refused /\ unkeyed # {}
         /\ available_cache_slots' = available_cache_slots - 1
         /\ key' = [key EXCEPT ![Min(unkeyed)] = data[e]]
         /\ value' = [value EXCEPT ![Min(unkeyed)] = e]
         /\ cached' = [cached EXCEPT ![e] = 1]
         /\ weight' = Touch(e) /\ lastAccess' = e
         /\ UNCHANGED <<heap, list, data, size, block_id, flags, global_memory_usage, error_code, status>>
      \/ ~refused /\ unkeyed = {} /\ doexit("crashed") /\ UNCHANGED error_code

sn_request_to_fast_cache ==
  /\ Begin("sn_request_to_fast_cache")
  /\ \E ptr \in Pointers :
       LET e == linked_list_getByPtr(ptr)
       IN  \/ ptr = NULL /\ sn_error("SN_ERR_NULL_PTR", NULL)
           \/ ptr # NULL /\ e = NULL /\ sn_error("SN_ERR_NO_ADDER_FOUND", NULL)
           \/ ptr # NULL /\ e # NULL /\ memman_tryCachePut(e)

sn_lock_fast_cache ==
  /\ Begin("sn_lock_fast_cache")
  /\ cache_lock' = TRUE
  /\ UNCHANGED <<heap, list, entry, cache, use_cache, alloc_limit, doFree,
                 global_memory_usage, error_code, status>>

sn_unlock_fast_cache ==
  /\ Begin("sn_unlock_fast_cache")
  /\ cache_lock' = FALSE
  /\ UNCHANGED <<heap, list, entry, cache, use_cache, alloc_limit, doFree,
                 global_memory_usage, error_code, status>>

sn_do_fast_caching ==
  /\ Begin("sn_do_fast_caching")
  /\ use_cache' \in BOOLEAN
  /\ UNCHANGED <<heap, list, entry, cache, cache_lock, alloc_limit, doFree,
                 global_memory_usage, error_code, status>>

\* memman_cacheClear empties the slots that have a key and marks what was in
\* them as cached.
sn_fast_cache_clear ==
  /\ Begin("sn_fast_cache_clear")
  /\ LET keyed == {i \in Slots : key[i] # NULL}
         hit == {value[i] : i \in keyed}
     IN  /\ cached' = [x \in Entries |-> IF x \in hit THEN 1 ELSE cached[x]]
         /\ available_cache_slots' = (available_cache_slots + Cardinality(keyed)) % BYTE
         /\ key' = [i \in Slots |-> IF i \in keyed THEN NULL ELSE key[i]]
         /\ value' = [i \in Slots |-> IF i \in keyed THEN NULL ELSE value[i]]
         /\ Reads(hit)
  /\ UNCHANGED <<heap, list, data, size, block_id, weight, lastAccess, flags,
                 global_memory_usage, error_code>>

----------------------------------------------------------------------------
(* sn_error.c, the process and the program's own use of libc *)

sn_reset_last_error ==
  /\ Begin("sn_reset_last_error")
  /\ error_code' = "SN_ERR_OK"
  /\ UNCHANGED <<heap, list, entry, cache, flags, global_memory_usage, status>>

library_cleanup == Begin("exit") /\ doexit("exited") /\ UNCHANGED error_code

app_malloc ==
  /\ Begin("app_malloc")
  /\ \E a \in FreeAddrs, n \in Sizes \ {0} :
       live' = [live EXCEPT ![a] = n] /\ foreign' = foreign \cup {a}
  /\ UNCHANGED <<list, entry, cache, flags, global_memory_usage, error_code, status>>

\* A finished process takes no step.
Terminated == status # "running" /\ UNCHANGED vars

Next ==
  \/ \E op \in WorkCalls : Enter(op)
  \/ memman_CacheAlgorithmWorker
  \/ sn_query_size \/ sn_calculate_checksum \/ sn_is_tracked_block
  \/ \E op \in PtrQueries : QueryField(op)
  \/ sn_set_block_id \/ sn_query_block_id \/ sn_query_thread_memory_usage
  \/ sn_register \/ sn_register_size
  \/ sn_query_static_metadata \/ sn_query_static_metadata_copy
  \/ sn_malloc \/ sn_calloc \/ sn_realloc \/ sn_free
  \/ sn_do_auto_free_at_exit \/ sn_set_alloc_limit
  \/ sn_request_to_fast_cache \/ sn_lock_fast_cache \/ sn_unlock_fast_cache
  \/ sn_do_fast_caching \/ sn_fast_cache_clear
  \/ sn_reset_last_error \/ library_cleanup \/ app_malloc \/ Terminated

Spec == Init /\ [][Next]_vars

----------------------------------------------------------------------------
(* Properties *)

DataType ==
  /\ live \in [Addrs -> 0..(SIZE_MOD - 1)] /\ foreign \in SUBSET Addrs
  /\ list \in Seq(Entries)
  /\ data \in [Entries -> Pointers] /\ size \in [Entries -> 0..(SIZE_MOD - 1)]
  /\ cached \in [Entries -> 0..1] /\ block_id \in [Entries -> Nat]
  /\ weight \in [Entries -> 0..(BYTE - 1)] /\ lastAccess \in Entries \cup {NULL}
  /\ key \in [Slots -> Pointers] /\ value \in [Slots -> Entries \cup {NULL}]

ManagerType ==
  /\ available_cache_slots \in 0..(BYTE - 1)
  /\ cache_lock \in BOOLEAN /\ use_cache \in BOOLEAN /\ doFree \in BOOLEAN
  /\ alloc_limit \in 0..(SIZE_MOD - 1) /\ global_memory_usage \in 0..(SIZE_MOD - 1)
  /\ error_code \in Errors
  /\ status \in {"running", "exited", "crashed", "aborted", "undefined"}

ControlType ==
  /\ call \in [op : WorkCalls \cup {"none"}, ptr : Pointers, n : Nat] /\ walk \in Nat
  /\ call.op = "sn_register_size" => call.n \in Sizes
  /\ IF call.op = "none" THEN call = NoCall ELSE walk > 0

TypeOK == DataType /\ ManagerType /\ ControlType

\* No block is in the list twice, and while the process runs the blocks of
\* the list are the allocated blocks that are not the program's own: the
\* library neither loses a block nor keeps a freed one.
OwnedOnce ==
  /\ \A i, j \in DOMAIN list : list[i] = list[j] => i = j
  /\ \A e, f \in Listed : data[e] = data[f] /\ data[e] # NULL => e = f
  /\ foreign \subseteq {a \in Addrs : live[a] > 0}
  /\ status = "running" => Tracked \ {NULL} = {a \in Addrs : live[a] > 0} \ foreign

\* A cache slot points to an entry of the list and its key is the address
\* of that entry's block.
CacheCoherent ==
  \A i \in Slots :
    /\ value[i] # NULL => /\ value[i] \in Listed
                          /\ key[i] = data[value[i]]
    /\ key[i] # NULL => value[i] # NULL

\* What sn_free finds in the fast cache is the entry the list has for the
\* address: which block it frees does not depend on what is cached.
LookupExact == \A p \in Addrs : Lookup(p) = linked_list_getByPtr(p)

\* No destroyed entry is read and no block is freed that is not allocated.
NeverUndefined == status # "undefined"

\* The size an entry records, which sn_free clears and sn_calculate_checksum
\* reads, stays within the block libc allocated.
SizeWithinBlock ==
  \A e \in Listed : data[e] # NULL => size[e] <= live[data[e]]

\* sn_query_total_memory_usage is the sum of the sizes the list records.
UsageIsTracked ==
  status = "running" => global_memory_usage = MapThenSumSet(LAMBDA e : size[e], Listed) % SIZE_MOD

TrackedBytes == MapThenSumSet(LAMBDA a : live[a], Tracked \ {NULL})

\* While the limit stays the same, no call takes the bytes libc allocated for
\* tracked blocks from below the limit to the limit or above it.
LimitKept ==
  [][alloc_limit # 0 /\ alloc_limit' = alloc_limit /\ TrackedBytes < alloc_limit
     => TrackedBytes' < alloc_limit]_vars

\* After exit, also after a crash that leaves through exit, what is still
\* allocated is the program's own, unless it switched the auto free off.
ExitClean == status \in {"exited", "crashed"} /\ doFree => {a \in Addrs : live[a] > 0} \subseteq foreign

\* An entry in the fast cache is marked as cached.
CachedIsMarked == \A i \in Slots : value[i] # NULL => cached[value[i]] = 1

----------------------------------------------------------------------------
(* The inductive invariant *)

\* A program that either has no moving realloc or does not use the fast cache:
\* sn_realloc leaves the old address in the cache.
SafeClient == ~ReallocMayMove \/ Calls \cap CacheFilling = {}

\* The arguments of a pending call are still what the program may pass.
CallOK ==
  /\ call.op \in {"sn_register", "sn_register_size"} =>
       call.ptr \in foreign \cup Tracked \cup {NULL}
  /\ call.op = "sn_register" => call.ptr \notin Tracked \ {NULL}
  /\ call.op = "sn_register_size" /\ call.ptr # NULL => call.n <= live[call.ptr]

\* Nothing enters the cache of a program that does not fill it.
CacheUnused ==
  Calls \cap CacheFilling = {} =>
    /\ call = NoCall
    /\ \A i \in Slots : key[i] = NULL /\ value[i] = NULL

IInv == /\ TypeOK /\ OwnedOnce /\ CacheCoherent /\ NeverUndefined /\ SizeWithinBlock
        /\ ExitClean /\ CallOK /\ CacheUnused

----------------------------------------------------------------------------
\* What the library promises about blocks: see BlockRegistry.
Registry == INSTANCE BlockRegistry
              WITH heap <- {a \in Addrs : live[a] > 0}, owned <- Tracked \ {NULL}, state <- status

Implements == Registry!Spec

============================================================================
