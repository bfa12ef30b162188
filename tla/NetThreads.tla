----------------------------- MODULE NetThreads -----------------------------
(***************************************************************************)
(* Threads that allocate, free and query at once: SafetyNet's functions    *)
(* cut where the code is outside both mutexes.                             *)
(*                                                                         *)
(* A section of alloc_mutex or of the list's mutex is one step: PlatMutex  *)
(* and LinkedList are about the mutex itself.  memman_work holds both for  *)
(* its walk (call, walk as in SafetyNet), so no other section runs then.   *)
(* global_memory_usage is read and written back in two steps, without a    *)
(* mutex.  The returns for NULL and for size 0 are SafetyNet's and left    *)
(* out: they touch nothing the threads share but the last error.           *)
(*                                                                         *)
(* linked_list_removeEntryByPtr ends with an unlock of a mutex it no longer*)
(* has.  When sn_free is the only call under way no other thread has it    *)
(* either.  Otherwise the model has the behaviours in which that holds by  *)
(* chance, which is enough to show what can go wrong and no more.          *)
(***************************************************************************)
EXTENDS SafetyNet

CONSTANTS
  Threads,
  FreesApart    \* the program calls sn_free only while no other thread allocates, frees or queries

ASSUME FreesApartAssumption == FreesApart \in BOOLEAN

VARIABLES
  thread,       \* the call each thread is in, with its local variables
  held,         \* blocks the program has and has not passed to sn_free
  overlap       \* two updates of global_memory_usage have overlapped

program == <<thread, held, overlap>>
manager == <<heap, list, entry, cache, flags, global_memory_usage, error_code>>
allVars == <<vars, program>>

----------------------------------------------------------------------------
(* Threads *)

Outside == [op |-> "none", at |-> "idle", ptr |-> NULL, entry |-> NULL, slot |-> 0, n |-> 0, usage |-> 0]

\* The first step of each function
Start == [sn_malloc |-> "limit", sn_free |-> "hit", sn_query_tid |-> "work"]

At(t, at) == status = "running" /\ thread[t].at = at

\* The step takes alloc_mutex or the list's mutex.
Locked(t, at) == At(t, at) /\ call = NoCall /\ UNCHANGED control

Goes(t, f) == thread' = [thread EXCEPT ![t] = f] /\ UNCHANGED <<held, overlap>>

\* What a function does with the entry it found
WithEntry(op) == IF op = "sn_free" THEN "charge" ELSE "use"

\* sn_free has the list to itself; what sets the limit or clears the cache
\* may still come in between.
MayCall(t, op) ==
  FreesApart => \A u \in Threads \ {t} :
                  thread[u].op # "none" => op # "sn_free" /\ thread[u].op # "sn_free"

\* The program frees a block it holds once, and not while it asks about it.
Inputs(op) ==
  CASE op = "sn_malloc" -> {NULL} \X (Sizes \ {0})
    [] op = "sn_free" -> {p \in held : \A u \in Threads : thread[u].ptr = p => thread[u].op # "sn_query_tid"} \X {0}
    [] op = "sn_query_tid" -> Addrs \X {0}

Call(t, op) ==
  /\ status = "running" /\ thread[t] = Outside /\ op \in Calls \cap DOMAIN Start
  /\ MayCall(t, op)
  /\ \E x \in Inputs(op) :
       /\ thread' = [thread EXCEPT ![t] = [Outside EXCEPT !.op = op, !.at = Start[op],
                                                          !.ptr = x[1], !.n = x[2]]]
       /\ held' = IF op = "sn_free" THEN held \ {x[1]} ELSE held
  /\ UNCHANGED <<vars, overlap>>

\* Functions that are one section or one assignment
FlatCall(t) ==
  /\ thread[t] = Outside
  /\ sn_fast_cache_clear \/ sn_set_alloc_limit
  /\ UNCHANGED program

Fails(t, code) == sn_error(code, NULL) /\ Goes(t, Outside)

----------------------------------------------------------------------------
(* The lookup *)

\* memman_work takes both mutexes ...
WorkBegins(t) ==
  /\ At(t, "work") /\ call = NoCall
  /\ call' = [op |-> thread[t].op, ptr |-> thread[t].ptr, n |-> thread[t].n]
  /\ walk' = 1
  /\ Goes(t, [thread[t] EXCEPT !.at = "walk"])
  /\ UNCHANGED <<manager, status>>

\* ... and gives them back after the last entry.
WorkEnds(t) ==
  /\ At(t, "walk") /\ walk > Len(list)
  /\ call' = NoCall /\ walk' = 0
  /\ Goes(t, [thread[t] EXCEPT !.at = "hit"])
  /\ UNCHANGED <<manager, status>>

\* The section of memman_TryCacheHit finds a slot ...
CacheHit(t) ==
  /\ Locked(t, "hit")
  /\ LET f == thread[t]
         s == HitSlot(f.ptr)
     IN  \/ s = 0 /\ Goes(t, [f EXCEPT !.at = "list"]) /\ UNCHANGED <<manager, status>>
         \/ s # 0 /\ Goes(t, [f EXCEPT !.at = "reread", !.slot = s]) /\ Answer(value[s])

\* ... and its value is read once more after the unlock.  NULL is a miss.
Reread(t) ==
  /\ At(t, "reread")
  /\ LET f == thread[t]
         e == value[f.slot]
     IN  Goes(t, [f EXCEPT !.at = IF e = NULL THEN "list" ELSE WithEntry(f.op), !.entry = e])
  /\ UNCHANGED <<manager, control, status>>

\* linked_list_forEach reads len and firstEntry before it locks: an empty
\* list is a miss, whatever comes in now.
First(t) ==
  /\ At(t, "list") /\ UNCHANGED control
  /\ \/ list = << >> /\ Fails(t, "SN_ERR_NO_ADDER_FOUND")
     \/ /\ list # << >> /\ Goes(t, [thread[t] EXCEPT !.at = "search", !.entry = list[1]])
        /\ UNCHANGED <<manager, status>>

\* The walk starts at that entry, which may be gone.
Search(t) ==
  /\ Locked(t, "search")
  /\ LET f == thread[t]
         I == {i \in DOMAIN list : data[list[i]] = f.ptr /\ \E j \in 1..i : list[j] = f.entry}
         e == EntryAt(IF I = {} THEN 0 ELSE Min(I))
     IN  \/ f.entry \notin Listed /\ status' = "undefined" /\ UNCHANGED <<manager, program>>
         \/ f.entry \in Listed /\ e = NULL /\ Fails(t, "SN_ERR_NO_ADDER_FOUND")
         \/ /\ f.entry \in Listed /\ e # NULL /\ Goes(t, [f EXCEPT !.at = "note", !.entry = e])
            /\ UNCHANGED <<manager, status>>

\* linked_list_getByPtr locks once more for the weight of what it found.  A
\* query that gets here answers 0.
Note(t) ==
  /\ Locked(t, "note")
  /\ LET f == thread[t]
     IN  /\ Ends(error_code, f.entry, f.entry)
         /\ Goes(t, IF f.op = "sn_free" THEN [f EXCEPT !.at = "charge"] ELSE Outside)

----------------------------------------------------------------------------
(* sn_malloc *)

\* The limit is checked without a mutex.
CheckLimit(t) ==
  /\ At(t, "limit") /\ UNCHANGED control
  /\ LET f == thread[t]
         may == memman_canAllocateBasedOnLimitAndSize(f.n)
     IN  \/ ~may /\ Fails(t, "SN_ERR_ALLOC_LIMIT_HIT")
         \/ may /\ Goes(t, [f EXCEPT !.at = "malloc"]) /\ UNCHANGED <<manager, status>>

plat_malloc(t) ==
  /\ At(t, "malloc") /\ UNCHANGED control
  /\ \/ Fails(t, "SN_ERR_BAD_ALLOC")
     \/ \E a \in FreeAddrs :
          /\ live' = [live EXCEPT ![a] = thread[t].n]
          /\ Goes(t, [thread[t] EXCEPT !.at = "charge", !.ptr = a])
          /\ UNCHANGED <<foreign, list, entry, cache, flags, global_memory_usage, error_code, status>>

\* global_memory_usage is read for an update; sn_free reads the entry too.
ReadUsage(t) ==
  /\ At(t, "charge")
  /\ LET f == thread[t]
     IN  /\ thread' = [thread EXCEPT ![t] =
                         [f EXCEPT !.at = "store", !.usage = global_memory_usage,
                                   !.n = IF f.op = "sn_free" THEN size[f.entry] ELSE f.n]]
         /\ Reads({f.entry} \ {NULL})
  /\ overlap' = (overlap \/ \E u \in Threads : thread[u].at = "store")
  /\ UNCHANGED <<manager, control, held>>

\* The new value is written over whatever is there by now.
Writes(t, v) ==
  /\ At(t, "store")
  /\ global_memory_usage' = v % SIZE_MOD
  /\ Goes(t, [thread[t] EXCEPT !.at = IF thread[t].op = "sn_free" THEN "invalidate" ELSE "push"])
  /\ UNCHANGED <<heap, list, entry, cache, flags, error_code, control, status>>

Charge(f) == IF f.op = "sn_free" THEN -f.n ELSE f.n

\* sn_free gives nothing back.
Faulty_StoreUsage(t) ==
  Writes(t, thread[t].usage + IF thread[t].op = "sn_free" THEN 0 ELSE thread[t].n)

StoreUsage(t) == Writes(t, thread[t].usage + Charge(thread[t]))

Push(t) ==
  /\ Locked(t, "push")
  /\ linked_list_push(thread[t].ptr, thread[t].n, NULL)
  /\ thread' = [thread EXCEPT ![t] = Outside]
  /\ held' = held \cup {thread[t].ptr}
  /\ UNCHANGED <<heap, cache, flags, global_memory_usage, error_code, overlap>>

----------------------------------------------------------------------------
(* sn_free *)

\* The slots with the key are reset, their values to those of v.
Resets(t, v) ==
  /\ Locked(t, "invalidate")
  /\ LET keyed == memman_cacheInvalidate(thread[t].ptr)
         hit == {value[i] : i \in keyed}
     IN  /\ key' = [i \in Slots |-> IF i \in keyed THEN NULL ELSE key[i]]
         /\ value' = [i \in Slots |-> IF i \in keyed THEN v[i] ELSE value[i]]
         /\ available_cache_slots' = (available_cache_slots + Cardinality(keyed)) % BYTE
         /\ cached' = [x \in Entries |-> IF x \in hit THEN 0 ELSE cached[x]]
         /\ Reads(hit)
  /\ Goes(t, [thread[t] EXCEPT !.at = "free"])
  /\ UNCHANGED <<heap, list, data, size, block_id, weight, lastAccess, flags, global_memory_usage, error_code>>

\* The key is reset and the value is not.
Faulty_Invalidate(t) == Resets(t, value)

Invalidate(t) == Resets(t, [i \in Slots |-> NULL])

\* libc may hand the block out again before its entry is removed.
plat_free(t) ==
  /\ At(t, "free")
  /\ LET e == thread[t].entry
         d == data[e]
     IN  /\ live' = [a \in Addrs |-> IF a = d THEN 0 ELSE live[a]]
         /\ status' = IF e \in Listed /\ (d # NULL => live[d] > 0) THEN "running" ELSE "undefined"
  /\ Goes(t, [thread[t] EXCEPT !.at = "remove"])
  /\ UNCHANGED <<foreign, list, entry, cache, flags, global_memory_usage, error_code, control>>

\* The first entry in the list for the address is the one to go.
Seek(t) ==
  /\ Locked(t, "remove")
  /\ LET e == linked_list_getByPtr(thread[t].ptr)
     IN  Goes(t, IF e = NULL THEN Outside ELSE [thread[t] EXCEPT !.at = "unlink", !.entry = e])
  /\ UNCHANGED <<manager, status>>

\* The k-th entry is taken out of the list and destroyed.
Destroys(k) ==
  /\ list' = linked_list_removeEntry(k)
  /\ data' = Cleared(data, list[k], NULL) /\ size' = Cleared(size, list[k], 0)
  /\ cached' = Cleared(cached, list[k], 0)
  /\ block_id' = Cleared(block_id, list[k], 0) /\ weight' = Cleared(weight, list[k], 0)
  /\ UNCHANGED <<heap, lastAccess, cache, flags, global_memory_usage, error_code, status>>

\* In another section the entry is unlinked, unless it is the last: that is
\* left to linked_list_pop ...
Unlink(t) ==
  /\ Locked(t, "unlink")
  /\ LET e == thread[t].entry
     IN  \/ e \notin Listed /\ status' = "undefined" /\ UNCHANGED <<manager, program>>
         \/ \E k \in 1..(Len(list) - 1) : list[k] = e /\ Destroys(k) /\ Goes(t, Outside)
         \/ /\ e \in Listed /\ e = list[Len(list)] /\ Goes(t, [thread[t] EXCEPT !.at = "pop"])
            /\ UNCHANGED <<manager, status>>

\* ... which takes whatever is last by then.
linked_list_pop(t) ==
  /\ Locked(t, "pop")
  /\ \/ list = << >> /\ UNCHANGED <<manager, status>>
     \/ list # << >> /\ Destroys(Len(list))
  /\ Goes(t, Outside)

----------------------------------------------------------------------------
(* sn_query_tid *)

\* By now the entry may be another block's.
UseEntry(t) ==
  /\ At(t, "use")
  /\ Reads({thread[t].entry})
  /\ Goes(t, Outside)
  /\ UNCHANGED <<manager, control>>

----------------------------------------------------------------------------
Done == status # "running" /\ UNCHANGED allVars

Step(t) ==
  \/ \E op \in DOMAIN Start : Call(t, op)
  \/ FlatCall(t)
  \/ WorkBegins(t) \/ WorkEnds(t) \/ CacheHit(t) \/ Reread(t)
  \/ First(t) \/ Search(t) \/ Note(t)
  \/ CheckLimit(t) \/ plat_malloc(t) \/ ReadUsage(t) \/ StoreUsage(t) \/ Push(t)
  \/ Invalidate(t) \/ plat_free(t) \/ Seek(t) \/ Unlink(t) \/ linked_list_pop(t) \/ UseEntry(t)

ThreadsInit ==
  /\ Init
  /\ thread = [t \in Threads |-> Outside]
  /\ held = {} /\ overlap = FALSE

ThreadsNext ==
  \/ \E t \in Threads : Step(t)
  \/ memman_CacheAlgorithmWorker /\ UNCHANGED program
  \/ Done

ThreadsSpec == ThreadsInit /\ [][ThreadsNext]_allVars

----------------------------------------------------------------------------
(* Properties, besides SafetyNet's NeverUndefined and CacheCoherent *)

\* Blocks on their way into the list, and out of it
Arriving == {thread[t].ptr : t \in {u \in Threads : thread[u].op = "sn_malloc"}} \ {NULL}
Removing == {"remove", "unlink", "pop"}
Leaving == {thread[t].ptr : t \in {u \in Threads : thread[u].at \in Removing}}

\* At any moment between any steps of any threads, a block libc has allocated
\* is in the list, or on its way there in one sn_malloc; and a block in the
\* list is allocated, or on its way out in one sn_free.
EachAccounted ==
  status = "running" =>
    /\ {a \in Addrs : live[a] > 0} = (Tracked \ Leaving) \cup Arriving
    /\ \A e, f \in Listed : data[e] = data[f] => e = f
    /\ \A t, u \in Threads : /\ thread[t].op = "sn_malloc" /\ thread[u].op = "sn_malloc"
                            /\ thread[t].ptr = thread[u].ptr /\ thread[t].ptr # NULL
                            => t = u

\* A block the program holds has its entry, whatever the others do.
HeldIsTracked == status = "running" => held \subseteq Tracked

\* When no call is running, global_memory_usage is the sum of what the list
\* records, unless two threads once updated it at the same time.
UsageSettled ==
  (\A t \in Threads : thread[t] = Outside) /\ ~overlap => UsageIsTracked
============================================================================
