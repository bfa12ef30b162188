# A TLA+ model of libsafetynet

libsafetynet wraps libc's allocator: it keeps a list of the blocks it handed
out, with their size, thread, id and a flag, answers questions about them, and
frees what is left when the process exits. This directory holds TLA+ modules for
its logic, the TLC configurations that check them and proofs checked by TLAPS.
Paths below are relative to the repository; `backend` stands for
`backend_api/src`.

## The system

| Part | State | Operations | Talks to |
|---|---|---|---|
| mutex (`backend/platform_independent/plat_threading.c`) | pthread mutex, `locker_tid` | `plat_mutex_lock`, `plat_mutex_unlock` | used by the list and, as `alloc_mutex`, by the manager and the last error |
| tracking list (`backend/linked_list_c.c`) | `head`, `firstEntry`, `lastEntry`, `len`, `lastAccess`, entries with `data`, `size`, `tid`, `cached`, `block_id`, `_weight` | push, pop, removal, searches, `linked_list_forEach` with a worker callback | the list's mutex, libc |
| memory manager (`backend/allocation_manager/alloc_manager_c.c`) | five cache slots (`key`, `value`), `available_cache_slots`, `cache_lock`, `use_cache`, `alloc_limit`, `global_memory_usage` | `memman_work` with its worker, the lookups, invalidate, clear, put, limit check | reads and writes the entries of the list through slots that point to them |
| front end (`src/sn_*.c`) | `error_code` | the `sn_*` functions | all of the above and libc |
| file functions (`src/sn_file_work.c`) | none; files other processes share | `sn_dump_to_file`, `sn_mount_file_to_ram` | `sn_malloc`, `sn_free`, the lookups, the crash handler |
| set-up (`backend/setup.c`) | `doFree`, the three globals | constructor, destructor | list, manager |
| crash handler (`backend/sn_crash.c`) | none | prints, then aborts or exits | through exit, the destructor |

What is hard here:

* *Two names for one entry.* The cache refers to entries the list owns and
  destroys. Every operation that destroys, moves or clears must leave no slot
  behind that names a destroyed entry or another block's address, and libc
  reuses addresses.
* *Three counts of the same bytes*: what libc allocated, what the entry records
  and what `global_memory_usage` was charged, with unsigned arithmetic that wraps.
* *A home-made recursive mutex.* `plat_mutex_lock` returns when the unprotected
  `locker_tid` is the caller, the nesting is not counted, and the field is reset
  after the release. `linked_list_forEach` locks again after every callback.
* *Callbacks and threads over one list.* A worker of `linked_list_forEach` may be
  the program's and may push, free or exit; searches read `len` and `firstEntry`
  before they lock; `sn_malloc` and `sn_free` are several sections with gaps
  between them, in which libc may hand out an address again.
* *Exit paths.* The destructor runs after `exit`, also after a crash that leaves
  through it, and frees each tracked block.

What makes the parts correct: sections of one mutex exclude each other, calls
return; each allocated block has one owner and is given back once; `sn_free`
finds through the cache what the list holds; no destroyed entry is read; recorded
sizes stay within their blocks; the total is the sum of the recorded sizes; the
limit is kept; after exit nothing tracked is left; the links are those of a doubly
linked list whatever callbacks do; a search finds the first match; a failed mount
leaves nothing behind. A query should answer for every tracked block, a locked
cache should take no entries, and the total should be 0 when nothing is tracked;
these the code does not keep (see below).

## Modules

* **PlatMutex**: `plat_mutex_lock` and `plat_mutex_unlock`, one step per access
  to the pthread mutex (`owner`) or to `locker_tid`. A thread calls functions,
  and a function is the sequence of lock and unlock calls it makes (`Scripts`):
  one pair for the flat ones, `linked_list_forEach_locks(n)` for a walk over `n`
  entries.
  Unlocking a mutex one does not hold releases it, as glibc's default mutex does
  (POSIX leaves it undefined). **MCPlatMutex** picks the sets of functions,
  **PlatMutex_proofs** has the proofs.
* **LinkedList**: `linked_list_c.c` under threads, with the nodes and their links,
  `firstEntry`, `lastEntry`, `len`, `lastAccess`, and the list's mutex. A thread
  has a stack of calls; a second one is put on it by the callback of
  `sn_mem_metadata_for_each`. A step reaches from one access to the mutex to the
  next: a lock with what it protects up to the release, the later reset of
  `locker_tid`, or the code between two sections. The walk is one step per entry,
  with the lock `linked_list_forEach` takes again. The paths that return with the
  mutex locked, and the unlock of a mutex somebody else holds, are as in the code.
  The crash report and the two walks of the destructor are calls too. A step that
  touches a destroyed node ends the model as `"undefined"`. Two rules bind the
  program: in a callback it frees no block but its own, once; and a function of
  `Solitary` runs only while no other thread is in the library. These are the
  functions that destroy entries (a removal, a pop, a crash, the exit), that change
  the address a search looks for, or that unlock once more than they lock
  (`linked_list_hasPtr`, `linked_list_removeEntryByPtr`): beside them, a section of
  another thread can be cut in two by the second unlock, and would not be one step.
  **MCLinkedList** picks the functions.
* **SafetyNet**: list, manager, front end, set-up and exit, from the view of one
  thread. The list is the sequence of its entries; an entry is an address
  (`Entries`), so a slot can outlive what it points to and a new entry can take a
  destroyed one's address. libc is `live`, the bytes allocated at each address.
  One action per function of the library. A function that starts with
  `memman_work` is `Enter`, then one `memman_CacheAlgorithmWorker` step per entry,
  then its body. Each error return is a disjunct. `sn_error` is a macro of two
  statements (`_pri_api.h:57`), so that `if (!entry) sn_error(...)` without braces
  returns in either case: after a miss in the cache, `sn_query_tid`,
  `sn_set_block_id`, `sn_get_block_id`, `sn_query_block_id`, `sn_query_metadata`,
  `sn_calculate_checksum` and `sn_dump_to_file` search the list, which raises a
  weight and notes `lastAccess`, and then return 0 or NULL whatever they found
  (`Misses`). `sn_query_size`, `sn_free` and `sn_realloc` have the braces. `status`
  ends as `"exited"`, `"crashed"` (a crash that leaves through exit), `"aborted"`
  (`SN_ERR_CATASTROPHIC`), or `"undefined"`, where the code would read a destroyed
  entry or free a block that is not allocated. **MCSafetyNet** picks the sets of
  functions the program calls, and in `Seen` the variables but `error_code`, which
  nothing reads: as the `VIEW` of the larger runs it makes states that differ in
  the last error one.
* **NetThreads**: extends SafetyNet with threads. `sn_malloc`, `sn_free` and
  `sn_query_tid` are cut where the code is outside both mutexes, and the read and
  the write of `global_memory_usage` are two steps; `sn_fast_cache_clear` and
  `sn_set_alloc_limit` are one. A section is one step: that sections exclude each
  other is `SectionsExclude` of PlatMutex. A search reads `firstEntry` before it
  locks (`First`, `Search`, `Note`), and a removal is a search, an unlinking and
  perhaps a pop, each a section of its own (`Seek`, `Unlink`, `linked_list_pop`).
  With `FreesApart` the program calls `sn_free` only while no other thread
  allocates, frees or queries; what clears the cache or sets the limit may still
  come between its steps, and allocations and queries overlap with each other. The
  last unlock of `linked_list_removeEntryByPtr`, of a mutex it no longer has, then
  meets no other section of the list; without `FreesApart` the model leaves out the
  behaviours in which it would, so that `threads_free` shows less than the code can
  do, and nothing more. **MCNetThreads** picks the functions.
* **FileWork**: extends SafetyNet with the file functions, cut at their system
  calls; in between, `pending` has the function with its locals, and no other
  function of the library runs. A file is absent, hidden
  (cannot be opened for reading), a stream (cannot seek, so that `ftell` gives the
  largest `size_t`) or regular with a size; another process may replace it in the
  middle of a dump, and reads and writes may fall short. A mount that is refused
  its allocation crashes, and the crash prints `lastAccess` before it exits
  (`MountCrash`). **MCFileWork** picks the functions.
* **BlockRegistry**: what the library promises about blocks, without list or
  cache: a block enters the registry by allocation or registration, may move, and
  is given back to libc exactly when it leaves. `SafetyNet!Implements` states that
  SafetyNet implements it: the heap is the set of addresses with bytes, what is
  owned is the set of addresses in the list; `FileWork!FilesImplement` says it of the
  library with its file functions.
* The proofs are in modules of their own: **SafetyNet_proofs** (types),
  **SafetyNetSafety_proofs** (safety), **SafetyNetRegistry_proofs** (the refinement
  of BlockRegistry), **LinkedList_proofs** (the links), **LinkedListSafety_proofs**
  (the calls in progress), **NetThreads_proofs** and **FileWork_proofs**.

The program is part of the model: it passes any pointer and id to queries, frees
and reallocs, registers only blocks it allocated itself, and gives
`sn_register_size` a size within the block, or a block already tracked. It does
not register the same block twice with `sn_register`, which checks nothing.

## Runs

Passing:

* `mutex_flat`: three threads, two calls each, functions with one lock. No
  thread waits for itself (`NoSelfWait`) and each call returns (`CallsReturn`).
  Fairness is weak, per thread: a thread in the library is scheduled, and the
  mutex promises no order. Whether a thread calls again is not assumed.
* `mutex_walk`: three threads that push and walk lists of one and two entries.
  Exclusion holds even though a late reset of `locker_tid` may wipe the mark of
  the thread inside. Deadlock is not checked: `mutex_self_wait` shows it.
* `net_alloc`: three addresses, sizes 0, 1, 3 and 15, a limit of 4 that is set and
  lifted, realloc in place and moving, no function that fills the cache: the
  accounting, `LimitKept`, and the registry.
* `net_cache`: two slots for three blocks, so that the worker evicts; `HOT` 1 and
  a byte of 3 values, so that weights pass the threshold and wrap; requests,
  clears, locks of the cache and frees at every point. realloc stays in place.
  Which block `sn_free` frees does not depend on what is cached (`LookupExact`).
* `net_files`: ids below, at and above the threshold of 20, looked up through the
  cache, which is locked and unlocked; dumps and mounts of files of 0 bytes, 1 byte
  and unknown size, whose charge can pass the limit of 1 by wrapping. With its file
  functions the library keeps to the registry of blocks (`FilesImplement`). Nothing
  destroyed is read but by the report of a refused mount (`OnlyReportUndefined`); a
  mount that fails after its allocation undoes it; a crash whose report goes well
  still exits cleanly.
* `net_register`: blocks of the program, registered with and without a size, the
  queries about them by address and by id, answered from the cache or refused, and
  the metadata copy, which runs `memman_work` twice and allocates. One slot is
  enough: evictions are `net_cache`'s.
* `list_single`: one thread, three entries, every function and nested calls from
  callbacks. The links stay well formed, `len` is never too small (it may be too
  large: a removal from the middle does not decrement it), searches are exact,
  `linked_list_destroy` leaves nothing, no call on a list with entries returns
  with the mutex locked, and only the crash report touches a destroyed entry
  (`OnlyReportDangles`). `MaxLen` is one more than the entries so that the surplus
  in `len` occurs.
* `list_threads`: two threads that push, search and set ids at once, and remove,
  crash or exit when alone. Deadlock is not checked, for the reason of `mutex_walk`.
* `threads`: two threads, two blocks, one slot, a limit that comes and goes, with
  `FreesApart`. Every block is accounted for at every point (`EachAccounted`), a
  block the program holds keeps its entry, the cache stays coherent, nothing
  destroyed is read, and the total is right once the calls are over, unless two
  updates overlapped (`overlap` notes it), in which case one may be lost.

Three entries are the least with a middle, a first and a last one; two blocks and
one slot let an address be reused and a slot be replaced while a thread is between
its two reads of it. Three blocks and two slots are enough for what the cache can do wrong: an entry
in two slots, an eviction, and a reused address while a slot still has the old
one; `net_register` has an entry more than addresses, so that a block could be in
the list twice. `SIZE_MOD` is small so that sums wrap. `MaxUsage` bounds the
sum a charge may form: in `net_alloc` and under threads it is below `SIZE_MOD`, since libc cannot
have allocated more than the address space holds, and the size 15 is the request
that passes the limit check because the sum wraps; in the other runs it
is not, for there the counter may have wrapped before.
Addresses and entries are symmetric: no definition orders them.

Violations, each of one sentence of the documentation (quoted in PROJECT.json):

* `mutex_self_wait`: the late reset of `locker_tid` lets a walking thread wait for
  itself.
* `net_moved`: realloc moves a cached block; the old address stays a key.
* `threads_free`: two threads free two blocks. One has read `firstEntry` for its
  search, before the lock, when the other destroys that entry.

Met while modelling, without a run of their own; the models do as the code does.
In `backend/linked_list_c.c`:

* `linked_list_pop` (280), `linked_list_forEach` (309) and `linked_list_getById`
  (422) return with the mutex locked when the list is empty.
* `linked_list_hasPtr` and `linked_list_removeEntryByPtr` unlock once more than they
  hold: with other threads the second unlock releases their mutex (352, 444).
* `linked_list_removeEntry` unlocks before `linked_list_pop` looks up the last entry
  again (456).

In `backend/allocation_manager/alloc_manager_c.c`:

* `memman_TryCacheHit` may return another block's entry after its unlock (102).
* `memman_cacheClear` marks as cached what it removes (151).
* The worker fills slots without counting them, so that `memman_tryCachePut` finds
  none where it believes in one, and exits (177); `available_cache_slots` grows with
  each invalidation and wraps (137); the worker also fills a locked cache (54).

In the front end and the crash handler:

* `sn_calloc` charges `num * size` and records `size` (`sn_allocator.c:106`), and
  `sn_register_size` does not charge the size `sn_free` later subtracts
  (`sn_metadata.c:84`): the total is then not 0 when nothing is tracked.
* `global_memory_usage` can lose an update (`sn_allocator.c:52`).
* `sn_free` gives the block to libc before it removes the entry
  (`sn_allocator.c:82`): an `sn_malloc` of another thread may get the address, and
  two entries share it.
* `sn_query_tid`, `sn_set_block_id`, `sn_get_block_id`, `sn_query_block_id`,
  `sn_query_metadata`, `sn_calculate_checksum` and `sn_dump_to_file` do nothing for a
  tracked block that is not in the cache, since the `return` of `sn_error` is not
  under the `if` (`sn_metadata.c:62`, `123`, `143`, `163`, `183`, `257`,
  `sn_file_work.c:55`). `libsafetynet.h:248` says of `sn_query_tid` "The thread ID,
  or 0 on failure."
* `sn_is_tracked_block` answers 1 for every pointer that is not cached
  (`sn_metadata.c:99`).
* The crash report reads `lastAccess` after it may have been destroyed
  (`sn_crash.c:134`): a lookup, a free of the block and a crash are enough.
* `sn_mem_metadata_for_each` returns NULL also when its worker stopped the walk,
  since `linked_list_forEach` turns the stop value into NULL, and it hands the
  worker its own structure instead of the program's argument (`sn_metadata.c:297`).
* A dump overwrites a file it cannot read or that came up during the call, and a
  dump cut short leaves a file that makes a retry fail (`sn_file_work.c:45`, `59`,
  `67`).

## Proofs

All proofs hold for any sets of threads, functions, addresses, entries, slots and
sizes that satisfy the modules' named assumptions. A theorem with a further
hypothesis names it; each hypothesis is a rule for the program, and a run or a
line of the source named below shows what the code does without it.

**PlatMutex_proofs.** `TypeCorrect`. For functions that unlock once, at their end
(`SingleUnlock`; `WalkUnlocksOnce` shows that pushes and walks of any length do),
`SectionsExclude` and `ShortcutSound`. `PlatMutex!IInv` says who owns the pthread
mutex: whoever is past its first `pthread_mutex_lock` and not yet past the release;
and that `locker_tid` never names a thread outside its function, which makes the
unprotected read harmless. `FlatNeverSelfWaits`, for functions that lock once, needs
the converse too: the mutex is with nobody who is back before its first lock
(`OwnerInside`). `mutex_self_wait` shows that walks do wait for themselves.

**SafetyNet_proofs, SafetyNetSafety_proofs.** `TypeCorrect`, for every program. The
others are for a `SafeClient`: a program that does not use both a realloc that moves
and functions that fill the cache (`net_moved` shows what happens to one that does).
From `Safety`, the invariance of `SafetyNet!IInv`, follow `OneOwner`,
`NothingUndefined`, `CacheInvisible`, which is about the lookup of `sn_free`,
`NothingLeft`, `CacheAgrees` and `SizesFit`; `MarksAgree` takes an induction of its own on top.
None of these is inductive alone. That a block is freed once rests on the lookup in
`sn_free` finding the entry of the list, which rests on every slot naming a listed
entry with its own address (`CacheCoherent`), which `linked_list_removeEntry` keeps
because each address is in the list once (`OwnedOnce`). Since a function waits for
`memman_work` to end, `IInv` also says that the arguments of the pending call are
still good when its body runs (`CallOK`). The steps fall into a few kinds (an
answer, a push, a removal, an exit, a new size, the worker, a change of slots); a
lemma per kind shows what it keeps, and a lemma per group of functions which kinds
its disjuncts are.

*The books.* `UsageExact` and `LimitHolds` are about sums over sets of entries and of
addresses. SafetyNet_proofs shows what such a sum (`Total`) is: `MapThenSumSet` picks
the elements in an order of its own, so first the table of the sums of all subsets is
shown to exist and to be the only one (`TableExists`, `TablesAgree`; induction on the
size of a finite set, as the smallest counterexample there would be), then that a sum
may be split at any element (`TotalRemove`), and from it how a sum changes with its
set and its function (`TotalAdd`, `TotalSame`, `TotalImage`). `UsageExact` follows
from `IInv` and what each kind of step does to `Recorded` and to
`global_memory_usage` (`BooksStep`). Its hypothesis `SizesCharged` leaves out the two
functions that charge something other than they record, `sn_register_size` and
`sn_calloc` of more than one element. `LimitHolds` needs more (`AllCharged`): every
tracked block was allocated by the library, so that the sum of the recorded sizes is
what libc allocated (`BooksExact`), and no charge wraps.

**SafetyNetRegistry_proofs.** `Refinement`: every behaviour of a `SafeClient` is one
of BlockRegistry under the mapping in `SafetyNet!Implements`. Each kind of step is
mapped to allocating, registering, moving, releasing or ending, or to a stutter;
`IInv` supplies that what the code frees is what the registry owns.

**LinkedList_proofs.** `AlwaysLinked` and `LenIsEnough`, for any set of functions
and any number of threads under the rule of `Solitary`, as long as nothing undefined
has happened. The
invariant `LinkInv` gives each list a witness: a sequence of distinct entries, which
are exactly the allocated ones, whose neighbours are what the links say and which is
no longer than `len`. Inserting and deleting are first proved on the links alone
(`LinkKeeps`, `PopKeeps`, `UnlinkKeeps`), then each step of a thread is one of the
three or leaves the links. `Whole` leaves out the walk of `linked_list_destroy`,
which frees entries without unlinking them.

**LinkedListSafety_proofs.** Under the same rule. `TypeCorrect`, `ExitFreesAll`,
`NothingElseDangles` and `NothingDangles`: `SafeInv` says what each call in progress
has in hand: allocated entries (`Live`); a removal called from a callback stays at or
before the entry of that callback, so that it never frees the one the walk goes on
with (`Removing`); the walk of `linked_list_destroy` has destroyed just the entries
before its own (`Sweeping`); and a thread that destroys is alone (`Apart`). No
removal resets `lastAccess`, and the report reads it (`sn_crash.c:134`):
`NothingElseDangles` is for every program and excepts that access, `NothingDangles`
is for a program that does not both remove entries and have the crash handler
report. `ExitFreesAll` is about processes that reach the end of
`linked_list_destroy`.

The action properties rest on two more invariants, which each step is shown to keep
together (`TurnGo` and the lemma per action). `SeekInv`: `locker_tid` names the owner
of the mutex, or a thread about to reset it; a search that visits owns the mutex, so
that no other thread links, frees or sets an id; and no entry before the one it
visits matches, in whatever order the list has (`Reaches`). `SearchFinds` follows at
the last visit.
`LockInv`: outside the library, and wherever a call that is about to return may
stand, the mutex is locked only if the list is empty. From it follows
`MutexReturned`, for one thread. With several it is false once `len` is too large: a
push between the read of `firstEntry` and the lock makes a walk return with the mutex
locked on a list that now has an entry.

**NetThreads_proofs.** With `FreesApart`: `NothingLost`, `HeldStays` and
`ThreadsDefined`, from `ThreadInv`, and `UsageSettles`. `ThreadInv` says, by the step a thread is at, what it
knows of its locals (`Fits`): a block between `plat_malloc` and its push is allocated
and not listed, one between `plat_free` and its removal is listed and not allocated,
and the entry a lookup returned is still listed when it is used. Two calls of one
kind are about two blocks (`Alone`), and what the program holds nobody frees
(`Holds`). `UsageSettles` adds an equation that holds between any two steps
(`Balanced`): `global_memory_usage` is what the list records, plus what those threads
have charged that have not pushed yet, less what those have given back whose entry is
still listed (`Owed`); and before an overlap at most one thread has read the total to
update it, and what it read is still there (`OneUpdate`). That the entry a search starts at, and the one to unlink or to pop, is listed
and the right one is part of `Fits`. `FreesApart` is needed for it: `threads_free`
shows what two `sn_free` do to each other, an `sn_malloc` in the middle of an
`sn_free` can get an address that is still listed, and the worker of a query there
can put the entry back into a slot after `memman_cacheInvalidate` and before the
entry is destroyed.

**FileWork_proofs.** For a `SafeClient`: `FileSafety`, which carries `SafetyNet!IInv`
through the cut-up file functions up to a report that reads a destroyed entry, and
from it `FilesHarmless` and `MountLeavesNothing`. Between two system calls of a dump
its entry is still listed (`Dumping`, `Dumped`); of a mount, the heap, the list and
the total without its buffer are those of before the call (`Mounted`), also when the
charge wrapped (`ChargeUndone`).

Left to TLC are two properties of the runs: `CallsReturn`, which is liveness under
fairness and beyond this prover, and `FilesImplement`, of which `Refinement` proves
the part without the file functions. The violations are TLC's too, and so is that the
hypotheses named above are met by the runs that check the same properties.

## Not modelled

The tables of error texts, checksum values, the text of the crash report, Windows,
and the build options other than the defaults, none of which changes the state the
properties are about. `sn_malloc_pre_initialized` is `sn_malloc` plus the bytes it
writes; `sn_query_total_memory_usage` and `sn_get_last_error` read a variable.
`plat_mutex_new` that fails, and the calls on a NULL mutex that follow, are left
out, as are `linked_list_entry_setPreviousEntry`, `setNextEntry`, `setTid`,
`linked_list_peek`, `linked_list_hasId` and `linked_list_entry_pri_reweave`, which
nothing in the library calls. Under threads, realloc, registration, explicit cache
requests, ids and files are not modelled: they are made of the sections NetThreads
already has. Both mutexes at the granularity of PlatMutex in one model, with the
callback under the list's mutex that waits for `alloc_mutex` while `memman_work`
waits for the list's, is not modelled either.

## What could follow

* PlatMutex, the list and the manager's mutex in one model, with the callback of
  `sn_mem_metadata_for_each` that waits for `alloc_mutex`.
* The list's functions cut at each of their accesses, over the mutex of PlatMutex,
  so that removals and `linked_list_hasPtr` may run beside other threads; the result
  would be which calls are safe together.
* `MutexReturned` for several threads while `len` is exact, that is as long as
  nothing was removed from the middle of the list.
