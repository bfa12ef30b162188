----------------------------- MODULE LinkedList -----------------------------
(***************************************************************************)
(* linked_list_c.c under threads: the nodes with their links, firstEntry,  *)
(* lastEntry, len, lastAccess, and the mutex of the list.                  *)
(*                                                                         *)
(* A thread runs a stack of calls; only the callback of                    *)
(* sn_mem_metadata_for_each puts a second one on it.  A step reaches from  *)
(* one access to the mutex to the next: plat_mutex_lock is one step, which *)
(* also runs what it protects, and plat_mutex_unlock is two, the release   *)
(* and the later reset of locker_tid ("clear"), as in PlatMutex.           *)
(*                                                                         *)
(* The domain is a program in which a function that destroys entries, or   *)
(* whose second unlock releases whatever thread has the mutex, runs while  *)
(* no other thread is in the library.                                      *)
(*                                                                         *)
(* Touching a destroyed node is undefined behaviour and ends the model.    *)
(* A Faulty_X is X with a mistake code could have had; nothing uses it.    *)
(***************************************************************************)
EXTENDS Integers, Sequences, FiniteSets

CONSTANTS
  Threads, NoTid,
  Entries,      \* addresses libc hands out for linked_list_entry_t
  HEAD,         \* the dummy entry of linked_list_new
  NULL,
  Keys,         \* the blocks the list is asked about
  Ids,          \* block ids set by the program
  MaxLen,       \* bound: pushes stop when len has reached it
  Ops           \* the functions the program calls

ASSUME ListAssumption ==
  /\ NoTid \notin Threads /\ IsFiniteSet(Entries)
  /\ HEAD \notin Entries /\ NULL \notin Entries /\ HEAD # NULL
  /\ NULL \notin Keys /\ Ids \subseteq Nat /\ MaxLen \in Nat

VARIABLES
  alive,                      \* entries allocated and not destroyed
  next, previous,             \* the links of each node
  data, block_id,             \* the fields the searches read
  firstEntry, lastEntry, lastAccess, len,
  owner, locker_tid,          \* the list's mutex
  stack,                      \* the calls of each thread, innermost first
  status

links == <<alive, next, previous, firstEntry, lastEntry, len>>
fields == <<data, block_id>>
mutex == <<owner, locker_tid>>
vars == <<links, fields, lastAccess, mutex, stack, status>>

----------------------------------------------------------------------------
(* Calls *)

PtrSearches == {"linked_list_getByPtr", "linked_list_hasPtr", "linked_list_removeEntryByPtr"}
Searches == PtrSearches \cup {"linked_list_getById", "linked_list_getByIndex"}
Getters == {"linked_list_getByPtr", "linked_list_getById", "linked_list_getByIndex"}

\* Functions that take the mutex around their linked_list_forEach
Wrapped == {"linked_list_hasPtr", "linked_list_getById", "linked_list_removeEntryByPtr"}

\* Functions that destroy entries, change what a search looks for, or unlock
\* once more than they lock (linked_list_hasPtr, linked_list_removeEntryByPtr)
Solitary == {"linked_list_removeEntryByPtr", "linked_list_pop", "linked_list_entry_setData",
             "linked_list_hasPtr", "sn_debug_crash", "doexit", "linked_list_destroy"}

\* The functions a program reaches; only the exit destroys the list.
Reached == Solitary \cup Searches
  \cup {"linked_list_push", "linked_list_forEach", "linked_list_entry_setBlockId"}

ASSUME OpsAssumption == Ops \subseteq Reached \ {"linked_list_destroy"}

\* The first thing a function does
Start(op) ==
  CASE op \in Wrapped -> "outer"
    [] op \in {"linked_list_push", "linked_list_pop"} -> op
    [] op \in {"linked_list_entry_setData", "linked_list_entry_setBlockId"} -> "set"
    [] op = "sn_debug_crash" -> "report"
    [] OTHER -> "first"

\* What a function does after its linked_list_forEach returned out
After(op, out) ==
  CASE op = "linked_list_removeEntryByPtr" -> IF out = NULL THEN "unlock" ELSE "unlink"
    [] op = "linked_list_hasPtr" -> "unlock"
    [] op \in Getters -> IF out = NULL THEN "return" ELSE "note"
    [] op \in {"sn_debug_crash", "doexit", "linked_list_destroy"} -> "next walk"
    [] OTHER -> "return"

Frame(op, arg, e) ==
  [op |-> op, arg |-> arg, pc |-> Start(op), entry |-> e, nxt |-> NULL, i |-> 0, then |-> "return"]

Top(t) == Head(stack[t])
At(t, pc) == status = "running" /\ stack[t] # << >> /\ Top(t).pc = pc
InCallback(t) == stack[t] # << >> /\ Top(t).pc = "callback"

\* The innermost call of t goes on as frame f, or returns.
Go(t, f) ==
  stack' = [stack EXCEPT ![t] = IF f.pc = "return" THEN Tail(@) ELSE <<f>> \o Tail(@)]

\* A finished walk: the entry found, or NULL, is what the rest works on.
Found(f, out) == [f EXCEPT !.entry = out, !.nxt = NULL, !.i = 0, !.pc = After(f.op, out)]

\* The reset of locker_tid comes before the frame f goes on.
Clearing(f) == [f EXCEPT !.pc = "clear", !.then = f.pc]

----------------------------------------------------------------------------
(* The mutex *)

\* The shortcut, or an acquired pthread mutex
CanLock(t) == locker_tid = t \/ owner = NoTid

plat_mutex_lock(t) ==
  /\ CanLock(t)
  /\ owner' = IF locker_tid = t THEN owner ELSE t
  /\ locker_tid' = t

\* A path without the unlock
Faulty_Section(t) == plat_mutex_lock(t)

\* A section of plat_mutex_lock up to the release in plat_mutex_unlock.  The
\* unlocks that could release it earlier, from another thread, are solitary.
Section(t) ==
  /\ CanLock(t)
  /\ owner' = NoTid
  /\ locker_tid' = t

Touches(S) == status' = IF S \subseteq alive \cup {HEAD} THEN status ELSE "undefined"

----------------------------------------------------------------------------
(* The links *)

Init ==
  /\ alive = {}
  /\ next = [n \in Entries \cup {HEAD} |-> NULL]
  /\ previous = [n \in Entries \cup {HEAD} |-> NULL]
  /\ data = [e \in Entries |-> NULL] /\ block_id = [e \in Entries |-> 0]
  /\ firstEntry = HEAD /\ lastEntry = HEAD /\ lastAccess = NULL /\ len = 0
  /\ owner = NoTid /\ locker_tid = NoTid
  /\ stack = [t \in Threads |-> << >>]
  /\ status = "running"

\* The new entry becomes the last one, ...
LinkLast(e, d) ==
  /\ alive' = alive \cup {e}
  /\ next' = [next EXCEPT ![lastEntry] = e, ![e] = NULL]
  /\ previous' = [previous EXCEPT ![e] = lastEntry]
  /\ lastEntry' = e
  /\ len' = len + 1
  /\ data' = [data EXCEPT ![e] = d] /\ block_id' = [block_id EXCEPT ![e] = 0]

\* firstEntry moves to every new entry.
Faulty_Link(e, d) == LinkLast(e, d) /\ firstEntry' = e

\* ... and the first one of an empty list.
Link(e, d) ==
  LinkLast(e, d) /\ firstEntry' = IF firstEntry = HEAD THEN e ELSE firstEntry

\* What is left of a destroyed entry is never read.
Destroyed(e) ==
  /\ alive' = alive \ {e}
  /\ data' = [data EXCEPT ![e] = NULL] /\ block_id' = [block_id EXCEPT ![e] = 0]

\* linked_list_removeEntry of an entry that is not the last: len stays.
Bypass(e) ==
  /\ Destroyed(e)
  /\ next' = [n \in DOMAIN next |->
                CASE n = e -> NULL [] n = previous[e] -> next[e] [] OTHER -> next[n]]
  /\ previous' = [n \in DOMAIN previous |->
                    CASE n = e -> NULL [] n = next[e] -> previous[e] [] OTHER -> previous[n]]
  /\ UNCHANGED <<lastEntry, len>>

\* firstEntry stays on the entry that goes.
Faulty_Unlink(e) == Bypass(e) /\ UNCHANGED firstEntry

Unlink(e) == Bypass(e) /\ firstEntry' = IF firstEntry = e THEN next[e] ELSE firstEntry

\* linked_list_pop: the last entry goes.
DropLast ==
  LET e == lastEntry
      p == previous[e]
  IN  /\ Destroyed(e)
      /\ next' = [next EXCEPT ![p] = NULL, ![e] = NULL]
      /\ previous' = [previous EXCEPT ![e] = NULL]
      /\ lastEntry' = p
      /\ firstEntry' = IF p = HEAD THEN HEAD ELSE firstEntry

\* len is decremented twice.
Faulty_PopLast == DropLast /\ len' = len - 2

PopLast == DropLast /\ len' = len - 1

----------------------------------------------------------------------------
(* Functions without a walk *)

\* A lookup of NULL returns at once and is left out.
Arguments(op) ==
  CASE op = "linked_list_push" -> Keys \cup {NULL}
    [] op \in PtrSearches \cup {"linked_list_entry_setData"} -> Keys
    [] op = "linked_list_getById" -> Ids \cup {0}
    [] op = "linked_list_entry_setBlockId" -> Ids
    [] op = "linked_list_getByIndex" -> 0..MaxLen
    [] OTHER -> {NULL}

\* In a callback the program frees no block but the one it is called for, and
\* that once; the frame of the walk notes it.
Allowed(t, op, arg) ==
  InCallback(t) =>
    /\ Len(stack[t]) = 1
    /\ op \in Searches \cup {"linked_list_push", "doexit"}
    /\ op = "linked_list_removeEntryByPtr" => arg = data[Top(t).entry] /\ Top(t).arg = NULL

Noted(calls, op, arg) ==
  IF calls # << >> /\ op = "linked_list_removeEntryByPtr"
  THEN [calls EXCEPT ![1].arg = arg] ELSE calls

\* The program calls a solitary function only while no other thread is in the
\* library, and enters none while another thread is in one.
Alone(t, op) ==
  \A u \in Threads \ {t} :
    /\ op \in Solitary => stack[u] = << >>
    /\ \A k \in DOMAIN stack[u] : stack[u][k].op \notin Solitary

Call(t, op) ==
  /\ status = "running" /\ op \in Ops
  /\ stack[t] = << >> \/ InCallback(t)
  /\ Alone(t, op)
  /\ \E arg \in Arguments(op) :
     \E e \in IF Start(op) = "set" THEN alive ELSE {NULL} :
       /\ Allowed(t, op, arg)
       /\ stack' = [stack EXCEPT ![t] = <<Frame(op, arg, e)>> \o Noted(@, op, arg)]
  /\ UNCHANGED <<links, fields, lastAccess, mutex, status>>

\* Without memory for the entry the process aborts.
linked_list_push(t) ==
  /\ At(t, "linked_list_push")
  /\ \/ /\ len < MaxLen
        /\ Section(t)
        /\ \E e \in Entries \ alive : Link(e, Top(t).arg)
        /\ Go(t, Clearing([Top(t) EXCEPT !.pc = "return"]))
        /\ Touches({lastEntry, firstEntry})
        /\ UNCHANGED lastAccess
     \/ /\ status' = "aborted"
        /\ UNCHANGED <<links, fields, lastAccess, mutex, stack>>

\* The entry setters hold the mutex for one assignment.
linked_list_entry_set(t) ==
  /\ At(t, "set") /\ Section(t)
  /\ LET f == Top(t)
     IN  /\ IF f.op = "linked_list_entry_setData"
            THEN data' = [data EXCEPT ![f.entry] = f.arg] /\ UNCHANGED block_id
            ELSE block_id' = [block_id EXCEPT ![f.entry] = f.arg] /\ UNCHANGED data
         /\ Touches({f.entry})
         /\ Go(t, Clearing([f EXCEPT !.pc = "return"]))
  /\ UNCHANGED <<links, lastAccess>>

\* An empty list is left with the mutex locked.
linked_list_pop(t) ==
  /\ At(t, "linked_list_pop")
  /\ LET f == Top(t)
         done == [f EXCEPT !.entry = NULL,
                           !.pc = IF f.op = "linked_list_pop" THEN "return" ELSE "unlock"]
     IN  \/ /\ lastEntry = HEAD
            /\ plat_mutex_lock(t)
            /\ Go(t, done)
            /\ UNCHANGED <<links, fields, status>>
         \/ /\ lastEntry # HEAD
            /\ Section(t)
            /\ Touches({lastEntry, previous[lastEntry]})
            /\ PopLast
            /\ Go(t, Clearing(done))
  /\ UNCHANGED lastAccess

\* The reset of locker_tid that ends plat_mutex_unlock
Clear(t) ==
  /\ At(t, "clear")
  /\ locker_tid' = NoTid
  /\ Go(t, [Top(t) EXCEPT !.pc = Top(t).then, !.then = "return"])
  /\ UNCHANGED <<links, fields, lastAccess, owner, status>>

----------------------------------------------------------------------------
(* linked_list_forEach *)

\* The lock of linked_list_hasPtr, getById and removeEntryByPtr
Outer(t) ==
  /\ At(t, "outer")
  /\ plat_mutex_lock(t)
  /\ Go(t, [Top(t) EXCEPT !.pc = "first"])
  /\ UNCHANGED <<links, fields, lastAccess, status>>

\* len and firstEntry are read before the lock.
First(t) ==
  /\ At(t, "first")
  /\ LET f == Top(t)
         none == len = 0 \/ (f.op = "linked_list_getByIndex" /\ len < f.arg)
     IN  Go(t, IF none THEN Found(f, NULL) ELSE [f EXCEPT !.entry = firstEntry, !.pc = "enter"])
  /\ UNCHANGED <<links, fields, lastAccess, mutex, status>>

\* The walk starts, or returns at once with the mutex locked.
Enter(t) ==
  /\ At(t, "enter")
  /\ plat_mutex_lock(t)
  /\ LET f == Top(t)
     IN  /\ Go(t, IF f.entry = HEAD THEN Found(f, NULL) ELSE [f EXCEPT !.pc = "visit"])
         /\ Touches({f.entry})
  /\ UNCHANGED <<links, fields, lastAccess>>

\* The test of the worker that linked_list_forEach was given
Matches(f, e) ==
  CASE f.op \in PtrSearches -> data[e] = f.arg
    [] f.op = "linked_list_getById" -> block_id[e] = f.arg
    [] f.op = "linked_list_getByIndex" -> f.i = f.arg
    [] OTHER -> FALSE

\* The next entry of a walk, read before its worker ran
NextAfter(f) == IF f.pc = "relock" THEN f.nxt ELSE next[f.entry]

\* The walk ends with `out`, or goes on with index i.  The mutex is locked
\* again first.
WalkOn(t, f, ends, out, i) ==
  IF ends \/ NextAfter(f) = NULL
  THEN /\ Section(t)
       /\ Go(t, Clearing(Found(f, out)))
  ELSE /\ plat_mutex_lock(t)
       /\ Go(t, [f EXCEPT !.entry = NextAfter(f), !.nxt = NULL, !.pc = "visit", !.i = i,
                          !.arg = IF f.op = "linked_list_forEach" THEN NULL ELSE @])

\* The index is not counted.
Faulty_Advance(t, f, ends, out) == WalkOn(t, f, ends, out, f.i)

\* Only the search for an index looks at it.
Advance(t, f, ends, out) ==
  WalkOn(t, f, ends, out, IF f.op = "linked_list_getByIndex" THEN f.i + 1 ELSE 0)

\* A worker of the library: a search, a report or a sum
Visit(t) ==
  /\ At(t, "visit") /\ Top(t).op \notin {"linked_list_forEach", "linked_list_destroy"}
  /\ LET f == Top(t)
         match == Matches(f, f.entry)
     IN  Advance(t, f, match, IF match THEN f.entry ELSE NULL) /\ Touches({f.entry})
  /\ UNCHANGED <<links, fields, lastAccess>>

\* pri_listDestroyer.  The links stay as they are.
VisitDestroy(t) ==
  /\ At(t, "visit") /\ Top(t).op = "linked_list_destroy"
  /\ Advance(t, Top(t), FALSE, NULL)
  /\ Touches({Top(t).entry})
  /\ Destroyed(Top(t).entry)
  /\ UNCHANGED <<next, previous, firstEntry, lastEntry, len, lastAccess>>

\* sn_mem_metadata_for_each: the worker is the program's.
VisitCallback(t) ==
  /\ At(t, "visit") /\ Top(t).op = "linked_list_forEach"
  /\ Go(t, [Top(t) EXCEPT !.pc = "callback", !.nxt = next[Top(t).entry]])
  /\ Touches({Top(t).entry})
  /\ UNCHANGED <<links, fields, lastAccess, mutex>>

\* The program's worker returns and stops the walk, or does not.
CallbackReturns(t) ==
  /\ At(t, "callback")
  /\ \E stop \in BOOLEAN : Advance(t, [Top(t) EXCEPT !.pc = "relock"], stop, NULL)
  /\ UNCHANGED <<links, fields, lastAccess, status>>

----------------------------------------------------------------------------
(* What follows a walk *)

\* linked_list_getByPtr, getById and getByIndex note the entry they found,
\* without the mutex, ...
Note(t) ==
  /\ At(t, "note")
  /\ lastAccess' = Top(t).entry
  /\ Go(t, [Top(t) EXCEPT !.pc = "touch"])
  /\ UNCHANGED <<links, fields, mutex, status>>

\* ... and lock to raise its weight.
Touch(t) ==
  /\ At(t, "touch") /\ Section(t)
  /\ Touches({Top(t).entry})
  /\ Go(t, Clearing([Top(t) EXCEPT !.pc = "return"]))
  /\ UNCHANGED <<links, fields, lastAccess>>

\* linked_list_removeEntry: the last entry is left to linked_list_pop.
linked_list_removeEntry(t) ==
  /\ At(t, "unlink") /\ Section(t)
  /\ LET f == Top(t)
     IN  \/ /\ lastEntry = f.entry
            /\ Go(t, Clearing([f EXCEPT !.entry = NULL, !.pc = "linked_list_pop"]))
            /\ UNCHANGED <<links, fields, status>>
         \/ /\ lastEntry # f.entry
            /\ Touches({f.entry, previous[f.entry], next[f.entry]} \ {NULL})
            /\ Unlink(f.entry)
            /\ Go(t, Clearing([f EXCEPT !.entry = NULL, !.pc = "unlock"]))
  /\ UNCHANGED lastAccess

\* The unlock of linked_list_hasPtr and removeEntryByPtr releases the mutex,
\* whoever has it.
Unlock(t) ==
  /\ At(t, "unlock")
  /\ owner' = NoTid
  /\ lastAccess' = IF Top(t).entry # NULL THEN Top(t).entry ELSE lastAccess
  /\ Go(t, Clearing([Top(t) EXCEPT !.entry = NULL, !.pc = "return"]))
  /\ UNCHANGED <<links, fields, locker_tid, status>>

\* __sn__pri__crash__ prints lastAccess, and then the list.
Report(t) ==
  /\ At(t, "report")
  /\ Touches({lastAccess} \ {NULL})
  /\ Go(t, [Top(t) EXCEPT !.pc = "first"])
  /\ UNCHANGED <<links, fields, lastAccess, mutex>>

\* The walk after[op] follows that of op, or the process ends.
Follow(t, after) ==
  /\ At(t, "next walk")
  /\ LET f == Top(t)
     IN  \/ /\ f.op \in DOMAIN after
            /\ Go(t, [f EXCEPT !.op = after[f.op], !.pc = "first"])
            /\ UNCHANGED status
         \/ f.op \notin DOMAIN after /\ status' = "exited" /\ UNCHANGED stack
  /\ UNCHANGED <<links, fields, lastAccess, mutex>>

\* The entries are destroyed before the blocks are freed.
Faulty_NextWalk(t) ==
  Follow(t, [sn_debug_crash |-> "linked_list_destroy", linked_list_destroy |-> "doexit"])

\* A crash exits, and at exit the blocks are freed, then the entries.
NextWalk(t) == Follow(t, [sn_debug_crash |-> "doexit", doexit |-> "linked_list_destroy"])

Terminated == status # "running" /\ UNCHANGED vars

Step(t) ==
  \/ linked_list_push(t) \/ linked_list_entry_set(t) \/ linked_list_pop(t) \/ Clear(t)
  \/ Outer(t) \/ First(t) \/ Enter(t) \/ Visit(t) \/ VisitDestroy(t) \/ VisitCallback(t)
  \/ CallbackReturns(t) \/ Note(t) \/ Touch(t) \/ linked_list_removeEntry(t) \/ Unlock(t)
  \/ Report(t) \/ NextWalk(t)

Next == Terminated \/ \E t \in Threads : Step(t) \/ \E op \in Ops : Call(t, op)

Spec == Init /\ [][Next]_vars

----------------------------------------------------------------------------
(* Properties *)

\* Where a call can stand between two steps
Points == {"outer", "first", "enter", "visit", "callback", "note", "touch", "unlink", "unlock",
           "linked_list_push", "linked_list_pop", "set", "report", "next walk", "clear", "return"}

CallType ==
  [op : Reached,
   arg : Keys \cup Nat \cup {NULL}, entry : Entries \cup {HEAD, NULL}, nxt : Entries \cup {NULL},
   i : Nat, pc : Points, then : Points]

TypeOK ==
  /\ alive \in SUBSET Entries
  /\ next \in [Entries \cup {HEAD} -> Entries \cup {NULL}]
  /\ previous \in [Entries \cup {HEAD} -> Entries \cup {HEAD, NULL}]
  /\ data \in [Entries -> Keys \cup {NULL}] /\ block_id \in [Entries -> Nat]
  /\ firstEntry \in Entries \cup {HEAD} /\ lastEntry \in Entries \cup {HEAD}
  /\ lastAccess \in Entries \cup {NULL} /\ len \in Nat
  /\ owner \in Threads \cup {NoTid} /\ locker_tid \in Threads \cup {NoTid}
  /\ stack \in [Threads -> Seq(CallType)]
  /\ status \in {"running", "undefined", "aborted", "exited"}

\* s is the list: it is what the links, forwards and backwards, firstEntry
\* and lastEntry say, and no allocated entry is outside it.
Chain(s) ==
  LET n == Cardinality(alive)
      node(i) == IF i = 0 THEN HEAD ELSE s[i]
  IN  /\ \A i, j \in 1..n : s[i] = s[j] => i = j
      /\ \A i \in 1..n : previous[s[i]] = node(i - 1)
      /\ \A i \in 0..n : next[node(i)] = IF i = n THEN NULL ELSE s[i + 1]
      /\ firstEntry = IF n = 0 THEN HEAD ELSE s[1]
      /\ lastEntry = node(n)

Orders == {s \in [1..Cardinality(alive) -> alive] : Chain(s)}

Destroys(t) == \E k \in DOMAIN stack[t] : stack[t][k].op = "linked_list_destroy"
Intact == status = "running" /\ \A t \in Threads : ~Destroys(t)

\* Pushes and removals, in any order and from any callback, leave a doubly
\* linked list of all entries that are allocated.
WellLinked == Intact => Orders # {}

\* len, which linked_list_forEach takes for the emptiness of the list, is
\* never too small: a list with entries is walked.
LenCovers == Intact => len >= Cardinality(alive)

\* No function touches a destroyed entry, whatever callbacks removed ...
NeverDangling == status # "undefined"

\* ... but the crash report (sn_crash.c:134), when a removal has destroyed the
\* entry that lastAccess still points to.
OnlyReportDangles ==
  status = "undefined" =>
    /\ lastAccess \notin alive \cup {NULL}
    /\ \E t \in Threads : stack[t] # << >> /\ Top(t).op = "sn_debug_crash" /\ Top(t).pc = "first"

\* The entry a search should find in s
FirstMatch(f, s) ==
  LET I == {i \in DOMAIN s : Matches([f EXCEPT !.i = i - 1], s[i])}
  IN  IF I = {} THEN NULL ELSE s[CHOOSE i \in I : \A j \in I : i <= j]

EndsSearch(t) ==
  /\ At(t, "visit") /\ Top(t).op \in Searches
  /\ stack'[t][1].pc = "clear"

\* A search that walks the links ends with the first entry that matches, and
\* without one only when no entry does.
SearchExact ==
  [][\A t \in Threads : EndsSearch(t) => \A s \in Orders : stack'[t][1].entry = FirstMatch(Top(t), s)]_vars

\* linked_list_destroy leaves no entry allocated.
AllDestroyed == status = "exited" => alive = {}

\* A call that leaves entries in the list does not return with the mutex
\* locked.  On an empty list linked_list_pop, linked_list_getById and
\* linked_list_forEach do, and the next thread waits for ever.
LockReturned ==
  [][\A t \in Threads : stack[t] # << >> /\ stack'[t] = << >> /\ alive' # {} => owner' # t]_vars

============================================================================
