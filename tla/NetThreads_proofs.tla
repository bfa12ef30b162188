------------------------- MODULE NetThreads_proofs -------------------------
(***************************************************************************)
(* The invariants of NetThreads for any number of threads, addresses,      *)
(* entries and slots, when the program calls sn_free only while no other   *)
(* thread allocates, frees or queries (FreesApart).  Between two steps of  *)
(* a call the block it is about is neither free nor tracked, or still      *)
(* tracked and already freed: ThreadInv says which, by the step the thread *)
(* is at.                                                                  *)
(***************************************************************************)
EXTENDS NetThreads, SafetyNetSafety_proofs

----------------------------------------------------------------------------
(* The inductive invariant *)

Steps == {"idle", "limit", "malloc", "charge", "store", "push", "work", "walk", "hit", "reread",
          "list", "search", "note", "use", "invalidate", "free", "remove", "unlink", "pop"}

FrameType ==
  [op : {"none", "sn_malloc", "sn_free", "sn_query_tid"}, at : Steps, ptr : Pointers,
   entry : Entries \cup {NULL}, slot : 0..MAX_SLOTS, n : 0..(SIZE_MOD - 1), usage : 0..(SIZE_MOD - 1)]

\* What a thread inside a function knows of its local variables
Allocates(f) ==
  /\ f.entry = NULL /\ f.n # 0
  /\ \/ f.at \in {"limit", "malloc"} /\ f.ptr = NULL
     \/ f.at \in {"charge", "store", "push"} /\ f.ptr \in Addrs /\ f.ptr \notin Tracked

\* The entry sn_free works on is the one of its block.
Owns(f) == f.entry \in Listed /\ data[f.entry] = f.ptr

Frees(f) ==
  /\ f.ptr \in Tracked /\ f.ptr \in Addrs
  /\ \/ f.at \in {"hit", "list"}
     \/ f.at = "search" /\ list # << >> /\ f.entry = list[1]
     \/ f.at = "reread" /\ f.slot \in Slots /\ (value[f.slot] # NULL => data[value[f.slot]] = f.ptr)
     \/ f.at \in {"note", "charge", "store", "invalidate"} /\ Owns(f)
     \/ f.at \in {"free", "remove", "unlink"} /\ Owns(f) /\ \A i \in Slots : key[i] # f.ptr
     \/ /\ f.at = "pop" /\ Owns(f) /\ \A i \in Slots : key[i] # f.ptr
        /\ list # << >> /\ f.entry = list[Len(list)]

Queries(f) ==
  /\ f.ptr \in Addrs
  /\ \/ f.at \in {"work", "walk", "hit", "list"}
     \/ f.at = "reread" /\ f.slot \in Slots
     \/ f.at \in {"search", "note", "use"} /\ f.entry \in Listed

Fits(f) ==
  \/ f = Outside
  \/ f.op = "sn_malloc" /\ Allocates(f)
  \/ f.op = "sn_free" /\ Frees(f)
  \/ f.op = "sn_query_tid" /\ Queries(f)

\* Each entry is in the list once and has a block of its own.
Once ==
  /\ \A i, j \in DOMAIN list : list[i] = list[j] => i = j
  /\ \A e \in Listed : data[e] \in Addrs
  /\ \A e, f \in Listed : data[e] = data[f] => e = f

\* libc's blocks are the ones in the list and on their way to it.
Accounts == {a \in Addrs : live[a] > 0} = (Tracked \ Leaving) \cup Arriving

\* Two calls of one kind are about two blocks.
Alone ==
  \A t, u \in Threads :
    /\ thread[t].op = thread[u].op /\ thread[t].op \in {"sn_malloc", "sn_free"}
    /\ thread[t].ptr = thread[u].ptr /\ thread[t].ptr # NULL
    => t = u

\* The program gave up what it frees.
Holds ==
  /\ held \subseteq Tracked
  /\ \A t \in Threads : thread[t].op = "sn_free" => thread[t].ptr \notin held

\* While a thread is in sn_free the others are outside.
FreesOnly ==
  \A t, u \in Threads : thread[t].op = "sn_free" /\ u # t => thread[u].op = "none"

\* A walk is one of a query.
Walks == call = NoCall \/ \E t \in Threads : thread[t].op = "sn_query_tid" /\ thread[t].at = "walk"

Running ==
  /\ Once /\ Accounts /\ Alone /\ Holds /\ FreesOnly /\ Walks
  /\ \A t \in Threads : Fits(thread[t])

ThreadInv ==
  /\ TypeOK /\ thread \in [Threads -> FrameType] /\ held \subseteq Addrs
  /\ CacheCoherent /\ NeverUndefined
  /\ status = "running" => Running

----------------------------------------------------------------------------
(* The parts of SafetyNet's steps that hold between two steps of a call *)

LEMMA WorkerCoherent ==
  ASSUME TypeOK, CacheCoherent, memman_CacheAlgorithmWorker
  PROVE  /\ CacheCoherent' /\ status' = "running"
         /\ UNCHANGED <<live, foreign, list, data, size, call>>
<1> DEFINE ctx == list[walk]
<1>1. ctx \in Listed /\ ctx # NULL /\ status = "running"
  <2>1. walk > 0 /\ walk <= Len(list) /\ walk \in Nat /\ status = "running"
    BY DEF memman_CacheAlgorithmWorker, TypeOK, ControlType
  <2>2. walk \in DOMAIN list
    BY <2>1 DEF TypeOK, DataType
  <2> QED
    BY <2>1, <2>2, NullAssumption DEF Listed, TypeOK, DataType
<1>2. UNCHANGED <<live, foreign, list, data, size, call>>
  BY DEF memman_CacheAlgorithmWorker, heap
<1>3. Listed' = Listed
  BY <1>2 DEF Listed
<1>4. \/ key' = key /\ value' = value /\ status' = status
      \/ \E T, R : /\ key' = [i \in Slots |-> IF i \in T THEN data[ctx] ELSE key[i]]
                  /\ value' = [i \in Slots |-> IF i \in T THEN ctx ELSE value[i]]
                  /\ R \subseteq Slots /\ Reads({value[i] : i \in R} \ {NULL})
  <2>1. \A T : {j \in Slots : \A k \in T : j <= k} \subseteq Slots
    OBVIOUS
  <2> QED
    BY <2>1, Zenon DEF memman_CacheAlgorithmWorker
<1> HIDE DEF ctx
<1>5. CASE key' = key /\ value' = value /\ status' = status
  BY <1>1, <1>2, <1>3, <1>5 DEF CacheCoherent
<1>6. CASE ~(key' = key /\ value' = value /\ status' = status)
  <2>1. PICK T, R : /\ key' = [i \in Slots |-> IF i \in T THEN data[ctx] ELSE key[i]]
                    /\ value' = [i \in Slots |-> IF i \in T THEN ctx ELSE value[i]]
                    /\ R \subseteq Slots /\ Reads({value[i] : i \in R} \ {NULL})
    BY <1>4, <1>6
  <2>2. status' = "running"
    BY <2>1 DEF Reads, CacheCoherent
  <2>3. CacheCoherent'
    BY <1>1, <1>2, <1>3, <2>1 DEF CacheCoherent
  <2> QED
    BY <1>2, <2>2, <2>3
<1> QED
  BY <1>5, <1>6

\* Each slot stays or is emptied.
Empties ==
  \A i \in Slots : \/ key'[i] = key[i] /\ value'[i] = value[i]
                   \/ key'[i] = NULL /\ value'[i] = NULL

LEMMA ClearCoherent ==
  ASSUME TypeOK, CacheCoherent, sn_fast_cache_clear
  PROVE  /\ CacheCoherent' /\ Empties /\ status = "running" /\ status' = "running"
         /\ UNCHANGED <<live, foreign, list, data, size, call>>
<1> DEFINE keyed == {i \in Slots : key[i] # NULL}
           hit == {value[i] : i \in keyed}
<1>1. Begin("sn_fast_cache_clear") /\ status = "running" /\ UNCHANGED call
  BY DEF sn_fast_cache_clear, Begin, Idle, control
<1>2. /\ key' = [i \in Slots |-> IF i \in keyed THEN NULL ELSE key[i]]
      /\ value' = [i \in Slots |-> IF i \in keyed THEN NULL ELSE value[i]]
      /\ Reads(hit)
      /\ UNCHANGED <<live, foreign, list, data, size>>
  BY DEF sn_fast_cache_clear, heap
<1>3. status' = "running"
  BY <1>1, <1>2 DEF CacheCoherent, Reads
<1>4. Listed' = Listed
  BY <1>2 DEF Listed
<1>5. CacheCoherent' /\ Empties
  BY <1>1, <1>2, <1>4 DEF CacheCoherent, Empties
<1> QED
  BY <1>1, <1>2, <1>3, <1>5

\* An emptied slot still agrees with the list.
LEMMA EmptiesCoherent ==
  ASSUME CacheCoherent, Empties, UNCHANGED <<list, data>>
  PROVE  CacheCoherent'
<1>1. Listed' = Listed
  BY DEF Listed
<1> QED
  BY <1>1 DEF CacheCoherent, Empties

----------------------------------------------------------------------------
(* Steps that move no block *)

\* A step of the manager alone: slots are emptied, or filled while no thread
\* is in sn_free.
LEMMA SlotsStep ==
  ASSUME ThreadInv, status = "running", TypeOK', CacheCoherent', status' = "running",
         UNCHANGED <<live, list, data, thread, held, call>>,
         Empties \/ \A u \in Threads : thread[u].op # "sn_free"
  PROVE  ThreadInv'
<1>1. /\ Listed' = Listed /\ Tracked' = Tracked /\ Leaving' = Leaving /\ Arriving' = Arriving
  BY DEF Listed, Tracked, Leaving, Arriving
<1>2. Once' /\ Accounts' /\ Alone' /\ Holds' /\ FreesOnly' /\ Walks'
  BY <1>1, Zenon DEF ThreadInv, Running, Once, Accounts, Alone, Holds, FreesOnly, Walks
<1>3. ASSUME NEW u \in Threads PROVE Fits(thread[u])'
  <2> PICK f : f = thread[u]
    OBVIOUS
  <2>1. Fits(f) /\ thread'[u] = f
    BY DEF ThreadInv, Running
  <2>2. CASE f = Outside
    BY <2>1, <2>2 DEF Fits, Outside
  <2>3. CASE f.op = "sn_malloc" /\ Allocates(f)
    BY <1>1, <2>1, <2>3 DEF Fits, Allocates
  <2>4. CASE f.op = "sn_query_tid" /\ Queries(f)
    BY <1>1, <2>1, <2>4 DEF Fits, Queries
  <2>5. CASE f.op = "sn_free" /\ Frees(f)
    <3>1. Empties
      BY <2>5
    <3>2. Frees(f)'
      BY <1>1, <2>5, <3>1, NullAssumption DEF Frees, Owns, Empties
    <3> QED
      BY <2>1, <2>5, <3>2 DEF Fits, Frees, Owns
  <2> QED
    BY <2>1, <2>2, <2>3, <2>4, <2>5 DEF Fits
<1> QED
  BY <1>2, <1>3 DEF ThreadInv, Running, NeverUndefined

\* A thread goes on to a step where the list, libc and the program see the
\* same of it, or returns with no block under way.
LEMMA QuietStep ==
  ASSUME ThreadInv, status = "running", TypeOK', status' = "running",
         UNCHANGED <<live, list, data, key, value, held>>,
         NEW t \in Threads, NEW g \in FrameType, thread' = [thread EXCEPT ![t] = g], Fits(g),
         \/ /\ g.op = thread[t].op /\ g.ptr = thread[t].ptr
            /\ g.at \in Removing <=> thread[t].at \in Removing
         \/ /\ g = Outside /\ thread[t].at \notin Removing
            /\ thread[t].op = "sn_query_tid" \/ (thread[t].op = "sn_malloc" /\ thread[t].ptr = NULL),
         \/ call' = NoCall
         \/ g.op = "sn_query_tid" /\ g.at = "walk"
         \/ call' = call /\ thread[t].at # "walk"
  PROVE  ThreadInv'
<1>1. Listed' = Listed /\ Tracked' = Tracked
  BY DEF Listed, Tracked
<1>2. /\ thread \in [Threads -> FrameType] /\ thread' \in [Threads -> FrameType]
      /\ thread'[t] = g /\ \A u \in Threads \ {t} : thread'[u] = thread[u]
      /\ \A u \in Threads : Fits(thread[u])
  BY DEF ThreadInv, Running
<1>3. Leaving' = Leaving
  BY <1>2 DEF Leaving, Removing, Outside
<1>4. Arriving' = Arriving
  BY <1>2 DEF Arriving, Outside
<1>5. Once' /\ Accounts'
  BY <1>1, <1>3, <1>4 DEF ThreadInv, Running, Once, Accounts
<1>6. Alone'
  BY <1>2 DEF ThreadInv, Running, Alone, Outside
<1>7. Holds'
  BY <1>1, <1>2 DEF ThreadInv, Running, Holds, Outside
<1>8. FreesOnly'
  BY <1>2 DEF ThreadInv, Running, FreesOnly, Outside
<1>9. Walks'
  BY <1>2 DEF ThreadInv, Running, Walks
<1>10. \A f : Fits(f)' <=> Fits(f)
  BY <1>1 DEF Fits, Allocates, Frees, Owns, Queries
<1>11. \A u \in Threads : Fits(thread[u])'
  BY <1>1, <1>2, <1>10 DEF Fits, Allocates, Frees, Owns, Queries
<1>12. CacheCoherent'
  BY <1>1 DEF ThreadInv, CacheCoherent
<1> QED
  BY <1>2, <1>5, <1>6, <1>7, <1>8, <1>9, <1>11, <1>12 DEF ThreadInv, Running, NeverUndefined

\* The step a thread is at tells the function it is in.
LEMMA FrameAt ==
  ASSUME ThreadInv, status = "running", NEW t \in Threads
  PROVE  LET f == thread[t] IN
         /\ f \in FrameType /\ Fits(f)
         /\ f.at \in {"work", "walk", "use"} => f.op = "sn_query_tid" /\ Queries(f)
         /\ f.at \in {"limit", "malloc", "push"} => f.op = "sn_malloc" /\ Allocates(f)
         /\ f.at \in {"invalidate", "free"} \cup Removing => f.op = "sn_free" /\ Frees(f)
         /\ f.at \in {"hit", "reread", "list", "search", "note"} =>
              \/ f.op = "sn_free" /\ Frees(f)
              \/ f.op = "sn_query_tid" /\ Queries(f)
         /\ f.at \in {"charge", "store"} => \/ f.op = "sn_malloc" /\ Allocates(f)
                                            \/ f.op = "sn_free" /\ Frees(f)
<1> PICK f : f = thread[t]
  OBVIOUS
<1>1. f \in FrameType /\ Fits(f)
  BY DEF ThreadInv, Running
<1>2. CASE f = Outside
  BY <1>1, <1>2 DEF Outside, Removing
<1>3. CASE f.op = "sn_malloc" /\ Allocates(f)
  BY <1>1, <1>3 DEF Allocates, Removing
<1>4. CASE f.op = "sn_free" /\ Frees(f)
  BY <1>1, <1>4 DEF Frees, Owns, Removing
<1>5. CASE f.op = "sn_query_tid" /\ Queries(f)
  BY <1>1, <1>5 DEF Queries, Removing
<1> QED
  BY <1>1, <1>2, <1>3, <1>4, <1>5 DEF Fits

LEMMA OutsideFits == Outside \in FrameType /\ Fits(Outside)
  BY WidthAssumption DEF Outside, FrameType, Steps, Pointers, Fits

\* memman_work takes its mutexes and gives them back.
LEMMA WorkStep ==
  ASSUME ThreadInv, NEW t \in Threads, WorkBegins(t) \/ WorkEnds(t)
  PROVE  ThreadInv'
<1> PICK f : f = thread[t]
  OBVIOUS
<1>1. status = "running" /\ status' = "running" /\ f.at \in {"work", "walk"}
      /\ UNCHANGED <<live, list, data, key, value, held>> /\ UNCHANGED manager
  BY DEF WorkBegins, WorkEnds, At, Goes, manager, heap, entry, cache
<1>2. f \in FrameType /\ f.op = "sn_query_tid" /\ Queries(f)
  BY <1>1, FrameAt
<1>3. CASE WorkBegins(t)
  <2> PICK g : g = [f EXCEPT !.at = "walk"]
    OBVIOUS
  <2>1. g \in FrameType /\ Fits(g) /\ g.op = f.op /\ g.ptr = f.ptr /\ g.at = "walk"
    BY <1>2 DEF FrameType, Steps, Fits, Queries
  <2>2. /\ thread' = [thread EXCEPT ![t] = g] /\ f.at = "work" /\ walk' = 1
        /\ call' = [op |-> f.op, ptr |-> f.ptr, n |-> f.n]
    BY <1>3 DEF WorkBegins, Goes, At
  <2>3. ControlType'
    BY <1>2, <2>2 DEF ControlType, FrameType, WorkCalls, PtrQueries
  <2>4. TypeOK'
    BY <1>1, <2>3 DEF ThreadInv, TypeOK, DataType, ManagerType, manager, heap, entry, cache, flags
  <2> QED
    BY <1>1, <1>2, <2>1, <2>2, <2>4, QuietStep DEF Removing
<1>4. CASE WorkEnds(t)
  <2> PICK g : g = [f EXCEPT !.at = "hit"]
    OBVIOUS
  <2>1. g \in FrameType /\ Fits(g) /\ g.op = f.op /\ g.ptr = f.ptr /\ g.at = "hit"
    BY <1>2 DEF FrameType, Steps, Fits, Queries
  <2>2. /\ thread' = [thread EXCEPT ![t] = g] /\ f.at = "walk" /\ walk' = 0 /\ call' = NoCall
    BY <1>4 DEF WorkEnds, Goes, At
  <2>3. ControlType'
    BY <2>2 DEF ControlType, NoCall, Pointers
  <2>4. TypeOK'
    BY <1>1, <2>3 DEF ThreadInv, TypeOK, DataType, ManagerType, manager, heap, entry, cache, flags
  <2> QED
    BY <1>1, <1>2, <2>1, <2>2, <2>4, QuietStep DEF Removing
<1> QED
  BY <1>3, <1>4

\* A lookup leaves everything but a weight, lastAccess and the last error.
LEMMA LookedUp ==
  ASSUME ThreadInv, status = "running", UNCHANGED control,
         UNCHANGED <<manager, status>> \/ \E e \in Listed \cup {NULL} : Ended(e)
  PROVE  TypeOK' /\ status' = "running" /\ UNCHANGED <<live, list, data, key, value>>
<1>1. TypeOK /\ Listed \subseteq Entries /\ NULL \notin Entries
  BY NullAssumption DEF ThreadInv, TypeOK, DataType, Listed
<1>2. ControlType'
  BY DEF ThreadInv, TypeOK, ControlType, control
<1>3. CASE UNCHANGED <<manager, status>>
  BY <1>2, <1>3 DEF ThreadInv, TypeOK, DataType, ManagerType, manager, heap, entry, cache, flags
<1>4. ASSUME NEW e \in Listed \cup {NULL}, Ended(e)
      PROVE  TypeOK' /\ status' = "running" /\ UNCHANGED <<live, list, data, key, value>>
  <2>1. DataType' /\ ManagerType'
    BY <1>1, <1>4, EndedType
  <2> QED
    BY <1>1, <1>2, <1>4, <2>1 DEF TypeOK, Ended, Ends, Reads, heap, cache
<1> QED
  BY <1>3, <1>4

LEMMA HitSlotKeyed ==
  ASSUME NEW p
  PROVE  HitSlot(p) = 0 \/ (HitSlot(p) \in Slots /\ key[HitSlot(p)] = p)
<1> DEFINE I == {i \in Slots : key[i] = p}
<1>1. I \in SUBSET Nat
  BY WidthAssumption DEF Slots
<1>2. I # {} => Min(I) \in I
  BY <1>1, MinIn
<1> QED
  BY <1>2 DEF HitSlot

LEMMA CacheHitStep ==
  ASSUME ThreadInv, NEW t \in Threads, CacheHit(t)
  PROVE  ThreadInv'
<1> PICK f : f = thread[t]
  OBVIOUS
<1> PICK s : s = HitSlot(f.ptr)
  OBVIOUS
<1>1. /\ status = "running" /\ f.at = "hit" /\ call' = call /\ UNCHANGED control
      /\ UNCHANGED held
  BY DEF CacheHit, Locked, At, control, Goes
<1>2. f \in FrameType /\ ((f.op = "sn_free" /\ Frees(f)) \/ (f.op = "sn_query_tid" /\ Queries(f)))
  BY <1>1, FrameAt
<1>3. s = 0 \/ (s \in Slots /\ key[s] = f.ptr)
  BY HitSlotKeyed
<1>4. CASE s = 0 /\ Goes(t, [f EXCEPT !.at = "list"]) /\ UNCHANGED <<manager, status>>
  <2> PICK g : g = [f EXCEPT !.at = "list"]
    OBVIOUS
  <2>1. g \in FrameType /\ Fits(g) /\ g.op = f.op /\ g.ptr = f.ptr /\ g.at = "list"
    BY <1>2 DEF FrameType, Steps, Fits, Queries, Frees, Owns
  <2>2. thread' = [thread EXCEPT ![t] = g]
    BY <1>4 DEF Goes
  <2>3. TypeOK' /\ status' = "running" /\ UNCHANGED <<live, list, data, key, value>>
    BY <1>1, <1>4, LookedUp
  <2> QED
    BY <1>1, <1>2, <2>1, <2>2, <2>3, QuietStep DEF Removing
<1>5. CASE s # 0 /\ Goes(t, [f EXCEPT !.at = "reread", !.slot = s]) /\ Answer(value[s])
  <2> PICK g : g = [f EXCEPT !.at = "reread", !.slot = s]
    OBVIOUS
  <2>1. s \in Slots /\ s \in 0..MAX_SLOTS /\ key[s] = f.ptr
    BY <1>3, <1>5, WidthAssumption DEF Slots
  <2>2. value[s] \in Listed \cup {NULL} /\ (value[s] # NULL => data[value[s]] = f.ptr)
    BY <2>1 DEF ThreadInv, CacheCoherent
  <2>3. g \in FrameType /\ g.op = f.op /\ g.ptr = f.ptr /\ g.at = "reread" /\ g.slot = s
    BY <1>2, <2>1 DEF FrameType, Steps
  <2>4. Fits(g)
    BY <1>2, <2>1, <2>2, <2>3 DEF Fits, Queries, Frees, Owns
  <2>5. thread' = [thread EXCEPT ![t] = g]
    BY <1>5 DEF Goes
  <2>6. TypeOK' /\ status' = "running" /\ UNCHANGED <<live, list, data, key, value>>
    BY <1>1, <1>5, <2>2, EndedForms, LookedUp DEF ThreadInv
  <2> QED
    BY <1>1, <1>2, <2>3, <2>4, <2>5, <2>6, QuietStep DEF Removing
<1> QED
  BY <1>4, <1>5 DEF CacheHit

LEMMA RereadStep ==
  ASSUME ThreadInv, NEW t \in Threads, Reread(t)
  PROVE  ThreadInv'
<1> PICK f : f = thread[t]
  OBVIOUS
<1> PICK e : e = value[f.slot]
  OBVIOUS
<1> PICK g : g = [f EXCEPT !.at = IF e = NULL THEN "list" ELSE WithEntry(f.op), !.entry = e]
  OBVIOUS
<1>1. /\ status = "running" /\ f.at = "reread" /\ call' = call /\ UNCHANGED control
      /\ UNCHANGED held /\ thread' = [thread EXCEPT ![t] = g] /\ UNCHANGED <<manager, status>>
  BY DEF Reread, At, control, Goes
<1>2. f \in FrameType /\ ((f.op = "sn_free" /\ Frees(f)) \/ (f.op = "sn_query_tid" /\ Queries(f)))
  BY <1>1, FrameAt
<1>3. f.slot \in Slots /\ (f.op = "sn_free" /\ e # NULL => data[e] = f.ptr)
  BY <1>1, <1>2 DEF Frees, Owns, Queries
<1>4. (e # NULL => e \in Listed) /\ e \in Entries \cup {NULL}
  BY <1>3 DEF ThreadInv, TypeOK, DataType, CacheCoherent
<1>5. /\ g \in FrameType /\ g.op = f.op /\ g.ptr = f.ptr /\ g.entry = e
      /\ g.at = IF e = NULL THEN "list" ELSE WithEntry(f.op)
  BY <1>2, <1>4 DEF FrameType, Steps, WithEntry
<1>6. Fits(g) /\ g.at \notin Removing /\ f.at \notin Removing
  BY <1>1, <1>2, <1>3, <1>4, <1>5 DEF Fits, Frees, Owns, Queries, WithEntry, Removing
<1>7. TypeOK' /\ status' = "running" /\ UNCHANGED <<live, list, data, key, value>>
  BY <1>1, LookedUp
<1> QED
  BY <1>1, <1>2, <1>5, <1>6, <1>7, QuietStep DEF Removing

\* A thread gives up without a block of its own.
LEMMA FailStep ==
  ASSUME ThreadInv, status = "running", NEW t \in Threads, NEW code \in Errors,
         Fails(t, code), UNCHANGED control, thread[t].at \notin {"walk"} \cup Removing,
         thread[t].op = "sn_query_tid" \/ (thread[t].op = "sn_malloc" /\ thread[t].ptr = NULL)
  PROVE  ThreadInv'
<1>1. TypeOK' /\ status' = "running" /\ UNCHANGED <<live, list, data, key, value>>
  BY EndedForms, LookedUp DEF Fails, ThreadInv
<1>2. call' = call /\ thread' = [thread EXCEPT ![t] = Outside] /\ UNCHANGED held
  BY DEF control, Fails, Goes
<1> QED
  BY <1>1, <1>2, OutsideFits, QuietStep DEF Removing

\* The list is empty, so a query ends here, or the walk starts at its first
\* entry, which stays where it is while a thread is in sn_free.
LEMMA FirstStep ==
  ASSUME ThreadInv, NEW t \in Threads, First(t)
  PROVE  ThreadInv'
<1> PICK f : f = thread[t]
  OBVIOUS
<1>1. status = "running" /\ f.at = "list" /\ call' = call /\ UNCHANGED control
  BY DEF First, At, control
<1>2. f \in FrameType /\ ((f.op = "sn_free" /\ Frees(f)) \/ (f.op = "sn_query_tid" /\ Queries(f)))
  BY <1>1, FrameAt
<1>3. CASE list = << >> /\ Fails(t, "SN_ERR_NO_ADDER_FOUND")
  <2>1. Tracked = {}
    BY <1>3 DEF Tracked, Listed
  <2>2. f.op = "sn_query_tid" /\ "SN_ERR_NO_ADDER_FOUND" \in Errors
    BY <1>2, <2>1 DEF Frees, Owns, Errors
  <2> QED
    BY <1>1, <1>3, <2>2, FailStep DEF Removing
<1>4. CASE /\ list # << >> /\ Goes(t, [f EXCEPT !.at = "search", !.entry = list[1]])
           /\ UNCHANGED <<manager, status>>
  <2> PICK g : g = [f EXCEPT !.at = "search", !.entry = list[1]]
    OBVIOUS
  <2>1. list[1] \in Listed /\ list[1] \in Entries
    BY <1>4 DEF ThreadInv, TypeOK, DataType, Listed
  <2>2. /\ g \in FrameType /\ g.op = f.op /\ g.ptr = f.ptr /\ g.entry = list[1] /\ g.at = "search"
    BY <1>2, <2>1 DEF FrameType, Steps
  <2>3. Fits(g) /\ g.at \notin Removing /\ f.at \notin Removing
    BY <1>1, <1>2, <1>4, <2>1, <2>2 DEF Fits, Frees, Owns, Queries, Removing
  <2>4. TypeOK' /\ status' = "running" /\ UNCHANGED <<live, list, data, key, value>>
    BY <1>1, <1>4, LookedUp
  <2>5. thread' = [thread EXCEPT ![t] = g] /\ UNCHANGED held
    BY <1>4 DEF Goes
  <2> QED
    BY <1>1, <1>2, <2>2, <2>3, <2>4, <2>5, QuietStep DEF Removing
<1> QED
  BY <1>3, <1>4 DEF First

\* A walk that starts at the first entry misses no entry.
LEMMA SearchStep ==
  ASSUME ThreadInv, NEW t \in Threads, Search(t)
  PROVE  ThreadInv'
<1> PICK f : f = thread[t]
  OBVIOUS
<1> PICK I : I = {i \in DOMAIN list : data[list[i]] = f.ptr /\ \E j \in 1..i : list[j] = f.entry}
  OBVIOUS
<1> PICK e : e = EntryAt(IF I = {} THEN 0 ELSE Min(I))
  OBVIOUS
<1>1. status = "running" /\ f.at = "search" /\ call' = call /\ UNCHANGED control
  BY DEF Search, Locked, At, control
<1>2. f \in FrameType /\ ((f.op = "sn_free" /\ Frees(f)) \/ (f.op = "sn_query_tid" /\ Queries(f)))
  BY <1>1, FrameAt
<1>3. f.entry \in Listed
  BY <1>1, <1>2 DEF Frees, Owns, Queries, ThreadInv, TypeOK, DataType, Listed
<1>4. /\ e = NULL => I = {}
      /\ e # NULL => e \in Listed /\ e \in Entries /\ data[e] = f.ptr
  <2>1. I \in SUBSET Nat /\ 0 \notin I /\ I \subseteq DOMAIN list
    BY DEF ThreadInv, TypeOK, DataType
  <2>2. I # {} => Min(I) \in I
    BY <2>1, MinIn
  <2>3. \A i \in DOMAIN list : list[i] \in Entries /\ list[i] \in Listed /\ list[i] # NULL
    BY NullAssumption DEF ThreadInv, TypeOK, DataType, Listed
  <2> QED
    BY <2>1, <2>2, <2>3 DEF EntryAt
<1>5. CASE e = NULL /\ Fails(t, "SN_ERR_NO_ADDER_FOUND")
  <2>1. f.op # "sn_free"
    <3>1. ASSUME f.op = "sn_free" PROVE FALSE
      <4>1. f.ptr \in Tracked /\ f.entry = list[1]
        BY <1>1, <1>2, <3>1 DEF Frees, Owns
      <4>2. PICK i \in DOMAIN list : data[list[i]] = f.ptr
        BY <4>1 DEF Tracked, Listed
      <4>3. 1 \in 1..i
        BY <4>2 DEF ThreadInv, TypeOK, DataType
      <4> QED
        BY <1>4, <1>5, <4>1, <4>2, <4>3
    <3> QED
      BY <3>1
  <2>2. "SN_ERR_NO_ADDER_FOUND" \in Errors
    BY DEF Errors
  <2> QED
    BY <1>1, <1>2, <1>5, <2>1, <2>2, FailStep DEF Removing
<1>6. CASE /\ e # NULL /\ Goes(t, [f EXCEPT !.at = "note", !.entry = e])
           /\ UNCHANGED <<manager, status>>
  <2> PICK g : g = [f EXCEPT !.at = "note", !.entry = e]
    OBVIOUS
  <2>1. /\ g \in FrameType /\ g.op = f.op /\ g.ptr = f.ptr /\ g.entry = e /\ g.at = "note"
    BY <1>2, <1>4, <1>6 DEF FrameType, Steps
  <2>2. Fits(g) /\ g.at \notin Removing /\ f.at \notin Removing
    BY <1>1, <1>2, <1>4, <1>6, <2>1 DEF Fits, Frees, Owns, Queries, Removing
  <2>3. TypeOK' /\ status' = "running" /\ UNCHANGED <<live, list, data, key, value>>
    BY <1>1, <1>6, LookedUp
  <2>4. thread' = [thread EXCEPT ![t] = g] /\ UNCHANGED held
    BY <1>6 DEF Goes
  <2> QED
    BY <1>1, <1>2, <2>1, <2>2, <2>3, <2>4, QuietStep DEF Removing
<1> QED
  BY <1>3, <1>5, <1>6 DEF Search

LEMMA NoteStep ==
  ASSUME ThreadInv, NEW t \in Threads, Note(t)
  PROVE  ThreadInv'
<1> PICK f : f = thread[t]
  OBVIOUS
<1>1. /\ status = "running" /\ f.at = "note" /\ call' = call /\ UNCHANGED control
      /\ Ends(error_code, f.entry, f.entry)
      /\ Goes(t, IF f.op = "sn_free" THEN [f EXCEPT !.at = "charge"] ELSE Outside)
  BY DEF Note, Locked, At, control
<1>2. f \in FrameType /\ ((f.op = "sn_free" /\ Frees(f)) \/ (f.op = "sn_query_tid" /\ Queries(f)))
  BY <1>1, FrameAt
<1>3. f.entry \in Listed /\ f.entry \in Entries /\ error_code \in Errors
  BY <1>1, <1>2 DEF Frees, Owns, Queries, ThreadInv, TypeOK, DataType, ManagerType, Listed
<1>4. TypeOK' /\ status' = "running" /\ UNCHANGED <<live, list, data, key, value>>
  <2>1. Ended(f.entry)
    BY <1>1, <1>3 DEF Ended
  <2> QED
    BY <1>1, <1>3, <2>1, LookedUp
<1>5. CASE f.op = "sn_free"
  <2> PICK g : g = [f EXCEPT !.at = "charge"]
    OBVIOUS
  <2>1. /\ g \in FrameType /\ g.op = f.op /\ g.ptr = f.ptr /\ g.entry = f.entry /\ g.at = "charge"
    BY <1>2 DEF FrameType, Steps
  <2>2. Fits(g) /\ g.at \notin Removing /\ f.at \notin Removing
    BY <1>1, <1>2, <1>5, <2>1 DEF Fits, Frees, Owns, Removing
  <2>3. thread' = [thread EXCEPT ![t] = g] /\ UNCHANGED held
    BY <1>1, <1>5 DEF Goes
  <2> QED
    BY <1>1, <1>2, <1>4, <2>1, <2>2, <2>3, QuietStep DEF Removing
<1>6. CASE f.op # "sn_free"
  <2>1. thread' = [thread EXCEPT ![t] = Outside] /\ UNCHANGED held /\ f.at \notin Removing
    BY <1>1, <1>6 DEF Goes, Removing
  <2> QED
    BY <1>1, <1>2, <1>4, <1>6, <2>1, OutsideFits, QuietStep DEF Removing
<1> QED
  BY <1>5, <1>6

LEMMA CheckLimitStep ==
  ASSUME ThreadInv, NEW t \in Threads, CheckLimit(t)
  PROVE  ThreadInv'
<1> PICK f : f = thread[t]
  OBVIOUS
<1>1. status = "running" /\ f.at = "limit" /\ call' = call /\ UNCHANGED control
  BY DEF CheckLimit, At, control
<1>2. f \in FrameType /\ f.op = "sn_malloc" /\ Allocates(f) /\ f.ptr = NULL
  BY <1>1, FrameAt DEF Allocates
<1>3. CASE Fails(t, "SN_ERR_ALLOC_LIMIT_HIT")
  <2>1. "SN_ERR_ALLOC_LIMIT_HIT" \in Errors
    BY DEF Errors
  <2> QED
    BY <1>1, <1>2, <1>3, <2>1, FailStep DEF Removing
<1>4. CASE Goes(t, [f EXCEPT !.at = "malloc"]) /\ UNCHANGED <<manager, status>>
  <2> PICK g : g = [f EXCEPT !.at = "malloc"]
    OBVIOUS
  <2>1. /\ g \in FrameType /\ g.op = f.op /\ g.ptr = f.ptr /\ g.at = "malloc" /\ Fits(g)
    BY <1>2 DEF FrameType, Steps, Fits, Allocates
  <2>2. TypeOK' /\ status' = "running" /\ UNCHANGED <<live, list, data, key, value>>
    BY <1>1, <1>4, LookedUp
  <2>3. thread' = [thread EXCEPT ![t] = g] /\ UNCHANGED held
    BY <1>4 DEF Goes
  <2> QED
    BY <1>1, <1>2, <2>1, <2>2, <2>3, QuietStep DEF Removing
<1> QED
  BY <1>3, <1>4 DEF CheckLimit

LEMMA UseEntryStep ==
  ASSUME ThreadInv, NEW t \in Threads, UseEntry(t)
  PROVE  ThreadInv'
<1> PICK f : f = thread[t]
  OBVIOUS
<1>1. /\ status = "running" /\ f.at = "use" /\ UNCHANGED control /\ call' = call
      /\ thread' = [thread EXCEPT ![t] = Outside] /\ UNCHANGED held /\ UNCHANGED manager
  BY DEF UseEntry, At, control, Goes
<1>2. f \in FrameType /\ f.op = "sn_query_tid" /\ f.entry \in Listed
  BY <1>1, FrameAt DEF Queries
<1>3. status' = status
  BY <1>1, <1>2 DEF UseEntry, Reads
<1>4. TypeOK' /\ status' = "running" /\ UNCHANGED <<live, list, data, key, value>>
  BY <1>1, <1>3, LookedUp
<1> QED
  BY <1>1, <1>2, <1>4, OutsideFits, QuietStep DEF Removing

LEMMA ReadUsageStep ==
  ASSUME ThreadInv, NEW t \in Threads, ReadUsage(t)
  PROVE  ThreadInv'
<1> PICK f : f = thread[t]
  OBVIOUS
<1> PICK m : m = IF f.op = "sn_free" THEN size[f.entry] ELSE f.n
  OBVIOUS
<1> PICK g : g = [f EXCEPT !.at = "store", !.usage = global_memory_usage, !.n = m]
  OBVIOUS
<1>1. /\ status = "running" /\ f.at = "charge" /\ UNCHANGED control /\ call' = call
      /\ thread' = [thread EXCEPT ![t] = g] /\ UNCHANGED held /\ UNCHANGED manager
      /\ Reads({f.entry} \ {NULL})
  BY DEF ReadUsage, At, control
<1>2. f \in FrameType /\ ((f.op = "sn_malloc" /\ Allocates(f)) \/ (f.op = "sn_free" /\ Frees(f)))
  BY <1>1, FrameAt
<1>3. f.op = "sn_malloc" => f.entry = NULL /\ m = f.n
  BY <1>2 DEF Allocates
<1>4. f.op = "sn_free" => f.entry \in Listed /\ data[f.entry] = f.ptr /\ m = size[f.entry]
  BY <1>1, <1>2 DEF Frees, Owns
<1>5. status' = status
  BY <1>1, <1>2, <1>3, <1>4 DEF Reads
<1>6. TypeOK' /\ status' = "running" /\ UNCHANGED <<live, list, data, key, value>>
  BY <1>1, <1>5, LookedUp
<1>7. m \in 0..(SIZE_MOD - 1)
  <2>1. Listed \subseteq Entries /\ size \in [Entries -> 0..(SIZE_MOD - 1)]
    BY DEF ThreadInv, TypeOK, DataType, Listed
  <2> QED
    BY <1>2, <1>3, <1>4, <2>1 DEF FrameType
<1>8. global_memory_usage \in 0..(SIZE_MOD - 1)
  BY DEF ThreadInv, TypeOK, ManagerType
<1>9. /\ g \in FrameType /\ g.op = f.op /\ g.ptr = f.ptr /\ g.at = "store" /\ g.entry = f.entry /\ g.n = m
  BY <1>2, <1>7, <1>8 DEF FrameType, Steps
<1>10. Fits(g)
  BY <1>1, <1>2, <1>3, <1>4, <1>9 DEF Fits, Allocates, Frees, Owns
<1> QED
  BY <1>1, <1>2, <1>6, <1>9, <1>10, QuietStep DEF Removing

LEMMA StoreUsageStep ==
  ASSUME ThreadInv, NEW t \in Threads, StoreUsage(t)
  PROVE  ThreadInv'
<1> PICK f : f = thread[t]
  OBVIOUS
<1> PICK g : g = [f EXCEPT !.at = IF f.op = "sn_free" THEN "invalidate" ELSE "push"]
  OBVIOUS
<1>1. /\ status = "running" /\ f.at = "store" /\ UNCHANGED control /\ call' = call
      /\ thread' = [thread EXCEPT ![t] = g] /\ UNCHANGED held /\ status' = "running"
      /\ UNCHANGED <<heap, list, entry, cache, flags, error_code>>
      /\ global_memory_usage' = (f.usage + Charge(f)) % SIZE_MOD
  BY DEF StoreUsage, Writes, Goes, At, control
<1>2. f \in FrameType /\ ((f.op = "sn_malloc" /\ Allocates(f)) \/ (f.op = "sn_free" /\ Frees(f)))
  BY <1>1, FrameAt
<1>3. global_memory_usage' \in 0..(SIZE_MOD - 1)
  <2>1. f.usage \in Nat /\ f.n \in Nat /\ SIZE_MOD \in Nat \ {0}
    BY <1>2, WidthAssumption DEF FrameType
  <2>2. f.usage + Charge(f) \in Int
    BY <2>1 DEF Charge
  <2> QED
    BY <1>1, <2>1, <2>2, ModRange
<1>4. TypeOK' /\ UNCHANGED <<live, list, data, key, value>>
  BY <1>1, <1>3 DEF ThreadInv, TypeOK, DataType, ManagerType, ControlType, control, heap, entry, cache, flags
<1>5. /\ g \in FrameType /\ g.op = f.op /\ g.ptr = f.ptr /\ g.entry = f.entry /\ g.n = f.n
      /\ g.at = IF f.op = "sn_free" THEN "invalidate" ELSE "push"
  BY <1>2 DEF FrameType, Steps
<1>6. Fits(g) /\ g.at \notin Removing
  BY <1>1, <1>2, <1>5 DEF Fits, Allocates, Frees, Owns, Removing
<1> QED
  BY <1>1, <1>2, <1>4, <1>5, <1>6, QuietStep DEF Removing

----------------------------------------------------------------------------
(* Calls, and steps that move a block *)

LEMMA CallStep ==
  ASSUME FreesApart, ThreadInv, NEW t \in Threads, NEW op \in DOMAIN Start, Call(t, op)
  PROVE  ThreadInv'
<1>1. PICK x \in Inputs(op) :
        /\ thread' = [thread EXCEPT ![t] = [Outside EXCEPT !.op = op, !.at = Start[op],
                                                           !.ptr = x[1], !.n = x[2]]]
        /\ held' = IF op = "sn_free" THEN held \ {x[1]} ELSE held
  BY DEF Call
<1>2. status = "running" /\ thread[t] = Outside /\ MayCall(t, op) /\ UNCHANGED vars
  BY DEF Call
<1>3. op \in {"sn_malloc", "sn_free", "sn_query_tid"}
  BY DEF Start
<1>4. /\ op = "sn_malloc" => x[1] = NULL /\ x[2] \in Sizes \ {0}
      /\ op = "sn_free" => x[1] \in held /\ x[2] = 0
      /\ op = "sn_query_tid" => x[1] \in Addrs /\ x[2] = 0
  BY <1>1, <1>3 DEF Inputs
<1>21. PICK g : g = [Outside EXCEPT !.op = op, !.at = Start[op], !.ptr = x[1], !.n = x[2]]
  OBVIOUS
<1>5. /\ g.op = op /\ g.at = Start[op] /\ g.ptr = x[1] /\ g.n = x[2]
      /\ g.entry = NULL /\ g.slot = 0 /\ g.usage = 0
      /\ g.at = CASE op = "sn_malloc" -> "limit" [] op = "sn_free" -> "hit" [] op = "sn_query_tid" -> "work"
  BY <1>3, <1>21 DEF Outside, Start
<1>6. g \in FrameType
  <2>1. x[1] \in Pointers
    BY <1>3, <1>4 DEF ThreadInv, Pointers
  <2>2. x[2] \in 0..(SIZE_MOD - 1) /\ 0 \in 0..MAX_SLOTS /\ 0 \in 0..(SIZE_MOD - 1)
    <3>1. MAX_SLOTS \in Nat /\ SIZE_MOD \in Nat \ {0}
      BY WidthAssumption
    <3>2. 0 \in 0..(SIZE_MOD - 1) /\ 0 \in 0..MAX_SLOTS
      BY <3>1
    <3> QED
      BY <1>3, <1>4, <3>2, InputAssumption
  <2>3. g.at \in Steps
    BY <1>3, <1>5 DEF Steps
  <2> QED
    BY <1>3, <1>5, <1>21, <2>1, <2>2, <2>3 DEF FrameType, Outside
<1>7. /\ thread \in [Threads -> FrameType] /\ thread' \in [Threads -> FrameType]
      /\ thread'[t] = g /\ \A u \in Threads \ {t} : thread'[u] = thread[u]
      /\ \A u \in Threads : Fits(thread[u])
      /\ held' \subseteq held
  BY <1>1, <1>2, <1>6, <1>21 DEF ThreadInv, Running
<1>8. Listed' = Listed /\ Tracked' = Tracked /\ UNCHANGED <<live, list, data, key, value, call, status>>
  BY <1>2 DEF Listed, Tracked, vars, heap, entry, cache, control
<1>9. thread[t].op = "none" /\ thread[t].at = "idle" /\ thread[t].ptr = NULL
  BY <1>2 DEF Outside
<1>10. held \subseteq Tracked /\ held \subseteq Addrs
  BY <1>2 DEF ThreadInv, Running, Holds
<1>11. Fits(g)
  BY <1>3, <1>4, <1>5, <1>10 DEF Fits, Allocates, Frees, Owns, Queries
<1>20. /\ thread'[t] = g /\ \A u \in Threads \ {t} : thread'[u] = thread[u]
       /\ g.op = op /\ g.ptr = x[1] /\ g.at \notin {"walk", "idle"} \cup Removing
       /\ thread[t].op = "none" /\ thread[t].at = "idle"
  BY <1>3, <1>5, <1>7, <1>9 DEF Removing
<1>12. Leaving' = Leaving
  BY <1>20 DEF Leaving, Removing
<1>13. Arriving' = Arriving
  <2>1. op = "sn_malloc" => x[1] = NULL
    BY <1>4
  <2> QED
    BY <1>20, <2>1 DEF Arriving
<1>14. Once' /\ Accounts' /\ Walks'
  BY <1>2, <1>5, <1>7, <1>8, <1>9, <1>12, <1>13 DEF ThreadInv, Running, Once, Accounts, Walks
<1>15. Holds'
  BY <1>1, <1>2, <1>4, <1>5, <1>7, <1>8, <1>10 DEF ThreadInv, Running, Holds
<1>16. Alone'
  <2>1. /\ op = "sn_malloc" => x[1] = NULL
        /\ op = "sn_free" => \A u \in Threads : thread[u].op = "sn_free" => thread[u].ptr # x[1]
    BY <1>2, <1>4 DEF ThreadInv, Running, Holds
  <2>2. Alone
    BY <1>2 DEF ThreadInv, Running
  <2> QED
    BY <1>20, <2>1, <2>2 DEF Alone
<1>17. FreesOnly'
  <2>1. \A u \in Threads \ {t} : thread[u].op # "none" => op # "sn_free" /\ thread[u].op # "sn_free"
    BY <1>2 DEF MayCall
  <2>2. FreesOnly
    BY <1>2 DEF ThreadInv, Running
  <2>3. op # "none"
    BY <1>3
  <2> QED
    BY <1>20, <2>1, <2>2, <2>3 DEF FreesOnly
<1>18. ASSUME NEW u \in Threads PROVE Fits(thread[u])'
  <2> PICK f : f = thread'[u]
    OBVIOUS
  <2>1. Fits(f)
    BY <1>7, <1>11
  <2>2. Fits(f)'
    BY <1>8, <2>1 DEF Fits, Allocates, Frees, Owns, Queries
  <2> QED
    BY <1>8, <2>2 DEF Fits, Allocates, Frees, Owns, Queries
<1>19. CacheCoherent' /\ NeverUndefined' /\ TypeOK'
  BY <1>2, <1>8 DEF ThreadInv, CacheCoherent, NeverUndefined, TypeOK, DataType, ManagerType,
     ControlType, vars, heap, entry, cache, flags, control
<1> QED
  BY <1>7, <1>10, <1>14, <1>15, <1>16, <1>17, <1>18, <1>19 DEF ThreadInv, Running

LEMMA FlatStep ==
  ASSUME ThreadInv, NEW t \in Threads, FlatCall(t)
  PROVE  ThreadInv'
<1>1. UNCHANGED <<thread, held>>
  BY DEF FlatCall, program
<1>2. CASE sn_fast_cache_clear
  <2>1. TypeOK'
    BY <1>2, ClearType DEF ThreadInv
  <2>2. /\ CacheCoherent' /\ Empties /\ status = "running" /\ status' = "running"
        /\ UNCHANGED <<live, foreign, list, data, size, call>>
    BY <1>2, ClearCoherent DEF ThreadInv
  <2> QED
    BY <1>1, <2>1, <2>2, SlotsStep
<1>3. CASE sn_set_alloc_limit
  <2>1. TypeOK'
    BY <1>3, SettingType DEF ThreadInv
  <2>2. /\ status = "running" /\ status' = "running"
        /\ UNCHANGED <<live, list, data, key, value, call>>
    BY <1>3 DEF sn_set_alloc_limit, Begin, Idle, control, heap, entry, cache
  <2>3. Empties
    BY <2>2 DEF Empties
  <2>4. CacheCoherent'
    BY <2>2, <2>3, EmptiesCoherent DEF ThreadInv
  <2> QED
    BY <1>1, <2>1, <2>2, <2>3, <2>4, SlotsStep
<1> QED
  BY <1>2, <1>3 DEF FlatCall

\* memman_work fills slots only while a query walks, so in no sn_free.
LEMMA WorkerStep ==
  ASSUME ThreadInv, memman_CacheAlgorithmWorker, UNCHANGED program
  PROVE  ThreadInv'
<1>1. status = "running" /\ call # NoCall /\ UNCHANGED <<thread, held>>
  BY DEF memman_CacheAlgorithmWorker, program
<1>2. TypeOK'
  BY WorkType DEF ThreadInv
<1>3. /\ CacheCoherent' /\ status' = "running"
      /\ UNCHANGED <<live, foreign, list, data, size, call>>
  BY WorkerCoherent DEF ThreadInv
<1>4. ASSUME NEW u \in Threads PROVE thread[u].op # "sn_free"
  <2>1. PICK t \in Threads : thread[t].op = "sn_query_tid"
    BY <1>1 DEF ThreadInv, Running, Walks
  <2> QED
    BY <1>1, <2>1 DEF ThreadInv, Running, FreesOnly
<1> QED
  BY <1>1, <1>2, <1>3, <1>4, SlotsStep

\* In an allocation no block is on its way out, in a free none on its way in.
LEMMA OneWay ==
  ASSUME ThreadInv, status = "running", NEW t \in Threads
  PROVE  /\ thread[t].op = "sn_malloc" => Leaving = {}
         /\ thread[t].op = "sn_free" => Arriving = {}
<1>1. \A u \in Threads : thread[u].at \in Removing => thread[u].op = "sn_free"
  BY FrameAt
<1>2. FreesOnly
  BY DEF ThreadInv, Running
<1> QED
  BY <1>1, <1>2 DEF FreesOnly, Leaving, Arriving

LEMMA MallocStep ==
  ASSUME ThreadInv, NEW t \in Threads, plat_malloc(t)
  PROVE  ThreadInv'
<1>0. PICK f : f = thread[t]
  OBVIOUS
<1>1. status = "running" /\ f.at = "malloc" /\ call' = call /\ UNCHANGED control
  BY <1>0 DEF plat_malloc, At, control
<1>2. f \in FrameType /\ f.op = "sn_malloc" /\ Allocates(f) /\ f.ptr = NULL /\ f.n # 0
  BY <1>0, <1>1, FrameAt DEF Allocates
<1>3. CASE Fails(t, "SN_ERR_BAD_ALLOC")
  <2>1. "SN_ERR_BAD_ALLOC" \in Errors
    BY DEF Errors
  <2> QED
    BY <1>0, <1>1, <1>2, <1>3, <2>1, FailStep DEF Removing
<1>4. CASE ~Fails(t, "SN_ERR_BAD_ALLOC")
  <2>1. PICK a \in FreeAddrs :
          /\ live' = [live EXCEPT ![a] = f.n]
          /\ Goes(t, [f EXCEPT !.at = "charge", !.ptr = a])
          /\ UNCHANGED <<foreign, list, entry, cache, flags, global_memory_usage, error_code, status>>
    BY <1>0, <1>4 DEF plat_malloc
  <2>2. PICK g : g = [f EXCEPT !.at = "charge", !.ptr = a]
    OBVIOUS
  <2>3. /\ g \in FrameType /\ g.op = "sn_malloc" /\ g.ptr = a /\ g.at = "charge"
        /\ g.entry = NULL /\ g.n # 0 /\ a \in Addrs /\ a # NULL
    BY <1>2, <2>2, NullAssumption DEF FrameType, Steps, FreeAddrs, Pointers, Allocates
  <2>4. /\ thread \in [Threads -> FrameType] /\ thread' \in [Threads -> FrameType]
        /\ thread'[t] = g /\ \A u \in Threads \ {t} : thread'[u] = thread[u]
        /\ UNCHANGED held
    BY <2>1, <2>2, <2>3 DEF ThreadInv, Goes
  <2>5. Listed' = Listed /\ Tracked' = Tracked /\ UNCHANGED <<list, data, key, value, call, status>>
    BY <1>1, <2>1 DEF Listed, Tracked, entry, cache
  <2>6. Once /\ Accounts /\ Alone /\ Holds /\ FreesOnly /\ Walks
        /\ \A u \in Threads : Fits(thread[u])
    BY <1>1 DEF ThreadInv, Running
  <2>7. Leaving = {} /\ Leaving' = {}
    <3>1. Leaving = {}
      BY <1>0, <1>1, <1>2, OneWay
    <3> QED
      BY <2>3, <2>4, <3>1 DEF Leaving, Removing
  <2>8. Arriving' = Arriving \cup {a}
    BY <1>0, <1>2, <2>3, <2>4 DEF Arriving
  <2>9. a \notin Tracked /\ a \notin Arriving
    <3>1. ~(live[a] > 0)
      BY <2>1 DEF FreeAddrs
    <3> QED
      BY <2>3, <2>6, <2>7, <3>1 DEF Accounts
  <2>10. live \in [Addrs -> 0..(SIZE_MOD - 1)] /\ f.n \in 0..(SIZE_MOD - 1) /\ f.n > 0
    BY <1>2, WidthAssumption DEF ThreadInv, TypeOK, DataType, FrameType
  <2>11. {b \in Addrs : live'[b] > 0} = {b \in Addrs : live[b] > 0} \cup {a}
    BY <2>1, <2>3, <2>10
  <2>12. Accounts'
    BY <2>5, <2>6, <2>7, <2>8, <2>11 DEF Accounts
  <2>13. Alone'
    <3>1. \A u \in Threads : thread[u].op = "sn_malloc" => thread[u].ptr # a
      BY <2>3, <2>9 DEF Arriving
    <3> QED
      BY <2>3, <2>4, <2>6, <3>1 DEF Alone
  <2>14. Once' /\ Holds' /\ FreesOnly' /\ Walks'
    <3>1. Once'
      BY <2>5, <2>6 DEF Once
    <3>2. Holds'
      BY <2>3, <2>4, <2>5, <2>6 DEF Holds
    <3>3. FreesOnly'
      BY <1>0, <1>2, <2>3, <2>4, <2>6 DEF FreesOnly
    <3>4. Walks'
      BY <1>0, <1>2, <2>4, <2>5, <2>6 DEF Walks
    <3> QED
      BY <3>1, <3>2, <3>3, <3>4
  <2>15. ASSUME NEW u \in Threads PROVE Fits(thread[u])'
    <3>1. PICK h : h = thread'[u]
      OBVIOUS
    <3>2. Fits(g)
      BY <2>3, <2>9 DEF Fits, Allocates
    <3>3. Fits(h)
      BY <2>4, <2>6, <3>1, <3>2
    <3>4. Fits(h)'
      BY <2>5, <3>3 DEF Fits, Allocates, Frees, Owns, Queries
    <3> QED
      BY <2>5, <3>1, <3>4 DEF Fits, Allocates, Frees, Owns, Queries
  <2>16. CacheCoherent' /\ NeverUndefined'
    BY <2>5 DEF ThreadInv, CacheCoherent, NeverUndefined
  <2>17. TypeOK'
    <3>1. DataType'
      BY <2>1, <2>10 DEF ThreadInv, TypeOK, DataType, entry, cache
    <3>2. ManagerType' /\ ControlType'
      BY <1>1, <2>1 DEF ThreadInv, TypeOK, ManagerType, ControlType, cache, flags, control
    <3> QED
      BY <3>1, <3>2 DEF TypeOK
  <2> QED
    BY <2>4, <2>12, <2>13, <2>14, <2>15, <2>16, <2>17 DEF ThreadInv, Running
<1> QED
  BY <1>3, <1>4

LEMMA PushStep ==
  ASSUME ThreadInv, NEW t \in Threads, Push(t)
  PROVE  ThreadInv'
<1>0. PICK f : f = thread[t]
  OBVIOUS
<1>1. /\ status = "running" /\ f.at = "push" /\ UNCHANGED control /\ call' = call
      /\ linked_list_push(f.ptr, f.n, NULL)
      /\ thread' = [thread EXCEPT ![t] = Outside]
      /\ held' = held \cup {f.ptr}
      /\ UNCHANGED <<heap, cache, flags, global_memory_usage, error_code>>
  BY <1>0 DEF Push, Locked, At, control
<1>2. /\ f \in FrameType /\ f.op = "sn_malloc" /\ f.ptr \in Addrs /\ f.ptr \notin Tracked
      /\ f.ptr # NULL
  BY <1>0, <1>1, FrameAt, NullAssumption DEF Allocates
<1>3. TypeOK' /\ thread' \in [Threads -> FrameType] /\ held' \subseteq Addrs
  <2>1. f.ptr \in Pointers /\ f.n \in 0..(SIZE_MOD - 1)
    BY <1>2 DEF FrameType
  <2>2. DataType' /\ status' \in {"running", "aborted", "undefined"}
    BY <1>1, <2>1, PushType DEF ThreadInv, TypeOK, DataType, heap, cache
  <2>3. ManagerType' /\ ControlType'
    BY <1>1, <2>2 DEF ThreadInv, TypeOK, ManagerType, ControlType, cache, flags, control
  <2> QED
    BY <1>1, <1>2, <2>2, <2>3, OutsideFits DEF TypeOK, ThreadInv
<1>4. CASE Abort /\ UNCHANGED <<list, entry>>
  <2>1. status' = "aborted" /\ UNCHANGED <<list, data, key, value>> /\ Listed' = Listed
    BY <1>1, <1>4 DEF Abort, entry, cache, Listed
  <2> QED
    BY <1>3, <2>1 DEF ThreadInv, CacheCoherent, NeverUndefined
<1>5. CASE ~(Abort /\ UNCHANGED <<list, entry>>)
  <2>1. PICK e \in Entries \ Listed :
          list' = Append(list, e) /\ data' = [data EXCEPT ![e] = f.ptr] /\ Reads({NULL} \ {NULL})
    BY <1>1, <1>5, Zenon DEF linked_list_push
  <2>2. status' = "running" /\ UNCHANGED <<live, key, value>>
    BY <1>1, <2>1 DEF Reads, heap, cache
  <2>3. /\ Len(list) \in Nat /\ DOMAIN list = 1..Len(list) /\ DOMAIN list' = 1..(Len(list) + 1)
        /\ \A i \in 1..Len(list) : list'[i] = list[i]
        /\ list'[Len(list) + 1] = e
    BY <2>1 DEF ThreadInv, TypeOK, DataType
  <2>4. Listed' = Listed \cup {e}
    <3>1. DOMAIN list' = DOMAIN list \cup {Len(list) + 1}
      BY <2>3
    <3> QED
      BY <2>3, <3>1 DEF Listed
  <2>5. (\A x \in Listed : data'[x] = data[x]) /\ data'[e] = f.ptr
    <3>1. Listed \subseteq Entries
      BY DEF Listed, ThreadInv, TypeOK, DataType
    <3> QED
      BY <2>1, <3>1 DEF ThreadInv, TypeOK, DataType
  <2>6. Tracked' = Tracked \cup {f.ptr}
    BY <2>4, <2>5 DEF Tracked
  <2>7. /\ Once /\ Accounts /\ Alone /\ Holds /\ FreesOnly /\ Walks
        /\ \A u \in Threads : Fits(thread[u])
    BY <1>1 DEF ThreadInv, Running
  <2>8. thread'[t] = Outside /\ \A u \in Threads \ {t} : thread'[u] = thread[u]
    BY <1>1 DEF ThreadInv
  <2>9. Outside.op = "none" /\ Outside.at = "idle" /\ Outside.ptr = NULL
    BY DEF Outside
  <2>10. Leaving = {} /\ Leaving' = {}
    <3>1. Leaving = {}
      BY <1>0, <1>1, <1>2, OneWay
    <3> QED
      BY <2>8, <2>9, <3>1 DEF Leaving, Removing
  <2>11. Arriving' = Arriving \ {f.ptr} /\ f.ptr \in Arriving
    BY <1>0, <1>2, <2>7, <2>8, <2>9 DEF Arriving, Alone
  <2>12. Accounts'
    BY <2>2, <2>6, <2>7, <2>10, <2>11 DEF Accounts
  <2>13. Once'
    <3>1. ASSUME NEW i \in DOMAIN list', NEW j \in DOMAIN list', list'[i] = list'[j] PROVE i = j
      <4>1. \A n \in 1..Len(list) : list[n] \in Listed
        BY <2>3 DEF Listed
      <4> QED
        BY <2>3, <2>7, <3>1, <4>1 DEF Once
    <3>2. ASSUME NEW x \in Listed', NEW y \in Listed', data'[x] = data'[y] PROVE x = y
      <4>1. \A z \in Listed : data[z] \in Tracked
        BY DEF Tracked
      <4> QED
        BY <1>2, <2>4, <2>5, <2>7, <3>2, <4>1 DEF Once
    <3>3. \A x \in Listed' : data'[x] \in Addrs
      BY <1>2, <2>4, <2>5, <2>7 DEF Once
    <3> QED
      BY <3>1, <3>2, <3>3 DEF Once
  <2>14. Alone'
    BY <2>7, <2>8, <2>9 DEF Alone
  <2>15. FreesOnly'
    BY <2>7, <2>8, <2>9 DEF FreesOnly
  <2>16. Walks'
    BY <1>0, <1>1, <1>2, <2>7, <2>8 DEF Walks
  <2>17. ASSUME NEW u \in Threads PROVE thread[u].op # "sn_free"
    BY <1>0, <1>2, <2>7 DEF FreesOnly
  <2>18. Holds'
    BY <1>1, <2>6, <2>7, <2>8, <2>9, <2>17 DEF Holds
  <2>19. ASSUME NEW u \in Threads PROVE Fits(thread[u])'
    <3>1. PICK h : h = thread'[u]
      OBVIOUS
    <3>2. CASE u = t
      BY <2>8, <3>2 DEF Fits, Outside
    <3>3. CASE u # t
      <4>1. h = thread[u] /\ Fits(h) /\ h.op # "sn_free"
        BY <2>7, <2>8, <2>17, <3>1, <3>3
      <4>2. h.op = "sn_malloc" => h.ptr # f.ptr
        BY <1>0, <1>2, <2>7, <3>3, <4>1 DEF Alone
      <4>3. Fits(h)'
        BY <2>2, <2>4, <2>6, <4>1, <4>2 DEF Fits, Allocates, Queries
      <4>4. thread'[u] = h
        BY <3>1
      <4> QED
        BY <4>3, <4>4 DEF Fits, Allocates, Frees, Owns, Queries
    <3> QED
      BY <3>2, <3>3
  <2>20. CacheCoherent'
    BY <2>2, <2>4, <2>5 DEF ThreadInv, CacheCoherent
  <2> QED
    BY <1>3, <2>2, <2>12, <2>13, <2>14, <2>15, <2>16, <2>18, <2>19, <2>20
       DEF ThreadInv, Running, NeverUndefined
<1> QED
  BY <1>4, <1>5

LEMMA InvalidateStep ==
  ASSUME ThreadInv, NEW t \in Threads, Invalidate(t)
  PROVE  ThreadInv'
<1>0. PICK f : f = thread[t]
  OBVIOUS
<1>20. PICK keyed : keyed = {i \in Slots : key[i] = f.ptr}
  OBVIOUS
<1>21. PICK g : g = [f EXCEPT !.at = "free"]
  OBVIOUS
<1>1. /\ status = "running" /\ f.at = "invalidate" /\ UNCHANGED control /\ call' = call
      /\ thread' = [thread EXCEPT ![t] = g] /\ UNCHANGED held
      /\ key' = [i \in Slots |-> IF i \in keyed THEN NULL ELSE key[i]]
      /\ value' = [i \in Slots |-> IF i \in keyed THEN NULL ELSE value[i]]
      /\ available_cache_slots' = (available_cache_slots + Cardinality(keyed)) % BYTE
      /\ cached' = [x \in Entries |-> IF x \in {value[i] : i \in keyed} THEN 0 ELSE cached[x]]
      /\ Reads({value[i] : i \in keyed})
      /\ UNCHANGED <<heap, list, data, size, block_id, weight, lastAccess, flags, global_memory_usage,
                    error_code>>
  BY <1>0, <1>20, <1>21 DEF Invalidate, Resets, Locked, At, Goes, control, memman_cacheInvalidate
<1>2. f \in FrameType /\ f.op = "sn_free" /\ f.ptr \in Tracked /\ f.ptr \in Addrs /\ f.ptr # NULL
      /\ f.entry \in Listed /\ data[f.entry] = f.ptr
  BY <1>0, <1>1, FrameAt, NullAssumption DEF Frees, Owns
<1>3. status' = "running"
  BY <1>1, <1>2, <1>20 DEF Reads, ThreadInv, CacheCoherent
<1>4. Listed' = Listed /\ Tracked' = Tracked /\ UNCHANGED <<live, list, data>>
  BY <1>1 DEF Listed, Tracked, heap
<1>5. Empties
  BY <1>1 DEF Empties
<1>6. CacheCoherent'
  BY <1>4, <1>5, EmptiesCoherent DEF ThreadInv
<1>7. /\ g \in FrameType /\ g.op = "sn_free" /\ g.ptr = f.ptr /\ g.at = "free" /\ g.entry = f.entry
  BY <1>2, <1>21 DEF FrameType, Steps
<1>8. /\ thread \in [Threads -> FrameType] /\ thread' \in [Threads -> FrameType]
      /\ thread'[t] = g /\ \A u \in Threads \ {t} : thread'[u] = thread[u]
  BY <1>1, <1>7 DEF ThreadInv
<1>9. /\ Once /\ Accounts /\ Alone /\ Holds /\ FreesOnly /\ Walks
      /\ \A u \in Threads : Fits(thread[u])
  BY <1>1 DEF ThreadInv, Running
<1>10. Leaving' = Leaving /\ Arriving' = Arriving
  BY <1>0, <1>1, <1>2, <1>7, <1>8 DEF Leaving, Arriving, Removing
<1>11. Once' /\ Accounts'
  BY <1>4, <1>9, <1>10 DEF Once, Accounts
<1>12. Alone'
  BY <1>0, <1>2, <1>7, <1>8, <1>9 DEF Alone
<1>13. Holds' /\ FreesOnly'
  <2>1. Holds'
    BY <1>0, <1>1, <1>2, <1>4, <1>7, <1>8, <1>9 DEF Holds
  <2>2. FreesOnly'
    BY <1>0, <1>2, <1>7, <1>8, <1>9 DEF FreesOnly
  <2> QED
    BY <2>1, <2>2
<1>14. Walks'
  BY <1>0, <1>1, <1>2, <1>8, <1>9 DEF Walks
<1>15. ASSUME NEW u \in Threads PROVE Fits(thread[u])'
  <2>1. PICK h : h = thread'[u]
    OBVIOUS
  <2>2. CASE u = t
    <3>1. \A i \in Slots : key'[i] # f.ptr
      BY <1>1, <1>2, <1>20
    <3> QED
      BY <1>2, <1>4, <1>7, <1>8, <2>2, <3>1 DEF Fits, Frees, Owns
  <2>3. CASE u # t
    <3>1. h = thread[u] /\ Fits(h)
      BY <1>8, <1>9, <2>1, <2>3
    <3>2. CASE h = Outside
      BY <2>1, <3>2 DEF Fits, Outside
    <3>3. CASE h.op = "sn_malloc" /\ Allocates(h)
      BY <1>4, <2>1, <3>3 DEF Fits, Allocates
    <3>4. CASE h.op = "sn_query_tid" /\ Queries(h)
      BY <1>4, <2>1, <3>4 DEF Fits, Queries
    <3>5. CASE h.op = "sn_free" /\ Frees(h)
      <4>1. Frees(h)'
        BY <1>4, <1>5, <3>5, NullAssumption DEF Frees, Owns, Empties
      <4> QED
        BY <2>1, <3>5, <4>1 DEF Fits, Frees, Owns
    <3> QED
      BY <3>1, <3>2, <3>3, <3>4, <3>5 DEF Fits
  <2> QED
    BY <2>2, <2>3
<1>16. TypeOK'
  <2>1. available_cache_slots' \in 0..(BYTE - 1)
    <3>1. Cardinality(keyed) \in Nat
      BY <1>20, SlotCount
    <3>2. available_cache_slots + Cardinality(keyed) \in Int /\ BYTE \in Nat \ {0}
      BY <3>1, WidthAssumption DEF ThreadInv, TypeOK, ManagerType
    <3> QED
      BY <1>1, <3>2, ModRange
  <2>2. DataType'
    BY <1>1 DEF ThreadInv, TypeOK, DataType, heap, Pointers
  <2>3. ManagerType' /\ ControlType'
    BY <1>1, <1>3, <2>1 DEF ThreadInv, TypeOK, ManagerType, ControlType, flags, control
  <2> QED
    BY <2>2, <2>3 DEF TypeOK
<1> QED
  BY <1>1, <1>3, <1>6, <1>8, <1>11, <1>12, <1>13, <1>14, <1>15, <1>16
     DEF ThreadInv, Running, NeverUndefined

LEMMA FreeStep ==
  ASSUME ThreadInv, NEW t \in Threads, plat_free(t)
  PROVE  ThreadInv'
<1>0. PICK f : f = thread[t]
  OBVIOUS
<1>21. PICK g : g = [f EXCEPT !.at = "remove"]
  OBVIOUS
<1>1. /\ status = "running" /\ f.at = "free" /\ UNCHANGED control /\ call' = call
      /\ thread' = [thread EXCEPT ![t] = g] /\ UNCHANGED held
      /\ UNCHANGED <<foreign, list, entry, cache, flags, global_memory_usage, error_code>>
  BY <1>0, <1>21 DEF plat_free, At, Goes, control
<1>2. /\ f \in FrameType /\ f.op = "sn_free" /\ f.ptr \in Tracked /\ f.ptr \in Addrs /\ f.ptr # NULL
      /\ f.entry \in Listed /\ data[f.entry] = f.ptr /\ \A i \in Slots : key[i] # f.ptr
  BY <1>0, <1>1, FrameAt, NullAssumption DEF Frees, Owns
<1>3. live' = [a \in Addrs |-> IF a = f.ptr THEN 0 ELSE live[a]]
  BY <1>0, <1>2 DEF plat_free
<1>4. Listed' = Listed /\ Tracked' = Tracked /\ UNCHANGED <<list, data, key, value>>
  BY <1>1 DEF Listed, Tracked, entry, cache
<1>7. /\ g \in FrameType /\ g.op = "sn_free" /\ g.ptr = f.ptr /\ g.at = "remove" /\ g.entry = f.entry
  BY <1>2, <1>21 DEF FrameType, Steps
<1>8. /\ thread \in [Threads -> FrameType] /\ thread' \in [Threads -> FrameType]
      /\ thread'[t] = g /\ \A u \in Threads \ {t} : thread'[u] = thread[u]
  BY <1>1, <1>7 DEF ThreadInv
<1>9. /\ Once /\ Accounts /\ Alone /\ Holds /\ FreesOnly /\ Walks
      /\ \A u \in Threads : Fits(thread[u])
  BY <1>1 DEF ThreadInv, Running
<1>5. f.ptr \notin Leaving
  <2>1. ASSUME NEW u \in Threads, thread[u].at \in Removing, thread[u].ptr = f.ptr PROVE FALSE
    <3>1. thread[u].op = "sn_free"
      BY <1>1, <2>1, FrameAt
    <3> QED
      BY <1>0, <1>1, <1>2, <1>9, <2>1, <3>1 DEF Alone, Removing
  <2> QED
    BY <2>1 DEF Leaving
<1>6. status' = "running"
  <2>1. live[f.ptr] > 0
    BY <1>2, <1>5, <1>9 DEF Accounts
  <2> QED
    BY <1>0, <1>2, <2>1 DEF plat_free
<1>10. Leaving' = Leaving \cup {f.ptr}
  BY <1>0, <1>1, <1>7, <1>8 DEF Leaving, Removing
<1>11. Arriving = {} /\ Arriving' = {}
  <2>1. Arriving = {}
    BY <1>0, <1>1, <1>2, OneWay
  <2> QED
    BY <1>7, <1>8, <2>1 DEF Arriving
<1>12. Once' /\ Accounts'
  <2>1. {a \in Addrs : live'[a] > 0} = {a \in Addrs : live[a] > 0} \ {f.ptr}
    BY <1>3
  <2> QED
    BY <1>4, <1>9, <1>10, <1>11, <2>1 DEF Once, Accounts
<1>13. Alone'
  BY <1>0, <1>2, <1>7, <1>8, <1>9 DEF Alone
<1>14. Holds' /\ FreesOnly'
  <2>1. Holds'
    BY <1>0, <1>1, <1>2, <1>4, <1>7, <1>8, <1>9 DEF Holds
  <2>2. FreesOnly'
    BY <1>0, <1>2, <1>7, <1>8, <1>9 DEF FreesOnly
  <2> QED
    BY <2>1, <2>2
<1>15. Walks'
  BY <1>0, <1>1, <1>2, <1>8, <1>9 DEF Walks
<1>16. ASSUME NEW u \in Threads PROVE Fits(thread[u])'
  <2>1. PICK h : h = thread'[u]
    OBVIOUS
  <2>2. Fits(g)
    BY <1>2, <1>7 DEF Fits, Frees, Owns
  <2>3. Fits(h)
    BY <1>8, <1>9, <2>1, <2>2
  <2>4. Fits(h)'
    BY <1>4, <2>3 DEF Fits, Allocates, Frees, Owns, Queries
  <2> QED
    BY <1>4, <2>1, <2>4 DEF Fits, Allocates, Frees, Owns, Queries
<1>17. CacheCoherent'
  BY <1>4 DEF ThreadInv, CacheCoherent
<1>18. TypeOK'
  <2>1. DataType'
    BY <1>1, <1>3, WidthAssumption DEF ThreadInv, TypeOK, DataType, entry, cache
  <2>2. ManagerType' /\ ControlType'
    BY <1>1, <1>6 DEF ThreadInv, TypeOK, ManagerType, ControlType, cache, flags, control
  <2> QED
    BY <2>1, <2>2 DEF TypeOK
<1> QED
  BY <1>1, <1>6, <1>8, <1>12, <1>13, <1>14, <1>15, <1>16, <1>17, <1>18
     DEF ThreadInv, Running, NeverUndefined

\* The entry found for the block is the one sn_free has worked on.
LEMMA SeekFinds ==
  ASSUME ThreadInv, status = "running", NEW t \in Threads, thread[t].at \in Removing
  PROVE  /\ Frees(thread[t]) /\ Owns(thread[t]) /\ thread[t].entry \in Entries
         /\ \A i \in Slots : key[i] # thread[t].ptr
         /\ linked_list_getByPtr(thread[t].ptr) = thread[t].entry
         /\ thread[t].entry # NULL
<1> PICK f : f = thread[t]
  OBVIOUS
<1>1. Frees(f) /\ Owns(f) /\ f.ptr \in Tracked /\ \A i \in Slots : key[i] # f.ptr
  BY FrameAt DEF Frees, Owns, Removing
<1>2. f.entry \in Entries /\ f.entry # NULL
  BY <1>1, NullAssumption DEF Owns, Listed, ThreadInv, TypeOK, DataType
<1>3. PICK e : e = linked_list_getByPtr(f.ptr)
  OBVIOUS
<1>4. e # NULL /\ e \in Listed /\ data[e] = f.ptr
  BY <1>1, <1>3, ByPtrListed DEF ThreadInv
<1>5. e = f.entry
  BY <1>1, <1>4 DEF Owns, ThreadInv, Running, Once
<1> QED
  BY <1>1, <1>2, <1>3, <1>5

LEMMA SeekStep ==
  ASSUME ThreadInv, NEW t \in Threads, Seek(t)
  PROVE  ThreadInv'
<1> PICK f : f = thread[t]
  OBVIOUS
<1> PICK g : g = [f EXCEPT !.at = "unlink", !.entry = f.entry]
  OBVIOUS
<1>1. status = "running" /\ f.at = "remove" /\ call' = call /\ UNCHANGED control
      /\ UNCHANGED <<manager, status>>
  BY DEF Seek, Locked, At, control
<1>2. f \in FrameType /\ f.op = "sn_free" /\ Frees(f) /\ Owns(f) /\ \A i \in Slots : key[i] # f.ptr
  BY <1>1, FrameAt, SeekFinds DEF Removing
<1>3. Goes(t, g)
  BY <1>1, SeekFinds DEF Seek, Removing
<1>4. /\ g \in FrameType /\ g.op = f.op /\ g.ptr = f.ptr /\ g.entry = f.entry /\ g.at = "unlink"
  BY <1>2 DEF FrameType, Steps
<1>5. Fits(g)
  BY <1>2, <1>4 DEF Fits, Frees, Owns
<1>6. TypeOK' /\ status' = "running" /\ UNCHANGED <<live, list, data, key, value>>
  BY <1>1, LookedUp
<1>7. thread' = [thread EXCEPT ![t] = g] /\ UNCHANGED held
  BY <1>3 DEF Goes
<1> QED
  BY <1>1, <1>2, <1>4, <1>5, <1>6, <1>7, QuietStep DEF Removing

\* The entry of the block leaves the list, and sn_free returns.
LEMMA DestroyStep ==
  ASSUME ThreadInv, NEW t \in Threads, NEW k \in DOMAIN list, status = "running",
         thread[t].at \in Removing, list[k] = thread[t].entry,
         Destroys(k), Goes(t, Outside), UNCHANGED control
  PROVE  ThreadInv'
<1>0. PICK f : f = thread[t]
  OBVIOUS
<1>20. k # 0 /\ EntryAt(k) = list[k]
  BY DEF ThreadInv, TypeOK, DataType, EntryAt
<1>1. /\ f.at \in Removing /\ call' = call
      /\ thread' = [thread EXCEPT ![t] = Outside] /\ UNCHANGED held /\ status' = "running"
      /\ UNCHANGED <<heap, lastAccess, cache, flags, global_memory_usage, error_code>>
      /\ list' = linked_list_removeEntry(k)
      /\ data' = Cleared(data, EntryAt(k), NULL) /\ size' = Cleared(size, EntryAt(k), 0)
      /\ cached' = Cleared(cached, EntryAt(k), 0)
      /\ block_id' = Cleared(block_id, EntryAt(k), 0) /\ weight' = Cleared(weight, EntryAt(k), 0)
  BY <1>0, <1>20 DEF Destroys, Goes, control
<1>2. /\ f \in FrameType /\ f.op = "sn_free" /\ f.ptr \in Tracked /\ f.ptr \in Addrs /\ f.ptr # NULL
      /\ f.entry \in Listed /\ data[f.entry] = f.ptr /\ \A i \in Slots : key[i] # f.ptr
  BY <1>0, FrameAt, SeekFinds, NullAssumption DEF Frees, Owns
<1>3. /\ Once /\ Accounts /\ Alone /\ Holds /\ FreesOnly /\ Walks
      /\ \A u \in Threads : Fits(thread[u])
  BY <1>1 DEF ThreadInv, Running
<1>4. k # 0 /\ k \in DOMAIN list /\ list[k] = f.entry /\ EntryAt(k) = f.entry
  BY <1>0, <1>20
<1>5. /\ Listed' = Listed \ {f.entry}
      /\ \A i, j \in DOMAIN list' : list'[i] = list'[j] => i = j
  BY <1>1, <1>3, <1>4, RemoveListed DEF Once, ThreadInv
<1>6. Listed \subseteq Entries /\ \A x \in Listed' : data'[x] = data[x]
  <2>1. Listed \subseteq Entries
    BY DEF Listed, ThreadInv, TypeOK, DataType
  <2> QED
    BY <1>1, <1>4, <1>5, <2>1 DEF Cleared
<1>7. Tracked' = Tracked \ {f.ptr}
  BY <1>2, <1>3, <1>5, <1>6 DEF Tracked, Once
<1>8. UNCHANGED <<live, key, value>>
  BY <1>1 DEF heap, cache
<1>9. thread'[t] = Outside /\ \A u \in Threads \ {t} : thread'[u] = thread[u]
  BY <1>1 DEF ThreadInv
<1>10. Outside.op = "none" /\ Outside.at = "idle" /\ Outside.ptr = NULL
  BY DEF Outside
<1>11. Leaving' = Leaving \ {f.ptr} /\ f.ptr \in Leaving
  <2>1. \A u \in Threads : thread[u].at \in Removing => thread[u].op = "sn_free"
    BY FrameAt
  <2>2. ASSUME NEW u \in Threads, u # t, thread[u].at \in Removing PROVE thread[u].ptr # f.ptr
    BY <1>0, <1>2, <1>3, <2>1, <2>2 DEF Alone
  <2>3. Outside.at \notin Removing
    BY <1>10 DEF Removing
  <2> QED
    BY <1>0, <1>1, <1>9, <2>2, <2>3 DEF Leaving
<1>12. Arriving = {} /\ Arriving' = {}
  <2>1. Arriving = {}
    BY <1>0, <1>1, <1>2, OneWay
  <2> QED
    BY <1>9, <1>10, <2>1 DEF Arriving
<1>13. Once' /\ Accounts'
  <2>1. Once'
    BY <1>3, <1>5, <1>6 DEF Once
  <2> QED
    BY <1>3, <1>7, <1>8, <1>11, <1>12, <2>1 DEF Accounts
<1>14. Alone' /\ FreesOnly'
  <2>1. Alone'
    BY <1>3, <1>9, <1>10 DEF Alone
  <2>2. FreesOnly'
    BY <1>3, <1>9, <1>10 DEF FreesOnly
  <2> QED
    BY <2>1, <2>2
<1>15. Holds'
  BY <1>0, <1>1, <1>2, <1>3, <1>7, <1>9, <1>10 DEF Holds
<1>16. Walks'
  BY <1>0, <1>1, <1>2, <1>3, <1>9 DEF Walks
<1>17. CacheCoherent'
  <2>1. \A i \in Slots : value[i] # f.entry
    BY <1>2, NullAssumption DEF ThreadInv, CacheCoherent, TypeOK, DataType, Listed
  <2> QED
    BY <1>5, <1>6, <1>8, <2>1 DEF ThreadInv, CacheCoherent
<1>18. ASSUME NEW u \in Threads PROVE Fits(thread[u])'
  <2>1. CASE u = t
    BY <1>9, <2>1 DEF Fits, Outside
  <2>2. CASE u # t
    <3>1. PICK h : h = thread[u]
      OBVIOUS
    <3>2. thread'[u] = h /\ Fits(h) /\ h.op = "none"
      BY <1>0, <1>2, <1>3, <1>9, <2>2, <3>1 DEF FreesOnly
    <3>3. h = Outside
      BY <3>2 DEF Fits
    <3> QED
      BY <3>2, <3>3 DEF Fits, Outside
  <2> QED
    BY <2>1, <2>2
<1>19. TypeOK'
  <2>1. list' \in Seq(Entries)
    BY <1>1, <1>4, RemoveTyped DEF ThreadInv
  <2>2. DataType'
    <3>1. /\ data' \in [Entries -> Pointers] /\ size' \in [Entries -> 0..(SIZE_MOD - 1)]
          /\ cached' \in [Entries -> 0..1] /\ block_id' \in [Entries -> Nat]
          /\ weight' \in [Entries -> 0..(BYTE - 1)]
      <4>1. 0 \in 0..(SIZE_MOD - 1) /\ 0 \in 0..1 /\ 0 \in Nat /\ 0 \in 0..(BYTE - 1)
        BY WidthAssumption
      <4>2. \A S, zero, e : \A h \in [Entries -> S] : zero \in S => Cleared(h, e, zero) \in [Entries -> S]
        BY DEF Cleared
      <4>3. NULL \in Pointers /\ DataType
        BY DEF ThreadInv, TypeOK, Pointers
      <4> QED
        BY <1>1, <4>1, <4>2, <4>3 DEF DataType
    <3> QED
      BY <1>1, <2>1, <3>1 DEF ThreadInv, TypeOK, DataType, heap, cache
  <2>3. ManagerType' /\ ControlType'
    BY <1>1 DEF ThreadInv, TypeOK, ManagerType, ControlType, cache, flags, control
  <2> QED
    BY <2>2, <2>3 DEF TypeOK
<1> QED
  BY <1>1, <1>13, <1>14, <1>15, <1>16, <1>17, <1>18, <1>19, OutsideFits
     DEF ThreadInv, Running, NeverUndefined

LEMMA UnlinkStep ==
  ASSUME ThreadInv, NEW t \in Threads, Unlink(t)
  PROVE  ThreadInv'
<1> PICK f : f = thread[t]
  OBVIOUS
<1>1. status = "running" /\ f.at = "unlink" /\ call' = call /\ UNCHANGED control
  BY DEF Unlink, Locked, At, control
<1>2. f \in FrameType /\ f.op = "sn_free" /\ Frees(f) /\ Owns(f) /\ \A i \in Slots : key[i] # f.ptr
  BY <1>1, FrameAt, SeekFinds DEF Removing
<1>3. CASE \E k \in 1..(Len(list) - 1) : list[k] = f.entry /\ Destroys(k) /\ Goes(t, Outside)
  <2>1. PICK k \in 1..(Len(list) - 1) : list[k] = f.entry /\ Destroys(k) /\ Goes(t, Outside)
    BY <1>3
  <2>2. k \in DOMAIN list
    BY <2>1 DEF ThreadInv, TypeOK, DataType
  <2> QED
    BY <1>1, <2>1, <2>2, DestroyStep DEF Removing
<1>4. CASE /\ f.entry = list[Len(list)] /\ Goes(t, [f EXCEPT !.at = "pop"])
           /\ UNCHANGED <<manager, status>>
  <2> PICK g : g = [f EXCEPT !.at = "pop"]
    OBVIOUS
  <2>1. /\ g \in FrameType /\ g.op = f.op /\ g.ptr = f.ptr /\ g.entry = f.entry /\ g.at = "pop"
    BY <1>2 DEF FrameType, Steps
  <2>2. list # << >>
    BY <1>2 DEF Owns, Listed
  <2>3. Fits(g)
    BY <1>2, <1>4, <2>1, <2>2 DEF Fits, Frees, Owns
  <2>4. TypeOK' /\ status' = "running" /\ UNCHANGED <<live, list, data, key, value>>
    BY <1>1, <1>4, LookedUp
  <2>5. thread' = [thread EXCEPT ![t] = g] /\ UNCHANGED held
    BY <1>4 DEF Goes
  <2> QED
    BY <1>1, <1>2, <2>1, <2>3, <2>4, <2>5, QuietStep DEF Removing
<1> QED
  BY <1>2, <1>3, <1>4 DEF Unlink, Owns

\* No other thread has pushed an entry since: the last one is sn_free's.
LEMMA PopStep ==
  ASSUME ThreadInv, NEW t \in Threads, linked_list_pop(t)
  PROVE  ThreadInv'
<1> PICK f : f = thread[t]
  OBVIOUS
<1>1. status = "running" /\ f.at = "pop" /\ UNCHANGED control /\ Goes(t, Outside)
  BY DEF linked_list_pop, Locked, At
<1>2. list # << >> /\ f.entry = list[Len(list)]
  BY <1>1, FrameAt DEF Frees, Owns, Removing
<1>3. Len(list) \in DOMAIN list /\ Destroys(Len(list))
  BY <1>2 DEF linked_list_pop, ThreadInv, TypeOK, DataType
<1> QED
  BY <1>1, <1>2, <1>3, DestroyStep DEF Removing

----------------------------------------------------------------------------
(* The invariant and what it says *)

LEMMA ThreadsStart == ThreadsInit => ThreadInv
<1> SUFFICES ASSUME ThreadsInit PROVE ThreadInv
  OBVIOUS
<1>1. TypeOK
  BY TypeInit DEF ThreadsInit
<1>2. /\ list = << >> /\ live = [a \in Addrs |-> 0] /\ call = NoCall /\ status = "running"
      /\ \A i \in Slots : key[i] = NULL /\ value[i] = NULL
      /\ thread = [t \in Threads |-> Outside] /\ held = {}
  BY DEF ThreadsInit, Init
<1>3. Listed = {} /\ Tracked = {}
  BY <1>2 DEF Listed, Tracked
<1>4. Outside.op = "none" /\ Outside.at = "idle" /\ Outside.ptr = NULL
  BY DEF Outside
<1>5. Leaving = {} /\ Arriving = {}
  BY <1>2, <1>4 DEF Leaving, Arriving, Removing
<1>6. Once /\ Accounts
  <2>1. Once
    BY <1>2, <1>3 DEF Once
  <2> QED
    BY <1>2, <1>3, <1>5, <2>1 DEF Accounts
<1>7. Alone /\ Holds /\ FreesOnly /\ Walks
  BY <1>2, <1>4 DEF Alone, Holds, FreesOnly, Walks
<1>8. \A t \in Threads : Fits(thread[t])
  BY <1>2, OutsideFits
<1> QED
  BY <1>1, <1>2, <1>6, <1>7, <1>8, OutsideFits DEF ThreadInv, Running, CacheCoherent, NeverUndefined

LEMMA ThreadsKeep ==
  ASSUME FreesApart, ThreadInv, [ThreadsNext]_allVars
  PROVE  ThreadInv'
<1>1. ASSUME NEW t \in Threads, Step(t) PROVE ThreadInv'
  <2>1. CASE \E op \in DOMAIN Start : Call(t, op)
    BY <2>1, CallStep
  <2>2. CASE FlatCall(t)
    BY <2>2, FlatStep
  <2>3. CASE WorkBegins(t) \/ WorkEnds(t)
    BY <2>3, WorkStep
  <2>4. CASE CacheHit(t) \/ Reread(t) \/ First(t) \/ Search(t) \/ Note(t)
    BY <2>4, CacheHitStep, RereadStep, FirstStep, SearchStep, NoteStep
  <2>5. CASE CheckLimit(t) \/ plat_malloc(t) \/ Push(t)
    BY <2>5, CheckLimitStep, MallocStep, PushStep
  <2>6. CASE ReadUsage(t) \/ StoreUsage(t)
    BY <2>6, ReadUsageStep, StoreUsageStep
  <2>7. CASE Invalidate(t) \/ plat_free(t) \/ Seek(t) \/ Unlink(t) \/ linked_list_pop(t)
    BY <2>7, InvalidateStep, FreeStep, SeekStep, UnlinkStep, PopStep
  <2>8. CASE UseEntry(t)
    BY <2>8, UseEntryStep
  <2> QED
    BY <1>1, <2>1, <2>2, <2>3, <2>4, <2>5, <2>6, <2>7, <2>8, Zenon DEF Step
<1>2. CASE memman_CacheAlgorithmWorker /\ UNCHANGED program
  BY <1>2, WorkerStep
<1>3. CASE UNCHANGED allVars
  <2>1. UNCHANGED <<thread, held, call, status, live, list, data, key, value>> /\ UNCHANGED vars
    BY <1>3 DEF allVars, program, vars, heap, entry, cache, control
  <2>2. TypeOK'
    BY <2>1, TypeStep DEF ThreadInv
  <2>3. Empties
    BY <2>1 DEF Empties
  <2>4. CacheCoherent'
    BY <2>1, <2>3, EmptiesCoherent DEF ThreadInv
  <2>5. CASE status = "running"
    BY <2>1, <2>2, <2>3, <2>4, <2>5, SlotsStep
  <2>6. CASE status # "running"
    BY <2>1, <2>2, <2>4, <2>6 DEF ThreadInv, NeverUndefined
  <2> QED
    BY <2>5, <2>6
<1> QED
  BY <1>1, <1>2, <1>3 DEF ThreadsNext, Done

\* Between any two steps of any threads the blocks, the list and the cache
\* are where the threads' steps say they are, as long as the program calls
\* sn_free only while no other thread allocates, frees or queries.
THEOREM ThreadsSafe ==
  ASSUME FreesApart
  PROVE  ThreadsSpec => []ThreadInv
<1>1. ThreadsInit => ThreadInv
  BY ThreadsStart
<1>2. ThreadInv /\ [ThreadsNext]_allVars => ThreadInv'
  BY ThreadsKeep
<1> QED
  BY <1>1, <1>2, PTL DEF ThreadsSpec

\* A block libc has allocated is in the list, or on its way there in one
\* sn_malloc between plat_malloc and linked_list_push; a block in the list is
\* allocated, or on its way out in one sn_free between plat_free and the
\* removal of its entry.  sn_free runs while no other thread allocates, frees
\* or queries; sn_malloc and the queries overlap freely.
THEOREM NothingLost ==
  ASSUME FreesApart
  PROVE  ThreadsSpec => []EachAccounted
<1>1. ThreadInv => EachAccounted
  BY DEF ThreadInv, Running, Once, Accounts, Alone, EachAccounted
<1> QED
  BY <1>1, ThreadsSafe, PTL

\* A block a sn_malloc returned and no sn_free was called for keeps its entry
\* whatever the other threads' calls do: overlapping sn_malloc and queries,
\* or one sn_free and the calls that clear the cache or set the limit.
THEOREM HeldStays ==
  ASSUME FreesApart
  PROVE  ThreadsSpec => []HeldIsTracked
<1>1. ThreadInv => HeldIsTracked
  BY DEF ThreadInv, Running, Holds, HeldIsTracked
<1> QED
  BY <1>1, ThreadsSafe, PTL

\* The worker, memman_cacheInvalidate and memman_cacheClear leave no slot that
\* points to a destroyed entry, and no thread reads one or frees a block
\* twice, though sn_free and the queries use an entry after the unlock, and
\* start their walk at one read before the lock.  Without FreesApart this
\* fails: two overlapping sn_free, or sn_free and a query, read a destroyed
\* entry.
THEOREM ThreadsDefined ==
  ASSUME FreesApart
  PROVE  ThreadsSpec => [](CacheCoherent /\ NeverUndefined)
<1>1. ThreadInv => CacheCoherent /\ NeverUndefined
  BY DEF ThreadInv
<1> QED
  BY <1>1, ThreadsSafe, PTL

----------------------------------------------------------------------------
(* The books, while threads charge and give back *)

\* What is charged and not yet in the list, and given back and still in it
Pushing == {t \in Threads : thread[t].at = "push"}
Freeing == {t \in Threads : thread[t].at \in {"invalidate", "free"} \cup Removing}
Amount == [t \in Threads |-> thread[t].n]
Owed == Recorded + Total(Amount, Pushing) - Total(Amount, Freeing)

\* The steps between the read of global_memory_usage and the return
Booking == {"store", "push", "invalidate", "free"} \cup Removing

\* One update at a time starts from the value that is there, and sn_free gives
\* back what the entry records that it will remove.
OneUpdate ==
  /\ \A t, u \in Threads : thread[t].at = "store" /\ thread[u].at = "store" => t = u
  /\ \A t \in Threads : thread[t].at = "store" => thread[t].usage = global_memory_usage
  /\ \A t \in Threads : thread[t].op = "sn_free" /\ thread[t].at \in Booking
                          => thread[t].n = size[thread[t].entry]

Balanced ==
  /\ IsFiniteSet(Pushing) /\ IsFiniteSet(Freeing)
  /\ global_memory_usage = Owed % SIZE_MOD

UsageInv == status = "running" /\ ~overlap => OneUpdate /\ Balanced

LEMMA AmountNat ==
  ASSUME ThreadInv
  PROVE  \A t \in Threads : Amount[t] = thread[t].n /\ Amount[t] \in Nat
  BY WidthAssumption DEF ThreadInv, Amount, FrameType

LEMMA AmountNatNext ==
  ASSUME ThreadInv'
  PROVE  \A t \in Threads : Amount'[t] = thread'[t].n /\ Amount'[t] \in Nat
  BY WidthAssumption DEF ThreadInv, Amount, FrameType

\* A step that neither charges nor changes what is charged or listed
LEMMA QuietUsage ==
  ASSUME ThreadInv, UsageInv, status = "running", UNCHANGED <<list, size, global_memory_usage, overlap>>,
         NEW t \in Threads, NEW g, thread' = [thread EXCEPT ![t] = g],
         \/ thread[t].at \notin Booking /\ g.at \notin Booking
         \/ /\ thread[t].at \in Booking \ {"store", "push"} /\ g.at \in Booking \ {"store", "push"}
            /\ g.op = thread[t].op /\ g.n = thread[t].n /\ g.entry = thread[t].entry
  PROVE  UsageInv'
<1> SUFFICES ASSUME ~overlap' PROVE OneUpdate' /\ Balanced'
  BY DEF UsageInv
<1>1. OneUpdate /\ Balanced
  BY DEF UsageInv
<1>2. thread'[t] = g /\ \A u \in Threads \ {t} : thread'[u] = thread[u]
  BY DEF ThreadInv
<1>3. OneUpdate'
  BY <1>1, <1>2 DEF OneUpdate, Booking, Removing
<1>4. Pushing' = Pushing /\ Freeing' = Freeing
  BY <1>2 DEF Pushing, Freeing, Booking, Removing
<1>5. \A u \in Pushing \cup Freeing : Amount'[u] = Amount[u]
  BY <1>2 DEF Pushing, Freeing, Booking, Removing, Amount
<1>6. Total(Amount, Pushing) = Total(Amount', Pushing) /\ Total(Amount, Freeing) = Total(Amount', Freeing)
  BY <1>1, <1>5, TotalSame DEF Balanced
<1>7. Recorded' = Recorded
  BY DEF Recorded, Listed
<1> QED
  BY <1>1, <1>3, <1>4, <1>6, <1>7 DEF Balanced, Owed

LEMMA ReadUsageBooks ==
  ASSUME ThreadInv, UsageInv, NEW t \in Threads, ReadUsage(t)
  PROVE  UsageInv'
<1> SUFFICES ASSUME status' = "running", ~overlap' PROVE OneUpdate' /\ Balanced'
  BY DEF UsageInv
<1>1. PICK f : f = thread[t]
  OBVIOUS
<1>2. PICK g : g = [f EXCEPT !.at = "store", !.usage = global_memory_usage,
                             !.n = IF f.op = "sn_free" THEN size[f.entry] ELSE f.n]
  OBVIOUS
<1>3. /\ status = "running" /\ f.at = "charge" /\ thread' = [thread EXCEPT ![t] = g]
      /\ ~overlap /\ \A u \in Threads : thread[u].at # "store"
      /\ UNCHANGED <<list, size, global_memory_usage>>
  BY <1>1, <1>2 DEF ReadUsage, At, manager, entry
<1>4. OneUpdate /\ Balanced
  BY <1>3 DEF UsageInv
<1>5. f \in FrameType
  BY <1>1 DEF ThreadInv
<1>6. /\ g.at = "store" /\ g.usage = global_memory_usage /\ g.op = f.op /\ g.entry = f.entry
      /\ f.op = "sn_free" => g.n = size[f.entry]
  BY <1>2, <1>5 DEF FrameType
<1>7. thread'[t] = g /\ \A u \in Threads \ {t} : thread'[u] = thread[u]
  BY <1>3 DEF ThreadInv
<1>8. OneUpdate'
  BY <1>3, <1>4, <1>6, <1>7 DEF OneUpdate
<1>9. Pushing' = Pushing /\ Freeing' = Freeing
  BY <1>1, <1>3, <1>6, <1>7 DEF Pushing, Freeing, Removing
<1>10. \A u \in Pushing \cup Freeing : Amount'[u] = Amount[u]
  BY <1>1, <1>3, <1>7 DEF Pushing, Freeing, Amount, Removing
<1>11. Total(Amount, Pushing) = Total(Amount', Pushing) /\ Total(Amount, Freeing) = Total(Amount', Freeing)
  BY <1>4, <1>10, TotalSame DEF Balanced
<1>12. Recorded' = Recorded
  BY <1>3 DEF Recorded, Listed
<1> QED
  BY <1>3, <1>4, <1>8, <1>9, <1>11, <1>12 DEF Balanced, Owed

\* The sums are natural numbers.
LEMMA SumsNat ==
  ASSUME ThreadInv, Balanced
  PROVE  /\ Recorded \in Nat /\ Total(Amount, Pushing) \in Nat /\ Total(Amount, Freeing) \in Nat
         /\ Owed \in Int /\ SIZE_MOD \in Nat \ {0}
<1>1. Recorded \in Nat
  BY RecordedNat DEF ThreadInv
<1>2. Total(Amount, Pushing) \in Nat /\ Total(Amount, Freeing) \in Nat
  BY AmountNat, TotalNat DEF Balanced, Pushing, Freeing
<1> QED
  BY <1>1, <1>2, WidthAssumption DEF Owed

LEMMA StoreUsageBooks ==
  ASSUME ThreadInv, ThreadInv', UsageInv, NEW t \in Threads, StoreUsage(t)
  PROVE  UsageInv'
<1> SUFFICES ASSUME status' = "running", ~overlap' PROVE OneUpdate' /\ Balanced'
  BY DEF UsageInv
<1>1. PICK f : f = thread[t]
  OBVIOUS
<1>2. PICK g : g = [f EXCEPT !.at = IF f.op = "sn_free" THEN "invalidate" ELSE "push"]
  OBVIOUS
<1>3. /\ status = "running" /\ f.at = "store" /\ thread' = [thread EXCEPT ![t] = g] /\ ~overlap
      /\ global_memory_usage' = (f.usage + Charge(f)) % SIZE_MOD
      /\ UNCHANGED <<list, size>>
  BY <1>1, <1>2 DEF StoreUsage, Writes, At, Goes, entry
<1>4. OneUpdate /\ Balanced
  BY <1>3 DEF UsageInv
<1>5. /\ f \in FrameType /\ f.n \in Nat /\ f.usage = global_memory_usage
      /\ \A u \in Threads \ {t} : thread[u].at # "store"
      /\ f.op = "sn_free" => f.n = size[f.entry]
  BY <1>1, <1>3, <1>4, WidthAssumption DEF ThreadInv, FrameType, OneUpdate, Booking, Removing
<1>6. /\ g.op = f.op /\ g.n = f.n /\ g.entry = f.entry
      /\ g.at = IF f.op = "sn_free" THEN "invalidate" ELSE "push"
  BY <1>2, <1>5 DEF FrameType
<1>7. thread'[t] = g /\ \A u \in Threads \ {t} : thread'[u] = thread[u]
  BY <1>3 DEF ThreadInv
<1>8. OneUpdate'
  BY <1>3, <1>4, <1>5, <1>6, <1>7 DEF OneUpdate
<1>9. t \notin Pushing /\ t \notin Freeing
  BY <1>1, <1>3 DEF Pushing, Freeing, Removing
<1>10. /\ \A u \in Threads : Amount'[u] = Amount[u] /\ Amount'[u] \in Nat
       /\ Amount'[t] = f.n /\ Amount[t] = f.n
  BY <1>1, <1>6, <1>7, AmountNat, AmountNatNext
<1>11. Pushing \subseteq Threads /\ Freeing \subseteq Threads
  BY DEF Pushing, Freeing
<1>12. Total(Amount, Pushing) = Total(Amount', Pushing) /\ Total(Amount, Freeing) = Total(Amount', Freeing)
  BY <1>4, <1>10, <1>11, TotalSame DEF Balanced
<1>13. Recorded' = Recorded
  BY <1>3 DEF Recorded, Listed
<1>14. PICK c : c = Charge(f)
  OBVIOUS
<1>15. /\ Recorded \in Nat /\ Total(Amount, Pushing) \in Nat /\ Total(Amount, Freeing) \in Nat
       /\ Owed \in Int /\ SIZE_MOD \in Nat \ {0}
  BY <1>4, SumsNat
<1>16. Owed' = Owed + c /\ c \in Int /\ IsFiniteSet(Pushing') /\ IsFiniteSet(Freeing')
  <2>1. CASE f.op = "sn_free"
    <3>1. Pushing' = Pushing /\ Freeing' = Freeing \cup {t}
      BY <1>1, <1>3, <1>6, <1>7, <2>1 DEF Pushing, Freeing, Removing
    <3>2. Total(Amount', Freeing \cup {t}) = f.n + Total(Amount', Freeing)
      BY <1>4, <1>9, <1>10, <1>11, TotalAdd DEF Balanced
    <3>3. IsFiniteSet(Freeing')
      BY <1>4, <3>1, FS_AddElement DEF Balanced
    <3>4. c = -f.n
      BY <1>14, <2>1 DEF Charge
    <3>5. Owed' = Recorded + Total(Amount, Pushing) - (f.n + Total(Amount, Freeing))
      BY <1>12, <1>13, <3>1, <3>2 DEF Owed
    <3>6. Owed = Recorded + Total(Amount, Pushing) - Total(Amount, Freeing)
      BY DEF Owed
    <3>7. IsFiniteSet(Pushing) /\ IsFiniteSet(Freeing)
      BY <1>4 DEF Balanced
    <3> QED
      BY <1>5, <1>15, <3>1, <3>3, <3>4, <3>5, <3>6, <3>7
  <2>2. CASE f.op # "sn_free"
    <3>1. Pushing' = Pushing \cup {t} /\ Freeing' = Freeing
      BY <1>1, <1>3, <1>6, <1>7, <2>2 DEF Pushing, Freeing, Removing
    <3>2. Total(Amount', Pushing \cup {t}) = f.n + Total(Amount', Pushing)
      BY <1>4, <1>9, <1>10, <1>11, TotalAdd DEF Balanced
    <3>3. IsFiniteSet(Pushing')
      BY <1>4, <3>1, FS_AddElement DEF Balanced
    <3>4. c = f.n
      BY <1>14, <2>2 DEF Charge
    <3>5. Owed' = Recorded + (f.n + Total(Amount, Pushing)) - Total(Amount, Freeing)
      BY <1>12, <1>13, <3>1, <3>2 DEF Owed
    <3>6. Owed = Recorded + Total(Amount, Pushing) - Total(Amount, Freeing)
      BY DEF Owed
    <3>7. IsFiniteSet(Pushing) /\ IsFiniteSet(Freeing)
      BY <1>4 DEF Balanced
    <3> QED
      BY <1>5, <1>15, <3>1, <3>3, <3>4, <3>5, <3>6, <3>7
  <2> QED
    BY <2>1, <2>2
<1>17. ((Owed % SIZE_MOD) + c) % SIZE_MOD = (Owed + c) % SIZE_MOD
  BY <1>16, <1>15, ModSum, Zenon
<1>18. global_memory_usage' = Owed' % SIZE_MOD
  BY <1>3, <1>4, <1>5, <1>14, <1>16, <1>17 DEF Balanced
<1> QED
  BY <1>8, <1>16, <1>18 DEF Balanced

\* The charge moves from the call to the list.
LEMMA PushBooks ==
  ASSUME ThreadInv, ThreadInv', UsageInv, NEW t \in Threads, Push(t)
  PROVE  UsageInv'
<1> SUFFICES ASSUME status' = "running", ~overlap' PROVE OneUpdate' /\ Balanced'
  BY DEF UsageInv
<1>1. PICK f : f = thread[t]
  OBVIOUS
<1>2. /\ status = "running" /\ f.at = "push" /\ thread' = [thread EXCEPT ![t] = Outside] /\ ~overlap
      /\ linked_list_push(f.ptr, f.n, NULL) /\ global_memory_usage' = global_memory_usage
  BY <1>1 DEF Push, Locked, At
<1>3. OneUpdate /\ Balanced /\ TypeOK /\ TypeOK'
  BY <1>2 DEF UsageInv, ThreadInv
<1>4. PICK e \in Entries \ Listed :
        Listed' = Listed \cup {e} /\ EntriesKept(Listed) /\ size'[e] = f.n
  BY <1>2, <1>3, PushGrows
<1>5. Recorded' = f.n + Recorded
  BY <1>3, <1>4, RecordedAdd
<1>6. thread'[t] = Outside /\ \A u \in Threads \ {t} : thread'[u] = thread[u]
  BY <1>2 DEF ThreadInv
<1>7. Outside.op = "none" /\ Outside.at = "idle"
  BY DEF Outside
<1>8. ASSUME NEW u \in Threads, thread[u].op = "sn_free", thread[u].at \in Booking
      PROVE  size'[thread[u].entry] = size[thread[u].entry]
  <2>1. thread[u].entry \in Listed
    BY <1>2, <1>8, FrameAt DEF Frees, Owns, Allocates, Booking, Removing
  <2> QED
    BY <1>4, <2>1 DEF EntriesKept
<1>9. OneUpdate'
  BY <1>2, <1>3, <1>6, <1>7, <1>8 DEF OneUpdate, Booking, Removing
<1>10. t \in Pushing /\ t \notin Freeing
  BY <1>1, <1>2 DEF Pushing, Freeing, Removing
<1>11. Pushing' = Pushing \ {t} /\ Freeing' = Freeing
  BY <1>1, <1>2, <1>6, <1>7 DEF Pushing, Freeing, Removing
<1>12. Amount[t] = f.n /\ \A u \in Threads : Amount[u] \in Nat /\ (u # t => Amount'[u] = Amount[u])
  BY <1>1, <1>6, AmountNat, AmountNatNext
<1>13. /\ Pushing \subseteq Threads /\ Freeing \subseteq Threads
       /\ IsFiniteSet(Pushing) /\ IsFiniteSet(Freeing) /\ IsFiniteSet(Pushing \ {t})
  BY <1>3, FS_RemoveElement DEF Pushing, Freeing, Balanced
<1>14. Total(Amount, Pushing) = f.n + Total(Amount, Pushing \ {t})
  BY <1>10, <1>12, <1>13, TotalRemove
<1>15. /\ Total(Amount, Pushing \ {t}) = Total(Amount', Pushing')
       /\ Total(Amount, Freeing) = Total(Amount', Freeing')
  BY <1>10, <1>11, <1>12, <1>13, TotalSame
<1>16. /\ Recorded \in Nat /\ Total(Amount, Freeing) \in Nat
       /\ Total(Amount, Pushing \ {t}) \in Nat /\ f.n \in Nat
  BY <1>3, <1>10, <1>12, <1>13, SumsNat, TotalNat
<1>17. Owed' = (f.n + Recorded) + Total(Amount, Pushing \ {t}) - Total(Amount, Freeing)
  BY <1>5, <1>15 DEF Owed
<1>18. Owed = Recorded + (f.n + Total(Amount, Pushing \ {t})) - Total(Amount, Freeing)
  BY <1>14 DEF Owed
<1>19. Owed' = Owed
  BY <1>16, <1>17, <1>18
<1> QED
  BY <1>2, <1>3, <1>9, <1>11, <1>13, <1>19 DEF Balanced

\* What was given back leaves the list.
LEMMA DestroyBooks ==
  ASSUME ThreadInv, ThreadInv', UsageInv, NEW t \in Threads, NEW k \in DOMAIN list, status = "running",
         thread[t].at \in Removing, list[k] = thread[t].entry,
         Destroys(k), Goes(t, Outside)
  PROVE  UsageInv'
<1> SUFFICES ASSUME status' = "running", ~overlap' PROVE OneUpdate' /\ Balanced'
  BY DEF UsageInv
<1>1. PICK f : f = thread[t]
  OBVIOUS
<1>2. k # 0 /\ EntryAt(k) = list[k]
  BY DEF ThreadInv, TypeOK, DataType, EntryAt
<1>3. /\ f.at \in Removing /\ thread' = [thread EXCEPT ![t] = Outside] /\ ~overlap
      /\ global_memory_usage' = global_memory_usage /\ list' = linked_list_removeEntry(k)
      /\ data' = Cleared(data, EntryAt(k), NULL) /\ size' = Cleared(size, EntryAt(k), 0)
  BY <1>1, <1>2 DEF Destroys, Goes
<1>4. OneUpdate /\ Balanced /\ TypeOK /\ TypeOK' /\ Once /\ Alone
  BY <1>3 DEF UsageInv, ThreadInv, Running
<1>5. /\ f.op = "sn_free" /\ f.ptr \in Tracked /\ f.ptr \in Addrs /\ f.ptr # NULL
      /\ f.entry \in Listed /\ data[f.entry] = f.ptr /\ f.n = size[f.entry]
  <2>1. f.op = "sn_free" /\ Frees(f) /\ Owns(f)
    BY <1>1, <1>3, FrameAt, SeekFinds
  <2> QED
    BY <1>1, <1>3, <1>4, <2>1, NullAssumption DEF Frees, Owns, OneUpdate, Booking, Removing
<1>6. k # 0 /\ k \in DOMAIN list /\ list[k] = f.entry /\ EntryAt(k) = f.entry
  BY <1>1, <1>2
<1>7. Listed' = Listed \ {f.entry}
  BY <1>3, <1>4, <1>6, RemoveListed DEF Once
<1>8. Listed \subseteq Entries /\ EntriesKept(Listed \ {f.entry})
  <2>1. Listed \subseteq Entries
    BY <1>4 DEF Listed, TypeOK, DataType
  <2> QED
    BY <1>3, <1>6, <2>1 DEF Cleared, EntriesKept
<1>9. Recorded = f.n + Recorded'
  BY <1>4, <1>5, <1>7, <1>8, RecordedRemove
<1>10. thread'[t] = Outside /\ \A u \in Threads \ {t} : thread'[u] = thread[u]
  BY <1>3 DEF ThreadInv
<1>11. Outside.op = "none" /\ Outside.at = "idle"
  BY DEF Outside
<1>12. ASSUME NEW u \in Threads \ {t}, thread[u].op = "sn_free", thread[u].at \in Booking
       PROVE  size'[thread[u].entry] = size[thread[u].entry]
  <2>1. thread[u].entry \in Listed /\ data[thread[u].entry] = thread[u].ptr
    BY <1>3, <1>12, FrameAt DEF Frees, Owns, Allocates, Booking, Removing
  <2>2. thread[u].ptr # f.ptr
    BY <1>1, <1>4, <1>5, <1>12 DEF Alone
  <2> QED
    BY <1>5, <1>8, <2>1, <2>2 DEF EntriesKept
<1>13. OneUpdate'
  BY <1>3, <1>4, <1>10, <1>11, <1>12 DEF OneUpdate, Booking, Removing
<1>14. t \notin Pushing /\ t \in Freeing
  BY <1>1, <1>3 DEF Pushing, Freeing, Removing
<1>15. Pushing' = Pushing /\ Freeing' = Freeing \ {t}
  BY <1>1, <1>3, <1>10, <1>11 DEF Pushing, Freeing, Removing
<1>16. Amount[t] = f.n /\ \A u \in Threads : Amount[u] \in Nat /\ (u # t => Amount'[u] = Amount[u])
  BY <1>1, <1>10, AmountNat, AmountNatNext
<1>17. /\ Pushing \subseteq Threads /\ Freeing \subseteq Threads
       /\ IsFiniteSet(Pushing) /\ IsFiniteSet(Freeing) /\ IsFiniteSet(Freeing \ {t})
  BY <1>4, FS_RemoveElement DEF Pushing, Freeing, Balanced
<1>18. Total(Amount, Freeing) = f.n + Total(Amount, Freeing \ {t})
  BY <1>14, <1>16, <1>17, TotalRemove
<1>19. /\ Total(Amount, Freeing \ {t}) = Total(Amount', Freeing')
       /\ Total(Amount, Pushing) = Total(Amount', Pushing')
  BY <1>14, <1>15, <1>16, <1>17, TotalSame
<1>20. /\ Recorded' \in Nat /\ Total(Amount, Pushing) \in Nat
       /\ Total(Amount, Freeing \ {t}) \in Nat /\ f.n \in Nat
  BY <1>4, <1>14, <1>16, <1>17, SumsNat, TotalNat, RecordedNatNext DEF RecordedTyped
<1>21. Owed' = Recorded' + Total(Amount, Pushing) - Total(Amount, Freeing \ {t})
  BY <1>19 DEF Owed
<1>22. Owed = (f.n + Recorded') + Total(Amount, Pushing) - (f.n + Total(Amount, Freeing \ {t}))
  BY <1>9, <1>18 DEF Owed
<1>23. Owed' = Owed
  BY <1>20, <1>21, <1>22
<1> QED
  BY <1>3, <1>4, <1>13, <1>15, <1>17, <1>23 DEF Balanced

LEMMA UnlinkBooks ==
  ASSUME ThreadInv, ThreadInv', UsageInv, NEW t \in Threads, Unlink(t) \/ linked_list_pop(t)
  PROVE  UsageInv'
<1>1. PICK f : f = thread[t]
  OBVIOUS
<1>2. status = "running" /\ f.at \in {"unlink", "pop"} /\ f \in FrameType
  BY <1>1 DEF Unlink, linked_list_pop, Locked, At, ThreadInv
<1>3. Frees(f) /\ Owns(f)
  BY <1>1, <1>2, SeekFinds DEF Removing
<1>4. ASSUME NEW k \in 1..Len(list), list[k] = f.entry, Destroys(k), Goes(t, Outside) PROVE UsageInv'
  <2>1. k \in DOMAIN list
    BY DEF ThreadInv, TypeOK, DataType
  <2> QED
    BY <1>1, <1>2, <1>4, <2>1, DestroyBooks DEF Removing
<1>5. CASE Unlink(t)
  <2>1. f.at = "unlink"
    BY <1>1, <1>5 DEF Unlink, Locked, At
  <2>2. CASE \E k \in 1..(Len(list) - 1) : list[k] = f.entry /\ Destroys(k) /\ Goes(t, Outside)
    <3>1. PICK k \in 1..(Len(list) - 1) : list[k] = f.entry /\ Destroys(k) /\ Goes(t, Outside)
      BY <2>2
    <3>2. k \in 1..Len(list)
      BY <3>1 DEF ThreadInv, TypeOK, DataType
    <3> QED
      BY <1>4, <3>1, <3>2
  <2>3. CASE Goes(t, [f EXCEPT !.at = "pop"]) /\ UNCHANGED <<manager, status>>
    <3>1. PICK g : g = [f EXCEPT !.at = "pop"]
      OBVIOUS
    <3>2. /\ thread' = [thread EXCEPT ![t] = g]
          /\ UNCHANGED <<list, size, global_memory_usage, overlap>>
      BY <2>3, <3>1 DEF Goes, manager, entry
    <3>3. g.at = "pop" /\ g.op = f.op /\ g.n = f.n /\ g.entry = f.entry
      BY <1>2, <3>1 DEF FrameType
    <3> QED
      BY <1>1, <1>2, <2>1, <3>2, <3>3, QuietUsage DEF Booking, Removing
  <2> QED
    BY <1>1, <1>3, <1>5, <2>2, <2>3 DEF Unlink, Owns
<1>6. CASE linked_list_pop(t)
  <2>1. f.at = "pop" /\ Goes(t, Outside)
    BY <1>1, <1>6 DEF linked_list_pop, Locked, At
  <2>2. list # << >> /\ f.entry = list[Len(list)]
    BY <1>3, <2>1 DEF Frees, Owns
  <2>3. Len(list) \in 1..Len(list) /\ Destroys(Len(list))
    BY <1>6, <2>2 DEF linked_list_pop, ThreadInv, TypeOK, DataType
  <2> QED
    BY <1>4, <2>1, <2>2, <2>3
<1> QED
  BY <1>5, <1>6

\* Nothing the books speak of changes.
LEMMA StillUsage ==
  ASSUME UsageInv, UNCHANGED <<list, size, global_memory_usage, thread, overlap>>,
         status' = "running" => status = "running"
  PROVE  UsageInv'
<1>1. Recorded' = Recorded /\ Amount' = Amount /\ Pushing' = Pushing /\ Freeing' = Freeing
  BY DEF Recorded, Listed, Amount, Pushing, Freeing
<1>2. Owed' = Owed
  BY <1>1 DEF Owed
<1> QED
  BY <1>1, <1>2 DEF UsageInv, OneUpdate, Balanced

\* A call begins.
LEMMA CallBooks ==
  ASSUME ThreadInv, UsageInv, NEW t \in Threads, NEW op \in DOMAIN Start, Call(t, op)
  PROVE  UsageInv'
<1>1. PICK x \in Inputs(op) :
        thread' = [thread EXCEPT ![t] = [Outside EXCEPT !.op = op, !.at = Start[op],
                                                        !.ptr = x[1], !.n = x[2]]]
  BY DEF Call
<1>2. PICK p, n : p = x[1] /\ n = x[2]
  OBVIOUS
<1>3. PICK g : g = [Outside EXCEPT !.op = op, !.at = Start[op], !.ptr = p, !.n = n]
  OBVIOUS
<1>4. thread' = [thread EXCEPT ![t] = g]
  BY <1>1, <1>2, <1>3
<1>5. g.at = Start[op]
  BY <1>3 DEF Outside
<1>6. g.at \notin Booking
  BY <1>5 DEF Start, Booking, Removing
<1>7. thread[t].at = "idle" /\ status = "running" /\ UNCHANGED <<list, size, global_memory_usage, overlap>>
  BY DEF Call, vars, entry, Outside
<1> QED
  BY <1>4, <1>6, <1>7, QuietUsage DEF Booking, Removing

\* The calls to the mutexes and libc around the lookup
LEMMA LookupBooks ==
  ASSUME ThreadInv, UsageInv, NEW t \in Threads,
         \/ WorkBegins(t) \/ WorkEnds(t) \/ CacheHit(t) \/ Reread(t)
         \/ First(t) \/ Search(t) \/ Note(t)
  PROVE  UsageInv'
<1>1. PICK f : f = thread[t]
  OBVIOUS
<1>2. f \in FrameType /\ Outside.at \notin Booking
  BY <1>1 DEF ThreadInv, Outside, Booking, Removing
<1>3. /\ status = "running" /\ UNCHANGED <<list, size, global_memory_usage, overlap>>
      /\ f.at \in {"work", "walk", "hit", "reread", "list", "search", "note"}
  BY <1>1 DEF WorkBegins, WorkEnds, CacheHit, Reread, First, Search, Note, Locked, At, Goes, Fails,
              Answer, sn_error, Ends, manager, entry, program
<1>4. ASSUME NEW g, Goes(t, g), g.at \notin Booking PROVE UsageInv'
  <2>1. thread' = [thread EXCEPT ![t] = g]
    BY <1>4 DEF Goes
  <2> QED
    BY <1>1, <1>3, <1>4, <2>1, QuietUsage DEF Booking, Removing
<1>5. ASSUME NEW at \in {"walk", "hit", "list", "charge"}, Goes(t, [f EXCEPT !.at = at]) PROVE UsageInv'
  <2>1. PICK g : g = [f EXCEPT !.at = at]
    OBVIOUS
  <2>2. g.at \notin Booking
    BY <1>2, <2>1 DEF FrameType, Booking, Removing
  <2>3. Goes(t, g)
    BY <1>5, <2>1
  <2> QED
    BY <1>4, <2>2, <2>3
<1>6. ASSUME NEW s, Goes(t, [f EXCEPT !.at = "reread", !.slot = s]) PROVE UsageInv'
  <2>1. PICK g : g = [f EXCEPT !.at = "reread", !.slot = s]
    OBVIOUS
  <2>2. g.at \notin Booking
    BY <1>2, <2>1 DEF FrameType, Booking, Removing
  <2>3. Goes(t, g)
    BY <1>6, <2>1
  <2> QED
    BY <1>4, <2>2, <2>3
<1>7. ASSUME NEW at \in {"list", "search", "note", WithEntry(f.op)}, NEW e,
             Goes(t, [f EXCEPT !.at = at, !.entry = e])
      PROVE  UsageInv'
  <2>1. PICK g : g = [f EXCEPT !.at = at, !.entry = e]
    OBVIOUS
  <2>2. g.at \notin Booking
    BY <1>2, <2>1 DEF FrameType, Booking, WithEntry, Removing
  <2>3. Goes(t, g)
    BY <1>7, <2>1
  <2> QED
    BY <1>4, <2>2, <2>3
<1>8. CASE WorkBegins(t) \/ WorkEnds(t)
  BY <1>1, <1>5, <1>8, Zenon DEF WorkBegins, WorkEnds
<1>9. CASE CacheHit(t)
  BY <1>1, <1>5, <1>6, <1>9, Zenon DEF CacheHit
<1>10. CASE Reread(t)
  <2>1. PICK e, at : /\ at \in {"list", WithEntry(f.op)}
                     /\ Goes(t, [f EXCEPT !.at = at, !.entry = e])
    <3>1. PICK e : e = value[f.slot]
      OBVIOUS
    <3>2. PICK at : at = IF e = NULL THEN "list" ELSE WithEntry(f.op)
      OBVIOUS
    <3>3. at \in {"list", WithEntry(f.op)}
      BY <3>2
    <3>4. Goes(t, [f EXCEPT !.at = at, !.entry = e])
      BY <1>1, <1>10, <3>1, <3>2, Zenon DEF Reread
    <3> QED
      BY <3>3, <3>4, Zenon
  <2> QED
    BY <1>7, <2>1
<1>11. CASE First(t) \/ Note(t)
  <2>1. \/ Goes(t, Outside)
        \/ Goes(t, [f EXCEPT !.at = "search", !.entry = list[1]])
        \/ Goes(t, [f EXCEPT !.at = "charge"])
    BY <1>1, <1>11 DEF First, Note, Fails
  <2> QED
    BY <1>2, <1>4, <1>5, <1>7, <2>1, Zenon
<1>12. CASE Search(t)
  <2>1. \/ status' = "undefined"
        \/ Goes(t, Outside)
        \/ \E e : Goes(t, [f EXCEPT !.at = "note", !.entry = e])
    BY <1>1, <1>12, Zenon DEF Search, Fails
  <2>2. CASE status' = "undefined"
    BY <2>2 DEF UsageInv
  <2> QED
    BY <1>2, <1>4, <1>7, <2>1, <2>2, Zenon
<1> QED
  BY <1>8, <1>9, <1>10, <1>11, <1>12

\* The checks of sn_malloc, the call of libc's malloc, the end of a query
LEMMA ChecksBooks ==
  ASSUME ThreadInv, UsageInv, NEW t \in Threads, CheckLimit(t) \/ plat_malloc(t) \/ UseEntry(t)
  PROVE  UsageInv'
<1>1. PICK f : f = thread[t]
  OBVIOUS
<1>2. f \in FrameType /\ Outside.at \notin Booking
  BY <1>1 DEF ThreadInv, Outside, Booking, Removing
<1>3. /\ status = "running" /\ UNCHANGED <<list, size, global_memory_usage, overlap>>
      /\ f.at \in {"limit", "malloc", "use"}
  BY <1>1 DEF CheckLimit, plat_malloc, UseEntry, At, Goes, Fails, sn_error, Ends, manager, entry
<1>4. ASSUME NEW g, Goes(t, g), g.at \notin Booking PROVE UsageInv'
  <2>1. thread' = [thread EXCEPT ![t] = g]
    BY <1>4 DEF Goes
  <2> QED
    BY <1>1, <1>3, <1>4, <2>1, QuietUsage DEF Booking, Removing
<1>5. CASE Goes(t, Outside)
  BY <1>2, <1>4, <1>5
<1>6. CASE Goes(t, [f EXCEPT !.at = "malloc"])
  <2>1. PICK g : g = [f EXCEPT !.at = "malloc"]
    OBVIOUS
  <2>2. g.at \notin Booking
    BY <1>2, <2>1 DEF FrameType, Booking, Removing
  <2>3. Goes(t, g)
    BY <1>6, <2>1
  <2> QED
    BY <1>4, <2>2, <2>3
<1>7. ASSUME NEW a, Goes(t, [f EXCEPT !.at = "charge", !.ptr = a]) PROVE UsageInv'
  <2>1. PICK g : g = [f EXCEPT !.at = "charge", !.ptr = a]
    OBVIOUS
  <2>2. g.at \notin Booking
    BY <1>2, <2>1 DEF FrameType, Booking, Removing
  <2>3. Goes(t, g)
    BY <1>7, <2>1
  <2> QED
    BY <1>4, <2>2, <2>3
<1> QED
  BY <1>1, <1>5, <1>6, <1>7, Zenon DEF CheckLimit, plat_malloc, UseEntry, Fails

\* The middle of sn_free: its entry is still in the list.
LEMMA FreeingBooks ==
  ASSUME ThreadInv, UsageInv, NEW t \in Threads, Invalidate(t) \/ plat_free(t) \/ Seek(t)
  PROVE  UsageInv'
<1>1. PICK f : f = thread[t]
  OBVIOUS
<1>2. f \in FrameType
  BY <1>1 DEF ThreadInv
<1>3. /\ status = "running" /\ UNCHANGED <<list, size, global_memory_usage, overlap>>
      /\ f.at \in {"invalidate", "free", "remove"}
  BY <1>1 DEF Invalidate, Resets, plat_free, Seek, Locked, At, Goes, manager, entry
<1>4. \/ \E at \in {"free", "remove"} : Goes(t, [f EXCEPT !.at = at])
      \/ Goes(t, [f EXCEPT !.at = "unlink", !.entry = f.entry])
  <2>1. CASE Invalidate(t) \/ plat_free(t)
    BY <1>1, <2>1, Zenon DEF Invalidate, Resets, plat_free
  <2>2. CASE Seek(t)
    <3>1. status = "running" /\ f.at \in Removing
      BY <1>1, <2>2 DEF Seek, Locked, At, Removing
    <3> QED
      BY <1>1, <2>2, <3>1, SeekFinds DEF Seek
  <2> QED
    BY <2>1, <2>2
<1>5. PICK g : /\ Goes(t, g) /\ g.at \in {"free", "remove", "unlink"}
               /\ g.op = f.op /\ g.n = f.n /\ g.entry = f.entry
  <2>1. CASE \E at \in {"free", "remove"} : Goes(t, [f EXCEPT !.at = at])
    <3>1. PICK at \in {"free", "remove"} : Goes(t, [f EXCEPT !.at = at])
      BY <2>1
    <3> QED
      BY <1>2, <3>1 DEF FrameType
  <2>2. CASE Goes(t, [f EXCEPT !.at = "unlink", !.entry = f.entry])
    <3>1. PICK g : g = [f EXCEPT !.at = "unlink", !.entry = f.entry]
      OBVIOUS
    <3>2. Goes(t, g)
      BY <2>2, <3>1
    <3>3. g.at = "unlink" /\ g.op = f.op /\ g.n = f.n /\ g.entry = f.entry
      BY <1>2, <3>1 DEF FrameType
    <3> QED
      BY <3>2, <3>3
  <2> QED
    BY <1>4, <2>1, <2>2
<1>6. thread' = [thread EXCEPT ![t] = g]
  BY <1>5 DEF Goes
<1> QED
  BY <1>1, <1>3, <1>5, <1>6, QuietUsage DEF Booking, Removing

LEMMA UsageKeeps ==
  ASSUME ThreadInv, ThreadInv', UsageInv, [ThreadsNext]_allVars
  PROVE  UsageInv'
<1>1. ASSUME NEW t \in Threads, Step(t) PROVE UsageInv'
  <2>1. CASE FlatCall(t)
    <3>1. status = "running" /\ UNCHANGED <<list, size, global_memory_usage, thread, overlap>>
      BY <2>1 DEF FlatCall, sn_fast_cache_clear, sn_set_alloc_limit, Begin, Idle, program, entry
    <3> QED
      BY <3>1, StillUsage
  <2>2. CASE ReadUsage(t) \/ StoreUsage(t) \/ Push(t) \/ Unlink(t) \/ linked_list_pop(t)
    BY <2>2, ReadUsageBooks, StoreUsageBooks, PushBooks, UnlinkBooks
  <2> QED
    BY <1>1, <2>1, <2>2, CallBooks, LookupBooks, ChecksBooks, FreeingBooks, Zenon DEF Step
<1>2. CASE memman_CacheAlgorithmWorker /\ UNCHANGED program
  <2>1. status = "running" /\ UNCHANGED <<list, size, global_memory_usage, thread, overlap>>
    BY <1>2 DEF memman_CacheAlgorithmWorker, program
  <2> QED
    BY <2>1, StillUsage
<1>3. CASE UNCHANGED allVars
  <2>1. UNCHANGED <<list, size, global_memory_usage, thread, overlap, status>>
    BY <1>3 DEF allVars, vars, program, entry
  <2> QED
    BY <2>1, StillUsage
<1> QED
  BY <1>1, <1>2, <1>3 DEF ThreadsNext, Done

LEMMA UsageStarts == ThreadsInit => UsageInv
<1> SUFFICES ASSUME ThreadsInit PROVE OneUpdate /\ Balanced
  BY DEF UsageInv
<1>1. Outside.op = "none" /\ Outside.at = "idle"
  BY DEF Outside
<1>2. \A t \in Threads : thread[t].op = "none" /\ thread[t].at = "idle"
  BY <1>1 DEF ThreadsInit
<1>3. Pushing = {} /\ Freeing = {} /\ Listed = {} /\ global_memory_usage = 0
  BY <1>2 DEF Pushing, Freeing, ThreadsInit, Init, Listed, Removing
<1>4. Recorded = 0 /\ Total(Amount, Pushing) = 0 /\ Total(Amount, Freeing) = 0
  BY <1>3, TotalEmpty DEF Recorded
<1>5. Owed = 0
  BY <1>4 DEF Owed
<1> QED
  BY <1>2, <1>3, <1>5, FS_EmptySet, WidthAssumption DEF OneUpdate, Balanced

\* When no call is running, global_memory_usage is what the list records,
\* whatever calls went on at once before, as long as no two threads updated it
\* at the same time: the reads and writes of sn_malloc outside the mutexes lose
\* nothing else, nor do those of a sn_free that no other sn_malloc, sn_free or
\* query overlaps.
THEOREM UsageSettles ==
  ASSUME FreesApart
  PROVE  ThreadsSpec => []UsageSettled
<1>1. ThreadsInit => UsageInv
  BY UsageStarts
<1>2. ThreadInv /\ ThreadInv' /\ UsageInv /\ [ThreadsNext]_allVars => UsageInv'
  BY UsageKeeps
<1>3. ThreadInv /\ UsageInv => UsageSettled
  <2> SUFFICES ASSUME ThreadInv, UsageInv, \A t \in Threads : thread[t] = Outside, ~overlap,
                      status = "running"
               PROVE  global_memory_usage = Recorded % SIZE_MOD
    BY UsageRecorded DEF UsageSettled
  <2>1. Pushing = {} /\ Freeing = {}
    BY DEF Pushing, Freeing, Outside, Removing
  <2>2. Balanced /\ Recorded \in Nat
    BY RecordedNat DEF UsageInv, ThreadInv
  <2>3. Owed = Recorded
    BY <2>1, <2>2, TotalEmpty DEF Owed
  <2> QED
    BY <2>2, <2>3 DEF Balanced
<1> QED
  BY <1>1, <1>2, <1>3, ThreadsSafe, PTL DEF ThreadsSpec

============================================================================
