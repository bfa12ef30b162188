----------------------- MODULE SafetyNetSafety_proofs -----------------------
(***************************************************************************)
(* The inductive invariant of SafetyNet, for a program that does not       *)
(* combine a moving realloc with the fast cache (SafeClient): each block   *)
(* has one owner, the cache agrees with the list, nothing undefined        *)
(* happens, recorded sizes fit, and exit leaves nothing behind.            *)
(***************************************************************************)
EXTENDS SafetyNet_proofs

Allocd == {a \in Addrs : live[a] > 0}

\* IInv without types and without the pending call
Core == OwnedOnce /\ CacheCoherent /\ NeverUndefined /\ SizeWithinBlock /\ ExitClean

\* The step puts nothing in a slot that was empty.
NoSlotTaken ==
  \A i \in Slots : (key[i] = NULL => key'[i] = NULL) /\ (value[i] = NULL => value'[i] = NULL)

----------------------------------------------------------------------------
(* The effect of each kind of step on Core *)

\* A step that changes weights, ids, marks or settings only.
LEMMA QuietKeeps ==
  ASSUME Core, status = "running", status' = "running",
         UNCHANGED <<live, foreign, list, data, size, key, value>>
  PROVE  Core'
<1>1. Listed' = Listed /\ Tracked' = Tracked
  BY DEF Listed, Tracked
<1> QED
  BY <1>1 DEF Core, OwnedOnce, CacheCoherent, NeverUndefined, SizeWithinBlock, ExitClean

\* A new entry for p.
LEMMA PushKeeps ==
  ASSUME TypeOK, TypeOK', Core, status = "running",
         NEW p \in Pointers, NEW bytes \in Nat, NEW touched \in Listed \cup {NULL},
         linked_list_push(p, bytes, touched),
         UNCHANGED <<key, value>>,
         p # NULL => p \notin Tracked /\ live'[p] > 0 /\ bytes <= live'[p],
         \A a \in Tracked \ {NULL} : live'[a] = live[a],
         foreign' \subseteq Allocd',
         Allocd' \ foreign' = (Allocd \ foreign) \cup ({p} \ {NULL})
  PROVE  Core'
<1>0. Listed \subseteq Entries /\ NULL \notin Entries
  BY NullAssumption DEF Listed, TypeOK, DataType
<1>1. CASE Abort /\ UNCHANGED <<list, entry>>
  <2>1. Listed' = Listed /\ Tracked' = Tracked /\ UNCHANGED <<list, data, size>> /\ status' = "aborted"
    BY <1>1 DEF Listed, Tracked, entry, Abort
  <2>2. OwnedOnce'
    BY <2>1 DEF Core, OwnedOnce, Allocd
  <2>3. SizeWithinBlock'
    BY <2>1 DEF Core, SizeWithinBlock, Tracked
  <2> QED
    BY <2>1, <2>2, <2>3 DEF Core, CacheCoherent, NeverUndefined, ExitClean
<1>2. CASE ~(Abort /\ UNCHANGED <<list, entry>>)
  <2>1. PICK f \in Entries \ Listed :
          /\ list' = Append(list, f)
          /\ data' = [data EXCEPT ![f] = p] /\ size' = [size EXCEPT ![f] = bytes]
          /\ Reads({touched} \ {NULL})
    BY <1>2, Zenon DEF linked_list_push
  <2>2. status' = "running"
    BY <2>1 DEF Reads
  <2>3. /\ Len(list) \in Nat /\ DOMAIN list = 1..Len(list) /\ DOMAIN list' = 1..(Len(list) + 1)
        /\ \A i \in 1..Len(list) : list'[i] = list[i]
        /\ list'[Len(list) + 1] = f
    BY <2>1 DEF TypeOK, DataType
  <2>4. Listed' = Listed \cup {f}
    <3>1. DOMAIN list' = DOMAIN list \cup {Len(list) + 1}
      BY <2>3
    <3> QED
      BY <2>3, <3>1 DEF Listed
  <2>5. /\ \A e \in Listed : data'[e] = data[e] /\ size'[e] = size[e]
        /\ data'[f] = p /\ size'[f] = bytes
    BY <1>0, <2>1 DEF TypeOK, DataType
  <2>6. Tracked' = Tracked \cup {p}
    BY <2>4, <2>5 DEF Tracked
  <2>7. OwnedOnce'
    <3>1. ASSUME NEW i \in DOMAIN list', NEW j \in DOMAIN list', list'[i] = list'[j] PROVE i = j
      <4>1. \A n \in 1..Len(list) : list[n] \in Listed
        BY <2>3 DEF Listed
      <4> QED
        BY <2>3, <3>1, <4>1 DEF Core, OwnedOnce
    <3>2. ASSUME NEW e \in Listed', NEW g \in Listed', data'[e] = data'[g], data'[e] # NULL PROVE e = g
      <4>1. \A x \in Listed : data[x] \in Tracked
        BY DEF Tracked
      <4> QED
        BY <2>4, <2>5, <3>2, <4>1 DEF Core, OwnedOnce
    <3>3. Tracked' \ {NULL} = Allocd' \ foreign'
      BY <2>6 DEF Core, OwnedOnce, Allocd
    <3> QED
      BY <3>1, <3>2, <3>3 DEF OwnedOnce, Allocd
  <2>8. CacheCoherent'
    BY <2>4, <2>5 DEF Core, CacheCoherent
  <2>9. SizeWithinBlock'
    <3>1. ASSUME NEW e \in Listed, data[e] # NULL PROVE size'[e] <= live'[data'[e]]
      BY <2>5, <3>1 DEF Core, SizeWithinBlock, Tracked
    <3> QED
      BY <2>4, <2>5, <3>1 DEF SizeWithinBlock
  <2> QED
    BY <2>2, <2>7, <2>8, <2>9 DEF Core, NeverUndefined, ExitClean
<1> QED
  BY <1>1, <1>2

\* The process leaves through exit.
LEMMA ExitKeeps ==
  ASSUME TypeOK, Core, status = "running", NEW how \in {"exited", "crashed"}, doexit(how)
  PROVE  Core' /\ \A i \in Slots : key'[i] = NULL /\ value'[i] = NULL
<1>1. list' = << >> /\ Listed' = {} /\ Tracked' = {}
  BY DEF doexit, Listed, Tracked
<1>2. Tracked \ {NULL} = Allocd \ foreign
  BY DEF Core, OwnedOnce, Allocd
<1>3. \A i, j \in DOMAIN list : data[list[i]] = data[list[j]] /\ data[list[i]] # NULL => i = j
  BY DEF Core, OwnedOnce, Listed
<1>4. \A a \in freeOnListFree : live[a] > 0
  BY <1>2 DEF freeOnListFree, Allocd
<1>5. status' = how
  BY <1>3, <1>4 DEF doexit
<1>6. live' = [a \in Addrs |-> IF a \in freeOnListFree THEN 0 ELSE live[a]] /\ UNCHANGED <<foreign, doFree>>
  BY DEF doexit, flags
<1>7. Allocd' = Allocd \ freeOnListFree
  BY <1>6 DEF Allocd, TypeOK, DataType
<1>8. OwnedOnce'
  <2>1. foreign \subseteq Allocd /\ foreign \cap freeOnListFree = {}
    BY <1>2 DEF freeOnListFree, Core, OwnedOnce, Allocd
  <2> QED
    BY <1>1, <1>5, <1>6, <1>7, <2>1 DEF OwnedOnce, Allocd
<1>9. ExitClean'
  BY <1>2, <1>6, <1>7 DEF ExitClean, Allocd, freeOnListFree
<1>10. \A i \in Slots : key'[i] = NULL /\ value'[i] = NULL
  BY DEF doexit
<1> QED
  BY <1>1, <1>5, <1>8, <1>9, <1>10 DEF Core, CacheCoherent, NeverUndefined, SizeWithinBlock

\* The list without its k-th entry holds the other entries, each once.
LEMMA RemoveListed ==
  ASSUME TypeOK, \A i, j \in DOMAIN list : list[i] = list[j] => i = j,
         NEW k \in DOMAIN list, list' = linked_list_removeEntry(k)
  PROVE  /\ Listed' = Listed \ {list[k]}
         /\ \A i, j \in DOMAIN list' : list'[i] = list'[j] => i = j
<1>1. /\ Len(list) \in Nat /\ DOMAIN list = 1..Len(list) /\ k \in 1..Len(list)
      /\ DOMAIN list' = 1..(Len(list) - 1)
      /\ \A i \in 1..(Len(list) - 1) : list'[i] = IF i < k THEN list[i] ELSE list[i + 1]
  <2>1. Len(list) \in Nat /\ DOMAIN list = 1..Len(list)
    BY DEF TypeOK, DataType
  <2>2. /\ DOMAIN list' = 1..(Len(list) - 1)
        /\ \A i \in 1..(Len(list) - 1) : list'[i] = IF i < k THEN list[i] ELSE list[i + 1]
    BY RemoveTyped, Zenon
  <2> QED
    BY <2>1, <2>2
<1>2. ASSUME NEW i \in DOMAIN list' PROVE list'[i] \in Listed \ {list[k]}
  <2>1. PICK n \in DOMAIN list : n # k /\ list'[i] = list[n]
    <3>1. CASE i < k
      BY <1>1, <3>1
    <3>2. CASE ~(i < k)
      <4>1. i + 1 \in DOMAIN list /\ i + 1 # k /\ list'[i] = list[i + 1]
        BY <1>1, <3>2
      <4> QED
        BY <4>1
    <3> QED
      BY <3>1, <3>2
  <2> QED
    BY <2>1 DEF Listed
<1>3. ASSUME NEW n \in DOMAIN list, n # k PROVE \E i \in DOMAIN list' : list'[i] = list[n]
  <2>1. CASE n < k
    <3>1. n \in DOMAIN list' /\ list'[n] = list[n]
      BY <1>1, <2>1
    <3> QED
      BY <3>1
  <2>2. CASE n > k
    <3>1. n - 1 \in DOMAIN list' /\ ~(n - 1 < k) /\ (n - 1) + 1 = n
      BY <1>1, <2>2
    <3>2. list'[n - 1] = list[n]
      BY <1>1, <3>1
    <3> QED
      BY <3>1, <3>2
  <2> QED
    BY <1>1, <1>3, <2>1, <2>2
<1>4. Listed' = Listed \ {list[k]}
  BY <1>2, <1>3 DEF Listed
<1>5. ASSUME NEW i \in DOMAIN list', NEW j \in DOMAIN list', list'[i] = list'[j] PROVE i = j
  <2>1. /\ i \in Nat /\ j \in Nat /\ i \in DOMAIN list /\ j \in DOMAIN list
        /\ i + 1 \in DOMAIN list /\ j + 1 \in DOMAIN list
    BY <1>1
  <2> QED
    BY <1>1, <1>5, <2>1
<1> QED
  BY <1>4, <1>5

\* The entry of a tracked block is the only one, and libc has the block.
LEMMA TrackedBlock ==
  ASSUME Core, status = "running", NEW e \in Listed, data[e] \in Addrs
  PROVE  live[data[e]] > 0 /\ data[e] \notin foreign
         /\ \A f \in Listed : data[f] = data[e] => f = e
  BY NullAssumption DEF Core, OwnedOnce, Tracked

\* sn_free of a tracked block.
LEMMA FreeKeeps ==
  ASSUME TypeOK, Core, status = "running", NEW ptr \in Addrs, Lookup(ptr) # NULL, FreeBlock(ptr)
  PROVE  Core' /\ NoSlotTaken
<1> DEFINE e == Lookup(ptr)
           k == linked_list_searchForPointer(ptr)
           keyed == memman_cacheInvalidate(ptr)
           hit == {value[i] : i \in keyed}
<1>1. e \in Listed /\ e \in Entries /\ data[e] = ptr /\ ptr # NULL
  BY LookupListed, NullAssumption DEF Core
<1>2. live[ptr] > 0 /\ ptr \notin foreign /\ \A f \in Listed : data[f] = ptr => f = e
  BY <1>1, TrackedBlock
<1>3. k \in DOMAIN list /\ list[k] = e /\ EntryAt(k) = e /\ k # 0
  <2>1. ptr \in Tracked
    BY <1>1 DEF Tracked
  <2>2. k # 0 /\ k \in DOMAIN list /\ data[list[k]] = ptr /\ list[k] \in Listed
    BY <2>1, FoundByPtr
  <2> QED
    BY <1>2, <2>2 DEF EntryAt
<1>4. \A i \in keyed : value[i] = e
  <2>1. ASSUME NEW i \in keyed PROVE value[i] = e
    <3>1. i \in Slots /\ key[i] = ptr
      BY DEF memman_cacheInvalidate
    <3> QED
      BY <1>1, <1>2, <3>1 DEF Core, CacheCoherent
  <2> QED
    BY <2>1
<1>5. /\ list' = linked_list_removeEntry(k)
      /\ key' = [i \in Slots |-> IF i \in keyed THEN NULL ELSE key[i]]
      /\ value' = [i \in Slots |-> IF i \in keyed THEN NULL ELSE value[i]]
      /\ live' = [a \in Addrs |-> IF a = data[e] THEN 0 ELSE live[a]]
      /\ status' = IF {e} \cup hit \subseteq Listed /\ (data[e] # NULL => live[data[e]] > 0)
                   THEN "running" ELSE "undefined"
      /\ data' = Cleared(data, EntryAt(k), NULL)
      /\ size' = Cleared(size, EntryAt(k), 0)
      /\ foreign' = foreign
  BY DEF FreeBlock
<1>6. /\ \A x \in Entries \ {e} : data'[x] = data[x] /\ size'[x] = size[x]
      /\ \A a \in Addrs : live'[a] = IF a = ptr THEN 0 ELSE live[a]
  BY <1>1, <1>3, <1>5 DEF Cleared
<1>7. status' = "running"
  BY <1>1, <1>2, <1>4, <1>5
<1>8. Listed' = Listed \ {e} /\ \A i, j \in DOMAIN list' : list'[i] = list'[j] => i = j
  BY <1>3, <1>5, RemoveListed DEF Core, OwnedOnce
<1>9. Listed \subseteq Entries
  BY DEF Listed, TypeOK, DataType
<1>10. \A i \in Slots : i \in keyed <=> key[i] = ptr
  BY DEF memman_cacheInvalidate
<1> HIDE DEF e, k, keyed, hit
<1>11. OwnedOnce'
  <2>1. ASSUME NEW x \in Listed', NEW y \in Listed', data'[x] = data'[y], data'[x] # NULL PROVE x = y
    BY <1>6, <1>8, <1>9, <2>1 DEF Core, OwnedOnce
  <2>2. Tracked' \ {NULL} = (Tracked \ {NULL}) \ {ptr}
    BY <1>1, <1>2, <1>6, <1>8, <1>9 DEF Tracked
  <2>3. Allocd' = Allocd \ {ptr}
    BY <1>6 DEF Allocd, TypeOK, DataType
  <2>4. Tracked \ {NULL} = Allocd \ foreign /\ foreign \subseteq Allocd
    BY DEF Core, OwnedOnce, Allocd
  <2>5. Tracked' \ {NULL} = Allocd' \ foreign' /\ foreign' \subseteq Allocd'
    BY <1>2, <1>5, <2>2, <2>3, <2>4
  <2> QED
    BY <1>8, <2>1, <2>5 DEF OwnedOnce, Allocd
<1>12. CacheCoherent'
  BY <1>1, <1>5, <1>6, <1>8, <1>9, <1>10 DEF Core, CacheCoherent
<1>13. SizeWithinBlock'
  <2>1. \A x \in Listed \ {e} : data[x] # ptr
    BY <1>2
  <2> QED
    BY <1>6, <1>8, <1>9, <2>1 DEF Core, SizeWithinBlock, TypeOK, DataType, Pointers
<1>14. NoSlotTaken
  BY <1>5 DEF NoSlotTaken
<1> QED
  BY <1>7, <1>11, <1>12, <1>13, <1>14 DEF Core, NeverUndefined, ExitClean

\* sn_realloc.  Only a program whose cache is empty may see a block move.
LEMMA ResizeKeeps ==
  ASSUME TypeOK, Core, status = "running", SafeClient, CacheUnused,
         NEW ptr \in Addrs, NEW new_size \in Nat \ {0},
         NEW e \in Listed, data[e] = ptr, Resize(ptr, e, new_size)
  PROVE  Core'
<1>1. e \in Entries /\ Listed \subseteq Entries /\ ptr # NULL
  BY NullAssumption DEF Listed, TypeOK, DataType
<1>2. live[ptr] > 0 /\ ptr \notin foreign /\ \A f \in Listed : data[f] = ptr => f = e
  BY TrackedBlock
<1>3. PICK new_ptr \in {ptr} \cup (IF ReallocMayMove THEN FreeAddrs ELSE {}) :
         /\ live' = [live EXCEPT ![ptr] = 0, ![new_ptr] = new_size]
         /\ data' = [data EXCEPT ![e] = new_ptr]
  BY DEF Resize
<1>4. /\ size' = [size EXCEPT ![e] = new_size]
      /\ status' = "running"
      /\ UNCHANGED <<foreign, list, key, value>>
  BY <1>2 DEF Resize, linked_list_entry_setSize, cache
<1>5. new_ptr \in Addrs /\ new_ptr # NULL /\ (new_ptr # ptr => live[new_ptr] = 0 /\ ReallocMayMove)
  BY <1>3, NullAssumption DEF FreeAddrs
<1>6. /\ \A x \in Listed \ {e} : data'[x] = data[x] /\ size'[x] = size[x]
      /\ data'[e] = new_ptr /\ size'[e] = new_size
      /\ \A a \in Addrs : live'[a] = IF a = new_ptr THEN new_size ELSE IF a = ptr THEN 0 ELSE live[a]
  BY <1>1, <1>3, <1>4, <1>5 DEF TypeOK, DataType
<1>7. Listed' = Listed
  BY <1>4 DEF Listed
<1>8. \A x \in Listed \ {e} : data[x] # new_ptr
  <2>1. \A x \in Listed : data[x] # NULL => live[data[x]] > 0
    BY DEF Core, OwnedOnce, Tracked
  <2> QED
    BY <1>2, <1>5, <2>1
<1>9. OwnedOnce'
  <2>1. ASSUME NEW x \in Listed, NEW y \in Listed, data'[x] = data'[y], data'[x] # NULL PROVE x = y
    BY <1>6, <1>8, <2>1 DEF Core, OwnedOnce
  <2>2. Tracked' \ {NULL} = ((Tracked \ {NULL}) \ {ptr}) \cup {new_ptr}
    BY <1>2, <1>5, <1>6, <1>7 DEF Tracked
  <2>3. Allocd' = (Allocd \ {ptr}) \cup {new_ptr}
    BY <1>5, <1>6 DEF Allocd
  <2>4. Tracked \ {NULL} = Allocd \ foreign /\ foreign \subseteq Allocd
    BY DEF Core, OwnedOnce, Allocd
  <2>5. new_ptr \notin foreign
    BY <1>2, <1>5, <2>4 DEF Allocd
  <2>6. Tracked' \ {NULL} = Allocd' \ foreign' /\ foreign' \subseteq Allocd'
    BY <1>2, <1>4, <2>2, <2>3, <2>4, <2>5
  <2> QED
    BY <1>4, <1>7, <2>1, <2>6 DEF Core, OwnedOnce, Allocd
<1>10. CacheCoherent'
  <2>1. CASE new_ptr = ptr
    <3>1. \A x \in Listed : data'[x] = data[x]
      BY <1>6, <2>1
    <3> QED
      BY <1>4, <1>7, <3>1 DEF Core, CacheCoherent
  <2>2. CASE new_ptr # ptr
    <3>1. \A i \in Slots : key[i] = NULL /\ value[i] = NULL
      BY <1>5, <2>2 DEF SafeClient, CacheUnused
    <3> QED
      BY <1>4, <3>1 DEF CacheCoherent
  <2> QED
    BY <2>1, <2>2
<1>11. SizeWithinBlock'
  <2>1. \A x \in Listed \ {e} : data[x] # ptr
    BY <1>2
  <2>2. \A x \in Listed : data[x] # NULL => data[x] \in Addrs
    BY <1>1 DEF TypeOK, DataType, Pointers
  <2> QED
    BY <1>5, <1>6, <1>7, <1>8, <2>1, <2>2 DEF Core, SizeWithinBlock
<1> QED
  BY <1>4, <1>9, <1>10, <1>11 DEF Core, NeverUndefined, ExitClean

\* memman_work on one entry.
LEMMA WorkerKeeps ==
  ASSUME TypeOK, Core, memman_CacheAlgorithmWorker
  PROVE  Core'
<1> DEFINE ctx == list[walk]
<1>1. ctx \in Listed /\ ctx # NULL /\ status = "running"
  <2>1. walk > 0 /\ walk <= Len(list) /\ walk \in Nat /\ status = "running"
    BY DEF memman_CacheAlgorithmWorker, TypeOK, ControlType
  <2>2. walk \in DOMAIN list
    BY <2>1 DEF TypeOK, DataType
  <2> QED
    BY <2>1, <2>2, NullAssumption DEF Listed, TypeOK, DataType
<1>2. UNCHANGED <<live, foreign, list, data, size>>
  BY DEF memman_CacheAlgorithmWorker, heap
<1>3. Listed' = Listed /\ Tracked' = Tracked
  BY <1>2 DEF Listed, Tracked
<1>4. \/ key' = key /\ value' = value /\ status' = status
      \/ \E T, R : /\ key' = [i \in Slots |-> IF i \in T THEN data[ctx] ELSE key[i]]
                  /\ value' = [i \in Slots |-> IF i \in T THEN ctx ELSE value[i]]
                  /\ R \subseteq Slots /\ Reads({value[i] : i \in R} \ {NULL})
  <2>1. \A T : {j \in Slots : \A k \in T : j <= k} \subseteq Slots
    OBVIOUS
  <2> QED
    BY <2>1, Zenon DEF memman_CacheAlgorithmWorker
<1> HIDE DEF ctx
<1>5. CASE key' = key /\ value' = value /\ status' = status
  BY <1>1, <1>2, <1>5, QuietKeeps
<1>6. CASE ~(key' = key /\ value' = value /\ status' = status)
  <2>1. PICK T, R : /\ key' = [i \in Slots |-> IF i \in T THEN data[ctx] ELSE key[i]]
                    /\ value' = [i \in Slots |-> IF i \in T THEN ctx ELSE value[i]]
                    /\ R \subseteq Slots /\ Reads({value[i] : i \in R} \ {NULL})
    BY <1>4, <1>6
  <2>2. status' = "running"
    BY <2>1 DEF Reads, Core, CacheCoherent
  <2>3. CacheCoherent'
    BY <1>1, <1>2, <1>3, <2>1 DEF Core, CacheCoherent
  <2>4. OwnedOnce' /\ SizeWithinBlock'
    BY <1>1, <1>2, <1>3, <2>2 DEF Core, OwnedOnce, SizeWithinBlock
  <2> QED
    BY <2>2, <2>3, <2>4 DEF Core, NeverUndefined, ExitClean
<1> QED
  BY <1>5, <1>6

\* A step that changes slots of the cache and nothing the list or libc holds.
LEMMA SlotsKeep ==
  ASSUME Core, status = "running", status' = "running",
         UNCHANGED <<live, foreign, list, data, size>>, CacheCoherent'
  PROVE  Core'
<1>1. Listed' = Listed /\ Tracked' = Tracked
  BY DEF Listed, Tracked
<1> QED
  BY <1>1 DEF Core, OwnedOnce, NeverUndefined, SizeWithinBlock, ExitClean

----------------------------------------------------------------------------
(* The functions *)

\* The body of a function that ran memman_work.
LEMMA BodyReturns ==
  ASSUME IInv, NEW op \in WorkCalls, Body(op), TypeOK', Core'
  PROVE  IInv'
<1>1. call' = NoCall /\ call.op = op
  BY DEF Body
<1>2. CallOK'
  BY <1>1 DEF CallOK, NoCall
<1>3. Calls \cap CacheFilling # {}
  BY <1>1 DEF IInv, CacheUnused, NoCall, WorkCalls, PtrQueries
<1> QED
  BY <1>2, <1>3 DEF IInv, Core, CacheUnused

\* A function without memman_work.
LEMMA BeginReturns ==
  ASSUME IInv, NEW op, Begin(op), TypeOK', Core',
         \/ op \in CacheFilling
         \/ NoSlotTaken
  PROVE  IInv'
<1>1. call' = NoCall /\ op \in Calls
  BY DEF Begin, Idle, control
<1>2. CallOK'
  BY <1>1 DEF CallOK, NoCall
<1>3. CacheUnused'
  <2>1. SUFFICES ASSUME Calls \cap CacheFilling = {}
                 PROVE  \A i \in Slots : key'[i] = NULL /\ value'[i] = NULL
    BY <1>1 DEF CacheUnused
  <2>2. op \notin CacheFilling /\ \A i \in Slots : key[i] = NULL /\ value[i] = NULL
    BY <1>1, <2>1 DEF IInv, CacheUnused
  <2> QED
    BY <2>2 DEF NoSlotTaken
<1> QED
  BY <1>2, <1>3 DEF IInv, Core

LEMMA CoreOf ==
  ASSUME IInv
  PROVE  TypeOK /\ Core /\ CallOK /\ CacheUnused
  BY DEF IInv, Core

\* What a call looks up is in the list.
LEMMA FoundListed ==
  ASSUME IInv, NEW p \in Pointers, p # NULL
  PROVE  /\ Lookup(p) \in Listed \cup {NULL} /\ memman_TryCacheHit(p) \in Listed \cup {NULL}
         /\ linked_list_getByPtr(p) \in Listed \cup {NULL}
<1>1. p \in Addrs /\ TypeOK /\ CacheCoherent
  BY DEF Pointers, IInv
<1> QED
  BY <1>1, LookupListed, HitListed, ByPtrListed

\* Ended(e), whatever the types
Closes(e) == \E code, last : Ends(code, e, last)

LEMMA ClosesForms ==
  /\ \A e : Ended(e) => Closes(e)
  /\ \A e : (\E code : sn_error(code, e)) => Closes(e)
  /\ \A e : Answer(e) => Closes(e)
  /\ \A p : Misses(p) => Closes(linked_list_getByPtr(p)) /\ p # NULL
<1>1. \A e : Ended(e) => Closes(e)
  BY DEF Ended, Closes
<1>2. \A e : (\E code : sn_error(code, e)) => Closes(e)
  BY DEF sn_error, Closes
<1>3. \A e : Answer(e) => Closes(e)
  BY DEF Answer, Closes
<1>4. \A p : Misses(p) => Closes(linked_list_getByPtr(p)) /\ p # NULL
  BY DEF Misses, Searched, Closes
<1> QED
  BY <1>1, <1>2, <1>3, <1>4

LEMMA ClosesKeeps ==
  ASSUME Core, status = "running", NEW e \in Listed \cup {NULL}, Closes(e)
  PROVE  Core' /\ UNCHANGED <<key, value>>
<1>1. UNCHANGED <<live, foreign, list, data, size, key, value>> /\ Reads({e} \ {NULL})
  BY DEF Closes, Ends, heap, cache
<1>2. status' = "running"
  BY <1>1 DEF Reads
<1> QED
  BY <1>1, <1>2, QuietKeeps

\* A query ends with an entry of the list, or none.
LEMMA QueryAnswers ==
  ASSUME IInv,
         \/ sn_query_size \/ (\E op \in PtrQueries : QueryField(op))
         \/ sn_calculate_checksum \/ sn_is_tracked_block \/ sn_query_thread_memory_usage
  PROVE  /\ \E op \in WorkCalls : Body(op)
         /\ \E e \in Listed \cup {NULL} : Closes(e)
<1>1. \E op \in WorkCalls : Body(op)
  BY DEF sn_query_size, QueryField, sn_calculate_checksum, sn_is_tracked_block,
         sn_query_thread_memory_usage, WorkCalls, PtrQueries
<1>2. PICK e \in {NULL, linked_list_getByPtr(call.ptr), memman_TryCacheHit(call.ptr)} :
        Ended(e) /\ (call.ptr = NULL => e = NULL)
  BY QueryEnds, CoreOf
<1>3. e \in Listed \cup {NULL}
  <2>1. call.ptr \in Pointers
    BY DEF IInv, TypeOK, ControlType
  <2> QED
    BY <1>2, <2>1, FoundListed
<1> QED
  BY <1>1, <1>2, <1>3, ClosesForms

LEMMA QueriesSafe ==
  ASSUME IInv, TypeOK',
         \/ sn_query_size \/ (\E op \in PtrQueries : QueryField(op))
         \/ sn_calculate_checksum \/ sn_is_tracked_block \/ sn_query_thread_memory_usage
  PROVE  IInv'
<1>1. PICK op \in WorkCalls : Body(op)
  BY QueryAnswers, Zenon
<1>2. \E e \in Listed \cup {NULL} : Closes(e)
  BY QueryAnswers, Zenon
<1>3. Core'
  BY <1>1, <1>2, ClosesKeeps, CoreOf DEF Body
<1> QED
  BY <1>1, <1>3, BodyReturns

LEMMA IdsSafe ==
  ASSUME IInv, TypeOK', sn_set_block_id \/ sn_query_block_id
  PROVE  IInv'
<1>1. PICK op \in WorkCalls : Body(op)
  BY DEF sn_set_block_id, sn_query_block_id, WorkCalls
<1>2. status = "running" /\ Core
  BY <1>1, CoreOf DEF Body
<1>3. CASE Misses(call.ptr) \/ \E code : sn_error(code, NULL)
  <2>1. call.ptr \in Pointers
    BY DEF IInv, TypeOK, ControlType
  <2>2. \E e \in Listed \cup {NULL} : Closes(e)
    BY <1>3, <2>1, FoundListed, ClosesForms
  <2> QED
    BY <1>1, <1>2, <2>2, ClosesKeeps, BodyReturns
<1>4. CASE sn_set_block_id /\ ~(Misses(call.ptr) \/ \E code : sn_error(code, NULL))
  <2>1. /\ call.ptr # NULL /\ memman_TryCacheHit(call.ptr) # NULL
        /\ Reads({memman_TryCacheHit(call.ptr)})
        /\ UNCHANGED <<heap, list, data, size, cached, cache, flags, global_memory_usage, error_code>>
    BY <1>4, Zenon DEF sn_set_block_id
  <2>2. call.ptr \in Pointers
    BY DEF IInv, TypeOK, ControlType
  <2>3. status' = "running"
    BY <2>1, <2>2, FoundListed DEF Reads
  <2>4. Core'
    BY <1>2, <2>1, <2>3, QuietKeeps DEF heap, cache
  <2> QED
    BY <1>1, <2>4, BodyReturns
<1>5. CASE sn_query_block_id /\ ~(\E code : sn_error(code, NULL))
  <2>1. /\ Reads({value[i] : i \in ReadForId(call.n)})
        /\ UNCHANGED <<heap, list, data, size, cached, block_id, cache, flags, global_memory_usage>>
    BY <1>5, Zenon DEF sn_query_block_id
  <2>2. {value[i] : i \in ReadForId(call.n)} \subseteq Listed
    BY <1>2 DEF ReadForId, Core, CacheCoherent
  <2>3. status' = "running"
    BY <2>1, <2>2 DEF Reads
  <2>4. Core'
    BY <1>2, <2>1, <2>3, QuietKeeps DEF heap, cache
  <2> QED
    BY <1>1, <2>4, BodyReturns
<1> QED
  BY <1>3, <1>4, <1>5

LEMMA RegistersSafe ==
  ASSUME IInv, TypeOK', sn_register \/ sn_register_size
  PROVE  IInv'
<1>1. PICK op \in WorkCalls : Body(op)
  BY DEF sn_register, sn_register_size, WorkCalls
<1>2. status = "running" /\ Core /\ TypeOK /\ CallOK
  BY <1>1, CoreOf DEF Body
<1>3. CASE Closes(NULL)
  BY <1>1, <1>2, <1>3, ClosesKeeps, BodyReturns
<1>4. CASE ~Closes(NULL)
  <2>1. call.ptr \in Pointers /\ call.n \in Nat
    BY <1>2 DEF TypeOK, ControlType
  <2>2. Tracked \ {NULL} = Allocd \ foreign /\ foreign \subseteq Allocd
    BY <1>2 DEF Core, OwnedOnce, Allocd
  <2>3. PICK n \in Nat :
          /\ linked_list_push(call.ptr, n, NULL)
          /\ foreign' = foreign \ {call.ptr}
          /\ UNCHANGED <<live, cache, flags, global_memory_usage, error_code>>
          /\ call.ptr # NULL => call.ptr \in foreign /\ n <= live[call.ptr]
    <3>1. CASE sn_register
      <4>1. call.ptr # NULL => call.ptr \in foreign
        BY <1>2, <3>1 DEF sn_register, Body, CallOK
      <4>2. call.ptr # NULL => 0 <= live[call.ptr]
        BY <1>2, <4>1 DEF TypeOK, DataType
      <4> QED
        BY <3>1, <4>1, <4>2 DEF sn_register
    <3>2. CASE sn_register_size
      <4>1. /\ call.ptr # NULL /\ ~linked_list_hasPtr(call.ptr) /\ call.op = "sn_register_size"
            /\ foreign' = foreign \ {call.ptr}
            /\ linked_list_push(call.ptr, call.n, NULL)
            /\ UNCHANGED <<live, cache, flags, global_memory_usage, error_code>>
        <5>1. /\ ~Ends(error_code, NULL, linked_list_getByPtr(call.ptr))
              /\ \A code : ~sn_error(code, NULL)
          BY <1>4, ClosesForms DEF Closes
        <5> QED
          BY <3>2, <5>1, Zenon DEF sn_register_size, Body
      <4>2. call.ptr \notin Tracked
        BY <1>2, <4>1, FoundByPtr DEF linked_list_hasPtr
      <4>3. call.ptr \in foreign /\ call.n <= live[call.ptr]
        BY <1>2, <4>1, <4>2 DEF CallOK
      <4> QED
        BY <2>1, <4>1, <4>3
    <3> QED
      BY <3>1, <3>2
  <2>4. call.ptr # NULL => /\ call.ptr \notin Tracked /\ live'[call.ptr] > 0 /\ n <= live'[call.ptr]
    BY <2>2, <2>3 DEF Allocd
  <2>5. foreign' \subseteq Allocd' /\ Allocd' = Allocd
    BY <2>2, <2>3 DEF Allocd
  <2>6. Allocd' \ foreign' = (Allocd \ foreign) \cup ({call.ptr} \ {NULL})
    BY <2>2, <2>3, <2>5, NullAssumption DEF Allocd
  <2>7. Core'
    BY <1>2, <2>1, <2>3, <2>4, <2>5, <2>6, PushKeeps DEF cache
  <2> QED
    BY <1>1, <2>7, BodyReturns
<1> QED
  BY <1>3, <1>4

LEMMA AllocatedKeeps ==
  ASSUME TypeOK, TypeOK', Core, status = "running", NEW bytes \in Nat \ {0}, NEW recorded \in Nat,
         recorded <= bytes, NEW e \in Listed \cup {NULL}, Allocated(bytes, recorded, e)
  PROVE  Core' /\ UNCHANGED <<key, value>>
<1>1. PICK a \in FreeAddrs :
        /\ live' = [live EXCEPT ![a] = bytes]
        /\ linked_list_push(a, recorded, e)
        /\ UNCHANGED <<foreign, cache, flags, error_code>>
  BY DEF Allocated
<1>2. a \in Addrs /\ a \in Pointers /\ a # NULL /\ live[a] = 0 /\ foreign' = foreign
  BY <1>1, NullAssumption DEF FreeAddrs, Pointers
<1>3. Tracked \ {NULL} = Allocd \ foreign /\ foreign \subseteq Allocd
  BY DEF Core, OwnedOnce, Allocd
<1>4. \A b \in Addrs : live'[b] = IF b = a THEN bytes ELSE live[b]
  BY <1>1 DEF TypeOK, DataType
<1>5. Allocd' = Allocd \cup {a} /\ a \notin Allocd
  BY <1>2, <1>4 DEF Allocd
<1>6. a \notin Tracked /\ live'[a] > 0 /\ recorded <= live'[a]
  BY <1>2, <1>3, <1>4, <1>5
<1>7. \A b \in Tracked \ {NULL} : live'[b] = live[b]
  BY <1>3, <1>4, <1>6 DEF Allocd
<1>8. foreign' \subseteq Allocd' /\ Allocd' \ foreign' = (Allocd \ foreign) \cup ({a} \ {NULL})
  BY <1>2, <1>3, <1>5
<1> QED
  BY <1>1, <1>2, <1>6, <1>7, <1>8, PushKeeps DEF cache

LEMMA MallocKeeps ==
  ASSUME TypeOK, TypeOK', Core, status = "running", NEW bytes \in Nat, NEW e \in Listed \cup {NULL},
         Malloc(bytes, e)
  PROVE  Core' /\ UNCHANGED <<key, value>>
<1>1. (\E code : sn_error(code, e)) \/ (bytes # 0 /\ Allocated(bytes, bytes, e))
  BY DEF Malloc
<1> QED
  BY <1>1, ClosesForms, ClosesKeeps, AllocatedKeeps

LEMMA MallocsSafe ==
  ASSUME IInv, TypeOK', sn_malloc \/ sn_calloc \/ sn_query_static_metadata_copy
  PROVE  IInv'
<1>0. TypeOK /\ Core
  BY CoreOf
<1>1. CASE sn_malloc
  <2>1. Begin("sn_malloc") /\ status = "running"
    BY <1>1 DEF sn_malloc, Begin, Idle
  <2>2. \E bytes \in Nat : Malloc(bytes, NULL)
    BY <1>1, InputAssumption DEF sn_malloc
  <2>3. Core' /\ UNCHANGED <<key, value>>
    BY <1>0, <2>1, <2>2, MallocKeeps
  <2> QED
    BY <2>1, <2>3, BeginReturns DEF NoSlotTaken
<1>2. CASE sn_calloc
  <2>1. Begin("sn_calloc") /\ status = "running"
    BY <1>2 DEF sn_calloc, Begin, Idle
  <2>2. PICK num \in Nums, bytes \in Sizes :
          \/ \E code : sn_error(code, NULL)
          \/ bytes * num # 0 /\ Allocated(bytes * num, bytes, NULL)
    BY <1>2 DEF sn_calloc
  <2>3. num \in Nat /\ bytes \in Nat
    BY InputAssumption
  <2>4. bytes * num \in Nat /\ (bytes * num # 0 => bytes <= bytes * num)
    BY <2>3
  <2>5. Core' /\ UNCHANGED <<key, value>>
    BY <1>0, <2>1, <2>2, <2>3, <2>4, ClosesForms, ClosesKeeps, AllocatedKeeps
  <2> QED
    BY <2>1, <2>5, BeginReturns DEF NoSlotTaken
<1>3. CASE sn_query_static_metadata_copy
  <2>1. Body("sn_query_static_metadata") /\ status = "running"
    BY <1>3 DEF sn_query_static_metadata_copy, Body
  <2>2. \/ Misses(call.ptr) \/ \E code : sn_error(code, NULL)
        \/ call.ptr # NULL /\ Malloc(META, memman_TryCacheHit(call.ptr))
    BY <1>3 DEF sn_query_static_metadata_copy
  <2>3. call.ptr \in Pointers /\ META \in Nat
    BY <1>0, WidthAssumption DEF TypeOK, ControlType
  <2>4. Core'
    BY <1>0, <2>1, <2>2, <2>3, FoundListed, ClosesForms, ClosesKeeps, MallocKeeps
  <2> QED
    BY <2>1, <2>4, BodyReturns DEF WorkCalls, PtrQueries
<1> QED
  BY <1>1, <1>2, <1>3

LEMMA FreeSafe ==
  ASSUME IInv, TypeOK', sn_free
  PROVE  IInv'
<1>1. Begin("sn_free") /\ status = "running" /\ TypeOK /\ Core
  BY CoreOf DEF sn_free, Begin, Idle
<1>2. CASE \E code : sn_error(code, NULL)
  <2>1. Core' /\ UNCHANGED <<key, value>>
    BY <1>1, <1>2, ClosesForms, ClosesKeeps
  <2> QED
    BY <1>1, <2>1, BeginReturns DEF NoSlotTaken
<1>3. CASE ~(\E code : sn_error(code, NULL))
  <2>1. PICK ptr \in Pointers : ptr # NULL /\ Lookup(ptr) # NULL /\ FreeBlock(ptr)
    BY <1>3, Zenon DEF sn_free
  <2>2. ptr \in Addrs
    BY <2>1 DEF Pointers
  <2>3. Core' /\ NoSlotTaken
    BY <1>1, <2>1, <2>2, FreeKeeps
  <2> QED
    BY <1>1, <2>3, BeginReturns
<1> QED
  BY <1>2, <1>3

LEMMA ReallocSafe ==
  ASSUME SafeClient, IInv, TypeOK', sn_realloc
  PROVE  IInv'
<1>1. Begin("sn_realloc") /\ status = "running" /\ TypeOK /\ Core /\ CacheUnused
  BY CoreOf DEF sn_realloc, Begin, Idle
<1>2. PICK ptr \in Pointers, new_size \in Sizes :
        \/ \E code : sn_error(code, NULL)
        \/ /\ ptr # NULL
           /\ \E code : Ends(code, linked_list_getByPtr(ptr), linked_list_getByPtr(ptr))
        \/ /\ ptr # NULL /\ linked_list_getByPtr(ptr) # NULL /\ new_size # 0
           /\ Resize(ptr, linked_list_getByPtr(ptr), new_size)
  BY Zenon DEF sn_realloc
<1> DEFINE e == linked_list_getByPtr(ptr)
<1>3. CASE (\E code : sn_error(code, NULL)) \/ (ptr # NULL /\ \E code : Ends(code, e, e))
  <2>1. Closes(NULL) \/ (ptr # NULL /\ Closes(e))
    BY <1>3, ClosesForms DEF Closes
  <2>2. Core' /\ UNCHANGED <<key, value>>
    BY <1>1, <2>1, FoundListed, ClosesKeeps
  <2> QED
    BY <1>1, <2>2, BeginReturns DEF NoSlotTaken
<1>4. CASE ptr # NULL /\ e # NULL /\ new_size # 0 /\ Resize(ptr, e, new_size)
  <2>1. e \in Listed /\ data[e] = ptr /\ ptr \in Addrs /\ new_size \in Nat \ {0}
    BY <1>1, <1>4, ByPtrListed, InputAssumption DEF Pointers
  <2>2. Core' /\ UNCHANGED <<key, value>>
    BY <1>1, <1>4, <2>1, ResizeKeeps DEF Resize, cache
  <2> QED
    BY <1>1, <2>2, BeginReturns DEF NoSlotTaken
<1> QED
  BY <1>2, <1>3, <1>4

LEMMA CachePutSafe ==
  ASSUME IInv, TypeOK', sn_request_to_fast_cache
  PROVE  IInv'
<1>1. Begin("sn_request_to_fast_cache") /\ status = "running" /\ TypeOK /\ Core
  BY CoreOf DEF sn_request_to_fast_cache, Begin, Idle
<1>2. PICK ptr \in Pointers :
        \/ \E code : sn_error(code, NULL)
        \/ /\ ptr # NULL /\ linked_list_getByPtr(ptr) # NULL
           /\ memman_tryCachePut(linked_list_getByPtr(ptr))
  BY Zenon DEF sn_request_to_fast_cache
<1> DEFINE e == linked_list_getByPtr(ptr)
           unkeyed == {i \in Slots : key[i] = NULL}
<1> SUFFICES Core'
  BY <1>1, BeginReturns DEF CacheFilling
<1>3. CASE \E code : sn_error(code, NULL)
  BY <1>1, <1>3, ClosesForms, ClosesKeeps
<1>4. CASE ~(\E code : sn_error(code, NULL))
  <2>1. e \in Listed /\ e # NULL /\ memman_tryCachePut(e)
    BY <1>1, <1>2, <1>4, ByPtrListed
  <2>2. CASE Ends(error_code, e, e)
    BY <1>1, <2>1, <2>2, ClosesKeeps DEF Closes
  <2>3. CASE doexit("crashed")
    BY <1>1, <2>3, ExitKeeps
  <2>4. CASE ~Ends(error_code, e, e) /\ ~doexit("crashed")
    <3>1. /\ unkeyed # {}
          /\ key' = [key EXCEPT ![Min(unkeyed)] = data[e]]
          /\ value' = [value EXCEPT ![Min(unkeyed)] = e]
          /\ UNCHANGED <<heap, list, data, size, block_id, flags, global_memory_usage, error_code, status>>
      BY <2>1, <2>4 DEF memman_tryCachePut
    <3>2. PICK m \in Slots : /\ key' = [key EXCEPT ![m] = data[e]]
                             /\ value' = [value EXCEPT ![m] = e]
      <4>1. unkeyed \in SUBSET Nat /\ unkeyed # {} /\ unkeyed \subseteq Slots
        BY <3>1 DEF Slots
      <4>2. Min(unkeyed) \in unkeyed
        BY <4>1, MinIn
      <4> QED
        BY <3>1, <4>1, <4>2
    <3> HIDE DEF e, unkeyed
    <3>3. \A i \in Slots : /\ key'[i] = IF i = m THEN data[e] ELSE key[i]
                           /\ value'[i] = IF i = m THEN e ELSE value[i]
      BY <1>1, <3>2 DEF TypeOK, DataType
    <3>4. Listed' = Listed /\ data' = data
      BY <3>1 DEF Listed
    <3>5. CacheCoherent'
      BY <1>1, <2>1, <3>3, <3>4 DEF Core, CacheCoherent
    <3> QED
      BY <1>1, <3>1, <3>5, SlotsKeep DEF heap
  <2> QED
    BY <2>2, <2>3, <2>4
<1> QED
  BY <1>3, <1>4

LEMMA ClearSafe ==
  ASSUME IInv, TypeOK', sn_fast_cache_clear
  PROVE  IInv'
<1> DEFINE keyed == {i \in Slots : key[i] # NULL}
           hit == {value[i] : i \in keyed}
<1>1. Begin("sn_fast_cache_clear") /\ status = "running" /\ TypeOK /\ Core
  BY CoreOf DEF sn_fast_cache_clear, Begin, Idle
<1>2. /\ key' = [i \in Slots |-> IF i \in keyed THEN NULL ELSE key[i]]
      /\ value' = [i \in Slots |-> IF i \in keyed THEN NULL ELSE value[i]]
      /\ Reads(hit)
      /\ UNCHANGED <<live, foreign, list, data, size>>
  BY DEF sn_fast_cache_clear, heap
<1>3. status' = "running"
  BY <1>1, <1>2 DEF Core, CacheCoherent, Reads
<1>4. Listed' = Listed
  BY <1>2 DEF Listed
<1>5. CacheCoherent'
  BY <1>1, <1>2, <1>4 DEF Core, CacheCoherent
<1>6. Core' /\ NoSlotTaken
  BY <1>1, <1>2, <1>3, <1>5, SlotsKeep DEF NoSlotTaken
<1> QED
  BY <1>1, <1>6, BeginReturns

LEMMA SettingsSafe ==
  ASSUME IInv, TypeOK', \/ sn_do_auto_free_at_exit \/ sn_set_alloc_limit \/ sn_lock_fast_cache
                        \/ sn_unlock_fast_cache \/ sn_do_fast_caching \/ sn_reset_last_error
  PROVE  IInv'
<1>1. PICK op : Begin(op)
  BY DEF sn_do_auto_free_at_exit, sn_set_alloc_limit, sn_lock_fast_cache,
         sn_unlock_fast_cache, sn_do_fast_caching, sn_reset_last_error
<1>2. status = "running" /\ Core
  BY <1>1, CoreOf DEF Begin, Idle
<1>3. UNCHANGED <<live, foreign, list, data, size, key, value, status>>
  BY DEF sn_do_auto_free_at_exit, sn_set_alloc_limit, sn_lock_fast_cache, sn_unlock_fast_cache,
         sn_do_fast_caching, sn_reset_last_error, heap, entry, cache
<1>4. Core' /\ NoSlotTaken
  BY <1>2, <1>3, QuietKeeps DEF NoSlotTaken
<1> QED
  BY <1>1, <1>4, BeginReturns

\* The program allocates a block for itself.
LEMMA AppMallocSafe ==
  ASSUME IInv, TypeOK', app_malloc
  PROVE  IInv'
<1>1. Begin("app_malloc") /\ status = "running" /\ TypeOK /\ Core
  BY CoreOf DEF app_malloc, Begin, Idle
<1>2. PICK a \in FreeAddrs, n \in Sizes \ {0} :
        live' = [live EXCEPT ![a] = n] /\ foreign' = foreign \cup {a}
  BY DEF app_malloc
<1>3. UNCHANGED <<list, data, size, key, value, status>>
  BY DEF app_malloc, entry, cache
<1>4. Listed' = Listed /\ Tracked' = Tracked
  BY <1>3 DEF Listed, Tracked
<1>5. /\ a \in Addrs /\ live[a] = 0 /\ n \in Nat \ {0}
      /\ \A b \in Addrs : live'[b] = IF b = a THEN n ELSE live[b]
  BY <1>1, <1>2, InputAssumption DEF FreeAddrs, TypeOK, DataType
<1>6. Tracked \ {NULL} = Allocd \ foreign /\ foreign \subseteq Allocd
  BY <1>1 DEF Core, OwnedOnce, Allocd
<1>7. Allocd' = Allocd \cup {a} /\ a \notin Allocd
  BY <1>5 DEF Allocd
<1>8. OwnedOnce'
  <2>1. Tracked' \ {NULL} = Allocd' \ foreign' /\ foreign' \subseteq Allocd'
    BY <1>2, <1>4, <1>6, <1>7
  <2> QED
    BY <1>1, <1>3, <1>4, <2>1 DEF Core, OwnedOnce, Allocd
<1>9. SizeWithinBlock'
  <2>1. ASSUME NEW e \in Listed, data[e] # NULL PROVE live'[data[e]] = live[data[e]]
    BY <1>5, <1>6, <1>7, <2>1 DEF Allocd, Tracked
  <2> QED
    BY <1>1, <1>3, <1>4, <2>1 DEF Core, SizeWithinBlock
<1>10. Core' /\ NoSlotTaken
  BY <1>1, <1>3, <1>4, <1>8, <1>9 DEF Core, CacheCoherent, NeverUndefined, ExitClean, NoSlotTaken
<1> QED
  BY <1>1, <1>10, BeginReturns

LEMMA CleanupSafe ==
  ASSUME IInv, TypeOK', library_cleanup
  PROVE  IInv'
<1>1. Begin("exit") /\ doexit("exited") /\ status = "running" /\ TypeOK /\ Core
  BY CoreOf DEF library_cleanup, Begin, Idle
<1>2. Core' /\ NoSlotTaken
  BY <1>1, ExitKeeps DEF NoSlotTaken
<1> QED
  BY <1>1, <1>2, BeginReturns

\* memman_work begins, goes on, or begins again: the call stays one the
\* program may make, because nothing is freed or registered meanwhile.
LEMMA WorkSafe ==
  ASSUME IInv, TypeOK', \/ \E op \in WorkCalls : Enter(op)
                        \/ memman_CacheAlgorithmWorker \/ sn_query_static_metadata
  PROVE  IInv'
<1>0. TypeOK /\ Core /\ CallOK /\ CacheUnused
  BY CoreOf
<1>1. ASSUME NEW op \in WorkCalls, Enter(op) PROVE IInv'
  <2>1. op \in Calls /\ status = "running" /\ status' = "running"
        /\ UNCHANGED <<live, foreign, list, data, size, key, value>>
    BY <1>1 DEF Enter, Idle, heap, entry, cache
  <2>2. Core' /\ Tracked' = Tracked
    BY <1>0, <2>1, QuietKeeps DEF Tracked, Listed
  <2>3. PICK x \in Arguments(op) : call' = [op |-> op, ptr |-> x[1], n |-> x[2]]
    BY <1>1 DEF Enter
  <2>4. call'.op = op /\ call'.ptr = x[1] /\ call'.n = x[2]
    BY <2>3
  <2>5. CallOK'
    <3>1. CASE op = "sn_register"
      <4>1. x[1] \in foreign \cup {NULL}
        BY <3>1 DEF Arguments, PtrQueries
      <4>2. foreign \cap (Tracked \ {NULL}) = {}
        BY <1>0, <2>1 DEF Core, OwnedOnce
      <4> QED
        BY <2>1, <2>2, <2>4, <3>1, <4>1, <4>2 DEF CallOK
    <3>2. CASE op = "sn_register_size"
      <4>1. x[1] \in foreign \cup Tracked \cup {NULL} /\ (x[1] # NULL => x[2] <= live[x[1]])
        BY <3>2 DEF Arguments, PtrQueries
      <4> QED
        BY <2>1, <2>2, <2>4, <3>2, <4>1 DEF CallOK
    <3>3. CASE op \notin {"sn_register", "sn_register_size"}
      BY <2>4, <3>3 DEF CallOK
    <3> QED
      BY <3>1, <3>2, <3>3
  <2>6. CacheUnused'
    BY <2>1 DEF CacheUnused, CacheFilling
  <2> QED
    BY <2>2, <2>5, <2>6 DEF IInv, Core
<1>2. Calls \cap CacheFilling # {} \/ call = NoCall
  BY <1>0 DEF CacheUnused
<1>3. CASE memman_CacheAlgorithmWorker
  <2>1. call # NoCall /\ call' = call /\ UNCHANGED <<live, foreign, list, data>>
    BY <1>3 DEF memman_CacheAlgorithmWorker, heap
  <2>2. Core'
    BY <1>0, <1>3, WorkerKeeps
  <2>3. CallOK'
    BY <1>0, <2>1 DEF CallOK, Tracked, Listed
  <2>4. CacheUnused'
    BY <1>2, <2>1 DEF CacheUnused
  <2> QED
    BY <2>2, <2>3, <2>4 DEF IInv, Core
<1>4. CASE sn_query_static_metadata
  <2>1. /\ status = "running" /\ status' = "running" /\ call.op = "sn_query_static_metadata"
        /\ call' = [op |-> call.op, ptr |-> call.ptr, n |-> 1]
        /\ UNCHANGED <<live, foreign, list, data, size, key, value>>
    BY <1>4 DEF sn_query_static_metadata, heap, entry, cache
  <2>2. Core'
    BY <1>0, <2>1, QuietKeeps
  <2>3. CallOK'
    BY <2>1 DEF CallOK
  <2>4. CacheUnused'
    BY <1>2, <2>1 DEF CacheUnused, NoCall
  <2> QED
    BY <2>2, <2>3, <2>4 DEF IInv, Core
<1> QED
  BY <1>1, <1>3, <1>4

----------------------------------------------------------------------------
(* The invariant and what follows from it *)

LEMMA InvInit == Init => IInv
<1> SUFFICES ASSUME Init PROVE IInv
  OBVIOUS
<1>1. TypeOK
  BY TypeInit
<1>2. Listed = {} /\ Tracked = {}
  BY DEF Init, Listed, Tracked
<1>3. OwnedOnce /\ CacheCoherent /\ NeverUndefined /\ SizeWithinBlock /\ ExitClean
  BY <1>2 DEF Init, OwnedOnce, CacheCoherent, NeverUndefined, SizeWithinBlock, ExitClean
<1>4. CallOK /\ CacheUnused
  BY DEF Init, CallOK, CacheUnused, NoCall
<1> QED
  BY <1>1, <1>3, <1>4 DEF IInv

LEMMA InvStep ==
  ASSUME SafeClient
  PROVE  IInv /\ [Next]_vars => IInv'
<1> SUFFICES ASSUME IInv, [Next]_vars PROVE IInv'
  OBVIOUS
<1>1. TypeOK'
  BY TypeStep DEF IInv
<1>2. CASE UNCHANGED vars
  <2>1. Listed' = Listed /\ Tracked' = Tracked
    BY <1>2 DEF vars, entry, Listed, Tracked
  <2> QED
    BY <1>1, <1>2, <2>1
       DEF vars, heap, entry, cache, flags, control, IInv, OwnedOnce, CacheCoherent, NeverUndefined,
           SizeWithinBlock, ExitClean, CallOK, CacheUnused
<1>3. CASE ~UNCHANGED vars
  BY <1>1, <1>3, QueriesSafe, IdsSafe, RegistersSafe, MallocsSafe, FreeSafe, ReallocSafe,
     CachePutSafe, ClearSafe, SettingsSafe, AppMallocSafe, CleanupSafe, WorkSafe, Zenon
     DEF Next, Terminated
<1> QED
  BY <1>2, <1>3

\* Every invariant of IInv holds always, for a program that does not combine a
\* moving realloc with the fast cache.
THEOREM Safety ==
  ASSUME SafeClient
  PROVE  Spec => []IInv
  BY InvInit, InvStep, PTL DEF Spec

\* Every block libc has allocated is either in the list, once, or the
\* program's own: sn_malloc, sn_free, sn_realloc and the register functions
\* lose no block and keep no freed one.
THEOREM OneOwner ==
  ASSUME SafeClient
  PROVE  Spec => []OwnedOnce
<1>1. IInv => OwnedOnce
  BY DEF IInv
<1> QED
  BY <1>1, Safety, PTL

\* The library reads no destroyed entry and gives libc no block that is not
\* allocated: no use after free, no double free.
THEOREM NothingUndefined ==
  ASSUME SafeClient
  PROVE  Spec => []NeverUndefined
<1>1. IInv => NeverUndefined
  BY DEF IInv
<1> QED
  BY <1>1, Safety, PTL

\* The lookup of sn_free, the fast cache first, finds the entry a walk of the
\* list would find, so that which block it frees does not depend on the cache.
THEOREM CacheInvisible ==
  ASSUME SafeClient
  PROVE  Spec => []LookupExact
<1>1. IInv => LookupExact
  <2> SUFFICES ASSUME IInv, NEW p \in Addrs PROVE Lookup(p) = linked_list_getByPtr(p)
    BY DEF LookupExact
  <2>1. TypeOK /\ OwnedOnce /\ CacheCoherent
    BY DEF IInv
  <2>2. CASE Lookup(p) = NULL
    BY <2>2 DEF Lookup
  <2>3. CASE Lookup(p) # NULL
    <3>1. Lookup(p) \in Listed /\ data[Lookup(p)] = p
      BY <2>1, <2>3, LookupListed
    <3>2. p \in Tracked
      BY <3>1 DEF Tracked
    <3>3. linked_list_getByPtr(p) \in Listed /\ data[linked_list_getByPtr(p)] = p
      BY <2>1, <3>2, ByPtrListed
    <3> QED
      BY <2>1, <3>1, <3>3, NullAssumption DEF OwnedOnce
  <2> QED
    BY <2>2, <2>3
<1> QED
  BY <1>1, Safety, PTL

\* The destructor frees all that is tracked, also after a crash that leaves
\* through exit.
THEOREM NothingLeft ==
  ASSUME SafeClient
  PROVE  Spec => []ExitClean
<1>1. IInv => ExitClean
  BY DEF IInv
<1> QED
  BY <1>1, Safety, PTL

\* A slot of the fast cache always names an entry of the list and the address
\* of that entry's block: sn_free and linked_list_removeEntry leave nothing
\* stale behind.
THEOREM CacheAgrees ==
  ASSUME SafeClient
  PROVE  Spec => []CacheCoherent
<1>1. IInv => CacheCoherent
  BY DEF IInv
<1> QED
  BY <1>1, Safety, PTL

\* What sn_free clears and sn_calculate_checksum reads, the recorded size, lies
\* within the block, also after sn_realloc and sn_register_size.
THEOREM SizesFit ==
  ASSUME SafeClient
  PROVE  Spec => []SizeWithinBlock
<1>1. IInv => SizeWithinBlock
  BY DEF IInv
<1> QED
  BY <1>1, Safety, PTL

----------------------------------------------------------------------------
(* The mark an entry carries while it is in the fast cache *)

\* Steps that unmark no entry and put only marked ones in a slot.
LEMMA MarkKept ==
  ASSUME CachedIsMarked, \A e \in Entries : cached[e] = 1 => cached'[e] = 1,
         value \in [Slots -> Entries \cup {NULL}],
         \A i \in Slots : value'[i] \in {value[i], NULL} \/ cached'[value'[i]] = 1
  PROVE  CachedIsMarked'
  BY DEF CachedIsMarked

\* A new entry is in no slot.
LEMMA MarkPush ==
  ASSUME TypeOK, CacheCoherent, CachedIsMarked, NEW p, NEW bytes, NEW touched,
         linked_list_push(p, bytes, touched), value' = value
  PROVE  CachedIsMarked'
<1>1. CASE UNCHANGED <<list, entry>>
  BY <1>1 DEF entry, CachedIsMarked
<1>2. CASE ~UNCHANGED <<list, entry>>
  <2>1. PICK f \in Entries \ Listed : cached' = [cached EXCEPT ![f] = 0]
    BY <1>2, Zenon DEF linked_list_push
  <2>2. \A i \in Slots : value[i] # NULL => value[i] # f /\ value[i] \in Entries
    BY <2>1 DEF CacheCoherent, TypeOK, DataType
  <2> QED
    BY <2>1, <2>2 DEF CachedIsMarked, TypeOK, DataType
<1> QED
  BY <1>1, <1>2

\* sn_free unmarks what leaves the cache with it.
LEMMA MarkFree ==
  ASSUME TypeOK, Core, status = "running", CachedIsMarked,
         NEW ptr \in Addrs, Lookup(ptr) # NULL, FreeBlock(ptr)
  PROVE  CachedIsMarked'
<1> DEFINE k == linked_list_searchForPointer(ptr)
           keyed == memman_cacheInvalidate(ptr)
           hit == {value[i] : i \in keyed}
<1>1. /\ value' = [i \in Slots |-> IF i \in keyed THEN NULL ELSE value[i]]
      /\ cached' = [x \in Entries |-> IF x \in hit \cup {EntryAt(k)} THEN 0 ELSE cached[x]]
  BY DEF FreeBlock
<1>2. EntryAt(k) \in Listed /\ data[EntryAt(k)] = ptr /\ ptr # NULL
  <2>1. Lookup(ptr) \in Listed /\ data[Lookup(ptr)] = ptr
    BY LookupListed DEF Core
  <2>2. ptr \in Tracked
    BY <2>1 DEF Tracked
  <2> QED
    BY <2>2, FoundByPtr, NullAssumption DEF EntryAt
<1>3. ASSUME NEW i \in Slots, i \notin keyed, value[i] # NULL PROVE value[i] \notin hit \cup {EntryAt(k)}
  <2>1. key[i] # ptr /\ key[i] = data[value[i]]
    BY <1>3 DEF memman_cacheInvalidate, Core, CacheCoherent
  <2>2. value[i] # EntryAt(k)
    BY <1>2, <2>1
  <2>3. ASSUME NEW j \in keyed PROVE value[j] # value[i]
    BY <1>2, <2>1 DEF memman_cacheInvalidate, Core, CacheCoherent
  <2> QED
    BY <2>2, <2>3
<1> HIDE DEF k, keyed, hit
<1> QED
  BY <1>1, <1>3 DEF CachedIsMarked, TypeOK, DataType

LEMMA MarkInit == Init => CachedIsMarked
  BY DEF Init, CachedIsMarked

LEMMA MarkAllocated ==
  ASSUME TypeOK, CacheCoherent, CachedIsMarked, NEW bytes, NEW recorded, NEW e,
         Allocated(bytes, recorded, e)
  PROVE  CachedIsMarked'
<1>1. PICK a : linked_list_push(a, recorded, e) /\ UNCHANGED cache
  BY Zenon DEF Allocated, cache
<1> QED
  BY <1>1, MarkPush DEF cache

LEMMA MarkCloses ==
  ASSUME CachedIsMarked, NEW e, Closes(e)
  PROVE  CachedIsMarked'
  BY DEF Closes, Ends, cache, CachedIsMarked

LEMMA MarkWorker ==
  ASSUME TypeOK, CachedIsMarked, memman_CacheAlgorithmWorker
  PROVE  CachedIsMarked'
<1> DEFINE ctx == list[walk]
<1>1. ctx \in Entries
  <2>1. walk \in Nat /\ walk > 0 /\ walk <= Len(list)
    BY DEF memman_CacheAlgorithmWorker, TypeOK, ControlType
  <2> QED
    BY <2>1 DEF TypeOK, DataType
<1>2. \/ cached' = cached /\ value' = value
      \/ /\ cached' = [cached EXCEPT ![ctx] = 1]
         /\ \E T : value' = [i \in Slots |-> IF i \in T THEN ctx ELSE value[i]]
  BY Zenon DEF memman_CacheAlgorithmWorker
<1> HIDE DEF ctx
<1> QED
  BY <1>1, <1>2, MarkKept DEF TypeOK, DataType

LEMMA MarkCachePut ==
  ASSUME TypeOK, CachedIsMarked, sn_request_to_fast_cache
  PROVE  CachedIsMarked'
<1>1. PICK ptr \in Pointers :
        \/ \E code : sn_error(code, NULL)
        \/ /\ linked_list_getByPtr(ptr) # NULL
           /\ memman_tryCachePut(linked_list_getByPtr(ptr))
  BY Zenon DEF sn_request_to_fast_cache
<1> DEFINE e == linked_list_getByPtr(ptr)
<1>2. CASE (\E code : sn_error(code, NULL)) \/ Ends(error_code, e, e)
  BY <1>2, ClosesForms, MarkCloses DEF Closes
<1>3. CASE doexit("crashed")
  BY <1>3 DEF doexit, CachedIsMarked
<1>4. CASE /\ e # NULL
           /\ cached' = [cached EXCEPT ![e] = 1]
           /\ \E m : value' = [value EXCEPT ![m] = e]
  <2>1. e \in Entries
    BY <1>4, ByPtrListed
  <2> HIDE DEF e
  <2> QED
    BY <1>4, <2>1, MarkKept DEF TypeOK, DataType
<1> QED
  BY <1>1, <1>2, <1>3, <1>4, Zenon DEF memman_tryCachePut

LEMMA MarkClear ==
  ASSUME TypeOK, CachedIsMarked, sn_fast_cache_clear
  PROVE  CachedIsMarked'
<1>1. /\ \E H : cached' = [x \in Entries |-> IF x \in H THEN 1 ELSE cached[x]]
      /\ \E K : value' = [i \in Slots |-> IF i \in K THEN NULL ELSE value[i]]
  BY Zenon DEF sn_fast_cache_clear
<1> QED
  BY <1>1, MarkKept DEF TypeOK, DataType

\* Steps that leave the marks and the slots alone
LEMMA MarkQuiet ==
  ASSUME CachedIsMarked,
         \/ UNCHANGED vars
         \/ \E op \in WorkCalls : Enter(op)
         \/ sn_set_block_id \/ sn_query_block_id \/ sn_query_static_metadata
         \/ sn_do_auto_free_at_exit \/ sn_set_alloc_limit
         \/ sn_lock_fast_cache \/ sn_unlock_fast_cache \/ sn_do_fast_caching
         \/ sn_reset_last_error \/ app_malloc \/ Terminated
  PROVE  CachedIsMarked'
<1>1. CASE Misses(call.ptr) \/ \E code : sn_error(code, NULL)
  BY <1>1, ClosesForms, MarkCloses
<1>2. CASE ~(Misses(call.ptr) \/ \E code : sn_error(code, NULL))
  <2>1. UNCHANGED <<cached, value>>
    BY <1>2 DEF Enter, sn_set_block_id, sn_query_block_id, sn_query_static_metadata,
           sn_do_auto_free_at_exit, sn_set_alloc_limit, sn_lock_fast_cache, sn_unlock_fast_cache,
           sn_do_fast_caching, sn_reset_last_error, app_malloc, Terminated, vars, entry, cache
  <2> QED
    BY <2>1 DEF CachedIsMarked
<1> QED
  BY <1>1, <1>2

\* How the functions on blocks end
LEMMA MallocsEnd ==
  sn_malloc \/ sn_calloc \/ sn_query_static_metadata_copy =>
    (\E e : Closes(e)) \/ \E bytes, recorded, e : Allocated(bytes, recorded, e)
<1>1. sn_malloc \/ sn_calloc \/ sn_query_static_metadata_copy =>
        \/ Misses(call.ptr) \/ \E e : \E code : sn_error(code, e)
        \/ \E bytes, recorded, e : Allocated(bytes, recorded, e)
  BY Zenon DEF sn_malloc, sn_calloc, sn_query_static_metadata_copy, Malloc
<1> QED
  BY <1>1, ClosesForms

LEMMA FreeEnds ==
  sn_free => \/ \E e : Closes(e)
             \/ \E ptr \in Pointers : ptr # NULL /\ Lookup(ptr) # NULL /\ FreeBlock(ptr)
<1>1. sn_free => \/ \E e : \E code : sn_error(code, e)
                 \/ \E ptr \in Pointers : ptr # NULL /\ Lookup(ptr) # NULL /\ FreeBlock(ptr)
  BY Zenon DEF sn_free
<1> QED
  BY <1>1, ClosesForms

LEMMA ReallocEnds ==
  sn_realloc => (\E e : Closes(e)) \/ \E ptr, e, n : Resize(ptr, e, n)
<1>1. sn_realloc => \/ \E e : \E code : sn_error(code, e) \/ Ends(code, e, e)
                    \/ \E ptr, e, n : Resize(ptr, e, n)
  BY Zenon DEF sn_realloc
<1> QED
  BY <1>1, ClosesForms DEF Closes

LEMMA PutEnds ==
  sn_request_to_fast_cache =>
    \/ \E e : Closes(e)
    \/ doexit("crashed")
    \/ UNCHANGED <<heap, list, data, size, global_memory_usage>>
<1>1. sn_request_to_fast_cache =>
        \/ \E e : \E code : sn_error(code, e) \/ Ends(code, e, e)
        \/ doexit("crashed")
        \/ UNCHANGED <<heap, list, data, size, global_memory_usage>>
  BY Zenon DEF sn_request_to_fast_cache, memman_tryCachePut
<1> QED
  BY <1>1, ClosesForms DEF Closes

LEMMA MarkBlocks ==
  ASSUME IInv, CachedIsMarked,
         \/ sn_register \/ sn_register_size \/ sn_malloc \/ sn_calloc
         \/ sn_query_static_metadata_copy \/ sn_free \/ sn_realloc \/ library_cleanup
  PROVE  CachedIsMarked'
<1>0. TypeOK /\ Core /\ CacheCoherent
  BY CoreOf DEF Core
<1>1. CASE \E e : Closes(e)
  BY <1>1, MarkCloses
<1>2. CASE \E p, bytes : linked_list_push(p, bytes, NULL) /\ value' = value
  BY <1>0, <1>2, MarkPush
<1>3. CASE \E bytes, recorded, e : Allocated(bytes, recorded, e)
  BY <1>0, <1>3, MarkAllocated
<1>4. CASE sn_free /\ \E ptr \in Pointers : ptr # NULL /\ Lookup(ptr) # NULL /\ FreeBlock(ptr)
  BY <1>0, <1>4, MarkFree DEF Pointers, sn_free, Begin, Idle
<1>5. CASE \E ptr, e, n : Resize(ptr, e, n)
  BY <1>5 DEF Resize, cache, CachedIsMarked
<1>6. CASE library_cleanup
  BY <1>6 DEF library_cleanup, doexit, CachedIsMarked
<1>7. sn_register \/ sn_register_size => (\E e : Closes(e))
        \/ \E p, bytes : linked_list_push(p, bytes, NULL) /\ value' = value
  BY ClosesForms DEF sn_register, sn_register_size, Closes, cache
<1>8. sn_malloc \/ sn_calloc \/ sn_query_static_metadata_copy =>
        (\E e : Closes(e)) \/ \E bytes, recorded, e : Allocated(bytes, recorded, e)
  BY MallocsEnd
<1>9. sn_free => (\E e : Closes(e))
        \/ \E ptr \in Pointers : ptr # NULL /\ Lookup(ptr) # NULL /\ FreeBlock(ptr)
  BY FreeEnds
<1>10. sn_realloc => (\E e : Closes(e)) \/ \E ptr, e, n : Resize(ptr, e, n)
  BY ReallocEnds
<1> QED
  BY <1>1, <1>2, <1>3, <1>4, <1>5, <1>6, <1>7, <1>8, <1>9, <1>10

LEMMA MarkStep == IInv /\ CachedIsMarked /\ [Next]_vars => CachedIsMarked'
<1> SUFFICES ASSUME IInv, CachedIsMarked, [Next]_vars PROVE CachedIsMarked'
  OBVIOUS
<1>1. TypeOK
  BY DEF IInv
<1>2. CASE \/ sn_query_size \/ (\E op \in PtrQueries : QueryField(op))
           \/ sn_calculate_checksum \/ sn_is_tracked_block \/ sn_query_thread_memory_usage
  BY <1>2, QueryAnswers, MarkCloses
<1> QED
  BY <1>1, <1>2, MarkBlocks, MarkQuiet, MarkClear, MarkCachePut, MarkWorker, Zenon DEF Next

\* An entry in the fast cache carries its mark, whoever put it there: the
\* worker of memman_work or sn_request_to_fast_cache.
THEOREM MarksAgree ==
  ASSUME SafeClient
  PROVE  Spec => []CachedIsMarked
  BY MarkInit, MarkStep, Safety, PTL DEF Spec

----------------------------------------------------------------------------
(* The books: global_memory_usage and the sizes the list records *)

\* What a program charges is what its entries record: sn_register_size records
\* a size it does not charge, and sn_calloc charges the product of its arguments
\* and records the second one.
SizesCharged ==
  /\ "sn_register_size" \notin Calls
  /\ "sn_calloc" \in Calls => Nums \subseteq {0, 1}

\* The steps that change the books, by what they do to them
EntriesKept(S) == \A x \in S : data'[x] = data[x] /\ size'[x] = size[x]

BooksKept ==
  /\ Listed' = Listed /\ EntriesKept(Listed)
  /\ global_memory_usage' = global_memory_usage
  /\ \A a \in Tracked \ {NULL} : live'[a] = live[a]

BlockCharged ==
  \E f \in Entries \ Listed, a \in FreeAddrs, n \in Nat :
    /\ Listed' = Listed \cup {f} /\ EntriesKept(Listed)
    /\ data'[f] = a /\ size'[f] = n /\ live' = [live EXCEPT ![a] = n]
    /\ memman_canAllocateBasedOnLimitAndSize(n)
    /\ global_memory_usage + n <= MaxUsage
    /\ global_memory_usage' = (global_memory_usage + n) % SIZE_MOD

BlockRegistered ==
  /\ call.op = "sn_register" /\ global_memory_usage' = global_memory_usage
  /\ \E f \in Entries \ Listed :
       Listed' = Listed \cup {f} /\ EntriesKept(Listed) /\ size'[f] = 0

BlockReleased ==
  \E e \in Listed :
    /\ Listed' = Listed \ {e} /\ EntriesKept(Listed \ {e}) /\ data[e] # NULL
    /\ \A a \in Addrs \ {data[e]} : live'[a] = live[a]
    /\ global_memory_usage' = (global_memory_usage - size[e]) % SIZE_MOD

BlockResized ==
  \E e \in Listed, n \in Nat :
    /\ Listed' = Listed /\ EntriesKept(Listed \ {e}) /\ data[e] # NULL
    /\ data'[e] # NULL /\ size'[e] = n /\ live'[data'[e]] = n
    /\ \A x \in Listed \ {e} : data[x] # NULL => live'[data[x]] = live[data[x]]
    /\ n > size[e] => memman_canAllocateBasedOnLimitAndSize(n - size[e])
    /\ global_memory_usage - size[e] + n <= MaxUsage
    /\ global_memory_usage' = (global_memory_usage - size[e] + n) % SIZE_MOD

\* The list has finitely many entries.
LEMMA ListedFinite ==
  ASSUME TypeOK
  PROVE  IsFiniteSet(Listed)
<1>1. DOMAIN list = 1..Len(list) /\ Len(list) \in Nat
  BY DEF TypeOK, DataType
<1>2. IsFiniteSet(DOMAIN list)
  BY <1>1, FS_Interval
<1>3. list \in Surjection(DOMAIN list, Listed)
  <2>1. list \in [DOMAIN list -> Listed]
    <3>1. list = [i \in DOMAIN list |-> list[i]]
      BY DEF TypeOK, DataType
    <3> QED
      BY <3>1 DEF Listed
  <2>2. \A x \in Listed : \E i \in DOMAIN list : list[i] = x
    BY DEF Listed
  <2> QED
    BY <2>1, <2>2 DEF Surjection
<1> QED
  BY <1>2, <1>3, FS_Surjection

\* A push that does not end the process
LEMMA PushGrows ==
  ASSUME TypeOK, NEW p, NEW bytes, NEW e, linked_list_push(p, bytes, e), status' = "running"
  PROVE  \E f \in Entries \ Listed :
           /\ Listed' = Listed \cup {f} /\ EntriesKept(Listed)
           /\ data'[f] = p /\ size'[f] = bytes
<1>1. PICK f \in Entries \ Listed :
        /\ list' = Append(list, f)
        /\ data' = [data EXCEPT ![f] = p] /\ size' = [size EXCEPT ![f] = bytes]
  BY Zenon DEF linked_list_push, Abort
<1>2. /\ Len(list) \in Nat /\ DOMAIN list = 1..Len(list) /\ DOMAIN list' = 1..(Len(list) + 1)
      /\ \A i \in 1..Len(list) : list'[i] = list[i]
      /\ list'[Len(list) + 1] = f
  BY <1>1 DEF TypeOK, DataType
<1>3. DOMAIN list' = DOMAIN list \cup {Len(list) + 1}
  BY <1>2
<1>4. Listed' = Listed \cup {f}
  BY <1>2, <1>3 DEF Listed
<1>5. Listed \subseteq Entries
  BY DEF Listed, TypeOK, DataType
<1> QED
  BY <1>1, <1>4, <1>5 DEF EntriesKept, TypeOK, DataType

LEMMA AllocatedCharges ==
  ASSUME TypeOK, NEW n \in Nat, NEW e, Allocated(n, n, e), status' = "running",
         memman_canAllocateBasedOnLimitAndSize(n)
  PROVE  BlockCharged
<1>1. PICK a \in FreeAddrs :
        /\ global_memory_usage + n <= MaxUsage
        /\ live' = [live EXCEPT ![a] = n]
        /\ global_memory_usage' = (global_memory_usage + n) % SIZE_MOD
        /\ linked_list_push(a, n, e)
  BY DEF Allocated
<1>2. PICK f \in Entries \ Listed :
        Listed' = Listed \cup {f} /\ EntriesKept(Listed) /\ data'[f] = a /\ size'[f] = n
  BY <1>1, PushGrows
<1> QED
  BY <1>1, <1>2, Zenon DEF BlockCharged

LEMMA QuietBooks ==
  ASSUME UNCHANGED <<list, data, size, global_memory_usage>>,
         \A a \in Tracked \ {NULL} : live'[a] = live[a]
  PROVE  BooksKept
  BY DEF BooksKept, EntriesKept, Listed

LEMMA ClosesBooks ==
  ASSUME NEW e, Closes(e)
  PROVE  BooksKept
  BY QuietBooks DEF Closes, Ends, heap

LEMMA FreeBooks ==
  ASSUME IInv, status = "running", NEW ptr \in Addrs, Lookup(ptr) # NULL, FreeBlock(ptr)
  PROVE  BlockReleased
<1> DEFINE e == Lookup(ptr)
           k == linked_list_searchForPointer(ptr)
<1>1. e \in Listed /\ e \in Entries /\ data[e] = ptr /\ ptr # NULL /\ TypeOK /\ Core
  BY LookupListed, CoreOf, NullAssumption DEF Core
<1>2. \A f \in Listed : data[f] = ptr => f = e
  BY <1>1, TrackedBlock
<1>3. k \in DOMAIN list /\ list[k] = e /\ EntryAt(k) = e
  <2>1. ptr \in Tracked
    BY <1>1 DEF Tracked
  <2>2. k # 0 /\ k \in DOMAIN list /\ data[list[k]] = ptr /\ list[k] \in Listed
    BY <1>1, <2>1, FoundByPtr
  <2> QED
    BY <1>2, <2>2 DEF EntryAt
<1>4. /\ list' = linked_list_removeEntry(k)
      /\ live' = [a \in Addrs |-> IF a = data[e] THEN 0 ELSE live[a]]
      /\ data' = Cleared(data, EntryAt(k), NULL)
      /\ size' = Cleared(size, EntryAt(k), 0)
      /\ global_memory_usage' = (global_memory_usage - size[e]) % SIZE_MOD
  BY DEF FreeBlock
<1>5. Listed' = Listed \ {e}
  BY <1>1, <1>3, <1>4, RemoveListed DEF Core, OwnedOnce
<1>6. \A x \in Entries \ {e} : data'[x] = data[x] /\ size'[x] = size[x]
  BY <1>3, <1>4 DEF Cleared
<1>7. Listed \subseteq Entries
  BY <1>1 DEF Listed, TypeOK, DataType
<1>8. EntriesKept(Listed \ {e}) /\ \A a \in Addrs \ {data[e]} : live'[a] = live[a]
  BY <1>4, <1>6, <1>7 DEF EntriesKept
<1> HIDE DEF e, k
<1> QED
  BY <1>1, <1>4, <1>5, <1>8 DEF BlockReleased

LEMMA ResizeBooks ==
  ASSUME IInv, status = "running", NEW ptr \in Addrs, NEW n \in Nat,
         NEW e \in Listed, data[e] = ptr, Resize(ptr, e, n),
         n > size[e] => memman_canAllocateBasedOnLimitAndSize(n - size[e])
  PROVE  BlockResized
<1>0. TypeOK /\ Core /\ e \in Entries /\ Listed \subseteq Entries /\ ptr # NULL
  <2>1. TypeOK /\ Core
    BY CoreOf
  <2>2. Listed \subseteq Entries
    BY <2>1 DEF Listed, TypeOK, DataType
  <2> QED
    BY <2>1, <2>2, NullAssumption
<1>1. \A f \in Listed : data[f] = ptr => f = e
  BY <1>0, TrackedBlock
<1>2. PICK new_ptr \in {ptr} \cup FreeAddrs :
         /\ live' = [live EXCEPT ![ptr] = 0, ![new_ptr] = n]
         /\ data' = [data EXCEPT ![e] = new_ptr]
  BY DEF Resize
<1>3. /\ size' = [size EXCEPT ![e] = n] /\ list' = list
      /\ global_memory_usage - size[e] + n <= MaxUsage
      /\ global_memory_usage' = (global_memory_usage - size[e] + n) % SIZE_MOD
  BY DEF Resize, linked_list_entry_setSize
<1>4. new_ptr \in Addrs /\ new_ptr # NULL
  BY <1>2, NullAssumption DEF FreeAddrs
<1>5. Listed' = Listed /\ EntriesKept(Listed \ {e}) /\ data'[e] = new_ptr /\ size'[e] = n
  BY <1>0, <1>2, <1>3 DEF EntriesKept, Listed, TypeOK, DataType
<1>6. live'[new_ptr] = n /\ \A a \in Addrs \ {ptr, new_ptr} : live'[a] = live[a]
  BY <1>0, <1>2, <1>4 DEF TypeOK, DataType
<1>7. ASSUME NEW x \in Listed \ {e}, data[x] # NULL PROVE live'[data[x]] = live[data[x]]
  <2>1. data[x] \in Addrs /\ data[x] # ptr
    BY <1>0, <1>1, <1>7 DEF TypeOK, DataType, Pointers
  <2>2. live[data[x]] > 0
    BY <1>0, <1>7 DEF Core, OwnedOnce, Tracked
  <2>3. data[x] # new_ptr
    BY <1>2, <2>1, <2>2 DEF FreeAddrs
  <2> QED
    BY <1>6, <2>1, <2>3
<1> QED
  BY <1>0, <1>3, <1>4, <1>5, <1>6, <1>7 DEF BlockResized

\* A call inside memman_work is one the program makes.
CallMade == call.op \in Calls \cup {"none"}

LEMMA CallMadeStep == CallMade /\ [Next]_vars => CallMade'
<1> SUFFICES ASSUME CallMade, [Next]_vars PROVE CallMade'
  OBVIOUS
<1>1. CASE call' = call
  BY <1>1 DEF CallMade
<1>2. CASE call' = NoCall
  BY <1>2 DEF CallMade, NoCall
<1>3. CASE \E op \in WorkCalls : Enter(op)
  BY <1>3 DEF CallMade, Enter
<1>4. CASE sn_query_static_metadata
  BY <1>4 DEF CallMade, sn_query_static_metadata
<1>5. (\E op : Body(op)) => call' = NoCall
  BY DEF Body
<1>6. (\E op : Begin(op)) \/ UNCHANGED vars \/ memman_CacheAlgorithmWorker => call' = call
  BY DEF Begin, control, vars, memman_CacheAlgorithmWorker
<1>7. \/ \E op \in WorkCalls : Enter(op)
      \/ sn_query_static_metadata
      \/ \E op : Body(op)
      \/ \E op : Begin(op)
      \/ UNCHANGED vars \/ memman_CacheAlgorithmWorker
  BY Zenon DEF Next, sn_query_size, sn_calculate_checksum, sn_is_tracked_block, QueryField,
     sn_set_block_id, sn_query_block_id, sn_query_thread_memory_usage, sn_register,
     sn_register_size, sn_query_static_metadata_copy, sn_malloc, sn_calloc, sn_realloc, sn_free,
     sn_do_auto_free_at_exit, sn_set_alloc_limit, sn_request_to_fast_cache, sn_lock_fast_cache,
     sn_unlock_fast_cache, sn_do_fast_caching, sn_fast_cache_clear, sn_reset_last_error,
     library_cleanup, app_malloc, Terminated
<1> QED
  BY <1>1, <1>2, <1>3, <1>4, <1>5, <1>6, <1>7

\* sn_malloc, sn_calloc and sn_query_static_metadata charge what they record.
LEMMA MallocBooks ==
  ASSUME IInv, SizesCharged, status' = "running",
         sn_malloc \/ sn_calloc \/ sn_query_static_metadata_copy
  PROVE  BooksKept \/ BlockCharged
<1>0. TypeOK
  BY CoreOf
<1>1. CASE Misses(call.ptr) \/ \E e : \E code : sn_error(code, e)
  BY <1>1, ClosesForms, ClosesBooks
<1>2. CASE \E n \in Nat : \E e : Allocated(n, n, e) /\ memman_canAllocateBasedOnLimitAndSize(n)
  BY <1>0, <1>2, AllocatedCharges
<1>3. CASE sn_malloc
  <2>1. PICK n \in Nat : Malloc(n, NULL)
    BY <1>3, InputAssumption DEF sn_malloc
  <2> QED
    BY <1>1, <1>2, <2>1, Zenon DEF Malloc
<1>4. CASE sn_query_static_metadata_copy
  <2>1. Misses(call.ptr) \/ (\E e : \E code : sn_error(code, e)) \/ \E e : Malloc(META, e)
    BY <1>4, Zenon DEF sn_query_static_metadata_copy
  <2>2. META \in Nat
    BY WidthAssumption
  <2> QED
    BY <1>1, <1>2, <2>1, <2>2, Zenon DEF Malloc
<1>5. CASE sn_calloc
  <2>1. PICK num \in Nums, n \in Sizes :
          \/ \E code : sn_error(code, NULL)
          \/ /\ n * num # 0 /\ Allocated(n * num, n, NULL)
             /\ memman_canAllocateBasedOnLimitAndSize(n * num)
    BY <1>5, Zenon DEF sn_calloc
  <2>2. num \in {0, 1} /\ n \in Nat
    BY <1>5, InputAssumption DEF sn_calloc, Begin, SizesCharged
  <2>3. n * num # 0 => n * num = n
    BY <2>2
  <2> QED
    BY <1>1, <1>2, <2>1, <2>2, <2>3
<1> QED
  BY <1>3, <1>4, <1>5

\* What every step that does not end the process does to the books
LEMMA BooksStep ==
  ASSUME IInv, CallMade, SizesCharged, [Next]_vars, status' = "running"
  PROVE  BooksKept \/ BlockCharged \/ BlockRegistered \/ BlockReleased \/ BlockResized
<1>0. TypeOK /\ Core
  BY CoreOf
<1>1. CASE \E e : Closes(e)
  BY <1>1, ClosesBooks
<1>2. CASE UNCHANGED <<heap, list, data, size, global_memory_usage>>
  BY <1>2, QuietBooks DEF heap
<1>3. CASE app_malloc
  <2>1. status = "running" /\ Tracked \ {NULL} \subseteq {a \in Addrs : live[a] > 0}
    BY <1>0, <1>3 DEF app_malloc, Begin, Idle, Core, OwnedOnce
  <2>2. PICK a \in FreeAddrs, n \in Sizes : live' = [live EXCEPT ![a] = n]
    BY <1>3, Zenon DEF app_malloc
  <2>3. \A b \in Tracked \ {NULL} : live'[b] = live[b]
    BY <1>0, <2>1, <2>2 DEF FreeAddrs, TypeOK, DataType
  <2> QED
    BY <1>3, <2>3, QuietBooks DEF app_malloc, entry
<1>4. CASE sn_register
  <2>1. call.op = "sn_register" /\ linked_list_push(call.ptr, 0, NULL) /\ global_memory_usage' = global_memory_usage
    BY <1>4 DEF sn_register, Body
  <2> QED
    BY <1>0, <2>1, PushGrows DEF BlockRegistered
<1>5. CASE sn_register_size
  BY <1>5 DEF sn_register_size, Body, CallMade, SizesCharged
<1>6. CASE sn_malloc \/ sn_calloc \/ sn_query_static_metadata_copy
  BY <1>6, MallocBooks
<1>7. CASE sn_free
  <2>1. (\E e : Closes(e))
        \/ \E ptr \in Pointers : ptr # NULL /\ Lookup(ptr) # NULL /\ FreeBlock(ptr)
    BY <1>7, FreeEnds
  <2>2. status = "running"
    BY <1>7 DEF sn_free, Begin, Idle
  <2> QED
    BY <1>1, <2>1, <2>2, FreeBooks DEF Pointers
<1>8. CASE sn_realloc
  <2>1. PICK ptr \in Pointers, n \in Sizes :
          \/ \E e : \E code : sn_error(code, e) \/ Ends(code, e, e)
          \/ /\ ptr # NULL /\ linked_list_getByPtr(ptr) # NULL
             /\ n > size[linked_list_getByPtr(ptr)] =>
                  memman_canAllocateBasedOnLimitAndSize(n - size[linked_list_getByPtr(ptr)])
             /\ Resize(ptr, linked_list_getByPtr(ptr), n)
    BY <1>8, Zenon DEF sn_realloc
  <2>0. (\E e : \E code : sn_error(code, e) \/ Ends(code, e, e)) => \E e : Closes(e)
    BY ClosesForms DEF Closes
  <2>2. status = "running" /\ n \in Nat
    BY <1>8, InputAssumption DEF sn_realloc, Begin, Idle
  <2>3. CASE ptr # NULL /\ linked_list_getByPtr(ptr) # NULL
    <3>1. ptr \in Addrs
      BY <2>3 DEF Pointers
    <3>2. linked_list_getByPtr(ptr) \in Listed /\ data[linked_list_getByPtr(ptr)] = ptr
      BY <1>0, <2>3, <3>1, ByPtrListed
    <3> QED
      BY <1>1, <2>0, <2>1, <2>2, <3>1, <3>2, ResizeBooks
  <2> QED
    BY <1>1, <2>0, <2>1, <2>3
<1>9. CASE \/ sn_query_size \/ (\E op \in PtrQueries : QueryField(op))
           \/ sn_calculate_checksum \/ sn_is_tracked_block \/ sn_query_thread_memory_usage
  BY <1>1, <1>9, QueryAnswers
<1>10. CASE library_cleanup \/ doexit("crashed")
  BY <1>10 DEF library_cleanup, doexit
<1>11. CASE sn_request_to_fast_cache
  BY <1>1, <1>2, <1>10, <1>11, PutEnds DEF heap
<1>12. CASE sn_set_block_id \/ sn_query_block_id
  <2>1. \/ Misses(call.ptr) \/ \E e : \E code : sn_error(code, e)
        \/ UNCHANGED <<heap, list, data, size, global_memory_usage>>
    BY <1>12, Zenon DEF sn_set_block_id, sn_query_block_id
  <2> QED
    BY <1>1, <1>2, <2>1, ClosesForms
<1>13. CASE \/ UNCHANGED vars
            \/ \E op \in WorkCalls : Enter(op)
            \/ memman_CacheAlgorithmWorker \/ sn_query_static_metadata
            \/ sn_do_auto_free_at_exit \/ sn_set_alloc_limit
            \/ sn_lock_fast_cache \/ sn_unlock_fast_cache \/ sn_do_fast_caching
            \/ sn_fast_cache_clear \/ sn_reset_last_error \/ Terminated
  <2>1. UNCHANGED <<heap, list, data, size, global_memory_usage>>
    BY <1>13 DEF vars, entry, Enter, memman_CacheAlgorithmWorker, sn_query_static_metadata,
           sn_do_auto_free_at_exit, sn_set_alloc_limit, sn_lock_fast_cache, sn_unlock_fast_cache,
           sn_do_fast_caching, sn_fast_cache_clear, sn_reset_last_error, Terminated
  <2> QED
    BY <1>2, <2>1
<1> QED
  BY <1>3, <1>4, <1>5, <1>6, <1>7, <1>8, <1>9, <1>10, <1>11, <1>12, <1>13, Zenon DEF Next

\* A process that is not running does not come back.
LEMMA RanBefore ==
  ASSUME [Next]_vars, status' = "running"
  PROVE  status = "running"
<1>1. (\E op : Body(op)) \/ (\E op : Begin(op)) => status = "running"
  BY DEF Body, Begin, Idle
<1>2. (\E op \in WorkCalls : Enter(op)) \/ memman_CacheAlgorithmWorker \/ sn_query_static_metadata
        => status = "running"
  BY DEF Enter, Idle, memman_CacheAlgorithmWorker, sn_query_static_metadata
<1>3. UNCHANGED vars => status = "running"
  BY DEF vars
<1>4. \/ \E op \in WorkCalls : Enter(op)
      \/ sn_query_static_metadata
      \/ \E op : Body(op)
      \/ \E op : Begin(op)
      \/ UNCHANGED vars \/ memman_CacheAlgorithmWorker
  BY Zenon DEF Next, sn_query_size, sn_calculate_checksum, sn_is_tracked_block, QueryField,
     sn_set_block_id, sn_query_block_id, sn_query_thread_memory_usage, sn_register,
     sn_register_size, sn_query_static_metadata_copy, sn_malloc, sn_calloc, sn_realloc, sn_free,
     sn_do_auto_free_at_exit, sn_set_alloc_limit, sn_request_to_fast_cache, sn_lock_fast_cache,
     sn_unlock_fast_cache, sn_do_fast_caching, sn_fast_cache_clear, sn_reset_last_error,
     library_cleanup, app_malloc, Terminated
<1> QED
  BY <1>1, <1>2, <1>3, <1>4

\* What the list records, and how much each kind of step adds to it
Recorded == Total(size, Listed)

LEMMA RecordedNat ==
  TypeOK => /\ IsFiniteSet(Listed) /\ Recorded \in Nat
            /\ \A e \in Listed : size[e] \in Nat
<1> SUFFICES ASSUME TypeOK
             PROVE  /\ IsFiniteSet(Listed) /\ Recorded \in Nat
                    /\ \A e \in Listed : size[e] \in Nat
  OBVIOUS
<1>1. IsFiniteSet(Listed)
  BY ListedFinite
<1>2. \A e \in Listed : size[e] \in Nat
  BY DEF Listed, TypeOK, DataType
<1> QED
  BY <1>1, <1>2, TotalNat DEF Recorded

RecordedTyped == Recorded \in Nat

LEMMA RecordedNatNext == TypeOK' => RecordedTyped'
<1>1. TypeOK => RecordedTyped
  BY RecordedNat DEF RecordedTyped
<1> QED
  BY <1>1, PTL

LEMMA RecordedKept ==
  ASSUME TypeOK, Listed' = Listed, EntriesKept(Listed)
  PROVE  Recorded' = Recorded
<1>1. IsFiniteSet(Listed)
  BY ListedFinite
<1>2. Total(size, Listed) = Total(size', Listed)
  BY <1>1, TotalSame DEF EntriesKept
<1> QED
  BY <1>2 DEF Recorded

LEMMA RecordedAdd ==
  ASSUME TypeOK, TypeOK', NEW f \in Entries \ Listed, Listed' = Listed \cup {f}, EntriesKept(Listed)
  PROVE  Recorded' = size'[f] + Recorded
<1>1. IsFiniteSet(Listed)
  BY ListedFinite
<1>2. \A x \in Listed \cup {f} : size'[x] \in Nat
  BY DEF Listed, TypeOK, DataType
<1>3. Total(size', Listed \cup {f}) = size'[f] + Total(size', Listed)
  BY <1>1, <1>2, TotalAdd
<1>4. Total(size, Listed) = Total(size', Listed)
  BY <1>1, TotalSame DEF EntriesKept
<1> QED
  BY <1>3, <1>4 DEF Recorded

LEMMA RecordedRemove ==
  ASSUME TypeOK, NEW e \in Listed, Listed' = Listed \ {e}, EntriesKept(Listed \ {e})
  PROVE  Recorded = size[e] + Recorded'
<1>1. IsFiniteSet(Listed) /\ IsFiniteSet(Listed \ {e})
  BY ListedFinite, FS_RemoveElement
<1>2. \A x \in Listed : size[x] \in Nat
  BY RecordedNat
<1>3. Total(size, Listed) = size[e] + Total(size, Listed \ {e})
  BY <1>1, <1>2, TotalRemove
<1>4. Total(size, Listed \ {e}) = Total(size', Listed \ {e})
  BY <1>1, TotalSame DEF EntriesKept
<1> QED
  BY <1>3, <1>4 DEF Recorded

LEMMA RecordedResize ==
  ASSUME TypeOK, TypeOK', NEW e \in Listed, Listed' = Listed, EntriesKept(Listed \ {e})
  PROVE  Recorded' = Recorded - size[e] + size'[e]
<1>1. IsFiniteSet(Listed) /\ IsFiniteSet(Listed \ {e})
  BY ListedFinite, FS_RemoveElement
<1>2. /\ \A x \in Listed : size[x] \in Nat
      /\ \A x \in Listed : size'[x] \in Nat
  <2>1. Listed \subseteq Entries
    BY DEF Listed, TypeOK, DataType
  <2>2. \A x \in Entries : size[x] \in Nat /\ size'[x] \in Nat
    BY DEF TypeOK, DataType
  <2> QED
    BY <2>1, <2>2
<1>3. /\ Total(size, Listed) = size[e] + Total(size, Listed \ {e})
      /\ Total(size', Listed) = size'[e] + Total(size', Listed \ {e})
  BY <1>1, <1>2, TotalRemove
<1>4. Total(size, Listed \ {e}) = Total(size', Listed \ {e})
  BY <1>1, TotalSame DEF EntriesKept
<1>5. Total(size, Listed \ {e}) \in Nat
  BY <1>1, <1>2, TotalNat
<1> QED
  BY <1>2, <1>3, <1>4, <1>5 DEF Recorded

LEMMA UsageRecorded == UsageIsTracked <=> (status = "running" => global_memory_usage = Recorded % SIZE_MOD)
  BY DEF UsageIsTracked, Recorded, Total

LEMMA UsageInit == Init => UsageIsTracked
<1> SUFFICES ASSUME Init PROVE global_memory_usage = Recorded % SIZE_MOD
  BY UsageRecorded
<1>1. Listed = {} /\ global_memory_usage = 0
  BY DEF Init, Listed
<1>2. Recorded = 0
  BY <1>1, TotalEmpty DEF Recorded
<1> QED
  BY <1>1, <1>2, WidthAssumption

LEMMA UsageStep ==
  ASSUME SizesCharged
  PROVE  IInv /\ IInv' /\ CallMade /\ UsageIsTracked /\ [Next]_vars => UsageIsTracked'
<1> SUFFICES ASSUME IInv, IInv', CallMade, UsageIsTracked, [Next]_vars, status' = "running"
             PROVE  global_memory_usage' = Recorded' % SIZE_MOD
  BY DEF UsageIsTracked, Recorded, Total
<1>1. /\ TypeOK /\ TypeOK' /\ status = "running" /\ SIZE_MOD \in Nat \ {0}
      /\ global_memory_usage = Recorded % SIZE_MOD
  BY RanBefore, UsageRecorded, WidthAssumption DEF IInv
<1>2. /\ Recorded \in Nat /\ Recorded' \in Nat
      /\ \A e \in Listed : size[e] \in Nat
  BY <1>1, RecordedNat, RecordedNatNext DEF RecordedTyped
<1>3. \A n \in Int : ((Recorded % SIZE_MOD) + n) % SIZE_MOD = (Recorded + n) % SIZE_MOD
  <2>1. SIZE_MOD \in Nat \ {0} /\ Recorded \in Int
    BY <1>1, <1>2
  <2> QED
    BY <2>1, ModSum, Zenon
<1>4. CASE BooksKept
  BY <1>1, <1>4, RecordedKept DEF BooksKept
<1>5. CASE BlockCharged
  <2>1. PICK f \in Entries \ Listed, n \in Nat :
          /\ Listed' = Listed \cup {f} /\ EntriesKept(Listed) /\ size'[f] = n
          /\ global_memory_usage' = (global_memory_usage + n) % SIZE_MOD
    BY <1>5 DEF BlockCharged
  <2>2. Recorded' = Recorded + n
    BY <1>1, <1>2, <2>1, RecordedAdd
  <2>3. ((Recorded % SIZE_MOD) + n) % SIZE_MOD = (Recorded + n) % SIZE_MOD
    BY <1>3
  <2> QED
    BY <1>1, <2>1, <2>2, <2>3
<1>6. CASE BlockRegistered
  <2>1. PICK f \in Entries \ Listed :
          Listed' = Listed \cup {f} /\ EntriesKept(Listed) /\ size'[f] = 0
    BY <1>6 DEF BlockRegistered
  <2>2. Recorded' = 0 + Recorded
    BY <1>1, <2>1, RecordedAdd
  <2> QED
    BY <1>1, <1>2, <1>6, <2>2 DEF BlockRegistered
<1>7. CASE BlockReleased
  <2>1. PICK e \in Listed :
          /\ Listed' = Listed \ {e} /\ EntriesKept(Listed \ {e})
          /\ global_memory_usage' = (global_memory_usage - size[e]) % SIZE_MOD
    BY <1>7 DEF BlockReleased
  <2>2. Recorded = size[e] + Recorded' /\ size[e] \in Nat
    BY <1>1, <1>2, <2>1, RecordedRemove
  <2>3. PICK m : m = -size[e]
    OBVIOUS
  <2>4. Recorded' = Recorded + m /\ m \in Int /\ global_memory_usage - size[e] = (Recorded % SIZE_MOD) + m
    BY <1>1, <1>2, <2>2, <2>3
  <2>5. ((Recorded % SIZE_MOD) + m) % SIZE_MOD = (Recorded + m) % SIZE_MOD
    BY <1>3, <2>4
  <2> QED
    BY <1>1, <2>1, <2>4, <2>5
<1>8. CASE BlockResized
  <2>1. PICK e \in Listed, n \in Nat :
          /\ Listed' = Listed /\ EntriesKept(Listed \ {e}) /\ size'[e] = n
          /\ global_memory_usage' = (global_memory_usage - size[e] + n) % SIZE_MOD
    BY <1>8 DEF BlockResized
  <2>2. Recorded' = Recorded - size[e] + n /\ size[e] \in Nat
    BY <1>1, <1>2, <2>1, RecordedResize
  <2>3. PICK m : m = n - size[e]
    OBVIOUS
  <2>4. Recorded' = Recorded + m /\ m \in Int /\ global_memory_usage - size[e] + n = (Recorded % SIZE_MOD) + m
    BY <1>1, <1>2, <2>2, <2>3
  <2>5. ((Recorded % SIZE_MOD) + m) % SIZE_MOD = (Recorded + m) % SIZE_MOD
    BY <1>3, <2>4
  <2> QED
    BY <1>1, <2>1, <2>4, <2>5
<1> QED
  BY <1>4, <1>5, <1>6, <1>7, <1>8, BooksStep

\* What sn_query_total_memory_usage returns is the sum, modulo the width of
\* size_t, of the sizes the list records, whatever sn_malloc, sn_realloc,
\* sn_free, sn_register and the others did before: no call charges twice,
\* forgets to give back, or gives back another entry's size.
THEOREM UsageExact ==
  ASSUME SafeClient, SizesCharged
  PROVE  Spec => []UsageIsTracked
<1>1. Init => CallMade
  BY DEF Init, CallMade, NoCall
<1> QED
  BY <1>1, UsageInit, UsageStep, CallMadeStep, Safety, PTL DEF Spec

----------------------------------------------------------------------------
(* The limit *)

\* Every tracked block was allocated by the library, and no charge wraps.
AllCharged == SizesCharged /\ "sn_register" \notin Calls /\ MaxUsage < SIZE_MOD

\* The books of such a program are exact: an entry records all the bytes of its
\* block, and the sum has not wrapped.
BooksExact ==
  status = "running" =>
    /\ global_memory_usage = Recorded
    /\ \A e \in Listed : data[e] # NULL /\ size[e] = live[data[e]]

LEMMA BlocksOf ==
  ASSUME IInv, status = "running", BooksExact
  PROVE  /\ Tracked \ {NULL} = {data[e] : e \in Listed}
         /\ \A e \in Listed : data[e] \in Addrs /\ live[data[e]] > 0
         /\ \A e, f \in Listed : data[e] = data[f] => e = f
<1>1. \A e \in Listed : data[e] # NULL
  BY DEF BooksExact
<1>2. Tracked \ {NULL} = {data[e] : e \in Listed}
  BY <1>1 DEF Tracked
<1>3. \A e, f \in Listed : data[e] = data[f] => e = f
  BY <1>1 DEF IInv, OwnedOnce
<1>4. Tracked \ {NULL} \subseteq {a \in Addrs : live[a] > 0}
  BY DEF IInv, OwnedOnce
<1> QED
  BY <1>2, <1>3, <1>4

\* Then what is charged is what libc allocated for tracked blocks.
BytesCharged == status = "running" => TrackedBytes = global_memory_usage

LEMMA BytesRecorded == IInv /\ BooksExact => BytesCharged
<1> SUFFICES ASSUME IInv, BooksExact, status = "running" PROVE TrackedBytes = global_memory_usage
  BY DEF BytesCharged
<1>1. IsFiniteSet(Listed) /\ \A e \in Listed : size[e] \in Nat
  BY RecordedNat DEF IInv
<1>2. /\ Tracked \ {NULL} = {data[e] : e \in Listed}
      /\ \A e, f \in Listed : data[e] = data[f] => e = f
  BY BlocksOf
<1>3. \A e \in Listed : live[data[e]] = size[e]
  BY DEF BooksExact
<1>4. Total(live, {data[e] : e \in Listed}) = Total(size, Listed)
  BY <1>1, <1>2, <1>3, TotalImage
<1> QED
  BY <1>2, <1>4 DEF TrackedBytes, BooksExact, Recorded, Total

LEMMA BytesRecordedNext == IInv' /\ BooksExact' => BytesCharged'
  BY BytesRecorded, PTL

LEMMA ExactStep ==
  ASSUME AllCharged
  PROVE  IInv /\ IInv' /\ CallMade /\ BooksExact /\ [Next]_vars => BooksExact'
<1> SUFFICES ASSUME IInv, IInv', CallMade, BooksExact, [Next]_vars, status' = "running"
             PROVE  /\ global_memory_usage' = Recorded'
                    /\ \A e \in Listed' : data'[e] # NULL /\ size'[e] = live'[data'[e]]
  BY DEF BooksExact
<1>1. /\ TypeOK /\ TypeOK' /\ status = "running" /\ SizesCharged /\ MaxUsage \in Nat
      /\ SIZE_MOD \in Nat /\ MaxUsage < SIZE_MOD
      /\ global_memory_usage = Recorded
      /\ \A e \in Listed : data[e] # NULL /\ size[e] = live[data[e]]
  BY RanBefore, WidthAssumption, InputAssumption DEF IInv, AllCharged, BooksExact
<1>2. /\ Recorded \in Nat /\ Recorded' \in Nat
      /\ \A e \in Listed : size[e] \in Nat
  BY <1>1, RecordedNat, RecordedNatNext DEF RecordedTyped
<1>3. /\ Tracked \ {NULL} = {data[e] : e \in Listed}
      /\ \A e \in Listed : data[e] \in Addrs /\ live[data[e]] > 0
      /\ \A e, f \in Listed : data[e] = data[f] => e = f
  BY <1>1, BlocksOf
<1>4. CASE BooksKept
  <2>1. Recorded' = Recorded
    BY <1>1, <1>4, RecordedKept DEF BooksKept
  <2>2. \A e \in Listed : live'[data[e]] = live[data[e]]
    BY <1>3, <1>4 DEF BooksKept
  <2> QED
    BY <1>1, <1>4, <2>1, <2>2 DEF BooksKept, EntriesKept
<1>5. CASE BlockCharged
  <2>1. PICK f \in Entries \ Listed, a \in FreeAddrs, n \in Nat :
          /\ Listed' = Listed \cup {f} /\ EntriesKept(Listed)
          /\ data'[f] = a /\ size'[f] = n /\ live' = [live EXCEPT ![a] = n]
          /\ global_memory_usage + n <= MaxUsage
          /\ global_memory_usage' = (global_memory_usage + n) % SIZE_MOD
    BY <1>5 DEF BlockCharged
  <2>2. a \in Addrs /\ a # NULL /\ live[a] = 0
    BY NullAssumption DEF FreeAddrs
  <2>3. \A b \in Addrs : live'[b] = IF b = a THEN n ELSE live[b]
    BY <1>1, <2>1 DEF TypeOK, DataType
  <2>4. \A e \in Listed : live'[data[e]] = live[data[e]]
    BY <1>3, <2>2, <2>3
  <2>5. Recorded' = n + Recorded
    BY <1>1, <2>1, RecordedAdd
  <2>6. (global_memory_usage + n) % SIZE_MOD = global_memory_usage + n
    BY <1>1, <1>2, <2>1
  <2>7. global_memory_usage' = Recorded'
    BY <1>1, <1>2, <2>1, <2>5, <2>6
  <2> QED
    BY <1>1, <2>1, <2>2, <2>3, <2>4, <2>7 DEF EntriesKept
<1>6. CASE BlockRegistered
  BY <1>6 DEF BlockRegistered, CallMade, AllCharged
<1>7. CASE BlockReleased
  <2>1. PICK e \in Listed :
          /\ Listed' = Listed \ {e} /\ EntriesKept(Listed \ {e})
          /\ \A a \in Addrs \ {data[e]} : live'[a] = live[a]
          /\ global_memory_usage' = (global_memory_usage - size[e]) % SIZE_MOD
    BY <1>7 DEF BlockReleased
  <2>2. Recorded = size[e] + Recorded' /\ size[e] \in Nat
    BY <1>1, <1>2, <2>1, RecordedRemove
  <2>3. Recorded' < SIZE_MOD /\ global_memory_usage - size[e] = Recorded'
    BY <1>1, <1>2, <2>2 DEF TypeOK, ManagerType
  <2>4. global_memory_usage' = Recorded'
    BY <1>1, <1>2, <2>1, <2>3, ModSmall
  <2>5. \A x \in Listed \ {e} : live'[data[x]] = live[data[x]]
    BY <1>3, <2>1
  <2> QED
    BY <1>1, <2>1, <2>4, <2>5 DEF EntriesKept
<1>8. CASE BlockResized
  <2>1. PICK e \in Listed, n \in Nat :
          /\ Listed' = Listed /\ EntriesKept(Listed \ {e})
          /\ data'[e] # NULL /\ size'[e] = n /\ live'[data'[e]] = n
          /\ \A x \in Listed \ {e} : data[x] # NULL => live'[data[x]] = live[data[x]]
          /\ global_memory_usage - size[e] + n <= MaxUsage
          /\ global_memory_usage' = (global_memory_usage - size[e] + n) % SIZE_MOD
    BY <1>8 DEF BlockResized
  <2>2. Recorded' = Recorded - size[e] + n /\ size[e] \in Nat
    BY <1>1, <1>2, <2>1, RecordedResize
  <2>3. Recorded' < SIZE_MOD /\ global_memory_usage - size[e] + n = Recorded'
    BY <1>1, <1>2, <2>1, <2>2
  <2>4. global_memory_usage' = Recorded'
    BY <1>1, <1>2, <2>1, <2>3, ModSmall
  <2> QED
    BY <1>1, <2>1, <2>4 DEF EntriesKept
<1> QED
  BY <1>1, <1>4, <1>5, <1>6, <1>7, <1>8, BooksStep

\* While the process runs, the limit holds for what is charged.
LEMMA LimitRunning ==
  ASSUME AllCharged, IInv, IInv', CallMade, BooksExact, BooksExact', [Next]_vars, status' = "running",
         alloc_limit # 0, TrackedBytes < alloc_limit
  PROVE  TrackedBytes' < alloc_limit
<1>1. /\ TypeOK /\ TypeOK' /\ status = "running" /\ SizesCharged
      /\ SIZE_MOD \in Nat /\ alloc_limit \in Nat
  BY RanBefore, WidthAssumption DEF IInv, AllCharged, TypeOK, ManagerType
<1>2. /\ global_memory_usage \in Nat /\ global_memory_usage' \in Nat
      /\ global_memory_usage' < SIZE_MOD
  BY <1>1 DEF TypeOK, ManagerType
<1>3. TrackedBytes = global_memory_usage
  BY <1>1, BytesRecorded DEF BytesCharged
<1>4. TrackedBytes' = global_memory_usage'
  BY BytesRecordedNext DEF BytesCharged
<1>5. global_memory_usage = Recorded /\ global_memory_usage' = Recorded'
  BY <1>1 DEF BooksExact
<1>6. \A e \in Listed : size[e] \in Nat
  BY <1>1, RecordedNat
<1>7. CASE BooksKept
  BY <1>3, <1>4, <1>7 DEF BooksKept
<1>8. CASE BlockCharged
  BY <1>3, <1>4, <1>8 DEF BlockCharged, memman_canAllocateBasedOnLimitAndSize
<1>9. CASE BlockRegistered
  BY <1>9 DEF BlockRegistered, CallMade, AllCharged
<1>10. CASE BlockReleased
  <2>1. PICK e \in Listed : Listed' = Listed \ {e} /\ EntriesKept(Listed \ {e})
    BY <1>10 DEF BlockReleased
  <2>2. Recorded = size[e] + Recorded'
    BY <1>1, <2>1, RecordedRemove
  <2> QED
    BY <1>1, <1>2, <1>3, <1>4, <1>5, <1>6, <2>2
<1>11. CASE BlockResized
  <2>1. PICK e \in Listed, n \in Nat :
          /\ Listed' = Listed /\ EntriesKept(Listed \ {e}) /\ size'[e] = n
          /\ n > size[e] => memman_canAllocateBasedOnLimitAndSize(n - size[e])
          /\ global_memory_usage' = (global_memory_usage - size[e] + n) % SIZE_MOD
    BY <1>11 DEF BlockResized
  <2>2. Recorded' = Recorded - size[e] + n /\ size[e] \in Nat
    BY <1>1, <1>6, <2>1, RecordedResize
  <2>3. CASE n > size[e]
    <3>1. alloc_limit > (global_memory_usage + (n - size[e])) % SIZE_MOD
      BY <2>1, <2>3 DEF memman_canAllocateBasedOnLimitAndSize
    <3>2. global_memory_usage + (n - size[e]) = global_memory_usage - size[e] + n
      BY <1>2, <2>2
    <3> QED
      BY <1>4, <2>1, <3>1, <3>2
  <2>4. CASE ~(n > size[e])
    BY <1>1, <1>2, <1>3, <1>4, <1>5, <2>2, <2>4
  <2> QED
    BY <2>3, <2>4
<1> QED
  BY <1>1, <1>7, <1>8, <1>9, <1>10, <1>11, BooksStep

\* Where the process ends, what was tracked is freed or stays as it is.
LEMMA BytesAtEnd ==
  ASSUME IInv, IInv', [Next]_vars, status' # "running"
  PROVE  \/ Tracked' = {}
         \/ /\ Tracked' = Tracked
            /\ \A a \in Tracked \ {NULL} : live'[a] = live[a]
<1>1. TypeOK /\ status' # "undefined" /\ IsFiniteSet(Listed)
  BY ListedFinite DEF IInv, NeverUndefined
<1>2. CASE \E how : doexit(how)
  BY <1>2 DEF doexit, Tracked, Listed
<1>3. CASE UNCHANGED <<live, list, data>>
  BY <1>3 DEF Tracked, Listed
<1>4. CASE \E n, m, e : status = "running" /\ Allocated(n, m, e)
  <2>1. PICK a, n, m, e :
          /\ a \in FreeAddrs /\ live' = [live EXCEPT ![a] = n]
          /\ linked_list_push(a, m, e) /\ status = "running"
    BY <1>4 DEF Allocated
  <2>2. list' = list /\ data' = data
    BY <1>1, <2>1, Zenon DEF linked_list_push, Reads, entry
  <2>3. Tracked \ {NULL} \subseteq {b \in Addrs : live[b] > 0}
    BY <2>1 DEF IInv, OwnedOnce
  <2>4. \A b \in Tracked \ {NULL} : live'[b] = live[b]
    BY <1>1, <2>1, <2>3 DEF FreeAddrs, TypeOK, DataType
  <2> QED
    BY <2>2, <2>4 DEF Tracked, Listed
<1>5. CASE \E S : Reads(S)
  BY <1>1, <1>5 DEF Reads
<1>6. CASE \E e : Closes(e)
  BY <1>5, <1>6 DEF Closes, Ends
<1>7. CASE sn_register \/ sn_register_size
  <2>1. \/ Answer(NULL) \/ \E e : \E code, last : sn_error(code, e) \/ Ends(code, e, last)
        \/ \E p, n : linked_list_push(p, n, NULL) /\ live' = live
    BY <1>7, Zenon DEF sn_register, sn_register_size
  <2>3. (\E e : \E code, last : sn_error(code, e) \/ Ends(code, e, last)) => \E e : Closes(e)
    BY ClosesForms DEF Closes
  <2>2. ASSUME NEW p, NEW n, linked_list_push(p, n, NULL), live' = live
        PROVE  UNCHANGED <<live, list, data>>
    BY <1>1, <2>2, Zenon DEF linked_list_push, Reads, entry
  <2> QED
    BY <1>3, <1>6, <2>1, <2>2, <2>3, ClosesForms
<1>8. CASE sn_malloc \/ sn_calloc \/ sn_query_static_metadata_copy
  <2>1. status = "running"
    BY <1>8 DEF sn_malloc, sn_calloc, sn_query_static_metadata_copy, Begin, Idle, Body
  <2>2. (\E e : Closes(e)) \/ \E n, m, e : Allocated(n, m, e)
    BY <1>8, MallocsEnd
  <2> QED
    BY <1>4, <1>6, <2>1, <2>2
<1>9. CASE sn_free \/ sn_realloc
  <2>1. (\E e : Closes(e)) \/ status' \in {"running", "undefined"}
    BY <1>9, FreeEnds, ReallocEnds DEF FreeBlock, Resize
  <2> QED
    BY <1>1, <1>6, <2>1
<1>10. CASE \/ sn_query_size \/ (\E op \in PtrQueries : QueryField(op))
            \/ sn_calculate_checksum \/ sn_is_tracked_block \/ sn_query_thread_memory_usage
  BY <1>6, <1>10, QueryAnswers
<1>11. CASE \/ sn_set_block_id \/ sn_query_block_id \/ sn_fast_cache_clear
            \/ memman_CacheAlgorithmWorker
  <2>1. \/ Misses(call.ptr) \/ \E e : \E code : sn_error(code, e)
        \/ UNCHANGED <<live, list, data>> \/ \E S : Reads(S)
    BY <1>11, Zenon
       DEF sn_set_block_id, sn_query_block_id, sn_fast_cache_clear, memman_CacheAlgorithmWorker, heap
  <2> QED
    BY <1>3, <1>5, <1>6, <2>1, ClosesForms
<1>12. CASE sn_request_to_fast_cache
  BY <1>2, <1>3, <1>6, <1>12, PutEnds DEF heap
<1>13. CASE library_cleanup
  BY <1>2, <1>13 DEF library_cleanup
<1>14. CASE app_malloc
  BY <1>1, <1>14 DEF app_malloc, Begin, Idle
<1>15. CASE \/ UNCHANGED vars
            \/ \E op \in WorkCalls : Enter(op)
            \/ sn_query_static_metadata
            \/ sn_do_auto_free_at_exit \/ sn_set_alloc_limit
            \/ sn_lock_fast_cache \/ sn_unlock_fast_cache \/ sn_do_fast_caching
            \/ sn_reset_last_error \/ Terminated
  <2>1. UNCHANGED <<live, list, data>>
    BY <1>15 DEF vars, heap, entry, Enter, sn_query_static_metadata,
           sn_do_auto_free_at_exit, sn_set_alloc_limit, sn_lock_fast_cache, sn_unlock_fast_cache,
           sn_do_fast_caching, sn_reset_last_error, Terminated
  <2> QED
    BY <1>3, <2>1
<1> QED
  BY <1>7, <1>8, <1>9, <1>10, <1>11, <1>12, <1>13, <1>14, <1>15, Zenon DEF Next

TrackedTotal == Total(live, Tracked \ {NULL})
BytesSummed == TrackedBytes = TrackedTotal

LEMMA BytesSum == BytesSummed
  BY DEF BytesSummed, TrackedBytes, TrackedTotal, Total

LEMMA BytesSumNext == BytesSummed'
  BY BytesSum, PTL

LEMMA LimitEnd ==
  ASSUME IInv, IInv', [Next]_vars, status' # "running", alloc_limit # 0, TrackedBytes < alloc_limit
  PROVE  TrackedBytes' < alloc_limit
<1>1. TypeOK /\ alloc_limit \in Nat
  BY WidthAssumption DEF IInv, TypeOK, ManagerType
<1>2. TrackedBytes = Total(live, Tracked \ {NULL}) /\ TrackedBytes' = Total(live', Tracked' \ {NULL})
  <2>1. TrackedBytes = TrackedTotal /\ TrackedBytes' = TrackedTotal'
    BY BytesSum, BytesSumNext DEF BytesSummed
  <2> QED
    BY <2>1 DEF TrackedTotal
<1>3. CASE Tracked' = {}
  <2>1. Tracked' \ {NULL} = {}
    BY <1>3
  <2>2. TrackedBytes' = 0
    BY <1>2, <2>1, TotalEmpty
  <2> QED
    BY <1>1, <2>2
<1>4. CASE Tracked' = Tracked /\ \A a \in Tracked \ {NULL} : live'[a] = live[a]
  <2>1. IsFiniteSet(Tracked \ {NULL})
    <3>1. [e \in Listed |-> data[e]] \in Surjection(Listed, Tracked)
      BY DEF Surjection, Tracked
    <3>2. IsFiniteSet(Tracked)
      BY <1>1, <3>1, ListedFinite, FS_Surjection
    <3> QED
      BY <3>2, FS_Subset
  <2>2. Total(live, Tracked \ {NULL}) = Total(live', Tracked \ {NULL})
    BY <1>4, <2>1, TotalSame
  <2> QED
    BY <1>2, <1>4, <2>2
<1> QED
  BY <1>3, <1>4, BytesAtEnd

\* While the limit stays the same, no call takes what libc allocated for
\* tracked blocks from below the limit to the limit or above it: sn_malloc,
\* sn_calloc and sn_realloc check the sum they then charge, and what they
\* charge is what was allocated.
THEOREM LimitHolds ==
  ASSUME SafeClient, AllCharged
  PROVE  Spec => LimitKept
<1>1. Init => CallMade /\ BooksExact
  <2>1. ASSUME Init PROVE Listed = {} /\ global_memory_usage = 0 /\ call.op = "none"
    BY <2>1 DEF Init, Listed, NoCall
  <2> QED
    BY <2>1, TotalEmpty DEF CallMade, BooksExact, Recorded
<1>2. IInv /\ IInv' /\ CallMade /\ BooksExact /\ BooksExact' /\ [Next]_vars =>
        [alloc_limit # 0 /\ alloc_limit' = alloc_limit /\ TrackedBytes < alloc_limit
           => TrackedBytes' < alloc_limit]_vars
  <2> SUFFICES ASSUME IInv, IInv', CallMade, BooksExact, BooksExact', [Next]_vars,
                      alloc_limit # 0, alloc_limit' = alloc_limit, TrackedBytes < alloc_limit
               PROVE  TrackedBytes' < alloc_limit
    OBVIOUS
  <2> QED
    BY LimitRunning, LimitEnd
<1> QED
  BY <1>1, <1>2, ExactStep, CallMadeStep, Safety, PTL DEF Spec, LimitKept

============================================================================
