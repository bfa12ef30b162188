-------------------------- MODULE FileWork_proofs --------------------------
(***************************************************************************)
(* The file functions keep the invariant of SafetyNet at every step they   *)
(* are cut into, whatever the files are and become: a mount that fails     *)
(* undoes its allocation, and only the report of one that crashes may read *)
(* what is not there.                                                      *)
(***************************************************************************)
EXTENDS FileWork, SafetyNetSafety_proofs

----------------------------------------------------------------------------
(* The inductive invariant *)

\* Between two system calls of a dump: the entry is still in the list.
Dumping ==
  \E e \in Listed, f \in Files : pending = [op |-> "dump", file |-> f, entry |-> e]

Dumped ==
  \E e \in Listed, n \in Nat :
    pending = [op |-> "written", file |-> File("regular", n), entry |-> e]

\* What sn_malloc made of the heap, the list and the accounting: entry e of m
\* bytes at p came in last.
Mounted(p, m, e, before) ==
  /\ p \in Addrs /\ m \in 1..(SIZE_MOD - 1) /\ e \in Entries
  /\ data[e] = p /\ size[e] = m
  /\ before[1] \in [Addrs -> 0..(SIZE_MOD - 1)] /\ before[2] \in Seq(Entries)
  /\ before[3] \in 0..(SIZE_MOD - 1)
  /\ before[1][p] = 0 /\ live = [before[1] EXCEPT ![p] = m]
  /\ list = Append(before[2], e)
  /\ global_memory_usage = (before[3] + m) % SIZE_MOD

Reading ==
  \E p, m, e, l, s, g :
    pending = [op |-> "read", ptr |-> p, before |-> <<l, s, g>>] /\ Mounted(p, m, e, <<l, s, g>>)

Failing ==
  \E p, b : pending = [op |-> "failed", ptr |-> p, before |-> b] /\ b = Snapshot

Reporting == pending = [op |-> "report"]

PendingOK ==
  status = "running" =>
    \/ pending = Nothing
    \/ call = NoCall /\ (Dumping \/ Dumped \/ Reading \/ Failing \/ Reporting)

\* The crash report of a mount read a destroyed entry.
BadReport == status = "undefined" /\ Reporting /\ lastAccess \notin Listed \cup {NULL}

FileInv == (IInv \/ BadReport) /\ PendingOK

----------------------------------------------------------------------------
(* Arithmetic of size_t *)

\* A charge that is taken back leaves the sum as it was, also when it wrapped.
LEMMA ChargeUndone ==
  ASSUME NEW w \in Nat \ {0}, NEW x \in 0..(w - 1), NEW m \in 1..(w - 1)
  PROVE  (((x + m) % w) - m) % w = x
<1>1. CASE x + m < w
  <2>1. (x + m) % w = x + m
    BY <1>1
  <2>2. x % w = x
    OBVIOUS
  <2>3. (x + m) - m = x
    OBVIOUS
  <2> QED
    BY <2>1, <2>2, <2>3
<1>2. CASE ~(x + m < w)
  <2>1. (x + m) % w = x + m - w
    BY <1>2
  <2>2. ((x + m - w) - m) = x - w
    OBVIOUS
  <2>3. (x - w) % w = x
    OBVIOUS
  <2> QED
    BY <2>1, <2>2, <2>3
<1> QED
  BY <1>1, <1>2

----------------------------------------------------------------------------
(* What the steps keep *)

\* A file function leaves the invariant of SafetyNet as it was: it makes no
\* call of memman_work and puts nothing in the cache.
LEMMA FileReturns ==
  ASSUME IInv, call = NoCall, UNCHANGED control, DataType', ManagerType', Core', NoSlotTaken
  PROVE  IInv'
<1>1. call' = NoCall /\ walk' = walk
  BY DEF control
<1>2. TypeOK'
  BY <1>1 DEF IInv, TypeOK, ControlType
<1>3. CallOK'
  BY <1>1 DEF CallOK, NoCall
<1>4. CacheUnused'
  BY <1>1 DEF IInv, CacheUnused, NoSlotTaken
<1> QED
  BY <1>2, <1>3, <1>4 DEF IInv, Core

\* Until the report goes wrong, IInv holds.
LEMMA RunningInv ==
  ASSUME FileInv, status = "running"
  PROVE  IInv
  BY DEF FileInv, BadReport

\* The end of a lookup, or an error.
LEMMA FileAnswers ==
  ASSUME IInv, call = NoCall, status = "running", UNCHANGED control,
         NEW e \in Listed \cup {NULL}, Ended(e)
  PROVE  IInv' /\ status' = "running" /\ call' = NoCall
         /\ UNCHANGED <<live, list, data, size, global_memory_usage>>
<1>1. TypeOK /\ Core /\ Listed \subseteq Entries
  BY CoreOf DEF TypeOK, DataType, Listed
<1>2. DataType' /\ ManagerType'
  BY <1>1, EndedType
<1>3. Core' /\ UNCHANGED <<key, value>>
  BY <1>1, ClosesForms, ClosesKeeps
<1>4. UNCHANGED <<live, list, data, size, global_memory_usage>> /\ Reads({e} \ {NULL})
  BY DEF Ended, Ends, heap
<1>5. status' = "running"
  BY <1>4 DEF Reads
<1> QED
  BY <1>2, <1>3, <1>4, <1>5, FileReturns DEF NoSlotTaken, control

LEMMA RefusesKeeps ==
  ASSUME IInv, call = NoCall, status = "running", NEW code \in Errors, Refuses(code)
  PROVE  FileInv'
<1>1. sn_error(code, NULL) /\ pending' = Nothing /\ UNCHANGED control
  BY DEF Refuses, Returns, Goes
<1>2. Ended(NULL)
  BY <1>1, CoreOf, EndedForms
<1>3. IInv'
  BY <1>1, <1>2, FileAnswers
<1> QED
  BY <1>1, <1>3 DEF FileInv, PendingOK, Nothing

LEMMA ErrorCodes ==
  {"SN_ERR_NULL_PTR", "SN_ERR_FILE_PRE_EXIST", "SN_ERR_NO_ADDER_FOUND", "SN_ERR_FILE_IO",
   "SN_ERR_FILE_NOT_EXIST", "SN_ERR_BAD_SIZE", "SN_ERR_BAD_ALLOC", "SN_ERR_ALLOC_LIMIT_HIT"}
  \subseteq Errors
  BY DEF Errors

LEMMA DumpCallKeeps ==
  ASSUME FileInv, sn_dump_to_file
  PROVE  FileInv'
<1>1. status = "running" /\ call = NoCall /\ IInv /\ TypeOK /\ UNCHANGED control
  BY RunningInv, CoreOf DEF sn_dump_to_file, FileCall, Begin, Idle
<1>2. CASE \E code \in Errors : Refuses(code)
  BY <1>1, <1>2, RefusesKeeps
<1>3. CASE \E block \in Addrs : Misses(block) /\ Returns
  <2>1. PICK block \in Addrs : Misses(block) /\ Returns
    BY <1>3
  <2>2. /\ block \in Pointers /\ block # NULL
        /\ linked_list_getByPtr(block) \in Listed \cup {NULL}
    BY <1>1, FoundListed, NullAssumption DEF Pointers
  <2>3. Ended(linked_list_getByPtr(block))
    BY <1>1, <2>1, <2>2, EndedForms
  <2>4. IInv' /\ pending' = Nothing
    BY <1>1, <2>1, <2>2, <2>3, FileAnswers DEF Returns, Goes
  <2> QED
    BY <2>4 DEF FileInv, PendingOK
<1>4. CASE /\ ~(\E code \in Errors : Refuses(code))
           /\ ~(\E block \in Addrs : Misses(block) /\ Returns)
  <2>1. PICK f \in Files, block \in Addrs :
          /\ memman_TryCacheHit(block) # NULL /\ Answer(memman_TryCacheHit(block))
          /\ Goes([op |-> "dump", file |-> f, entry |-> memman_TryCacheHit(block)])
    BY <1>4, ErrorCodes, Zenon DEF sn_dump_to_file
  <2>2. PICK e : e = memman_TryCacheHit(block)
    OBVIOUS
  <2>3. e \in Listed
    BY <1>1, <2>1, <2>2, FoundListed, NullAssumption DEF Pointers
  <2>4. Ended(e)
    BY <1>1, <2>1, <2>2, EndedForms
  <2>5. IInv' /\ status' = "running" /\ call' = NoCall /\ UNCHANGED list
    BY <1>1, <2>3, <2>4, FileAnswers
  <2>6. Listed' = Listed
    BY <2>5 DEF Listed
  <2>7. pending' = [op |-> "dump", file |-> f, entry |-> e]
    BY <2>1, <2>2 DEF Goes
  <2>8. Dumping'
    BY <2>3, <2>6, <2>7 DEF Dumping
  <2> QED
    BY <2>5, <2>8 DEF FileInv, PendingOK
<1> QED
  BY <1>2, <1>3, <1>4

\* The step at which a call is picked up tells what is pending.
LEMMA ResumesAt ==
  ASSUME FileInv
  PROVE  /\ \A at : Resumes(at) => status = "running" /\ IInv
         /\ Resumes("dump") => call = NoCall /\ Dumping
         /\ Resumes("written") => call = NoCall /\ Dumped
         /\ Resumes("read") => call = NoCall /\ Reading
         /\ Resumes("failed") => call = NoCall /\ Failing
         /\ Resumes("report") => call = NoCall /\ Reporting
<1>1. \A at : Resumes(at) => status = "running" /\ pending.op = at /\ IInv
  BY RunningInv DEF Resumes
<1>2. pending = Nothing => pending.op = "none"
  BY DEF Nothing
<1>3. Dumping => pending.op = "dump"
  BY DEF Dumping
<1>4. Dumped => pending.op = "written"
  BY DEF Dumped
<1>5. Reading => pending.op = "read"
  BY DEF Reading
<1>6. Failing => pending.op = "failed"
  BY DEF Failing
<1>7. Reporting => pending.op = "report"
  BY DEF Reporting
<1> QED
  BY <1>1, <1>2, <1>3, <1>4, <1>5, <1>6, <1>7 DEF FileInv, PendingOK

LEMMA DumpKeeps ==
  ASSUME FileInv, DumpWrite \/ DumpReturns \/ OtherProcess
  PROVE  FileInv'
<1>1. CASE DumpWrite
  <2>1. Resumes("dump") /\ status = "running" /\ IInv /\ call = NoCall /\ Dumping
    BY <1>1, ResumesAt DEF DumpWrite
  <2>2. CASE Refuses("SN_ERR_FILE_IO")
    BY <2>1, <2>2, ErrorCodes, RefusesKeeps
  <2>3. CASE ~Refuses("SN_ERR_FILE_IO")
    <3>1. PICK n \in 0..size[pending.entry] :
            /\ Goes([pending EXCEPT !.op = "written", !.file = File("regular", n)])
            /\ Reads({pending.entry})
            /\ UNCHANGED <<heap, list, entry, cache, flags, global_memory_usage, error_code>>
      BY <1>1, <2>3 DEF DumpWrite
    <3>2. PICK e \in Listed, f \in Files : pending = [op |-> "dump", file |-> f, entry |-> e]
      BY <2>1 DEF Dumping
    <3>3. n \in Nat
      BY <2>1, <3>2 DEF IInv, TypeOK, DataType, Listed
    <3>4. status' = "running" /\ UNCHANGED vars /\ Listed' = Listed /\ call' = NoCall
      BY <2>1, <3>1, <3>2 DEF Reads, Goes, vars, control, Listed
    <3>5. pending' = [op |-> "written", file |-> File("regular", n), entry |-> e]
      BY <3>1, <3>2 DEF Goes
    <3>6. Dumped'
      BY <3>2, <3>3, <3>4, <3>5 DEF Dumped
    <3>7. IInv'
      <4>1. TypeOK /\ Core
        BY <2>1, CoreOf
      <4>2. UNCHANGED <<live, foreign, list, data, size, key, value>> /\ UNCHANGED control
        BY <3>4 DEF vars, heap, entry, cache
      <4>3. Core' /\ NoSlotTaken
        BY <2>1, <3>4, <4>1, <4>2, QuietKeeps DEF NoSlotTaken
      <4>4. DataType' /\ ManagerType'
        BY <3>4, <4>1, TypeStep DEF TypeOK
      <4> QED
        BY <2>1, <4>2, <4>3, <4>4, FileReturns
    <3> QED
      BY <3>4, <3>6, <3>7 DEF FileInv, PendingOK
  <2> QED
    BY <2>2, <2>3
<1>2. CASE DumpReturns
  <2>1. Resumes("written") /\ status = "running" /\ IInv /\ call = NoCall
    BY <1>2, ResumesAt DEF DumpReturns
  <2>2. pending' = Nothing /\ UNCHANGED control
    BY <1>2 DEF DumpReturns, Returns, Goes
  <2>3. Ended(NULL)
    BY <1>2, <2>1, ErrorCodes, EndedForms, CoreOf DEF DumpReturns
  <2>4. IInv'
    BY <2>1, <2>2, <2>3, FileAnswers
  <2> QED
    BY <2>2, <2>4 DEF FileInv, PendingOK
<1>3. CASE OtherProcess
  <2>1. Resumes("dump") /\ status = "running" /\ IInv /\ call = NoCall /\ Dumping
    BY <1>3, ResumesAt DEF OtherProcess
  <2>2. PICK f \in Files : Goes([pending EXCEPT !.file = f])
    BY <1>3 DEF OtherProcess
  <2>3. PICK e \in Listed, d \in Files : pending = [op |-> "dump", file |-> d, entry |-> e]
    BY <2>1 DEF Dumping
  <2>4. status' = "running" /\ UNCHANGED vars /\ Listed' = Listed /\ call' = NoCall
    <3>1. UNCHANGED <<heap, list, entry, cache, flags, global_memory_usage, error_code, status>>
      BY <1>3, Zenon DEF OtherProcess
    <3>2. UNCHANGED control
      BY <2>2, Zenon DEF Goes
    <3> QED
      BY <2>1, <3>1, <3>2 DEF vars, control, Listed
  <2>5. pending' = [op |-> "dump", file |-> f, entry |-> e]
    BY <2>2, <2>3 DEF Goes
  <2>6. Dumping'
    BY <2>3, <2>4, <2>5 DEF Dumping
  <2>7. IInv'
    <3>1. TypeOK /\ Core
      BY <2>1, CoreOf
    <3>2. UNCHANGED <<live, foreign, list, data, size, key, value>> /\ UNCHANGED control
      BY <2>4 DEF vars, heap, entry, cache
    <3>3. Core' /\ NoSlotTaken
      BY <2>1, <2>4, <3>1, <3>2, QuietKeeps DEF NoSlotTaken
    <3>4. DataType' /\ ManagerType'
      BY <2>4, <3>1, TypeStep DEF TypeOK
    <3> QED
      BY <2>1, <3>2, <3>3, <3>4, FileReturns
  <2> QED
    BY <2>4, <2>6, <2>7 DEF FileInv, PendingOK
<1> QED
  BY <1>1, <1>2, <1>3

----------------------------------------------------------------------------
(* The mount *)

LEMMA MountCallKeeps ==
  ASSUME FileInv, sn_mount_file_to_ram
  PROVE  FileInv'
<1>1. status = "running" /\ call = NoCall /\ IInv /\ TypeOK /\ Core /\ UNCHANGED control
  BY RunningInv, CoreOf DEF sn_mount_file_to_ram, FileCall, Begin, Idle
<1>2. CASE \E code \in Errors : Refuses(code)
  BY <1>1, <1>2, RefusesKeeps
<1>3. CASE ~(\E code \in Errors : Refuses(code))
  <2>1. PICK f \in Files : ftell(f) # 0 /\ MountMalloc(f)
    BY <1>3, ErrorCodes, Zenon DEF sn_mount_file_to_ram
  <2>2. PICK m : m = ftell(f)
    OBVIOUS
  <2>3. m \in 1..(SIZE_MOD - 1)
    <3>1. FileSizes \subseteq 0..(SIZE_MOD - 1) /\ SIZE_MOD - 1 \in Nat
      BY FilesAssumption, WidthAssumption
    <3>2. f.size \in 0..(SIZE_MOD - 1)
      BY <3>1 DEF Files, File, Absent, Hidden, Stream
    <3>3. m = SIZE_MOD - 1 \/ m = f.size
      BY <2>2 DEF ftell
    <3>4. m \in 0..(SIZE_MOD - 1) /\ m # 0
      BY <2>1, <2>2, <3>1, <3>2, <3>3
    <3> QED
      BY <3>1, <3>4
  <2>4. CASE (\E code \in Errors : sn_error(code, NULL)) /\ Goes([op |-> "report"])
    <3>1. pending' = [op |-> "report"]
      BY <2>4 DEF Goes
    <3>2. Ended(NULL)
      BY <1>1, <2>4, EndedForms
    <3>3. IInv' /\ call' = NoCall
      BY <1>1, <3>2, FileAnswers
    <3> QED
      BY <3>1, <3>3 DEF FileInv, PendingOK, Reporting
  <2>5. CASE ~((\E code \in Errors : sn_error(code, NULL)) /\ Goes([op |-> "report"]))
    <3>1. PICK a \in Addrs :
            /\ Allocated(m, m, NULL) /\ live'[a] # live[a]
            /\ Goes([op |-> "read", ptr |-> a, before |-> Snapshot])
      BY <2>1, <2>2, <2>5, ErrorCodes DEF MountMalloc
    <3>2. PICK b \in FreeAddrs :
            /\ live' = [live EXCEPT ![b] = m]
            /\ global_memory_usage' = (global_memory_usage + m) % SIZE_MOD
            /\ linked_list_push(b, m, NULL)
      BY <3>1 DEF Allocated
    <3>3. live \in [Addrs -> 0..(SIZE_MOD - 1)] /\ list \in Seq(Entries)
          /\ global_memory_usage \in 0..(SIZE_MOD - 1) /\ data \in [Entries -> Pointers]
          /\ size \in [Entries -> 0..(SIZE_MOD - 1)]
      BY <1>1 DEF TypeOK, DataType, ManagerType
    <3>4. a = b /\ live[a] = 0
      BY <3>1, <3>2, <3>3 DEF FreeAddrs
    <3>5. m \in Nat \ {0} /\ m \in 0..(SIZE_MOD - 1) /\ m <= m
      BY <2>3, WidthAssumption
    <3>6. DataType' /\ ManagerType'
      BY <1>1, <3>1, <3>5, AllocatedType
    <3>7. TypeOK' /\ call' = NoCall
      BY <1>1, <3>6 DEF TypeOK, ControlType, control
    <3>8. Core' /\ NoSlotTaken
      BY <1>1, <3>1, <3>5, <3>7, AllocatedKeeps DEF NoSlotTaken
    <3>9. IInv'
      BY <1>1, <3>6, <3>8, FileReturns
    <3>10. ASSUME status' = "running" PROVE Reading'
      <4>1. PICK e \in Entries \ Listed :
              /\ list' = Append(list, e)
              /\ data' = [data EXCEPT ![e] = b] /\ size' = [size EXCEPT ![e] = m]
        BY <3>2, <3>10 DEF linked_list_push, Abort
      <4>2. pending' = [op |-> "read", ptr |-> a, before |-> <<live, list, global_memory_usage>>]
        BY <3>1 DEF Goes, Snapshot
      <4>3. PICK l, s, g : l = live /\ s = list /\ g = global_memory_usage
        OBVIOUS
      <4>4. pending' = [op |-> "read", ptr |-> a, before |-> <<l, s, g>>]
        BY <4>2, <4>3
      <4>5. Mounted(a, m, e, <<l, s, g>>)'
        BY <2>3, <3>2, <3>3, <3>4, <4>1, <4>3 DEF Mounted
      <4> QED
        BY <4>4, <4>5 DEF Reading
    <3> QED
      BY <3>7, <3>9, <3>10 DEF FileInv, PendingOK
  <2> QED
    BY <2>4, <2>5
<1> QED
  BY <1>2, <1>3

\* sn_free of the buffer undoes the sn_malloc of the mount.
LEMMA MountedUndone ==
  ASSUME IInv, status = "running", NEW p, NEW m, NEW e, NEW l, NEW s, NEW g,
         Mounted(p, m, e, <<l, s, g>>)
  PROVE  /\ Lookup(p) = e /\ e # NULL
         /\ FreeBlock(p) => live' = l /\ list' = s /\ global_memory_usage' = g
<1>1. TypeOK /\ Core /\ CacheCoherent /\ e # NULL /\ p \in Addrs /\ p # NULL
  BY CoreOf, NullAssumption DEF Mounted, Core
<1>2. /\ m \in 1..(SIZE_MOD - 1) /\ e \in Entries /\ data[e] = p /\ size[e] = m
      /\ l \in [Addrs -> 0..(SIZE_MOD - 1)] /\ s \in Seq(Entries) /\ g \in 0..(SIZE_MOD - 1)
      /\ l[p] = 0 /\ live = [l EXCEPT ![p] = m] /\ list = Append(s, e)
      /\ global_memory_usage = (g + m) % SIZE_MOD
  BY DEF Mounted
<1>3. /\ Len(s) \in Nat /\ DOMAIN s = 1..Len(s) /\ Len(list) = Len(s) + 1
      /\ DOMAIN list = 1..(Len(s) + 1) /\ \A i \in 1..Len(s) : list[i] = s[i]
      /\ list[Len(s) + 1] = e
  BY <1>2
<1>4. e \in Listed
  BY <1>3 DEF Listed
<1>5. \A x \in Listed : data[x] = p => x = e
  BY <1>1, <1>2, <1>4 DEF Core, OwnedOnce
<1>6. Lookup(p) = e
  <2>1. Lookup(p) # NULL
    BY <1>1, <1>2, <1>4, LookupListed DEF Tracked
  <2> QED
    BY <1>1, <1>5, <2>1, LookupListed
<1>7. PICK k : k = linked_list_searchForPointer(p)
  OBVIOUS
<1>8. k = Len(s) + 1
  <2>1. k # 0
    BY <1>1, <1>2, <1>4, <1>7, FoundByPtr DEF Tracked
  <2>2. k \in DOMAIN list /\ list[k] = e
    BY <1>1, <1>5, <1>7, <2>1, FoundByPtr
  <2> QED
    BY <1>1, <1>3, <2>2 DEF Core, OwnedOnce
<1>9. ASSUME FreeBlock(p) PROVE live' = l /\ list' = s /\ global_memory_usage' = g
  <2>1. /\ global_memory_usage' = (global_memory_usage - m) % SIZE_MOD
        /\ live' = [a \in Addrs |-> IF a = p THEN 0 ELSE live[a]]
        /\ list' = linked_list_removeEntry(k)
    BY <1>2, <1>6, <1>7, <1>9 DEF FreeBlock
  <2>2. global_memory_usage' = g
    BY <1>2, <2>1, ChargeUndone, WidthAssumption
  <2>3. live' = l
    BY <1>1, <1>2, <2>1
  <2>4. list' = s
    <3>1. list' = [i \in 1..Len(s) |-> IF i < k THEN list[i] ELSE list[i + 1]]
      <4>1. k # 0 /\ Len(list) - 1 = Len(s)
        BY <1>3, <1>8
      <4> QED
        BY <2>1, <4>1 DEF linked_list_removeEntry
    <3>2. list' = [i \in 1..Len(s) |-> s[i]]
      BY <1>3, <1>8, <3>1
    <3> QED
      BY <1>2, <1>3, <3>2
  <2> QED
    BY <2>2, <2>3, <2>4
<1> QED
  BY <1>1, <1>6, <1>9

LEMMA MountKeeps ==
  ASSUME FileInv, MountDone \/ MountShort \/ MountFails
  PROVE  FileInv'
<1>1. CASE MountDone
  <2>1. Resumes("read") /\ status = "running" /\ IInv /\ call = NoCall /\ Ended(NULL)
    BY <1>1, ResumesAt, EndedForms, CoreOf DEF MountDone
  <2>2. pending' = Nothing /\ UNCHANGED control
    BY <1>1 DEF MountDone, Returns, Goes
  <2>3. IInv'
    BY <2>1, <2>2, FileAnswers
  <2> QED
    BY <2>2, <2>3 DEF FileInv, PendingOK
<1>2. CASE MountFails
  <2>1. Resumes("failed") /\ status = "running" /\ IInv /\ call = NoCall
        /\ Refuses("SN_ERR_FILE_IO")
    BY <1>2, ResumesAt DEF MountFails
  <2> QED
    BY <2>1, ErrorCodes, RefusesKeeps
<1>3. CASE MountShort
  <2>1. Resumes("read") /\ status = "running" /\ IInv /\ call = NoCall /\ Reading
    BY <1>3, ResumesAt DEF MountShort
  <2>2. PICK p, m, e, l, s, g :
          /\ pending = [op |-> "read", ptr |-> p, before |-> <<l, s, g>>]
          /\ Mounted(p, m, e, <<l, s, g>>)
    BY <2>1 DEF Reading
  <2>3. pending.ptr = p /\ Lookup(p) # NULL /\ p \in Addrs /\ p \in Pointers
    BY <2>1, <2>2, MountedUndone DEF Mounted, Pointers
  <2>4. FreeBlock(p) /\ Goes([pending EXCEPT !.op = "failed"])
    BY <1>3, <2>3 DEF MountShort
  <2>5. pending' = [op |-> "failed", ptr |-> p, before |-> <<l, s, g>>] /\ UNCHANGED control
    BY <2>2, <2>4 DEF Goes
  <2>6. Snapshot' = <<l, s, g>>
    BY <2>1, <2>2, <2>4, MountedUndone DEF Snapshot
  <2>7. IInv'
    <3>1. TypeOK /\ Core
      BY <2>1, CoreOf
    <3>2. Core' /\ NoSlotTaken
      BY <2>1, <2>3, <2>4, <3>1, FreeKeeps
    <3>3. DataType' /\ ManagerType'
      BY <2>3, <2>4, <3>1, FreeBlockType
    <3> QED
      BY <2>1, <2>5, <3>2, <3>3, FileReturns
  <2>8. call' = NoCall
    BY <2>1, <2>5 DEF control
  <2>9. Failing'
    BY <2>5, <2>6 DEF Failing
  <2> QED
    BY <2>7, <2>8, <2>9 DEF FileInv, PendingOK
<1> QED
  BY <1>1, <1>2, <1>3

\* The crash of a refused mount: the report, and then exit.
LEMMA CrashKeeps ==
  ASSUME FileInv, MountCrash
  PROVE  FileInv'
<1>1. /\ Resumes("report") /\ status = "running" /\ IInv /\ TypeOK /\ Core
      /\ call = NoCall /\ Reporting /\ UNCHANGED <<error_code, control, pending>>
  BY ResumesAt, CoreOf DEF MountCrash
<1>2. Reporting'
  BY <1>1 DEF Reporting
<1>3. CASE doexit("crashed")
  <2>1. Core' /\ NoSlotTaken
    BY <1>1, <1>3, ExitKeeps DEF NoSlotTaken
  <2>2. /\ DataType' /\ available_cache_slots' = available_cache_slots /\ UNCHANGED flags
        /\ UNCHANGED global_memory_usage
        /\ status' \in {"running", "exited", "crashed", "aborted", "undefined"}
    BY <1>1, <1>3, ExitType
  <2>3. ManagerType'
    BY <1>1, <2>2 DEF TypeOK, ManagerType, flags
  <2>4. IInv'
    BY <1>1, <2>1, <2>2, <2>3, FileReturns
  <2> QED
    BY <1>1, <1>2, <2>4 DEF FileInv, PendingOK, control
<1>4. CASE ~doexit("crashed")
  <2>1. /\ lastAccess \notin Listed \cup {NULL} /\ status' = "undefined"
        /\ UNCHANGED <<list, lastAccess>>
    BY <1>4, Zenon DEF MountCrash, entry
  <2>2. Listed' = Listed
    BY <2>1 DEF Listed
  <2> QED
    BY <1>2, <2>1, <2>2 DEF FileInv, PendingOK, BadReport
<1> QED
  BY <1>3, <1>4

----------------------------------------------------------------------------
(* The invariant and what it says *)

LEMMA FileKeeps ==
  ASSUME SafeClient, FileInv, [FileNext]_fileVars
  PROVE  FileInv'
<1>1. CASE pending = Nothing /\ Next /\ UNCHANGED pending
  <2>1. IInv
    BY <1>1 DEF FileInv, BadReport, Reporting, Nothing
  <2>2. IInv'
    BY <1>1, <2>1, InvStep
  <2> QED
    BY <1>1, <2>2 DEF FileInv, PendingOK, Nothing
<1>2. CASE sn_dump_to_file \/ DumpWrite \/ DumpReturns \/ OtherProcess
  BY <1>2, DumpCallKeeps, DumpKeeps
<1>3. CASE sn_mount_file_to_ram \/ MountCrash \/ MountDone \/ MountShort \/ MountFails
  BY <1>3, MountCallKeeps, CrashKeeps, MountKeeps
<1>4. CASE UNCHANGED fileVars
  <2>1. UNCHANGED vars /\ UNCHANGED pending
    BY <1>4 DEF fileVars
  <2>2. IInv \/ BadReport => (IInv \/ BadReport)'
    <3>1. IInv => IInv'
      BY <2>1, InvStep
    <3>2. BadReport => BadReport'
      BY <2>1 DEF BadReport, Reporting, Listed, vars, entry
    <3> QED
      BY <3>1, <3>2
  <2>3. UNCHANGED <<status, call, live, list, data, size, global_memory_usage>>
    BY <2>1 DEF vars, heap, entry, control
  <2>4. Listed' = Listed /\ Snapshot' = Snapshot
    BY <2>3 DEF Listed, Snapshot
  <2>5. /\ Dumping => Dumping'
        /\ Dumped => Dumped'
        /\ Failing => Failing'
        /\ Reporting => Reporting'
    BY <2>1, <2>4 DEF Dumping, Dumped, Failing, Reporting
  <2>6. ASSUME Reading PROVE Reading'
    <3>1. PICK p, m, e, l, s, g :
            /\ pending = [op |-> "read", ptr |-> p, before |-> <<l, s, g>>]
            /\ Mounted(p, m, e, <<l, s, g>>)
      BY <2>6 DEF Reading
    <3>2. Mounted(p, m, e, <<l, s, g>>)'
      BY <2>3, <3>1 DEF Mounted
    <3>3. pending' = [op |-> "read", ptr |-> p, before |-> <<l, s, g>>]
      BY <2>1, <3>1
    <3> QED
      BY <3>2, <3>3 DEF Reading
  <2> QED
    BY <2>1, <2>2, <2>3, <2>5, <2>6 DEF FileInv, PendingOK, Nothing
<1>5. CASE Terminated /\ UNCHANGED pending
  BY <1>4, <1>5 DEF Terminated, fileVars
<1> QED
  BY <1>1, <1>2, <1>3, <1>4, <1>5, Zenon DEF FileNext

\* The file functions keep what the other functions rely on, at each of their
\* system calls: each block in the list once, the cache coherent, nothing
\* undefined but the report of a mount that crashes.
THEOREM FileSafety ==
  ASSUME SafeClient
  PROVE  FileSpec => []FileInv
<1>1. FileInit => FileInv
  BY InvInit DEF FileInit, FileInv, PendingOK
<1>2. FileInv /\ [FileNext]_fileVars => FileInv'
  BY FileKeeps
<1> QED
  BY <1>1, <1>2, PTL DEF FileSpec

\* With files that other processes change between the system calls, the
\* library still reads no destroyed entry and frees no block twice, but for
\* lastAccess in the report of a mount that crashes; a crash whose report goes
\* well leaves nothing tracked allocated.
THEOREM FilesHarmless ==
  ASSUME SafeClient
  PROVE  FileSpec => [](OnlyReportUndefined /\ ExitClean)
<1>1. FileInv => OnlyReportUndefined /\ ExitClean
  BY DEF FileInv, IInv, BadReport, Reporting, NeverUndefined, OnlyReportUndefined, ExitClean
<1> QED
  BY <1>1, FileSafety, PTL

\* sn_mount_file_to_ram that fails after sn_malloc leaves heap, list and
\* global_memory_usage as before the call, also when the charge wrapped.
THEOREM MountLeavesNothing ==
  ASSUME SafeClient
  PROVE  FileSpec => []MountUndone
<1>1. FileInv => MountUndone
  <2> SUFFICES ASSUME FileInv, Resumes("failed") PROVE Snapshot = pending.before
    BY DEF MountUndone
  <2>1. Failing
    BY ResumesAt
  <2> QED
    BY <2>1 DEF Failing
<1> QED
  BY <1>1, FileSafety, PTL
============================================================================
