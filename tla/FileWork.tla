------------------------------ MODULE FileWork ------------------------------
(***************************************************************************)
(* sn_file_work.c on top of SafetyNet.  A file is what fopen, fread, fwrite*)
(* and ftell make of it.  Other processes may change it at any time: what  *)
(* a call finds at its path is any file, and it may become another one     *)
(* between two system calls of the call.                                   *)
(*                                                                         *)
(* A file function between two system calls is pending: no other function  *)
(* of the library runs meanwhile.                                          *)
(***************************************************************************)
EXTENDS SafetyNet

CONSTANT FileSizes     \* sizes of the files other processes make

ASSUME FilesAssumption == FileSizes \subseteq 0..(SIZE_MOD - 1)

VARIABLE pending       \* the file function, the step it is at as op, with its file and locals

fileVars == <<vars, pending>>

----------------------------------------------------------------------------
(* Files *)

File(kind, bytes) == [kind |-> kind, size |-> bytes]
Absent == File("absent", 0)
Hidden == File("hidden", 0)     \* cannot be opened for reading
Stream == File("stream", 0)     \* opens, and cannot seek

Files == {Absent, Hidden, Stream} \cup {File("regular", n) : n \in FileSizes}

\* Whether fopen for reading succeeds
file_exists(f) == f.kind \in {"regular", "stream"}

\* ftell fails with -1, which becomes the largest size_t.
ftell(f) == IF f.kind = "stream" THEN SIZE_MOD - 1 ELSE f.size

----------------------------------------------------------------------------
(* The functions *)

Snapshot == <<live, list, global_memory_usage>>
Nothing == [op |-> "none"]

FileCall(op) == pending = Nothing /\ Begin(op)
Resumes(at) == status = "running" /\ pending.op = at

\* The function goes on as f.
Goes(f) == pending' = f /\ UNCHANGED control

Returns == Goes(Nothing)

\* The call ends with an error.
Refuses(code) == sn_error(code, NULL) /\ Returns

\* file_exists and the lookup come first.  Only a block in the fast cache is
\* dumped: see Misses.
sn_dump_to_file ==
  /\ FileCall("sn_dump_to_file")
  /\ \/ Refuses("SN_ERR_NULL_PTR")
     \/ \E f \in Files, block \in Addrs :
          LET hit == memman_TryCacheHit(block)
          IN  \/ file_exists(f) /\ Refuses("SN_ERR_FILE_PRE_EXIST")
              \/ ~file_exists(f) /\ Misses(block) /\ Returns
              \/ /\ ~file_exists(f) /\ hit # NULL /\ Answer(hit)
                 /\ Goes([op |-> "dump", file |-> f, entry |-> hit])

\* Then the file is truncated and written, perhaps in part,
DumpWrite ==
  /\ Resumes("dump")
  /\ \/ Refuses("SN_ERR_FILE_IO")
     \/ \E written \in 0..size[pending.entry] :
          /\ Goes([pending EXCEPT !.op = "written", !.file = File("regular", written)])
          /\ Reads({pending.entry})
          /\ UNCHANGED <<heap, list, entry, cache, flags, global_memory_usage, error_code>>

\* which is an error that leaves the file.
DumpReturns ==
  /\ Resumes("written") /\ Returns
  /\ \/ pending.file.size = size[pending.entry] /\ Answer(NULL)
     \/ pending.file.size # size[pending.entry] /\ sn_error("SN_ERR_FILE_IO", NULL)

\* A refused sn_malloc is not an error of the call but a crash.
MountMalloc(f) ==
  LET filesize == ftell(f)
      may == memman_canAllocateBasedOnLimitAndSize(filesize)
  IN  \/ /\ sn_error(IF may THEN "SN_ERR_BAD_ALLOC" ELSE "SN_ERR_ALLOC_LIMIT_HIT", NULL)
         /\ Goes([op |-> "report"])
      \/ \E a \in Addrs :
           /\ may /\ Allocated(filesize, filesize, NULL) /\ live'[a] # live[a]
           /\ Goes([op |-> "read", ptr |-> a, before |-> Snapshot])

sn_mount_file_to_ram ==
  /\ FileCall("sn_mount_file_to_ram")
  /\ \/ Refuses("SN_ERR_NULL_PTR")
     \/ \E f \in Files :
          \/ ~file_exists(f) /\ Refuses("SN_ERR_FILE_NOT_EXIST")
          \/ file_exists(f) /\ Refuses("SN_ERR_FILE_IO")
          \/ file_exists(f) /\ ftell(f) = 0 /\ Refuses("SN_ERR_BAD_SIZE")
          \/ file_exists(f) /\ ftell(f) # 0 /\ MountMalloc(f)

\* sn_crash(SN_ERR_BAD_ALLOC) prints lastAccess, and then the list, and leaves
\* through exit.
MountCrash ==
  /\ Resumes("report")
  /\ \/ lastAccess \in Listed \cup {NULL} /\ doexit("crashed")
     \/ /\ lastAccess \notin Listed \cup {NULL} /\ status' = "undefined"
        /\ UNCHANGED <<heap, list, entry, cache, flags, global_memory_usage>>
  /\ UNCHANGED <<error_code, control, pending>>

\* fread got it all.
MountDone ==
  /\ Resumes("read") /\ Returns
  /\ Answer(NULL)

\* The cleanup the code calls optional is left out.
Faulty_MountShort ==
  /\ Resumes("read")
  /\ Answer(NULL)
  /\ Goes([pending EXCEPT !.op = "failed"])

\* fread got less than ftell said: sn_free takes the buffer back ...
MountShort ==
  /\ Resumes("read")
  /\ \/ Lookup(pending.ptr) = NULL /\ sn_error("SN_ERR_NO_ADDER_FOUND", NULL)
     \/ Lookup(pending.ptr) # NULL /\ FreeBlock(pending.ptr)
  /\ Goes([pending EXCEPT !.op = "failed"])

\* ... and the call fails.
MountFails == Resumes("failed") /\ Refuses("SN_ERR_FILE_IO")

\* Another process creates, changes or removes the file during a dump.  For a
\* mount that shows in what fread gets.
OtherProcess ==
  /\ Resumes("dump")
  /\ \E f \in Files \ {pending.file} : Goes([pending EXCEPT !.file = f])
  /\ UNCHANGED <<heap, list, entry, cache, flags, global_memory_usage, error_code, status>>

FileNext ==
  \/ pending = Nothing /\ Next /\ UNCHANGED pending
  \/ sn_dump_to_file \/ DumpWrite \/ DumpReturns
  \/ sn_mount_file_to_ram \/ MountCrash \/ MountDone \/ MountShort \/ MountFails
  \/ OtherProcess
  \/ Terminated /\ UNCHANGED pending

FileInit == Init /\ pending = Nothing

FileSpec == FileInit /\ [][FileNext]_fileVars

----------------------------------------------------------------------------
(* Properties *)

\* A mount that fails after its allocation leaves heap, list and accounting
\* as they were before the call.
MountUndone == Resumes("failed") => Snapshot = pending.before

\* The library, its file functions included, reads no destroyed entry and
\* frees no block twice, but for the crash report of a mount, which reads
\* lastAccess after a sn_free destroyed it.
OnlyReportUndefined ==
  status = "undefined" => pending.op = "report" /\ lastAccess \notin Listed \cup {NULL}

\* The registry of blocks, for which a report that reads a destroyed entry is a
\* crash that frees nothing
FileRegistry == INSTANCE BlockRegistry
                  WITH heap <- {a \in Addrs : live[a] > 0},
                       owned <- IF status = "undefined" THEN {} ELSE Tracked \ {NULL},
                       state <- IF status = "undefined" THEN "crashed" ELSE status

\* With its file functions too, at each of their system calls, the library
\* keeps what BlockRegistry promises: sn_mount_file_to_ram tracks the buffer it
\* allocates, and gives back just that one when its fread falls short.
FilesImplement == FileRegistry!Spec

============================================================================
