----------------------------- MODULE PlatMutex -----------------------------
(***************************************************************************)
(* The mutex of backend_api/src/platform_independent/plat_threading.c on   *)
(* the default UNIX build, driven by threads that make the sequences of    *)
(* lock and unlock calls the list and the cache make.                      *)
(*                                                                         *)
(* plat_mutex_t is a plain pthread mutex next to an unprotected field      *)
(* locker_tid.  plat_mutex_lock returns at once when locker_tid is the     *)
(* caller, which makes the mutex look recursive, but nothing counts the    *)
(* nesting: one plat_mutex_unlock releases it however often it was locked. *)
(* Each access to the pthread mutex or to locker_tid is a step of its own. *)
(*                                                                         *)
(* Unlocking a pthread mutex one does not hold is undefined in POSIX; with *)
(* glibc's default mutex, the one pthread_mutex_init(.., NULL) creates,    *)
(* it releases the mutex whoever holds it, and that is what is modelled.   *)
(*                                                                         *)
(* An operator named Faulty_X is X with a mistake that code could have had;*)
(* nothing uses it.  It documents, for a property, a mistake it notices.   *)
(***************************************************************************)
EXTENDS Integers, Sequences

CONSTANTS
  Threads,   \* the threads of the process (what plat_getTid returns)
  NoTid,     \* the 0 of an unset locker_tid and of a free pthread mutex
  Scripts,   \* the sequences of mutex calls one function call can make
  MaxCalls   \* bound on the function calls of one thread

ASSUME TidAssumption == NoTid \notin Threads
ASSUME ScriptAssumption == Scripts \subseteq Seq({"lock", "unlock"}) /\ << >> \notin Scripts
ASSUME CallsAssumption == MaxCalls \in Nat

VARIABLES
  owner,       \* holder of the pthread mutex
  locker_tid,  \* the field plat_mutex_lock compares with the caller
  script,      \* [t]: the mutex calls of the function t is in
  at,          \* [t]: index in script[t] of the current call, 0 outside
  pc,          \* [t]: where t is within that call
  calls        \* [t]: function calls t has started

vars == <<owner, locker_tid, script, at, pc, calls>>

----------------------------------------------------------------------------
(***************************************************************************)
(* The mutex calls of the functions of linked_list_c.c, for a list of n    *)
(* entries whose walk is not cut short.                                    *)
(***************************************************************************)

\* linked_list_push, the entry setters, and every memman_* function that
\* only takes alloc_mutex
FlatLocks == <<"lock", "unlock">>

\* linked_list_forEach locks again after each worker call
linked_list_forEach_locks(n) == [i \in 1..(n + 2) |-> IF i < n + 2 THEN "lock" ELSE "unlock"]

----------------------------------------------------------------------------
Init ==
  /\ owner = NoTid
  /\ locker_tid = NoTid
  /\ script = [t \in Threads |-> << >>]
  /\ at = [t \in Threads |-> 0]
  /\ pc = [t \in Threads |-> "idle"]
  /\ calls = [t \in Threads |-> 0]

Goto(t, from, to) == pc[t] = from /\ pc' = [pc EXCEPT ![t] = to]

\* The function does not notice that this was its last call.
Faulty_Return(t, from) ==
  /\ Goto(t, from, IF at[t] = Len(script[t]) THEN "idle" ELSE "run")
  /\ at' = [at EXCEPT ![t] = @ + 1]
  /\ UNCHANGED <<script, calls>>

\* The current mutex call of t returns; after the last one so does the function.
Return(t, from) ==
  LET last == at[t] = Len(script[t])
  IN  /\ Goto(t, from, IF last THEN "idle" ELSE "run")
      /\ at' = [at EXCEPT ![t] = IF last THEN 0 ELSE @ + 1]
      /\ UNCHANGED <<script, calls>>

\* t enters a function that uses the mutex.
Call(t, s) ==
  /\ calls[t] < MaxCalls
  /\ Goto(t, "idle", "run")
  /\ script' = [script EXCEPT ![t] = s]
  /\ at' = [at EXCEPT ![t] = 1]
  /\ calls' = [calls EXCEPT ![t] = @ + 1]
  /\ UNCHANGED <<owner, locker_tid>>

Now(t, op) == pc[t] = "run" /\ script[t][at[t]] = op

\* plat_mutex_lock: the test of locker_tid.
plat_mutex_lock(t) ==
  /\ Now(t, "lock")
  /\ \/ locker_tid = t /\ Return(t, "run")
     \/ locker_tid # t /\ Goto(t, "run", "acquire") /\ UNCHANGED <<script, at, calls>>
  /\ UNCHANGED <<owner, locker_tid>>

\* The result of a lock that may fail is ignored.
Faulty_Acquire(t) ==
  /\ Goto(t, "acquire", "publish")
  /\ owner' = t
  /\ UNCHANGED <<locker_tid, script, at, calls>>

\* pthread_mutex_lock returns.
Acquire(t) ==
  /\ Goto(t, "acquire", "publish")
  /\ owner = NoTid
  /\ owner' = t
  /\ UNCHANGED <<locker_tid, script, at, calls>>

\* locker_tid = plat_getTid()
Publish(t) ==
  /\ locker_tid' = t
  /\ Return(t, "publish")
  /\ UNCHANGED owner

\* Only locker_tid is reset, the pthread mutex stays locked.
Faulty_unlock(t) ==
  /\ Now(t, "unlock")
  /\ Goto(t, "run", "clear")
  /\ UNCHANGED <<owner, locker_tid, script, at, calls>>

\* plat_mutex_unlock: pthread_mutex_unlock comes first ...
plat_mutex_unlock(t) ==
  /\ Now(t, "unlock")
  /\ Goto(t, "run", "clear")
  /\ owner' = NoTid
  /\ UNCHANGED <<locker_tid, script, at, calls>>

\* locker_tid is left as it was.
Faulty_Clear(t) == Return(t, "clear") /\ UNCHANGED <<owner, locker_tid>>

\* ... and locker_tid = 0 after it, when another thread may hold the mutex.
Clear(t) ==
  /\ locker_tid' = NoTid
  /\ Return(t, "clear")
  /\ UNCHANGED owner

Step(t) == plat_mutex_lock(t) \/ Acquire(t) \/ Publish(t) \/ plat_mutex_unlock(t) \/ Clear(t)

Done == (\A t \in Threads : pc[t] = "idle" /\ calls[t] = MaxCalls) /\ UNCHANGED vars

Next ==
  \/ \E t \in Threads : (\E s \in Scripts : Call(t, s)) \/ Step(t)
  \/ Done

Spec == Init /\ [][Next]_vars

\* A thread inside the library keeps running; whether it calls again is up to
\* the program.  Weak fairness only: pthread mutexes promise no order.
FairSpec == Spec /\ \A t \in Threads : WF_vars(Step(t))

----------------------------------------------------------------------------
(* Properties *)

Pcs == {"idle", "run", "acquire", "publish", "clear"}

TypeOK ==
  /\ owner \in Threads \cup {NoTid}
  /\ locker_tid \in Threads \cup {NoTid}
  /\ script \in [Threads -> Scripts \cup {<< >>}]
  /\ at \in [Threads -> Nat]
  /\ pc \in [Threads -> Pcs]
  /\ calls \in [Threads -> 0..MaxCalls]
  /\ \A t \in Threads : IF pc[t] = "idle" THEN at[t] = 0
                        ELSE script[t] \in Scripts /\ at[t] \in 1..Len(script[t])

\* t is past the first plat_mutex_lock of its function and has not yet
\* begun the last plat_mutex_unlock's release.
InSection(t) == at[t] > 1 /\ ~(pc[t] = "clear" /\ at[t] = Len(script[t]))

\* Two threads are never both between the first lock and the last unlock of
\* a function on the same mutex: the list's fields are touched by one at a
\* time.
MutualExclusion == \A t, u \in Threads : InSection(t) /\ InSection(u) => t = u

\* The early return of plat_mutex_lock is only taken by the thread that holds
\* the pthread mutex, although locker_tid is read without any lock.
ShortcutOnlyByOwner ==
  \A t \in Threads : Now(t, "lock") /\ locker_tid = t => owner = t

\* plat_mutex_lock never waits in pthread_mutex_lock for a mutex its own
\* thread holds: locking again inside linked_list_forEach is harmless.
NoSelfWait == \A t \in Threads : pc[t] = "acquire" => owner # t

\* The functions that unlock once, at their end, and lock before that.  All of
\* linked_list_c.c's do but linked_list_hasPtr, linked_list_getById and
\* linked_list_removeEntryByPtr.
SingleUnlock ==
  \A s \in Scripts : /\ Len(s) > 1
                    /\ \A i \in 1..Len(s) : (s[i] = "unlock") <=> (i = Len(s))

\* The inductive strengthening of MutualExclusion and ShortcutOnlyByOwner
\* for such functions: the pthread mutex belongs to whoever is past its first
\* pthread_mutex_lock, and locker_tid never outlives the function that set it.
IInv ==
  /\ TypeOK
  /\ \A t \in Threads : InSection(t) \/ pc[t] = "publish" => owner = t
  /\ \A t \in Threads : pc[t] \in {"acquire", "publish"} => at[t] < Len(script[t])
  /\ \A t \in Threads : pc[t] = "clear" => at[t] = Len(script[t])
  /\ \A t \in Threads : locker_tid = t => at[t] > 1

\* Every function that uses the mutex returns.
CallsReturn == \A t \in Threads : (pc[t] # "idle") ~> (pc[t] = "idle")

============================================================================
