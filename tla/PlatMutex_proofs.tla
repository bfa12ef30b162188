------------------------- MODULE PlatMutex_proofs -------------------------
(***************************************************************************)
(* What plat_mutex_t guarantees for any number of threads, any number of   *)
(* calls and lists of any length, as long as each function unlocks once.   *)
(***************************************************************************)
EXTENDS PlatMutex, TLAPS

\* Pushes, and walks over lists of any length, unlock once, at their end.
LEMMA WalkUnlocksOnce ==
  ASSUME Scripts \subseteq {FlatLocks} \cup {linked_list_forEach_locks(n) : n \in Nat}
  PROVE  SingleUnlock
<1>1. ASSUME NEW s \in Scripts
      PROVE  Len(s) > 1 /\ \A i \in 1..Len(s) : (s[i] = "unlock") <=> (i = Len(s))
  <2>1. CASE s = FlatLocks
    BY <2>1 DEF FlatLocks
  <2>2. CASE \E n \in Nat : s = linked_list_forEach_locks(n)
    BY <2>2 DEF linked_list_forEach_locks
  <2> QED
    BY <2>1, <2>2
<1> QED
  BY <1>1 DEF SingleUnlock

\* Return leaves the thread outside, or at the next call of its script.
LEMMA ReturnType ==
  ASSUME TypeOK, NEW t \in Threads, NEW from \in Pcs \ {"idle"}, Return(t, from)
  PROVE  /\ script' = script /\ calls' = calls
         /\ at' \in [Threads -> Nat] /\ pc' \in [Threads -> Pcs]
         /\ \A u \in Threads : IF pc'[u] = "idle" THEN at'[u] = 0
                               ELSE script'[u] \in Scripts /\ at'[u] \in 1..Len(script'[u])
<1>1. script[t] \in Scripts /\ at[t] \in 1..Len(script[t]) /\ Len(script[t]) \in Nat
  BY ScriptAssumption DEF TypeOK, Return, Goto, Pcs
<1>2. /\ at' = [at EXCEPT ![t] = IF at[t] = Len(script[t]) THEN 0 ELSE at[t] + 1]
      /\ pc' = [pc EXCEPT ![t] = IF at[t] = Len(script[t]) THEN "idle" ELSE "run"]
      /\ script' = script /\ calls' = calls
  BY DEF Return, Goto
<1> QED
  BY <1>1, <1>2 DEF TypeOK, Pcs

LEMMA TypeStep == TypeOK /\ [Next]_vars => TypeOK'
<1> SUFFICES ASSUME TypeOK, [Next]_vars PROVE TypeOK'
  OBVIOUS
<1>1. ASSUME NEW t \in Threads, NEW s \in Scripts, Call(t, s) PROVE TypeOK'
  <2>1. 1 \in 1..Len(s)
    BY ScriptAssumption
  <2> QED
    BY <1>1, <2>1, CallsAssumption DEF Call, Goto, TypeOK, Pcs
<1>2. ASSUME NEW t \in Threads, plat_mutex_lock(t) PROVE TypeOK'
  <2>1. CASE Return(t, "run")
    <3>1. "run" \in Pcs \ {"idle"}
      BY DEF Pcs
    <3> QED
      BY <1>2, <2>1, <3>1, ReturnType DEF plat_mutex_lock, TypeOK
  <2>2. CASE Goto(t, "run", "acquire") /\ UNCHANGED <<script, at, calls>>
    BY <1>2, <2>2 DEF plat_mutex_lock, Goto, TypeOK, Pcs
  <2> QED
    BY <1>2, <2>1, <2>2 DEF plat_mutex_lock
<1>3. ASSUME NEW t \in Threads, Acquire(t) PROVE TypeOK'
  BY <1>3 DEF Acquire, Goto, TypeOK, Pcs
<1>4. ASSUME NEW t \in Threads, Publish(t) PROVE TypeOK'
  <2>1. "publish" \in Pcs \ {"idle"}
    BY DEF Pcs
  <2> QED
    BY <1>4, <2>1, ReturnType DEF Publish, TypeOK
<1>5. ASSUME NEW t \in Threads, plat_mutex_unlock(t) PROVE TypeOK'
  BY <1>5 DEF plat_mutex_unlock, Goto, TypeOK, Pcs
<1>6. ASSUME NEW t \in Threads, Clear(t) PROVE TypeOK'
  <2>1. "clear" \in Pcs \ {"idle"}
    BY DEF Pcs
  <2> QED
    BY <1>6, <2>1, ReturnType DEF Clear, TypeOK
<1>7. CASE UNCHANGED vars
  BY <1>7 DEF vars, TypeOK
<1> QED
  BY <1>1, <1>2, <1>3, <1>4, <1>5, <1>6, <1>7 DEF Next, Step, Done

LEMMA TypeInit == Init => TypeOK
  BY CallsAssumption DEF Init, TypeOK, Pcs

\* The type invariant: a thread inside a function is at one of its calls.
THEOREM TypeCorrect == Spec => []TypeOK
  BY TypeInit, TypeStep, PTL DEF Spec

----------------------------------------------------------------------------
\* Where a thread goes when its current call, not the last one, returns.
LEMMA ReturnInside ==
  ASSUME TypeOK, NEW t \in Threads, NEW from \in Pcs \ {"idle"}, Return(t, from),
         at[t] < Len(script[t])
  PROVE  /\ at' = [at EXCEPT ![t] = at[t] + 1] /\ at[t] + 1 > 1
         /\ pc' = [pc EXCEPT ![t] = "run"]
         /\ script' = script
<1>1. at[t] \in Nat /\ at[t] # Len(script[t]) /\ at[t] >= 1
  BY ScriptAssumption DEF TypeOK, Return, Goto, Pcs
<1> QED
  BY <1>1 DEF Return, Goto

\* The strengthened invariant holds in every step, by cases on the action:
\* the only transfer of the pthread mutex is from nobody to the thread that
\* acquires it, and a thread frees it only at the end of its own function.
LEMMA InvStep ==
  ASSUME SingleUnlock
  PROVE  IInv /\ [Next]_vars => IInv'
<1> SUFFICES ASSUME IInv, [Next]_vars PROVE IInv'
  OBVIOUS
<1> TypeOK /\ TypeOK'
  BY TypeStep DEF IInv
<1>0. /\ \A t \in Threads : pc[t] # "idle" => /\ script[t] \in Scripts
                                              /\ at[t] \in 1..Len(script[t])
                                              /\ Len(script[t]) \in Nat /\ Len(script[t]) > 1
      /\ \A t \in Threads : Now(t, "lock") => at[t] < Len(script[t])
      /\ \A t \in Threads : Now(t, "unlock") => at[t] = Len(script[t])
  <2>1. \A t \in Threads : pc[t] # "idle" => /\ script[t] \in Scripts
                                             /\ at[t] \in 1..Len(script[t])
                                             /\ Len(script[t]) \in Nat /\ Len(script[t]) > 1
    BY ScriptAssumption DEF TypeOK, SingleUnlock
  <2>2. ASSUME NEW t \in Threads, pc[t] = "run"
        PROVE  (script[t][at[t]] = "unlock") <=> (at[t] = Len(script[t]))
    BY <2>1, <2>2 DEF SingleUnlock
  <2> QED
    BY <2>1, <2>2 DEF Now
<1>1. ASSUME NEW t \in Threads, NEW s \in Scripts, Call(t, s) PROVE IInv'
  <2>1. at' = [at EXCEPT ![t] = 1] /\ pc' = [pc EXCEPT ![t] = "run"] /\ pc[t] = "idle"
    BY <1>1 DEF Call, Goto
  <2> QED
    BY <1>1, <2>1 DEF IInv, Call, InSection, TypeOK
<1>2. ASSUME NEW t \in Threads, plat_mutex_lock(t) PROVE IInv'
  <2>1. CASE locker_tid = t /\ Return(t, "run")
    <3>1. "run" \in Pcs \ {"idle"} /\ at[t] < Len(script[t])
      BY <1>2, <1>0 DEF Pcs, plat_mutex_lock
    <3>2. /\ at' = [at EXCEPT ![t] = at[t] + 1] /\ at[t] + 1 > 1
          /\ pc' = [pc EXCEPT ![t] = "run"] /\ script' = script
      BY <2>1, <3>1, ReturnInside
    <3>3. owner = t
      BY <1>2, <2>1 DEF IInv, InSection, plat_mutex_lock, Now
    <3> QED
      BY <1>2, <2>1, <3>1, <3>2, <3>3 DEF IInv, InSection, plat_mutex_lock, TypeOK
  <2>2. CASE Goto(t, "run", "acquire") /\ UNCHANGED <<script, at, calls>>
    BY <1>0, <1>2, <2>2 DEF IInv, InSection, plat_mutex_lock, Goto, TypeOK
  <2> QED
    BY <1>2, <2>1, <2>2 DEF plat_mutex_lock
<1>3. ASSUME NEW t \in Threads, Acquire(t) PROVE IInv'
  BY <1>3, TidAssumption DEF IInv, InSection, Acquire, Goto, TypeOK
<1>4. ASSUME NEW t \in Threads, Publish(t) PROVE IInv'
  <2>1. "publish" \in Pcs \ {"idle"} /\ at[t] < Len(script[t]) /\ owner = t
    BY <1>4 DEF Pcs, Publish, Return, Goto, IInv
  <2>2. /\ at' = [at EXCEPT ![t] = at[t] + 1] /\ at[t] + 1 > 1
        /\ pc' = [pc EXCEPT ![t] = "run"] /\ script' = script
    BY <1>4, <2>1, ReturnInside DEF Publish
  <2> QED
    BY <1>4, <2>1, <2>2 DEF IInv, InSection, Publish, TypeOK
<1>5. ASSUME NEW t \in Threads, plat_mutex_unlock(t) PROVE IInv'
  <2>1. at[t] = Len(script[t]) /\ at[t] > 1 /\ pc[t] = "run"
    BY <1>0, <1>5 DEF plat_mutex_unlock, Now
  <2>2. owner = t
    BY <2>1 DEF IInv, InSection
  <2> QED
    BY <1>5, <2>1, <2>2 DEF IInv, InSection, plat_mutex_unlock, Goto, TypeOK
<1>6. ASSUME NEW t \in Threads, Clear(t) PROVE IInv'
  <2>1. at[t] = Len(script[t]) /\ pc[t] = "clear"
    BY <1>6 DEF IInv, Clear, Return, Goto
  <2>2. at' = [at EXCEPT ![t] = 0] /\ pc' = [pc EXCEPT ![t] = "idle"] /\ script' = script
    BY <1>6, <2>1 DEF Clear, Return, Goto
  <2> QED
    BY <1>6, <2>1, <2>2, TidAssumption DEF IInv, InSection, Clear, TypeOK
<1>7. CASE UNCHANGED vars
  BY <1>7 DEF vars, IInv, InSection
<1> QED
  BY <1>1, <1>2, <1>3, <1>4, <1>5, <1>6, <1>7 DEF Next, Step, Done

LEMMA InvInit == Init => IInv
  BY TypeInit, TidAssumption DEF Init, IInv, InSection

\* Between the first lock and the last unlock of functions that unlock once,
\* a thread is alone on the mutex, whatever the unprotected locker_tid holds.
THEOREM SectionsExclude ==
  ASSUME SingleUnlock
  PROVE  Spec => []MutualExclusion
<1>1. IInv => MutualExclusion
  BY DEF IInv, MutualExclusion
<1> QED
  BY <1>1, InvInit, InvStep, PTL DEF Spec

\* The early return of plat_mutex_lock is taken by the holder only.
THEOREM ShortcutSound ==
  ASSUME SingleUnlock
  PROVE  Spec => []ShortcutOnlyByOwner
<1>1. IInv => ShortcutOnlyByOwner
  BY DEF IInv, ShortcutOnlyByOwner, InSection, Now
<1> QED
  BY <1>1, InvInit, InvStep, PTL DEF Spec

----------------------------------------------------------------------------
(***************************************************************************)
(* Functions that lock once.  What keeps a thread from waiting for itself  *)
(* is the converse of IInv's first part: the pthread mutex never stays     *)
(* with a thread that is back before its first lock.  A function that      *)
(* locks twice can lose its mark in locker_tid in between, and then does   *)
(* wait for itself.                                                        *)
(***************************************************************************)
OwnerInside == \A t \in Threads : owner = t => InSection(t) \/ pc[t] = "publish"
LocksFirst == \A t \in Threads : pc[t] = "acquire" => at[t] = 1
FlatInv == IInv /\ OwnerInside /\ LocksFirst

LEMMA FlatUnlocksOnce ==
  ASSUME Scripts \subseteq {FlatLocks}
  PROVE  SingleUnlock
  BY WalkUnlocksOnce

\* A thread about to lock is at the first call of its function.
LEMMA FlatLockIsFirst ==
  ASSUME Scripts \subseteq {FlatLocks}, TypeOK, NEW t \in Threads, Now(t, "lock")
  PROVE  at[t] = 1 /\ Len(script[t]) = 2
<1>1. script[t] = <<"lock", "unlock">> /\ at[t] \in 1..Len(script[t])
  BY DEF TypeOK, Now, FlatLocks
<1> QED
  BY <1>1 DEF Now

LEMMA FlatInvStep ==
  ASSUME Scripts \subseteq {FlatLocks}
  PROVE  FlatInv /\ [Next]_vars => FlatInv'
<1> SUFFICES ASSUME FlatInv, [Next]_vars PROVE FlatInv'
  OBVIOUS
<1>0. IInv' /\ IInv /\ TypeOK /\ TypeOK'
  BY FlatUnlocksOnce, InvStep DEF FlatInv, IInv
<1>1. ASSUME NEW t \in Threads, NEW s \in Scripts, Call(t, s)
      PROVE  OwnerInside' /\ LocksFirst'
  <2>1. at[t] = 0
    BY <1>0, <1>1 DEF TypeOK, Call, Goto
  <2>2. /\ at' = [at EXCEPT ![t] = 1] /\ pc' = [pc EXCEPT ![t] = "run"] /\ pc[t] = "idle"
        /\ script' = [script EXCEPT ![t] = s] /\ owner' = owner
    BY <1>1 DEF Call, Goto
  <2> QED
    BY <1>0, <2>1, <2>2 DEF FlatInv, OwnerInside, LocksFirst, InSection, TypeOK
<1>2. ASSUME NEW t \in Threads, plat_mutex_lock(t) PROVE OwnerInside' /\ LocksFirst'
  <2>1. at[t] = 1 /\ Len(script[t]) = 2
    BY <1>0, <1>2, FlatLockIsFirst DEF plat_mutex_lock
  <2>2. locker_tid # t
    BY <1>0, <2>1 DEF IInv
  <2>3. /\ pc' = [pc EXCEPT ![t] = "acquire"] /\ pc[t] = "run"
        /\ UNCHANGED <<script, at, owner>>
    BY <1>2, <2>2 DEF plat_mutex_lock, Goto
  <2> QED
    BY <1>0, <2>1, <2>3 DEF FlatInv, OwnerInside, LocksFirst, InSection, TypeOK
<1>3. ASSUME NEW t \in Threads, Acquire(t) PROVE OwnerInside' /\ LocksFirst'
  BY <1>0, <1>3 DEF FlatInv, OwnerInside, LocksFirst, Acquire, Goto, TypeOK
<1>4. ASSUME NEW t \in Threads, Publish(t) PROVE OwnerInside' /\ LocksFirst'
  <2>1. "publish" \in Pcs \ {"idle"} /\ at[t] < Len(script[t])
    BY <1>0, <1>4 DEF Pcs, Publish, Return, Goto, IInv
  <2>2. /\ at' = [at EXCEPT ![t] = at[t] + 1] /\ at[t] + 1 > 1
        /\ pc' = [pc EXCEPT ![t] = "run"] /\ script' = script /\ owner' = owner
    BY <1>0, <1>4, <2>1, ReturnInside DEF Publish
  <2> QED
    BY <1>0, <2>1, <2>2 DEF FlatInv, OwnerInside, LocksFirst, InSection, TypeOK
<1>5. ASSUME NEW t \in Threads, plat_mutex_unlock(t) PROVE OwnerInside' /\ LocksFirst'
  BY <1>0, <1>5, TidAssumption
  DEF FlatInv, OwnerInside, LocksFirst, plat_mutex_unlock, Goto, TypeOK
<1>6. ASSUME NEW t \in Threads, Clear(t) PROVE OwnerInside' /\ LocksFirst'
  <2>1. at[t] = Len(script[t]) /\ pc[t] = "clear"
    BY <1>0, <1>6 DEF IInv, Clear, Return, Goto
  <2>2. /\ at' = [at EXCEPT ![t] = 0] /\ pc' = [pc EXCEPT ![t] = "idle"]
        /\ script' = script /\ owner' = owner
    BY <1>6, <2>1 DEF Clear, Return, Goto
  <2>3. owner # t
    BY <2>1 DEF FlatInv, OwnerInside, InSection
  <2> QED
    BY <1>0, <2>2, <2>3 DEF FlatInv, OwnerInside, LocksFirst, InSection, TypeOK
<1>7. CASE UNCHANGED vars
  BY <1>0, <1>7 DEF vars, FlatInv, OwnerInside, LocksFirst, InSection
<1> QED
  BY <1>0, <1>1, <1>2, <1>3, <1>4, <1>5, <1>6, <1>7 DEF Next, Step, Done, FlatInv

\* A function that locks once never waits in pthread_mutex_lock for the mutex
\* its own thread holds, whatever the late reset of locker_tid does.
THEOREM FlatNeverSelfWaits ==
  ASSUME Scripts \subseteq {FlatLocks}
  PROVE  Spec => []NoSelfWait
<1>1. Init => FlatInv
  BY InvInit, TidAssumption DEF Init, FlatInv, OwnerInside, LocksFirst
<1>2. FlatInv => NoSelfWait
  BY DEF FlatInv, OwnerInside, LocksFirst, InSection, NoSelfWait
<1> QED
  BY <1>1, <1>2, FlatInvStep, PTL DEF Spec
============================================================================
