----------------------- MODULE LinkedListSafety_proofs -----------------------
(***************************************************************************)
(* No function of the list touches a destroyed entry, but the crash report *)
(* when lastAccess was removed.  LinkedList_proofs gives the shape of the  *)
(* list; here the invariant says of every call in progress that the        *)
(* entries it has in hand are allocated.                                   *)
(***************************************************************************)
EXTENDS LinkedList_proofs

Removal == "linked_list_removeEntryByPtr"
NoRemoval == Removal \notin Ops /\ "linked_list_pop" \notin Ops

OneThread == \A t, u \in Threads : t = u

\* A thread in a solitary function is alone.
Apart ==
  \A t, u \in Threads :
    t # u /\ (\E k \in DOMAIN stack[t] : stack[t][k].op \in Solitary) => stack[u] = << >>

\* A second call is one from the callback of the first.
Nested ==
  \A t \in Threads :
    /\ Len(stack[t]) <= 2
    /\ Len(stack[t]) = 2 =>
         /\ stack[t][2].pc = "callback"
         /\ stack[t][1].op \in Searches \cup {"linked_list_push", "doexit", "linked_list_destroy"}

\* Calls are of the program, or of its exit.
Called ==
  \A t \in Threads : \A k \in DOMAIN stack[t] : stack[t][k].op \in Ops \cup {"doexit", "linked_list_destroy"}

\* The entries a call has in hand are allocated.  In a callback that has freed
\* its block only the next entry is.
Live(f) ==
  IF f.pc = "callback"
  THEN /\ f.nxt \in alive \cup {NULL}
       /\ f.arg = NULL => f.entry \in alive /\ f.nxt \in {NULL, next[f.entry]}
  ELSE /\ f.entry \in alive \cup {HEAD, NULL}
       /\ f.pc = "enter" => f.entry # NULL

\* The removal f called from the callback g comes to an entry no later in the
\* list than that of g, and so never to the one the walk goes on with.
Removing(f, g) ==
  /\ g.arg # NULL
  /\ Stage(f) \in {"outer", "first", "enter", "visit", "unlink"} =>
       /\ g.entry \in alive /\ data[g.entry] = f.arg
       /\ g.nxt \in {NULL, next[g.entry]}
  /\ Stage(f) \in {"enter", "visit", "unlink"} =>
       \E n \in Nat : \E s \in [1..n -> Entries] :
         /\ Linked(n, s) /\ Holds(n, s)
         /\ \E p \in 1..n : \E q \in 1..p : s[p] = g.entry /\ s[q] = f.entry
  /\ Stage(f) = "linked_list_pop" => g.nxt = NULL

\* The entries before that of the walk of linked_list_destroy are destroyed,
\* the others are not.
Swept(f, n, s) ==
  /\ Linked(n, s) /\ len \in Nat /\ n <= len
  /\ Stage(f) \in {"first", "enter"} => Holds(n, s)
  /\ Stage(f) = "enter" => f.entry = firstEntry
  /\ Stage(f) = "visit" => \E i \in 1..n : f.entry = s[i] /\ alive = {s[j] : j \in i..n}
  /\ Stage(f) = "next walk" => alive = {}

Sweeping(f) == \E n \in Nat : \E s \in [1..n -> Entries] : Swept(f, n, s)

Sweeps ==
  \A t \in Threads : stack[t] # << >> /\ Top(t).op = "linked_list_destroy" => Sweeping(Top(t))

InHand ==
  /\ \A t \in Threads : \A k \in DOMAIN stack[t] : Live(stack[t][k])
  /\ \A t \in Threads : Len(stack[t]) = 2 /\ Top(t).op = Removal => Removing(Top(t), stack[t][2])
  /\ NoRemoval => lastAccess \in alive \cup {NULL}

Calls == Apart /\ Nested /\ Called

SafeInv ==
  /\ TypeOK
  /\ status = "undefined" => "sn_debug_crash" \in Ops /\ ~NoRemoval /\ OnlyReportDangles
  /\ status = "exited" => alive = {}
  /\ status = "running" => Calls /\ Sweeps /\ (Intact => InHand)

----------------------------------------------------------------------------
(* The list and the stacks *)

LEMMA ListedFacts ==
  ASSUME LinkTyped, Listed
  PROVE  /\ firstEntry \in alive \cup {HEAD} /\ lastEntry \in alive \cup {HEAD}
         /\ \A x \in alive : next[x] \in alive \cup {NULL} /\ previous[x] \in alive \cup {HEAD}
         /\ len \in Nat /\ (len = 0 => alive = {}) /\ (alive # {} => firstEntry # HEAD)
         /\ lastEntry # HEAD => len - 1 \in Nat
         /\ \A x \in alive : x # lastEntry => next[x] # NULL
<1>1. PICK n \in Nat : \E s \in [1..n -> Entries] : Linked(n, s) /\ Holds(n, s) /\ len \in Nat /\ n <= len
  BY DEF Listed
<1>2. PICK s \in [1..n -> Entries] : Linked(n, s) /\ Holds(n, s) /\ len \in Nat /\ n <= len
  BY <1>1
<1>3. \A i \in 1..n : s[i] \in alive /\ s[i] # HEAD
  BY <1>2, ListAssumption DEF Holds
<1>4. \A i \in 0..n : Node(s, i) \in alive \cup {HEAD}
  BY <1>3 DEF Node
<1>5. lastEntry \in alive \cup {HEAD}
  BY <1>2, <1>4 DEF Linked
<1>6. firstEntry \in alive \cup {HEAD}
  BY <1>2, <1>3 DEF Linked
<1>7. ASSUME NEW x \in alive PROVE next[x] \in alive \cup {NULL} /\ previous[x] \in alive \cup {HEAD}
  <2>1. PICK i \in 1..n : x = s[i]
    BY <1>2 DEF Holds
  <2>2. i \in 0..n /\ i - 1 \in 0..n /\ Node(s, i) = x /\ (i # n => i + 1 \in 1..n)
    BY <2>1 DEF Node
  <2>3. previous[x] = Node(s, i - 1) /\ next[x] = IF i = n THEN NULL ELSE s[i + 1]
    BY <1>2, <2>1, <2>2 DEF Linked
  <2> QED
    BY <1>3, <1>4, <2>2, <2>3
<1>10. ASSUME NEW x \in alive, x # lastEntry PROVE next[x] # NULL
  <2>1. PICK i \in 1..n : x = s[i]
    BY <1>2 DEF Holds
  <2>2. i # n
    BY <1>2, <1>10, <2>1 DEF Linked, Node
  <2>3. i \in 0..n /\ Node(s, i) = x /\ i + 1 \in 1..n
    BY <2>1, <2>2 DEF Node
  <2>4. next[x] = s[i + 1]
    BY <1>2, <2>2, <2>3 DEF Linked
  <2> QED
    BY <1>3, <2>3, <2>4, ListAssumption DEF LinkTyped
<1>11. lastEntry # HEAD => len - 1 \in Nat
  BY <1>2 DEF Linked, Node
<1>8. len = 0 => alive = {}
  BY <1>2 DEF Holds
<1>9. alive # {} => firstEntry # HEAD
  BY <1>2, <1>3 DEF Holds, Linked
<1> QED
  BY <1>2, <1>5, <1>6, <1>7, <1>8, <1>9, <1>10, <1>11

\* The stack after Go
LEMMA GoStack ==
  ASSUME Frames, NEW t \in Threads, stack[t] # << >>, NEW g, Go(t, g), g.pc # "return" => g \in GoodFrame
  PROVE  /\ \A u \in Threads \ {t} : stack'[u] = stack[u]
         /\ g.pc = "return" =>
              /\ Len(stack'[t]) = Len(stack[t]) - 1
              /\ \A k \in DOMAIN stack'[t] : k + 1 \in DOMAIN stack[t] /\ stack'[t][k] = stack[t][k + 1]
         /\ g.pc # "return" =>
              /\ Len(stack'[t]) = Len(stack[t]) /\ DOMAIN stack'[t] = DOMAIN stack[t] /\ stack'[t] # << >>
              /\ stack'[t][1] = g /\ Head(stack'[t]) = g
              /\ \A k \in DOMAIN stack[t] : k # 1 => stack'[t][k] = stack[t][k]
<1>1. stack \in [Threads -> Seq(GoodFrame)] /\ stack[t] \in Seq(GoodFrame)
  BY DEF Frames
<1>2. /\ \A u \in Threads \ {t} : stack'[u] = stack[u]
      /\ stack'[t] = IF g.pc = "return" THEN Tail(stack[t]) ELSE <<g>> \o Tail(stack[t])
  BY <1>1 DEF Go
<1>3. CASE g.pc = "return"
  <2>1. stack'[t] = Tail(stack[t])
    BY <1>2, <1>3
  <2> QED
    BY <1>1, <1>2, <1>3, <2>1
<1>4. CASE g.pc # "return"
  <2>1. stack'[t] = <<g>> \o Tail(stack[t]) /\ g \in GoodFrame /\ Tail(stack[t]) \in Seq(GoodFrame)
    BY <1>1, <1>2, <1>4
  <2> QED
    BY <1>1, <1>2, <1>4, <2>1
<1> QED
  BY <1>3, <1>4

LEMMA UpToTwo ==
  \A x \in Nat : x <= 2 => /\ x - 1 <= 2 /\ x - 1 # 2 /\ (x > 0 /\ x - 1 # 0 => x = 2)
                           /\ \A k \in 1..x : k # 1 => k = 2 /\ x = 2
  OBVIOUS

\* How the function of a frame may change
SameCall(f, g) ==
  g.op = f.op \/ (f.op \in {"sn_debug_crash", "doexit"} /\ g.op \in {"doexit", "linked_list_destroy"})

LEMMA GoCalls ==
  ASSUME Frames, Calls, NEW t \in Threads, stack[t] # << >>, NEW g, Go(t, g), Onward(t, g), SameCall(Top(t), g)
  PROVE  Calls'
<1>1. /\ \A u \in Threads \ {t} : stack'[u] = stack[u]
      /\ g.pc = "return" =>
           /\ Len(stack'[t]) = Len(stack[t]) - 1
           /\ \A k \in DOMAIN stack'[t] : k + 1 \in DOMAIN stack[t] /\ stack'[t][k] = stack[t][k + 1]
      /\ g.pc # "return" =>
           /\ Len(stack'[t]) = Len(stack[t]) /\ DOMAIN stack'[t] = DOMAIN stack[t]
           /\ stack'[t][1] = g
           /\ \A k \in DOMAIN stack[t] : k # 1 => stack'[t][k] = stack[t][k]
  BY GoStack DEF Onward
<1>2. /\ Top(t) = stack[t][1] /\ 1 \in DOMAIN stack[t] /\ stack[t] \in Seq(GoodFrame) /\ Len(stack[t]) \in Nat
      /\ Len(stack[t]) > 0
  BY TopGood DEF Frames
<1>3. ASSUME NEW k \in DOMAIN stack'[t]
      PROVE  \E j \in DOMAIN stack[t] :
               \/ stack'[t][k].op = stack[t][j].op
               \/ /\ stack[t][j].op \in {"sn_debug_crash", "doexit"}
                  /\ stack'[t][k].op \in {"doexit", "linked_list_destroy"}
  <2>1. CASE g.pc = "return"
    BY <1>1, <2>1
  <2>2. CASE g.pc # "return"
    <3>1. CASE k = 1
      BY <1>1, <1>2, <2>2, <3>1 DEF SameCall
    <3>2. CASE k # 1
      BY <1>1, <2>2, <3>2
    <3> QED
      BY <3>1, <3>2
  <2> QED
    BY <2>1, <2>2
<1>4. Apart'
  <2> SUFFICES ASSUME NEW v \in Threads, NEW u \in Threads, v # u,
                      NEW k \in DOMAIN stack'[v], stack'[v][k].op \in Solitary
               PROVE  stack'[u] = << >>
    BY DEF Apart
  <2>1. CASE v = t
    <3>1. \E j \in DOMAIN stack[t] : stack[t][j].op \in Solitary
      BY <1>3, <2>1 DEF Solitary
    <3> QED
      BY <1>1, <2>1, <3>1 DEF Apart, Calls
  <2>2. CASE v # t
    <3>1. \E j \in DOMAIN stack[v] : stack[v][j].op \in Solitary
      BY <1>1, <2>2
    <3>2. stack[t] = << >>
      BY <2>2, <3>1 DEF Apart, Calls
    <3> QED
      BY <3>2
  <2> QED
    BY <2>1, <2>2
<1>5. Nested'
  <2> SUFFICES ASSUME NEW u \in Threads
               PROVE  /\ Len(stack'[u]) <= 2
                      /\ Len(stack'[u]) = 2 =>
                           /\ stack'[u][2].pc = "callback"
                           /\ stack'[u][1].op \in Searches \cup {"linked_list_push", "doexit", "linked_list_destroy"}
    BY DEF Nested
  <2>1. CASE u # t
    BY <1>1, <2>1 DEF Nested, Calls
  <2>2. CASE u = t /\ g.pc = "return"
    <3>1. Len(stack[t]) <= 2 /\ Len(stack'[t]) = Len(stack[t]) - 1
      BY <1>1, <2>2 DEF Nested, Calls
    <3>2. Len(stack[t]) - 1 <= 2 /\ Len(stack[t]) - 1 # 2
      BY <1>2, <3>1, UpToTwo
    <3> QED
      BY <2>2, <3>1, <3>2
  <2>3. CASE u = t /\ g.pc # "return"
    <3>1. Len(stack'[t]) = Len(stack[t]) /\ stack'[t][1] = g
      BY <1>1, <2>3
    <3>2. Len(stack[t]) = 2 => 2 \in DOMAIN stack[t] /\ stack'[t][2] = stack[t][2]
      BY <1>1, <1>2, <2>3
    <3>3. /\ Len(stack[t]) <= 2
          /\ Len(stack[t]) = 2 => /\ stack[t][2].pc = "callback"
                                  /\ stack[t][1].op \in Searches \cup {"linked_list_push", "doexit", "linked_list_destroy"}
      BY DEF Nested, Calls
    <3>4. Top(t).op \in Searches \cup {"linked_list_push", "doexit", "linked_list_destroy"}
          => g.op \in Searches \cup {"linked_list_push", "doexit", "linked_list_destroy"}
      BY DEF SameCall, Searches, PtrSearches
    <3> QED
      BY <1>2, <2>3, <3>1, <3>2, <3>3, <3>4
  <2> QED
    BY <2>1, <2>2, <2>3
<1>6. Called'
  <2> SUFFICES ASSUME NEW u \in Threads, NEW k \in DOMAIN stack'[u]
               PROVE  stack'[u][k].op \in Ops \cup {"doexit", "linked_list_destroy"}
    BY DEF Called
  <2>1. CASE u = t
    BY <1>3, <2>1 DEF Called, Calls
  <2>2. CASE u # t
    BY <1>1, <2>2 DEF Called, Calls
  <2> QED
    BY <2>1, <2>2
<1> QED
  BY <1>4, <1>5, <1>6 DEF Calls

\* Only linked_list_destroy runs once the list is being destroyed.
LEMMA OneDestroyer ==
  ASSUME Frames, Calls, NEW t \in Threads, stack[t] # << >>, status = "running",
         Top(t).op # "linked_list_destroy"
  PROVE  Intact
<1> SUFFICES ASSUME NEW u \in Threads, NEW k \in DOMAIN stack[u], stack[u][k].op = "linked_list_destroy"
             PROVE  FALSE
  BY DEF Intact, Destroys
<1>1. CASE u # t
  BY <1>1 DEF Calls, Apart, Solitary
<1>2. CASE u = t
  <2>1. stack[t] \in Seq(GoodFrame) /\ Top(t) = stack[t][1] /\ Len(stack[t]) <= 2
    BY TopGood DEF Frames, Calls, Nested
  <2>2. k = 2 /\ Len(stack[t]) = 2
    <3>1. DOMAIN stack[t] = 1..Len(stack[t]) /\ Len(stack[t]) \in Nat
      BY <2>1
    <3>2. k # 1 /\ k \in 1..Len(stack[t])
      BY <1>2, <2>1, <3>1
    <3> QED
      BY <2>1, <3>1, <3>2, UpToTwo
  <2>3. stack[t][2].pc = "callback" /\ stack[t][2] \in GoodFrame
    BY <1>2, <2>1, <2>2 DEF Calls, Nested
  <2>4. stack[t][2].op = "linked_list_forEach"
    BY <2>3 DEF GoodFrame, FrameOK, Stage
  <2> QED
    BY <1>2, <2>2, <2>4
<1> QED
  BY <1>1, <1>2

LEMMA FramesTyped ==
  ASSUME NEW st \in [Threads -> Seq(GoodFrame)] PROVE st \in [Threads -> Seq(CallType)]
<1>1. \A c \in Seq(GoodFrame) : \A k \in 1..Len(c) : c[k] \in CallType
  BY DEF GoodFrame
<1>2. \A c \in Seq(GoodFrame) : Len(c) \in Nat /\ c = [k \in 1..Len(c) |-> c[k]]
  OBVIOUS
<1>3. \A c \in Seq(GoodFrame) : c \in Seq(CallType)
  BY <1>1, <1>2, SeqDef
<1> QED
  BY <1>3

LEMMA MutexTyped ==
  ASSUME TypeOK, NEW t \in Threads,
         plat_mutex_lock(t) \/ Section(t) \/ UNCHANGED mutex
         \/ (UNCHANGED owner /\ locker_tid' = NoTid) \/ (owner' = NoTid /\ UNCHANGED locker_tid)
  PROVE  owner' \in Threads \cup {NoTid} /\ locker_tid' \in Threads \cup {NoTid}
  BY DEF TypeOK, plat_mutex_lock, Section, mutex

\* TypeOK after a step that leaves the links alone
LEMMA QuietType ==
  ASSUME TypeOK, Frames', UNCHANGED links, data' \in [Entries -> Keys \cup {NULL}],
         block_id' \in [Entries -> Nat], lastAccess' \in Entries \cup {NULL},
         owner' \in Threads \cup {NoTid}, locker_tid' \in Threads \cup {NoTid},
         status' \in {"running", "undefined", "aborted", "exited"}
  PROVE  TypeOK'
<1>1. stack' \in [Threads -> Seq(CallType)]
  BY FramesTyped DEF Frames
<1> QED
  BY <1>1 DEF TypeOK, links

LEMMA SweepingSame ==
  ASSUME NEW f, Sweeping(f), UNCHANGED links PROVE Sweeping(f)'
<1>1. PICK n \in Nat : \E s \in [1..n -> Entries] : Swept(f, n, s)
  BY DEF Sweeping
<1>2. PICK s \in [1..n -> Entries] : Swept(f, n, s)
  BY <1>1
<1>3. UNCHANGED <<alive, len, firstEntry>>
  BY DEF links
<1>4. Linked(n, s)' /\ (Holds(n, s) => Holds(n, s)')
  BY <1>2 DEF Swept, Linked, Holds, links
<1>5. Swept(f, n, s)'
  BY <1>2, <1>3, <1>4 DEF Swept
<1> QED
  BY <1>5 DEF Sweeping

LEMMA RemovingSame ==
  ASSUME NEW f, NEW g, Removing(f, g), UNCHANGED <<links, data>> PROVE Removing(f, g)'
<1>1. UNCHANGED <<alive, next, data>>
  BY DEF links
<1>2. ASSUME NEW n \in Nat, NEW s \in [1..n -> Entries], Linked(n, s), Holds(n, s)
      PROVE  Linked(n, s)' /\ Holds(n, s)'
  BY <1>2 DEF Linked, Holds, links
<1> QED
  BY <1>1, <1>2 DEF Removing

\* A step of t that changes neither links nor data keeps the invariant if the
\* frame it leaves on top is as the invariant wants it.
LEMMA QuietSafe ==
  ASSUME SafeInv, Frames, status = "running", status' = "running", TypeOK', UNCHANGED <<links, data>>,
         NEW t \in Threads, stack[t] # << >>, NEW g, Go(t, g), Onward(t, g), SameCall(Top(t), g),
         g.pc # "return" /\ g.op = "linked_list_destroy" => Sweeping(g),
         Intact => /\ g.pc # "return" => Live(g)
                   /\ g.pc # "return" /\ Len(stack[t]) = 2 /\ g.op = Removal => Removing(g, stack[t][2])
                   /\ NoRemoval => lastAccess' \in alive \cup {NULL}
  PROVE  SafeInv'
<1>1. Calls /\ Sweeps /\ (Intact => InHand)
  BY DEF SafeInv
<1>2. Calls'
  BY <1>1, GoCalls
<1>3. Frames' /\ (Intact' => Intact)
  BY GoFrames DEF Intact
<1>4. UNCHANGED <<alive, next, data>>
  BY DEF links
<1>5. /\ \A u \in Threads \ {t} : stack'[u] = stack[u]
      /\ g.pc = "return" =>
           /\ Len(stack'[t]) = Len(stack[t]) - 1
           /\ \A k \in DOMAIN stack'[t] : k + 1 \in DOMAIN stack[t] /\ stack'[t][k] = stack[t][k + 1]
      /\ g.pc # "return" =>
           /\ Len(stack'[t]) = Len(stack[t]) /\ DOMAIN stack'[t] = DOMAIN stack[t] /\ stack'[t] # << >>
           /\ stack'[t][1] = g /\ Head(stack'[t]) = g
           /\ \A k \in DOMAIN stack[t] : k # 1 => stack'[t][k] = stack[t][k]
  BY GoStack DEF Onward
<1>6. stack[t] \in Seq(GoodFrame) /\ Len(stack[t]) \in Nat /\ Len(stack[t]) <= 2 /\ Len(stack[t]) > 0
      /\ stack'[t] \in Seq(GoodFrame)
  BY <1>1, <1>3 DEF Frames, Calls, Nested
<1>7. Sweeps'
  <2> SUFFICES ASSUME NEW u \in Threads, stack'[u] # << >>, Head(stack'[u]).op = "linked_list_destroy"
               PROVE  Sweeping(Head(stack[u]))'
    BY DEF Sweeps, Top
  <2>1. CASE u # t
    <3>1. stack'[u] = stack[u]
      BY <1>5, <2>1
    <3>2. Sweeping(Top(u))
      BY <1>1, <3>1 DEF Sweeps, Top
    <3>3. PICK f : f = Top(u)
      OBVIOUS
    <3>4. Sweeping(f)'
      BY <3>2, <3>3, SweepingSame
    <3> QED
      BY <3>1, <3>3, <3>4 DEF Top, Sweeping, Swept, Stage
  <2>2. CASE u = t /\ g.pc # "return"
    <3>1. Head(stack'[u]) = g /\ g.op = "linked_list_destroy" /\ Sweeping(g)
      BY <1>5, <2>2
    <3>2. Sweeping(g)'
      BY <3>1, SweepingSame
    <3> QED
      BY <3>1, <3>2 DEF Sweeping, Swept, Stage
  <2>3. CASE u = t /\ g.pc = "return"
    <3>1. Len(stack[t]) = 2 /\ Head(stack'[t]) = stack[t][2] /\ 2 \in DOMAIN stack[t]
      <4>2. Len(stack'[t]) = Len(stack[t]) - 1
        BY <1>5, <2>3
      <4>3. Len(stack'[t]) # 0 /\ 1 \in DOMAIN stack'[t] /\ Head(stack'[t]) = stack'[t][1]
        BY <1>6, <2>3
      <4>4. Len(stack[t]) = 2
        BY <1>6, <4>2, <4>3, UpToTwo
      <4>5. 1 + 1 \in DOMAIN stack[t] /\ stack'[t][1] = stack[t][1 + 1]
        BY <1>5, <2>3, <4>3
      <4> QED
        BY <4>3, <4>4, <4>5
    <3>2. stack[t][2].pc = "callback" /\ stack[t][2] \in GoodFrame
      BY <1>1, <1>6, <3>1 DEF Calls, Nested
    <3>3. stack[t][2].op = "linked_list_forEach"
      BY <3>2 DEF GoodFrame, FrameOK, Stage
    <3> QED
      BY <2>3, <3>1, <3>3
  <2> QED
    BY <2>1, <2>2, <2>3
<1>8. ASSUME Intact PROVE InHand'
  <2>1. InHand
    BY <1>1, <1>8
  <2>2. ASSUME NEW f, Live(f) PROVE Live(f)'
    BY <1>4, <2>2 DEF Live
  <2>3. ASSUME NEW u \in Threads, NEW k \in DOMAIN stack'[u] PROVE Live(stack[u][k])'
    <3>1. PICK f : f = stack'[u][k]
      OBVIOUS
    <3>2. Live(f)
      <4>1. CASE u # t
        BY <1>5, <2>1, <2>3, <3>1, <4>1 DEF InHand
      <4>2. CASE u = t /\ g.pc = "return"
        BY <1>5, <2>1, <2>3, <3>1, <4>2 DEF InHand
      <4>3. CASE u = t /\ g.pc # "return" /\ k = 1
        BY <1>5, <1>8, <3>1, <4>3
      <4>4. CASE u = t /\ g.pc # "return" /\ k # 1
        BY <1>5, <2>1, <2>3, <3>1, <4>4 DEF InHand
      <4> QED
        BY <4>1, <4>2, <4>3, <4>4
    <3>3. Live(f)'
      BY <2>2, <3>2
    <3> QED
      BY <3>1, <3>3 DEF Live
  <2>4. ASSUME NEW u \in Threads, Len(stack'[u]) = 2, Head(stack'[u]).op = Removal
        PROVE  Removing(Head(stack[u]), stack[u][2])'
    <3>1. PICK f, h : f = Head(stack'[u]) /\ h = stack'[u][2]
      OBVIOUS
    <3>2. Removing(f, h)
      <4>1. CASE u # t
        BY <1>5, <2>1, <2>4, <3>1, <4>1 DEF InHand, Top
      <4>2. CASE u = t
        <5>1. g.pc # "return"
          BY <1>5, <1>6, <2>4, <4>2
        <5>2. Len(stack[t]) = 2 /\ f = g /\ h = stack[t][2] /\ g.op = Removal
          BY <1>5, <1>6, <2>4, <3>1, <4>2, <5>1
        <5> QED
          BY <1>8, <5>1, <5>2
      <4> QED
        BY <4>1, <4>2
    <3>3. Removing(f, h)'
      BY <3>2, RemovingSame
    <3> QED
      BY <3>1, <3>3 DEF Removing, Stage
  <2>5. NoRemoval => lastAccess' \in alive' \cup {NULL}
    BY <1>4, <1>8
  <2> QED
    BY <2>3, <2>4, <2>5 DEF InHand, Top, NoRemoval
<1> QED
  BY <1>2, <1>3, <1>7, <1>8 DEF SafeInv

----------------------------------------------------------------------------
(* The steps that leave links and fields alone *)

\* What holds of the call of t that takes a step
LEMMA Begins ==
  ASSUME LinkInv, SafeInv, NEW t \in Threads, stack[t] # << >>, status = "running"
  PROVE  /\ LinkTyped /\ Frames /\ Whole /\ Calls /\ Sweeps /\ TypeOK
         /\ Top(t) \in GoodFrame /\ Top(t) \in CallType /\ FrameOK(Top(t))
         /\ Top(t) = stack[t][1] /\ 1 \in DOMAIN stack[t]
         /\ Top(t).op # "linked_list_destroy" => Intact /\ Listed
         /\ Intact => InHand /\ Live(Top(t))
         /\ Top(t).op = "linked_list_destroy" => Sweeping(Top(t)) /\ ~Intact
<1>1. LinkTyped /\ Frames /\ Whole /\ Calls /\ Sweeps /\ TypeOK /\ (Intact => InHand)
  BY DEF LinkInv, SafeInv
<1>2. Top(t) \in GoodFrame /\ Top(t) = stack[t][1] /\ 1 \in DOMAIN stack[t]
  BY <1>1, TopGood
<1>3. Top(t).op # "linked_list_destroy" => Intact /\ Listed
  BY <1>1, OneDestroyer DEF Whole, Intact
<1>4. Intact => Live(Top(t))
  BY <1>1, <1>2 DEF InHand
<1>5. Top(t).op = "linked_list_destroy" => Sweeping(Top(t)) /\ ~Intact
  BY <1>1, <1>2 DEF Sweeps, Intact, Destroys
<1> QED
  BY <1>1, <1>2, <1>3, <1>4, <1>5 DEF GoodFrame

\* QuietSafe, with the types
LEMMA QuietGo ==
  ASSUME LinkInv, SafeInv, status = "running", status' = "running", UNCHANGED <<links, fields>>,
         lastAccess' \in Entries \cup {NULL},
         owner' \in Threads \cup {NoTid}, locker_tid' \in Threads \cup {NoTid},
         NEW t \in Threads, stack[t] # << >>, NEW g, Go(t, g), Onward(t, g), SameCall(Top(t), g),
         g.pc # "return" /\ g.op = "linked_list_destroy" => Sweeping(g),
         Intact => /\ g.pc # "return" => Live(g)
                   /\ g.pc # "return" /\ Len(stack[t]) = 2 /\ g.op = Removal => Removing(g, stack[t][2])
                   /\ NoRemoval => lastAccess' \in alive \cup {NULL}
  PROVE  SafeInv'
<1>1. Frames /\ TypeOK
  BY DEF LinkInv, SafeInv
<1>2. Frames'
  BY <1>1, GoFrames
<1>3. UNCHANGED links /\ data' = data /\ block_id' = block_id
  BY DEF fields
<1>4. TypeOK'
  <2>1. data' \in [Entries -> Keys \cup {NULL}] /\ block_id' \in [Entries -> Nat]
    BY <1>1, <1>3 DEF TypeOK
  <2>2. status' \in {"running", "undefined", "aborted", "exited"}
    OBVIOUS
  <2> QED
    BY <1>1, <1>2, <1>3, <2>1, <2>2, QuietType
<1> QED
  BY <1>1, <1>3, <1>4, QuietSafe

\* Where a call stands, its entry and its argument are all that count.
LEMMA StandsSame ==
  ASSUME NEW f, NEW g, NEW h, Stage(g) = Stage(f), g.entry = f.entry, g.arg = f.arg
  PROVE  /\ Removing(f, h) => Removing(g, h)
         /\ Sweeping(f) => Sweeping(g)
  BY DEF Removing, Sweeping, Swept

LEMMA SafeClear ==
  ASSUME LinkInv, SafeInv, NEW t \in Threads, Clear(t)
  PROVE  SafeInv'
<1> DEFINE f == Top(t)
           g == [f EXCEPT !.pc = f.then, !.then = "return"]
<1>1. stack[t] # << >> /\ status = "running" /\ f.pc = "clear"
  BY DEF Clear, At
<1>2. /\ Go(t, g) /\ UNCHANGED <<links, fields>> /\ lastAccess' = lastAccess /\ status' = "running"
      /\ owner' = owner /\ locker_tid' = NoTid
  BY <1>1 DEF Clear
<1>3. TypeOK /\ f \in GoodFrame /\ f \in CallType /\ FrameOK(f)
  BY <1>1, Begins
<1>4. g \in CallType /\ g.op = f.op /\ g.pc = f.then /\ g.entry = f.entry /\ g.arg = f.arg /\ g.nxt = f.nxt
  BY <1>3 DEF CallType, Points
<1>5. f.then \notin {"clear", "callback", "enter"} /\ Stage(f) = f.then
  BY <1>1, <1>3 DEF FrameOK, Stage
<1>6. g.pc # "return" => FrameOK(g)
  BY <1>1, <1>3, <1>4, <1>5 DEF FrameOK, Stage
<1>7. g.pc = "return" => f.op # "linked_list_destroy"
  BY <1>3, <1>4, <1>5 DEF FrameOK
<1>8. Stage(g) = Stage(f)
  BY <1>4, <1>5 DEF Stage
<1> HIDE DEF g, f
<1>9. Onward(t, g) /\ SameCall(f, g)
  BY <1>3, <1>4, <1>6, <1>7, OnwardTo DEF SameCall, f
<1>10. g.op = "linked_list_destroy" => Sweeping(g)
  BY <1>1, <1>4, <1>8, Begins, StandsSame DEF f
<1>11. ASSUME Intact
       PROVE  /\ Live(g) /\ (Len(stack[t]) = 2 /\ g.op = Removal => Removing(g, stack[t][2]))
              /\ NoRemoval => lastAccess' \in alive \cup {NULL}
  <2>1. InHand /\ Live(f)
    BY <1>1, <1>11, Begins DEF f
  <2>2. Live(g)
    BY <1>1, <1>4, <1>5, <2>1 DEF Live
  <2>3. Len(stack[t]) = 2 /\ g.op = Removal => Removing(g, stack[t][2])
    BY <1>4, <1>8, <2>1, StandsSame DEF InHand, f
  <2> QED
    BY <1>2, <2>1, <2>2, <2>3 DEF InHand
<1>12. lastAccess' \in Entries \cup {NULL} /\ owner' \in Threads \cup {NoTid} /\ locker_tid' \in Threads \cup {NoTid}
  BY <1>2, <1>3 DEF TypeOK
<1> QED
  BY <1>1, <1>2, <1>9, <1>10, <1>11, <1>12, QuietGo DEF f

LEMMA SafeOuter ==
  ASSUME LinkInv, SafeInv, NEW t \in Threads, Outer(t)
  PROVE  SafeInv'
<1> DEFINE f == Top(t)
           g == [f EXCEPT !.pc = "first"]
<1>1. stack[t] # << >> /\ status = "running" /\ f.pc = "outer"
  BY DEF Outer, At
<1>2. /\ Go(t, g) /\ UNCHANGED <<links, fields>> /\ lastAccess' = lastAccess /\ status' = "running"
      /\ plat_mutex_lock(t)
  BY <1>1 DEF Outer
<1>3. TypeOK /\ f \in GoodFrame /\ f \in CallType /\ FrameOK(f)
  BY <1>1, Begins
<1>4. g \in CallType /\ g.op = f.op /\ g.pc = "first" /\ g.entry = f.entry /\ g.arg = f.arg
  BY <1>3 DEF CallType, Points
<1>5. FrameOK(g) /\ g.op # "linked_list_destroy" /\ Stage(f) = "outer" /\ Stage(g) = "first"
  BY <1>1, <1>3, <1>4 DEF FrameOK, Stage, Wrapped, Walking, Searches, PtrSearches
<1> HIDE DEF g, f
<1>6. Onward(t, g) /\ SameCall(f, g)
  BY <1>3, <1>4, <1>5, OnwardTo DEF SameCall, f
<1>7. ASSUME Intact
      PROVE  /\ Live(g) /\ (Len(stack[t]) = 2 /\ g.op = Removal => Removing(g, stack[t][2]))
             /\ NoRemoval => lastAccess' \in alive \cup {NULL}
  <2>1. InHand /\ Live(f)
    BY <1>1, <1>7, Begins DEF f
  <2>2. Live(g)
    BY <1>1, <1>4, <2>1 DEF Live
  <2>3. Len(stack[t]) = 2 /\ g.op = Removal => Removing(g, stack[t][2])
    BY <1>4, <1>5, <2>1 DEF InHand, f, Removing
  <2> QED
    BY <1>2, <2>1, <2>2, <2>3 DEF InHand
<1>8. lastAccess' \in Entries \cup {NULL} /\ owner' \in Threads \cup {NoTid} /\ locker_tid' \in Threads \cup {NoTid}
  BY <1>2, <1>3, MutexTyped DEF TypeOK
<1> QED
  BY <1>1, <1>2, <1>5, <1>6, <1>7, <1>8, QuietGo DEF f

\* Where a walk of f that found out leaves its call g
Ended(g, f, out) ==
  /\ g.op = f.op /\ g.entry = out /\ g.arg = f.arg /\ g.pc \notin {"callback", "enter"}
  /\ f.op = Removal /\ out = NULL => Stage(g) = "unlock"
  /\ f.op = Removal /\ out # NULL => Stage(g) = "unlink"
  /\ f.op = "linked_list_destroy" => Stage(g) = "next walk"

LEMMA FoundEnds ==
  ASSUME NEW f \in CallType, f.op \in Walking, NEW out \in Entries \cup {NULL}
  PROVE  Ended(Found(f, out), f, out) /\ Ended(Clearing(Found(f, out)), f, out)
<1>1. PICK op \in Walking : op = f.op
  OBVIOUS
<1>2. PICK p : p = After(op, out)
  OBVIOUS
<1>3. /\ p \in {"unlock", "unlink", "return", "note", "next walk"}
      /\ op = Removal => p = IF out = NULL THEN "unlock" ELSE "unlink"
      /\ op = "linked_list_destroy" => p = "next walk"
  BY <1>2 DEF After, Walking, Searches, PtrSearches, Getters, Exits, Removal
<1>4. PICK h : h = [f EXCEPT !.entry = out, !.nxt = NULL, !.i = 0, !.pc = p]
  OBVIOUS
<1>5. h = Found(f, out)
  BY <1>1, <1>2, <1>4 DEF Found
<1>6. h.op = op /\ h.entry = out /\ h.arg = f.arg /\ h.pc = p /\ h \in CallType
  BY <1>1, <1>3, <1>4 DEF CallType, Points
<1>7. /\ Clearing(h).op = op /\ Clearing(h).entry = out /\ Clearing(h).arg = f.arg
      /\ Clearing(h).pc = "clear" /\ Clearing(h).then = p
  BY <1>6 DEF Clearing, CallType
<1> QED
  BY <1>1, <1>2, <1>3, <1>5, <1>6, <1>7 DEF Stage, Ended

LEMMA SafeFirst ==
  ASSUME LinkInv, SafeInv, NEW t \in Threads, First(t)
  PROVE  SafeInv'
<1> DEFINE f == Top(t)
           h == [f EXCEPT !.entry = firstEntry, !.pc = "enter"]
           none == len = 0 \/ (f.op = "linked_list_getByIndex" /\ len < f.arg)
<1>1. stack[t] # << >> /\ status = "running" /\ f.pc = "first"
  BY DEF First, At
<1>2. /\ Go(t, IF none THEN Found(f, NULL) ELSE h) /\ UNCHANGED <<links, fields>>
      /\ lastAccess' = lastAccess /\ status' = "running" /\ UNCHANGED mutex
  BY <1>1 DEF First
<1>3. /\ TypeOK /\ LinkTyped /\ f \in GoodFrame /\ f \in CallType /\ f.op \in Walking /\ Stage(f) = "first"
      /\ f.op # "linked_list_destroy" => Intact /\ Listed
      /\ Intact => InHand
      /\ f.op = "linked_list_destroy" => Sweeping(f) /\ ~Intact
  <2>1. FrameOK(f)
    BY <1>1, Begins
  <2> QED
    BY <1>1, <2>1, Begins DEF FrameOK, Stage
<1>4. lastAccess' \in Entries \cup {NULL} /\ owner' \in Threads \cup {NoTid} /\ locker_tid' \in Threads \cup {NoTid}
  BY <1>2, <1>3 DEF TypeOK, mutex
<1>5. CASE none
  <2>1. PICK g : g = Found(f, NULL)
    OBVIOUS
  <2>2. Go(t, g) /\ Onward(t, g)
    BY <1>2, <1>3, <1>5, <2>1, FoundGood DEF Onward
  <2>3. /\ g.op = f.op /\ g.entry = NULL /\ g.pc \notin {"callback", "enter"}
        /\ f.op = Removal => Stage(g) = "unlock"
        /\ f.op = "linked_list_destroy" => Stage(g) = "next walk"
    <3>1. Ended(g, f, NULL)
      BY <1>3, <2>1, FoundEnds
    <3> QED
      BY <3>1 DEF Ended
  <2>4. g.op = "linked_list_destroy" => Sweeping(g)
    <3> SUFFICES ASSUME f.op = "linked_list_destroy" PROVE Sweeping(g)
      BY <2>3
    <3>1. PICK n \in Nat : \E s \in [1..n -> Entries] : Swept(f, n, s)
      BY <1>3 DEF Sweeping
    <3>2. PICK s \in [1..n -> Entries] : Swept(f, n, s)
      BY <3>1
    <3>3. n = 0 /\ Holds(n, s)
      BY <1>3, <1>5, <3>2 DEF Swept
    <3>4. alive = {}
      BY <3>3 DEF Holds
    <3> QED
      BY <2>3, <3>2, <3>4 DEF Sweeping, Swept
  <2>5. ASSUME Intact
        PROVE  /\ Live(g) /\ (Len(stack[t]) = 2 /\ g.op = Removal => Removing(g, stack[t][2]))
               /\ NoRemoval => lastAccess' \in alive \cup {NULL}
    BY <1>2, <1>3, <2>3, <2>5 DEF InHand, Live, Removing
  <2> QED
    BY <1>1, <1>2, <1>4, <2>2, <2>3, <2>4, <2>5, QuietGo DEF SameCall
<1>6. CASE ~none
  <2>1. h \in CallType /\ h.op = f.op /\ h.pc = "enter" /\ h.entry = firstEntry /\ h.arg = f.arg
    BY <1>3 DEF CallType, Points, LinkTyped
  <2>2. FrameOK(h) /\ Stage(h) = "enter"
    BY <1>3, <2>1 DEF FrameOK, Stage
  <2>3. Go(t, h)
    BY <1>2, <1>6
  <2> HIDE DEF h, f
  <2>4. Onward(t, h)
    BY <1>3, <2>1, <2>2, OnwardTo DEF f
  <2>5. h.op = "linked_list_destroy" => Sweeping(h)
    BY <1>3, <2>1, <2>2 DEF Sweeping, Swept
  <2>6. ASSUME Intact
        PROVE  /\ Live(h) /\ (Len(stack[t]) = 2 /\ h.op = Removal => Removing(h, stack[t][2]))
               /\ NoRemoval => lastAccess' \in alive \cup {NULL}
    <3>1. Listed /\ InHand
      BY <1>3, <2>6 DEF f
    <3>2. firstEntry \in alive \cup {HEAD} /\ firstEntry # NULL
      BY <1>3, <3>1, ListedFacts, ListAssumption DEF LinkTyped
    <3>3. Live(h)
      BY <2>1, <3>2 DEF Live
    <3>4. ASSUME Len(stack[t]) = 2, f.op = Removal PROVE Removing(h, stack[t][2])
      <4>1. PICK o : o = stack[t][2]
        OBVIOUS
      <4>2. Removing(f, o)
        BY <3>1, <3>4, <4>1 DEF InHand, f
      <4>3. o.entry \in alive /\ data[o.entry] = f.arg /\ o.nxt \in {NULL, next[o.entry]} /\ o.arg # NULL
        BY <1>3, <4>2 DEF Removing
      <4>4. PICK n \in Nat : \E s \in [1..n -> Entries] : Linked(n, s) /\ Holds(n, s)
        BY <3>1 DEF Listed
      <4>5. PICK s \in [1..n -> Entries] : Linked(n, s) /\ Holds(n, s)
        BY <4>4
      <4>6. PICK p \in 1..n : s[p] = o.entry
        BY <4>3, <4>5 DEF Holds
      <4>7. 1 \in 1..p /\ s[1] = h.entry
        BY <2>1, <4>5 DEF Linked
      <4>8. Removing(h, o)
        BY <2>1, <2>2, <4>3, <4>5, <4>6, <4>7 DEF Removing
      <4> QED
        BY <4>1, <4>8
    <3> QED
      BY <1>2, <2>1, <3>1, <3>3, <3>4 DEF InHand
  <2> QED
    BY <1>1, <1>2, <1>4, <2>1, <2>3, <2>4, <2>5, <2>6, QuietGo DEF SameCall, f
<1> QED
  BY <1>5, <1>6

LEMMA SafeEnter ==
  ASSUME LinkInv, SafeInv, NEW t \in Threads, Enter(t)
  PROVE  SafeInv'
<1> DEFINE f == Top(t)
           h == [f EXCEPT !.pc = "visit"]
<1>1. stack[t] # << >> /\ status = "running" /\ f.pc = "enter"
  BY DEF Enter, At
<1>2. /\ Go(t, IF f.entry = HEAD THEN Found(f, NULL) ELSE h) /\ UNCHANGED <<links, fields>>
      /\ lastAccess' = lastAccess /\ Touches({f.entry}) /\ plat_mutex_lock(t)
  BY <1>1 DEF Enter
<1>3. /\ TypeOK /\ LinkTyped /\ f \in GoodFrame /\ f \in CallType /\ f.op \in Walking /\ Stage(f) = "enter"
      /\ f.op # "linked_list_destroy" => Intact /\ Listed
      /\ Intact => InHand /\ Live(f)
      /\ f.op = "linked_list_destroy" => Sweeping(f) /\ ~Intact
  <2>1. FrameOK(f)
    BY <1>1, Begins
  <2> QED
    BY <1>1, <2>1, Begins DEF FrameOK, Stage
<1>4. lastAccess' \in Entries \cup {NULL} /\ owner' \in Threads \cup {NoTid} /\ locker_tid' \in Threads \cup {NoTid}
  BY <1>2, <1>3, MutexTyped DEF TypeOK
<1>5. f.op = "linked_list_destroy" =>
        \E n \in Nat : \E s \in [1..n -> Entries] :
          Swept(f, n, s) /\ Holds(n, s) /\ Linked(n, s) /\ f.entry = firstEntry
  BY <1>3 DEF Sweeping, Swept
<1>6. f.entry \in alive \cup {HEAD}
  <2>1. CASE f.op = "linked_list_destroy"
    <3>1. PICK n \in Nat : \E s \in [1..n -> Entries] : Holds(n, s) /\ Linked(n, s) /\ f.entry = firstEntry
      BY <1>5, <2>1
    <3>2. PICK s \in [1..n -> Entries] : Holds(n, s) /\ Linked(n, s) /\ f.entry = firstEntry
      BY <3>1
    <3> QED
      BY <3>2 DEF Holds, Linked
  <2>2. CASE f.op # "linked_list_destroy"
    BY <1>1, <1>3, <2>2 DEF Live
  <2> QED
    BY <2>1, <2>2
<1>7. status' = "running"
  BY <1>1, <1>2, <1>6 DEF Touches
<1>8. CASE f.entry = HEAD
  <2>1. PICK g : g = Found(f, NULL)
    OBVIOUS
  <2>2. Go(t, g) /\ Onward(t, g)
    BY <1>2, <1>3, <1>8, <2>1, FoundGood DEF Onward
  <2>3. Ended(g, f, NULL)
    BY <1>3, <2>1, FoundEnds
  <2>4. g.op = "linked_list_destroy" => Sweeping(g)
    <3> SUFFICES ASSUME f.op = "linked_list_destroy" PROVE Sweeping(g)
      BY <2>3 DEF Ended
    <3>1. PICK n \in Nat : \E s \in [1..n -> Entries] : Swept(f, n, s) /\ Holds(n, s) /\ Linked(n, s) /\ f.entry = firstEntry
      BY <1>5
    <3>2. PICK s \in [1..n -> Entries] : Swept(f, n, s) /\ Holds(n, s) /\ Linked(n, s) /\ f.entry = firstEntry
      BY <3>1
    <3>3. n = 0
      BY <1>8, <3>2, ListAssumption DEF Linked
    <3>4. alive = {}
      BY <3>2, <3>3 DEF Holds
    <3> QED
      BY <2>3, <3>2, <3>4 DEF Sweeping, Swept, Ended
  <2>5. ASSUME Intact
        PROVE  /\ Live(g) /\ (Len(stack[t]) = 2 /\ g.op = Removal => Removing(g, stack[t][2]))
               /\ NoRemoval => lastAccess' \in alive \cup {NULL}
    BY <1>2, <1>3, <2>3, <2>5 DEF InHand, Live, Removing, Ended
  <2> QED
    BY <1>1, <1>2, <1>4, <1>7, <2>2, <2>3, <2>4, <2>5, QuietGo DEF SameCall, Ended
<1>9. CASE f.entry # HEAD
  <2>1. h \in CallType /\ h.op = f.op /\ h.pc = "visit" /\ h.entry = f.entry /\ h.arg = f.arg
    BY <1>3 DEF CallType, Points
  <2>2. f.entry \in alive /\ f.entry \in Entries
    BY <1>3, <1>6, <1>9 DEF LinkTyped
  <2>3. FrameOK(h) /\ Stage(h) = "visit"
    BY <1>3, <2>1, <2>2 DEF FrameOK, Stage
  <2>4. Go(t, h)
    BY <1>2, <1>9
  <2> HIDE DEF h, f
  <2>5. Onward(t, h)
    BY <1>3, <2>1, <2>3, OnwardTo DEF f
  <2>6. h.op = "linked_list_destroy" => Sweeping(h)
    <3> SUFFICES ASSUME f.op = "linked_list_destroy" PROVE Sweeping(h)
      BY <2>1
    <3>1. PICK n \in Nat : \E s \in [1..n -> Entries] : Swept(f, n, s) /\ Holds(n, s) /\ Linked(n, s) /\ f.entry = firstEntry
      BY <1>5
    <3>2. PICK s \in [1..n -> Entries] : Swept(f, n, s) /\ Holds(n, s) /\ Linked(n, s) /\ f.entry = firstEntry
      BY <3>1
    <3>3. 1 \in 1..n /\ h.entry = s[1]
      BY <1>9, <2>1, <3>2 DEF Linked
    <3>4. alive = {s[j] : j \in 1..n}
      BY <3>2 DEF Holds
    <3>5. Swept(h, n, s)
      BY <2>3, <3>2, <3>3, <3>4 DEF Swept
    <3> QED
      BY <3>5 DEF Sweeping
  <2>7. ASSUME Intact
        PROVE  /\ Live(h) /\ (Len(stack[t]) = 2 /\ h.op = Removal => Removing(h, stack[t][2]))
               /\ NoRemoval => lastAccess' \in alive \cup {NULL}
    <3>1. Live(h)
      BY <2>1, <2>2 DEF Live
    <3>2. ASSUME Len(stack[t]) = 2, h.op = Removal PROVE Removing(h, stack[t][2])
      <4>1. PICK o : o = stack[t][2]
        OBVIOUS
      <4>2. Removing(f, o)
        BY <1>3, <2>1, <2>7, <3>2, <4>1 DEF InHand, f
      <4>3. Removing(h, o)
        BY <1>3, <2>1, <2>3, <4>2 DEF Removing
      <4> QED
        BY <4>1, <4>3
    <3> QED
      BY <1>2, <1>3, <2>7, <3>1, <3>2 DEF InHand
  <2> QED
    BY <1>1, <1>2, <1>4, <1>7, <2>1, <2>4, <2>5, <2>6, <2>7, QuietGo DEF SameCall, f
<1> QED
  BY <1>8, <1>9

LEMMA SafeVisit ==
  ASSUME LinkInv, SafeInv, NEW t \in Threads, Visit(t)
  PROVE  SafeInv'
<1> DEFINE f == Top(t)
           match == Matches(f, f.entry)
           out == IF match THEN f.entry ELSE NULL
<1>1. /\ stack[t] # << >> /\ status = "running" /\ f.pc = "visit"
      /\ f.op # "linked_list_destroy" /\ f.op # "linked_list_forEach"
  BY DEF Visit, At
<1>2. /\ Advance(t, f, match, out) /\ UNCHANGED <<links, fields>>
      /\ lastAccess' = lastAccess /\ Touches({f.entry})
  BY DEF Visit
<1>3. /\ TypeOK /\ LinkTyped /\ Frames /\ f \in GoodFrame /\ f \in CallType /\ FrameOK(f)
      /\ Intact /\ Listed /\ InHand /\ Live(f)
  BY <1>1, Begins
<1>4. Stage(f) = "visit" /\ f.op \in Walking /\ f.entry \in Entries /\ f.entry \in alive
  <2>1. f.op \in Walking /\ f.entry \in Entries /\ Stage(f) = "visit"
    BY <1>1, <1>3 DEF FrameOK, Stage
  <2> QED
    BY <1>1, <1>3, <2>1, ListAssumption DEF Live
<1>5. status' = "running"
  BY <1>1, <1>2, <1>4 DEF Touches
<1>6. out \in Entries \cup {NULL}
  BY <1>4
<1> HIDE DEF match, out
<1>7. PICK g :
        /\ Go(t, g) /\ Onward(t, g) /\ g.op = f.op /\ g.pc # "return"
        /\ \/ /\ match \/ next[f.entry] = NULL
              /\ g = Clearing(Found(f, out)) /\ Section(t)
           \/ /\ ~match /\ next[f.entry] # NULL /\ plat_mutex_lock(t)
              /\ g.pc = "visit" /\ g.entry = next[f.entry]
              /\ g.op # "linked_list_forEach" => g.arg = f.arg
  BY <1>1, <1>2, <1>3, <1>6, WalkGoes
<1>8. lastAccess' \in Entries \cup {NULL} /\ owner' \in Threads \cup {NoTid} /\ locker_tid' \in Threads \cup {NoTid}
  BY <1>2, <1>3, <1>7, MutexTyped DEF TypeOK
<1>9. Live(g) /\ (Len(stack[t]) = 2 /\ g.op = Removal => Removing(g, stack[t][2]))
  <2>1. CASE g = Clearing(Found(f, out))
    <3>1. Ended(g, f, out)
      BY <1>3, <1>4, <1>6, <2>1, FoundEnds
    <3>2. Live(g)
      BY <1>4, <3>1 DEF Live, Ended, out
    <3>3. ASSUME Len(stack[t]) = 2, f.op = Removal PROVE Removing(g, stack[t][2])
      <4>1. Removing(f, stack[t][2])
        BY <1>3, <3>3 DEF InHand
      <4>2. CASE out = NULL
        BY <3>1, <3>3, <4>1, <4>2 DEF Ended, Removing
      <4>3. CASE out # NULL
        <5>1. Stage(g) = "unlink" /\ g.entry = f.entry /\ g.arg = f.arg
          BY <3>1, <3>3, <4>3 DEF Ended, out
        <5> QED
          BY <1>4, <4>1, <5>1 DEF Removing
      <4> QED
        BY <4>2, <4>3
    <3> QED
      BY <1>7, <3>2, <3>3
  <2>2. CASE /\ ~match /\ next[f.entry] # NULL /\ g.pc = "visit" /\ g.entry = next[f.entry]
             /\ g.arg = f.arg
    <3>1. g.entry \in alive
      BY <1>3, <1>4, <2>2, ListedFacts
    <3>2. Live(g)
      BY <2>2, <3>1 DEF Live
    <3>3. ASSUME Len(stack[t]) = 2, f.op = Removal PROVE Removing(g, stack[t][2])
      <4>1. PICK o : o = stack[t][2]
        OBVIOUS
      <4>2. Removing(f, o)
        BY <1>3, <3>3, <4>1 DEF InHand
      <4>3. o.arg # NULL /\ o.entry \in alive /\ data[o.entry] = f.arg /\ o.nxt \in {NULL, next[o.entry]}
        BY <1>4, <4>2 DEF Removing
      <4>4. PICK n \in Nat : \E s \in [1..n -> Entries] :
              /\ Linked(n, s) /\ Holds(n, s)
              /\ \E p \in 1..n : \E q \in 1..p : s[p] = o.entry /\ s[q] = f.entry
        BY <1>4, <4>2 DEF Removing
      <4>5. PICK s \in [1..n -> Entries] :
              /\ Linked(n, s) /\ Holds(n, s)
              /\ \E p \in 1..n : \E q \in 1..p : s[p] = o.entry /\ s[q] = f.entry
        BY <4>4
      <4>6. PICK p \in 1..n : \E q \in 1..p : s[p] = o.entry /\ s[q] = f.entry
        BY <4>5
      <4>7. PICK q \in 1..p : s[p] = o.entry /\ s[q] = f.entry
        BY <4>6
      <4>8. data[f.entry] # f.arg
        BY <2>2, <3>3 DEF match, Matches, Removal, PtrSearches
      <4>9. q # p
        BY <4>3, <4>7, <4>8
      <4>10. q \in 0..n /\ q # n /\ q + 1 \in 1..p /\ Node(s, q) = s[q]
        BY <4>9 DEF Node
      <4>11. g.entry = s[q + 1]
        BY <2>2, <4>5, <4>7, <4>10 DEF Linked
      <4>12. Stage(g) = "visit"
        BY <2>2 DEF Stage
      <4>13. Removing(g, o)
        BY <2>2, <4>3, <4>5, <4>7, <4>10, <4>11, <4>12 DEF Removing
      <4> QED
        BY <4>1, <4>13
    <3> QED
      BY <1>7, <3>2, <3>3
  <2> QED
    BY <1>1, <1>7, <2>1, <2>2
<1>10. NoRemoval => lastAccess' \in alive \cup {NULL}
  BY <1>2, <1>3 DEF InHand
<1>11. g.op # "linked_list_destroy" /\ SameCall(f, g)
  BY <1>1, <1>7 DEF SameCall
<1> QED
  BY <1>1, <1>2, <1>5, <1>7, <1>8, <1>9, <1>10, <1>11, QuietGo

LEMMA SafeVisitCallback ==
  ASSUME LinkInv, SafeInv, NEW t \in Threads, VisitCallback(t)
  PROVE  SafeInv'
<1> DEFINE f == Top(t)
           g == [f EXCEPT !.pc = "callback", !.nxt = next[f.entry]]
<1>1. stack[t] # << >> /\ status = "running" /\ f.pc = "visit" /\ f.op = "linked_list_forEach"
  BY DEF VisitCallback, At
<1>2. /\ Go(t, g) /\ UNCHANGED <<links, fields>> /\ lastAccess' = lastAccess
      /\ Touches({f.entry}) /\ UNCHANGED mutex
  BY DEF VisitCallback
<1>3. /\ TypeOK /\ LinkTyped /\ f \in GoodFrame /\ f \in CallType /\ FrameOK(f)
      /\ Intact /\ Listed /\ InHand /\ Live(f)
  BY <1>1, Begins
<1>4. f.entry \in Entries /\ f.entry \in alive
  <2>1. f.entry \in Entries
    BY <1>1, <1>3 DEF FrameOK, Stage
  <2> QED
    BY <1>1, <1>3, <2>1, ListAssumption DEF Live
<1>5. next[f.entry] \in alive \cup {NULL} /\ next[f.entry] \in Entries \cup {NULL}
  BY <1>3, <1>4, ListedFacts DEF LinkTyped
<1>6. status' = "running"
  BY <1>1, <1>2, <1>4 DEF Touches
<1>7. g \in CallType /\ g.op = f.op /\ g.pc = "callback" /\ g.entry = f.entry /\ g.nxt = next[f.entry]
  BY <1>3, <1>5 DEF CallType, Points
<1>8. FrameOK(g)
  BY <1>1, <1>3, <1>4, <1>7 DEF FrameOK, Stage
<1>9. lastAccess' \in Entries \cup {NULL} /\ owner' \in Threads \cup {NoTid} /\ locker_tid' \in Threads \cup {NoTid}
  BY <1>2, <1>3 DEF TypeOK, mutex
<1> HIDE DEF g, f
<1>10. Onward(t, g) /\ SameCall(f, g)
  BY <1>3, <1>7, <1>8, OnwardTo DEF SameCall, f
<1>11. Live(g)
  BY <1>4, <1>5, <1>7 DEF Live
<1>12. g.op # "linked_list_destroy" /\ g.op # Removal
  BY <1>1, <1>7 DEF Removal
<1>13. NoRemoval => lastAccess' \in alive \cup {NULL}
  BY <1>2, <1>3 DEF InHand
<1> QED
  BY <1>1, <1>2, <1>6, <1>9, <1>10, <1>11, <1>12, <1>13, QuietGo DEF f

LEMMA SafeCallbackReturns ==
  ASSUME LinkInv, SafeInv, NEW t \in Threads, CallbackReturns(t)
  PROVE  SafeInv'
<1> DEFINE f == Top(t)
<1>1. stack[t] # << >> /\ status = "running" /\ f.pc = "callback"
  BY DEF CallbackReturns, At
<1>2. UNCHANGED <<links, fields>> /\ lastAccess' = lastAccess /\ status' = "running"
  BY <1>1 DEF CallbackReturns
<1>3. /\ TypeOK /\ Frames /\ FrameOK(f)
      /\ f.op # "linked_list_destroy" => Intact /\ InHand /\ Live(f)
  BY <1>1, Begins
<1>4. PICK g :
        /\ Go(t, g) /\ Onward(t, g) /\ g.op = f.op /\ g.op = "linked_list_forEach"
        /\ \/ g.pc = "clear" /\ g.entry = NULL /\ Section(t)
           \/ g.pc = "visit" /\ g.entry = f.nxt /\ f.nxt # NULL /\ plat_mutex_lock(t)
  BY <1>3, CallbackGoes
<1>5. lastAccess' \in Entries \cup {NULL} /\ owner' \in Threads \cup {NoTid} /\ locker_tid' \in Threads \cup {NoTid}
  BY <1>2, <1>3, <1>4, MutexTyped DEF TypeOK
<1>6. Live(g)
  BY <1>1, <1>3, <1>4 DEF Live
<1>7. g.op # "linked_list_destroy" /\ g.op # Removal /\ SameCall(f, g)
  BY <1>4 DEF Removal, SameCall
<1>8. NoRemoval => lastAccess' \in alive \cup {NULL}
  BY <1>2, <1>3, <1>4 DEF InHand
<1> QED
  BY <1>1, <1>2, <1>4, <1>5, <1>6, <1>7, <1>8, QuietGo

LEMMA SafeNote ==
  ASSUME LinkInv, SafeInv, NEW t \in Threads, Note(t)
  PROVE  SafeInv'
<1> DEFINE f == Top(t)
           g == [f EXCEPT !.pc = "touch"]
<1>1. stack[t] # << >> /\ status = "running" /\ f.pc = "note"
  BY DEF Note, At
<1>2. /\ Go(t, g) /\ UNCHANGED <<links, fields>> /\ lastAccess' = f.entry
      /\ status' = "running" /\ UNCHANGED mutex
  BY <1>1 DEF Note
<1>3. TypeOK /\ f \in GoodFrame /\ f \in CallType /\ FrameOK(f)
  BY <1>1, Begins
<1>4. f.op \in Getters /\ f.entry \in Entries /\ f.op # "linked_list_destroy" /\ f.op # Removal
  BY <1>1, <1>3 DEF FrameOK, Stage, Getters, Removal
<1>5. Intact /\ InHand /\ Live(f)
  BY <1>1, <1>4, Begins
<1>6. f.entry \in alive
  BY <1>1, <1>4, <1>5, ListAssumption DEF Live
<1>7. g \in CallType /\ g.op = f.op /\ g.pc = "touch" /\ g.entry = f.entry
  BY <1>3 DEF CallType, Points
<1>8. FrameOK(g)
  BY <1>1, <1>3, <1>4, <1>7 DEF FrameOK, Stage
<1>9. lastAccess' \in Entries \cup {NULL} /\ owner' \in Threads \cup {NoTid} /\ locker_tid' \in Threads \cup {NoTid}
  BY <1>2, <1>3, <1>4 DEF TypeOK, mutex
<1> HIDE DEF g, f
<1>10. Onward(t, g) /\ SameCall(f, g)
  BY <1>3, <1>7, <1>8, OnwardTo DEF SameCall, f
<1>11. Live(g)
  BY <1>6, <1>7 DEF Live
<1>12. NoRemoval => lastAccess' \in alive \cup {NULL}
  BY <1>2, <1>6
<1> QED
  BY <1>1, <1>2, <1>4, <1>7, <1>9, <1>10, <1>11, <1>12, QuietGo DEF f

\* A frame that clears locker_tid stands where it goes on.
LEMMA ClearingStands ==
  ASSUME NEW g \in CallType, g.pc # "clear"
  PROVE  /\ Clearing(g).op = g.op /\ Clearing(g).pc = "clear" /\ Clearing(g).entry = g.entry
         /\ Clearing(g).arg = g.arg /\ Stage(Clearing(g)) = g.pc
  BY DEF Clearing, CallType, Stage

LEMMA SafeTouch ==
  ASSUME LinkInv, SafeInv, NEW t \in Threads, Touch(t)
  PROVE  SafeInv'
<1> DEFINE f == Top(t)
           h == [f EXCEPT !.pc = "return"]
           g == Clearing(h)
<1>1. stack[t] # << >> /\ status = "running" /\ f.pc = "touch"
  BY DEF Touch, At
<1>2. /\ Go(t, g) /\ UNCHANGED <<links, fields>> /\ lastAccess' = lastAccess
      /\ Touches({f.entry}) /\ Section(t)
  BY DEF Touch
<1>3. TypeOK /\ f \in GoodFrame /\ f \in CallType /\ FrameOK(f)
  BY <1>1, Begins
<1>4. f.op \in Getters /\ f.entry \in Entries /\ f.op # "linked_list_destroy" /\ f.op # Removal
  BY <1>1, <1>3 DEF FrameOK, Stage, Getters, Removal
<1>5. Intact /\ InHand /\ Live(f)
  BY <1>1, <1>4, Begins
<1>6. f.entry \in alive /\ status' = "running"
  BY <1>1, <1>2, <1>4, <1>5, ListAssumption DEF Live, Touches
<1>7. h \in CallType /\ h.op = f.op /\ h.pc = "return" /\ h.entry = f.entry
  BY <1>3 DEF CallType, Points
<1>8. lastAccess' \in Entries \cup {NULL} /\ owner' \in Threads \cup {NoTid} /\ locker_tid' \in Threads \cup {NoTid}
  BY <1>2, <1>3, MutexTyped DEF TypeOK
<1> HIDE DEF h
<1>9. g \in GoodFrame /\ g.op = f.op /\ g.pc = "clear" /\ g.entry = f.entry
  BY <1>4, <1>7, ClearingGood, ClearingStands
<1> HIDE DEF g, f
<1>10. Onward(t, g) /\ SameCall(f, g)
  BY <1>4, <1>9 DEF SameCall, Onward, f
<1>11. Live(g)
  BY <1>6, <1>9 DEF Live
<1>12. NoRemoval => lastAccess' \in alive \cup {NULL}
  BY <1>2, <1>5 DEF InHand
<1> QED
  BY <1>1, <1>2, <1>4, <1>6, <1>8, <1>9, <1>10, <1>11, <1>12, QuietGo DEF f

LEMMA SafeUnlock ==
  ASSUME LinkInv, SafeInv, NEW t \in Threads, Unlock(t)
  PROVE  SafeInv'
<1> DEFINE f == Top(t)
           h == [f EXCEPT !.entry = NULL, !.pc = "return"]
           g == Clearing(h)
<1>1. stack[t] # << >> /\ status = "running" /\ f.pc = "unlock"
  BY DEF Unlock, At
<1>2. /\ Go(t, g) /\ UNCHANGED <<links, fields>> /\ status' = "running"
      /\ lastAccess' = IF f.entry # NULL THEN f.entry ELSE lastAccess
      /\ owner' = NoTid /\ UNCHANGED locker_tid
  BY <1>1 DEF Unlock
<1>3. TypeOK /\ f \in GoodFrame /\ f \in CallType /\ FrameOK(f)
  BY <1>1, Begins
<1>4. f.entry \in Entries \cup {NULL} /\ f.op # "linked_list_destroy"
  BY <1>1, <1>3 DEF FrameOK, Stage
<1>5. Intact /\ InHand /\ Live(f)
  BY <1>1, <1>4, Begins
<1>6. f.entry \in alive \cup {NULL}
  BY <1>1, <1>4, <1>5, ListAssumption DEF Live
<1>7. h \in CallType /\ h.op = f.op /\ h.pc = "return" /\ h.entry = NULL
  BY <1>3 DEF CallType, Points
<1>8. lastAccess' \in Entries \cup {NULL} /\ owner' \in Threads \cup {NoTid} /\ locker_tid' \in Threads \cup {NoTid}
  BY <1>2, <1>3, <1>4 DEF TypeOK
<1> HIDE DEF h
<1>9. g \in GoodFrame /\ g.op = f.op /\ g.pc = "clear" /\ g.entry = NULL /\ Stage(g) = "return"
  BY <1>4, <1>7, ClearingGood, ClearingStands
<1> HIDE DEF g, f
<1>10. Onward(t, g) /\ SameCall(f, g)
  BY <1>4, <1>9 DEF SameCall, Onward, f
<1>11. Live(g)
  BY <1>9 DEF Live
<1>12. NoRemoval => lastAccess' \in alive \cup {NULL}
  BY <1>2, <1>5, <1>6 DEF InHand
<1>13. Len(stack[t]) = 2 /\ g.op = Removal => Removing(g, stack[t][2])
  BY <1>5, <1>9 DEF InHand, Removing, f
<1> QED
  BY <1>1, <1>2, <1>4, <1>6, <1>8, <1>9, <1>10, <1>11, <1>12, <1>13, QuietGo DEF f

LEMMA SafeReport ==
  ASSUME LinkInv, SafeInv, NEW t \in Threads, Report(t)
  PROVE  SafeInv'
<1> DEFINE f == Top(t)
           g == [f EXCEPT !.pc = "first"]
<1>1. stack[t] # << >> /\ status = "running" /\ f.pc = "report"
  BY DEF Report, At
<1>2. /\ Go(t, g) /\ UNCHANGED <<links, fields>> /\ lastAccess' = lastAccess
      /\ Touches({lastAccess} \ {NULL}) /\ UNCHANGED mutex
  BY DEF Report
<1>3. TypeOK /\ Frames /\ Calls /\ f \in GoodFrame /\ f \in CallType /\ FrameOK(f) /\ f = stack[t][1] /\ 1 \in DOMAIN stack[t]
  BY <1>1, Begins
<1>4. f.op = "sn_debug_crash"
  BY <1>1, <1>3 DEF FrameOK, Stage
<1>5. Intact /\ InHand /\ Live(f)
  BY <1>1, <1>4, Begins
<1>6. g \in CallType /\ g.op = f.op /\ g.pc = "first" /\ g.entry = f.entry
  BY <1>3 DEF CallType, Points
<1>7. FrameOK(g)
  BY <1>4, <1>6 DEF FrameOK, Stage, Walking, Exits
<1>8. lastAccess' \in Entries \cup {NULL} /\ owner' \in Threads \cup {NoTid} /\ locker_tid' \in Threads \cup {NoTid}
  BY <1>2, <1>3 DEF TypeOK, mutex
<1> HIDE DEF g
<1>9. Onward(t, g) /\ SameCall(f, g)
  BY <1>3, <1>6, <1>7, OnwardTo DEF SameCall
<1>10. NoRemoval => lastAccess' \in alive \cup {NULL}
  BY <1>2, <1>5 DEF InHand
<1>11. CASE {lastAccess} \ {NULL} \subseteq alive \cup {HEAD}
  <2>1. status' = "running" /\ Live(g) /\ g.op # Removal /\ g.op # "linked_list_destroy"
    BY <1>1, <1>2, <1>4, <1>5, <1>6, <1>11 DEF Touches, Live, Removal
  <2> QED
    BY <1>1, <1>2, <1>8, <1>9, <1>10, <2>1, QuietGo
<1>12. CASE ~({lastAccess} \ {NULL} \subseteq alive \cup {HEAD})
  <2>1. status' = "undefined" /\ ~NoRemoval
    BY <1>2, <1>5, <1>12 DEF Touches, InHand
  <2>2. "sn_debug_crash" \in Ops
    BY <1>3, <1>4 DEF Calls, Called
  <2>7. stack'[t] # << >> /\ Head(stack'[t]) = g /\ alive' = alive
    BY <1>1, <1>2, <1>3, <1>6, <1>9, GoStack DEF links, Onward
  <2>3. Frames'
    BY <1>1, <1>2, <1>3, <1>9, GoFrames
  <2>4. UNCHANGED links /\ data' \in [Entries -> Keys \cup {NULL}] /\ block_id' \in [Entries -> Nat]
    BY <1>2, <1>3 DEF TypeOK, fields
  <2>5. TypeOK'
    BY <1>3, <1>8, <2>1, <2>3, <2>4, QuietType
  <2>6. OnlyReportDangles'
    BY <1>2, <1>4, <1>6, <1>12, <2>7 DEF OnlyReportDangles, Top
  <2> QED
    BY <2>1, <2>2, <2>5, <2>6 DEF SafeInv, NoRemoval
<1> QED
  BY <1>11, <1>12

LEMMA SafeNextWalk ==
  ASSUME LinkInv, SafeInv, NEW t \in Threads, NextWalk(t)
  PROVE  SafeInv'
<1> DEFINE f == Top(t)
<1>1. stack[t] # << >> /\ status = "running" /\ f.pc = "next walk"
  BY DEF NextWalk, Follow, At
<1>2. UNCHANGED <<links, fields>> /\ lastAccess' = lastAccess /\ UNCHANGED mutex
  BY DEF NextWalk, Follow
<1>3. /\ TypeOK /\ Frames
      /\ f.op # "linked_list_destroy" => Intact /\ Listed
      /\ Intact => InHand /\ Live(f)
      /\ f.op = "linked_list_destroy" => Sweeping(f) /\ ~Intact
  BY <1>1, Begins
<1>4. lastAccess' \in Entries \cup {NULL} /\ owner' \in Threads \cup {NoTid} /\ locker_tid' \in Threads \cup {NoTid}
  BY <1>2, <1>3 DEF TypeOK, mutex
<1>5. CASE f.op = "linked_list_destroy"
  <2>1. status' = "exited" /\ UNCHANGED stack
    BY <1>3, <1>5, FollowGoes
  <2>2. alive = {}
    BY <1>1, <1>3, <1>5 DEF Sweeping, Swept, Stage
  <2>3. Frames' /\ UNCHANGED links /\ alive' = {}
    BY <1>2, <1>3, <2>1, <2>2 DEF Frames, links
  <2>4. data' \in [Entries -> Keys \cup {NULL}] /\ block_id' \in [Entries -> Nat]
    BY <1>2, <1>3 DEF TypeOK, fields
  <2>5. TypeOK'
    BY <1>3, <1>4, <2>1, <2>3, <2>4, QuietType
  <2> QED
    BY <2>1, <2>3, <2>5 DEF SafeInv
<1>6. CASE f.op # "linked_list_destroy"
  <2>1. PICK g \in GoodFrame :
          /\ Go(t, g) /\ Onward(t, g) /\ g.pc = "first" /\ status' = status
          /\ f.op \in {"sn_debug_crash", "doexit"}
          /\ g.op = IF f.op = "sn_debug_crash" THEN "doexit" ELSE "linked_list_destroy"
          /\ g.entry = f.entry
    BY <1>3, <1>6, FollowGoes
  <2>2. SameCall(f, g) /\ g.op # Removal
    BY <2>1 DEF SameCall, Removal
  <2>3. g.op = "linked_list_destroy" => Sweeping(g)
    BY <1>3, <1>6, <2>1 DEF Listed, Sweeping, Swept, Stage
  <2>4. Live(g)
    BY <1>1, <1>3, <1>6, <2>1 DEF Live
  <2>5. NoRemoval => lastAccess' \in alive \cup {NULL}
    BY <1>2, <1>3, <1>6 DEF InHand
  <2> QED
    BY <1>1, <1>2, <1>4, <2>1, <2>2, <2>3, <2>4, <2>5, QuietGo
<1> QED
  BY <1>5, <1>6

\* linked_list_pop of an empty list
LEMMA SafePopEmpty ==
  ASSUME LinkInv, SafeInv, NEW t \in Threads, linked_list_pop(t), lastEntry = HEAD
  PROVE  SafeInv'
<1> DEFINE f == Top(t)
           p == IF f.op = "linked_list_pop" THEN "return" ELSE "unlock"
           g == [f EXCEPT !.entry = NULL, !.pc = p]
<1>1. stack[t] # << >> /\ status = "running" /\ f.pc = "linked_list_pop"
  BY DEF linked_list_pop, At
<1>2. /\ Go(t, g) /\ UNCHANGED <<links, fields>> /\ lastAccess' = lastAccess
      /\ status' = "running" /\ plat_mutex_lock(t)
  BY <1>1 DEF linked_list_pop
<1>3. TypeOK /\ f \in GoodFrame /\ f \in CallType /\ FrameOK(f)
  BY <1>1, Begins
<1>4. f.op \in {"linked_list_pop", Removal}
  BY <1>1, <1>3 DEF FrameOK, Stage, Removal
<1>5. Intact /\ InHand /\ Live(f)
  BY <1>1, <1>4, Begins DEF Removal
<1>6. g \in CallType /\ g.op = f.op /\ g.pc = p /\ g.entry = NULL
  BY <1>3 DEF CallType, Points
<1>7. p # "return" => FrameOK(g)
  BY <1>4, <1>6 DEF FrameOK, Stage, Removal
<1>8. lastAccess' \in Entries \cup {NULL} /\ owner' \in Threads \cup {NoTid} /\ locker_tid' \in Threads \cup {NoTid}
  BY <1>2, <1>3, MutexTyped DEF TypeOK
<1>9. Live(g) /\ (f.op = Removal => Stage(g) = "unlock")
  BY <1>6 DEF Live, Stage, Removal
<1> HIDE DEF g, f
<1>10. Onward(t, g) /\ SameCall(f, g)
  BY <1>3, <1>4, <1>6, <1>7, OnwardTo DEF SameCall, f, Removal
<1>11. NoRemoval => lastAccess' \in alive \cup {NULL}
  BY <1>2, <1>5 DEF InHand
<1>12. Len(stack[t]) = 2 /\ g.op = Removal => Removing(g, stack[t][2])
  BY <1>5, <1>6, <1>9 DEF InHand, Removing, f
<1>13. g.op # "linked_list_destroy"
  BY <1>4, <1>6 DEF Removal
<1> QED
  BY <1>1, <1>2, <1>8, <1>9, <1>10, <1>11, <1>12, <1>13, QuietGo DEF f

\* linked_list_removeEntry leaves the last entry to linked_list_pop.
LEMMA SafeRemoveLast ==
  ASSUME LinkInv, SafeInv, NEW t \in Threads, linked_list_removeEntry(t), lastEntry = Top(t).entry
  PROVE  SafeInv'
<1> DEFINE f == Top(t)
           h == [f EXCEPT !.entry = NULL, !.pc = "linked_list_pop"]
           g == Clearing(h)
<1>1. stack[t] # << >> /\ status = "running" /\ f.pc = "unlink"
  BY DEF linked_list_removeEntry, At
<1>2. /\ Go(t, g) /\ UNCHANGED <<links, fields>> /\ lastAccess' = lastAccess
      /\ status' = "running" /\ Section(t)
  BY <1>1 DEF linked_list_removeEntry
<1>3. TypeOK /\ f \in GoodFrame /\ f \in CallType /\ FrameOK(f)
  BY <1>1, Begins
<1>4. f.op = Removal /\ f.op # "linked_list_destroy" /\ Stage(f) = "unlink"
  BY <1>1, <1>3 DEF FrameOK, Stage, Removal
<1>5. Intact /\ InHand
  BY <1>1, <1>4, Begins
<1>6. h \in CallType /\ h.op = f.op /\ h.pc = "linked_list_pop" /\ h.entry = NULL
  BY <1>3 DEF CallType, Points
<1>7. FrameOK(h)
  BY <1>4, <1>6 DEF FrameOK, Stage, Removal
<1>8. lastAccess' \in Entries \cup {NULL} /\ owner' \in Threads \cup {NoTid} /\ locker_tid' \in Threads \cup {NoTid}
  BY <1>2, <1>3, MutexTyped DEF TypeOK
<1> HIDE DEF h
<1>9. g \in GoodFrame /\ g.op = f.op /\ g.pc = "clear" /\ g.entry = NULL /\ Stage(g) = "linked_list_pop"
  BY <1>4, <1>6, <1>7, ClearingGood, ClearingStands
<1> HIDE DEF g, f
<1>10. Onward(t, g) /\ SameCall(f, g) /\ Live(g)
  BY <1>4, <1>9 DEF SameCall, Onward, f, Live
<1>11. NoRemoval => lastAccess' \in alive \cup {NULL}
  BY <1>2, <1>5 DEF InHand
<1>12. ASSUME Len(stack[t]) = 2 PROVE Removing(g, stack[t][2])
  <2>1. PICK o : o = stack[t][2]
    OBVIOUS
  <2>2. Removing(f, o)
    BY <1>4, <1>5, <1>12, <2>1 DEF InHand, f
  <2>3. o.arg # NULL /\ o.nxt \in {NULL, next[o.entry]}
    BY <1>4, <2>2 DEF Removing
  <2>4. PICK n \in Nat : \E s \in [1..n -> Entries] :
          /\ Linked(n, s) /\ Holds(n, s)
          /\ \E p \in 1..n : \E q \in 1..p : s[p] = o.entry /\ s[q] = f.entry
    BY <1>4, <2>2 DEF Removing
  <2>5. PICK s \in [1..n -> Entries] :
          /\ Linked(n, s) /\ Holds(n, s)
          /\ \E p \in 1..n : \E q \in 1..p : s[p] = o.entry /\ s[q] = f.entry
    BY <2>4
  <2>6. PICK p \in 1..n : \E q \in 1..p : s[p] = o.entry /\ s[q] = f.entry
    BY <2>5
  <2>7. PICK q \in 1..p : s[p] = o.entry /\ s[q] = f.entry
    BY <2>6
  <2>8. q \in 1..n /\ n \in 1..n /\ s[q] = s[n]
    <3>1. q \in 1..n /\ n \in 1..n /\ n # 0
      OBVIOUS
    <3>2. lastEntry = s[n]
      BY <2>5, <3>1 DEF Linked, Node
    <3>3. lastEntry = f.entry
      BY DEF f
    <3> QED
      BY <2>7, <3>1, <3>2, <3>3
  <2>9. p = n
    BY <2>5, <2>8 DEF Linked
  <2>10. next[o.entry] = NULL
    BY <2>5, <2>7, <2>8, <2>9 DEF Linked, Node
  <2>11. Removing(g, o)
    BY <1>9, <2>3, <2>10 DEF Removing
  <2> QED
    BY <2>1, <2>11
<1> QED
  BY <1>1, <1>2, <1>4, <1>8, <1>9, <1>10, <1>11, <1>12, QuietGo DEF f

----------------------------------------------------------------------------
(* The steps that change the list *)

\* A step of a thread that is alone
LEMMA AloneSafe ==
  ASSUME SafeInv, Frames, status = "running", status' = "running", TypeOK',
         NEW t \in Threads, stack[t] # << >>, Top(t).op \in Solitary,
         NEW g \in GoodFrame, Go(t, g), Onward(t, g), SameCall(Top(t), g),
         NEW o, Len(stack[t]) = 2 => o = stack[t][2],
         g.op = "linked_list_destroy" => Sweeping(g)',
         g.op # "linked_list_destroy" =>
           /\ Live(g)'
           /\ Len(stack[t]) = 2 => Live(o)' /\ (g.op = Removal => Removing(g, o)')
           /\ NoRemoval => lastAccess' \in alive' \cup {NULL}
  PROVE  SafeInv'
<1>1. Calls
  BY DEF SafeInv
<1>2. Calls'
  BY <1>1, GoCalls
<1>3. g.pc # "return"
  BY DEF GoodFrame, FrameOK
<1>4. /\ \A u \in Threads \ {t} : stack'[u] = stack[u]
      /\ Len(stack'[t]) = Len(stack[t]) /\ DOMAIN stack'[t] = DOMAIN stack[t] /\ stack'[t] # << >>
      /\ stack'[t][1] = g /\ Head(stack'[t]) = g
      /\ \A k \in DOMAIN stack[t] : k # 1 => stack'[t][k] = stack[t][k]
  BY <1>3, GoStack
<1>5. Top(t) = stack[t][1] /\ 1 \in DOMAIN stack[t] /\ stack[t] \in Seq(GoodFrame)
  BY TopGood DEF Frames
<1>6. \A u \in Threads \ {t} : stack'[u] = << >>
  BY <1>1, <1>4, <1>5 DEF Calls, Apart
<1>7. \A k \in DOMAIN stack[t] : k # 1 => k = 2 /\ Len(stack[t]) = 2
  <2>1. Len(stack[t]) \in Nat /\ Len(stack[t]) <= 2 /\ DOMAIN stack[t] = 1..Len(stack[t])
    BY <1>1, <1>5 DEF Calls, Nested
  <2> QED
    BY <2>1, UpToTwo
<1>8. Len(stack[t]) = 2 => 2 \in DOMAIN stack[t]
  BY <1>5
<1>9. Sweeps'
  <2> SUFFICES ASSUME NEW u \in Threads, stack'[u] # << >>, Head(stack'[u]).op = "linked_list_destroy"
               PROVE  Sweeping(Head(stack[u]))'
    BY DEF Sweeps, Top
  <2>1. u = t /\ Head(stack'[u]) = g
    BY <1>4, <1>6
  <2> QED
    BY <2>1 DEF Sweeping, Swept, Stage
<1>10. ASSUME Intact' PROVE InHand'
  <2>1. g.op # "linked_list_destroy"
    BY <1>4, <1>5, <1>10 DEF Intact, Destroys
  <2>2. ASSUME NEW u \in Threads, NEW k \in DOMAIN stack'[u] PROVE Live(stack[u][k])'
    <3>1. u = t
      BY <1>6, <2>2
    <3>2. CASE k = 1
      BY <1>4, <2>1, <3>1, <3>2 DEF Live
    <3>3. CASE k # 1
      <4>1. stack'[u][k] = o /\ Len(stack[t]) = 2
        BY <1>4, <1>7, <2>2, <3>1, <3>3
      <4> QED
        BY <2>1, <4>1 DEF Live
    <3> QED
      BY <3>2, <3>3
  <2>3. ASSUME NEW u \in Threads, Len(stack'[u]) = 2, Head(stack'[u]).op = Removal
        PROVE  Removing(Head(stack[u]), stack[u][2])'
    <3>1. u = t
      BY <1>6, <2>3
    <3>2. Head(stack'[u]) = g /\ stack'[u][2] = o /\ Len(stack[t]) = 2
      BY <1>4, <1>8, <2>3, <3>1
    <3>3. Removing(g, o)'
      BY <2>1, <2>3, <3>2
    <3> QED
      BY <3>2, <3>3 DEF Removing, Stage
  <2> QED
    BY <2>1, <2>2, <2>3 DEF InHand, Top, NoRemoval
<1> QED
  BY <1>2, <1>9, <1>10 DEF SafeInv

LEMMA SafeVisitDestroy ==
  ASSUME LinkInv, SafeInv, NEW t \in Threads, VisitDestroy(t), LinkInv'
  PROVE  SafeInv'
<1> DEFINE f == Top(t)
<1>1. stack[t] # << >> /\ status = "running" /\ f.pc = "visit" /\ f.op = "linked_list_destroy"
  BY DEF VisitDestroy, At
<1>2. /\ Advance(t, f, FALSE, NULL) /\ Touches({f.entry}) /\ Destroyed(f.entry)
      /\ UNCHANGED <<next, previous, firstEntry, lastEntry, len, lastAccess>>
  BY DEF VisitDestroy
<1>3. /\ TypeOK /\ LinkTyped /\ Frames /\ Sweeping(f) /\ f \in CallType
  BY <1>1, Begins
<1>4. PICK n \in Nat : \E s \in [1..n -> Entries] : Swept(f, n, s)
  BY <1>3 DEF Sweeping
<1>5. PICK s \in [1..n -> Entries] : Swept(f, n, s)
  BY <1>4
<1>6. PICK i \in 1..n : f.entry = s[i] /\ alive = {s[j] : j \in i..n}
  BY <1>1, <1>5 DEF Swept, Stage
<1>7. f.entry \in alive /\ f.entry \in Entries
  BY <1>6
<1>8. status' = "running"
  BY <1>1, <1>2, <1>7 DEF Touches
<1>9. PICK g :
        /\ Go(t, g) /\ Onward(t, g) /\ g.op = f.op /\ g.pc # "return"
        /\ \/ /\ next[f.entry] = NULL
              /\ g = Clearing(Found(f, NULL)) /\ Section(t)
           \/ /\ next[f.entry] # NULL /\ plat_mutex_lock(t)
              /\ g.pc = "visit" /\ g.entry = next[f.entry]
  BY <1>1, <1>2, <1>3, WalkGoes
<1>10. alive' = {s[j] : j \in (i + 1)..n}
  <2>1. alive' = alive \ {s[i]}
    BY <1>2, <1>6 DEF Destroyed
  <2>2. \A j \in i..n : j \in 1..n /\ (s[j] = s[i] => j = i) /\ (j # i => j \in (i + 1)..n)
    <3>1. \A j \in i..n : j \in 1..n /\ (j # i => j \in (i + 1)..n)
      OBVIOUS
    <3>2. \A j, k \in 1..n : s[j] = s[k] => j = k
      BY <1>5 DEF Swept, Linked
    <3> QED
      BY <3>1, <3>2
  <2>3. \A j \in (i + 1)..n : j \in i..n /\ j # i
    OBVIOUS
  <2> QED
    BY <1>6, <2>1, <2>2, <2>3
<1>11. next[f.entry] = IF i = n THEN NULL ELSE s[i + 1]
  <2>1. i \in 0..n /\ Node(s, i) = f.entry
    BY <1>6 DEF Node
  <2> QED
    BY <1>5, <2>1 DEF Swept, Linked
<1>12. Linked(n, s)' /\ len' \in Nat /\ n <= len'
  BY <1>2, <1>5 DEF Linked, Swept
<1>13. Sweeping(g)'
  <2>1. CASE i = n
    <3>1. g = Clearing(Found(f, NULL)) /\ alive' = {}
      BY <1>9, <1>10, <1>11, <2>1
    <3>2. f.op \in Walking
      BY <1>1 DEF Walking, Exits
    <3>3. Ended(Clearing(Found(f, NULL)), f, NULL)
      BY <1>3, <3>2, FoundEnds
    <3>4. Stage(g) = "next walk"
      BY <1>1, <3>1, <3>3 DEF Ended
    <3>5. Swept(g, n, s)'
      BY <1>12, <3>1, <3>4 DEF Swept
    <3> QED
      BY <3>5 DEF Sweeping
  <2>2. CASE i # n
    <3>1. i + 1 \in 1..n /\ s[i + 1] # NULL
      BY <2>2, ListAssumption
    <3>2. g.pc = "visit" /\ g.entry = s[i + 1]
      BY <1>9, <1>11, <2>2, <3>1
    <3>3. Stage(g) = "visit"
      BY <3>2 DEF Stage
    <3>4. Swept(g, n, s)'
      BY <1>10, <1>12, <3>1, <3>2, <3>3 DEF Swept
    <3> QED
      BY <3>4 DEF Sweeping
  <2> QED
    BY <2>1, <2>2
<1>14. TypeOK'
  <2>1. Frames' /\ LinkTyped'
    BY <1>8 DEF LinkInv
  <2>2. stack' \in [Threads -> Seq(CallType)]
    BY <2>1, FramesTyped DEF Frames
  <2>3. owner' \in Threads \cup {NoTid} /\ locker_tid' \in Threads \cup {NoTid}
    BY <1>3, <1>9, MutexTyped
  <2>4. data' \in [Entries -> Keys \cup {NULL}] /\ block_id' \in [Entries -> Nat]
    BY <1>2, <1>3, <1>7 DEF Destroyed, TypeOK
  <2> QED
    BY <1>2, <1>3, <1>8, <2>1, <2>2, <2>3, <2>4 DEF TypeOK, LinkTyped, LinkType
<1>15. g \in GoodFrame /\ g.op = "linked_list_destroy" /\ SameCall(f, g) /\ f.op \in Solitary
  BY <1>1, <1>9 DEF Onward, SameCall, Solitary
<1>16. PICK o : Len(stack[t]) = 2 => o = stack[t][2]
  OBVIOUS
<1> QED
  BY <1>1, <1>3, <1>8, <1>9, <1>13, <1>14, <1>15, <1>16, AloneSafe

\* Of a thread that removes an entry, the program reaches a removal.
LEMMA Removes ==
  ASSUME Calls, Frames, NEW t \in Threads, stack[t] # << >>, Top(t).op \in {"linked_list_pop", Removal}
  PROVE  ~NoRemoval /\ Top(t).op \in Solitary /\ (Len(stack[t]) = 2 => Top(t).op = Removal /\ stack[t][2].pc = "callback")
<1>1. Top(t) = stack[t][1] /\ 1 \in DOMAIN stack[t]
  BY TopGood
<1>2. Top(t).op \in Ops
  BY <1>1 DEF Calls, Called, Removal
<1>3. Len(stack[t]) = 2 => Top(t).op = Removal /\ stack[t][2].pc = "callback"
  BY <1>1 DEF Calls, Nested, Searches, PtrSearches
<1> QED
  BY <1>2, <1>3 DEF NoRemoval, Solitary, Removal

LEMMA SafePopLast ==
  ASSUME LinkInv, SafeInv, NEW t \in Threads, linked_list_pop(t), lastEntry # HEAD, LinkInv'
  PROVE  SafeInv'
<1> DEFINE f == Top(t)
           p == IF f.op = "linked_list_pop" THEN "return" ELSE "unlock"
           h == [f EXCEPT !.entry = NULL, !.pc = p]
           g == Clearing(h)
<1>1. stack[t] # << >> /\ status = "running" /\ f.pc = "linked_list_pop"
  BY DEF linked_list_pop, At
<1>2. /\ Go(t, g) /\ PopLast /\ lastAccess' = lastAccess /\ Section(t)
      /\ Touches({lastEntry, previous[lastEntry]})
  BY <1>1 DEF linked_list_pop
<1>3. TypeOK /\ LinkTyped /\ Frames /\ Calls /\ f \in GoodFrame /\ f \in CallType /\ FrameOK(f)
  BY <1>1, Begins
<1>4. f.op \in {"linked_list_pop", Removal} /\ Stage(f) = "linked_list_pop"
  BY <1>1, <1>3 DEF FrameOK, Stage, Removal
<1>5. Intact /\ InHand /\ Listed
  BY <1>1, <1>4, Begins DEF Removal
<1>6. lastEntry \in alive /\ previous[lastEntry] \in alive \cup {HEAD} /\ len - 1 \in Nat
  BY <1>3, <1>5, ListedFacts
<1>7. status' = "running"
  BY <1>1, <1>2, <1>6 DEF Touches
<1>8. h \in CallType /\ h.op = f.op /\ h.pc = p /\ h.entry = NULL
  BY <1>3 DEF CallType, Points
<1>9. p # "return" => FrameOK(h)
  BY <1>4, <1>8 DEF FrameOK, Stage, Removal
<1>10. TypeOK'
  <2>1. Frames' /\ LinkTyped'
    BY <1>7 DEF LinkInv
  <2>2. stack' \in [Threads -> Seq(CallType)]
    BY <2>1, FramesTyped DEF Frames
  <2>3. owner' \in Threads \cup {NoTid} /\ locker_tid' \in Threads \cup {NoTid}
    BY <1>2, <1>3, MutexTyped
  <2>4. data' \in [Entries -> Keys \cup {NULL}] /\ block_id' \in [Entries -> Nat]
    BY <1>2, <1>3 DEF PopLast, DropLast, Destroyed, TypeOK
  <2>5. firstEntry' \in Entries \cup {HEAD} /\ len' \in Nat
    BY <1>2, <1>3, <1>6 DEF PopLast, DropLast, TypeOK
  <2> QED
    BY <1>2, <1>3, <1>7, <2>1, <2>2, <2>3, <2>4, <2>5 DEF TypeOK, LinkTyped, LinkType
<1>11. p \notin {"clear", "callback", "enter", "visit"} /\ f.op # "linked_list_destroy"
  BY <1>4 DEF Removal
<1>12. f.op = Removal => p = "unlock"
  BY DEF Removal
<1> HIDE DEF h, p
<1>13. PICK c \in GoodFrame : c = g /\ c.op = f.op /\ c.pc = "clear" /\ c.entry = NULL /\ Stage(c) = p
  BY <1>8, <1>9, <1>11, ClearingGood, ClearingStands
<1> HIDE DEF g, f
<1>14. Go(t, c) /\ Onward(t, c) /\ SameCall(f, c) /\ Live(c)'
  BY <1>2, <1>11, <1>13 DEF SameCall, Onward, f, Live
<1>15. PICK o : o = stack[t][2]
  OBVIOUS
<1>16. ~NoRemoval /\ f.op \in Solitary /\ (Len(stack[t]) = 2 => f.op = Removal /\ o.pc = "callback")
  BY <1>1, <1>3, <1>4, <1>15, Removes DEF f
<1>17. ASSUME Len(stack[t]) = 2 PROVE Live(o)' /\ Removing(c, o)'
  <2>1. Removing(f, o)
    BY <1>5, <1>15, <1>16, <1>17 DEF InHand, f
  <2>2. o.arg # NULL /\ o.nxt = NULL
    BY <1>4, <2>1 DEF Removing
  <2>3. Live(o)'
    BY <1>16, <1>17, <2>2 DEF Live
  <2>4. Removing(c, o)'
    BY <1>12, <1>13, <1>16, <1>17, <2>2 DEF Removing
  <2> QED
    BY <2>3, <2>4
<1> QED
  BY <1>1, <1>2, <1>3, <1>7, <1>10, <1>11, <1>13, <1>14, <1>15, <1>16, <1>17, AloneSafe DEF f

LEMMA SafeUnlink ==
  ASSUME LinkInv, SafeInv, NEW t \in Threads, linked_list_removeEntry(t), lastEntry # Top(t).entry, LinkInv'
  PROVE  SafeInv'
<1> DEFINE f == Top(t)
           e == f.entry
           h == [f EXCEPT !.entry = NULL, !.pc = "unlock"]
           g == Clearing(h)
<1>1. stack[t] # << >> /\ status = "running" /\ f.pc = "unlink"
  BY DEF linked_list_removeEntry, At
<1>2. /\ Go(t, g) /\ Unlink(e) /\ lastAccess' = lastAccess /\ Section(t)
      /\ Touches({e, previous[e], next[e]} \ {NULL}) /\ lastEntry # e
  BY <1>1 DEF linked_list_removeEntry
<1>3. TypeOK /\ LinkTyped /\ Frames /\ Calls /\ f \in GoodFrame /\ f \in CallType /\ FrameOK(f)
  BY <1>1, Begins
<1>4. f.op = Removal /\ f.op # "linked_list_destroy" /\ Stage(f) = "unlink" /\ e \in Entries
  BY <1>1, <1>3 DEF FrameOK, Stage, Removal
<1>5. Intact /\ InHand /\ Listed /\ Live(f)
  BY <1>1, <1>4, Begins
<1>6. e \in alive
  BY <1>1, <1>4, <1>5, ListAssumption DEF Live
<1>7. previous[e] \in alive \cup {HEAD} /\ next[e] \in alive
  BY <1>2, <1>3, <1>5, <1>6, ListedFacts
<1>8. status' = "running"
  BY <1>1, <1>2, <1>6, <1>7 DEF Touches
<1>9. h \in CallType /\ h.op = f.op /\ h.pc = "unlock" /\ h.entry = NULL
  BY <1>3 DEF CallType, Points
<1>10. FrameOK(h)
  BY <1>4, <1>9 DEF FrameOK, Stage, Removal
<1>11. TypeOK'
  <2>1. Frames' /\ LinkTyped'
    BY <1>8 DEF LinkInv
  <2>2. stack' \in [Threads -> Seq(CallType)]
    BY <2>1, FramesTyped DEF Frames
  <2>3. owner' \in Threads \cup {NoTid} /\ locker_tid' \in Threads \cup {NoTid}
    BY <1>2, <1>3, MutexTyped
  <2>4. data' \in [Entries -> Keys \cup {NULL}] /\ block_id' \in [Entries -> Nat]
    BY <1>2, <1>3 DEF Unlink, Bypass, Destroyed, TypeOK
  <2>5. firstEntry' \in Entries \cup {HEAD} /\ len' \in Nat
    BY <1>2, <1>3, <1>7 DEF Unlink, Bypass, TypeOK
  <2> QED
    BY <1>2, <1>3, <1>8, <2>1, <2>2, <2>3, <2>4, <2>5 DEF TypeOK, LinkTyped, LinkType
<1> HIDE DEF h
<1>12. PICK c \in GoodFrame : c = g /\ c.op = f.op /\ c.pc = "clear" /\ c.entry = NULL /\ Stage(c) = "unlock"
  BY <1>9, <1>10, ClearingGood, ClearingStands
<1>13. alive' = alive \ {e}
  BY <1>2 DEF Unlink, Bypass, Destroyed
<1> HIDE DEF g, f, e
<1>14. Go(t, c) /\ Onward(t, c) /\ SameCall(f, c) /\ Live(c)'
  BY <1>2, <1>4, <1>12 DEF SameCall, Onward, f, Live
<1>15. PICK o : o = stack[t][2]
  OBVIOUS
<1>16. ~NoRemoval /\ f.op \in Solitary /\ (Len(stack[t]) = 2 => o.pc = "callback")
  BY <1>1, <1>3, <1>4, <1>15, Removes DEF f
<1>17. ASSUME Len(stack[t]) = 2 PROVE Live(o)' /\ Removing(c, o)'
  <2>1. Removing(f, o)
    BY <1>4, <1>5, <1>15, <1>17 DEF InHand, f
  <2>2. o.arg # NULL /\ o.nxt \in {NULL, next[o.entry]} /\ o.entry \in alive
    BY <1>4, <2>1 DEF Removing
  <2>3. PICK n \in Nat : \E s \in [1..n -> Entries] :
          /\ Linked(n, s) /\ Holds(n, s)
          /\ \E p \in 1..n : \E q \in 1..p : s[p] = o.entry /\ s[q] = e
    BY <1>4, <2>1 DEF Removing, e
  <2>4. PICK s \in [1..n -> Entries] :
          /\ Linked(n, s) /\ Holds(n, s)
          /\ \E p \in 1..n : \E q \in 1..p : s[p] = o.entry /\ s[q] = e
    BY <2>3
  <2>5. PICK p \in 1..n : \E q \in 1..p : s[p] = o.entry /\ s[q] = e
    BY <2>4
  <2>6. PICK q \in 1..p : s[p] = o.entry /\ s[q] = e
    BY <2>5
  <2>7. o.nxt \in alive' \cup {NULL}
    <3>1. CASE p = n
      <4>1. p \in 0..n /\ Node(s, p) = s[p]
        BY DEF Node
      <4>2. next[o.entry] = NULL
        BY <2>4, <2>6, <3>1, <4>1 DEF Linked
      <4> QED
        BY <2>2, <4>2
    <3>2. CASE p # n
      <4>1. p \in 0..n /\ Node(s, p) = s[p] /\ p + 1 \in 1..n /\ q \in 1..n /\ q # p + 1
        BY <3>2 DEF Node
      <4>2. next[o.entry] = s[p + 1]
        BY <2>4, <2>6, <3>2, <4>1 DEF Linked
      <4>3. s[p + 1] # s[q]
        BY <2>4, <4>1 DEF Linked
      <4>4. s[p + 1] \in alive
        BY <2>4, <4>1 DEF Holds
      <4> QED
        BY <1>13, <2>2, <2>6, <4>2, <4>3, <4>4
    <3> QED
      BY <3>1, <3>2
  <2>8. Live(o)'
    BY <1>16, <1>17, <2>2, <2>7 DEF Live
  <2>9. Removing(c, o)'
    BY <1>12, <2>2 DEF Removing
  <2> QED
    BY <2>8, <2>9
<1> QED
  BY <1>1, <1>2, <1>3, <1>4, <1>8, <1>11, <1>12, <1>14, <1>15, <1>16, <1>17, AloneSafe DEF f

LEMMA SafeSet ==
  ASSUME LinkInv, SafeInv, NEW t \in Threads, linked_list_entry_set(t), LinkInv'
  PROVE  SafeInv'
<1> DEFINE f == Top(t)
           h == [f EXCEPT !.pc = "return"]
           g == Clearing(h)
<1>1. stack[t] # << >> /\ status = "running" /\ f.pc = "set"
  BY DEF linked_list_entry_set, At
<1>2. /\ Go(t, g) /\ UNCHANGED links /\ lastAccess' = lastAccess /\ Section(t) /\ Touches({f.entry})
      /\ IF f.op = "linked_list_entry_setData"
         THEN data' = [data EXCEPT ![f.entry] = f.arg] /\ UNCHANGED block_id
         ELSE block_id' = [block_id EXCEPT ![f.entry] = f.arg] /\ UNCHANGED data
  BY <1>1 DEF linked_list_entry_set
<1>3. TypeOK /\ Frames /\ Calls /\ f \in GoodFrame /\ f \in CallType /\ FrameOK(f)
  BY <1>1, Begins
<1>4. /\ f.op \in {"linked_list_entry_setData", "linked_list_entry_setBlockId"} /\ f.entry \in Entries
      /\ f.op # "linked_list_destroy" /\ f.op # Removal
  BY <1>1, <1>3 DEF FrameOK, Stage, Removal
<1>5. Intact /\ InHand /\ Live(f)
  BY <1>1, <1>4, Begins
<1>6. f.entry \in alive
  BY <1>1, <1>4, <1>5, ListAssumption DEF Live
<1>7. status' = "running"
  BY <1>1, <1>2, <1>6 DEF Touches
<1>8. h \in CallType /\ h.op = f.op /\ h.pc = "return" /\ h.entry = f.entry
  BY <1>3 DEF CallType, Points
<1>9. TypeOK'
  <2>1. data' \in [Entries -> Keys \cup {NULL}] /\ block_id' \in [Entries -> Nat]
    <3>1. /\ f.op = "linked_list_entry_setData" => f.arg \in Keys
          /\ f.op = "linked_list_entry_setBlockId" => f.arg \in Nat
      BY <1>1, <1>3 DEF FrameOK, Stage
    <3>2. data \in [Entries -> Keys \cup {NULL}] /\ block_id \in [Entries -> Nat]
      BY <1>3 DEF TypeOK
    <3>3. CASE f.op = "linked_list_entry_setData"
      BY <1>2, <3>1, <3>2, <3>3
    <3>4. CASE f.op = "linked_list_entry_setBlockId"
      BY <1>2, <3>1, <3>2, <3>4
    <3> QED
      BY <1>4, <3>3, <3>4
  <2>2. Frames'
    BY <1>7 DEF LinkInv
  <2>3. owner' \in Threads \cup {NoTid} /\ locker_tid' \in Threads \cup {NoTid}
    BY <1>2, <1>3, MutexTyped
  <2>4. lastAccess' \in Entries \cup {NULL}
    BY <1>2, <1>3 DEF TypeOK
  <2> QED
    BY <1>2, <1>3, <1>7, <2>1, <2>2, <2>3, <2>4, QuietType
<1>10. f.op = "linked_list_entry_setBlockId" => UNCHANGED data
  BY <1>2
<1> HIDE DEF h
<1>11. PICK c \in GoodFrame : c = g /\ c.op = f.op /\ c.pc = "clear" /\ c.entry = f.entry
  BY <1>4, <1>8, ClearingGood, ClearingStands
<1> HIDE DEF g, f
<1>12. Go(t, c) /\ Onward(t, c) /\ SameCall(f, c) /\ c.op # Removal /\ c.op # "linked_list_destroy"
  BY <1>2, <1>4, <1>11 DEF SameCall, Onward, f
<1>13. Live(c)
  BY <1>6, <1>11 DEF Live
<1>14. CASE f.op = "linked_list_entry_setBlockId"
  <2>1. UNCHANGED <<links, data>>
    BY <1>2, <1>10, <1>14
  <2>2. NoRemoval => lastAccess' \in alive \cup {NULL}
    BY <1>2, <1>5 DEF InHand
  <2> QED
    BY <1>1, <1>3, <1>7, <1>9, <1>12, <1>13, <2>1, <2>2, QuietSafe DEF f
<1>15. CASE f.op = "linked_list_entry_setData"
  <2>1. alive' = alive
    BY <1>2 DEF links
  <2>2. Live(c)'
    BY <1>6, <1>11, <2>1 DEF Live
  <2>3. f.op \in Solitary
    BY <1>15 DEF Solitary
  <2>4. Len(stack[t]) # 2
    <3>1. f = stack[t][1]
      BY <1>1, Begins DEF f
    <3> QED
      BY <1>3, <1>15, <3>1 DEF Calls, Nested, Searches, PtrSearches
  <2>5. PICK o : o = stack[t][2]
    OBVIOUS
  <2>6. NoRemoval => lastAccess' \in alive' \cup {NULL}
    BY <1>2, <1>5, <2>1 DEF InHand
  <2> QED
    BY <1>1, <1>3, <1>7, <1>9, <1>12, <2>2, <2>3, <2>4, <2>5, <2>6, AloneSafe DEF f
<1> QED
  BY <1>4, <1>14, <1>15

\* A push links the new entry behind the last one.
LEMMA PushLinks ==
  ASSUME LinkTyped, Listed, NEW e \in Entries \ alive, NEW d, Link(e, d)
  PROVE  /\ \A f : Live(f) => Live(f)'
         /\ alive \subseteq alive'
<1>1. PICK n \in Nat : \E s \in [1..n -> Entries] : Linked(n, s) /\ Holds(n, s)
  BY DEF Listed
<1>2. PICK s \in [1..n -> Entries] : Linked(n, s) /\ Holds(n, s)
  BY <1>1
<1>3. next[lastEntry] = NULL
  <2>1. n \in 0..n
    OBVIOUS
  <2> QED
    BY <1>2, <2>1 DEF Linked
<1>4. alive' = alive \cup {e} /\ next' = [next EXCEPT ![lastEntry] = e, ![e] = NULL]
  BY DEF Link, LinkLast
<1>5. ASSUME NEW x \in alive, next[x] # NULL PROVE next'[x] = next[x]
  BY <1>3, <1>4, <1>5 DEF LinkTyped, LinkType
<1>6. ASSUME NEW f, Live(f) PROVE Live(f)'
  <2>1. CASE f.pc = "callback"
    <3>1. f.nxt \in alive \cup {NULL} /\ (f.arg = NULL => f.entry \in alive /\ f.nxt \in {NULL, next[f.entry]})
      BY <1>6, <2>1 DEF Live
    <3>2. f.nxt \in alive' \cup {NULL} /\ (f.arg = NULL => f.entry \in alive' /\ f.nxt \in {NULL, next'[f.entry]})
      BY <1>4, <1>5, <3>1
    <3> QED
      BY <2>1, <3>2 DEF Live
  <2>2. CASE f.pc # "callback"
    BY <1>4, <1>6, <2>2 DEF Live
  <2> QED
    BY <2>1, <2>2
<1> QED
  BY <1>4, <1>6

LEMMA SafeAbort ==
  ASSUME LinkInv, SafeInv, status = "running", status' = "aborted",
         UNCHANGED <<links, fields, lastAccess, mutex, stack>>
  PROVE  SafeInv'
<1>1. TypeOK /\ Frames
  BY DEF LinkInv, SafeInv
<1>2. Frames' /\ UNCHANGED links
  BY <1>1 DEF Frames
<1>3. /\ data' \in [Entries -> Keys \cup {NULL}] /\ block_id' \in [Entries -> Nat]
      /\ lastAccess' \in Entries \cup {NULL}
      /\ owner' \in Threads \cup {NoTid} /\ locker_tid' \in Threads \cup {NoTid}
  BY <1>1 DEF TypeOK, fields, mutex
<1>4. TypeOK'
  BY <1>1, <1>2, <1>3, QuietType
<1> QED
  BY <1>4 DEF SafeInv

LEMMA SafePush ==
  ASSUME LinkInv, SafeInv, NEW t \in Threads, linked_list_push(t), status' = "running" => LinkInv'
  PROVE  SafeInv'
<1> DEFINE f == Top(t)
           h == [f EXCEPT !.pc = "return"]
           g == Clearing(h)
<1>1. stack[t] # << >> /\ status = "running" /\ f.pc = "linked_list_push"
  BY DEF linked_list_push, At
<1>2. TypeOK /\ LinkTyped /\ Frames /\ Calls /\ Sweeps /\ f \in GoodFrame /\ f \in CallType /\ FrameOK(f)
      /\ f = stack[t][1] /\ 1 \in DOMAIN stack[t]
  BY <1>1, Begins
<1>3. f.op = "linked_list_push" /\ f.arg \in Keys \cup {NULL}
  BY <1>1, <1>2 DEF FrameOK, Stage
<1>4. Intact /\ InHand /\ Listed
  BY <1>1, <1>3, Begins
<1>5. CASE status' = "aborted" /\ UNCHANGED <<links, fields, lastAccess, mutex, stack>>
  BY <1>1, <1>5, SafeAbort
<1>6. CASE /\ Section(t) /\ \E e \in Entries \ alive : Link(e, f.arg)
           /\ Go(t, g) /\ Touches({lastEntry, firstEntry}) /\ UNCHANGED lastAccess
  <2>1. PICK e \in Entries \ alive : Link(e, f.arg)
    BY <1>6
  <2>2. status' = "running"
    <3>1. firstEntry \in alive \cup {HEAD} /\ lastEntry \in alive \cup {HEAD}
      BY <1>2, <1>4, ListedFacts
    <3> QED
      BY <1>1, <1>6, <3>1 DEF Touches
  <2>3. LinkTyped' /\ Frames'
    BY <2>2 DEF LinkInv
  <2>4. TypeOK'
    <3>1. stack' \in [Threads -> Seq(CallType)]
      BY <2>3, FramesTyped DEF Frames
    <3>2. owner' \in Threads \cup {NoTid} /\ locker_tid' \in Threads \cup {NoTid}
      BY <1>2, <1>6, MutexTyped
    <3>3. data' \in [Entries -> Keys \cup {NULL}] /\ block_id' \in [Entries -> Nat]
      BY <1>2, <1>3, <2>1 DEF Link, LinkLast, TypeOK
    <3>4. firstEntry' \in Entries \cup {HEAD} /\ len' \in Nat /\ lastEntry' \in Entries \cup {HEAD}
      BY <1>2, <2>1 DEF Link, LinkLast, TypeOK
    <3>5. lastAccess' \in Entries \cup {NULL}
      BY <1>2, <1>6 DEF TypeOK
    <3> QED
      BY <2>2, <2>3, <3>1, <3>2, <3>3, <3>4, <3>5 DEF TypeOK, LinkTyped, LinkType
  <2>5. (\A x : Live(x) => Live(x)') /\ alive \subseteq alive'
    BY <1>2, <1>4, <2>1, PushLinks
  <2>6. h \in CallType /\ h.op = f.op /\ h.pc = "return" /\ h.entry = f.entry
    BY <1>2 DEF CallType, Points
  <2> HIDE DEF h
  <2>7. PICK c \in GoodFrame : c = g /\ c.op = f.op /\ c.pc = "clear" /\ c.entry = f.entry
    BY <1>3, <2>6, ClearingGood, ClearingStands
  <2> HIDE DEF g
  <2>8. Go(t, c) /\ Onward(t, c) /\ SameCall(f, c)
    BY <1>3, <1>6, <2>7 DEF SameCall, Onward
  <2>9. Live(c)
    <3>1. Live(f)
      BY <1>2, <1>4 DEF InHand
    <3> QED
      BY <1>1, <2>7, <3>1 DEF Live
  <2> HIDE DEF f
  <2>10. Calls'
    BY <1>1, <1>2, <2>8, GoCalls DEF f
  <2>11. /\ \A u \in Threads \ {t} : stack'[u] = stack[u]
         /\ DOMAIN stack'[t] = DOMAIN stack[t] /\ stack'[t] # << >>
         /\ stack'[t][1] = c /\ Head(stack'[t]) = c
         /\ \A k \in DOMAIN stack[t] : k # 1 => stack'[t][k] = stack[t][k]
    BY <1>1, <1>2, <2>7, <2>8, GoStack
  <2>12. \A u \in Threads \ {t} : \A k \in DOMAIN stack[u] : stack[u][k].op \notin Solitary
    BY <1>1, <1>2 DEF Calls, Apart
  <2>13. ASSUME NEW u \in Threads, stack'[u] # << >>
         PROVE  Head(stack'[u]).op \notin {"linked_list_destroy", Removal}
    <3>1. CASE u = t
      BY <1>3, <2>7, <2>11, <3>1 DEF Removal
    <3>2. CASE u # t
      <4>1. stack[u] # << >> /\ Head(stack'[u]) = Top(u)
        BY <2>11, <2>13, <3>2 DEF Top
      <4>2. Top(u) = stack[u][1] /\ 1 \in DOMAIN stack[u]
        BY <1>2, <4>1, TopGood
      <4> QED
        BY <2>12, <3>2, <4>1, <4>2 DEF Solitary, Removal
    <3> QED
      BY <3>1, <3>2
  <2>14. Sweeps'
    BY <2>13 DEF Sweeps, Top
  <2>15. ASSUME NEW u \in Threads, NEW k \in DOMAIN stack'[u] PROVE Live(stack[u][k])'
    <3>1. PICK x : x = stack'[u][k]
      OBVIOUS
    <3>2. Live(x)
      <4>1. CASE u # t
        BY <1>4, <2>11, <2>15, <3>1, <4>1 DEF InHand
      <4>2. CASE u = t /\ k = 1
        BY <2>9, <2>11, <3>1, <4>2
      <4>3. CASE u = t /\ k # 1
        BY <1>4, <2>11, <2>15, <3>1, <4>3 DEF InHand
      <4> QED
        BY <4>1, <4>2, <4>3
    <3>3. Live(x)'
      BY <2>5, <3>2
    <3> QED
      BY <3>1, <3>3 DEF Live
  <2>16. ASSUME NEW u \in Threads, Len(stack'[u]) = 2 PROVE Head(stack'[u]).op # Removal
    <3>1. stack'[u] # << >>
      <4>1. Len(<< >>) # 2
        OBVIOUS
      <4> QED
        BY <2>16, <4>1
    <3> QED
      BY <2>13, <3>1
  <2>17. NoRemoval => lastAccess' \in alive' \cup {NULL}
    BY <1>4, <1>6, <2>5 DEF InHand
  <2>18. InHand'
    BY <2>15, <2>16, <2>17 DEF InHand, Top, NoRemoval
  <2> QED
    BY <2>2, <2>4, <2>10, <2>14, <2>18 DEF SafeInv
<1> QED
  BY <1>5, <1>6 DEF linked_list_push

\* A frame put on a stack of one frame, and the change of that frame
LEMMA StackOfTwo ==
  ASSUME NEW S, NEW x \in Seq(S), Len(x) = 1, NEW f \in S
  PROVE  /\ <<f>> \o x \in Seq(S) /\ Len(<<f>> \o x) = 2 /\ (<<f>> \o x)[1] = f /\ (<<f>> \o x)[2] = x[1]
         /\ Head(<<f>> \o x) = f /\ <<f>> \o x # << >>
         /\ [x EXCEPT ![1] = f] \in Seq(S) /\ Len([x EXCEPT ![1] = f]) = 1 /\ [x EXCEPT ![1] = f][1] = f
<1>1. <<f>> \o x \in Seq(S) /\ Len(<<f>> \o x) = 2
  <2>1. <<f>> \in Seq(S) /\ Len(<<f>>) = 1
    OBVIOUS
  <2>2. <<f>> \o x \in Seq(S) /\ Len(<<f>> \o x) = Len(<<f>>) + Len(x)
    BY <2>1, ConcatProperties
  <2> QED
    BY <2>1, <2>2
<1>2. (<<f>> \o x)[1] = f /\ (<<f>> \o x)[2] = x[1]
  OBVIOUS
<1>3. Head(<<f>> \o x) = f
  OBVIOUS
<1>4. <<f>> \o x # << >>
  OBVIOUS
<1>5. [x EXCEPT ![1] = f] \in Seq(S) /\ Len([x EXCEPT ![1] = f]) = 1 /\ [x EXCEPT ![1] = f][1] = f
  OBVIOUS
<1> QED
  BY <1>1, <1>2, <1>3, <1>4, <1>5

\* The frame of a new call, and the frame of the callback it is made from
LEMMA CallStack ==
  ASSUME LinkTyped, Frames, Calls, NEW t \in Threads, NEW op \in Ops, Call(t, op)
  PROVE  \E f \in GoodFrame : \E o :
           /\ f.op = op /\ f.i = 0 /\ f.pc \notin {"callback", "enter", "visit", "clear"} /\ f.entry \in alive \cup {NULL}
           /\ Len(stack'[t]) \in {1, 2} /\ stack'[t][1] = f /\ Head(stack'[t]) = f /\ stack'[t] # << >>
           /\ Len(stack'[t]) = 1 => stack[t] = << >>
           /\ op \in Wrapped => f.pc = "outer"
           /\ op = Removal => f.pc = "outer" /\ f.arg \in Keys
           /\ Len(stack'[t]) = 2 =>
                /\ stack'[t][2] = o /\ stack[t] # << >> /\ Top(t).pc = "callback" /\ o.pc = "callback"
                /\ o.op = Top(t).op /\ o.entry = Top(t).entry /\ o.nxt = Top(t).nxt
                /\ op \in Searches \cup {"linked_list_push", "doexit"}
                /\ o.arg = IF op = Removal THEN f.arg ELSE Top(t).arg
                /\ op = Removal => f.arg = data[Top(t).entry] /\ Top(t).arg = NULL
           /\ \A u \in Threads \ {t} : stack'[u] = stack[u]
<1> DEFINE old == stack[t]
<1>1. PICK arg \in Arguments(op), e \in IF Start(op) = "set" THEN alive ELSE {NULL} :
        /\ Allowed(t, op, arg)
        /\ stack' = [stack EXCEPT ![t] = <<Frame(op, arg, e)>> \o Noted(stack[t], op, arg)]
  BY DEF Call
<1>2. e \in Entries \cup {NULL} /\ (Start(op) = "set" => e \in Entries) /\ e \in alive \cup {NULL}
  BY <1>1 DEF LinkTyped
<1>3. PICK f \in GoodFrame : f = Frame(op, arg, e)
  BY <1>2, FrameGood
<1>4. f.op = op /\ f.i = 0 /\ f.arg = arg /\ f.entry = e /\ f.pc = Start(op)
  BY <1>3 DEF Frame
<1>5. Start(op) \notin {"callback", "enter", "visit", "clear"}
      /\ (op \in Wrapped => Start(op) = "outer") /\ (op = Removal => Start(op) = "outer")
  BY DEF Start, Wrapped, Removal
<1>6. op = Removal => arg \in Keys
  BY <1>1 DEF Arguments, PtrSearches, Removal
<1>7. PICK new : new = Noted(old, op, arg)
  OBVIOUS
<1>8. old \in Seq(GoodFrame) /\ stack \in [Threads -> Seq(GoodFrame)]
  BY DEF Frames
<1>9. stack'[t] = <<f>> \o new /\ \A u \in Threads \ {t} : stack'[u] = stack[u]
  BY <1>1, <1>3, <1>7, <1>8
<1>10. CASE old = << >>
  <2>1. new = << >>
    BY <1>7, <1>10 DEF Noted
  <2>2. stack'[t] = <<f>>
    BY <1>9, <2>1
  <2>3. Len(stack'[t]) = 1 /\ stack'[t][1] = f /\ Head(stack'[t]) = f /\ stack'[t] # << >>
    BY <2>2
  <2> QED
    BY <1>10, <1>2, <1>4, <1>5, <1>6, <1>9, <2>3
<1>11. CASE old # << >>
  <2>1. Len(old) = 1 /\ Top(t).pc = "callback" /\ op \in Searches \cup {"linked_list_push", "doexit"}
        /\ (op = Removal => arg = data[Top(t).entry] /\ Top(t).arg = NULL)
    BY <1>1, <1>11 DEF Call, Allowed, InCallback, Removal
  <2>2. PICK c \in GoodFrame : c = old[1] /\ c = Top(t)
    BY <1>8, <1>11 DEF Top
  <2>3. c \in CallType
    BY <2>2 DEF GoodFrame
  <2>4. PICK o : o = IF op = Removal THEN [c EXCEPT !.arg = arg] ELSE c
    OBVIOUS
  <2>5. o.pc = c.pc /\ o.op = c.op /\ o.entry = c.entry /\ o.nxt = c.nxt
        /\ o.arg = IF op = Removal THEN arg ELSE c.arg
    BY <2>3, <2>4 DEF CallType
  <2>6. o \in CallType /\ f \in CallType
    BY <1>6, <2>3, <2>4 DEF CallType, GoodFrame
  <2>7. op = Removal => new = [old EXCEPT ![1] = o]
    BY <1>7, <1>11, <2>2, <2>4 DEF Noted, Removal
  <2>8. new \in Seq(CallType) /\ Len(new) = 1 /\ new[1] = o
    <3>1. old \in Seq(CallType) /\ Len(old) = 1
      BY <1>8, <2>1, FramesTyped
    <3>2. op # Removal => new = old /\ o = old[1]
      BY <1>7, <2>2, <2>4 DEF Noted, Removal
    <3>3. CASE op = Removal
      <4> HIDE DEF old
      <4>1. [old EXCEPT ![1] = o] \in Seq(CallType) /\ Len([old EXCEPT ![1] = o]) = 1 /\ [old EXCEPT ![1] = o][1] = o
        BY <2>6, <3>1, StackOfTwo
      <4> QED
        BY <2>7, <3>3, <4>1
    <3> QED
      BY <3>1, <3>2, <3>3
  <2>9. Len(stack'[t]) = 2 /\ stack'[t][1] = f /\ Head(stack'[t]) = f /\ stack'[t] # << >> /\ stack'[t][2] = o
    BY <1>9, <2>6, <2>8, StackOfTwo
  <2> QED
    BY <1>2, <1>4, <1>5, <1>6, <1>9, <1>11, <2>1, <2>2, <2>5, <2>9
<1> QED
  BY <1>10, <1>11

\* A call; what destroys is called only by a thread that is alone
LEMMA SafeCall ==
  ASSUME LinkInv, SafeInv, NEW t \in Threads, NEW op \in Ops, Call(t, op)
  PROVE  SafeInv'
<1>1. /\ status = "running" /\ status' = "running" /\ Alone(t, op)
      /\ UNCHANGED <<links, fields, lastAccess, mutex>>
  BY DEF Call
<1>2. TypeOK /\ LinkTyped /\ Frames /\ Calls /\ Sweeps /\ (Intact => InHand)
  BY <1>1 DEF LinkInv, SafeInv
<1>3. Frames' /\ (Intact' => Intact)
  BY <1>1, <1>2, CallFrames DEF Intact
<1>4. PICK f \in GoodFrame : \E o :
        /\ f.op = op /\ f.i = 0 /\ f.pc \notin {"callback", "enter", "visit", "clear"} /\ f.entry \in alive \cup {NULL}
        /\ Len(stack'[t]) \in {1, 2} /\ stack'[t][1] = f /\ Head(stack'[t]) = f /\ stack'[t] # << >>
        /\ op = Removal => f.pc = "outer" /\ f.arg \in Keys
        /\ Len(stack'[t]) = 2 =>
             /\ stack'[t][2] = o /\ stack[t] # << >> /\ Top(t).pc = "callback" /\ o.pc = "callback"
             /\ o.op = Top(t).op /\ o.entry = Top(t).entry /\ o.nxt = Top(t).nxt
             /\ op \in Searches \cup {"linked_list_push", "doexit"}
             /\ o.arg = IF op = Removal THEN f.arg ELSE Top(t).arg
             /\ op = Removal => f.arg = data[Top(t).entry] /\ Top(t).arg = NULL
        /\ \A u \in Threads \ {t} : stack'[u] = stack[u]
  BY <1>2, CallStack
<1>5. PICK o :
        /\ f.op = op /\ f.i = 0 /\ f.pc \notin {"callback", "enter", "visit", "clear"} /\ f.entry \in alive \cup {NULL}
        /\ Len(stack'[t]) \in {1, 2} /\ stack'[t][1] = f /\ Head(stack'[t]) = f /\ stack'[t] # << >>
        /\ op = Removal => f.pc = "outer" /\ f.arg \in Keys
        /\ Len(stack'[t]) = 2 =>
             /\ stack'[t][2] = o /\ stack[t] # << >> /\ Top(t).pc = "callback" /\ o.pc = "callback"
             /\ o.op = Top(t).op /\ o.entry = Top(t).entry /\ o.nxt = Top(t).nxt
             /\ op \in Searches \cup {"linked_list_push", "doexit"}
             /\ o.arg = IF op = Removal THEN f.arg ELSE Top(t).arg
             /\ op = Removal => f.arg = data[Top(t).entry] /\ Top(t).arg = NULL
        /\ \A u \in Threads \ {t} : stack'[u] = stack[u]
  BY <1>4
<1>6. \A k \in DOMAIN stack'[t] : k = 1 \/ (k = 2 /\ Len(stack'[t]) = 2)
  <2>1. stack'[t] \in Seq(GoodFrame)
    BY <1>3 DEF Frames
  <2>2. DOMAIN stack'[t] = 1..Len(stack'[t])
    BY <2>1
  <2>3. \A n \in {1, 2} : \A k \in 1..n : k = 1 \/ (k = 2 /\ n = 2)
    OBVIOUS
  <2> QED
    BY <1>5, <2>2, <2>3
<1>7. Len(stack'[t]) = 2 =>
        /\ Top(t) \in GoodFrame /\ Top(t) = stack[t][1] /\ 1 \in DOMAIN stack[t]
        /\ o.op = "linked_list_forEach"
  <2> SUFFICES ASSUME Len(stack'[t]) = 2
               PROVE  /\ Top(t) \in GoodFrame /\ Top(t) = stack[t][1] /\ 1 \in DOMAIN stack[t]
                      /\ o.op = "linked_list_forEach"
    OBVIOUS
  <2>1. Top(t) \in GoodFrame /\ Top(t) = stack[t][1] /\ 1 \in DOMAIN stack[t]
    BY <1>2, <1>5, TopGood
  <2>2. Top(t).op = "linked_list_forEach"
    BY <1>5, <2>1 DEF GoodFrame, FrameOK, Stage
  <2> QED
    BY <1>5, <2>1, <2>2
<1>8. Apart'
  <2> SUFFICES ASSUME NEW v \in Threads, NEW u \in Threads, v # u,
                      NEW k \in DOMAIN stack'[v], stack'[v][k].op \in Solitary
               PROVE  stack'[u] = << >>
    BY DEF Apart
  <2>1. v = t
    BY <1>1, <1>5 DEF Alone
  <2>2. k = 1
    BY <1>5, <1>6, <1>7, <2>1 DEF Solitary
  <2> QED
    BY <1>1, <1>5, <2>1, <2>2 DEF Alone
<1>9. Nested'
  <2> SUFFICES ASSUME NEW u \in Threads
               PROVE  /\ Len(stack'[u]) <= 2
                      /\ Len(stack'[u]) = 2 =>
                           /\ stack'[u][2].pc = "callback"
                           /\ stack'[u][1].op \in Searches \cup {"linked_list_push", "doexit", "linked_list_destroy"}
    BY DEF Nested
  <2>1. CASE u # t
    BY <1>2, <1>5, <2>1 DEF Nested, Calls
  <2>2. CASE u = t
    <3>1. \A n \in {1, 2} : n <= 2
      OBVIOUS
    <3> QED
      BY <1>5, <2>2, <3>1
  <2> QED
    BY <2>1, <2>2
<1>10. Called'
  <2> SUFFICES ASSUME NEW u \in Threads, NEW k \in DOMAIN stack'[u]
               PROVE  stack'[u][k].op \in Ops \cup {"doexit", "linked_list_destroy"}
    BY DEF Called
  <2>1. CASE u # t
    BY <1>2, <1>5, <2>1 DEF Called, Calls
  <2>2. CASE u = t /\ k = 1
    BY <1>5, <2>2
  <2>3. CASE u = t /\ k # 1
    BY <1>2, <1>5, <1>6, <1>7, <2>3 DEF Called, Calls
  <2> QED
    BY <2>1, <2>2, <2>3
<1>11. UNCHANGED links /\ UNCHANGED <<alive, next, data>> /\ block_id' = block_id
  BY <1>1 DEF links, fields
<1>12. Sweeps'
  <2> SUFFICES ASSUME NEW u \in Threads, stack'[u] # << >>, Head(stack'[u]).op = "linked_list_destroy"
               PROVE  Sweeping(Head(stack[u]))'
    BY DEF Sweeps, Top
  <2>1. u # t
    BY <1>5, OpsAssumption
  <2>2. stack'[u] = stack[u]
    BY <1>5, <2>1
  <2>3. PICK x : x = Top(u)
    OBVIOUS
  <2>4. Sweeping(x)
    BY <1>2, <2>2, <2>3 DEF Sweeps, Top
  <2>5. Sweeping(x)'
    BY <1>11, <2>4, SweepingSame
  <2> QED
    BY <2>2, <2>3, <2>5 DEF Top, Sweeping, Swept, Stage
<1>13. ASSUME Intact PROVE InHand'
  <2>1. InHand
    BY <1>2, <1>13
  <2>2. ASSUME NEW x, Live(x) PROVE Live(x)'
    BY <1>11, <2>2 DEF Live
  <2>3. ASSUME Len(stack'[t]) = 2
        PROVE  /\ Live(o)
               /\ op = Removal => Removing(f, o)
    <3>1. PICK c : c = Top(t)
      OBVIOUS
    <3>2. Live(c)
      BY <1>7, <2>1, <2>3, <3>1 DEF InHand
    <3>3. c.nxt \in alive \cup {NULL} /\ (c.arg = NULL => c.entry \in alive /\ c.nxt \in {NULL, next[c.entry]})
      BY <1>5, <2>3, <3>1, <3>2 DEF Live
    <3>4. CASE op # Removal
      BY <1>5, <2>3, <3>1, <3>3, <3>4 DEF Live
    <3>5. CASE op = Removal
      <4>1. o.arg # NULL /\ Stage(f) = "outer"
        BY <1>5, <2>3, <3>5, ListAssumption DEF Stage
      <4>2. Live(o)
        BY <1>5, <2>3, <3>1, <3>3, <4>1 DEF Live
      <4>3. o.entry \in alive /\ data[o.entry] = f.arg /\ o.nxt \in {NULL, next[o.entry]}
        BY <1>5, <2>3, <3>1, <3>3, <3>5
      <4>4. Removing(f, o)
        BY <4>1, <4>3 DEF Removing
      <4> QED
        BY <4>2, <4>4
    <3> QED
      BY <3>4, <3>5
  <2>4. Live(f)
    BY <1>5 DEF Live
  <2>5. ASSUME NEW u \in Threads, NEW k \in DOMAIN stack'[u] PROVE Live(stack[u][k])'
    <3>1. PICK x : x = stack'[u][k]
      OBVIOUS
    <3>2. Live(x)
      <4>1. CASE u # t
        BY <1>5, <2>1, <2>5, <3>1, <4>1 DEF InHand
      <4>2. CASE u = t /\ k = 1
        BY <1>5, <2>4, <3>1, <4>2
      <4>3. CASE u = t /\ k # 1
        BY <1>5, <1>6, <2>3, <2>5, <3>1, <4>3
      <4> QED
        BY <4>1, <4>2, <4>3
    <3>3. Live(x)'
      BY <2>2, <3>2
    <3> QED
      BY <3>1, <3>3 DEF Live
  <2>6. ASSUME NEW u \in Threads, Len(stack'[u]) = 2, Head(stack'[u]).op = Removal
        PROVE  Removing(Head(stack[u]), stack[u][2])'
    <3>1. PICK x, y : x = Head(stack'[u]) /\ y = stack'[u][2]
      OBVIOUS
    <3>2. Removing(x, y)
      <4>1. CASE u # t
        BY <1>5, <2>1, <2>6, <3>1, <4>1 DEF InHand, Top
      <4>2. CASE u = t
        BY <1>5, <2>3, <2>6, <3>1, <4>2
      <4> QED
        BY <4>1, <4>2
    <3>3. Removing(x, y)'
      BY <1>1, <1>11, <3>2, RemovingSame
    <3> QED
      BY <3>1, <3>3 DEF Removing, Stage
  <2>7. NoRemoval => lastAccess' \in alive' \cup {NULL}
    BY <1>1, <1>11, <2>1 DEF InHand
  <2> QED
    BY <2>5, <2>6, <2>7 DEF InHand, Top, NoRemoval
<1>14. TypeOK'
  <2>1. /\ data' \in [Entries -> Keys \cup {NULL}] /\ block_id' \in [Entries -> Nat]
        /\ lastAccess' \in Entries \cup {NULL}
        /\ owner' \in Threads \cup {NoTid} /\ locker_tid' \in Threads \cup {NoTid}
    BY <1>1, <1>2 DEF TypeOK, fields, mutex
  <2> QED
    BY <1>1, <1>2, <1>3, <1>11, <2>1, QuietType
<1> QED
  BY <1>1, <1>3, <1>8, <1>9, <1>10, <1>12, <1>13, <1>14 DEF SafeInv, Calls

----------------------------------------------------------------------------
(* The invariant, and what follows from it *)

LEMMA SafeInit == Init => SafeInv
<1> SUFFICES ASSUME Init PROVE SafeInv
  OBVIOUS
<1>1. TypeOK
  <2>1. stack \in [Threads -> Seq(CallType)]
    BY DEF Init
  <2> QED
    BY <2>1 DEF Init, TypeOK
<1>2. \A t \in Threads : stack[t] = << >> /\ DOMAIN stack[t] = {} /\ Len(stack[t]) = 0
  BY DEF Init
<1>3. Calls
  BY <1>2 DEF Calls, Apart, Nested, Called
<1>4. Sweeps
  BY <1>2 DEF Sweeps
<1>5. InHand
  BY <1>2 DEF InHand, Init
<1> QED
  BY <1>1, <1>3, <1>4, <1>5 DEF SafeInv, Init

LEMMA SafeNext ==
  LinkInv /\ SafeInv /\ [Next]_vars => SafeInv'
<1> SUFFICES ASSUME LinkInv, SafeInv, [Next]_vars PROVE SafeInv'
  OBVIOUS
<1>1. LinkInv'
  BY LinkInvNext
<1>2. ASSUME NEW t \in Threads, Step(t) PROVE SafeInv'
  <2>1. CASE linked_list_pop(t)
    BY <1>1, <2>1, SafePopEmpty, SafePopLast
  <2>2. CASE linked_list_removeEntry(t)
    BY <1>1, <2>2, SafeRemoveLast, SafeUnlink
  <2>3. CASE linked_list_push(t) \/ linked_list_entry_set(t) \/ VisitDestroy(t)
    BY <1>1, <2>3, SafePush, SafeSet, SafeVisitDestroy
  <2>4. CASE Clear(t) \/ Outer(t) \/ First(t) \/ Enter(t) \/ Visit(t)
    BY <2>4, SafeClear, SafeOuter, SafeFirst, SafeEnter, SafeVisit
  <2>5. CASE VisitCallback(t) \/ CallbackReturns(t) \/ Note(t) \/ Touch(t) \/ Unlock(t)
    BY <2>5, SafeVisitCallback, SafeCallbackReturns, SafeNote, SafeTouch, SafeUnlock
  <2>6. CASE Report(t) \/ NextWalk(t)
    BY <2>6, SafeReport, SafeNextWalk
  <2> QED
    BY <1>2, <2>1, <2>2, <2>3, <2>4, <2>5, <2>6 DEF Step
<1>3. ASSUME NEW t \in Threads, NEW op \in Ops, Call(t, op) PROVE SafeInv'
  BY <1>3, SafeCall
<1>4. CASE UNCHANGED vars
  <2>1. /\ UNCHANGED <<links, alive, next, data, stack, status, lastAccess>>
        /\ UNCHANGED <<previous, firstEntry, lastEntry, len, block_id, owner, locker_tid>>
    BY <1>4 DEF vars, links, fields, mutex
  <2>2. TypeOK'
    BY <2>1 DEF SafeInv, TypeOK
  <2>3. status = "running" => Calls'
    BY <2>1 DEF SafeInv, Calls, Apart, Nested, Called
  <2>4. ASSUME status = "running", NEW t \in Threads, stack[t] # << >>, Top(t).op = "linked_list_destroy"
        PROVE  Sweeping(Top(t))'
    <3>1. PICK f : f = Top(t)
      OBVIOUS
    <3>2. Sweeping(f)'
      BY <2>1, <2>4, <3>1, SweepingSame DEF SafeInv, Sweeps
    <3> QED
      BY <2>1, <3>1, <3>2 DEF Top, Sweeping, Swept, Stage
  <2>5. status = "running" => Sweeps'
    BY <2>1, <2>4 DEF Sweeps, Top
  <2>6. ASSUME status = "running", Intact PROVE InHand'
    <3>1. InHand
      BY <2>6 DEF SafeInv
    <3>2. ASSUME NEW t \in Threads, NEW k \in DOMAIN stack[t] PROVE Live(stack[t][k])'
      BY <2>1, <3>1, <3>2 DEF InHand, Live
    <3>3. ASSUME NEW t \in Threads, Len(stack[t]) = 2, Top(t).op = Removal
          PROVE  Removing(Top(t), stack[t][2])'
      <4>1. PICK f, g : f = Top(t) /\ g = stack[t][2]
        OBVIOUS
      <4>2. Removing(f, g)'
        BY <2>1, <3>1, <3>3, <4>1, RemovingSame DEF InHand
      <4> QED
        BY <2>1, <4>1, <4>2 DEF Top, Removing, Stage
    <3> QED
      BY <2>1, <3>1, <3>2, <3>3 DEF InHand, Top, NoRemoval
  <2>7. Intact' => Intact
    BY <2>1 DEF Intact, Destroys
  <2>8. OnlyReportDangles => OnlyReportDangles'
    BY <2>1 DEF OnlyReportDangles, Top
  <2> QED
    BY <2>1, <2>2, <2>3, <2>5, <2>6, <2>7, <2>8 DEF SafeInv, NoRemoval
<1>5. CASE Terminated
  BY <1>4, <1>5 DEF Terminated
<1> QED
  BY <1>2, <1>3, <1>4, <1>5 DEF Next

\* The invariant of the calls in progress holds in every reachable state.
THEOREM CallsKept ==
  Spec => []SafeInv
  BY LinksKept, SafeInit, SafeNext, PTL DEF Spec

\* The fields of linked_list_t and of its entries, the mutex and the frames of
\* the calls keep their types.
THEOREM TypeCorrect ==
  Spec => []TypeOK
<1>1. SafeInv => TypeOK
  BY DEF SafeInv
<1> QED
  BY <1>1, CallsKept, PTL

\* No function of linked_list_c.c touches an entry that linked_list_removeEntry,
\* linked_list_pop or linked_list_destroy has freed, whatever a callback of
\* linked_list_forEach removed, but __sn__pri__crash__ when it prints a
\* lastAccess that was removed and never reset.
THEOREM NothingElseDangles ==
  Spec => []OnlyReportDangles
<1>1. SafeInv => OnlyReportDangles
  BY DEF SafeInv, OnlyReportDangles
<1> QED
  BY <1>1, CallsKept, PTL

\* A program that never removes an entry, or never has the crash handler
\* report, touches no destroyed entry at all.
THEOREM NothingDangles ==
  ASSUME NoRemoval \/ "sn_debug_crash" \notin Ops
  PROVE  Spec => []NeverDangling
<1>1. SafeInv => NeverDangling
  BY DEF SafeInv, NeverDangling
<1> QED
  BY <1>1, CallsKept, PTL

\* linked_list_destroy, whose walk frees the entry it stands on, has freed every
\* entry when the process exits.
THEOREM ExitFreesAll ==
  Spec => []AllDestroyed
<1>1. SafeInv => AllDestroyed
  BY DEF SafeInv, AllDestroyed
<1> QED
  BY <1>1, CallsKept, PTL

----------------------------------------------------------------------------
(* The mutex, from one call to the next, and the searches it protects *)

LEMMA Pushed ==
  ASSUME NEW S, NEW q \in Seq(S), NEW g
  PROVE  <<g>> \o q # << >> /\ Head(<<g>> \o q) = g /\ Len(<<g>> \o q) = Len(q) + 1
<1>1. PICK T : T = S \cup {g}
  OBVIOUS
<1>2. \A k \in 1..Len(q) : q[k] \in T
  BY <1>1
<1>3. q \in Seq(T) /\ <<g>> \in Seq(T)
  BY <1>1, <1>2, SeqDef
<1> QED
  BY <1>3

\* What is on top after a step
LEMMA TopAfter ==
  ASSUME Frames, Nested, NEW t \in Threads, stack[t] # << >>, NEW g, Go(t, g)
  PROVE  /\ \A u \in Threads \ {t} : stack'[u] = stack[u]
         /\ Len(stack[t]) \in {1, 2}
         /\ g.pc # "return" =>
              stack'[t] # << >> /\ Head(stack'[t]) = g /\ Len(stack'[t]) = Len(stack[t])
         /\ g.pc = "return" =>
              \/ Len(stack[t]) = 1 /\ stack'[t] = << >>
              \/ /\ Len(stack[t]) = 2 /\ Len(stack'[t]) = 1 /\ stack'[t] # << >>
                 /\ Head(stack'[t]).pc = "callback" /\ Head(stack'[t]).op = "linked_list_forEach"
<1>1. stack \in [Threads -> Seq(GoodFrame)] /\ stack[t] \in Seq(GoodFrame) /\ Len(stack[t]) \in Nat
  BY DEF Frames
<1>2. /\ \A u \in Threads \ {t} : stack'[u] = stack[u]
      /\ stack'[t] = IF g.pc = "return" THEN Tail(stack[t]) ELSE <<g>> \o Tail(stack[t])
  BY <1>1 DEF Go
<1>3. Len(stack[t]) \in {1, 2}
  <2>1. Len(stack[t]) <= 2 /\ Len(stack[t]) # 0
    BY <1>1 DEF Nested
  <2>2. \A n \in Nat : n <= 2 /\ n # 0 => n \in {1, 2}
    OBVIOUS
  <2> QED
    BY <1>1, <2>1, <2>2
<1>4. Tail(stack[t]) \in Seq(GoodFrame) /\ Len(Tail(stack[t])) = Len(stack[t]) - 1
  BY <1>1
<1>5. CASE g.pc # "return"
  BY <1>1, <1>2, <1>3, <1>4, <1>5, Pushed
<1>6. CASE g.pc = "return" /\ Len(stack[t]) = 1
  BY <1>1, <1>2, <1>3, <1>4, <1>6
<1>7. CASE g.pc = "return" /\ Len(stack[t]) = 2
  <2>1. stack'[t] = Tail(stack[t]) /\ Len(stack'[t]) = 1 /\ stack'[t] # << >>
    <3>1. stack'[t] = Tail(stack[t])
      BY <1>2, <1>7
    <3>2. Len(Tail(stack[t])) = 1
      BY <1>4, <1>7
    <3>3. PICK q : q = Tail(stack[t])
      OBVIOUS
    <3>4. q \in Seq(GoodFrame) /\ Len(q) = 1
      BY <1>4, <3>2, <3>3
    <3>5. q # << >>
      <4>1. Len(<< >>) = 0 /\ 0 # 1
        OBVIOUS
      <4> QED
        BY <3>4, <4>1, Zenon
    <3> QED
      BY <3>1, <3>3, <3>4, <3>5
  <2>2. Head(stack'[t]) = stack[t][2] /\ stack[t][2] \in GoodFrame
    BY <1>1, <1>7, <2>1
  <2>3. stack[t][2].pc = "callback"
    BY <1>7 DEF Nested
  <2>4. stack[t][2].op = "linked_list_forEach"
    BY <2>2, <2>3 DEF GoodFrame, FrameOK, Stage
  <2> QED
    BY <1>2, <1>7, <2>1, <2>2, <2>3, <2>4
<1> QED
  BY <1>2, <1>3, <1>5, <1>6, <1>7

\* Where a call with the mutex locked stands if there are entries
Holding(f) == f.pc \in {"visit", "callback"} \/ (f.op \in Wrapped /\ f.pc \in {"first", "enter"})

\* A thread outside the library has locked the mutex only of an empty list.
Leaves(t) ==
  /\ stack[t] = << >> /\ owner = t => alive = {}
  /\ Len(stack[t]) = 1 =>
       /\ Top(t).pc = "clear" => owner # t
       /\ owner = t => alive = {} \/ Holding(Top(t))
       /\ Top(t).pc = "enter" => Top(t).entry = firstEntry

LockInv == OneThread /\ Intact => \A t \in Threads : Leaves(t)

\* The functions whose own mutex linked_list_forEach has released when they
\* unlock it
TwiceUnlocked == {"linked_list_hasPtr", Removal}

\* The i-th entry of s matches the search f.
Hit(f, s, i) == Matches([f EXCEPT !.i = i - 1], s[i])

\* The search f stands at an entry of s, and none before it matches.
Reaches(f, s) ==
  \E p \in 1..Cardinality(alive) :
    /\ f.entry = s[p] /\ (f.op = "linked_list_getByIndex" => f.i = p - 1)
    /\ \A q \in 1..(p - 1) : ~Hit(f, s, q)

AtFirst(f) == \A s \in Orders : Reaches(f, s)

\* A search that visits owns the mutex; the second unlock of a search that has
\* locked it cannot release that of another thread.
Seeks(t, f) ==
  /\ f.op \in Searches =>
       /\ f.pc # "visit" => f.i = 0
       /\ f.pc = "enter" => f.entry \in {HEAD, firstEntry}
       /\ f.pc = "visit" => owner = t /\ AtFirst(f)
  /\ f.op \in TwiceUnlocked /\ f.pc # "outer" => locker_tid \in {t, NoTid}

\* locker_tid names who owns the mutex or is about to reset it.
Marks(t) == locker_tid = t => owner = t \/ (stack[t] # << >> /\ Top(t).pc = "clear")

SeekInv ==
  status = "running" =>
    \A t \in Threads : Marks(t) /\ (stack[t] # << >> => Seeks(t, Top(t)))

TurnInv == LinkInv /\ SafeInv /\ LockInv /\ SeekInv

\* No call returns with the mutex locked.
Returns ==
  \A t \in Threads : stack[t] # << >> /\ stack'[t] = << >> /\ alive' # {} => owner' # t

\* What a step of t that goes on as g does with the mutex
Turn(t, g) ==
  \/ Top(t).pc \notin {"clear", "outer"} /\ UNCHANGED <<mutex, links, fields>> /\ g.pc # "clear"
  \/ Top(t).pc # "clear" /\ plat_mutex_lock(t) /\ firstEntry' = firstEntry /\ g.pc # "clear"
  \/ /\ Top(t).pc # "clear" /\ Section(t) /\ g.pc = "clear"
     /\ firstEntry' = firstEntry \/ firstEntry = HEAD \/ Top(t).op \in Solitary
  \/ /\ Top(t).pc = "clear" /\ owner' = owner /\ locker_tid' = NoTid
     /\ UNCHANGED <<links, fields>> /\ g.pc # "clear"
  \/ /\ Top(t).pc = "unlock" /\ owner' = NoTid /\ locker_tid' = locker_tid
     /\ UNCHANGED <<links, fields>> /\ g.pc = "clear"

LEMMA AtFirstSame ==
  ASSUME NEW f, AtFirst(f), UNCHANGED <<links, fields>> PROVE AtFirst(f)'
<1>1. alive' = alive /\ data' = data /\ block_id' = block_id /\ Orders' = Orders
  BY DEF links, fields, Orders, Chain
<1> QED
  BY <1>1 DEF AtFirst, Reaches, Hit, Matches

\* What another thread's step leaves of the call of u
LEMMA TurnOthers ==
  ASSUME LinkInv, SafeInv, SeekInv, status = "running",
         NEW t \in Threads, stack[t] # << >>, NEW g, Turn(t, g), stack'[t] # << >> \/ g.pc # "clear",
         NEW u \in Threads, u # t, stack'[u] = stack[u]
  PROVE  (Marks(u) /\ (stack[u] # << >> => Seeks(u, Top(u))))'
<1>1. /\ Frames /\ Calls /\ Marks(t) /\ Marks(u)
      /\ Seeks(t, Top(t)) /\ (stack[u] # << >> => Seeks(u, Top(u)))
  BY DEF LinkInv, SafeInv, SeekInv
<1>2. Top(t) \in GoodFrame /\ 1 \in DOMAIN stack[t] /\ Top(t) = stack[t][1]
  BY <1>1, TopGood
<1>3. Top(t).op \in Solitary => stack[u] = << >>
  BY <1>1, <1>2 DEF Calls, Apart
<1>4. stack[u] # << >> => Top(u) \in GoodFrame /\ 1 \in DOMAIN stack[u] /\ Top(u) = stack[u][1]
  BY <1>1, TopGood
<1>5. stack[u] # << >> => Top(u).op \notin TwiceUnlocked
  BY <1>1, <1>4 DEF Calls, Apart, Solitary, TwiceUnlocked, Removal
<1>6. t # NoTid /\ u # NoTid
  BY ListAssumption
<1>7. owner = u /\ Top(t).pc # "clear" => ~CanLock(t)
  BY <1>1, <1>6 DEF Marks, CanLock
<1>8. Top(t).pc = "unlock" => Top(t).op \in TwiceUnlocked
  BY <1>2 DEF GoodFrame, FrameOK, Stage, TwiceUnlocked, Removal
<1>9. Top(t).pc = "unlock" => stack[u] = << >> /\ locker_tid # u
  BY <1>1, <1>3, <1>6, <1>8 DEF Seeks, Solitary, TwiceUnlocked, Removal
<1>10. Marks(u)'
  <2> SUFFICES ASSUME locker_tid' = u, ~(stack[u] # << >> /\ Top(u).pc = "clear") PROVE owner' = u
    BY DEF Marks, Top
  <2>1. locker_tid = u /\ owner = u /\ Top(t).pc # "unlock" /\ UNCHANGED mutex
    BY <1>1, <1>6, <1>7, <1>9 DEF Turn, Marks, plat_mutex_lock, Section, mutex
  <2> QED
    BY <2>1 DEF mutex
<1>11. ASSUME stack[u] # << >> PROVE Seeks(u, Top(u))'
  <2>1. PICK f : f = Top(u)
    OBVIOUS
  <2>2. Seeks(u, f) /\ f.op \notin TwiceUnlocked
    BY <1>1, <1>5, <1>11, <2>1
  <2>3. firstEntry' = firstEntry \/ firstEntry = HEAD
    BY <1>3, <1>11 DEF Turn, links
  <2>4. ASSUME owner = u, AtFirst(f) PROVE owner' = u /\ AtFirst(f)'
    <3>1. UNCHANGED <<links, fields>> /\ owner' = owner
      BY <1>7, <1>9, <1>11, <2>4 DEF Turn, plat_mutex_lock, Section, mutex
    <3> QED
      BY <2>4, <3>1, AtFirstSame
  <2>5. Seeks(u, f)'
    BY <2>2, <2>3, <2>4 DEF Seeks
  <2> QED
    BY <2>1, <2>5 DEF Top, Seeks
<1> QED
  BY <1>10, <1>11 DEF Top

\* A step of t, as far as the searches are concerned
LEMMA SeekGo ==
  ASSUME LinkInv, SafeInv, SeekInv, status = "running",
         NEW t \in Threads, stack[t] # << >>, NEW g, Go(t, g), Turn(t, g),
         g.op = Top(t).op \/ g.op \notin Searches,
         g.op \in Searches /\ g.pc # "return" =>
           /\ g.pc # "visit" => g.i = 0
           /\ g.pc = "enter" => g.entry \in {HEAD, firstEntry'}
           /\ g.pc = "visit" => owner' = t /\ AtFirst(g)'
  PROVE  SeekInv'
<1> SUFFICES (\A u \in Threads : Marks(u) /\ (stack[u] # << >> => Seeks(u, Top(u))))'
  BY DEF SeekInv
<1>1. Frames /\ Nested /\ Marks(t) /\ Seeks(t, Top(t))
  BY DEF LinkInv, SafeInv, SeekInv, Calls
<1>2. /\ \A u \in Threads \ {t} : stack'[u] = stack[u]
      /\ g.pc # "return" => stack'[t] # << >> /\ Head(stack'[t]) = g
      /\ g.pc = "return" => stack'[t] = << >> \/ Head(stack'[t]).op = "linked_list_forEach"
  BY <1>1, TopAfter
<1>3. t # NoTid
  BY ListAssumption
<1>4. Marks(t)'
  <2> SUFFICES ASSUME locker_tid' = t PROVE owner' = t \/ (stack'[t] # << >> /\ Head(stack'[t]).pc = "clear")
    BY DEF Marks, Top
  <2>1. g.pc = "clear" \/ owner' = t
    BY <1>1, <1>3 DEF Turn, Marks, plat_mutex_lock, Section, mutex
  <2> QED
    BY <1>2, <2>1
<1>5. ASSUME stack'[t] # << >> PROVE Seeks(t, Head(stack[t]))'
  <2>1. PICK h : h = Head(stack'[t])
    OBVIOUS
  <2>2. CASE g.pc = "return"
    <3>1. h.op \notin Searches /\ h.op \notin TwiceUnlocked
      BY <1>2, <1>5, <2>1, <2>2 DEF Searches, PtrSearches, TwiceUnlocked, Removal
    <3> QED
      BY <2>1, <3>1 DEF Seeks
  <2>3. CASE g.pc # "return"
    <3>1. h = g
      BY <1>2, <2>1, <2>3
    <3>2. TwiceUnlocked \subseteq Searches
      BY DEF TwiceUnlocked, Removal, Searches, PtrSearches
    <3>3. g.op \in TwiceUnlocked => locker_tid' \in {t, NoTid}
      BY <1>1, <3>2 DEF Turn, Seeks, plat_mutex_lock, Section, mutex
    <3>4. Seeks(t, g)'
      BY <2>3, <3>3 DEF Seeks
    <3> QED
      BY <2>1, <3>1, <3>4 DEF Seeks
  <2> QED
    BY <2>2, <2>3
<1>6. ASSUME NEW u \in Threads, u # t PROVE (Marks(u) /\ (stack[u] # << >> => Seeks(u, Top(u))))'
  <2>1. stack'[u] = stack[u] /\ (stack'[t] # << >> \/ g.pc # "clear")
    BY <1>2, <1>6
  <2> QED
    BY <1>6, <2>1, TurnOthers
<1> QED
  BY <1>4, <1>5, <1>6 DEF Top

\* A step of t, as far as the mutex at a return is concerned
LEMMA LockGo ==
  ASSUME LinkInv, SafeInv, LockInv, status = "running",
         NEW t \in Threads, stack[t] # << >>, NEW g, Go(t, g),
         Top(t).op = "linked_list_destroy" => g.op = "linked_list_destroy" /\ g.pc # "return",
         OneThread /\ Intact /\ Len(stack[t]) = 1 =>
           /\ g.pc = "clear" => owner' # t
           /\ owner' = t => alive' = {} \/ (g.pc # "return" /\ Holding(g))
           /\ g.pc = "enter" => g.entry = firstEntry'
  PROVE  LockInv' /\ (OneThread => Returns)
<1> SUFFICES ASSUME OneThread PROVE (Intact' => Leaves(t)') /\ (stack'[t] = << >> /\ alive' # {} => owner' # t)
  <2>1. OneThread => \A u \in Threads : u = t
    BY DEF OneThread
  <2> QED
    BY <2>1 DEF LockInv, Returns
<1>1. Frames /\ Nested /\ Calls
  BY DEF LinkInv, SafeInv, Calls
<1>2. /\ Len(stack[t]) \in {1, 2}
      /\ g.pc # "return" =>
           stack'[t] # << >> /\ Head(stack'[t]) = g /\ Len(stack'[t]) = Len(stack[t])
      /\ g.pc = "return" =>
           \/ Len(stack[t]) = 1 /\ stack'[t] = << >>
           \/ /\ Len(stack[t]) = 2 /\ Len(stack'[t]) = 1 /\ stack'[t] # << >>
              /\ Head(stack'[t]).pc = "callback"
  BY <1>1, TopAfter
<1>3. CASE ~Intact
  <2>1. Top(t).op = "linked_list_destroy"
    BY <1>1, <1>3, OneDestroyer
  <2>2. g.op = "linked_list_destroy" /\ stack'[t] # << >> /\ Head(stack'[t]) = g
    BY <1>2, <2>1
  <2>3. stack'[t] \in Seq(GoodFrame \cup {g})
    <3>1. stack \in [Threads -> Seq(GoodFrame)] /\ stack[t] \in Seq(GoodFrame)
      BY <1>1 DEF Frames
    <3>2. stack'[t] = <<g>> \o Tail(stack[t])
      BY <1>2, <2>1, <3>1 DEF Go
    <3>3. \A q \in Seq(GoodFrame) : <<g>> \o Tail(q) \in Seq(GoodFrame \cup {g}) \/ q = << >>
      OBVIOUS
    <3> QED
      BY <3>1, <3>2, <3>3
  <2>4. 1 \in DOMAIN stack'[t] /\ stack'[t][1] = g
    BY <2>2, <2>3
  <2>5. ~Intact'
    BY <2>2, <2>4 DEF Intact, Destroys
  <2> QED
    BY <2>2, <2>5
<1>4. CASE Intact /\ Len(stack[t]) = 1
  <2>1. stack'[t] = << >> /\ owner' = t => alive' = {}
    BY <1>2, <1>4
  <2>2. Len(stack'[t]) = 1 => g.pc # "return" /\ Head(stack'[t]) = g
    <3>1. Len(<< >>) = 0
      OBVIOUS
    <3> QED
      BY <1>2, <1>4, <3>1
  <2> QED
    BY <1>4, <2>1, <2>2 DEF Leaves, Top
<1>5. CASE Intact /\ Len(stack[t]) = 2
  <2>1. stack'[t] # << >> /\ (Len(stack'[t]) = 1 => Head(stack'[t]).pc = "callback")
    BY <1>2, <1>5
  <2> QED
    BY <2>1 DEF Leaves, Top, Holding
<1> QED
  BY <1>2, <1>3, <1>4, <1>5

\* What each step of a thread is shown to do
Turned == SeekInv' /\ LockInv' /\ (OneThread => Returns)

LEMMA TurnBegins ==
  ASSUME TurnInv, status = "running", NEW t \in Threads, stack[t] # << >>
  PROVE  /\ Frames /\ Nested /\ LinkTyped /\ Top(t) \in CallType /\ FrameOK(Top(t))
         /\ Top(t).op # "linked_list_destroy" => Intact /\ Listed
         /\ Intact => Top(t).op # "linked_list_destroy"
         /\ Seeks(t, Top(t))
         /\ OneThread /\ Intact => Leaves(t)
<1>1. LinkInv /\ SafeInv /\ LockInv /\ SeekInv
  BY DEF TurnInv
<1>2. /\ LinkTyped /\ Frames /\ Calls /\ Top(t) \in GoodFrame
      /\ Top(t).op # "linked_list_destroy" => Intact /\ Listed
      /\ Top(t).op = "linked_list_destroy" => ~Intact
  BY <1>1, Begins
<1> QED
  BY <1>1, <1>2 DEF Calls, GoodFrame, LockInv, SeekInv

\* The frame a step goes on with, and what is asked of it
LEMMA TurnGo ==
  ASSUME TurnInv, status = "running", NEW t \in Threads, stack[t] # << >>, NEW g, Go(t, g), Turn(t, g),
         g.op = Top(t).op \/ (Top(t).op # "linked_list_destroy" /\ g.op \notin Searches),
         g.pc = "return" => Top(t).op # "linked_list_destroy",
         g.op \in Searches /\ g.pc # "return" =>
           /\ g.pc # "visit" => g.i = 0
           /\ g.pc = "enter" => g.entry \in {HEAD, firstEntry'}
           /\ g.pc = "visit" => owner' = t /\ AtFirst(g)',
         OneThread /\ Intact /\ Len(stack[t]) = 1 =>
           /\ g.pc = "clear" => owner' # t
           /\ owner' = t => alive' = {} \/ (g.pc # "return" /\ Holding(g))
           /\ g.pc = "enter" => g.entry = firstEntry'
  PROVE  Turned
<1>1. LinkInv /\ SafeInv /\ LockInv /\ SeekInv
  BY DEF TurnInv
<1>2. SeekInv'
  BY <1>1, SeekGo
<1>3. LockInv' /\ (OneThread => Returns)
  BY <1>1, LockGo
<1> QED
  BY <1>2, <1>3 DEF Turned

\* A step that ends in the reset of locker_tid
LEMMA TurnSection ==
  ASSUME TurnInv, status = "running", NEW t \in Threads, stack[t] # << >>, NEW h \in CallType,
         Go(t, Clearing(h)), Section(t), h.op = Top(t).op, Top(t).pc # "clear",
         h.i = 0 \/ (h.i = Top(t).i /\ Top(t).pc # "visit"),
         firstEntry' = firstEntry \/ firstEntry = HEAD \/ Top(t).op \in Solitary
  PROVE  Turned
<1>1. PICK g : g = Clearing(h)
  OBVIOUS
<1>2. g.op = h.op /\ g.pc = "clear" /\ g.i = h.i
  BY <1>1 DEF Clearing, CallType
<1>3. Turn(t, g)
  BY <1>2 DEF Turn
<1>4. Seeks(t, Top(t))
  BY TurnBegins
<1>5. owner' # t
  BY ListAssumption DEF Section
<1>6. g.op \in Searches /\ g.pc # "return" =>
        /\ g.pc # "visit" => g.i = 0
        /\ g.pc = "enter" => g.entry \in {HEAD, firstEntry'}
        /\ g.pc = "visit" => owner' = t /\ AtFirst(g)'
  BY <1>2, <1>4 DEF Seeks
<1> QED
  BY <1>1, <1>2, <1>3, <1>5, <1>6, TurnGo

LEMMA TurnPush ==
  ASSUME TurnInv, NEW t \in Threads, linked_list_push(t) PROVE Turned
<1>1. status = "running" /\ stack[t] # << >> /\ Top(t).pc = "linked_list_push"
  BY DEF linked_list_push, At
<1>2. Top(t) \in CallType
  BY <1>1, TurnBegins
<1>3. CASE status' = "aborted" /\ UNCHANGED <<links, fields, lastAccess, mutex, stack>>
  BY <1>3 DEF Turned, SeekInv, LockInv, Intact, Returns
<1>4. CASE Section(t) /\ (\E e \in Entries \ alive : Link(e, Top(t).arg))
           /\ Go(t, Clearing([Top(t) EXCEPT !.pc = "return"]))
  <2>1. PICK h : h = [Top(t) EXCEPT !.pc = "return"]
    OBVIOUS
  <2>2. h \in CallType /\ h.op = Top(t).op /\ h.i = Top(t).i
    BY <1>2, <2>1 DEF CallType, Points
  <2>3. firstEntry' = firstEntry \/ firstEntry = HEAD
    BY <1>4 DEF Link
  <2> QED
    BY <1>1, <1>4, <2>1, <2>2, <2>3, TurnSection
<1> QED
  BY <1>3, <1>4 DEF linked_list_push

LEMMA TurnSet ==
  ASSUME TurnInv, NEW t \in Threads, linked_list_entry_set(t) PROVE Turned
<1>1. /\ status = "running" /\ stack[t] # << >> /\ Top(t).pc = "set" /\ Section(t)
      /\ Go(t, Clearing([Top(t) EXCEPT !.pc = "return"])) /\ firstEntry' = firstEntry
  BY DEF linked_list_entry_set, At, links
<1>2. Top(t) \in CallType
  BY <1>1, TurnBegins
<1>3. PICK h : h = [Top(t) EXCEPT !.pc = "return"]
  OBVIOUS
<1>4. h \in CallType /\ h.op = Top(t).op /\ h.i = Top(t).i
  BY <1>2, <1>3 DEF CallType, Points
<1> QED
  BY <1>1, <1>3, <1>4, TurnSection

LEMMA TurnTouch ==
  ASSUME TurnInv, NEW t \in Threads, Touch(t) PROVE Turned
<1>1. /\ status = "running" /\ stack[t] # << >> /\ Top(t).pc = "touch" /\ Section(t)
      /\ Go(t, Clearing([Top(t) EXCEPT !.pc = "return"])) /\ firstEntry' = firstEntry
  BY DEF Touch, At, links
<1>2. Top(t) \in CallType
  BY <1>1, TurnBegins
<1>3. PICK h : h = [Top(t) EXCEPT !.pc = "return"]
  OBVIOUS
<1>4. h \in CallType /\ h.op = Top(t).op /\ h.i = Top(t).i
  BY <1>2, <1>3 DEF CallType, Points
<1> QED
  BY <1>1, <1>3, <1>4, TurnSection

LEMMA TurnRemove ==
  ASSUME TurnInv, NEW t \in Threads, linked_list_removeEntry(t) PROVE Turned
<1>1. status = "running" /\ stack[t] # << >> /\ Top(t).pc = "unlink" /\ Section(t)
  BY DEF linked_list_removeEntry, At
<1>2. Top(t) \in CallType /\ Top(t).op \in Solitary
  BY <1>1, TurnBegins DEF FrameOK, Stage, Solitary
<1>3. PICK p \in {"linked_list_pop", "unlock"} : Go(t, Clearing([Top(t) EXCEPT !.entry = NULL, !.pc = p]))
  BY DEF linked_list_removeEntry
<1>4. PICK h : h = [Top(t) EXCEPT !.entry = NULL, !.pc = p]
  OBVIOUS
<1>5. p \in Points
  BY DEF Points
<1>6. h \in CallType /\ h.op = Top(t).op /\ h.i = Top(t).i
  BY <1>2, <1>4, <1>5 DEF CallType
<1> QED
  BY <1>1, <1>2, <1>3, <1>4, <1>6, TurnSection

LEMMA EmptyList ==
  ASSUME Listed PROVE lastEntry = HEAD => alive = {}
<1>1. PICK n \in Nat : \E s \in [1..n -> Entries] : Linked(n, s) /\ Holds(n, s)
  BY DEF Listed
<1>2. PICK s \in [1..n -> Entries] : Linked(n, s) /\ Holds(n, s)
  BY <1>1
<1>3. lastEntry = Node(s, n)
  BY <1>2 DEF Linked
<1>4. n # 0 => Node(s, n) \in Entries
  BY DEF Node
<1> QED
  BY <1>2, <1>3, <1>4, ListAssumption DEF Holds

LEMMA TurnPop ==
  ASSUME TurnInv, NEW t \in Threads, linked_list_pop(t) PROVE Turned
<1> DEFINE p == IF Top(t).op = "linked_list_pop" THEN "return" ELSE "unlock"
<1>1. status = "running" /\ stack[t] # << >> /\ Top(t).pc = "linked_list_pop"
  BY DEF linked_list_pop, At
<1>2. /\ Top(t) \in CallType /\ Top(t).op \in {"linked_list_pop", Removal} /\ Listed /\ Intact
      /\ Seeks(t, Top(t))
  BY <1>1, TurnBegins DEF FrameOK, Stage, Removal
<1>3. PICK h : h = [Top(t) EXCEPT !.entry = NULL, !.pc = p]
  OBVIOUS
<1>4. p \in Points
  BY DEF Points
<1>5. h \in CallType /\ h.op = Top(t).op /\ h.i = Top(t).i /\ h.pc = p
  BY <1>2, <1>3, <1>4 DEF CallType
<1>6. \/ lastEntry = HEAD /\ plat_mutex_lock(t) /\ Go(t, h) /\ UNCHANGED <<links, fields, status>>
      \/ Section(t) /\ Go(t, Clearing(h))
  BY <1>3 DEF linked_list_pop
<1>7. CASE Section(t) /\ Go(t, Clearing(h))
  <2>1. Top(t).op \in Solitary
    BY <1>2 DEF Solitary, Removal
  <2> QED
    BY <1>1, <1>5, <1>7, <2>1, TurnSection
<1>8. CASE lastEntry = HEAD /\ plat_mutex_lock(t) /\ Go(t, h) /\ UNCHANGED <<links, fields, status>>
  <2>1. alive' = {} /\ firstEntry' = firstEntry
    BY <1>2, <1>8, EmptyList DEF links
  <2>2. h.pc \notin {"clear", "visit", "enter"}
    BY <1>5
  <2>3. Turn(t, h)
    BY <1>1, <1>8, <2>1, <2>2 DEF Turn
  <2>4. h.op \in Searches => h.i = 0
    BY <1>1, <1>2, <1>5 DEF Seeks
  <2>5. Top(t).op # "linked_list_destroy"
    BY <1>2 DEF Removal
  <2> HIDE DEF p
  <2> QED
    BY <1>1, <1>5, <1>8, <2>1, <2>2, <2>3, <2>4, <2>5, TurnGo
<1> QED
  BY <1>6, <1>7, <1>8

LEMMA TurnClear ==
  ASSUME TurnInv, NEW t \in Threads, Clear(t) PROVE Turned
<1>1. /\ status = "running" /\ stack[t] # << >> /\ Top(t).pc = "clear"
      /\ locker_tid' = NoTid /\ UNCHANGED <<links, fields, owner>>
  BY DEF Clear, At
<1>2. /\ Top(t) \in CallType /\ FrameOK(Top(t)) /\ (OneThread /\ Intact => Leaves(t))
      /\ Seeks(t, Top(t))
  BY <1>1, TurnBegins
<1>3. PICK h : h = [Top(t) EXCEPT !.pc = Top(t).then, !.then = "return"]
  OBVIOUS
<1>4. h.op = Top(t).op /\ h.i = Top(t).i /\ h.pc = Top(t).then /\ Go(t, h)
  BY <1>2, <1>3 DEF CallType, Clear
<1>5. /\ Top(t).then \notin {"clear", "callback", "enter", "visit"}
      /\ (Top(t).op = "linked_list_destroy" => Top(t).then # "return")
  BY <1>1, <1>2 DEF FrameOK, Stage
<1>6. Turn(t, h)
  BY <1>1, <1>4, <1>5 DEF Turn
<1>7. OneThread /\ Intact /\ Len(stack[t]) = 1 => owner' # t
  BY <1>1, <1>2 DEF Leaves
<1>8. h.op \in Searches => h.i = 0
  BY <1>1, <1>2, <1>4 DEF Seeks
<1> QED
  BY <1>1, <1>4, <1>5, <1>6, <1>7, <1>8, TurnGo

LEMMA TurnOuter ==
  ASSUME TurnInv, NEW t \in Threads, Outer(t) PROVE Turned
<1>1. /\ status = "running" /\ stack[t] # << >> /\ Top(t).pc = "outer" /\ plat_mutex_lock(t)
      /\ UNCHANGED <<links, fields>>
  BY DEF Outer, At
<1>2. Top(t) \in CallType /\ Top(t).op \in Wrapped /\ (Seeks(t, Top(t)))
  BY <1>1, TurnBegins DEF FrameOK, Stage
<1>3. PICK h : h = [Top(t) EXCEPT !.pc = "first"]
  OBVIOUS
<1>4. h.op = Top(t).op /\ h.i = Top(t).i /\ h.pc = "first" /\ Go(t, h)
  BY <1>2, <1>3 DEF CallType, Outer
<1>5. Turn(t, h)
  BY <1>1, <1>4 DEF Turn, links
<1>6. Top(t).op # "linked_list_destroy" /\ Holding(h)
  BY <1>2, <1>4 DEF Wrapped, Holding
<1>7. h.op \in Searches => h.i = 0
  BY <1>1, <1>2, <1>4 DEF Seeks
<1> QED
  BY <1>1, <1>4, <1>5, <1>6, <1>7, TurnGo

LEMMA TurnNote ==
  ASSUME TurnInv, NEW t \in Threads, Note(t) PROVE Turned
<1>1. status = "running" /\ stack[t] # << >> /\ Top(t).pc = "note" /\ UNCHANGED <<links, fields, mutex>>
  BY DEF Note, At
<1>2. /\ Top(t) \in CallType /\ Top(t).op \in Getters /\ (Seeks(t, Top(t)))
      /\ OneThread /\ Intact => Leaves(t)
  BY <1>1, TurnBegins DEF FrameOK, Stage
<1>3. PICK h : h = [Top(t) EXCEPT !.pc = "touch"]
  OBVIOUS
<1>4. h.op = Top(t).op /\ h.i = Top(t).i /\ h.pc = "touch" /\ Go(t, h)
  BY <1>2, <1>3 DEF CallType, Note
<1>5. Turn(t, h)
  BY <1>1, <1>4 DEF Turn
<1>6. h.op \in Searches => h.i = 0
  BY <1>1, <1>2, <1>4 DEF Seeks
<1>7. OneThread /\ Intact /\ Len(stack[t]) = 1 => (owner' = t => alive' = {})
  BY <1>1, <1>2 DEF Leaves, Holding, links, mutex
<1> QED
  BY <1>1, <1>4, <1>5, <1>6, <1>7, TurnGo

LEMMA TurnReport ==
  ASSUME TurnInv, NEW t \in Threads, Report(t) PROVE Turned
<1>1. status = "running" /\ stack[t] # << >> /\ Top(t).pc = "report" /\ UNCHANGED <<links, fields, mutex>>
  BY DEF Report, At
<1>2. /\ Top(t) \in CallType /\ Top(t).op = "sn_debug_crash"
      /\ OneThread /\ Intact => Leaves(t)
  BY <1>1, TurnBegins DEF FrameOK, Stage
<1>3. PICK h : h = [Top(t) EXCEPT !.pc = "first"]
  OBVIOUS
<1>4. h.op = Top(t).op /\ h.pc = "first" /\ Go(t, h)
  BY <1>2, <1>3 DEF CallType, Report
<1>5. Turn(t, h)
  BY <1>1, <1>4 DEF Turn
<1>6. h.op \notin Searches
  BY <1>2, <1>4 DEF Searches, PtrSearches
<1>7. OneThread /\ Intact /\ Len(stack[t]) = 1 => (owner' = t => alive' = {})
  BY <1>1, <1>2 DEF Leaves, Holding, links, mutex
<1> QED
  BY <1>1, <1>4, <1>5, <1>6, <1>7, TurnGo

LEMMA TurnNextWalk ==
  ASSUME TurnInv, NEW t \in Threads, NextWalk(t) PROVE Turned
<1>1. status = "running" /\ stack[t] # << >> /\ Top(t).pc = "next walk" /\ UNCHANGED <<links, fields, mutex>>
  BY DEF NextWalk, Follow, At
<1>2. Frames /\ (OneThread /\ Intact => Leaves(t))
  BY <1>1, TurnBegins
<1>3. CASE status' = "exited" /\ UNCHANGED stack
  BY <1>3 DEF Turned, SeekInv, LockInv, Intact, Returns
<1>4. ASSUME NEW g, Go(t, g), g.pc = "first", g.op \in {"doexit", "linked_list_destroy"},
             Top(t).op \in {"sn_debug_crash", "doexit"}
      PROVE  Turned
  <2>1. Turn(t, g)
    BY <1>1, <1>4 DEF Turn
  <2>2. g.op \notin Searches
    BY <1>4 DEF Searches, PtrSearches
  <2>3. OneThread /\ Intact /\ Len(stack[t]) = 1 => (owner' = t => alive' = {})
    BY <1>1, <1>2 DEF Leaves, Holding, links, mutex
  <2> QED
    BY <1>1, <1>4, <2>1, <2>2, <2>3, TurnGo
<1> QED
  BY <1>2, <1>3, <1>4, FollowGoes

LEMMA TurnVisitCallback ==
  ASSUME TurnInv, NEW t \in Threads, VisitCallback(t) PROVE Turned
<1>1. /\ status = "running" /\ stack[t] # << >> /\ Top(t).pc = "visit" /\ UNCHANGED <<links, fields, mutex>>
      /\ Top(t).op = "linked_list_forEach"
  BY DEF VisitCallback, At
<1>2. Top(t) \in CallType
  BY <1>1, TurnBegins
<1>3. PICK h : h = [Top(t) EXCEPT !.pc = "callback", !.nxt = next[Top(t).entry]]
  OBVIOUS
<1>4. h.op = Top(t).op /\ h.pc = "callback" /\ Go(t, h)
  BY <1>2, <1>3 DEF CallType, VisitCallback
<1>5. Turn(t, h)
  BY <1>1, <1>4 DEF Turn
<1>6. h.op \notin Searches /\ Holding(h)
  BY <1>1, <1>4 DEF Searches, PtrSearches, Holding
<1> QED
  BY <1>1, <1>4, <1>5, <1>6, TurnGo

LEMMA TurnUnlock ==
  ASSUME TurnInv, NEW t \in Threads, Unlock(t) PROVE Turned
<1>1. /\ status = "running" /\ stack[t] # << >> /\ Top(t).pc = "unlock"
      /\ owner' = NoTid /\ locker_tid' = locker_tid /\ UNCHANGED <<links, fields>>
      /\ Go(t, Clearing([Top(t) EXCEPT !.entry = NULL, !.pc = "return"]))
  BY DEF Unlock, At
<1>2. Top(t) \in CallType /\ (Seeks(t, Top(t)))
  BY <1>1, TurnBegins
<1>3. PICK g : g = Clearing([Top(t) EXCEPT !.entry = NULL, !.pc = "return"])
  OBVIOUS
<1>4. g.op = Top(t).op /\ g.i = Top(t).i /\ g.pc = "clear"
  BY <1>2, <1>3 DEF Clearing, CallType
<1>5. Turn(t, g)
  BY <1>1, <1>4 DEF Turn
<1>6. g.op \in Searches => g.i = 0
  BY <1>1, <1>2, <1>4 DEF Seeks
<1>7. owner' # t
  BY <1>1, ListAssumption
<1> QED
  BY <1>1, <1>3, <1>4, <1>5, <1>6, <1>7, TurnGo

LEMMA FoundFrame ==
  ASSUME NEW f \in CallType, NEW out
  PROVE  /\ Found(f, out).op = f.op /\ Found(f, out).i = 0 /\ Found(f, out).entry = out
         /\ Found(f, out).pc = After(f.op, out)
         /\ Found(f, out).pc \notin {"clear", "enter", "visit", "outer"}
         /\ f.op = "linked_list_destroy" => Found(f, out).pc # "return"
<1>1. /\ After(f.op, out) \in {"unlock", "unlink", "return", "note", "next walk"}
      /\ f.op = "linked_list_destroy" => After(f.op, out) # "return"
  BY DEF After, Getters
<1> QED
  BY <1>1 DEF Found, CallType

LEMMA TurnFirst ==
  ASSUME TurnInv, NEW t \in Threads, First(t) PROVE Turned
<1> DEFINE f == Top(t)
           none == len = 0 \/ (f.op = "linked_list_getByIndex" /\ len < f.arg)
<1>1. status = "running" /\ stack[t] # << >> /\ f.pc = "first" /\ UNCHANGED <<links, fields, mutex>>
  BY DEF First, At
<1>2. /\ f \in CallType /\ LinkTyped /\ (Intact => Listed)
      /\ Seeks(t, f)
      /\ OneThread /\ Intact => Leaves(t)
  BY <1>1, TurnBegins
<1>3. UNCHANGED <<alive, firstEntry, owner>>
  BY <1>1 DEF links, mutex
<1>4. OneThread /\ Intact /\ Len(stack[t]) = 1 => (owner = t => alive = {} \/ f.op \in Wrapped)
  BY <1>1, <1>2 DEF Leaves, Holding
<1>5. CASE none
  <2>1. PICK g : g = Found(f, NULL)
    OBVIOUS
  <2>2. Go(t, g)
    BY <1>5, <2>1 DEF First
  <2>3. g.op = f.op /\ g.i = 0 /\ g.pc \notin {"clear", "enter", "visit"}
        /\ (g.pc = "return" => f.op # "linked_list_destroy")
    BY <1>2, <2>1, FoundFrame
  <2>4. Turn(t, g)
    BY <1>1, <2>3 DEF Turn
  <2>5. Intact => alive = {} \/ f.op \notin Wrapped
    BY <1>2, <1>5, ListedFacts DEF Wrapped
  <2>6. OneThread /\ Intact /\ Len(stack[t]) = 1 => (owner' = t => alive' = {})
    BY <1>3, <1>4, <2>5
  <2> HIDE DEF none
  <2> QED
    BY <1>1, <2>2, <2>3, <2>4, <2>6, TurnGo
<1>6. CASE ~none
  <2>1. PICK g : g = [f EXCEPT !.entry = firstEntry, !.pc = "enter"]
    OBVIOUS
  <2>2. Go(t, g)
    BY <1>6, <2>1 DEF First
  <2>3. g.op = f.op /\ g.i = f.i /\ g.pc = "enter" /\ g.entry = firstEntry'
    BY <1>2, <1>3, <2>1 DEF CallType
  <2>4. Turn(t, g)
    BY <1>1, <2>3 DEF Turn
  <2>5. g.op \in Searches => g.i = 0
    BY <1>1, <1>2, <2>3 DEF Seeks
  <2>6. OneThread /\ Intact /\ Len(stack[t]) = 1 => (owner' = t => alive' = {} \/ Holding(g))
    BY <1>3, <1>4, <2>3 DEF Holding
  <2> HIDE DEF none
  <2> QED
    BY <1>1, <2>2, <2>3, <2>4, <2>5, <2>6, TurnGo
<1> QED
  BY <1>5, <1>6

\* The search f begins at the head of the list.
LEMMA StartsFirst ==
  ASSUME LinkTyped, NEW f, f.entry = firstEntry, f.entry # HEAD, f.i = 0 PROVE AtFirst(f)
<1>1. Cardinality(alive) \in Nat
  BY FS_Subset, FS_CardinalityType, ListAssumption DEF LinkTyped
<1> SUFFICES ASSUME NEW s \in Orders PROVE Reaches(f, s)
  BY DEF AtFirst
<1>2. firstEntry = IF Cardinality(alive) = 0 THEN HEAD ELSE s[1]
  BY DEF Orders, Chain
<1>3. 1 \in 1..Cardinality(alive) /\ f.entry = s[1]
  BY <1>1, <1>2
<1> QED
  BY <1>3 DEF Reaches

LEMMA HitSame ==
  ASSUME NEW f \in CallType, NEW g \in CallType, g.op = f.op, g.arg = f.arg, NEW s, NEW i \in Int
  PROVE  Hit(g, s, i) <=> Hit(f, s, i)
<1>1. PICK h, k : h = [f EXCEPT !.i = i - 1] /\ k = [g EXCEPT !.i = i - 1]
  OBVIOUS
<1>2. h.op = k.op /\ h.arg = k.arg /\ h.i = k.i
  BY <1>1 DEF CallType
<1> QED
  BY <1>1, <1>2 DEF Hit, Matches

LEMMA HitHere ==
  ASSUME NEW f \in CallType, f.op \in Searches, NEW s, NEW i \in Int, f.op = "linked_list_getByIndex" => f.i = i - 1
  PROVE  Hit(f, s, i) <=> Matches(f, s[i])
<1>1. PICK h : h = [f EXCEPT !.i = i - 1]
  OBVIOUS
<1>2. h.op = f.op /\ h.arg = f.arg /\ h.i = i - 1
  BY <1>1 DEF CallType
<1>3. "linked_list_getByIndex" \notin PtrSearches
  BY DEF PtrSearches
<1> QED
  BY <1>1, <1>2, <1>3 DEF Hit, Matches, Searches

\* The search f, which does not match its entry, goes on with the next one.
LEMMA StepsFirst ==
  ASSUME LinkTyped, NEW f \in CallType, f.op \in Searches, AtFirst(f), ~Matches(f, f.entry), next[f.entry] # NULL,
         NEW g \in CallType, g.op = f.op, g.arg = f.arg, g.entry = next[f.entry],
         g.op = "linked_list_getByIndex" => g.i = f.i + 1
  PROVE  AtFirst(g)
<1> DEFINE n == Cardinality(alive)
<1>1. n \in Nat
  BY FS_Subset, FS_CardinalityType, ListAssumption DEF LinkTyped
<1> HIDE DEF n
<1> SUFFICES ASSUME NEW s \in Orders PROVE Reaches(g, s)
  BY DEF AtFirst
<1>2. PICK p \in 1..n : /\ f.entry = s[p] /\ (f.op = "linked_list_getByIndex" => f.i = p - 1)
                        /\ \A q \in 1..(p - 1) : ~Hit(f, s, q)
  BY DEF AtFirst, Reaches, n
<1>3. p \in Int /\ p + 1 \in Int /\ p \in 0..n
  BY <1>1
<1>4. \A i \in 0..n : next[IF i = 0 THEN HEAD ELSE s[i]] = IF i = n THEN NULL ELSE s[i + 1]
  BY DEF Orders, Chain, n
<1>5. p # n /\ g.entry = s[p + 1] /\ p + 1 \in 1..n
  BY <1>1, <1>2, <1>3, <1>4
<1>6. ~Hit(f, s, p)
  BY <1>2, <1>3, HitHere
<1>7. ASSUME NEW q \in 1..((p + 1) - 1) PROVE ~Hit(g, s, q)
  <2>1. q \in Int /\ (q = p \/ q \in 1..(p - 1))
    BY <1>3
  <2> QED
    BY <1>2, <1>6, <2>1, HitSame
<1>8. g.op = "linked_list_getByIndex" => g.i = (p + 1) - 1
  BY <1>2, <1>3
<1> QED
  BY <1>5, <1>7, <1>8 DEF Reaches, n

LEMMA TurnEnter ==
  ASSUME TurnInv, NEW t \in Threads, Enter(t) PROVE Turned
<1> DEFINE f == Top(t)
<1>1. /\ status = "running" /\ stack[t] # << >> /\ f.pc = "enter" /\ plat_mutex_lock(t)
      /\ UNCHANGED <<links, fields>> /\ alive' = alive /\ firstEntry' = firstEntry
  BY DEF Enter, At, links
<1>2. /\ f \in CallType /\ LinkTyped /\ (Intact => Listed)
      /\ Seeks(t, f)
      /\ OneThread /\ Intact => Leaves(t)
  BY <1>1, TurnBegins
<1>3. CASE f.entry = HEAD
  <2>1. PICK g : g = Found(f, NULL)
    OBVIOUS
  <2>2. Go(t, g)
    BY <1>3, <2>1 DEF Enter
  <2>3. g.op = f.op /\ g.i = 0 /\ g.pc \notin {"clear", "enter", "visit"}
        /\ (g.pc = "return" => f.op # "linked_list_destroy")
    BY <1>2, <2>1, FoundFrame
  <2>4. Turn(t, g)
    BY <1>1, <2>3 DEF Turn
  <2>5. OneThread /\ Intact /\ Len(stack[t]) = 1 => alive' = {}
    BY <1>1, <1>2, <1>3, ListedFacts DEF Leaves
  <2> QED
    BY <1>1, <2>2, <2>3, <2>4, <2>5, TurnGo
<1>4. CASE f.entry # HEAD
  <2>1. PICK g : g = [f EXCEPT !.pc = "visit"]
    OBVIOUS
  <2>2. Go(t, g)
    BY <1>4, <2>1 DEF Enter
  <2>3. g.op = f.op /\ g.i = f.i /\ g.pc = "visit" /\ g.entry = f.entry /\ Holding(g)
    BY <1>2, <2>1 DEF CallType, Holding
  <2>4. Turn(t, g)
    BY <1>1, <2>3 DEF Turn
  <2>5. ASSUME g.op \in Searches PROVE owner' = t /\ AtFirst(g)'
    <3>1. f.i = 0 /\ f.entry = firstEntry
      BY <1>1, <1>2, <1>4, <2>3, <2>5 DEF Seeks
    <3>2. AtFirst(g)
      BY <1>2, <1>4, <2>3, <3>1, StartsFirst
    <3>3. locker_tid = t => owner = t
      BY <1>1, <2>5 DEF TurnInv, SeekInv, Marks
    <3> QED
      BY <1>1, <3>2, <3>3, AtFirstSame DEF plat_mutex_lock
  <2> QED
    BY <1>1, <2>2, <2>3, <2>4, <2>5, TurnGo
<1> QED
  BY <1>3, <1>4

LEMMA TurnVisit ==
  ASSUME TurnInv, NEW t \in Threads, Visit(t) PROVE Turned
<1> DEFINE f == Top(t)
           match == Matches(f, f.entry)
           out == IF match THEN f.entry ELSE NULL
           x == next[f.entry]
           i == IF f.op = "linked_list_getByIndex" THEN f.i + 1 ELSE 0
<1>1. /\ status = "running" /\ stack[t] # << >> /\ f.pc = "visit"
      /\ f.op \notin {"linked_list_forEach", "linked_list_destroy"}
      /\ UNCHANGED <<links, fields>> /\ alive' = alive /\ firstEntry' = firstEntry
      /\ Advance(t, f, match, out)
  BY DEF Visit, At, links
<1>2. /\ f \in CallType /\ LinkTyped /\ f.entry \in Entries
      /\ Seeks(t, f)
  BY <1>1, TurnBegins DEF FrameOK, Stage
<1>3. NextAfter(f) = x
  BY <1>1 DEF NextAfter
<1>4. CASE match \/ x = NULL
  <2>1. Section(t) /\ Go(t, Clearing(Found(f, out)))
    BY <1>1, <1>3, <1>4 DEF Advance, WalkOn
  <2>2. PICK g : g = Clearing(Found(f, out))
    OBVIOUS
  <2>3. g.op = f.op /\ g.i = 0 /\ g.pc = "clear"
    BY <1>2, <2>2 DEF Clearing, Found, CallType
  <2>4. Turn(t, g)
    BY <1>1, <2>1, <2>3 DEF Turn
  <2>5. owner' # t
    BY <2>1, ListAssumption DEF Section
  <2> HIDE DEF match, out, x, i
  <2> QED
    BY <1>1, <2>1, <2>2, <2>3, <2>4, <2>5, TurnGo
<1>5. CASE ~(match \/ x = NULL)
  <2>1. PICK g : g = [f EXCEPT !.entry = x, !.nxt = NULL, !.pc = "visit", !.i = i, !.arg = f.arg]
    OBVIOUS
  <2>2. Go(t, g) /\ plat_mutex_lock(t)
    BY <1>1, <1>3, <1>5, <2>1 DEF Advance, WalkOn
  <2>3. x \in Entries /\ f.i \in Nat /\ i \in Nat
    BY <1>2, <1>5 DEF LinkTyped, LinkType, CallType
  <2>4. g \in CallType /\ g.op = f.op /\ g.arg = f.arg /\ g.pc = "visit" /\ g.entry = x /\ g.i = i
    <3> HIDE DEF x, i
    <3> QED
      BY <1>2, <2>1, <2>3 DEF CallType, Points
  <2>5. Turn(t, g)
    BY <1>1, <2>2, <2>4 DEF Turn
  <2>6. ASSUME g.op \in Searches PROVE owner' = t /\ AtFirst(g)'
    <3>1. owner = t /\ AtFirst(f)
      BY <1>1, <1>2, <2>4, <2>6 DEF Seeks
    <3>2. g.op = "linked_list_getByIndex" => g.i = f.i + 1
      BY <2>4
    <3>3. AtFirst(g)
      <4> HIDE DEF i
      <4> QED
        BY <1>2, <1>5, <2>4, <2>6, <3>1, <3>2, StepsFirst
    <3> QED
      BY <1>1, <2>2, <3>1, <3>3, AtFirstSame DEF plat_mutex_lock
  <2>7. Holding(g)
    BY <2>4 DEF Holding
  <2> HIDE DEF match, out, x, i
  <2> QED
    BY <1>1, <2>2, <2>4, <2>5, <2>6, <2>7, TurnGo
<1> QED
  BY <1>4, <1>5

LEMMA TurnVisitDestroy ==
  ASSUME TurnInv, NEW t \in Threads, VisitDestroy(t) PROVE Turned
<1>1. /\ status = "running" /\ stack[t] # << >> /\ Top(t).pc = "visit" /\ Top(t).op = "linked_list_destroy"
      /\ firstEntry' = firstEntry /\ Advance(t, Top(t), FALSE, NULL)
  BY DEF VisitDestroy, At
<1>2. LinkTyped /\ Frames /\ ~Intact
  BY <1>1, TurnBegins
<1>3. PICK g : /\ Go(t, g) /\ g.op = Top(t).op /\ g.pc # "return"
               /\ \/ g = Clearing(Found(Top(t), NULL)) /\ Section(t)
                  \/ plat_mutex_lock(t) /\ g.pc = "visit"
  BY <1>1, <1>2, WalkGoes
<1>4. g = Clearing(Found(Top(t), NULL)) => g.pc = "clear"
  <2>1. Top(t) \in CallType
    BY <1>1, TurnBegins
  <2> QED
    BY <2>1 DEF Clearing, Found, CallType
<1>5. Turn(t, g)
  BY <1>1, <1>3, <1>4 DEF Turn
<1>6. g.op \notin Searches
  BY <1>1, <1>3 DEF Searches, PtrSearches
<1> QED
  BY <1>1, <1>2, <1>3, <1>5, <1>6, TurnGo

LEMMA TurnCallbackReturns ==
  ASSUME TurnInv, NEW t \in Threads, CallbackReturns(t) PROVE Turned
<1>1. /\ status = "running" /\ stack[t] # << >> /\ Top(t).pc = "callback"
      /\ firstEntry' = firstEntry
  BY DEF CallbackReturns, At, links
<1>2. Frames
  BY <1>1, TurnBegins
<1>3. PICK g : /\ Go(t, g) /\ g.op = Top(t).op /\ g.op = "linked_list_forEach"
               /\ \/ g.pc = "clear" /\ Section(t)
                  \/ g.pc = "visit" /\ plat_mutex_lock(t)
  BY <1>2, CallbackGoes
<1>4. Turn(t, g)
  BY <1>1, <1>3 DEF Turn
<1>5. g.op \notin Searches /\ (g.pc = "visit" => Holding(g)) /\ (g.pc = "clear" => owner' # t)
  BY <1>3, ListAssumption DEF Searches, PtrSearches, Holding, Section
<1> QED
  BY <1>1, <1>3, <1>4, <1>5, TurnGo

LEMMA TurnCall ==
  ASSUME TurnInv, NEW t \in Threads, NEW op \in Ops, Call(t, op) PROVE Turned
<1>1. /\ status = "running" /\ status' = status /\ UNCHANGED <<links, fields, mutex>>
      /\ UNCHANGED <<alive, firstEntry, owner, locker_tid>>
  BY DEF Call, links, mutex
<1>2. LinkInv /\ SafeInv /\ LockInv /\ SeekInv /\ LinkTyped /\ Frames /\ Calls
  BY <1>1 DEF TurnInv, LinkInv, SafeInv
<1>3. PICK f \in GoodFrame :
        /\ f.op = op /\ f.i = 0 /\ f.pc \notin {"callback", "enter", "visit", "clear"}
        /\ Len(stack'[t]) \in {1, 2} /\ Head(stack'[t]) = f /\ stack'[t] # << >>
        /\ Len(stack'[t]) = 1 => stack[t] = << >>
        /\ op \in Wrapped => f.pc = "outer"
        /\ Len(stack'[t]) = 2 => stack[t] # << >> /\ Top(t).pc = "callback"
        /\ \A u \in Threads \ {t} : stack'[u] = stack[u]
  BY <1>2, CallStack
<1>4. stack[t] = << >> \/ Top(t).pc = "callback"
  BY DEF Call, InCallback
<1>5. ASSUME NEW u \in Threads PROVE (Marks(u) /\ (stack[u] # << >> => Seeks(u, Top(u))))'
  <2>1. Marks(u) /\ (stack[u] # << >> => Seeks(u, Top(u)))
    BY <1>1, <1>2, <1>5 DEF SeekInv
  <2>2. CASE u = t
    <3>1. Marks(u)'
      BY <1>1, <1>4, <2>1, <2>2 DEF Marks
    <3>2. Seeks(t, f)'
      BY <1>3 DEF Seeks, TwiceUnlocked, Removal, Wrapped
    <3> QED
      BY <1>3, <2>2, <3>1, <3>2 DEF Top, Seeks
  <2>3. CASE u # t
    <3>1. stack'[u] = stack[u]
      BY <1>3, <2>3
    <3>2. PICK h : h = Top(u)
      OBVIOUS
    <3>3. stack[u] # << >> => Seeks(u, h)'
      BY <1>1, <2>1, <3>2, AtFirstSame DEF Seeks
    <3> QED
      BY <1>1, <2>1, <3>1, <3>2, <3>3 DEF Marks, Top, Seeks
  <2> QED
    BY <2>2, <2>3
<1>6. SeekInv'
  BY <1>5 DEF SeekInv
<1>7. ASSUME OneThread, Intact' PROVE Leaves(t)'
  <2>1. Intact
    BY <1>1, <1>2, <1>7, CallFrames DEF Intact
  <2>2. Leaves(t)
    BY <1>2, <1>7, <2>1 DEF LockInv
  <2> QED
    BY <1>1, <1>3, <2>2 DEF Leaves, Top
<1>8. LockInv'
  BY <1>7 DEF LockInv, OneThread
<1>9. OneThread => Returns
  BY <1>3 DEF Returns, OneThread
<1> QED
  BY <1>6, <1>8, <1>9 DEF Turned

LEMMA TurnInit == Init => LockInv /\ SeekInv
<1> SUFFICES ASSUME Init, NEW t \in Threads PROVE Leaves(t) /\ Marks(t) /\ stack[t] = << >>
  BY DEF LockInv, SeekInv
<1>1. stack[t] = << >> /\ owner = NoTid /\ locker_tid = NoTid /\ t # NoTid
  BY ListAssumption DEF Init
<1>2. Len(<< >>) = 0
  OBVIOUS
<1> QED
  BY <1>1, <1>2 DEF Leaves, Marks

LEMMA TurnStill ==
  ASSUME TurnInv, UNCHANGED vars PROVE Turned
<1>1. /\ UNCHANGED <<links, fields, alive, firstEntry, stack, status, owner, locker_tid>>
  BY DEF vars, links, mutex
<1>2. LockInv /\ SeekInv
  BY DEF TurnInv
<1>3. LockInv'
  BY <1>1, <1>2 DEF LockInv, Intact, Destroys, Leaves, Top
<1>4. ASSUME status = "running", NEW t \in Threads
      PROVE  (Marks(t) /\ (stack[t] # << >> => Seeks(t, Top(t))))'
  <2>1. Marks(t) /\ (stack[t] # << >> => Seeks(t, Top(t)))
    BY <1>2, <1>4 DEF SeekInv
  <2>2. PICK f : f = Top(t)
    OBVIOUS
  <2>3. stack[t] # << >> => Seeks(t, f)'
    BY <1>1, <2>1, <2>2, AtFirstSame DEF Seeks
  <2> QED
    BY <1>1, <2>1, <2>2, <2>3 DEF Marks, Top, Seeks
<1>5. SeekInv'
  BY <1>1, <1>4 DEF SeekInv
<1>6. Returns
  BY <1>1 DEF Returns
<1> QED
  BY <1>3, <1>5, <1>6 DEF Turned

LEMMA TurnNext ==
  TurnInv /\ [Next]_vars => Turned
<1> SUFFICES ASSUME TurnInv, [Next]_vars PROVE Turned
  OBVIOUS
<1>1. ASSUME NEW t \in Threads, Step(t) PROVE Turned
  <2>1. CASE linked_list_push(t) \/ linked_list_entry_set(t) \/ linked_list_pop(t) \/ Clear(t)
    BY <2>1, TurnPush, TurnSet, TurnPop, TurnClear
  <2>2. CASE Outer(t) \/ First(t) \/ Enter(t) \/ Visit(t) \/ VisitDestroy(t) \/ VisitCallback(t)
    BY <2>2, TurnOuter, TurnFirst, TurnEnter, TurnVisit, TurnVisitDestroy, TurnVisitCallback
  <2>3. CASE CallbackReturns(t) \/ Note(t) \/ Touch(t) \/ linked_list_removeEntry(t) \/ Unlock(t)
    BY <2>3, TurnCallbackReturns, TurnNote, TurnTouch, TurnRemove, TurnUnlock
  <2>4. CASE Report(t) \/ NextWalk(t)
    BY <2>4, TurnReport, TurnNextWalk
  <2> QED
    BY <1>1, <2>1, <2>2, <2>3, <2>4 DEF Step
<1>2. ASSUME NEW t \in Threads, NEW op \in Ops, Call(t, op) PROVE Turned
  BY <1>2, TurnCall
<1>3. CASE UNCHANGED vars
  BY <1>3, TurnStill
<1>4. CASE Terminated
  BY <1>4, TurnStill DEF Terminated
<1> QED
  BY <1>1, <1>2, <1>3, <1>4 DEF Next

LEMMA TurnsKept ==
  Spec => []TurnInv
<1>1. Turned => LockInv' /\ SeekInv'
  BY DEF Turned
<1>2. TurnInv <=> LinkInv /\ SafeInv /\ LockInv /\ SeekInv
  BY DEF TurnInv
<1> QED
  BY <1>1, <1>2, LinksKept, CallsKept, TurnInit, TurnNext, PTL DEF Spec

\* With one thread, whatever callbacks do, a function of the list that returns
\* while there are entries has released the mutex: of the returns that leave it
\* locked (linked_list_pop, linked_list_forEach, linked_list_getById) each is
\* reached only on an empty list.
THEOREM MutexReturned ==
  ASSUME OneThread PROVE Spec => LockReturned
<1>1. Turned => (\A t \in Threads : stack[t] # << >> /\ stack'[t] = << >> /\ alive' # {} => owner' # t)
  BY DEF Turned, Returns
<1> QED
  BY <1>1, TurnNext, TurnsKept, PTL DEF Spec, LockReturned

\* What FirstMatch chooses
LEMMA FirstIs ==
  ASSUME NEW f, NEW n \in Nat, NEW s, DOMAIN s = 1..n
  PROVE  /\ (\A i \in 1..n : ~Hit(f, s, i)) => FirstMatch(f, s) = NULL
         /\ \A p \in 1..n : Hit(f, s, p) /\ (\A q \in 1..(p - 1) : ~Hit(f, s, q)) => FirstMatch(f, s) = s[p]
<1> DEFINE I == {i \in DOMAIN s : Matches([f EXCEPT !.i = i - 1], s[i])}
<1>1. FirstMatch(f, s) = IF I = {} THEN NULL ELSE s[CHOOSE i \in I : \A j \in I : i <= j]
  BY DEF FirstMatch
<1>2. \A i : i \in I <=> i \in 1..n /\ Hit(f, s, i)
  BY DEF Hit
<1> HIDE DEF I
<1>3. ASSUME NEW p \in 1..n, Hit(f, s, p), \A q \in 1..(p - 1) : ~Hit(f, s, q) PROVE FirstMatch(f, s) = s[p]
  <2>1. \A j \in I : p <= j
    <3> SUFFICES ASSUME NEW j \in I, ~(p <= j) PROVE FALSE
      OBVIOUS
    <3>1. j \in 1..n /\ Hit(f, s, j)
      BY <1>2
    <3>2. j \in 1..(p - 1)
      BY <3>1
    <3> QED
      BY <1>3, <3>1, <3>2
  <2>2. p \in I
    BY <1>2, <1>3
  <2>3. PICK c : c = CHOOSE i \in I : \A j \in I : i <= j
    OBVIOUS
  <2>4. c \in I /\ \A j \in I : c <= j
    BY <2>1, <2>2, <2>3
  <2>5. c = p
    <3>1. c \in 1..n /\ c <= p /\ p <= c
      BY <1>2, <2>1, <2>2, <2>4
    <3> QED
      BY <3>1
  <2> QED
    BY <1>1, <2>2, <2>3, <2>5
<1>4. (\A i \in 1..n : ~Hit(f, s, i)) => FirstMatch(f, s) = NULL
  BY <1>1, <1>2
<1> QED
  BY <1>3, <1>4

LEMMA SearchEnds ==
  ASSUME TurnInv, [Next]_vars, NEW t \in Threads, EndsSearch(t), NEW s \in Orders
  PROVE  stack'[t][1].entry = FirstMatch(Top(t), s)
<1> DEFINE f == Top(t)
           n == Cardinality(alive)
           match == Matches(f, f.entry)
           out == IF match THEN f.entry ELSE NULL
<1>1. status = "running" /\ stack[t] # << >> /\ f.pc = "visit" /\ f.op \in Searches /\ stack'[t][1].pc = "clear"
  BY DEF EndsSearch, At
<1>2. /\ Frames /\ Nested /\ f \in CallType /\ LinkTyped /\ f.entry \in Entries
      /\ Seeks(t, f) /\ f = stack[t][1]
  BY <1>1, TurnBegins, TopGood DEF FrameOK, Stage
<1>3. stack'[t] # stack[t]
  BY <1>1, <1>2
<1>4. ASSUME NEW u \in Threads, u # t, Step(u) PROVE FALSE
  <2>1. stack[u] # << >>
    BY <1>4 DEF Step, linked_list_push, linked_list_entry_set, linked_list_pop, Clear, Outer, First, Enter,
         Visit, VisitDestroy, VisitCallback, CallbackReturns, Note, Touch, linked_list_removeEntry, Unlock,
         Report, NextWalk, Follow, At
  <2>2. stack' = stack \/ \E g : Go(u, g)
    BY <1>4, Zenon DEF Step, linked_list_push, linked_list_entry_set, linked_list_pop, Clear, Outer, First, Enter,
         Visit, VisitDestroy, VisitCallback, CallbackReturns, Note, Touch, linked_list_removeEntry, Unlock,
         Report, NextWalk, Follow, Advance, WalkOn
  <2>3. stack'[t] = stack[t]
    BY <1>2, <1>4, <2>1, <2>2, TopAfter
  <2> QED
    BY <1>3, <2>3
<1>5. ASSUME NEW u \in Threads, NEW op \in Ops, Call(u, op) PROVE FALSE
  <2>1. LinkTyped /\ Frames /\ Calls
    BY <1>1 DEF TurnInv, LinkInv, SafeInv
  <2>2. \A v \in Threads \ {u} : stack'[v] = stack[v]
    BY <1>5, <2>1, CallStack
  <2>3. u # t
    BY <1>1, <1>5 DEF Call, InCallback
  <2> QED
    BY <1>3, <2>2, <2>3
<1>6. Step(t)
  BY <1>1, <1>3, <1>4, <1>5 DEF Next, Terminated, vars
<1>7. Visit(t)
  BY <1>1, <1>6 DEF Step, linked_list_push, linked_list_entry_set, linked_list_pop, Clear, Outer, First, Enter,
       VisitDestroy, VisitCallback, CallbackReturns, Note, Touch, linked_list_removeEntry, Unlock, Report,
       NextWalk, Follow, At, Searches, PtrSearches
<1>8. Advance(t, f, match, out) /\ NextAfter(f) = next[f.entry]
  BY <1>1, <1>7 DEF Visit, NextAfter
<1>9. CASE ~(match \/ next[f.entry] = NULL)
  <2>1. PICK g : g = [f EXCEPT !.entry = next[f.entry], !.nxt = NULL, !.pc = "visit",
                               !.i = IF f.op = "linked_list_getByIndex" THEN f.i + 1 ELSE 0,
                               !.arg = IF f.op = "linked_list_forEach" THEN NULL ELSE @]
    OBVIOUS
  <2>2. Go(t, g)
    BY <1>8, <1>9, <2>1 DEF Advance, WalkOn
  <2>3. g.pc = "visit"
    BY <1>2, <2>1 DEF CallType
  <2>4. stack'[t] = <<g>> \o Tail(stack[t])
    BY <1>2, <2>2, <2>3 DEF Go, Frames
  <2>5. stack'[t][1] = g
    BY <1>2, <2>4 DEF Frames
  <2> QED
    BY <1>1, <2>3, <2>5
<1>10. CASE match \/ next[f.entry] = NULL
  <2>1. PICK g : g = Clearing(Found(f, out))
    OBVIOUS
  <2>2. Go(t, g)
    BY <1>8, <1>10, <2>1 DEF Advance, WalkOn
  <2>3. g.pc = "clear" /\ g.entry = out
    BY <1>2, <2>1 DEF Clearing, Found, CallType
  <2>4. stack'[t] = <<g>> \o Tail(stack[t])
    BY <1>2, <2>2, <2>3 DEF Go, Frames
  <2>5. stack'[t][1].entry = out
    BY <1>2, <2>3, <2>4 DEF Frames
  <2>6. n \in Nat
    BY <1>2, FS_Subset, FS_CardinalityType, ListAssumption DEF LinkTyped
  <2>7. DOMAIN s = 1..n
    BY DEF Orders
  <2>8. \A i \in 0..n : next[IF i = 0 THEN HEAD ELSE s[i]] = IF i = n THEN NULL ELSE s[i + 1]
    BY DEF Orders, Chain
  <2>9. \A i \in 1..n : s[i] \in Entries
    BY <1>2 DEF Orders, LinkTyped
  <2>10. AtFirst(f)
    BY <1>1, <1>2 DEF Seeks
  <2> HIDE DEF n, match, out, f
  <2>11. PICK p \in 1..n : /\ f.entry = s[p] /\ (f.op = "linked_list_getByIndex" => f.i = p - 1)
                           /\ \A q \in 1..(p - 1) : ~Hit(f, s, q)
    BY <2>10 DEF AtFirst, Reaches, n
  <2>12. p \in Int /\ p \in 0..n /\ p # 0
    BY <2>6
  <2>13. Hit(f, s, p) <=> match
    BY <1>1, <1>2, <2>11, <2>12, HitHere DEF match
  <2>14. CASE match
    <3>1. FirstMatch(f, s) = s[p]
      BY <2>6, <2>7, <2>11, <2>13, <2>14, FirstIs
    <3> QED
      BY <2>5, <2>11, <2>14, <3>1 DEF out, f
  <2>15. CASE ~match
    <3>1. p = n
      <4>1. next[s[p]] = NULL
        BY <1>10, <2>11, <2>15
      <4>2. p # n => s[p + 1] \in Entries
        BY <2>6, <2>9, <2>12
      <4>3. next[s[p]] = IF p = n THEN NULL ELSE s[p + 1]
        BY <2>8, <2>12
      <4> QED
        BY <4>1, <4>2, <4>3, ListAssumption
    <3>2. ASSUME NEW i \in 1..n PROVE ~Hit(f, s, i)
      <4>1. i = p \/ i \in 1..(p - 1)
        BY <2>6, <3>1
      <4> QED
        BY <2>11, <2>13, <2>15, <4>1
    <3>3. FirstMatch(f, s) = NULL
      BY <2>6, <2>7, <3>2, FirstIs
    <3> QED
      BY <2>5, <2>15, <3>3 DEF out, f
  <2> QED
    BY <2>14, <2>15
<1> QED
  BY <1>9, <1>10

\* A walk of linked_list_getByPtr, linked_list_hasPtr, linked_list_getById,
\* linked_list_getByIndex or linked_list_removeEntryByPtr ends with the first
\* entry of the list, as it is then, that matches, and with none only if none
\* does.  The index is counted as the walk goes, and other threads push and set
\* ids between its steps.
THEOREM SearchFinds ==
  Spec => SearchExact
<1>1. TurnInv /\ [Next]_vars =>
        (\A t \in Threads : EndsSearch(t) => \A s \in Orders : stack'[t][1].entry = FirstMatch(Top(t), s))
  BY SearchEnds
<1> QED
  BY <1>1, TurnsKept, PTL DEF Spec, SearchExact

============================================================================
