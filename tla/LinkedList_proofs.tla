-------------------------- MODULE LinkedList_proofs --------------------------
(***************************************************************************)
(* The links of the tracking list, for every number of threads, entries    *)
(* and keys.  The invariant says that the links are those of a sequence s  *)
(* of n distinct entries; what a push, a removal and a pop do to s is      *)
(* proved first, on the links alone, and then for every step of a thread.  *)
(***************************************************************************)
EXTENDS LinkedList, FiniteSetTheorems, SequenceTheorems, TLAPS

----------------------------------------------------------------------------
(* The chain *)

\* The i-th node of the list s, the dummy entry before the first
Node(s, i) == IF i = 0 THEN HEAD ELSE s[i]

\* The links, firstEntry and lastEntry are those of the list of s[1], ..., s[n].
Linked(n, s) ==
  /\ \A i, j \in 1..n : s[i] = s[j] => i = j
  /\ \A i \in 1..n : previous[s[i]] = Node(s, i - 1)
  /\ \A i \in 0..n : next[Node(s, i)] = IF i = n THEN NULL ELSE s[i + 1]
  /\ firstEntry = IF n = 0 THEN HEAD ELSE s[1]
  /\ lastEntry = Node(s, n)

\* s lists the allocated entries.
Holds(n, s) == alive = {s[i] : i \in 1..n}

LinkType ==
  /\ next \in [Entries \cup {HEAD} -> Entries \cup {NULL}]
  /\ previous \in [Entries \cup {HEAD} -> Entries \cup {HEAD, NULL}]

\* linked_list_push: the new entry is the last of the list.
LEMMA LinkKeeps ==
  ASSUME LinkType, NEW n \in Nat, NEW s \in [1..n -> Entries], Linked(n, s), Holds(n, s),
         NEW e \in Entries \ alive, NEW d, Link(e, d)
  PROVE  \E r \in [1..(n + 1) -> Entries] : Linked(n + 1, r)' /\ Holds(n + 1, r)'
<1> DEFINE r == [i \in 1..(n + 1) |-> IF i = n + 1 THEN e ELSE s[i]]
<1>1. /\ next' = [next EXCEPT ![lastEntry] = e, ![e] = NULL]
      /\ previous' = [previous EXCEPT ![e] = lastEntry]
      /\ lastEntry' = e /\ alive' = alive \cup {e}
      /\ firstEntry' = IF firstEntry = HEAD THEN e ELSE firstEntry
  BY DEF Link, LinkLast
<1>2. r \in [1..(n + 1) -> Entries] /\ r[n + 1] = e /\ \A i \in 1..n : r[i] = s[i]
  OBVIOUS
<1>3. \A i \in 1..n : s[i] # e /\ s[i] \in Entries /\ s[i] # HEAD
  BY ListAssumption DEF Holds
<1>4. e # HEAD /\ lastEntry # e /\ lastEntry \in Entries \cup {HEAD}
  BY <1>3, ListAssumption DEF Linked, Node
<1>5. /\ next'[e] = NULL /\ next'[lastEntry] = e
      /\ \A x \in (Entries \cup {HEAD}) \ {e, lastEntry} : next'[x] = next[x]
      /\ previous'[e] = lastEntry
      /\ \A x \in (Entries \cup {HEAD}) \ {e} : previous'[x] = previous[x]
  BY <1>1, <1>4 DEF LinkType
<1> HIDE DEF r
<1>6. \A i, j \in 1..(n + 1) : r[i] = r[j] => i = j
  BY <1>2, <1>3 DEF Linked
<1>7. ASSUME NEW i \in 1..(n + 1) PROVE previous'[r[i]] = Node(r, i - 1)
  <2>1. CASE i = n + 1
    BY <1>2, <1>5, <2>1 DEF Linked, Node
  <2>2. CASE i # n + 1
    <3>1. i \in 1..n /\ r[i] = s[i] /\ previous'[r[i]] = Node(s, i - 1)
      BY <1>2, <1>3, <1>5, <2>2 DEF Linked
    <3> QED
      BY <1>2, <3>1 DEF Node
  <2> QED
    BY <2>1, <2>2
<1>8. ASSUME NEW i \in 0..(n + 1) PROVE next'[Node(r, i)] = IF i = n + 1 THEN NULL ELSE r[i + 1]
  <2>1. CASE i = n + 1
    BY <1>2, <1>5, <2>1 DEF Node
  <2>2. CASE i = n
    BY <1>2, <1>5, <2>2 DEF Node, Linked
  <2>3. CASE i \in 0..(n - 1)
    <3>1. Node(r, i) = Node(s, i) /\ r[i + 1] = s[i + 1] /\ next[Node(s, i)] = s[i + 1]
      BY <1>2, <2>3 DEF Node, Linked
    <3>2. Node(s, i) \in (Entries \cup {HEAD}) \ {e, lastEntry}
      BY <1>3, <1>4, <2>3 DEF Node, Linked
    <3> QED
      BY <1>5, <2>3, <3>1, <3>2
  <2> QED
    BY <2>1, <2>2, <2>3
<1>9. firstEntry' = r[1]
  BY <1>1, <1>2, <1>3 DEF Linked
<1>10. lastEntry' = Node(r, n + 1)
  BY <1>1, <1>2 DEF Node
<1>11. Linked(n + 1, r)'
  BY <1>6, <1>7, <1>8, <1>9, <1>10 DEF Linked
<1>12. alive' = {r[i] : i \in 1..(n + 1)}
  BY <1>1, <1>2 DEF Holds
<1> QED
  BY <1>2, <1>11, <1>12 DEF Holds

\* linked_list_pop: the last of the list goes.
LEMMA PopKeeps ==
  ASSUME LinkType, NEW n \in Nat, NEW s \in [1..n -> Entries], Linked(n, s), Holds(n, s),
         lastEntry # HEAD, DropLast
  PROVE  /\ n > 0
         /\ \E r \in [1..(n - 1) -> Entries] : Linked(n - 1, r)' /\ Holds(n - 1, r)'
<1> DEFINE e == lastEntry
           p == previous[lastEntry]
           r == [i \in 1..(n - 1) |-> s[i]]
<1>1. n > 0 /\ e = s[n] /\ p = Node(s, n - 1)
  BY DEF Linked, Node
<1>2. /\ alive' = alive \ {e}
      /\ next' = [next EXCEPT ![p] = NULL, ![e] = NULL]
      /\ previous' = [previous EXCEPT ![e] = NULL]
      /\ lastEntry' = p
      /\ firstEntry' = IF p = HEAD THEN HEAD ELSE firstEntry
  BY DEF DropLast, Destroyed
<1>3. r \in [1..(n - 1) -> Entries] /\ \A i \in 1..(n - 1) : r[i] = s[i]
  OBVIOUS
<1>4. /\ \A i \in 1..n : s[i] \in Entries /\ s[i] # HEAD
      /\ \A i \in 1..(n - 1) : s[i] # e
  BY <1>1, ListAssumption DEF Linked
<1>5. p \in Entries \cup {HEAD} /\ e \in Entries /\ p # e
  BY <1>1, <1>4, ListAssumption DEF Node
<1>6. /\ next'[p] = NULL
      /\ \A x \in (Entries \cup {HEAD}) \ {e, p} : next'[x] = next[x]
      /\ \A x \in (Entries \cup {HEAD}) \ {e} : previous'[x] = previous[x]
  BY <1>2, <1>5 DEF LinkType
<1> HIDE DEF r, e, p
<1>7. \A i, j \in 1..(n - 1) : r[i] = r[j] => i = j
  BY <1>3 DEF Linked
<1>8. ASSUME NEW i \in 1..(n - 1) PROVE previous'[r[i]] = Node(r, i - 1)
  <2>1. r[i] = s[i] /\ previous'[r[i]] = Node(s, i - 1)
    BY <1>3, <1>4, <1>6 DEF Linked
  <2> QED
    BY <1>3, <2>1 DEF Node
<1>9. ASSUME NEW i \in 0..(n - 1) PROVE next'[Node(r, i)] = IF i = n - 1 THEN NULL ELSE r[i + 1]
  <2>1. Node(r, i) = Node(s, i)
    BY <1>3 DEF Node
  <2>2. CASE i = n - 1
    BY <1>1, <1>6, <2>1, <2>2
  <2>3. CASE i # n - 1
    <3>1. i \in 0..n /\ i # n /\ next[Node(s, i)] = s[i + 1] /\ r[i + 1] = s[i + 1]
      BY <1>3, <2>3 DEF Linked
    <3>2. Node(s, i) \in (Entries \cup {HEAD}) \ {e, p}
      BY <1>1, <1>4, <1>5, <2>3, ListAssumption DEF Node, Linked
    <3> QED
      BY <1>6, <2>1, <2>3, <3>1, <3>2
  <2> QED
    BY <2>2, <2>3
<1>10. firstEntry' = IF n - 1 = 0 THEN HEAD ELSE r[1]
  BY <1>1, <1>2, <1>3, <1>4 DEF Linked, Node
<1>11. lastEntry' = Node(r, n - 1)
  BY <1>1, <1>2, <1>3 DEF Node
<1>12. Linked(n - 1, r)'
  BY <1>7, <1>8, <1>9, <1>10, <1>11 DEF Linked
<1>13. alive' = {r[i] : i \in 1..(n - 1)}
  BY <1>1, <1>2, <1>3, <1>4 DEF Holds
<1> QED
  BY <1>1, <1>3, <1>12, <1>13 DEF Holds

\* linked_list_removeEntry of the q-th entry, which is not the last.
LEMMA UnlinkKeeps ==
  ASSUME LinkType, NEW n \in Nat, NEW s \in [1..n -> Entries], Linked(n, s), Holds(n, s),
         NEW q \in 1..n, lastEntry # s[q], Unlink(s[q])
  PROVE  \E r \in [1..(n - 1) -> Entries] : Linked(n - 1, r)' /\ Holds(n - 1, r)'
<1> DEFINE e == s[q]
           r == [i \in 1..(n - 1) |-> IF i < q THEN s[i] ELSE s[i + 1]]
<1>1. q \in 1..(n - 1) /\ n > 0
  BY DEF Linked, Node
<1>2. /\ alive' = alive \ {e}
      /\ next' = [x \in Entries \cup {HEAD} |->
                    CASE x = e -> NULL [] x = previous[e] -> next[e] [] OTHER -> next[x]]
      /\ previous' = [x \in Entries \cup {HEAD} |->
                        CASE x = e -> NULL [] x = next[e] -> previous[e] [] OTHER -> previous[x]]
      /\ lastEntry' = lastEntry
      /\ firstEntry' = IF firstEntry = e THEN next[e] ELSE firstEntry
  BY DEF Unlink, Bypass, Destroyed, LinkType
<1>3. next[e] = s[q + 1] /\ previous[e] = Node(s, q - 1)
  BY <1>1 DEF Linked, Node
<1>4. \A i \in 1..n : s[i] \in Entries /\ s[i] # HEAD /\ (s[i] = e <=> i = q)
  BY ListAssumption DEF Linked
<1>5. previous[e] # e /\ next[e] # e /\ previous[e] \in Entries \cup {HEAD} /\ next[e] \in Entries
      /\ e \in Entries /\ e # HEAD
  BY <1>1, <1>3, <1>4, ListAssumption DEF Node
<1>6. /\ next'[previous[e]] = next[e]
      /\ \A x \in (Entries \cup {HEAD}) \ {e, previous[e]} : next'[x] = next[x]
      /\ previous'[next[e]] = previous[e]
      /\ \A x \in (Entries \cup {HEAD}) \ {e, next[e]} : previous'[x] = previous[x]
  BY <1>2, <1>5
<1>7. /\ r \in [1..(n - 1) -> Entries]
      /\ \A i \in 1..(n - 1) : r[i] = IF i < q THEN s[i] ELSE s[i + 1]
  <2>1. \A i \in 1..(n - 1) : i \in 1..n /\ i + 1 \in 1..n
    BY <1>1
  <2> QED
    BY <2>1
<1> HIDE DEF r, e
<1>8. \A i, j \in 1..(n - 1) : r[i] = r[j] => i = j
  BY <1>7 DEF Linked
<1>9. ASSUME NEW i \in 1..(n - 1) PROVE previous'[r[i]] = Node(r, i - 1)
  <2>1. CASE i < q
    <3>1. i \in 1..n /\ r[i] = s[i] /\ s[i] # e /\ s[i] # s[q + 1] /\ s[i] \in Entries
      BY <1>1, <1>4, <1>7, <2>1 DEF Linked
    <3>2. previous'[r[i]] = Node(s, i - 1)
      BY <1>3, <1>6, <3>1 DEF Linked
    <3> QED
      BY <1>7, <2>1, <3>2 DEF Node
  <2>2. CASE i = q
    <3>1. r[i] = next[e] /\ previous'[r[i]] = Node(s, i - 1)
      BY <1>3, <1>6, <1>7, <2>2
    <3> QED
      BY <1>1, <1>7, <2>2, <3>1 DEF Node
  <2>3. CASE i > q
    <3>1. i + 1 \in 1..n /\ r[i] = s[i + 1] /\ s[i + 1] # e /\ s[i + 1] # s[q + 1] /\ s[i + 1] \in Entries
      BY <1>1, <1>4, <1>7, <2>3 DEF Linked
    <3>2. previous'[r[i]] = Node(s, i)
      BY <1>3, <1>6, <3>1 DEF Linked
    <3>3. Node(s, i) = s[i] /\ Node(r, i - 1) = s[i]
      BY <1>1, <1>7, <2>3 DEF Node
    <3> QED
      BY <3>2, <3>3
  <2> QED
    BY <1>1, <2>1, <2>2, <2>3
<1>10. ASSUME NEW i \in 0..(n - 1) PROVE next'[Node(r, i)] = IF i = n - 1 THEN NULL ELSE r[i + 1]
  <2>1. CASE i < q - 1
    <3>1. Node(r, i) = Node(s, i) /\ i \in 0..n /\ i # n /\ i # n - 1 /\ r[i + 1] = s[i + 1]
      BY <1>1, <1>7, <2>1 DEF Node
    <3>2. Node(s, i) \in (Entries \cup {HEAD}) \ {e, previous[e]}
      BY <1>1, <1>3, <1>4, <2>1, ListAssumption DEF Node, Linked
    <3>3. next[Node(s, i)] = s[i + 1]
      BY <3>1 DEF Linked
    <3> QED
      BY <1>6, <3>1, <3>2, <3>3
  <2>2. CASE i = q - 1
    <3>1. Node(r, i) = previous[e]
      BY <1>1, <1>3, <1>7, <2>2 DEF Node
    <3>2. r[i + 1] = s[q + 1] /\ i # n - 1
      BY <1>1, <1>7, <2>2
    <3> QED
      BY <1>3, <1>6, <3>1, <3>2
  <2>3. CASE i > q - 1
    <3>1. Node(r, i) = s[i + 1] /\ i + 1 \in 1..n
      BY <1>1, <1>7, <2>3 DEF Node
    <3>2. s[i + 1] \in (Entries \cup {HEAD}) \ {e, previous[e]}
      BY <1>1, <1>3, <1>4, <2>3, <3>1 DEF Node, Linked
    <3>3. next[s[i + 1]] = IF i + 1 = n THEN NULL ELSE s[i + 2]
      BY <3>1 DEF Linked, Node
    <3>4. i # n - 1 => r[i + 1] = s[i + 2]
      BY <1>1, <1>7, <2>3
    <3> QED
      BY <1>6, <3>1, <3>2, <3>3, <3>4
  <2> QED
    BY <1>1, <2>1, <2>2, <2>3
<1>11. firstEntry' = IF n - 1 = 0 THEN HEAD ELSE r[1]
  <2>1. firstEntry = s[1] /\ n - 1 # 0
    BY <1>1 DEF Linked
  <2> QED
    BY <1>1, <1>2, <1>3, <1>4, <1>7, <2>1
<1>12. lastEntry' = Node(r, n - 1)
  BY <1>1, <1>2, <1>7 DEF Node, Linked
<1>13. Linked(n - 1, r)'
  BY <1>8, <1>9, <1>10, <1>11, <1>12 DEF Linked
<1>14. alive' = {r[i] : i \in 1..(n - 1)}
  <2>1. ASSUME NEW i \in 1..(n - 1) PROVE r[i] \in alive'
    <3>1. PICK j \in 1..n : j # q /\ r[i] = s[j]
      BY <1>1, <1>7
    <3> QED
      BY <1>2, <1>4, <3>1 DEF Holds
  <2>2. ASSUME NEW x \in alive' PROVE \E i \in 1..(n - 1) : x = r[i]
    <3>1. PICK j \in 1..n : x = s[j] /\ j # q
      BY <1>2, <1>4, <2>2 DEF Holds, e
    <3>2. CASE j < q
      BY <1>1, <1>7, <3>1, <3>2
    <3>3. CASE j > q
      <4>1. j - 1 \in 1..(n - 1) /\ ~(j - 1 < q) /\ (j - 1) + 1 = j
        BY <1>1, <3>3
      <4>2. r[j - 1] = s[j]
        BY <1>7, <4>1
      <4> QED
        BY <3>1, <4>1, <4>2
    <3> QED
      BY <3>1, <3>2, <3>3
  <2> QED
    BY <2>1, <2>2
<1> QED
  BY <1>7, <1>13, <1>14 DEF Holds

----------------------------------------------------------------------------
(* The calls *)

\* Where a call stands, or goes once locker_tid is reset
Stage(f) == IF f.pc = "clear" THEN f.then ELSE f.pc

Exits == {"sn_debug_crash", "doexit", "linked_list_destroy"}
Walking == Searches \cup Exits \cup {"linked_list_forEach"}

\* Which function can stand where, and what it then has in hand
FrameOK(f) ==
  /\ f.pc # "return" /\ (f.pc = "clear" => f.then \notin {"clear", "callback", "enter", "visit"})
  /\ Stage(f) = "outer" => f.op \in Wrapped
  /\ Stage(f) \in {"first", "enter", "visit"} => f.op \in Walking
  /\ Stage(f) = "callback" => f.op = "linked_list_forEach"
  /\ Stage(f) = "unlink" => f.op = "linked_list_removeEntryByPtr"
  /\ Stage(f) = "linked_list_pop" => f.op \in {"linked_list_pop", "linked_list_removeEntryByPtr"}
  /\ Stage(f) = "unlock" => f.op \in {"linked_list_hasPtr", "linked_list_removeEntryByPtr"}
  /\ Stage(f) = "linked_list_push" => f.op = "linked_list_push"
  /\ Stage(f) = "set" => f.op \in {"linked_list_entry_setData", "linked_list_entry_setBlockId"}
  /\ Stage(f) \in {"note", "touch"} => f.op \in Getters
  /\ Stage(f) = "report" => f.op = "sn_debug_crash"
  /\ Stage(f) = "next walk" => f.op \in Exits
  /\ f.op = "linked_list_destroy" => Stage(f) \in {"first", "enter", "visit", "next walk"}
  /\ Stage(f) \in {"set", "visit", "callback", "note", "touch", "unlink"} => f.entry \in Entries
  /\ Stage(f) = "unlock" => f.entry \in Entries \cup {NULL}
  /\ Stage(f) = "set" /\ f.op = "linked_list_entry_setData" => f.arg \in Keys
  /\ Stage(f) = "set" /\ f.op = "linked_list_entry_setBlockId" => f.arg \in Nat
  /\ Stage(f) = "linked_list_push" => f.arg \in Keys \cup {NULL}

GoodFrame == {f \in CallType : FrameOK(f)}

Frames == stack \in [Threads -> Seq(GoodFrame)]

\* How the frame f of thread t may go on as g
Onward(t, g) ==
  /\ g.pc # "return" => g \in GoodFrame
  /\ Top(t).op = "linked_list_destroy" => g.op = "linked_list_destroy" /\ g.pc # "return"

LEMMA TopGood ==
  ASSUME Frames, NEW t \in Threads, stack[t] # << >>
  PROVE  Top(t) \in GoodFrame /\ 1 \in DOMAIN stack[t] /\ Top(t) = stack[t][1]
  BY DEF Frames, Top

LEMMA GoFrames ==
  ASSUME Frames, NEW t \in Threads, stack[t] # << >>, NEW g, Go(t, g), Onward(t, g)
  PROVE  /\ Frames'
         /\ \A u \in Threads : Destroys(u) => Destroys(u)'
<1>1. stack \in [Threads -> Seq(GoodFrame)] /\ stack[t] \in Seq(GoodFrame)
  BY DEF Frames
<1>2. /\ \A u \in Threads \ {t} : stack'[u] = stack[u]
      /\ stack'[t] = IF g.pc = "return" THEN Tail(stack[t]) ELSE <<g>> \o Tail(stack[t])
      /\ DOMAIN stack' = Threads /\ stack' = [u \in Threads |-> stack'[u]]
  BY <1>1 DEF Go
<1>3. Tail(stack[t]) \in Seq(GoodFrame)
  BY <1>1
<1>4. CASE g.pc = "return"
  <2>1. stack'[t] = Tail(stack[t]) /\ stack'[t] \in Seq(GoodFrame)
    BY <1>2, <1>3, <1>4
  <2>2. Frames'
    BY <1>1, <1>2, <2>1 DEF Frames
  <2>3. Destroys(t) => Destroys(t)'
    <3> SUFFICES ASSUME NEW k \in DOMAIN stack[t], stack[t][k].op = "linked_list_destroy"
                 PROVE  \E j \in DOMAIN stack'[t] : stack'[t][j].op = "linked_list_destroy"
      BY DEF Destroys
    <3>1. k # 1
      BY <1>4, TopGood DEF Onward
    <3>2. k \in 2..Len(stack[t])
      BY <1>1, <3>1
    <3>3. k - 1 \in DOMAIN Tail(stack[t]) /\ Tail(stack[t])[k - 1] = stack[t][k]
      BY <1>1, <3>2
    <3> QED
      BY <2>1, <3>3
  <2> QED
    BY <1>2, <2>2, <2>3 DEF Destroys
<1>5. CASE g.pc # "return"
  <2>1. stack'[t] = <<g>> \o Tail(stack[t]) /\ g \in GoodFrame
    BY <1>2, <1>5 DEF Onward
  <2>2. /\ stack'[t] \in Seq(GoodFrame) /\ DOMAIN stack'[t] = DOMAIN stack[t]
        /\ stack'[t][1] = g /\ \A k \in 2..Len(stack[t]) : stack'[t][k] = stack[t][k]
    BY <1>1, <1>3, <2>1
  <2>3. Frames'
    BY <1>1, <1>2, <2>2 DEF Frames
  <2>4. Destroys(t) => Destroys(t)'
    <3> SUFFICES ASSUME NEW k \in DOMAIN stack[t], stack[t][k].op = "linked_list_destroy"
                 PROVE  \E j \in DOMAIN stack'[t] : stack'[t][j].op = "linked_list_destroy"
      BY DEF Destroys
    <3>1. CASE k = 1
      BY <2>2, <3>1, TopGood DEF Onward
    <3>2. CASE k # 1
      <4>1. k \in 2..Len(stack[t])
        BY <1>1, <3>2
      <4> QED
        BY <2>2, <4>1
    <3> QED
      BY <3>1, <3>2
  <2> QED
    BY <1>2, <2>3, <2>4 DEF Destroys
<1> QED
  BY <1>4, <1>5

\* A frame with some fields replaced
LEMMA Replaced ==
  ASSUME NEW f \in CallType, NEW e \in Entries \cup {HEAD, NULL}, NEW x \in Entries \cup {NULL},
         NEW i \in Nat, NEW p \in Points, NEW q \in Points, NEW a \in Keys \cup Nat \cup {NULL}
  PROVE  /\ [f EXCEPT !.pc = p] \in CallType
         /\ [f EXCEPT !.entry = e, !.pc = p] \in CallType
         /\ [f EXCEPT !.entry = e, !.nxt = x, !.i = i, !.pc = p] \in CallType
         /\ [f EXCEPT !.entry = e, !.nxt = x, !.pc = p, !.i = i, !.arg = a] \in CallType
         /\ [f EXCEPT !.pc = p, !.nxt = x] \in CallType
         /\ [f EXCEPT !.pc = p, !.then = q] \in CallType
<1>1. [f EXCEPT !.pc = p] \in CallType
  BY DEF CallType
<1>2. [f EXCEPT !.entry = e, !.pc = p] \in CallType
  BY DEF CallType
<1>3. [f EXCEPT !.entry = e, !.nxt = x, !.i = i, !.pc = p] \in CallType
  BY DEF CallType
<1>4. [f EXCEPT !.entry = e, !.nxt = x, !.pc = p, !.i = i, !.arg = a] \in CallType
  BY DEF CallType
<1>5. [f EXCEPT !.pc = p, !.nxt = x] \in CallType
  BY DEF CallType
<1>6. [f EXCEPT !.pc = p, !.then = q] \in CallType
  BY DEF CallType
<1> QED
  BY <1>1, <1>2, <1>3, <1>4, <1>5, <1>6

\* What follows a walk that found out
LEMMA FoundGood ==
  ASSUME NEW f \in GoodFrame, f.op \in Walking, NEW out \in Entries \cup {NULL}
  PROVE  /\ Found(f, out) \in CallType /\ Found(f, out).op = f.op
         /\ Found(f, out).entry = out /\ Found(f, out).pc = After(f.op, out)
         /\ Found(f, out).pc # "return" => Found(f, out) \in GoodFrame
         /\ f.op = "linked_list_destroy" => Found(f, out).pc = "next walk"
         /\ Clearing(Found(f, out)) \in GoodFrame /\ Clearing(Found(f, out)).op = f.op
<1>1. PICK op \in Walking : op = f.op
  OBVIOUS
<1>2. PICK p : p = After(op, out)
  OBVIOUS
<1>3. /\ p \in {"unlock", "unlink", "return", "note", "next walk"}
      /\ p = "unlock" => op \in {"linked_list_hasPtr", "linked_list_removeEntryByPtr"}
      /\ p = "unlink" => op = "linked_list_removeEntryByPtr" /\ out # NULL
      /\ p = "note" => op \in Getters /\ out # NULL
      /\ p = "next walk" <=> op \in Exits
  BY <1>2 DEF After, Walking, Searches, PtrSearches, Getters, Exits
<1>4. PICK g : g = Found(f, out)
  OBVIOUS
<1>5. g = [f EXCEPT !.entry = out, !.nxt = NULL, !.i = 0, !.pc = p]
  BY <1>1, <1>2, <1>4 DEF Found
<1>6. f \in CallType /\ 0 \in Nat /\ NULL \in Entries \cup {NULL} /\ p \in Points
  BY <1>3 DEF GoodFrame, Points
<1>7. g \in CallType
  BY <1>5, <1>6, Replaced
<1>8. g.op = op /\ g.entry = out /\ g.pc = p
  BY <1>1, <1>5, <1>6 DEF CallType
<1>9. op = "linked_list_destroy" => p = "next walk"
  BY <1>3 DEF Exits
<1>10. p # "return" => FrameOK(g)
  BY <1>3, <1>8, <1>9 DEF FrameOK, Stage
<1>11. p # "return" => g \in GoodFrame
  BY <1>7, <1>10 DEF GoodFrame
<1>12. /\ Clearing(g) \in CallType /\ Clearing(g).pc = "clear" /\ Clearing(g).then = p
       /\ Clearing(g).op = op /\ Clearing(g).entry = out
  BY <1>7, <1>8 DEF Clearing, CallType, Points
<1>13. FrameOK(Clearing(g))
  BY <1>3, <1>9, <1>12 DEF FrameOK, Stage
<1> QED
  BY <1>1, <1>2, <1>4, <1>7, <1>8, <1>9, <1>11, <1>12, <1>13 DEF GoodFrame

\* A frame that clears locker_tid, and goes on at p
LEMMA ClearingGood ==
  ASSUME NEW g \in CallType, g.pc \notin {"clear", "callback", "enter", "visit"},
         g.pc = "return" => g.op # "linked_list_destroy",
         g.pc # "return" => FrameOK(g)
  PROVE  Clearing(g) \in GoodFrame /\ Clearing(g).op = g.op /\ Clearing(g).pc = "clear"
<1>1. /\ Clearing(g) \in CallType /\ Clearing(g).pc = "clear" /\ Clearing(g).then = g.pc
      /\ Clearing(g).op = g.op /\ Clearing(g).entry = g.entry /\ Clearing(g).arg = g.arg
  BY DEF Clearing, CallType, Points
<1> QED
  BY <1>1 DEF FrameOK, Stage, GoodFrame

----------------------------------------------------------------------------
(* The list while the program runs *)

LinkTyped ==
  /\ alive \subseteq Entries /\ LinkType
  /\ firstEntry \in Entries \cup {HEAD, NULL} /\ lastEntry \in Entries \cup {HEAD}

\* The links are those of a list of the allocated entries, which len covers.
Listed ==
  \E n \in Nat : \E s \in [1..n -> Entries] : Linked(n, s) /\ Holds(n, s) /\ len \in Nat /\ n <= len

Whole == (\A t \in Threads : ~Destroys(t)) => Listed

LinkInv == status = "running" => LinkTyped /\ Frames /\ Whole

LEMMA LinksSame ==
  ASSUME LinkTyped, Whole, UNCHANGED links, \A u \in Threads : Destroys(u) => Destroys(u)'
  PROVE  LinkTyped' /\ Whole'
<1>1. LinkTyped'
  BY DEF LinkTyped, LinkType, links
<1>2. ASSUME Listed PROVE Listed'
  <2>1. PICK n \in Nat : \E s \in [1..n -> Entries] : Linked(n, s) /\ Holds(n, s) /\ len \in Nat /\ n <= len
    BY <1>2 DEF Listed
  <2>2. PICK s \in [1..n -> Entries] : Linked(n, s) /\ Holds(n, s) /\ len \in Nat /\ n <= len
    BY <2>1
  <2>3. Linked(n, s)' /\ Holds(n, s)' /\ len' \in Nat /\ n <= len'
    BY <2>2 DEF Linked, Holds, links
  <2> QED
    BY <2>3 DEF Listed
<1> QED
  BY <1>1, <1>2 DEF Whole

\* A call that leaves the links alone
LEMMA GoesOn ==
  ASSUME LinkTyped, Frames, Whole, NEW t \in Threads, stack[t] # << >>, NEW g, Go(t, g), Onward(t, g),
         UNCHANGED links
  PROVE  LinkInv'
  BY GoFrames, LinksSame DEF LinkInv

\* A call that changes the list as one of the three lemmas says
LEMMA Relists ==
  ASSUME Frames, Whole, NEW t \in Threads, stack[t] # << >>, NEW g, Go(t, g), Onward(t, g),
         LinkTyped', Listed => Listed'
  PROVE  LinkInv'
  BY GoFrames DEF LinkInv, Whole

\* The frame of t goes on at p, which is not the end of a walk.
LEMMA OnwardTo ==
  ASSUME NEW t \in Threads, Top(t) \in GoodFrame, NEW g \in CallType, g.op = Top(t).op,
         g.pc # "return" => FrameOK(g), g.pc = "return" => Top(t).op # "linked_list_destroy"
  PROVE  Onward(t, g)
  BY DEF Onward, GoodFrame

LEMMA LinkInvPush ==
  ASSUME LinkInv, NEW t \in Threads, linked_list_push(t), status' = "running"
  PROVE  LinkInv'
<1> DEFINE f == Top(t)
           g == [f EXCEPT !.pc = "return"]
<1>1. LinkTyped /\ Frames /\ Whole /\ stack[t] # << >> /\ f.pc = "linked_list_push"
  BY DEF LinkInv, linked_list_push, At
<1>2. PICK e \in Entries \ alive : Link(e, f.arg)
  BY DEF linked_list_push
<1>3. Go(t, Clearing(g)) /\ {lastEntry, firstEntry} \subseteq alive \cup {HEAD}
  BY DEF linked_list_push, Touches
<1>4. f \in GoodFrame /\ f \in CallType /\ FrameOK(f)
  BY <1>1, TopGood DEF GoodFrame
<1>5. f.op = "linked_list_push"
  BY <1>1, <1>4 DEF FrameOK, Stage
<1>6. g \in CallType /\ g.op = f.op /\ g.pc = "return"
  BY <1>4 DEF CallType, Points
<1> HIDE DEF g
<1>7. Clearing(g) \in GoodFrame /\ Clearing(g).op = f.op
  BY <1>5, <1>6, ClearingGood
<1>8. Onward(t, Clearing(g))
  BY <1>5, <1>7 DEF Onward
<1>9. LinkTyped'
  BY <1>1, <1>2, <1>3 DEF LinkTyped, LinkType, Link, LinkLast
<1>10. ASSUME Listed PROVE Listed'
  <2>1. PICK n \in Nat : \E s \in [1..n -> Entries] : Linked(n, s) /\ Holds(n, s) /\ len \in Nat /\ n <= len
    BY <1>10 DEF Listed
  <2>2. PICK s \in [1..n -> Entries] : Linked(n, s) /\ Holds(n, s) /\ len \in Nat /\ n <= len
    BY <2>1
  <2>3. PICK d : d = f.arg
    OBVIOUS
  <2>4. \E r \in [1..(n + 1) -> Entries] : Linked(n + 1, r)' /\ Holds(n + 1, r)'
    BY <1>1, <1>2, <2>2, <2>3, LinkKeeps DEF LinkTyped
  <2>5. len' = len + 1
    BY <1>2 DEF Link, LinkLast
  <2> QED
    BY <2>2, <2>4, <2>5 DEF Listed
<1> QED
  BY <1>1, <1>3, <1>8, <1>9, <1>10, Relists

LEMMA LinkInvSet ==
  ASSUME LinkInv, NEW t \in Threads, linked_list_entry_set(t), status' = "running"
  PROVE  LinkInv'
<1> DEFINE f == Top(t)
           g == [f EXCEPT !.pc = "return"]
<1>1. LinkTyped /\ Frames /\ Whole /\ stack[t] # << >> /\ f.pc = "set"
  BY DEF LinkInv, linked_list_entry_set, At
<1>2. Go(t, Clearing(g)) /\ UNCHANGED links
  BY DEF linked_list_entry_set
<1>3. f \in GoodFrame /\ f \in CallType /\ FrameOK(f)
  BY <1>1, TopGood DEF GoodFrame
<1>4. f.op # "linked_list_destroy"
  BY <1>1, <1>3 DEF FrameOK, Stage
<1>5. g \in CallType /\ g.op = f.op /\ g.pc = "return"
  BY <1>3 DEF CallType, Points
<1> HIDE DEF g
<1>6. Clearing(g) \in GoodFrame /\ Clearing(g).op = f.op
  BY <1>4, <1>5, ClearingGood
<1>7. Onward(t, Clearing(g))
  BY <1>4, <1>6 DEF Onward
<1> QED
  BY <1>1, <1>2, <1>7, GoesOn

LEMMA LinkInvPop ==
  ASSUME LinkInv, NEW t \in Threads, linked_list_pop(t), status' = "running"
  PROVE  LinkInv'
<1> DEFINE f == Top(t)
           p == IF f.op = "linked_list_pop" THEN "return" ELSE "unlock"
           g == [f EXCEPT !.entry = NULL, !.pc = p]
<1>1. LinkTyped /\ Frames /\ Whole /\ stack[t] # << >> /\ f.pc = "linked_list_pop"
  BY DEF LinkInv, linked_list_pop, At
<1>2. f \in GoodFrame /\ f \in CallType /\ FrameOK(f)
  BY <1>1, TopGood DEF GoodFrame
<1>3. f.op \in {"linked_list_pop", "linked_list_removeEntryByPtr"}
  BY <1>1, <1>2 DEF FrameOK, Stage
<1>4. g \in CallType /\ g.op = f.op /\ g.pc = p /\ g.entry = NULL
  BY <1>2 DEF CallType, Points
<1>5. p # "return" => FrameOK(g)
  BY <1>3, <1>4 DEF FrameOK, Stage
<1>6. CASE lastEntry = HEAD
  <2>1. Go(t, g) /\ UNCHANGED links
    BY <1>6 DEF linked_list_pop
  <2> HIDE DEF g
  <2>2. Onward(t, g)
    BY <1>2, <1>3, <1>4, <1>5, OnwardTo
  <2> QED
    BY <1>1, <2>1, <2>2, GoesOn
<1>7. CASE lastEntry # HEAD
  <2>1. Go(t, Clearing(g)) /\ PopLast /\ {lastEntry, previous[lastEntry]} \subseteq alive \cup {HEAD}
    BY <1>7 DEF linked_list_pop, Touches
  <2> HIDE DEF g
  <2>2. Clearing(g) \in GoodFrame /\ Clearing(g).op = f.op
    BY <1>3, <1>4, <1>5, ClearingGood
  <2>3. Onward(t, Clearing(g))
    BY <1>3, <2>2 DEF Onward
  <2>4. LinkTyped'
    BY <1>1, <1>7, <2>1 DEF LinkTyped, LinkType, PopLast, DropLast, Destroyed
  <2>5. ASSUME Listed PROVE Listed'
    <3>1. PICK n \in Nat : \E s \in [1..n -> Entries] : Linked(n, s) /\ Holds(n, s) /\ len \in Nat /\ n <= len
      BY <2>5 DEF Listed
    <3>2. PICK s \in [1..n -> Entries] : Linked(n, s) /\ Holds(n, s) /\ len \in Nat /\ n <= len
      BY <3>1
    <3>3. n > 0 /\ \E r \in [1..(n - 1) -> Entries] : Linked(n - 1, r)' /\ Holds(n - 1, r)'
      BY <1>1, <1>7, <2>1, <3>2, PopKeeps DEF LinkTyped, PopLast
    <3>4. len' = len - 1 /\ n - 1 \in Nat /\ len' \in Nat /\ n - 1 <= len'
      BY <2>1, <3>2, <3>3 DEF PopLast
    <3> QED
      BY <3>3, <3>4 DEF Listed
  <2> QED
    BY <1>1, <2>1, <2>3, <2>4, <2>5, Relists
<1> QED
  BY <1>6, <1>7

LEMMA LinkInvClear ==
  ASSUME LinkInv, NEW t \in Threads, Clear(t), status' = "running"
  PROVE  LinkInv'
<1> DEFINE f == Top(t)
           g == [f EXCEPT !.pc = f.then, !.then = "return"]
<1>1. LinkTyped /\ Frames /\ Whole /\ stack[t] # << >> /\ f.pc = "clear"
  BY DEF LinkInv, Clear, At
<1>2. Go(t, g) /\ UNCHANGED links
  BY DEF Clear
<1>3. f \in GoodFrame /\ f \in CallType /\ FrameOK(f)
  BY <1>1, TopGood DEF GoodFrame
<1>4. g \in CallType /\ g.op = f.op /\ g.pc = f.then /\ g.entry = f.entry /\ g.arg = f.arg
  BY <1>3 DEF CallType, Points
<1>5. g.pc # "return" => FrameOK(g)
  BY <1>1, <1>3, <1>4 DEF FrameOK, Stage
<1>6. g.pc = "return" => f.op # "linked_list_destroy"
  BY <1>1, <1>3, <1>4 DEF FrameOK, Stage
<1> HIDE DEF g
<1>7. Onward(t, g)
  BY <1>3, <1>4, <1>5, <1>6, OnwardTo
<1> QED
  BY <1>1, <1>2, <1>7, GoesOn

LEMMA LinkInvOuter ==
  ASSUME LinkInv, NEW t \in Threads, Outer(t), status' = "running"
  PROVE  LinkInv'
<1> DEFINE f == Top(t)
           g == [f EXCEPT !.pc = "first"]
<1>1. LinkTyped /\ Frames /\ Whole /\ stack[t] # << >> /\ f.pc = "outer"
  BY DEF LinkInv, Outer, At
<1>2. Go(t, g) /\ UNCHANGED links
  BY DEF Outer
<1>3. f \in GoodFrame /\ f \in CallType /\ FrameOK(f)
  BY <1>1, TopGood DEF GoodFrame
<1>4. g \in CallType /\ g.op = f.op /\ g.pc = "first"
  BY <1>3 DEF CallType, Points
<1>5. FrameOK(g)
  BY <1>1, <1>3, <1>4 DEF FrameOK, Stage, Wrapped, Walking, Searches, PtrSearches
<1> HIDE DEF g
<1>7. Onward(t, g)
  BY <1>3, <1>4, <1>5, OnwardTo
<1> QED
  BY <1>1, <1>2, <1>7, GoesOn

LEMMA LinkInvFirst ==
  ASSUME LinkInv, NEW t \in Threads, First(t), status' = "running"
  PROVE  LinkInv'
<1> DEFINE f == Top(t)
           h == [f EXCEPT !.entry = firstEntry, !.pc = "enter"]
<1>1. LinkTyped /\ Frames /\ Whole /\ stack[t] # << >> /\ f.pc = "first"
  BY DEF LinkInv, First, At
<1>2. UNCHANGED links /\ (Go(t, Found(f, NULL)) \/ Go(t, h))
  BY DEF First
<1>3. f \in GoodFrame /\ f \in CallType /\ FrameOK(f) /\ f.op \in Walking
  BY <1>1, TopGood DEF GoodFrame, FrameOK, Stage
<1>4. Onward(t, Found(f, NULL))
  BY <1>3, FoundGood DEF Onward
<1>5. h \in CallType /\ h.op = f.op /\ h.pc = "enter"
  BY <1>1, <1>3 DEF CallType, Points, LinkTyped
<1>6. FrameOK(h)
  BY <1>3, <1>5 DEF FrameOK, Stage
<1> HIDE DEF h
<1>7. Onward(t, h)
  BY <1>3, <1>5, <1>6, OnwardTo
<1>8. CASE Go(t, Found(f, NULL))
  BY <1>1, <1>2, <1>4, <1>8, GoesOn
<1>9. CASE Go(t, h)
  BY <1>1, <1>2, <1>7, <1>9, GoesOn
<1> QED
  BY <1>2, <1>8, <1>9

LEMMA LinkInvEnter ==
  ASSUME LinkInv, NEW t \in Threads, Enter(t), status' = "running"
  PROVE  LinkInv'
<1> DEFINE f == Top(t)
           h == [f EXCEPT !.pc = "visit"]
<1>1. LinkTyped /\ Frames /\ Whole /\ stack[t] # << >> /\ f.pc = "enter"
  BY DEF LinkInv, Enter, At
<1>2. /\ UNCHANGED links /\ f.entry \in alive \cup {HEAD}
      /\ Go(t, IF f.entry = HEAD THEN Found(f, NULL) ELSE h)
  BY DEF Enter, Touches
<1>3. f \in GoodFrame /\ f \in CallType /\ FrameOK(f) /\ f.op \in Walking
  BY <1>1, TopGood DEF GoodFrame, FrameOK, Stage
<1>4. CASE f.entry = HEAD
  <2>1. Go(t, Found(f, NULL))
    BY <1>2, <1>4
  <2>2. Onward(t, Found(f, NULL))
    BY <1>3, FoundGood DEF Onward
  <2> QED
    BY <1>1, <1>2, <2>1, <2>2, GoesOn
<1>5. CASE f.entry # HEAD
  <2>1. Go(t, h) /\ f.entry \in Entries
    BY <1>1, <1>2, <1>5 DEF LinkTyped
  <2>2. h \in CallType /\ h.op = f.op /\ h.pc = "visit" /\ h.entry = f.entry
    BY <1>3 DEF CallType, Points
  <2>3. FrameOK(h)
    BY <1>3, <2>1, <2>2 DEF FrameOK, Stage
  <2> HIDE DEF h
  <2>4. Onward(t, h)
    BY <1>3, <2>2, <2>3, OnwardTo
  <2> QED
    BY <1>1, <1>2, <2>1, <2>4, GoesOn
<1> QED
  BY <1>4, <1>5

\* A walk of the library goes on, or ends.
LEMMA WalkGoes ==
  ASSUME LinkTyped, Frames, NEW t \in Threads, stack[t] # << >>, Top(t).pc = "visit",
         NEW ends, NEW out \in Entries \cup {NULL}, Advance(t, Top(t), ends, out)
  PROVE  \E g : /\ Go(t, g) /\ Onward(t, g) /\ g.op = Top(t).op /\ g.pc # "return"
                /\ \/ /\ ends \/ next[Top(t).entry] = NULL
                      /\ g = Clearing(Found(Top(t), out)) /\ Section(t)
                   \/ /\ ~ends /\ next[Top(t).entry] # NULL /\ plat_mutex_lock(t)
                      /\ g.pc = "visit" /\ g.entry = next[Top(t).entry]
                      /\ g.op # "linked_list_forEach" => g.arg = Top(t).arg
<1> DEFINE f == Top(t)
           x == next[f.entry]
           i == IF f.op = "linked_list_getByIndex" THEN f.i + 1 ELSE 0
           a == IF f.op = "linked_list_forEach" THEN NULL ELSE f.arg
           h == [f EXCEPT !.entry = x, !.nxt = NULL, !.pc = "visit", !.i = i, !.arg = a]
<1>1. f \in GoodFrame /\ f \in CallType /\ FrameOK(f) /\ f.op \in Walking /\ f.entry \in Entries
  BY TopGood DEF GoodFrame, FrameOK, Stage
<1>2. IF ends \/ x = NULL THEN Go(t, Clearing(Found(f, out))) /\ Section(t) ELSE Go(t, h) /\ plat_mutex_lock(t)
  BY DEF Advance, WalkOn, NextAfter
<1>3. x \in Entries \cup {NULL}
  BY <1>1 DEF LinkTyped, LinkType
<1>4. CASE ends \/ x = NULL
  <2>1. Clearing(Found(f, out)) \in GoodFrame /\ Clearing(Found(f, out)).op = f.op
    BY <1>1, FoundGood
  <2>2. Clearing(Found(f, out)).pc # "return"
    BY <2>1 DEF GoodFrame, FrameOK
  <2> QED
    BY <1>2, <1>4, <2>1, <2>2 DEF Onward
<1>5. CASE ~(ends \/ x = NULL)
  <2>0. f.i \in Nat /\ f.arg \in Keys \cup Nat \cup {NULL}
    BY <1>1 DEF CallType
  <2>1. i \in Nat /\ a \in Keys \cup Nat \cup {NULL} /\ "visit" \in Points
    BY <2>0 DEF Points
  <2> HIDE DEF i, a, x
  <2>2. h \in CallType /\ h.op = f.op /\ h.pc = "visit" /\ h.entry = x /\ h.arg = a
    BY <1>1, <1>3, <2>1 DEF CallType
  <2>3. FrameOK(h)
    BY <1>1, <1>3, <1>5, <2>2 DEF FrameOK, Stage
  <2> HIDE DEF h
  <2>4. Onward(t, h)
    BY <1>1, <2>2, <2>3, OnwardTo
  <2> QED
    BY <1>2, <1>5, <2>2, <2>4 DEF x, a
<1> QED
  BY <1>4, <1>5

LEMMA LinkInvVisit ==
  ASSUME LinkInv, NEW t \in Threads, Visit(t), status' = "running"
  PROVE  LinkInv'
<1>1. LinkTyped /\ Frames /\ Whole /\ stack[t] # << >> /\ Top(t).pc = "visit" /\ UNCHANGED links
  BY DEF LinkInv, Visit, At
<1>2. Top(t).entry \in Entries
  BY <1>1, TopGood DEF GoodFrame, FrameOK, Stage
<1>3. PICK ends, out : out \in Entries \cup {NULL} /\ Advance(t, Top(t), ends, out)
  BY <1>2 DEF Visit
<1>4. PICK g : Go(t, g) /\ Onward(t, g)
  BY <1>1, <1>3, WalkGoes
<1> QED
  BY <1>1, <1>4, GoesOn

LEMMA LinkInvVisitDestroy ==
  ASSUME LinkInv, NEW t \in Threads, VisitDestroy(t), status' = "running"
  PROVE  LinkInv'
<1>1. LinkTyped /\ Frames /\ Whole /\ stack[t] # << >> /\ Top(t).pc = "visit"
  BY DEF LinkInv, VisitDestroy, At
<1>2. PICK g : Go(t, g) /\ Onward(t, g)
  BY <1>1, WalkGoes DEF VisitDestroy
<1>3. Frames' /\ (Destroys(t) => Destroys(t)')
  BY <1>1, <1>2, GoFrames
<1>4. Destroys(t)
  BY <1>1, TopGood DEF VisitDestroy, Destroys
<1>5. LinkTyped'
  BY <1>1 DEF VisitDestroy, Destroyed, LinkTyped, LinkType
<1> QED
  BY <1>3, <1>4, <1>5 DEF LinkInv, Whole

LEMMA LinkInvVisitCallback ==
  ASSUME LinkInv, NEW t \in Threads, VisitCallback(t), status' = "running"
  PROVE  LinkInv'
<1> DEFINE f == Top(t)
           g == [f EXCEPT !.pc = "callback", !.nxt = next[f.entry]]
<1>1. LinkTyped /\ Frames /\ Whole /\ stack[t] # << >> /\ f.pc = "visit" /\ f.op = "linked_list_forEach"
  BY DEF LinkInv, VisitCallback, At
<1>2. Go(t, g) /\ UNCHANGED links
  BY DEF VisitCallback
<1>3. f \in GoodFrame /\ f \in CallType /\ FrameOK(f) /\ f.entry \in Entries
  BY <1>1, TopGood DEF GoodFrame, FrameOK, Stage
<1>4. next[f.entry] \in Entries \cup {NULL}
  BY <1>1, <1>3 DEF LinkTyped, LinkType
<1>5. g \in CallType /\ g.op = f.op /\ g.pc = "callback" /\ g.entry = f.entry
  BY <1>3, <1>4 DEF CallType, Points
<1>6. FrameOK(g)
  BY <1>1, <1>3, <1>5 DEF FrameOK, Stage
<1> HIDE DEF g
<1>7. Onward(t, g)
  BY <1>3, <1>5, <1>6, OnwardTo
<1> QED
  BY <1>1, <1>2, <1>7, GoesOn

\* The program's worker has returned: the walk of sn_mem_metadata_for_each
\* ends, or goes on with the entry it had read.
LEMMA CallbackGoes ==
  ASSUME Frames, NEW t \in Threads, CallbackReturns(t)
  PROVE  \E g : /\ Go(t, g) /\ Onward(t, g) /\ g.op = Top(t).op /\ g.op = "linked_list_forEach"
                /\ \/ g.pc = "clear" /\ g.entry = NULL /\ Section(t)
                   \/ g.pc = "visit" /\ g.entry = Top(t).nxt /\ Top(t).nxt # NULL /\ plat_mutex_lock(t)
<1> DEFINE f == Top(t)
           k == [f EXCEPT !.pc = "relock"]
           h == [f EXCEPT !.entry = f.nxt, !.nxt = NULL, !.pc = "visit", !.i = 0, !.arg = NULL]
           r == [f EXCEPT !.entry = NULL, !.nxt = NULL, !.i = 0, !.pc = "return"]
<1>1. stack[t] # << >> /\ f.pc = "callback"
  BY DEF CallbackReturns, At
<1>2. f \in GoodFrame /\ f \in CallType /\ FrameOK(f) /\ f.op = "linked_list_forEach"
  BY <1>1, TopGood DEF GoodFrame, FrameOK, Stage
<1>3. PICK stop \in BOOLEAN : Advance(t, k, stop, NULL)
  BY DEF CallbackReturns
<1>4. k.op = f.op /\ k.pc = "relock" /\ k.nxt = f.nxt
  BY <1>2 DEF CallType
<1>5. Found(k, NULL) = r
  BY <1>2, <1>4 DEF CallType, Found, After, Getters
<1>6. [k EXCEPT !.entry = f.nxt, !.nxt = NULL, !.pc = "visit", !.i = 0, !.arg = NULL] = h
  BY <1>2 DEF CallType
<1>7. IF stop \/ f.nxt = NULL THEN Section(t) /\ Go(t, Clearing(r)) ELSE plat_mutex_lock(t) /\ Go(t, h)
  <2> HIDE DEF k, r, h
  <2>1. NextAfter(k) = f.nxt
    BY <1>4 DEF NextAfter
  <2> QED
    BY <1>2, <1>3, <1>4, <1>5, <1>6, <2>1 DEF Advance, WalkOn
<1>8. CASE stop \/ f.nxt = NULL
  <2>1. r \in CallType /\ r.pc = "return" /\ r.op = f.op /\ r.entry = NULL
    BY <1>2 DEF CallType, Points
  <2> HIDE DEF r
  <2>2. Clearing(r) \in GoodFrame /\ Clearing(r).op = f.op /\ Clearing(r).pc = "clear"
    BY <1>2, <2>1, ClearingGood
  <2>3. Clearing(r).entry = NULL
    BY <2>1 DEF Clearing, CallType
  <2> QED
    BY <1>2, <1>7, <1>8, <2>2, <2>3 DEF Onward
<1>9. CASE ~(stop \/ f.nxt = NULL)
  <2>1. f.nxt \in Entries
    BY <1>2, <1>9 DEF CallType
  <2>2. h \in CallType /\ h.pc = "visit" /\ h.op = f.op /\ h.entry = f.nxt
    BY <1>2, <2>1 DEF CallType, Points
  <2>3. FrameOK(h)
    BY <1>2, <2>1, <2>2 DEF FrameOK, Stage, Walking
  <2> HIDE DEF h
  <2>4. Onward(t, h)
    BY <1>2, <2>2, <2>3, OnwardTo
  <2> QED
    BY <1>2, <1>7, <1>9, <2>2, <2>4
<1> QED
  BY <1>8, <1>9

LEMMA LinkInvCallbackReturns ==
  ASSUME LinkInv, NEW t \in Threads, CallbackReturns(t), status' = "running"
  PROVE  LinkInv'
<1>1. LinkTyped /\ Frames /\ Whole /\ stack[t] # << >> /\ UNCHANGED links
  BY DEF LinkInv, CallbackReturns, At
<1>2. PICK g : Go(t, g) /\ Onward(t, g)
  BY <1>1, CallbackGoes
<1> QED
  BY <1>1, <1>2, GoesOn

LEMMA LinkInvNote ==
  ASSUME LinkInv, NEW t \in Threads, Note(t), status' = "running"
  PROVE  LinkInv'
<1> DEFINE f == Top(t)
           g == [f EXCEPT !.pc = "touch"]
<1>1. LinkTyped /\ Frames /\ Whole /\ stack[t] # << >> /\ f.pc = "note"
  BY DEF LinkInv, Note, At
<1>2. Go(t, g) /\ UNCHANGED links
  BY DEF Note
<1>3. f \in GoodFrame /\ f \in CallType /\ FrameOK(f)
  BY <1>1, TopGood DEF GoodFrame
<1>4. g \in CallType /\ g.op = f.op /\ g.pc = "touch" /\ g.entry = f.entry
  BY <1>3 DEF CallType, Points
<1>5. FrameOK(g)
  BY <1>1, <1>3, <1>4 DEF FrameOK, Stage
<1> HIDE DEF g
<1>7. Onward(t, g)
  BY <1>3, <1>4, <1>5, OnwardTo
<1> QED
  BY <1>1, <1>2, <1>7, GoesOn

LEMMA LinkInvTouch ==
  ASSUME LinkInv, NEW t \in Threads, Touch(t), status' = "running"
  PROVE  LinkInv'
<1> DEFINE f == Top(t)
           g == [f EXCEPT !.pc = "return"]
<1>1. LinkTyped /\ Frames /\ Whole /\ stack[t] # << >> /\ f.pc = "touch"
  BY DEF LinkInv, Touch, At
<1>2. Go(t, Clearing(g)) /\ UNCHANGED links
  BY DEF Touch
<1>3. f \in GoodFrame /\ f \in CallType /\ FrameOK(f)
  BY <1>1, TopGood DEF GoodFrame
<1>4. f.op # "linked_list_destroy"
  BY <1>1, <1>3 DEF FrameOK, Stage
<1>5. g \in CallType /\ g.op = f.op /\ g.pc = "return"
  BY <1>3 DEF CallType, Points
<1> HIDE DEF g
<1>6. Clearing(g) \in GoodFrame /\ Clearing(g).op = f.op
  BY <1>4, <1>5, ClearingGood
<1>7. Onward(t, Clearing(g))
  BY <1>4, <1>6 DEF Onward
<1> QED
  BY <1>1, <1>2, <1>7, GoesOn

LEMMA LinkInvRemove ==
  ASSUME LinkInv, NEW t \in Threads, linked_list_removeEntry(t), status' = "running"
  PROVE  LinkInv'
<1> DEFINE f == Top(t)
           e == f.entry
           g == [f EXCEPT !.entry = NULL, !.pc = "linked_list_pop"]
           h == [f EXCEPT !.entry = NULL, !.pc = "unlock"]
<1>1. LinkTyped /\ Frames /\ Whole /\ stack[t] # << >> /\ f.pc = "unlink"
  BY DEF LinkInv, linked_list_removeEntry, At
<1>2. f \in GoodFrame /\ f \in CallType /\ FrameOK(f)
  BY <1>1, TopGood DEF GoodFrame
<1>3. f.op = "linked_list_removeEntryByPtr" /\ e \in Entries
  BY <1>1, <1>2 DEF FrameOK, Stage
<1>4. CASE lastEntry = e
  <2>1. Go(t, Clearing(g)) /\ UNCHANGED links
    BY <1>4 DEF linked_list_removeEntry
  <2>2. g \in CallType /\ g.op = f.op /\ g.pc = "linked_list_pop"
    BY <1>2 DEF CallType, Points
  <2> HIDE DEF g
  <2>3. FrameOK(g)
    BY <1>3, <2>2 DEF FrameOK, Stage
  <2>4. Clearing(g) \in GoodFrame /\ Clearing(g).op = f.op
    BY <2>2, <2>3, ClearingGood
  <2>5. Onward(t, Clearing(g))
    BY <1>3, <2>4 DEF Onward
  <2> QED
    BY <1>1, <2>1, <2>5, GoesOn
<1>5. CASE lastEntry # e
  <2>1. /\ Go(t, Clearing(h)) /\ Unlink(e)
        /\ {e, previous[e], next[e]} \ {NULL} \subseteq alive \cup {HEAD}
    BY <1>5 DEF linked_list_removeEntry, Touches
  <2>2. h \in CallType /\ h.op = f.op /\ h.pc = "unlock" /\ h.entry = NULL
    BY <1>2 DEF CallType, Points
  <2> HIDE DEF h
  <2>3. FrameOK(h)
    BY <1>3, <2>2 DEF FrameOK, Stage
  <2>4. Clearing(h) \in GoodFrame /\ Clearing(h).op = f.op
    BY <2>2, <2>3, ClearingGood
  <2>5. Onward(t, Clearing(h))
    BY <1>3, <2>4 DEF Onward
  <2>6. e \in alive
    BY <1>3, <2>1, ListAssumption
  <2> HIDE DEF e
  <2>7. LinkTyped'
    <3>1. next[e] \in Entries \cup {NULL} /\ previous[e] \in Entries \cup {HEAD, NULL}
      BY <1>1, <1>3 DEF LinkTyped, LinkType
    <3>2. next' \in [Entries \cup {HEAD} -> Entries \cup {NULL}]
      BY <1>1, <2>1, <3>1 DEF LinkTyped, LinkType, Unlink, Bypass
    <3>3. previous' \in [Entries \cup {HEAD} -> Entries \cup {HEAD, NULL}]
      BY <1>1, <2>1, <3>1 DEF LinkTyped, LinkType, Unlink, Bypass
    <3> QED
      BY <1>1, <2>1, <3>1, <3>2, <3>3 DEF LinkTyped, LinkType, Unlink, Bypass, Destroyed
  <2>8. ASSUME Listed PROVE Listed'
    <3>1. PICK n \in Nat : \E s \in [1..n -> Entries] : Linked(n, s) /\ Holds(n, s) /\ len \in Nat /\ n <= len
      BY <2>8 DEF Listed
    <3>2. PICK s \in [1..n -> Entries] : Linked(n, s) /\ Holds(n, s) /\ len \in Nat /\ n <= len
      BY <3>1
    <3>3. PICK q \in 1..n : e = s[q]
      BY <2>6, <3>2 DEF Holds
    <3>4. \E r \in [1..(n - 1) -> Entries] : Linked(n - 1, r)' /\ Holds(n - 1, r)'
      BY <1>1, <1>5, <2>1, <3>2, <3>3, UnlinkKeeps DEF LinkTyped, e
    <3>5. len' = len /\ n - 1 \in Nat /\ n - 1 <= len'
      BY <2>1, <3>2, <3>3 DEF Unlink, Bypass
    <3> QED
      BY <3>2, <3>4, <3>5 DEF Listed
  <2> QED
    BY <1>1, <2>1, <2>5, <2>7, <2>8, Relists
<1> QED
  BY <1>4, <1>5

LEMMA LinkInvUnlock ==
  ASSUME LinkInv, NEW t \in Threads, Unlock(t), status' = "running"
  PROVE  LinkInv'
<1> DEFINE f == Top(t)
           g == [f EXCEPT !.entry = NULL, !.pc = "return"]
<1>1. LinkTyped /\ Frames /\ Whole /\ stack[t] # << >> /\ f.pc = "unlock"
  BY DEF LinkInv, Unlock, At
<1>2. Go(t, Clearing(g)) /\ UNCHANGED links
  BY DEF Unlock
<1>3. f \in GoodFrame /\ f \in CallType /\ FrameOK(f)
  BY <1>1, TopGood DEF GoodFrame
<1>4. f.op # "linked_list_destroy"
  BY <1>1, <1>3 DEF FrameOK, Stage
<1>5. g \in CallType /\ g.op = f.op /\ g.pc = "return"
  BY <1>3 DEF CallType, Points
<1> HIDE DEF g
<1>6. Clearing(g) \in GoodFrame /\ Clearing(g).op = f.op
  BY <1>4, <1>5, ClearingGood
<1>7. Onward(t, Clearing(g))
  BY <1>4, <1>6 DEF Onward
<1> QED
  BY <1>1, <1>2, <1>7, GoesOn

LEMMA LinkInvReport ==
  ASSUME LinkInv, NEW t \in Threads, Report(t), status' = "running"
  PROVE  LinkInv'
<1> DEFINE f == Top(t)
           g == [f EXCEPT !.pc = "first"]
<1>1. LinkTyped /\ Frames /\ Whole /\ stack[t] # << >> /\ f.pc = "report"
  BY DEF LinkInv, Report, At
<1>2. Go(t, g) /\ UNCHANGED links
  BY DEF Report
<1>3. f \in GoodFrame /\ f \in CallType /\ FrameOK(f)
  BY <1>1, TopGood DEF GoodFrame
<1>4. g \in CallType /\ g.op = f.op /\ g.pc = "first"
  BY <1>3 DEF CallType, Points
<1>5. FrameOK(g)
  BY <1>1, <1>3, <1>4 DEF FrameOK, Stage, Walking, Exits
<1> HIDE DEF g
<1>7. Onward(t, g)
  BY <1>3, <1>4, <1>5, OnwardTo
<1> QED
  BY <1>1, <1>2, <1>7, GoesOn

\* The walk that follows one of the exit
LEMMA FollowGoes ==
  ASSUME Frames, NEW t \in Threads, NextWalk(t)
  PROVE  /\ Top(t).op \in Exits /\ Top(t).pc = "next walk" /\ UNCHANGED links
         /\ \/ /\ Top(t).op \in {"sn_debug_crash", "doexit"} /\ status' = status
               /\ \E g \in GoodFrame :
                    /\ Go(t, g) /\ Onward(t, g) /\ g.pc = "first"
                    /\ g.op = IF Top(t).op = "sn_debug_crash" THEN "doexit" ELSE "linked_list_destroy"
                    /\ g.arg = Top(t).arg /\ g.entry = Top(t).entry /\ g.nxt = Top(t).nxt
            \/ /\ Top(t).op = "linked_list_destroy"
               /\ status' = "exited" /\ UNCHANGED stack
<1> DEFINE f == Top(t)
           after == [sn_debug_crash |-> "doexit", doexit |-> "linked_list_destroy"]
           g == [f EXCEPT !.op = after[f.op], !.pc = "first"]
<1>1. Follow(t, after) /\ stack[t] # << >> /\ f.pc = "next walk" /\ UNCHANGED links
  BY DEF NextWalk, Follow, At
<1>2. f \in GoodFrame /\ f \in CallType /\ FrameOK(f)
  BY <1>1, TopGood DEF GoodFrame
<1>3. f.op \in Exits
  BY <1>1, <1>2 DEF FrameOK, Stage
<1>4. DOMAIN after = {"sn_debug_crash", "doexit"}
  OBVIOUS
<1>5. after["sn_debug_crash"] = "doexit" /\ after["doexit"] = "linked_list_destroy"
  OBVIOUS
<1>6. CASE f.op \in {"sn_debug_crash", "doexit"}
  <2>1. Go(t, g) /\ status' = status
    BY <1>1, <1>4, <1>6 DEF Follow
  <2>2. PICK o : o = after[f.op]
    OBVIOUS
  <2>3. o \in Exits \ {"sn_debug_crash"} /\ o = IF f.op = "sn_debug_crash" THEN "doexit" ELSE "linked_list_destroy"
    BY <1>5, <1>6, <2>2 DEF Exits
  <2>4. PICK c : c = [f EXCEPT !.op = o, !.pc = "first"]
    OBVIOUS
  <2>5. c = g
    BY <2>2, <2>4
  <2>6. /\ c \in CallType /\ c.op = o /\ c.pc = "first"
        /\ c.arg = f.arg /\ c.entry = f.entry /\ c.nxt = f.nxt
    <3>1. o \in Reached /\ "first" \in Points
      BY <2>3 DEF Exits, Reached, Solitary, Points
    <3> HIDE DEF f, g, after
    <3> QED
      BY <1>2, <2>4, <3>1 DEF CallType
  <2>7. FrameOK(c)
    BY <2>3, <2>6 DEF FrameOK, Stage, Walking
  <2> HIDE DEF g
  <2>8. c \in GoodFrame /\ Onward(t, c) /\ Go(t, c)
    BY <1>6, <2>1, <2>5, <2>6, <2>7 DEF GoodFrame, Onward
  <2> QED
    BY <1>1, <1>3, <1>6, <2>1, <2>3, <2>6, <2>8
<1>7. CASE f.op \notin {"sn_debug_crash", "doexit"}
  <2>1. status' = "exited" /\ UNCHANGED stack
    BY <1>1, <1>4, <1>7 DEF Follow
  <2> QED
    BY <1>1, <1>3, <1>7, <2>1 DEF Exits
<1> QED
  BY <1>6, <1>7

LEMMA LinkInvNextWalk ==
  ASSUME LinkInv, NEW t \in Threads, NextWalk(t), status' = "running"
  PROVE  LinkInv'
<1>1. LinkTyped /\ Frames /\ Whole /\ stack[t] # << >> /\ UNCHANGED links
  BY DEF LinkInv, NextWalk, Follow, At
<1>2. PICK g : Go(t, g) /\ Onward(t, g)
  BY <1>1, FollowGoes
<1> QED
  BY <1>1, <1>2, GoesOn

\* The frame a call starts with
LEMMA FrameGood ==
  ASSUME NEW op \in Ops, NEW arg \in Arguments(op), NEW e \in Entries \cup {NULL},
         Start(op) = "set" => e \in Entries
  PROVE  /\ Frame(op, arg, e) \in GoodFrame
         /\ Start(op) \in {"outer", "linked_list_push", "linked_list_pop", "set", "report", "first"}
         /\ Start(op) = "first" => op \in Walking \ {"linked_list_destroy", "sn_debug_crash"}
<1>1. op \in Reached \ {"linked_list_destroy"}
  BY OpsAssumption
<1>2. /\ arg \in Keys \cup Nat \cup {NULL}
      /\ op = "linked_list_entry_setData" => arg \in Keys
      /\ op = "linked_list_entry_setBlockId" => arg \in Nat
      /\ op = "linked_list_push" => arg \in Keys \cup {NULL}
  BY <1>1, ListAssumption DEF Arguments, PtrSearches
<1>3. PICK p : p = Start(op)
  OBVIOUS
<1>4. /\ p \in {"outer", "linked_list_push", "linked_list_pop", "set", "report", "first"}
      /\ p = "outer" <=> op \in Wrapped
      /\ p = "linked_list_push" <=> op = "linked_list_push"
      /\ p = "linked_list_pop" <=> op = "linked_list_pop"
      /\ p = "set" <=> op \in {"linked_list_entry_setData", "linked_list_entry_setBlockId"}
      /\ p = "report" <=> op = "sn_debug_crash"
  BY <1>3 DEF Start, Wrapped
<1>5. p = "first" => op \in Walking \ {"linked_list_destroy", "sn_debug_crash"}
  BY <1>1, <1>4 DEF Walking, Searches, PtrSearches, Exits, Wrapped, Reached, Solitary
<1>6. PICK f : f = Frame(op, arg, e)
  OBVIOUS
<1>7. f \in CallType
  BY <1>1, <1>2, <1>3, <1>4, <1>6 DEF Frame, CallType, Points
<1>8. f.op = op /\ f.pc = p /\ f.entry = e /\ f.arg = arg
  BY <1>3, <1>6 DEF Frame
<1>9. FrameOK(f)
  BY <1>1, <1>2, <1>3, <1>4, <1>5, <1>8 DEF FrameOK, Stage
<1> QED
  BY <1>3, <1>4, <1>5, <1>6, <1>7, <1>9 DEF GoodFrame

\* A new call goes on top of a stack whose frames keep all but an argument.
LEMMA CallFrames ==
  ASSUME LinkTyped, Frames, NEW t \in Threads, NEW op \in Ops, Call(t, op)
  PROVE  /\ Frames'
         /\ \A u \in Threads : Destroys(u) => Destroys(u)'
<1> DEFINE old == stack[t]
<1>1. PICK arg \in Arguments(op), e \in IF Start(op) = "set" THEN alive ELSE {NULL} :
        stack' = [stack EXCEPT ![t] = <<Frame(op, arg, e)>> \o Noted(stack[t], op, arg)]
  BY DEF Call
<1>2. e \in Entries \cup {NULL} /\ (Start(op) = "set" => e \in Entries)
  BY <1>1 DEF LinkTyped
<1>3. PICK f \in GoodFrame : f = Frame(op, arg, e)
  BY <1>2, FrameGood
<1>4. old \in Seq(GoodFrame) /\ stack \in [Threads -> Seq(GoodFrame)]
  BY DEF Frames
<1>5. PICK new : new = Noted(old, op, arg)
  OBVIOUS
<1>6. /\ new \in Seq(GoodFrame) /\ DOMAIN new = DOMAIN old
      /\ \A k \in DOMAIN old : new[k].op = old[k].op
  <2>1. CASE new = old
    BY <1>4, <2>1
  <2>2. CASE new # old
    <3>1. old # << >> /\ new = [old EXCEPT ![1].arg = arg] /\ op = "linked_list_removeEntryByPtr"
      BY <1>5, <2>2 DEF Noted
    <3>2. old[1] \in GoodFrame /\ arg \in Keys /\ 1 \in DOMAIN old
      BY <1>1, <1>4, <3>1 DEF Arguments, PtrSearches
    <3>3. PICK g : g = [old[1] EXCEPT !.arg = arg]
      OBVIOUS
    <3>4. g \in CallType /\ g.op = old[1].op /\ g.pc = old[1].pc /\ g.then = old[1].then /\ g.entry = old[1].entry
      <4> DEFINE c == old[1]
      <4>1. c \in CallType
        BY <3>2 DEF GoodFrame
      <4> HIDE DEF c
      <4> QED
        BY <3>2, <3>3, <4>1 DEF CallType, c
    <3>5. g \in GoodFrame
      <4>1. PICK c \in GoodFrame : c = old[1] /\ c.pc = "callback"
        BY <3>1, <3>2 DEF Call, InCallback, Top
      <4>2. FrameOK(c) /\ g.op = c.op /\ g.pc = "callback" /\ g.entry = c.entry /\ c.pc = "callback"
        BY <3>4, <4>1 DEF GoodFrame
      <4>3. FrameOK(g)
        BY <4>2 DEF FrameOK, Stage
      <4> QED
        BY <3>4, <4>3 DEF GoodFrame
    <3>6. new = [old EXCEPT ![1] = g]
      BY <3>1, <3>3
    <3> HIDE DEF old
    <3>7. new \in Seq(GoodFrame) /\ DOMAIN new = DOMAIN old
      BY <1>4, <3>2, <3>5, <3>6
    <3>8. \A k \in DOMAIN old : new[k] = IF k = 1 THEN g ELSE old[k]
      BY <1>4, <3>6
    <3> QED
      BY <3>4, <3>7, <3>8
  <2> QED
    BY <2>1, <2>2
<1>7. stack' = [stack EXCEPT ![t] = <<f>> \o new]
  BY <1>1, <1>3, <1>5
<1>8. <<f>> \o new \in Seq(GoodFrame) /\ stack'[t] = <<f>> \o new
  BY <1>4, <1>6, <1>7
<1>9. \A k \in DOMAIN old : k + 1 \in DOMAIN stack'[t] /\ stack'[t][k + 1].op = old[k].op
  <2> HIDE DEF old
  <2>1. \A k \in DOMAIN old : k \in Nat /\ k \in 1..Len(new)
    BY <1>4, <1>6
  <2>2. \A k \in 1..Len(new) : k + 1 \in DOMAIN (<<f>> \o new) /\ (<<f>> \o new)[k + 1] = new[k]
    BY <1>6
  <2> QED
    BY <1>6, <1>8, <2>1, <2>2
<1>10. Frames'
  BY <1>4, <1>7, <1>8 DEF Frames
<1>11. Destroys(t) => Destroys(t)'
  BY <1>9 DEF Destroys
<1>12. \A u \in Threads \ {t} : stack'[u] = stack[u]
  BY <1>4, <1>7
<1> QED
  BY <1>10, <1>11, <1>12 DEF Destroys

LEMMA LinkInvInit == Init => LinkInv
<1> SUFFICES ASSUME Init PROVE LinkInv
  OBVIOUS
<1>1. LinkTyped
  BY DEF Init, LinkTyped, LinkType
<1>2. Frames
  BY DEF Init, Frames
<1>3. Listed
  <2>1. PICK s : s = [i \in 1..0 |-> HEAD]
    OBVIOUS
  <2>2. s \in [1..0 -> Entries] /\ 1..0 = {}
    BY <2>1
  <2>3. Linked(0, s)
    BY <2>2 DEF Linked, Node, Init
  <2>4. Holds(0, s)
    BY <2>2 DEF Holds, Init
  <2>5. 0 \in Nat /\ len \in Nat /\ 0 <= len
    BY DEF Init
  <2> QED
    BY <2>2, <2>3, <2>4, <2>5 DEF Listed
<1> QED
  BY <1>1, <1>2, <1>3 DEF LinkInv, Whole

LEMMA LinkInvNext == LinkInv /\ [Next]_vars => LinkInv'
<1> SUFFICES ASSUME LinkInv, [Next]_vars, status' = "running" PROVE LinkInv'
  BY DEF LinkInv
<1>1. ASSUME NEW t \in Threads, Step(t) PROVE LinkInv'
  BY <1>1, LinkInvPush, LinkInvSet, LinkInvPop, LinkInvClear, LinkInvOuter, LinkInvFirst, LinkInvEnter,
     LinkInvVisit, LinkInvVisitDestroy, LinkInvVisitCallback, LinkInvCallbackReturns, LinkInvNote,
     LinkInvTouch, LinkInvRemove, LinkInvUnlock, LinkInvReport, LinkInvNextWalk DEF Step
<1>2. ASSUME NEW t \in Threads, NEW op \in Ops, Call(t, op) PROVE LinkInv'
  <2>1. LinkTyped /\ Frames /\ Whole /\ UNCHANGED links
    BY <1>2 DEF Call, LinkInv
  <2>2. Frames' /\ \A u \in Threads : Destroys(u) => Destroys(u)'
    BY <1>2, <2>1, CallFrames
  <2> QED
    BY <2>1, <2>2, LinksSame DEF LinkInv
<1>3. CASE UNCHANGED vars
  <2>1. status = "running" /\ UNCHANGED links /\ UNCHANGED stack
    BY <1>3 DEF vars
  <2>2. Frames' /\ \A u \in Threads : Destroys(u) => Destroys(u)'
    BY <2>1 DEF LinkInv, Frames, Destroys
  <2> QED
    BY <2>1, <2>2, LinksSame DEF LinkInv
<1>4. CASE Terminated
  BY <1>3, <1>4 DEF Terminated
<1> QED
  BY <1>1, <1>2, <1>3, <1>4 DEF Next

\* The invariant of the links holds in every reachable state.
THEOREM LinksKept == Spec => []LinkInv
  BY LinkInvInit, LinkInvNext, PTL DEF Spec

\* The length of the sequence is the number of allocated entries.
LEMMA CountListed ==
  ASSUME NEW n \in Nat, NEW s \in [1..n -> Entries], Linked(n, s), Holds(n, s)
  PROVE  Cardinality(alive) = n
<1>1. s \in [1..n -> alive]
  BY DEF Holds
<1>2. s \in Injection(1..n, alive)
  BY <1>1 DEF Linked, Injection, IsInjective
<1>3. s \in Surjection(1..n, alive)
  BY <1>1 DEF Holds, Surjection
<1>4. ExistsBijection(1..n, alive)
  BY <1>2, <1>3 DEF ExistsBijection, Bijection
<1> QED
  BY <1>4, FS_CountingElements

\* Pushes of any number of threads, with removals and pops while no other
\* thread is in the list, in any order and from any callback, leave a doubly
\* linked list of the entries that are allocated.
THEOREM AlwaysLinked == Spec => []WellLinked
<1>1. LinkInv => WellLinked
  <2> SUFFICES ASSUME LinkInv, Intact PROVE Orders # {}
    BY DEF WellLinked
  <2>1. Listed
    BY DEF LinkInv, Intact, Whole
  <2>2. PICK n \in Nat : \E s \in [1..n -> Entries] : Linked(n, s) /\ Holds(n, s)
    BY <2>1 DEF Listed
  <2>3. PICK s \in [1..n -> Entries] : Linked(n, s) /\ Holds(n, s)
    BY <2>2
  <2>4. Cardinality(alive) = n
    BY <2>3, CountListed
  <2>5. s \in [1..n -> alive]
    BY <2>3 DEF Holds
  <2>6. Chain(s)
    BY <2>3, <2>4 DEF Linked, Chain, Node
  <2> QED
    BY <2>4, <2>5, <2>6 DEF Orders
<1> QED
  BY <1>1, LinksKept, PTL

\* len, by which linked_list_forEach tells an empty list, is never smaller
\* than the list, though linked_list_removeEntry leaves it too large.
THEOREM LenIsEnough == Spec => []LenCovers
<1>1. LinkInv => LenCovers
  <2> SUFFICES ASSUME LinkInv, Intact PROVE len >= Cardinality(alive)
    BY DEF LenCovers
  <2>1. Listed
    BY DEF LinkInv, Intact, Whole
  <2>2. PICK n \in Nat : \E s \in [1..n -> Entries] : Linked(n, s) /\ Holds(n, s) /\ len \in Nat /\ n <= len
    BY <2>1 DEF Listed
  <2>3. Cardinality(alive) = n /\ len \in Nat /\ n <= len
    BY <2>2, CountListed
  <2> QED
    BY <2>3
<1> QED
  BY <1>1, LinksKept, PTL

============================================================================
