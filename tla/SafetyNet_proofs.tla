-------------------------- MODULE SafetyNet_proofs --------------------------
(***************************************************************************)
(* The invariants of SafetyNet for any number of addresses, slots and      *)
(* calls: the inductive invariant IInv, one lemma per kind of step.        *)
(***************************************************************************)
EXTENDS SafetyNet, FiniteSetTheorems, WellFoundedInduction, TLAPS

----------------------------------------------------------------------------
(* Arithmetic, and the least element Min chooses *)

LEMMA ModRange ==
  ASSUME NEW x \in Int, NEW m \in Nat \ {0}
  PROVE  x % m \in 0..(m - 1)
  OBVIOUS

\* Quotient and remainder
LEMMA ModUnique ==
  ASSUME NEW m \in Nat \ {0}, NEW q \in Int, NEW r \in 0..(m - 1)
  PROVE  (q * m + r) % m = r
  OBVIOUS

LEMMA ModParts ==
  ASSUME NEW m \in Nat \ {0}, NEW x \in Int
  PROVE  \E q \in Int, r \in 0..(m - 1) : x = q * m + r
<1>1. x \div m \in Int /\ x % m \in 0..(m - 1) /\ x = (x \div m) * m + (x % m)
  OBVIOUS
<1> QED
  BY <1>1

LEMMA ModSmall ==
  ASSUME NEW m \in Nat, NEW x \in Nat, x < m
  PROVE  x % m = x
  OBVIOUS

\* A sum modulo m does not care when the remainder is taken.
LEMMA ModSum ==
  ASSUME NEW m \in Nat \ {0}, NEW x \in Int, NEW n \in Int
  PROVE  ((x % m) + n) % m = (x + n) % m
<1>1. PICK q \in Int, r \in 0..(m - 1) : x = q * m + r
  BY ModParts
<1>2. x % m = r /\ r + n \in Int
  BY <1>1, ModUnique
<1>3. PICK p \in Int, s \in 0..(m - 1) : r + n = p * m + s
  BY <1>2, ModParts
<1>4. (r + n) % m = s
  BY <1>3, ModUnique
<1>5. x + n = (q + p) * m + s
  <2>1. (q + p) * m = q * m + p * m
    OBVIOUS
  <2>2. q * m \in Int /\ p * m \in Int
    OBVIOUS
  <2> QED
    BY <1>1, <1>3, <2>1, <2>2
<1>6. q + p \in Int
  OBVIOUS
<1>7. ((q + p) * m + s) % m = s
  BY <1>6, ModUnique
<1> QED
  BY <1>2, <1>4, <1>5, <1>7

LEMMA MinIn ==
  ASSUME NEW S \in SUBSET Nat, S # {}
  PROVE  Min(S) \in S /\ \A y \in S : Min(S) <= y
<1> DEFINE R == {ss \in Nat \X Nat : ss[1] < ss[2]}
<1>1. \A x, y \in Nat : y < x => <<y, x>> \in R
  OBVIOUS
<1>2. IsWellFoundedOn(R, Nat)
  BY NatLessThanWellFounded, Zenon DEF OpToRel
<1> HIDE DEF R
<1>3. PICK x \in S : \A y \in S : ~ (<<y, x>> \in R)
  BY <1>2, WFMin
<1>4. ASSUME NEW y \in S PROVE x <= y
  <2>1. x \in Nat /\ y \in Nat /\ ~(y < x)
    BY <1>1, <1>3
  <2> QED
    BY <2>1
<1> QED
  BY <1>4 DEF Min

\* A set of slots has a number of elements.
LEMMA SlotCount ==
  ASSUME NEW S \in SUBSET Slots
  PROVE  Cardinality(S) \in Nat
<1>1. IsFiniteSet(Slots)
  BY FS_Interval, WidthAssumption DEF Slots
<1> QED
  BY <1>1, FS_Subset, FS_CardinalityType

----------------------------------------------------------------------------
(* Induction over finite sets, by a smallest counterexample, and sums *)

\* A set of subsets of a finite set has one none of whose elements can be
\* taken away: what induction over finite sets comes to.
LEMMA SmallestSet ==
  ASSUME NEW U, IsFiniteSet(U), NEW B \in SUBSET (SUBSET U), B # {}
  PROVE  \E s \in B : \A x \in s : s \ {x} \notin B
<1> DEFINE C == {Cardinality(s) : s \in B}
<1>1. \A s \in SUBSET U : IsFiniteSet(s) /\ Cardinality(s) \in Nat
  BY FS_Subset, FS_CardinalityType
<1>2. C \in SUBSET Nat /\ C # {}
  BY <1>1
<1>3. Min(C) \in C /\ \A y \in C : Min(C) <= y
  BY <1>2, MinIn
<1>4. PICK s \in B : Cardinality(s) = Min(C)
  BY <1>3
<1>5. ASSUME NEW x \in s, s \ {x} \in B PROVE FALSE
  <2>1. Cardinality(s \ {x}) = Cardinality(s) - 1
    BY <1>1, <1>5, FS_RemoveElement
  <2>2. Cardinality(s \ {x}) \in C
    BY <1>5
  <2>3. Cardinality(s) \in Nat
    BY <1>1
  <2>4. Min(C) <= Cardinality(s \ {x})
    BY <1>3, <2>2
  <2> HIDE DEF C
  <2> QED
    BY <1>4, <2>1, <2>3, <2>4
<1> QED
  BY <1>5

\* The sum of f over S.  MapThenSumSet takes the elements in an order of its
\* own and reads the sum from a table of the sums over all subsets.
FirstOf(s) == CHOOSE x \in s : TRUE
SumRow(f, g, s) == IF s = {} THEN 0 ELSE f[FirstOf(s)] + g[s \ {FirstOf(s)}]
SumTable(f, S) == CHOOSE g : g = [s \in SUBSET S |-> SumRow(f, g, s)]
Total(f, S) == MapThenSumSet(LAMBDA e : f[e], S)

\* MapThenSumSet is that table's last entry.
LEMMA TotalDef ==
  ASSUME NEW f, NEW S
  PROVE  Total(f, S) = SumTable(f, S)[S]
  BY DEF Total, MapThenSumSet, MapThenFoldSet, SumTable, SumRow, FirstOf

\* The element taken first is one of the set.
LEMMA FirstIn ==
  ASSUME NEW s, s # {}
  PROVE  FirstOf(s) \in s
  BY DEF FirstOf

\* The table exists: a table for the sets of up to n elements extends to one
\* for those of n + 1.
LEMMA TableExists ==
  ASSUME NEW f, NEW U, IsFiniteSet(U)
  PROVE  \A s \in SUBSET U : SumTable(f, U)[s] = SumRow(f, SumTable(f, U), s)
<1> DEFINE UpTo(g, n) == \A s \in SUBSET U : Cardinality(s) <= n => g[s] = SumRow(f, g, s)
           Bad == {n \in Nat : ~ \E g : UpTo(g, n)}
<1>1. \A s \in SUBSET U : IsFiniteSet(s) /\ Cardinality(s) \in Nat
  BY FS_Subset, FS_CardinalityType
<1>2. \A s \in SUBSET U : s # {} =>
        /\ FirstOf(s) \in s /\ s \ {FirstOf(s)} \in SUBSET U
        /\ Cardinality(s \ {FirstOf(s)}) = Cardinality(s) - 1
  BY <1>1, FirstIn, FS_RemoveElement
<1>3. \A n \in Nat : \E g : UpTo(g, n)
  <2> SUFFICES ASSUME Bad # {} PROVE FALSE
    OBVIOUS
  <2> DEFINE m == Min(Bad)
  <2>1. m \in Bad /\ \A y \in Bad : m <= y
    BY MinIn
  <2> HIDE DEF m
  <2>2. CASE m = 0
    <3>1. PICK g : g = [s \in SUBSET U |-> 0]
      OBVIOUS
    <3>2. UpTo(g, m)
      BY <1>1, <2>2, <3>1, FS_EmptySet DEF SumRow
    <3> QED
      BY <2>1, <3>2
  <2>3. CASE m > 0
    <3>1. m - 1 \in Nat /\ m - 1 \notin Bad
      BY <2>1, <2>3
    <3>2. PICK g : UpTo(g, m - 1)
      BY <3>1
    <3>3. PICK h : h = [s \in SUBSET U |-> IF Cardinality(s) <= m - 1 THEN g[s] ELSE SumRow(f, g, s)]
      OBVIOUS
    <3>4. ASSUME NEW s \in SUBSET U, Cardinality(s) <= m PROVE h[s] = SumRow(f, h, s)
      <4>1. h[s] = SumRow(f, g, s)
        BY <3>2, <3>3
      <4>2. s # {} => h[s \ {FirstOf(s)}] = g[s \ {FirstOf(s)}]
        BY <1>1, <1>2, <2>1, <3>3, <3>4
      <4> QED
        BY <4>1, <4>2 DEF SumRow
    <3>5. UpTo(h, m)
      BY <3>4
    <3> QED
      BY <2>1, <3>5
  <2> QED
    BY <2>1, <2>2, <2>3
<1>4. PICK g : UpTo(g, Cardinality(U))
  BY <1>1, <1>3
<1>5. \A s \in SUBSET U : g[s] = SumRow(f, g, s)
  BY <1>1, <1>4, FS_Subset
<1>6. PICK h : h = [s \in SUBSET U |-> g[s]]
  OBVIOUS
<1>7. \A s \in SUBSET U : SumRow(f, h, s) = SumRow(f, g, s)
  BY <1>2, <1>6 DEF SumRow
<1>8. h = [s \in SUBSET U |-> SumRow(f, h, s)]
  BY <1>5, <1>6, <1>7
<1>9. SumTable(f, U) = [s \in SUBSET U |-> SumRow(f, SumTable(f, U), s)]
  BY <1>8, Zenon DEF SumTable
<1> HIDE DEF UpTo, Bad
<1> QED
  BY <1>9

\* The tables of two sets agree on what both have.
LEMMA TablesAgree ==
  ASSUME NEW f, NEW U, IsFiniteSet(U), NEW T \in SUBSET U
  PROVE  SumTable(f, U)[T] = Total(f, T)
<1> DEFINE g == SumTable(f, T)
           h == SumTable(f, U)
           Bad == {s \in SUBSET T : g[s] # h[s]}
<1>1. IsFiniteSet(T)
  BY FS_Subset
<1>2. /\ \A s \in SUBSET T : g[s] = SumRow(f, g, s)
      /\ \A s \in SUBSET U : h[s] = SumRow(f, h, s)
  BY <1>1, TableExists
<1> HIDE DEF g, h
<1>3. ASSUME Bad # {} PROVE FALSE
  <2>1. PICK s \in Bad : \A x \in s : s \ {x} \notin Bad
    BY <1>1, <1>3, SmallestSet
  <2>2. s # {} => FirstOf(s) \in s /\ s \ {FirstOf(s)} \in SUBSET T
    BY <2>1, FirstIn
  <2>3. s # {} => g[s \ {FirstOf(s)}] = h[s \ {FirstOf(s)}]
    BY <2>1, <2>2
  <2>4. SumRow(f, g, s) = SumRow(f, h, s)
    BY <2>3 DEF SumRow
  <2>5. g[s] = SumRow(f, g, s) /\ h[s] = SumRow(f, h, s)
    BY <1>2, <2>1
  <2> QED
    BY <2>1, <2>4, <2>5
<1> QED
  BY <1>3, TotalDef DEF g, h

\* There is nothing to sum over the empty set.
LEMMA TotalEmpty ==
  ASSUME NEW f
  PROVE  Total(f, {}) = 0
<1>1. SumTable(f, {})[{}] = SumRow(f, SumTable(f, {}), {})
  BY FS_EmptySet, TableExists
<1> QED
  BY <1>1, TotalDef DEF SumRow

\* The sum is the value of the first element and the sum of the rest.
LEMMA TotalFirst ==
  ASSUME NEW f, NEW S, IsFiniteSet(S), S # {}
  PROVE  FirstOf(S) \in S /\ Total(f, S) = f[FirstOf(S)] + Total(f, S \ {FirstOf(S)})
<1>1. SumTable(f, S)[S] = SumRow(f, SumTable(f, S), S)
  BY TableExists
<1>2. SumTable(f, S)[S \ {FirstOf(S)}] = Total(f, S \ {FirstOf(S)})
  BY TablesAgree
<1> QED
  BY <1>1, <1>2, TotalDef, FirstIn DEF SumRow

\* A sum of natural numbers is one.
LEMMA TotalNat ==
  ASSUME NEW f, NEW S, IsFiniteSet(S), \A x \in S : f[x] \in Nat
  PROVE  Total(f, S) \in Nat
<1> DEFINE Bad == {s \in SUBSET S : Total(f, s) \notin Nat}
<1>1. ASSUME Bad # {} PROVE FALSE
  <2>1. PICK s \in Bad : \A x \in s : s \ {x} \notin Bad
    BY <1>1, SmallestSet
  <2>2. CASE s = {}
    BY <2>1, <2>2, TotalEmpty
  <2>3. CASE s # {}
    <3>1. FirstOf(s) \in s /\ Total(f, s) = f[FirstOf(s)] + Total(f, s \ {FirstOf(s)})
      BY <2>1, <2>3, TotalFirst, FS_Subset
    <3>2. Total(f, s \ {FirstOf(s)}) \in Nat
      BY <2>1, <3>1
    <3> QED
      BY <2>1, <3>1, <3>2
  <2> QED
    BY <2>2, <2>3
<1> QED
  BY <1>1

\* Any element may be taken first.
LEMMA TotalRemove ==
  ASSUME NEW f, NEW S, IsFiniteSet(S), \A x \in S : f[x] \in Nat, NEW e \in S
  PROVE  Total(f, S) = f[e] + Total(f, S \ {e})
<1> DEFINE Bad == {s \in SUBSET S : \E x \in s : Total(f, s) # f[x] + Total(f, s \ {x})}
<1>1. ASSUME Bad # {} PROVE FALSE
  <2>1. PICK s \in Bad : \A x \in s : s \ {x} \notin Bad
    BY <1>1, SmallestSet
  <2>2. PICK x \in s : Total(f, s) # f[x] + Total(f, s \ {x})
    BY <2>1
  <2> DEFINE c == FirstOf(s)
             r == s \ {x, c}
  <2>3. c \in s /\ Total(f, s) = f[c] + Total(f, s \ {c})
    BY <2>1, <2>2, TotalFirst, FS_Subset
  <2> HIDE DEF c
  <2>4. c # x
    BY <2>2, <2>3
  <2>5. Total(f, s \ {c}) = f[x] + Total(f, (s \ {c}) \ {x})
    BY <2>1, <2>3, <2>4
  <2>6. Total(f, s \ {x}) = f[c] + Total(f, (s \ {x}) \ {c})
    BY <2>1, <2>2, <2>3, <2>4
  <2>7. (s \ {c}) \ {x} = r /\ (s \ {x}) \ {c} = r
    OBVIOUS
  <2>8. Total(f, r) \in Nat
    <3>1. r \in SUBSET S
      BY <2>1
    <3> QED
      BY <3>1, FS_Subset, TotalNat
  <2>9. f[x] \in Nat /\ f[c] \in Nat
    BY <2>1, <2>3
  <2>10. Total(f, s) = f[c] + (f[x] + Total(f, r)) /\ Total(f, s \ {x}) = f[c] + Total(f, r)
    BY <2>3, <2>5, <2>6, <2>7
  <2> QED
    BY <2>2, <2>8, <2>9, <2>10
<1> QED
  BY <1>1

\* A new element adds its value.
LEMMA TotalAdd ==
  ASSUME NEW f, NEW S, IsFiniteSet(S), NEW e, e \notin S, \A x \in S \cup {e} : f[x] \in Nat
  PROVE  Total(f, S \cup {e}) = f[e] + Total(f, S)
<1>1. IsFiniteSet(S \cup {e}) /\ (S \cup {e}) \ {e} = S
  BY FS_AddElement
<1> QED
  BY <1>1, TotalRemove

\* Only the values over the set count.
LEMMA TotalSame ==
  ASSUME NEW f, NEW g, NEW S, IsFiniteSet(S), \A x \in S : f[x] = g[x]
  PROVE  Total(f, S) = Total(g, S)
<1> DEFINE Bad == {s \in SUBSET S : Total(f, s) # Total(g, s)}
<1>1. ASSUME Bad # {} PROVE FALSE
  <2>1. PICK s \in Bad : \A x \in s : s \ {x} \notin Bad
    BY <1>1, SmallestSet
  <2>2. CASE s = {}
    BY <2>1, <2>2, TotalEmpty
  <2>3. CASE s # {}
    <3>1. /\ FirstOf(s) \in s /\ Total(f, s) = f[FirstOf(s)] + Total(f, s \ {FirstOf(s)})
          /\ Total(g, s) = g[FirstOf(s)] + Total(g, s \ {FirstOf(s)})
      BY <2>1, <2>3, TotalFirst, FS_Subset
    <3>2. Total(f, s \ {FirstOf(s)}) = Total(g, s \ {FirstOf(s)})
      BY <2>1, <3>1
    <3> QED
      BY <2>1, <3>1, <3>2
  <2> QED
    BY <2>2, <2>3
<1> QED
  BY <1>1

\* A sum may be taken over the values of an injective function instead.
LEMMA TotalImage ==
  ASSUME NEW f, NEW g, NEW d, NEW S, IsFiniteSet(S),
         \A x \in S : f[x] \in Nat /\ g[d[x]] = f[x],
         \A x, y \in S : d[x] = d[y] => x = y
  PROVE  Total(g, {d[x] : x \in S}) = Total(f, S)
<1> DEFINE D(s) == {d[x] : x \in s}
           Bad == {s \in SUBSET S : Total(g, D(s)) # Total(f, s)}
<1>1. ASSUME Bad # {} PROVE FALSE
  <2>1. PICK s \in Bad : \A x \in s : s \ {x} \notin Bad
    BY <1>1, SmallestSet
  <2>2. CASE s = {}
    <3>1. D(s) = {}
      BY <2>2
    <3> QED
      BY <2>1, <2>2, <3>1, TotalEmpty
  <2>3. CASE s # {}
    <3>1. PICK c : c = FirstOf(s)
      OBVIOUS
    <3>2. c \in s /\ Total(f, s) = f[c] + Total(f, s \ {c})
      BY <2>1, <2>3, <3>1, TotalFirst, FS_Subset
    <3>3. Total(g, D(s \ {c})) = Total(f, s \ {c})
      BY <2>1, <3>2
    <3>4. D(s) = D(s \ {c}) \cup {d[c]} /\ d[c] \notin D(s \ {c})
      BY <2>1, <3>2
    <3>5. IsFiniteSet(D(s \ {c}))
      <4>1. IsFiniteSet(s \ {c})
        BY <2>1, FS_Subset
      <4>2. [x \in s \ {c} |-> d[x]] \in Surjection(s \ {c}, D(s \ {c}))
        BY DEF Surjection
      <4> QED
        BY <4>1, <4>2, FS_Surjection
    <3>6. \A y \in D(s \ {c}) \cup {d[c]} : g[y] \in Nat
      BY <2>1, <3>2
    <3>7. Total(g, D(s)) = g[d[c]] + Total(g, D(s \ {c}))
      BY <3>4, <3>5, <3>6, TotalAdd
    <3>8. g[d[c]] = f[c]
      BY <2>1, <3>2
    <3> QED
      BY <2>1, <3>2, <3>3, <3>7, <3>8
  <2> QED
    BY <2>2, <2>3
<1> QED
  BY <1>1

----------------------------------------------------------------------------
(* What the lookups return *)

\* The first entry for a pointer is in the list and holds it.
LEMMA FoundByPtr ==
  ASSUME TypeOK, NEW p
  PROVE  LET k == linked_list_searchForPointer(p) IN
         /\ k = 0 => p \notin Tracked
         /\ k # 0 => k \in DOMAIN list /\ data[list[k]] = p /\ list[k] \in Listed
<1> DEFINE I == {i \in DOMAIN list : data[list[i]] = p}
<1>1. DOMAIN list \subseteq Nat \ {0} /\ I \subseteq DOMAIN list
  BY DEF TypeOK, DataType
<1>2. CASE I = {}
  <2>1. p \notin Tracked
    BY <1>2 DEF Tracked, Listed
  <2> QED
    BY <1>2, <2>1 DEF linked_list_searchForPointer
<1>3. CASE I # {}
  <2>1. Min(I) \in I
    BY <1>1, <1>3, MinIn
  <2>2. linked_list_searchForPointer(p) = Min(I)
    BY <1>3 DEF linked_list_searchForPointer
  <2> QED
    BY <1>1, <2>1, <2>2 DEF Listed
<1> QED
  BY <1>2, <1>3

LEMMA ByPtrListed ==
  ASSUME TypeOK, NEW p
  PROVE  LET e == linked_list_getByPtr(p) IN
         /\ e = NULL => p \notin Tracked
         /\ e # NULL => e \in Listed /\ e \in Entries /\ data[e] = p
<1>1. \A k \in DOMAIN list : list[k] \in Entries /\ list[k] # NULL
  BY NullAssumption DEF TypeOK, DataType
<1> QED
  BY <1>1, FoundByPtr DEF linked_list_getByPtr, EntryAt

\* The same of a lookup through a coherent cache.
LEMMA HitListed ==
  ASSUME TypeOK, CacheCoherent, NEW p \in Addrs
  PROVE  LET e == memman_TryCacheHit(p) IN
         e # NULL => e \in Listed /\ e \in Entries /\ data[e] = p
<1> DEFINE I == {i \in Slots : key[i] = p}
<1>1. I \subseteq Nat /\ 0 \notin I
  BY WidthAssumption DEF Slots
<1>2. CASE I = {} \/ ~use_cache
  BY <1>2 DEF memman_TryCacheHit, HitSlot
<1>3. CASE I # {} /\ use_cache
  <2>1. HitSlot(p) = Min(I)
    BY <1>3 DEF HitSlot
  <2>2. Min(I) \in I
    BY <1>1, <1>3, MinIn
  <2>3. PICK i \in Slots : key[i] = p /\ memman_TryCacheHit(p) = value[i]
    BY <1>1, <2>1, <2>2 DEF memman_TryCacheHit
  <2> QED
    BY <2>3, NullAssumption DEF CacheCoherent, TypeOK, DataType, Listed
<1> QED
  BY <1>2, <1>3

LEMMA LookupListed ==
  ASSUME TypeOK, CacheCoherent, NEW p \in Addrs
  PROVE  LET e == Lookup(p) IN
         /\ e = NULL => p \notin Tracked
         /\ e # NULL => e \in Listed /\ e \in Entries /\ data[e] = p
  BY ByPtrListed, HitListed DEF Lookup

----------------------------------------------------------------------------
(* Type correctness, whatever the program calls *)

LEMMA FoundTyped ==
  ASSUME TypeOK, NEW p
  PROVE  /\ linked_list_getByPtr(p) \in Entries \cup {NULL}
         /\ memman_TryCacheHit(p) \in Entries \cup {NULL}
         /\ Lookup(p) \in Entries \cup {NULL}
         /\ linked_list_searchForPointer(p) # 0 =>
              linked_list_searchForPointer(p) \in DOMAIN list
<1>1. linked_list_getByPtr(p) \in Entries \cup {NULL}
  BY ByPtrListed
<1>2. memman_TryCacheHit(p) \in Entries \cup {NULL}
  <2> DEFINE I == {i \in Slots : key[i] = p}
  <2>1. I \in SUBSET Nat /\ I \subseteq Slots
    BY WidthAssumption DEF Slots
  <2>2. HitSlot(p) = 0 \/ HitSlot(p) \in Slots
    BY <2>1, MinIn DEF HitSlot
  <2> QED
    BY <2>2 DEF memman_TryCacheHit, TypeOK, DataType
<1> QED
  BY <1>1, <1>2, FoundByPtr DEF Lookup

\* The first entry with an id is in the list.
LEMMA ByIdListed ==
  ASSUME TypeOK, NEW id
  PROVE  linked_list_searchForId(id) \in Listed \cup {NULL} /\ Listed \subseteq Entries
<1> DEFINE I == {i \in DOMAIN list : block_id[list[i]] = id}
<1>1. I \in SUBSET Nat /\ 0 \notin I /\ I \subseteq DOMAIN list
  BY DEF TypeOK, DataType
<1>2. I # {} => Min(I) \in I
  BY <1>1, MinIn
<1>3. Listed \subseteq Entries
  BY DEF Listed, TypeOK, DataType
<1>4. CASE I = {}
  BY <1>3, <1>4 DEF linked_list_searchForId, EntryAt
<1>5. CASE I # {}
  <2>1. linked_list_searchForId(id) = list[Min(I)]
    BY <1>1, <1>2, <1>5 DEF linked_list_searchForId, EntryAt
  <2> QED
    BY <1>1, <1>2, <1>3, <1>5, <2>1 DEF Listed
<1> QED
  BY <1>4, <1>5

LEMMA TouchTyped ==
  ASSUME TypeOK, NEW e \in Entries \cup {NULL}
  PROVE  Touch(e) \in [Entries -> 0..(BYTE - 1)]
<1>1. CASE e = NULL
  BY <1>1 DEF Touch, TypeOK, DataType
<1>2. CASE e \in Entries
  <2>1. (weight[e] + 1) % BYTE \in 0..(BYTE - 1)
    <3>1. weight[e] + 1 \in Int /\ BYTE \in Nat \ {0}
      BY <1>2, WidthAssumption DEF TypeOK, DataType
    <3> QED
      BY <3>1, ModRange
  <2>2. Touch(e) = [weight EXCEPT ![e] = (weight[e] + 1) % BYTE]
    BY <1>2, NullAssumption DEF Touch
  <2> QED
    BY <1>2, <2>1, <2>2 DEF TypeOK, DataType
<1> QED
  BY <1>1, <1>2

\* A call has ended that found the entry e, or nothing.
Ended(e) == \E code \in Errors, last \in Entries \cup {NULL} : Ends(code, e, last)

\* The ways a call ends that changes no block and no slot
LEMMA EndedForms ==
  ASSUME TypeOK
  PROVE  /\ \A e : \A code \in Errors : sn_error(code, e) => Ended(e)
         /\ \A e : Answer(e) => Ended(e)
         /\ \A e \in Entries \cup {NULL} : Searched(e) => Ended(e)
         /\ \A p : Misses(p) => Ended(linked_list_getByPtr(p))
<1>1. error_code \in Errors /\ lastAccess \in Entries \cup {NULL}
  BY DEF TypeOK, DataType, ManagerType
<1>2. \A e : \A code \in Errors : sn_error(code, e) => Ended(e)
  BY <1>1 DEF sn_error, Ended
<1>3. \A e : Answer(e) => Ended(e)
  BY <1>1 DEF Answer, Ended
<1>4. \A e \in Entries \cup {NULL} : Searched(e) => Ended(e)
  <2>1. "SN_ERR_NO_ADDER_FOUND" \in Errors
    BY DEF Errors
  <2> QED
    BY <1>1, <2>1 DEF Searched, Noted, Ended
<1>5. \A p : Misses(p) => Ended(linked_list_getByPtr(p))
  BY <1>4, FoundTyped DEF Misses
<1> QED
  BY <1>2, <1>3, <1>4, <1>5

LEMMA EndedType ==
  ASSUME TypeOK, NEW e \in Entries \cup {NULL}, Ended(e)
  PROVE  DataType' /\ ManagerType'
  BY TouchTyped DEF Ended, Ends, Reads, TypeOK, DataType, ManagerType, heap, cache, flags

LEMMA ErrorType ==
  ASSUME TypeOK, NEW e \in Entries \cup {NULL}, NEW code \in Errors, sn_error(code, e)
  PROVE  DataType' /\ ManagerType'
  BY EndedForms, EndedType

LEMMA PushType ==
  ASSUME TypeOK, NEW p \in Pointers, NEW bytes \in 0..(SIZE_MOD - 1),
         NEW e \in Entries \cup {NULL}, linked_list_push(p, bytes, e)
  PROVE  /\ list' \in Seq(Entries)
         /\ data' \in [Entries -> Pointers] /\ size' \in [Entries -> 0..(SIZE_MOD - 1)]
         /\ cached' \in [Entries -> 0..1] /\ block_id' \in [Entries -> Nat]
         /\ weight' \in [Entries -> 0..(BYTE - 1)] /\ lastAccess' \in Entries \cup {NULL}
         /\ status' \in {"running", "aborted", "undefined"}
<1>1. CASE Abort /\ UNCHANGED <<list, entry>>
  BY <1>1 DEF Abort, entry, TypeOK, DataType
<1>2. CASE ~(Abort /\ UNCHANGED <<list, entry>>)
  <2>1. PICK f \in Entries \ Listed :
          /\ list' = Append(list, f)
          /\ data' = [data EXCEPT ![f] = p] /\ size' = [size EXCEPT ![f] = bytes]
          /\ cached' = [cached EXCEPT ![f] = 0] /\ block_id' = [block_id EXCEPT ![f] = 0]
          /\ weight' = [Touch(e) EXCEPT ![f] = 0] /\ UNCHANGED lastAccess
          /\ Reads({e} \ {NULL})
    BY <1>2, Zenon DEF linked_list_push
  <2>2. 0 \in 0..(BYTE - 1)
    BY WidthAssumption
  <2>3. list' \in Seq(Entries)
    BY <2>1 DEF TypeOK, DataType
  <2>4. weight' \in [Entries -> 0..(BYTE - 1)]
    BY <2>1, <2>2, TouchTyped
  <2>5. status' \in {"running", "undefined"}
    BY <2>1 DEF Reads
  <2>6. /\ data' \in [Entries -> Pointers] /\ size' \in [Entries -> 0..(SIZE_MOD - 1)]
        /\ cached' \in [Entries -> 0..1] /\ block_id' \in [Entries -> Nat]
        /\ lastAccess' \in Entries \cup {NULL}
    BY <2>1 DEF TypeOK, DataType
  <2> QED
    BY <2>3, <2>4, <2>5, <2>6
<1> QED
  BY <1>1, <1>2

\* A function returns from memman_work, or never called it.
LEMMA ControlReturns ==
  ASSUME TypeOK
  PROVE  /\ \A op : Body(op) => ControlType'
         /\ \A op : Begin(op) => ControlType'
<1>1. NoCall \in [op : WorkCalls \cup {"none"}, ptr : Pointers, n : Nat] /\ NoCall.op = "none"
  BY DEF NoCall, Pointers
<1>2. ASSUME NEW op, Body(op) PROVE ControlType'
  BY <1>1, <1>2 DEF Body, ControlType
<1>3. ASSUME NEW op, Begin(op) PROVE ControlType'
  BY <1>3 DEF Begin, control, TypeOK, ControlType
<1> QED
  BY <1>2, <1>3

\* sn_malloc and sn_calloc after their checks
LEMMA AllocatedType ==
  ASSUME TypeOK, NEW bytes \in 0..(SIZE_MOD - 1), NEW recorded \in 0..(SIZE_MOD - 1),
         NEW e \in Entries \cup {NULL}, Allocated(bytes, recorded, e)
  PROVE  DataType' /\ ManagerType'
<1>1. PICK a \in FreeAddrs :
        /\ live' = [live EXCEPT ![a] = bytes]
        /\ global_memory_usage' = (global_memory_usage + bytes) % SIZE_MOD
        /\ linked_list_push(a, recorded, e)
        /\ UNCHANGED <<foreign, cache, flags, error_code>>
  BY DEF Allocated
<1>2. global_memory_usage' \in 0..(SIZE_MOD - 1)
  BY <1>1, ModRange, WidthAssumption DEF TypeOK, ManagerType
<1>3. a \in Pointers
  BY DEF FreeAddrs, Pointers
<1> QED
  BY <1>1, <1>2, <1>3, PushType DEF TypeOK, DataType, ManagerType, cache, flags

LEMMA MallocType ==
  ASSUME TypeOK, NEW bytes \in 0..(SIZE_MOD - 1), NEW e \in Entries \cup {NULL}, Malloc(bytes, e)
  PROVE  DataType' /\ ManagerType'
  BY ErrorType, AllocatedType DEF Malloc, Errors

LEMMA ExitType ==
  ASSUME TypeOK, NEW how \in {"exited", "crashed"}, doexit(how)
  PROVE  DataType' /\ available_cache_slots' = available_cache_slots /\ UNCHANGED flags
         /\ UNCHANGED global_memory_usage
         /\ status' \in {"running", "exited", "crashed", "aborted", "undefined"}
  BY WidthAssumption DEF doexit, freeOnListFree, TypeOK, DataType, entry, Pointers

\* The queries: each ends with an entry found, or none.
LEMMA QueryEnds ==
  ASSUME TypeOK, \/ sn_query_size \/ (\E op \in PtrQueries : QueryField(op))
                 \/ sn_calculate_checksum \/ sn_is_tracked_block \/ sn_query_thread_memory_usage
  PROVE  \E e \in {NULL, linked_list_getByPtr(call.ptr), memman_TryCacheHit(call.ptr)} :
           Ended(e) /\ (call.ptr = NULL => e = NULL)
<1> DEFINE e == linked_list_getByPtr(call.ptr)
           hit == memman_TryCacheHit(call.ptr)
<1>1. e \in Entries \cup {NULL} /\ lastAccess \in Entries \cup {NULL} /\ error_code \in Errors
  BY FoundTyped DEF TypeOK, DataType, ManagerType
<1>2. {"SN_ERR_NULL_PTR", "SN_ERR_BAD_SIZE", "SN_ERR_NO_ADDER_FOUND"} \subseteq Errors
  BY DEF Errors
<1> HIDE DEF e, hit
<1>3. CASE sn_query_size
  <2>1. sn_error("SN_ERR_NULL_PTR", NULL) \/ (call.ptr # NULL /\ Searched(e))
    BY <1>3 DEF sn_query_size, e
  <2> QED
    BY <1>1, <1>2, <2>1, EndedForms DEF e
<1>4. CASE \E op \in PtrQueries : QueryField(op)
  <2>1. \/ sn_error("SN_ERR_NULL_PTR", NULL) \/ Misses(call.ptr)
        \/ call.ptr # NULL /\ Answer(hit)
    BY <1>4 DEF QueryField, hit
  <2>2. Misses(call.ptr) => call.ptr # NULL
    BY DEF Misses
  <2> QED
    BY <1>2, <2>1, <2>2, EndedForms DEF e, hit
<1>5. CASE sn_calculate_checksum
  <2>1. \/ sn_error("SN_ERR_NULL_PTR", NULL) \/ Misses(call.ptr)
        \/ call.ptr # NULL /\ (sn_error("SN_ERR_BAD_SIZE", hit) \/ Answer(hit))
    BY <1>5 DEF sn_calculate_checksum, hit
  <2>2. Misses(call.ptr) => call.ptr # NULL
    BY DEF Misses
  <2> QED
    BY <1>2, <2>1, <2>2, EndedForms DEF e, hit
<1>6. CASE sn_is_tracked_block
  <2>1. \/ sn_error("SN_ERR_NULL_PTR", NULL) \/ Answer(NULL)
        \/ call.ptr # NULL /\ Ends(error_code, hit, Noted(e))
    BY <1>6 DEF sn_is_tracked_block, hit, e
  <2>2. Noted(e) \in Entries \cup {NULL}
    BY <1>1 DEF Noted
  <2> QED
    BY <1>1, <1>2, <2>1, <2>2, EndedForms DEF Ended, hit
<1>7. CASE sn_query_thread_memory_usage
  BY <1>7, EndedForms DEF sn_query_thread_memory_usage
<1> QED
  BY <1>3, <1>4, <1>5, <1>6, <1>7

LEMMA QueryType ==
  ASSUME TypeOK, \/ sn_query_size \/ (\E op \in PtrQueries : QueryField(op))
                 \/ sn_calculate_checksum \/ sn_is_tracked_block \/ sn_query_thread_memory_usage
  PROVE  TypeOK'
<1>1. ControlType'
  BY ControlReturns DEF sn_query_size, QueryField, sn_calculate_checksum, sn_is_tracked_block,
                        sn_query_thread_memory_usage
<1>2. \E e \in Entries \cup {NULL} : Ended(e)
  BY QueryEnds, FoundTyped
<1> QED
  BY <1>1, <1>2, EndedType DEF TypeOK

LEMMA IdType ==
  ASSUME TypeOK, sn_set_block_id \/ sn_query_block_id
  PROVE  TypeOK'
<1>1. ControlType'
  BY ControlReturns DEF sn_set_block_id, sn_query_block_id
<1>2. CASE Misses(call.ptr) \/ \E code \in Errors : sn_error(code, NULL)
  BY <1>1, <1>2, EndedForms, EndedType, FoundTyped DEF TypeOK
<1>3. CASE sn_set_block_id /\ ~(Misses(call.ptr) \/ \E code \in Errors : sn_error(code, NULL))
  <2> DEFINE hit == memman_TryCacheHit(call.ptr)
  <2>1. /\ hit # NULL /\ weight' = Touch(hit) /\ block_id' = [block_id EXCEPT ![hit] = call.n]
        /\ Reads({hit})
        /\ UNCHANGED <<heap, list, data, size, cached, lastAccess, cache, flags,
                       global_memory_usage, error_code>>
    BY <1>3, Zenon DEF sn_set_block_id, Errors
  <2>2. hit \in Entries /\ call.n \in Nat
    BY <2>1, FoundTyped DEF TypeOK, ControlType
  <2>3. weight' \in [Entries -> 0..(BYTE - 1)]
    BY <2>1, <2>2, TouchTyped
  <2> HIDE DEF hit
  <2> QED
    BY <1>1, <2>1, <2>2, <2>3 DEF TypeOK, DataType, ManagerType, Reads, heap, cache, flags
<1>4. CASE sn_query_block_id /\ ~(\E code \in Errors : sn_error(code, NULL))
  <2> DEFINE e == linked_list_searchForId(call.n)
  <2>1. /\ weight' \in {Touch(e), weight} /\ lastAccess' \in {lastAccess, e}
        /\ error_code' \in {"SN_ERR_NO_ADDER_FOUND", error_code}
        /\ status' \in {"running", "undefined"}
        /\ UNCHANGED <<heap, list, data, size, cached, block_id, cache, flags, global_memory_usage>>
    BY <1>4 DEF sn_query_block_id, Errors, Reads, Noted
  <2>2. e \in Entries \cup {NULL}
    BY ByIdListed
  <2>3. weight' \in [Entries -> 0..(BYTE - 1)]
    BY <2>1, <2>2, TouchTyped DEF TypeOK, DataType
  <2> HIDE DEF e
  <2> QED
    BY <1>1, <2>1, <2>2, <2>3 DEF TypeOK, DataType, ManagerType, Errors, heap, cache, flags
<1> QED
  BY <1>2, <1>3, <1>4

LEMMA RegisterType ==
  ASSUME TypeOK, sn_register \/ sn_register_size
  PROVE  TypeOK'
<1>1. ControlType'
  BY ControlReturns DEF sn_register, sn_register_size
<1>2. CASE Ended(NULL)
  BY <1>1, <1>2, EndedType DEF TypeOK
<1>3. CASE ~Ended(NULL)
  <2>1. PICK n \in 0..(SIZE_MOD - 1) : /\ linked_list_push(call.ptr, n, NULL)
                   /\ foreign' = foreign \ {call.ptr}
                   /\ UNCHANGED <<live, cache, flags, global_memory_usage, error_code>>
    <3>1. CASE sn_register
      BY <3>1, WidthAssumption DEF sn_register
    <3>2. CASE sn_register_size
      <4>1. call.n \in 0..(SIZE_MOD - 1)
        BY <3>2, InputAssumption DEF sn_register_size, Body, TypeOK, ControlType
      <4>2. /\ ~Ends(error_code, NULL, linked_list_getByPtr(call.ptr))
            /\ \A code \in Errors : ~sn_error(code, NULL)
        BY <1>3, FoundTyped, EndedForms DEF Ended, TypeOK, ManagerType
      <4> QED
        BY <3>2, <4>1, <4>2, Zenon DEF sn_register_size, Errors
    <3> QED
      BY <3>1, <3>2
  <2>2. call.ptr \in Pointers
    BY DEF TypeOK, ControlType
  <2> QED
    BY <1>1, <2>1, <2>2, PushType DEF TypeOK, DataType, ManagerType, cache, flags
<1> QED
  BY <1>2, <1>3

\* The functions that allocate
LEMMA MallocsType ==
  ASSUME TypeOK, sn_malloc \/ sn_calloc \/ sn_query_static_metadata_copy
  PROVE  TypeOK'
<1>1. ControlType'
  BY ControlReturns DEF sn_malloc, sn_calloc, sn_query_static_metadata_copy
<1>2. CASE sn_malloc
  <2>1. \E bytes \in 0..(SIZE_MOD - 1) : Malloc(bytes, NULL)
    BY <1>2, InputAssumption DEF sn_malloc
  <2> QED
    BY <1>1, <2>1, MallocType DEF TypeOK
<1>3. CASE sn_calloc
  <2>1. PICK num \in Nums, bytes \in Sizes :
          \/ \E code \in Errors : sn_error(code, NULL)
          \/ bytes * num < SIZE_MOD /\ Allocated(bytes * num, bytes, NULL)
    BY <1>3 DEF sn_calloc, Errors
  <2>2. num \in Nat /\ bytes \in 0..(SIZE_MOD - 1)
    BY InputAssumption
  <2>3. bytes * num \in Nat
    BY <2>2
  <2>4. bytes * num < SIZE_MOD => bytes * num \in 0..(SIZE_MOD - 1)
    BY <2>3, WidthAssumption
  <2> QED
    BY <1>1, <2>1, <2>2, <2>4, ErrorType, AllocatedType DEF TypeOK
<1>4. CASE sn_query_static_metadata_copy
  <2>1. memman_TryCacheHit(call.ptr) \in Entries \cup {NULL} /\ META \in 0..(SIZE_MOD - 1)
    BY FoundTyped, WidthAssumption
  <2>2. \/ Misses(call.ptr) \/ \E code \in Errors : sn_error(code, NULL)
        \/ Malloc(META, memman_TryCacheHit(call.ptr))
    BY <1>4 DEF sn_query_static_metadata_copy, Errors
  <2> QED
    BY <1>1, <2>1, <2>2, EndedForms, EndedType, FoundTyped, MallocType DEF TypeOK
<1> QED
  BY <1>2, <1>3, <1>4

\* Removing the k-th entry keeps the others, in order.
LEMMA RemoveTyped ==
  ASSUME TypeOK, NEW k \in DOMAIN list
  PROVE  /\ linked_list_removeEntry(k) \in Seq(Entries)
         /\ DOMAIN linked_list_removeEntry(k) = 1..(Len(list) - 1)
         /\ \A i \in 1..(Len(list) - 1) :
              linked_list_removeEntry(k)[i] = IF i < k THEN list[i] ELSE list[i + 1]
<1>1. k \in 1..Len(list) /\ Len(list) \in Nat /\ list \in [1..Len(list) -> Entries]
  BY DEF TypeOK, DataType
<1> DEFINE r == [i \in 1..(Len(list) - 1) |-> IF i < k THEN list[i] ELSE list[i + 1]]
<1>2. linked_list_removeEntry(k) = r
  BY <1>1 DEF linked_list_removeEntry
<1>3. r \in [1..(Len(list) - 1) -> Entries] /\ Len(list) - 1 \in Nat
  BY <1>1
<1> QED
  BY <1>2, <1>3

LEMMA FreeBlockType ==
  ASSUME TypeOK, NEW ptr \in Pointers, Lookup(ptr) # NULL, FreeBlock(ptr)
  PROVE  DataType' /\ ManagerType'
<1> DEFINE e == Lookup(ptr)
           k == linked_list_searchForPointer(ptr)
           keyed == {i \in Slots : key[i] = ptr}
<1>2. e \in Entries
  BY FoundTyped
<1>3. list' \in Seq(Entries)
  BY FoundTyped, RemoveTyped DEF FreeBlock, TypeOK, DataType, linked_list_removeEntry
<1>4. Cardinality(keyed) \in Nat
  BY SlotCount
<1>5. available_cache_slots' \in 0..(BYTE - 1)
  <2>1. available_cache_slots + Cardinality(keyed) \in Int /\ BYTE \in Nat \ {0}
    BY <1>4, WidthAssumption DEF TypeOK, ManagerType
  <2> QED
    BY <2>1, ModRange DEF FreeBlock, memman_cacheInvalidate
<1>6. global_memory_usage' \in 0..(SIZE_MOD - 1)
  <2>1. global_memory_usage - size[e] \in Int /\ SIZE_MOD \in Nat \ {0}
    BY <1>2, WidthAssumption DEF TypeOK, DataType, ManagerType
  <2> QED
    BY <2>1, ModRange DEF FreeBlock
<1>7. weight' \in [Entries -> 0..(BYTE - 1)]
  BY <1>2, TouchTyped, WidthAssumption DEF FreeBlock, Cleared
<1>8. /\ data' \in [Entries -> Pointers] /\ size' \in [Entries -> 0..(SIZE_MOD - 1)]
      /\ cached' \in [Entries -> 0..1] /\ block_id' \in [Entries -> Nat]
      /\ lastAccess' \in Entries \cup {NULL}
  <2>1. /\ data' = Cleared(data, EntryAt(k), NULL) /\ size' = Cleared(size, EntryAt(k), 0)
        /\ block_id' = Cleared(block_id, EntryAt(k), 0)
        /\ lastAccess' \in {e, lastAccess}
        /\ cached' \in [Entries -> 0..1]
    BY DEF FreeBlock, TypeOK, DataType
  <2>2. \A E : /\ Cleared(data, E, NULL) \in [Entries -> Pointers]
              /\ Cleared(block_id, E, 0) \in [Entries -> Nat]
    BY DEF Cleared, TypeOK, DataType, Pointers
  <2>3. \A E : Cleared(size, E, 0) \in [Entries -> 0..(SIZE_MOD - 1)]
    BY WidthAssumption DEF Cleared, TypeOK, DataType
  <2> QED
    BY <1>2, <2>1, <2>2, <2>3 DEF TypeOK, DataType
<1>9. /\ key' \in [Slots -> Pointers] /\ value' \in [Slots -> Entries \cup {NULL}]
      /\ live' \in [Addrs -> 0..(SIZE_MOD - 1)] /\ foreign' \in SUBSET Addrs
  <2>1. key' \in [Slots -> Pointers] /\ value' \in [Slots -> Entries \cup {NULL}]
    BY DEF FreeBlock, TypeOK, DataType, Pointers
  <2>2. live' \in [Addrs -> 0..(SIZE_MOD - 1)] /\ foreign' \in SUBSET Addrs
    BY WidthAssumption DEF FreeBlock, TypeOK, DataType
  <2> QED
    BY <2>1, <2>2
<1>10. ManagerType'
  BY <1>5, <1>6 DEF FreeBlock, TypeOK, ManagerType, flags
<1> QED
  BY <1>3, <1>7, <1>8, <1>9, <1>10 DEF DataType

LEMMA FreeType ==
  ASSUME TypeOK, sn_free
  PROVE  TypeOK'
<1>1. ControlType'
  BY ControlReturns DEF sn_free
<1>2. CASE \E code \in Errors : sn_error(code, NULL)
  BY <1>1, <1>2, ErrorType DEF TypeOK
<1>3. CASE ~(\E code \in Errors : sn_error(code, NULL))
  <2>1. PICK ptr \in Pointers : Lookup(ptr) # NULL /\ FreeBlock(ptr)
    BY <1>3, Zenon DEF sn_free, Errors
  <2> QED
    BY <1>1, <2>1, FreeBlockType DEF TypeOK
<1> QED
  BY <1>2, <1>3

LEMMA ReallocType ==
  ASSUME TypeOK, sn_realloc
  PROVE  TypeOK'
<1>1. ControlType'
  BY ControlReturns DEF sn_realloc
<1>2. PICK ptr \in Pointers, new_size \in Sizes :
        \/ \E code \in Errors : \/ sn_error(code, NULL)
                                \/ Ends(code, linked_list_getByPtr(ptr), linked_list_getByPtr(ptr))
        \/ /\ ptr # NULL /\ linked_list_getByPtr(ptr) # NULL
           /\ Resize(ptr, linked_list_getByPtr(ptr), new_size)
  BY Zenon DEF sn_realloc, Errors
<1> DEFINE e == linked_list_getByPtr(ptr)
<1>3. e \in Entries \cup {NULL}
  BY FoundTyped
<1>4. CASE \E code \in Errors : sn_error(code, NULL) \/ Ends(code, e, e)
  <2>1. Ended(NULL) \/ Ended(e)
    BY <1>3, <1>4, EndedForms DEF Ended
  <2> QED
    BY <1>1, <1>3, <2>1, EndedType DEF TypeOK
<1>5. CASE e # NULL /\ ptr # NULL /\ Resize(ptr, e, new_size)
  <2>1. new_size \in 0..(SIZE_MOD - 1) /\ ptr \in Addrs /\ e \in Entries
    BY <1>3, <1>5, InputAssumption DEF Pointers
  <2>2. global_memory_usage' \in 0..(SIZE_MOD - 1)
    <3>1. global_memory_usage - size[e] + new_size \in Int /\ SIZE_MOD \in Nat \ {0}
      BY <2>1, WidthAssumption DEF TypeOK, DataType, ManagerType
    <3> QED
      BY <1>5, <3>1, ModRange DEF Resize
  <2>3. weight' \in [Entries -> 0..(BYTE - 1)]
    BY <1>5, <2>1, TouchTyped DEF Resize
  <2>4. /\ live' \in [Addrs -> 0..(SIZE_MOD - 1)] /\ data' \in [Entries -> Pointers]
        /\ size' \in [Entries -> 0..(SIZE_MOD - 1)]
    <3>1. PICK new_ptr \in Addrs : /\ live' = [live EXCEPT ![ptr] = 0, ![new_ptr] = new_size]
                                   /\ data' = [data EXCEPT ![e] = new_ptr]
      BY <1>5, <2>1 DEF Resize, FreeAddrs
    <3>2. size' = [size EXCEPT ![e] = new_size] /\ new_ptr \in Pointers /\ 0 \in 0..(SIZE_MOD - 1)
      BY <1>5, WidthAssumption DEF Resize, linked_list_entry_setSize, Pointers
    <3> HIDE DEF e
    <3> QED
      BY <2>1, <3>1, <3>2 DEF TypeOK, DataType
  <2> QED
    BY <1>1, <1>5, <2>1, <2>2, <2>3, <2>4 DEF Resize, TypeOK, DataType, ManagerType, cache, flags
<1> QED
  BY <1>2, <1>4, <1>5

LEMMA CachePutType ==
  ASSUME TypeOK, sn_request_to_fast_cache
  PROVE  TypeOK'
<1>1. ControlType'
  BY ControlReturns DEF sn_request_to_fast_cache
<1>2. PICK ptr \in Pointers :
        \/ \E code \in Errors : sn_error(code, NULL)
        \/ linked_list_getByPtr(ptr) # NULL /\ memman_tryCachePut(linked_list_getByPtr(ptr))
  BY Zenon DEF sn_request_to_fast_cache, Errors
<1> DEFINE e == linked_list_getByPtr(ptr)
           unkeyed == {i \in Slots : key[i] = NULL}
<1>3. e \in Entries \cup {NULL}
  BY FoundTyped
<1>4. CASE Ends(error_code, e, e) \/ \E code \in Errors : sn_error(code, NULL)
  <2>1. Ended(NULL) \/ Ended(e)
    BY <1>3, <1>4, EndedForms DEF Ended, TypeOK, ManagerType
  <2> QED
    BY <1>1, <1>3, <2>1, EndedType DEF TypeOK
<1>5. CASE doexit("crashed") /\ UNCHANGED error_code
  BY <1>1, <1>5, ExitType DEF TypeOK, ManagerType, flags
<1>6. CASE /\ e # NULL /\ available_cache_slots # 0 /\ unkeyed # {}
           /\ available_cache_slots' = available_cache_slots - 1
           /\ key' = [key EXCEPT ![Min(unkeyed)] = data[e]]
           /\ value' = [value EXCEPT ![Min(unkeyed)] = e]
           /\ cached' = [cached EXCEPT ![e] = 1]
           /\ weight' = Touch(e) /\ lastAccess' = e
           /\ UNCHANGED <<heap, list, data, size, block_id, flags, global_memory_usage, error_code, status>>
  <2>1. e \in Entries /\ available_cache_slots' \in 0..(BYTE - 1)
    BY <1>3, <1>6, WidthAssumption DEF TypeOK, ManagerType
  <2>2. weight' \in [Entries -> 0..(BYTE - 1)]
    BY <1>6, <2>1, TouchTyped
  <2>3. /\ cached' \in [Entries -> 0..1]
        /\ key' \in [Slots -> Pointers] /\ value' \in [Slots -> Entries \cup {NULL}]
    <3>1. data[e] \in Pointers
      BY <2>1 DEF TypeOK, DataType
    <3>2. PICK m \in Slots : m = Min(unkeyed)
      <4>1. unkeyed \in SUBSET Nat /\ unkeyed # {} /\ unkeyed \subseteq Slots
        BY <1>6 DEF Slots
      <4>2. Min(unkeyed) \in unkeyed
        BY <4>1, MinIn
      <4> QED
        BY <4>1, <4>2
    <3>3. /\ key' = [key EXCEPT ![m] = data[e]] /\ value' = [value EXCEPT ![m] = e]
          /\ cached' = [cached EXCEPT ![e] = 1]
      BY <1>6, <3>2
    <3> HIDE DEF e, unkeyed
    <3> QED
      BY <2>1, <3>1, <3>3 DEF TypeOK, DataType
  <2> QED
    BY <1>1, <1>6, <2>1, <2>2, <2>3 DEF TypeOK, DataType, ManagerType, heap, flags
<1> QED
  BY <1>2, <1>4, <1>5, <1>6 DEF memman_tryCachePut

LEMMA WorkType ==
  ASSUME TypeOK, \/ \E op \in WorkCalls : Enter(op)
                 \/ memman_CacheAlgorithmWorker \/ sn_query_static_metadata
  PROVE  TypeOK'
<1>1. ASSUME NEW op \in WorkCalls, Enter(op) PROVE TypeOK'
  <2>1. PICK x \in Arguments(op) : call' = [op |-> op, ptr |-> x[1], n |-> x[2]]
    BY <1>1 DEF Enter
  <2>2. x[1] \in Pointers /\ x[2] \in Nat /\ (op = "sn_register_size" => x[2] \in Sizes)
    <3>1. Tracked \subseteq Pointers /\ foreign \subseteq Pointers /\ NULL \in Pointers
      BY DEF TypeOK, DataType, Tracked, Listed, Pointers
    <3>2. Sizes \subseteq Nat /\ Ids \subseteq Nat
      BY InputAssumption
    <3>3. CASE op \in PtrQueries
      BY <2>1, <3>1, <3>3 DEF Arguments, PtrQueries
    <3>4. CASE op = "sn_register"
      BY <2>1, <3>1, <3>4 DEF Arguments, PtrQueries
    <3>5. CASE op = "sn_register_size"
      BY <2>1, <3>1, <3>2, <3>5 DEF Arguments, PtrQueries
    <3>6. CASE op = "sn_set_block_id"
      BY <2>1, <3>1, <3>2, <3>6 DEF Arguments, PtrQueries
    <3>7. CASE op = "sn_query_block_id"
      BY <2>1, <3>1, <3>2, <3>7 DEF Arguments, PtrQueries
    <3>8. CASE op = "sn_query_thread_memory_usage"
      BY <2>1, <3>1, <3>8 DEF Arguments, PtrQueries
    <3> QED
      BY <3>3, <3>4, <3>5, <3>6, <3>7, <3>8 DEF WorkCalls
  <2>3. ControlType'
    <3>1. walk' = 1
      BY <1>1 DEF Enter
    <3>2. op # "none"
      BY DEF WorkCalls, PtrQueries
    <3> QED
      BY <2>1, <2>2, <3>1, <3>2 DEF ControlType
  <2> QED
    BY <1>1, <2>3 DEF Enter, TypeOK, DataType, ManagerType, heap, entry, cache, flags
<1>2. CASE memman_CacheAlgorithmWorker
  <2> DEFINE ctx == list[walk]
  <2>1. ctx \in Entries /\ data[ctx] \in Pointers
    <3>1. walk \in DOMAIN list
      <4>1. walk > 0
        BY <1>2 DEF memman_CacheAlgorithmWorker, TypeOK, ControlType
      <4> QED
        BY <1>2, <4>1 DEF memman_CacheAlgorithmWorker, TypeOK, DataType, ControlType
    <3> QED
      BY <3>1 DEF TypeOK, DataType
  <2>2. ControlType'
    BY <1>2 DEF memman_CacheAlgorithmWorker, TypeOK, ControlType
  <2>3. weight' \in [Entries -> 0..(BYTE - 1)] /\ cached' \in [Entries -> 0..1]
    <3>1. /\ weight' = weight \/ weight' = [weight EXCEPT ![ctx] = 0]
          /\ cached' = cached \/ cached' = [cached EXCEPT ![ctx] = 1]
      BY <1>2, Zenon DEF memman_CacheAlgorithmWorker
    <3>2. 0 \in 0..(BYTE - 1) /\ 1 \in 0..1
      BY WidthAssumption
    <3> HIDE DEF ctx
    <3> QED
      BY <2>1, <3>1, <3>2 DEF TypeOK, DataType
  <2>4. key' \in [Slots -> Pointers] /\ value' \in [Slots -> Entries \cup {NULL}]
    <3>1. \/ key' = key /\ value' = value
          \/ \E T : /\ key' = [i \in Slots |-> IF i \in T THEN data[ctx] ELSE key[i]]
                   /\ value' = [i \in Slots |-> IF i \in T THEN ctx ELSE value[i]]
      BY <1>2, Zenon DEF memman_CacheAlgorithmWorker
    <3> HIDE DEF ctx
    <3> QED
      BY <2>1, <3>1 DEF TypeOK, DataType
  <2>5. status' \in {"running", "undefined"}
    BY <1>2 DEF memman_CacheAlgorithmWorker, Reads
  <2> QED
    BY <1>2, <2>2, <2>3, <2>4, <2>5
       DEF memman_CacheAlgorithmWorker, TypeOK, DataType, ManagerType, heap, flags
<1>3. CASE sn_query_static_metadata
  <2>1. call.op = "sn_query_static_metadata" /\ walk' = 1
        /\ call' = [op |-> call.op, ptr |-> call.ptr, n |-> 1]
    BY <1>3 DEF sn_query_static_metadata
  <2>2. ControlType'
    BY <2>1 DEF TypeOK, ControlType, WorkCalls, PtrQueries
  <2> QED
    BY <1>3, <2>2 DEF sn_query_static_metadata, TypeOK, DataType, ManagerType, heap, entry, cache, flags
<1> QED
  BY <1>1, <1>2, <1>3

LEMMA SettingType ==
  ASSUME TypeOK, \/ sn_do_auto_free_at_exit \/ sn_set_alloc_limit \/ sn_lock_fast_cache
                 \/ sn_unlock_fast_cache \/ sn_do_fast_caching \/ sn_reset_last_error
  PROVE  TypeOK'
<1>1. ControlType'
  BY ControlReturns DEF sn_do_auto_free_at_exit, sn_set_alloc_limit, sn_lock_fast_cache,
                        sn_unlock_fast_cache, sn_do_fast_caching, sn_reset_last_error
<1>2. DataType'
  BY DEF sn_do_auto_free_at_exit, sn_set_alloc_limit, sn_lock_fast_cache, sn_unlock_fast_cache,
         sn_do_fast_caching, sn_reset_last_error, TypeOK, DataType, heap, entry, cache
<1>3. ManagerType'
  BY InputAssumption, Zenon
     DEF sn_do_auto_free_at_exit, sn_set_alloc_limit, sn_lock_fast_cache, sn_unlock_fast_cache,
         sn_do_fast_caching, sn_reset_last_error, TypeOK, ManagerType, Errors, cache, flags
<1> QED
  BY <1>1, <1>2, <1>3 DEF TypeOK

LEMMA ClearType ==
  ASSUME TypeOK, sn_fast_cache_clear
  PROVE  TypeOK'
<1> DEFINE keyed == {i \in Slots : key[i] # NULL}
<1>1. ControlType'
  BY ControlReturns DEF sn_fast_cache_clear
<1>2. available_cache_slots' \in 0..(BYTE - 1)
  <2>1. Cardinality(keyed) \in Nat
    BY SlotCount
  <2>2. available_cache_slots + Cardinality(keyed) \in Int /\ BYTE \in Nat \ {0}
    BY <2>1, WidthAssumption DEF TypeOK, ManagerType
  <2> QED
    BY <2>2, ModRange DEF sn_fast_cache_clear
<1>3. DataType'
  BY DEF sn_fast_cache_clear, TypeOK, DataType, heap, Pointers
<1> QED
  BY <1>1, <1>2, <1>3 DEF sn_fast_cache_clear, Reads, TypeOK, ManagerType, flags

LEMMA TypeInit == Init => TypeOK
<1> SUFFICES ASSUME Init PROVE TypeOK
  OBVIOUS
<1>1. DataType
  BY WidthAssumption DEF Init, DataType, Pointers
<1>2. ManagerType
  <2>1. /\ available_cache_slots \in 0..(BYTE - 1)
        /\ alloc_limit \in 0..(SIZE_MOD - 1) /\ global_memory_usage \in 0..(SIZE_MOD - 1)
    BY WidthAssumption DEF Init
  <2> QED
    BY <2>1, Zenon DEF Init, ManagerType, Errors
<1>3. ControlType
  BY DEF Init, ControlType, NoCall, Pointers
<1> QED
  BY <1>1, <1>2, <1>3 DEF TypeOK

LEMMA TypeStep == TypeOK /\ [Next]_vars => TypeOK'
<1> SUFFICES ASSUME TypeOK, [Next]_vars PROVE TypeOK'
  OBVIOUS
<1>1. CASE UNCHANGED vars
  BY <1>1 DEF vars, heap, entry, cache, flags, control, TypeOK, DataType, ManagerType, ControlType
<1>2. CASE library_cleanup
  <2>1. ControlType'
    BY <1>2, ControlReturns DEF library_cleanup
  <2>2. doexit("exited") /\ UNCHANGED error_code
    BY <1>2 DEF library_cleanup
  <2> QED
    BY <2>1, <2>2, ExitType DEF TypeOK, ManagerType, flags
<1>3. CASE app_malloc
  <2>1. ControlType'
    BY <1>3, ControlReturns DEF app_malloc
  <2>2. live' \in [Addrs -> 0..(SIZE_MOD - 1)] /\ foreign' \in SUBSET Addrs
    BY <1>3, InputAssumption DEF app_malloc, TypeOK, DataType, FreeAddrs
  <2> QED
    BY <1>3, <2>1, <2>2 DEF app_malloc, TypeOK, DataType, ManagerType, entry, cache, flags
<1>4. CASE ~UNCHANGED vars /\ ~library_cleanup /\ ~app_malloc
  BY <1>4, QueryType, IdType, RegisterType, MallocsType, FreeType, ReallocType, CachePutType,
     WorkType, SettingType, ClearType, Zenon DEF Next, Terminated
<1> QED
  BY <1>1, <1>2, <1>3, <1>4

\* Whatever the program calls, with whatever arguments, every field keeps the
\* width of its C type, the cache holds entries, and a pending call is one of
\* those that run memman_work.
THEOREM TypeCorrect == Spec => []TypeOK
  BY TypeInit, TypeStep, PTL DEF Spec

============================================================================
