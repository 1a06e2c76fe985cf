-------------------------- MODULE Launcher_proofs --------------------------
(***************************************************************************)
(* What the launcher shows, selects and activates agrees, for any registry *)
(* of sources, rows, queries and ranks: ViewAgrees and ActivatesFromView.  *)
(***************************************************************************)
EXTENDS Launcher, FiniteSetTheorems, FunctionTheorems, NaturalsInduction,
        WellFoundedInduction, SequenceTheorems, TLAPS

(* The smallest number of a set, and the largest of a bounded one.         *)
Less == {p \in Nat \X Nat : p[1] < p[2]}

LEMMA LeastIndex == ASSUME NEW T \in SUBSET Nat, T # {}
                    PROVE  \E i \in T : \A j \in T : i <= j
<1>1. IsWellFoundedOn(Less, Nat)
  BY NatLessThanWellFounded DEF OpToRel, Less
<1>2. PICK i \in T : \A j \in T : ~(<<j, i>> \in Less)
  BY <1>1, WFMin
<1>3. \A j \in T : <<j, i>> \in Nat \X Nat /\ <<j, i>>[1] = j /\ <<j, i>>[2] = i
  OBVIOUS
<1>4. \A j \in T : ~(j < i)
  BY <1>2, <1>3 DEF Less
<1> QED BY <1>4

LEMMA GreatestIndex ==
  ASSUME NEW b \in Nat, NEW T \in SUBSET (0..b), T # {}
  PROVE  \E i \in T : \A j \in T : j <= i
<1> DEFINE Below == {b - j : j \in T}
<1>1. Below \in SUBSET Nat /\ Below # {}
  <2>1. \A j \in 0..b : b - j \in Nat
    OBVIOUS
  <2>2. \A j \in T : j \in 0..b
    OBVIOUS
  <2>3. \A j \in T : b - j \in Nat /\ b - j \in Below
    BY <2>1, <2>2
  <2>4. \A n \in Below : \E j \in T : n = b - j
    OBVIOUS
  <2> HIDE DEF Below
  <2> QED BY <2>3, <2>4
<1>2. PICK m \in Below : \A n \in Below : m <= n
  BY <1>1, LeastIndex
<1>3. PICK i \in T : m = b - i
  BY <1>2
<1>4. ASSUME NEW j \in T PROVE j <= i
  <2>1. b - j \in Below
    OBVIOUS
  <2>2. m <= b - j
    BY <1>2, <2>1
  <2>3. i \in 0..b /\ j \in 0..b
    OBVIOUS
  <2> QED BY <1>3, <2>2, <2>3
<1> QED BY <1>4

(* A finite set with a strict total order can be listed in that order: the *)
(* place of an element is the number of those before it.                   *)
LEMMA SortExists ==
  ASSUME NEW S, IsFiniteSet(S), NEW R \in SUBSET (S \X S),
         \A x \in S : <<x, x>> \notin R,
         \A x, y, z \in S : <<x, y>> \in R /\ <<y, z>> \in R => <<x, z>> \in R,
         \A x, y \in S : x # y => <<x, y>> \in R \/ <<y, x>> \in R
  PROVE  \E list \in [1..Cardinality(S) -> S] :
           \A m, n \in 1..Cardinality(S) : m < n => <<list[m], list[n]>> \in R
<1> DEFINE Pre(x) == {y \in S : <<y, x>> \in R}
           Place == [x \in S |-> Cardinality(Pre(x)) + 1]
           N == Cardinality(S)
<1>1. N \in Nat
  BY FS_CardinalityType
<1>2. \A x \in S : /\ Cardinality(Pre(x)) \in Nat
                   /\ Cardinality(Pre(x)) < N
  <2> SUFFICES ASSUME NEW x \in S
               PROVE  Cardinality(Pre(x)) \in Nat /\ Cardinality(Pre(x)) < N
    OBVIOUS
  <2>1. Pre(x) \in SUBSET S /\ x \notin Pre(x)
    OBVIOUS
  <2>2. IsFiniteSet(Pre(x)) /\ Cardinality(Pre(x)) <= N /\ (N = Cardinality(Pre(x)) => S = Pre(x))
    BY <2>1, FS_Subset
  <2>3. Cardinality(Pre(x)) \in Nat
    BY <2>2, FS_CardinalityType
  <2> QED BY <1>1, <2>1, <2>2, <2>3
<1>3. \A x, y \in S : <<x, y>> \in R => Place[x] < Place[y]
  <2> SUFFICES ASSUME NEW x \in S, NEW y \in S, <<x, y>> \in R
               PROVE  Place[x] < Place[y]
    OBVIOUS
  <2>0. Place[x] = Cardinality(Pre(x)) + 1 /\ Place[y] = Cardinality(Pre(y)) + 1
    OBVIOUS
  <2> HIDE DEF Place
  <2>1. Pre(x) \in SUBSET Pre(y) /\ x \in Pre(y) /\ x \notin Pre(x)
    OBVIOUS
  <2>2. IsFiniteSet(Pre(y))
    BY FS_Subset
  <2>3. /\ Cardinality(Pre(x)) <= Cardinality(Pre(y))
        /\ Cardinality(Pre(y)) = Cardinality(Pre(x)) => Pre(y) = Pre(x)
    BY <2>1, <2>2, FS_Subset
  <2>4. Cardinality(Pre(x)) < Cardinality(Pre(y))
    <3>1. Cardinality(Pre(x)) \in Nat /\ Cardinality(Pre(y)) \in Nat
      BY <1>2
    <3>2. Pre(x) # Pre(y)
      BY <2>1
    <3> HIDE DEF Pre
    <3> QED BY <2>3, <3>1, <3>2
  <2>5. Cardinality(Pre(x)) \in Nat /\ Cardinality(Pre(y)) \in Nat
    BY <1>2
  <2> QED BY <2>0, <2>4, <2>5
<1>4. Place \in [S -> 1..N]
  BY <1>1, <1>2
<1>5. \A x, y \in S : x # y => Place[x] # Place[y]
  <2>1. \A x \in S : Place[x] \in Nat
    BY <1>1, <1>4
  <2> SUFFICES ASSUME NEW x \in S, NEW y \in S, x # y
               PROVE  Place[x] # Place[y]
    OBVIOUS
  <2>2. Place[x] < Place[y] \/ Place[y] < Place[x]
    BY <1>3
  <2>3. Place[x] \in Nat /\ Place[y] \in Nat
    BY <2>1
  <2> HIDE DEF Place
  <2> QED BY <2>2, <2>3
<1> HIDE DEF Place
<1>6. Place \in Injection(S, 1..N)
  BY <1>4, <1>5, Fun_IsInj DEF Injection, IsInjective
<1>7. IsFiniteSet(1..N) /\ Cardinality(1..N) = N
  BY <1>1, FS_Interval
<1>8. Place \in Surjection(S, 1..N)
  BY <1>6, <1>7, FS_Injection
<1>9. \A n \in 1..N : \E x \in S : Place[x] = n
  BY <1>8, Fun_IsSurj DEF Surjection
<1> DEFINE list == [n \in 1..N |-> CHOOSE x \in S : Place[x] = n]
<1>10. \A n \in 1..N : list[n] \in S /\ Place[list[n]] = n
  BY <1>9
<1>11. list \in [1..N -> S]
  BY <1>10
<1>12. \A m, n \in 1..N : m < n => <<list[m], list[n]>> \in R
  <2> SUFFICES ASSUME NEW m \in 1..N, NEW n \in 1..N, m < n
               PROVE  <<list[m], list[n]>> \in R
    OBVIOUS
  <2> HIDE DEF list
  <2>1. list[m] \in S /\ list[n] \in S /\ Place[list[m]] = m /\ Place[list[n]] = n
    BY <1>10
  <2>2. list[m] # list[n]
    BY <2>1
  <2>3. ASSUME <<list[n], list[m]>> \in R PROVE FALSE
    <3>1. Place[list[n]] < Place[list[m]]
      BY <1>3, <2>1, <2>3
    <3>2. n < m
      BY <2>1, <3>1
    <3> QED BY <1>1, <3>2
  <2> QED BY <2>1, <2>2, <2>3
<1> QED BY <1>11, <1>12

-----------------------------------------------------------------------------
(* The registry: entries, slots, children and leaves.                      *)

LEMMA EntryProperties ==
  ASSUME NEW e \in DOMAIN Registry
  PROVE  /\ e \in Nat \ {0}
         /\ Registry[e] \in Seq(Leaf) /\ Len(Registry[e]) \in Nat \ {0}
         /\ DOMAIN Registry[e] = 1..Len(Registry[e])
         /\ \A c \in DOMAIN Registry[e] : LeafOf(e, c) \in Leaf
<1>1. Registry \in Seq(Seq(Leaf) \ {<<>>})
  BY LauncherAssumption
<1>2. DOMAIN Registry = 1..Len(Registry) /\ Len(Registry) \in Nat
  BY <1>1, LenProperties
<1>3. Registry[e] \in Seq(Leaf) \ {<<>>}
  BY <1>1, <1>2, ElementOfSeq
<1>4. Len(Registry[e]) \in Nat /\ DOMAIN Registry[e] = 1..Len(Registry[e])
  BY <1>3, LenProperties
<1>5. Len(Registry[e]) # 0
  BY <1>3, EmptySeq
<1> QED BY <1>2, <1>3, <1>4, <1>5, ElementOfSeq DEF LeafOf

LEMMA SlotProperties ==
  ASSUME NEW k \in Slot
  PROVE  /\ k = [reg |-> k.reg, child |-> k.child]
         /\ Entry(k) \in DOMAIN Registry /\ k.child \in Nat
         /\ k.child # 0 => IsUnion(Entry(k)) /\ k.child \in DOMAIN Registry[Entry(k)]
         /\ Children(k) \subseteq DOMAIN Registry[Entry(k)]
         /\ Children(k) \subseteq Nat \ {0}
         /\ ~IsUnion(Entry(k)) => 1 \in Children(k)
<1>1. PICK e \in DOMAIN Registry :
        k \in {[reg |-> e, child |-> c] : c \in IF IsUnion(e) THEN 0..Len(Registry[e]) ELSE {0}}
  BY DEF Slot
<1>2. PICK c \in IF IsUnion(e) THEN 0..Len(Registry[e]) ELSE {0} :
        k = [reg |-> e, child |-> c]
  BY <1>1
<1>3. /\ Len(Registry[e]) \in Nat \ {0} /\ DOMAIN Registry[e] = 1..Len(Registry[e])
  BY EntryProperties
<1>4. k.reg = e /\ k.child = c /\ Entry(k) = e
  BY <1>2 DEF Entry
<1>5. c \in Nat /\ (c # 0 => IsUnion(e) /\ c \in DOMAIN Registry[e])
  BY <1>2, <1>3
<1>6. /\ Children(k) = IF c = 0 THEN 1..Len(Registry[e]) ELSE {c}
  BY <1>3, <1>4 DEF Children
<1>7. ~IsUnion(e) => c = 0
  BY <1>5
<1> QED BY <1>2, <1>3, <1>4, <1>5, <1>6, <1>7

LEMMA DefaultIsSlot == DefaultSlot \in Slot /\ Entry(DefaultSlot) = Initial
<1>1. Initial \in DOMAIN Registry /\ Len(Registry[Initial]) \in Nat
  BY LauncherAssumption, EntryProperties
<1>2. DefaultSlot \in {[reg |-> Initial, child |-> c] :
                         c \in IF IsUnion(Initial) THEN 0..Len(Registry[Initial]) ELSE {0}}
  BY <1>1 DEF DefaultSlot
<1> QED BY <1>1, <1>2 DEF Slot, DefaultSlot, Entry

(* Every source is shown by a slot that its prefix selects.                *)
LEMMA PrefixTaken ==
  ASSUME NEW l \in Leaf
  PROVE  PrefixSlots(Prefix[l]) # {}
<1>0. PICK e \in DOMAIN Registry : \E c \in DOMAIN Registry[e] : l = Registry[e][c]
  BY DEF Leaf
<1>1. PICK c \in DOMAIN Registry[e] : l = Registry[e][c]
  BY <1>0
<1>2. /\ Len(Registry[e]) \in Nat \ {0} /\ DOMAIN Registry[e] = 1..Len(Registry[e])
  BY EntryProperties
<1> DEFINE k == [reg |-> e, child |-> IF IsUnion(e) THEN c ELSE 0]
<1>3. k \in {[reg |-> e, child |-> d] : d \in IF IsUnion(e) THEN 0..Len(Registry[e]) ELSE {0}}
  BY <1>1, <1>2
<1>4. k \in Slot
  BY <1>3 DEF Slot
<1>5. ~IsUnion(e) => c = 1
  BY <1>1, <1>2 DEF IsUnion
<1>6. SlotPrefix(k) = Prefix[l]
  BY <1>1, <1>2, <1>5 DEF SlotPrefix, Entry, LeafOf
<1> QED BY <1>4, <1>6 DEF PrefixSlots

(* prefix_map holds a slot: of those that carry the character, the last.   *)
LEMMA PrefixSlotTyped ==
  ASSUME NEW ch, PrefixSlots(ch) # {}
  PROVE  PrefixSlot(ch) \in Slot
<1> DEFINE T == PrefixSlots(ch)
           Regs == {k.reg : k \in T}
<1>1. \A k \in T : k \in Slot
  BY DEF PrefixSlots
<1>2. \A k \in T : k.reg \in 0..Len(Registry) /\ Len(Registry) \in Nat
  <2>1. DOMAIN Registry = 1..Len(Registry) /\ Len(Registry) \in Nat
    BY LauncherAssumption, LenProperties
  <2> QED BY <1>1, <2>1, SlotProperties DEF Entry
<1>3. Regs \subseteq 0..Len(Registry) /\ Regs # {} /\ Len(Registry) \in Nat
  BY <1>2
<1>4. PICK g \in Regs : \A h \in Regs : h <= g
  BY <1>3, GreatestIndex
<1> DEFINE Kids == {k.child : k \in {j \in T : j.reg = g}}
<1>5. Kids \subseteq 0..Len(Registry[g]) /\ Kids # {} /\ Len(Registry[g]) \in Nat
  <2>1. \A k \in T : k.reg = g => k.child \in 0..Len(Registry[g]) /\ Len(Registry[g]) \in Nat
    <3> SUFFICES ASSUME NEW k \in T, k.reg = g
                 PROVE  k.child \in 0..Len(Registry[g]) /\ Len(Registry[g]) \in Nat
      OBVIOUS
    <3>1. k \in Slot /\ Entry(k) = g
      BY <1>1 DEF Entry
    <3>2. /\ g \in DOMAIN Registry /\ k.child \in Nat
          /\ k.child # 0 => k.child \in DOMAIN Registry[g]
      BY <3>1, SlotProperties
    <3> QED BY <3>2, EntryProperties
  <2> QED BY <1>4, <2>1
<1>6. PICK d \in Kids : \A h \in Kids : h <= d
  BY <1>5, GreatestIndex
<1>7. PICK k \in T : k.reg = g /\ k.child = d
  BY <1>6
<1>8. ASSUME NEW j \in T
      PROVE  j.reg < k.reg \/ (j.reg = k.reg /\ j.child <= k.child)
  <2>1. j.reg \in Regs /\ j.reg <= g /\ j.reg \in Nat /\ g \in Nat
    BY <1>2, <1>3, <1>4
  <2>2. j.reg = g => j.child \in Kids
    OBVIOUS
  <2> QED BY <1>6, <1>7, <2>1, <2>2
<1>9. PrefixSlot(ch) \in T
  BY <1>7, <1>8 DEF PrefixSlot
<1> QED BY <1>1, <1>9

-----------------------------------------------------------------------------
(* What a filter finds: rows of the children its slot shows, in an order.  *)

LEMMA MatchesTyped ==
  ASSUME leafRows \in [Leaf -> Seq(SourceRow)], NEW k \in Slot, NEW q
  PROVE  /\ IsFiniteSet(Matches(k, q))
         /\ Matches(k, q) \subseteq Route
         /\ \A r \in Matches(k, q) : r.child \in Children(k) /\ Score(k, r) \in Int
<1> DEFINE Of(c) == {[child |-> c, inner |-> i] : i \in DOMAIN leafRows[LeafOf(Entry(k), c)]}
           All == {Of(c) : c \in Children(k)}
<1>1. \A c \in Children(k) :
        /\ c \in Nat \ {0} /\ LeafOf(Entry(k), c) \in Leaf
        /\ leafRows[LeafOf(Entry(k), c)] \in Seq(SourceRow)
  BY SlotProperties, EntryProperties
<1>2. \A c \in Children(k) :
        /\ DOMAIN leafRows[LeafOf(Entry(k), c)] = 1..Len(leafRows[LeafOf(Entry(k), c)])
        /\ Len(leafRows[LeafOf(Entry(k), c)]) \in Nat
  BY <1>1, LenProperties
<1>3. ASSUME NEW c \in Children(k) PROVE IsFiniteSet(Of(c))
  <2> DEFINE n == Len(leafRows[LeafOf(Entry(k), c)])
             f == [i \in 1..n |-> [child |-> c, inner |-> i]]
  <2>1. n \in Nat /\ Of(c) = {[child |-> c, inner |-> i] : i \in 1..n}
    BY <1>2
  <2>2. f \in Surjection(1..n, Of(c))
    <3>1. f \in [1..n -> Of(c)] /\ \A t \in Of(c) : \E i \in 1..n : f[i] = t
      BY <2>1
    <3> QED BY <3>1, Fun_IsSurj
  <2>3. IsFiniteSet(1..n)
    BY <2>1, FS_Interval
  <2> QED BY <2>2, <2>3, FS_Surjection
<1>4. IsFiniteSet(All)
  <2> DEFINE f == [c \in Children(k) |-> Of(c)]
  <2>1. f \in Surjection(Children(k), All)
    <3>1. f \in [Children(k) -> All] /\ \A t \in All : \E c \in Children(k) : f[c] = t
      OBVIOUS
    <3> QED BY <3>1, Fun_IsSurj
  <2>2. IsFiniteSet(Children(k))
    <3>1. Entry(k) \in DOMAIN Registry
      BY SlotProperties
    <3>2. DOMAIN Registry[Entry(k)] = 1..Len(Registry[Entry(k)]) /\ Len(Registry[Entry(k)]) \in Nat
      BY <3>1, EntryProperties
    <3>3. IsFiniteSet(DOMAIN Registry[Entry(k)])
      BY <3>2, FS_Interval
    <3> QED BY <3>3, SlotProperties, FS_Subset
  <2> QED BY <2>1, <2>2, FS_Surjection
<1>5. IsFiniteSet(UNION All)
  BY <1>3, <1>4, FS_UNION
<1>6. Matches(k, q) \subseteq UNION All
  BY DEF Matches
<1>7. IsFiniteSet(Matches(k, q))
  BY <1>5, <1>6, FS_Subset
<1>8. ASSUME NEW r \in Matches(k, q)
      PROVE  r \in Route /\ r.child \in Children(k) /\ Score(k, r) \in Int
  <2>0. PICK c \in Children(k) : r \in Of(c)
    BY <1>6
  <2>1. PICK i \in DOMAIN leafRows[LeafOf(Entry(k), c)] : r = [child |-> c, inner |-> i]
    BY <2>0
  <2>2. i \in Nat \ {0} /\ c \in Nat \ {0}
    BY <1>1, <1>2, <2>1
  <2>3. leafRows[LeafOf(Entry(k), c)][i] \in SourceRow
    BY <1>1, <2>1, ElementOfSeq, LenProperties
  <2>4. r.child = c /\ r.inner = i
    BY <2>1
  <2>5. Score(k, r) \in Int
    BY <2>3, <2>4, LauncherAssumption DEF Score
  <2> QED BY <2>1, <2>2, <2>4, <2>5 DEF Route
<1> QED BY <1>7, <1>8

LEMMA RoutedTyped ==
  ASSUME leafRows \in [Leaf -> Seq(SourceRow)], NEW k \in Slot, NEW q
  PROVE  /\ Routed(k, q) \in Seq(Route)
         /\ \A n \in DOMAIN Routed(k, q) : /\ Routed(k, q)[n] \in Route
                                           /\ Routed(k, q)[n].child \in Children(k)
<1> DEFINE M == Matches(k, q)
           R == {p \in M \X M : Before(k, p[1], p[2])}
           N == Cardinality(M)
<1>1. /\ IsFiniteSet(M) /\ M \subseteq Route
      /\ \A r \in M : r.child \in Children(k) /\ Score(k, r) \in Int
  BY MatchesTyped
<1>2. \A r \in M : r.child \in Nat /\ r.inner \in Nat /\ r = [child |-> r.child, inner |-> r.inner]
  BY <1>1 DEF Route
<1>3. \A r, s \in M : <<r, s>> \in R <=> Before(k, r, s)
  OBVIOUS
<1> HIDE DEF M, R
<1>4. \A r \in M : <<r, r>> \notin R
  BY <1>1, <1>2, <1>3 DEF Before
<1>5. \A r, s, t \in M : <<r, s>> \in R /\ <<s, t>> \in R => <<r, t>> \in R
  <2>1. \A r, s, t \in M : Before(k, r, s) /\ Before(k, s, t) => Before(k, r, t)
    BY <1>1, <1>2 DEF Before
  <2> QED BY <1>3, <2>1
<1>6. \A r, s \in M : r # s => <<r, s>> \in R \/ <<s, r>> \in R
  <2> SUFFICES ASSUME NEW r \in M, NEW s \in M, r # s
               PROVE  Before(k, r, s) \/ Before(k, s, r)
    BY <1>3
  <2>1. r.child # s.child \/ r.inner # s.inner
    BY <1>2
  <2>2. /\ r.child \in Nat /\ r.inner \in Nat /\ s.child \in Nat /\ s.inner \in Nat
        /\ Score(k, r) \in Int /\ Score(k, s) \in Int
    BY <1>1, <1>2
  <2> QED BY <2>1, <2>2 DEF Before
<1>7. R \in SUBSET (M \X M)
  BY DEF R
<1>8. PICK list \in [1..N -> M] : \A m, n \in 1..N : m < n => <<list[m], list[n]>> \in R
  BY <1>1, <1>4, <1>5, <1>6, <1>7, SortExists
<1>9. DOMAIN list = 1..N /\ \A m, n \in DOMAIN list : m < n => Before(k, list[m], list[n])
  BY <1>3, <1>8
<1>10. Routed(k, q) \in [1..N -> M]
  BY <1>9 DEF Routed, M
<1>11. N \in Nat
  BY <1>1, FS_CardinalityType
<1> HIDE DEF N
<1>12. \A n \in 1..N : Routed(k, q)[n] \in M
  BY <1>10
<1>13. Routed(k, q) \in [1..N -> Route]
  BY <1>1, <1>10
<1> QED BY <1>1, <1>10, <1>11, <1>12, <1>13, SeqDef
-----------------------------------------------------------------------------
(* The inductive invariant, by the parts of the state it relates.          *)

Sources == leafRows \in [Leaf -> Seq(SourceRow)] /\ pulse \in BOOLEAN

(* One effect at a time is queued; with none, the observer has seen the    *)
(* text, and the slot is the one its prefix character selects.             *)
Inputs ==
  /\ content \in Query /\ last_query \in Query
  /\ effects \in {<<>>, <<"notify">>, <<"clear">>}
  /\ effects = <<>> => last_query = content
  /\ \A l \in Leaf : last_query = <<Prefix[l]>> => PrefixSlot(Prefix[l]) = active_slot

Listings ==
  /\ active_slot \in Slot /\ by \in Query
  /\ filtered \in Seq(Nat \ {0}) /\ routing \in Seq(Route)
  /\ \A n \in DOMAIN filtered :
       IsUnion(Entry(active_slot)) =>
         /\ filtered[n] \in DOMAIN routing
         /\ routing[filtered[n]].child \in Children(active_slot)

Cursors ==
  /\ selected \in Nat /\ mime_selected \in Nat
  /\ left_pane \in {"items", "mimes"}
  /\ mime_cache \in {<<>>} \cup {Mimes[r] : r \in SourceRow}
  /\ running /\ confirming = None =>
       /\ HasPicked \/ (selected = 0 /\ filtered = <<>>)
       /\ left_pane = "mimes" => Len(mime_cache) >= 2 /\ mime_selected < Len(mime_cache)

Frame ==
  /\ drawn \in [pane : {"items", "mimes", "peek"}, rows : Nat]
  /\ peek_active \in BOOLEAN

(* Between key and activation nothing else runs: the leaf that was named   *)
(* to the usage tracker is the one under the cursor.                       *)
Endings ==
  /\ running \in BOOLEAN
  /\ confirming \in {None} \cup [leaf : Leaf, key : SourceRow \cup {None}]
  /\ activated = None \/ activated.leaf \in Leaf
  /\ confirming # None => /\ effects = <<>> /\ HasPicked
                          /\ confirming.leaf = Picked.leaf
  /\ activated # None => ~running
  /\ ActivatesFromView

LauncherInv == Sources /\ Inputs /\ Listings /\ Cursors /\ Frame /\ Endings

-----------------------------------------------------------------------------
(* What a filter leaves behind: a list that the routing table covers.      *)
LEMMA FilterLists ==
  ASSUME Sources, Listings, NEW k \in Slot, NEW q \in Query, active_slot' = k, Filter(k, q)
  PROVE  Listings'
<1> DEFINE found == Routed(k, q)
<1>1. /\ found \in Seq(Route)
      /\ \A n \in DOMAIN found : found[n] \in Route /\ found[n].child \in Children(k)
  BY RoutedTyped DEF Sources
<1>2. /\ DOMAIN found = 1..Len(found) /\ Len(found) \in Nat
  BY <1>1, LenProperties
<1>3. by' = q
  BY DEF Filter
<1>4. CASE IsUnion(Entry(k))
  <2>1. routing' = found /\ filtered' = [n \in DOMAIN found |-> n]
    BY <1>4 DEF Filter
  <2> HIDE DEF found
  <2>2. filtered' \in [1..Len(found) -> Nat \ {0}]
    BY <1>2, <2>1
  <2>3. filtered' \in Seq(Nat \ {0})
    BY <1>2, <2>2, SeqDef
  <2>4. \A n \in DOMAIN filtered' : filtered'[n] = n /\ n \in DOMAIN found
    BY <2>1
  <2> QED BY <1>1, <1>3, <2>1, <2>3, <2>4 DEF Listings
<1>5. CASE ~IsUnion(Entry(k))
  <2>1. UNCHANGED routing /\ filtered' = [n \in DOMAIN found |-> found[n].inner]
    BY <1>5 DEF Filter
  <2> HIDE DEF found
  <2>2. filtered' \in [1..Len(found) -> Nat \ {0}]
    BY <1>1, <1>2, <2>1 DEF Route
  <2>3. filtered' \in Seq(Nat \ {0})
    BY <1>2, <2>2, SeqDef
  <2> QED BY <1>3, <1>5, <2>1, <2>3 DEF Listings
<1> QED BY <1>4, <1>5

LEMMA ListLength ==
  ASSUME Listings
  PROVE  /\ Len(filtered) \in Nat /\ DOMAIN filtered = 1..Len(filtered)
         /\ filtered = <<>> <=> Len(filtered) = 0
BY LenProperties, EmptySeq DEF Listings

LEMMA CacheLength == ASSUME Cursors PROVE Len(mime_cache) \in Nat
<1>1. Len(<<>>) = 0
  BY EmptySeq
<1> QED BY <1>1, LauncherAssumption DEF Cursors

(* A row of the list leads to a source the active slot shows.              *)
LEMMA RowShown ==
  ASSUME Sources, Listings, NEW n \in DOMAIN filtered
  PROVE  /\ RowAt(n).leaf \in Leaf /\ Shows(active_slot, RowAt(n).leaf)
         /\ RowAt(n).row \in SourceRow \cup {None}
<1> DEFINE r == IF IsUnion(Entry(active_slot)) THEN routing[filtered[n]]
                                               ELSE [child |-> 1, inner |-> filtered[n]]
           l == LeafOf(Entry(active_slot), r.child)
<1>1. r.child \in Children(active_slot)
  <2>1. CASE IsUnion(Entry(active_slot))
    BY <2>1 DEF Listings
  <2>2. CASE ~IsUnion(Entry(active_slot))
    BY <2>2, SlotProperties DEF Listings
  <2> QED BY <2>1, <2>2
<1>2. r.child \in DOMAIN Registry[Entry(active_slot)] /\ Entry(active_slot) \in DOMAIN Registry
  BY <1>1, SlotProperties DEF Listings
<1>3. l \in Leaf
  BY <1>2, EntryProperties
<1>4. leafRows[l] \in Seq(SourceRow)
  BY <1>3 DEF Sources
<1>5. RowAt(n) = [leaf |-> l, row |-> IF r.inner \in DOMAIN leafRows[l]
                                       THEN leafRows[l][r.inner] ELSE None]
  BY DEF RowAt
<1>6. r.inner \in DOMAIN leafRows[l] => leafRows[l][r.inner] \in SourceRow
  BY <1>4, ElementOfSeq, LenProperties
<1>7. Shows(active_slot, l)
  BY <1>1 DEF Shows
<1> HIDE DEF l, r
<1> QED BY <1>3, <1>5, <1>6, <1>7

(* The leaf a row leads to does not depend on the rows of the sources.     *)
LEMMA LeafKept ==
  ASSUME UNCHANGED <<active_slot, filtered, routing>>, NEW n
  PROVE  RowAt(n)'.leaf = RowAt(n).leaf
BY DEF RowAt

-----------------------------------------------------------------------------
LEMMA LauncherStarts == LauncherInit => LauncherInv
<1> SUFFICES ASSUME LauncherInit PROVE LauncherInv
  OBVIOUS
<1>1. leafRows \in [Leaf -> Seq(SourceRow)]
  <2>1. Fixed \in [Leaf \ Live -> Seq(SourceRow)] /\ <<>> \in Seq(SourceRow)
    BY LauncherAssumption, EmptySeq
  <2>2. leafRows = [l \in Leaf |-> IF l \in Live THEN <<>> ELSE Fixed[l]]
    BY DEF LauncherInit
  <2> QED BY <2>1, <2>2
<1>2. Sources
  BY <1>1 DEF LauncherInit, Sources
<1>3. Inputs
  <2>1. \A l \in Leaf : <<>> # <<Prefix[l]>>
    OBVIOUS
  <2> QED BY <2>1, LauncherAssumption DEF LauncherInit, Inputs
<1>4. Listings
  <2> DEFINE found == Routed(DefaultSlot, <<>>)
  <2>1. /\ found \in Seq(Route)
        /\ \A n \in DOMAIN found :
             found[n] \in Route /\ found[n].child \in Children(DefaultSlot)
    BY <1>1, RoutedTyped, DefaultIsSlot
  <2>2. /\ DOMAIN found = 1..Len(found) /\ Len(found) \in Nat
    BY <2>1, LenProperties
  <2>3. active_slot = DefaultSlot /\ by = <<>> /\ <<>> \in Query
    BY LauncherAssumption DEF LauncherInit
  <2>4. CASE IsUnion(Initial)
    <3>1. routing = found /\ filtered = [n \in DOMAIN found |-> n]
      BY <2>4 DEF LauncherInit
    <3> HIDE DEF found
    <3>2. filtered \in [1..Len(found) -> Nat \ {0}]
      BY <2>2, <3>1
    <3>3. filtered \in Seq(Nat \ {0})
      BY <2>2, <3>2, SeqDef
    <3>4. \A n \in DOMAIN filtered : filtered[n] = n /\ n \in DOMAIN found
      BY <3>1
    <3> QED BY <2>1, <2>3, <3>1, <3>3, <3>4, DefaultIsSlot DEF Listings
  <2>5. CASE ~IsUnion(Initial)
    <3>1. routing = <<>> /\ filtered = [n \in DOMAIN found |-> found[n].inner]
      BY <2>5 DEF LauncherInit
    <3> HIDE DEF found
    <3>2. filtered \in [1..Len(found) -> Nat \ {0}]
      BY <2>1, <2>2, <3>1 DEF Route
    <3>3. filtered \in Seq(Nat \ {0}) /\ routing \in Seq(Route)
      BY <2>2, <3>1, <3>2, SeqDef, EmptySeq
    <3> QED BY <2>3, <2>5, <3>3, DefaultIsSlot DEF Listings
  <2> QED BY <2>4, <2>5
<1>5. Cursors
  <2>1. selected = 0 /\ mime_selected = 0 /\ left_pane = "items" /\ mime_cache = <<>>
    BY DEF LauncherInit
  <2>2. HasPicked \/ filtered = <<>>
    BY <1>4, <2>1, ListLength DEF HasPicked
  <2> QED BY <2>1, <2>2 DEF Cursors
<1>6. Frame
  BY DEF LauncherInit, Frame
<1>7. Endings
  BY DEF LauncherInit, Endings, ActivatesFromView
<1> QED BY <1>2, <1>3, <1>4, <1>5, <1>6, <1>7 DEF LauncherInv

-----------------------------------------------------------------------------
(* What a step leaves alone stays true.                                    *)
LEMMA SourcesKept == ASSUME Sources, UNCHANGED leafRows, pulse' \in BOOLEAN PROVE Sources'
BY DEF Sources

LEMMA TextsKept == ASSUME Inputs, UNCHANGED <<inputVars, active_slot>> PROVE Inputs'
BY DEF Inputs, inputVars, PrefixSlot, PrefixSlots, SlotPrefix

LEMMA ListsKept == ASSUME Listings, UNCHANGED <<active_slot, listVars>> PROVE Listings'
BY DEF Listings, listVars

LEMMA CursorsKept ==
  ASSUME Cursors, UNCHANGED <<selected, filtered, paneVars>>, running, confirming = None
  PROVE  Cursors'
<1>1. /\ HasPicked \/ (selected = 0 /\ filtered = <<>>)
      /\ left_pane = "mimes" => Len(mime_cache) >= 2 /\ mime_selected < Len(mime_cache)
  BY DEF Cursors
<1> QED BY <1>1 DEF Cursors, HasPicked, paneVars

LEMMA FrameKept == ASSUME Frame, UNCHANGED <<drawn, peek_active>> PROVE Frame'
BY DEF Frame

(* Until something is confirmed there is nothing to agree with.            *)
LEMMA EndsOpen ==
  ASSUME Endings, running, confirming = None, UNCHANGED <<confirming, activated>>,
         running' \in BOOLEAN
  PROVE  Endings'
BY DEF Endings, ActivatesFromView

LEMMA CursorsReset == ASSUME Listings', ResetPanes PROVE Cursors'
<1>1. Len(filtered)' \in Nat /\ (filtered' = <<>> <=> Len(filtered)' = 0)
  <2>1. filtered' \in Seq(Nat \ {0})
    BY DEF Listings
  <2> QED BY <2>1, LenProperties, EmptySeq
<1>2. selected' = 0 /\ mime_selected' = 0 /\ left_pane' = "items" /\ mime_cache' = <<>>
  BY DEF ResetPanes
<1> QED BY <1>1, <1>2 DEF Cursors, HasPicked
-----------------------------------------------------------------------------
(* The steps, one by one.                                                  *)
LEMMA RowsStep ==
  ASSUME LauncherInv, SourceGrows
  PROVE  LauncherInv'
<1> USE DEF LauncherInv
<1>1. PICK l \in Live : RowsChange(l)
  BY DEF SourceGrows
<1>2. l \in Leaf /\ leafRows[l] \in Seq(SourceRow)
  BY LauncherAssumption DEF Sources
<1>3. leafRows' \in [Leaf -> Seq(SourceRow)]
  <2>1. CASE \E r \in RowId : leafRows' = [leafRows EXCEPT ![l] = Append(@, r)]
    <3>1. PICK r \in RowId : leafRows' = [leafRows EXCEPT ![l] = Append(@, r)]
      BY <2>1
    <3>2. r \in SourceRow
      BY DEF SourceRow
    <3>3. Append(leafRows[l], r) \in Seq(SourceRow)
      BY <1>2, <3>2, AppendProperties
    <3> QED BY <3>1, <3>3 DEF Sources
  <2>2. CASE \E i \in DOMAIN leafRows[l] : leafRows' = [leafRows EXCEPT ![l] = RemoveAt(@, i)]
    <3>1. PICK i \in DOMAIN leafRows[l] : leafRows' = [leafRows EXCEPT ![l] = RemoveAt(@, i)]
      BY <2>2
    <3>2. DOMAIN leafRows[l] = 1..Len(leafRows[l]) /\ Len(leafRows[l]) \in Nat
      BY <1>2, LenProperties
    <3>3. /\ SubSeq(leafRows[l], 1, i - 1) \in Seq(SourceRow)
          /\ SubSeq(leafRows[l], i + 1, Len(leafRows[l])) \in Seq(SourceRow)
      BY <1>2, <3>1, <3>2, SubSeqProperties
    <3>4. RemoveAt(leafRows[l], i) \in Seq(SourceRow)
      BY <3>3, ConcatProperties DEF RemoveAt
    <3> QED BY <3>1, <3>4 DEF Sources
  <2>3. CASE UNCHANGED leafRows
    BY <2>3 DEF Sources
  <2> QED BY <1>1, <2>1, <2>2, <2>3 DEF RowsChange
<1>4. Sources'
  BY <1>3 DEF Sources, SourceGrows
<1>5. Inputs' /\ Listings' /\ Frame'
  BY TextsKept, ListsKept, FrameKept DEF SourceGrows
<1>6. Cursors'
  BY DEF Cursors, SourceGrows, HasPicked, listVars, paneVars
<1>7. Endings'
  <2>0. UNCHANGED <<running, confirming, activated, active_slot, effects, selected>>
    BY DEF SourceGrows, inputVars
  <2>1. UNCHANGED <<filtered, routing>>
    BY DEF SourceGrows, listVars
  <2>2. activated = None
    BY DEF Endings, SourceGrows
  <2>3. HasPicked' = HasPicked
    BY <2>0, <2>1 DEF HasPicked
  <2>4. Picked'.leaf = Picked.leaf
    BY <2>0, <2>1 DEF Picked, RowAt
  <2>5. confirming' # None => effects' = <<>> /\ HasPicked' /\ confirming'.leaf = Picked'.leaf
    BY <2>0, <2>3, <2>4 DEF Endings
  <2> QED BY <2>0, <2>2, <2>5 DEF Endings, ActivatesFromView
<1> QED BY <1>4, <1>5, <1>6, <1>7

LEMMA EditStep ==
  ASSUME LauncherInv, Edit
  PROVE  LauncherInv'
<1> USE DEF LauncherInv
<1>1. running /\ confirming = None /\ effects = <<>>
  BY DEF Edit, Listing, Idle
<1>2. effects' = <<"notify">>
  <2>1. DOMAIN effects = {}
    BY <1>1
  <2>2. effects' = Append(<<>>, "notify")
    BY <1>1, <2>1 DEF Edit, Notify
  <2> QED BY <2>2
<1>3. Inputs'
  <2>1. UNCHANGED <<last_query, active_slot>> /\ content' \in Query
    BY DEF Edit
  <2>2. \A l \in Leaf : last_query' = <<Prefix[l]>> => PrefixSlot(Prefix[l]) = active_slot'
    BY <2>1 DEF Inputs
  <2> QED BY <1>2, <2>1, <2>2 DEF Inputs, PrefixSlot, PrefixSlots, SlotPrefix
<1>4. Sources' /\ Listings' /\ Frame'
  BY SourcesKept, ListsKept, FrameKept DEF Edit, srcVars, Sources
<1>5. Cursors' /\ Endings'
  BY <1>1, CursorsKept, EndsOpen DEF Edit, listVars, Endings
<1> QED BY <1>3, <1>4, <1>5

LEMMA ObserveStep ==
  ASSUME LauncherInv, Observe
  PROVE  LauncherInv'
<1> USE DEF LauncherInv
<1>0. Head(<<"clear">>) = "clear" /\ Tail(<<"notify">>) = <<>>
  OBVIOUS
<1>1. running /\ confirming = None /\ effects = <<"notify">> /\ Tail(effects) = <<>>
  <2>1. running /\ effects # <<>> /\ Head(effects) = "notify"
    BY DEF Observe
  <2>2. confirming = None
    BY <2>1 DEF Endings
  <2>3. effects = <<"notify">>
    BY <1>0, <2>1 DEF Inputs
  <2> QED BY <1>0, <2>1, <2>2, <2>3
<1>2. UNCHANGED <<srcVars, content, peek_active, drawn, confirming, running, activated>>
  BY DEF Observe
<1>3. Sources' /\ Frame' /\ Endings'
  BY <1>1, <1>2, SourcesKept, FrameKept, EndsOpen DEF srcVars, Sources, Endings
<1>4. CASE /\ content = last_query
           /\ effects' = Tail(effects)
           /\ UNCHANGED <<last_query, active_slot, listVars, selected, paneVars>>
  <2>1. Inputs'
    BY <1>1, <1>2, <1>4 DEF Inputs, PrefixSlot, PrefixSlots, SlotPrefix
  <2>2. Listings' /\ Cursors'
    BY <1>1, <1>4, ListsKept, CursorsKept DEF listVars
  <2> QED BY <1>3, <2>1, <2>2
<1>5. CASE /\ PrefixSlots(content[1]) # {} /\ Len(content) = 1
           /\ PrefixSlot(content[1]) = active_slot
           /\ effects' = Tail(effects) /\ last_query' = content
           /\ UNCHANGED <<active_slot, listVars, selected, paneVars>>
  <2>1. \A l \in Leaf : content = <<Prefix[l]>> => PrefixSlot(Prefix[l]) = active_slot
    BY <1>5
  <2>2. Inputs'
    BY <1>1, <1>2, <1>5, <2>1 DEF Inputs, PrefixSlot, PrefixSlots, SlotPrefix
  <2>3. Listings' /\ Cursors'
    BY <1>1, <1>5, ListsKept, CursorsKept DEF listVars
  <2> QED BY <1>3, <2>2, <2>3
<1>6. CASE /\ PrefixSlots(content[1]) # {}
           /\ SwitchTo(PrefixSlot(content[1]), content)
           /\ effects' = Append(Tail(effects), "clear")
           /\ last_query' = <<>>
  <2> DEFINE k == PrefixSlot(content[1])
             q == IF Entry(k) # Entry(active_slot) THEN <<>> ELSE content
  <2>1. k \in Slot /\ q \in Query
    BY <1>6, PrefixSlotTyped, LauncherAssumption DEF Inputs
  <2>2. active_slot' = k /\ Filter(k, q) /\ ResetPanes
    BY <1>6 DEF SwitchTo
  <2>3. Listings'
    BY <2>1, <2>2, FilterLists
  <2>4. Cursors'
    BY <2>2, <2>3, CursorsReset
  <2>5. effects' = <<"clear">>
    BY <1>1, <1>6
  <2>6. \A l \in Leaf : last_query' # <<Prefix[l]>>
    BY <1>6
  <2>7. content' \in Query /\ last_query' \in Query
    BY <1>2, <1>6, LauncherAssumption DEF Inputs
  <2>8. effects' # <<>>
    BY <2>5
  <2>9. Inputs'
    BY <2>5, <2>6, <2>7, <2>8 DEF Inputs
  <2> QED BY <1>3, <2>3, <2>4, <2>9
<1>7. CASE /\ ~(Len(content) = 1 /\ PrefixSlots(content[1]) # {})
           /\ UpdateFilter(content)
           /\ last_query' = content /\ effects' = Tail(effects)
           /\ UNCHANGED active_slot
  <2>1. active_slot \in Slot /\ content \in Query
    BY DEF Listings, Inputs
  <2>2. active_slot' = active_slot /\ Filter(active_slot, content) /\ ResetPanes
    BY <1>7 DEF UpdateFilter
  <2>3. Listings'
    BY <2>1, <2>2, FilterLists
  <2>4. Cursors'
    BY <2>2, <2>3, CursorsReset
  <2>5. ASSUME NEW l \in Leaf, content = <<Prefix[l]>> PROVE FALSE
    <3>1. Len(content) = 1 /\ content[1] = Prefix[l]
      BY <2>5
    <3> QED BY <1>7, <3>1, PrefixTaken
  <2>6. Inputs'
    BY <1>1, <1>2, <1>7, <2>5 DEF Inputs
  <2> QED BY <1>3, <2>3, <2>4, <2>6
<1> QED BY <1>4, <1>5, <1>6, <1>7 DEF Observe

LEMMA ClearStep ==
  ASSUME LauncherInv, Clear
  PROVE  LauncherInv'
<1> USE DEF LauncherInv
<1>1. running /\ confirming = None /\ effects = <<"clear">> /\ Tail(effects) = <<>>
  BY DEF Clear, Inputs, Endings
<1>2. effects' = <<"notify">>
  <2>1. Len(effects) = 1 /\ ~ \E i \in 2..Len(effects) : effects[i] = "notify"
    BY <1>1
  <2> QED BY <1>1, <2>1 DEF Clear
<1>3. Inputs'
  <2>1. UNCHANGED <<last_query, active_slot>> /\ content' \in Query
    BY LauncherAssumption DEF Clear
  <2> QED BY <1>2, <2>1 DEF Inputs, PrefixSlot, PrefixSlots, SlotPrefix
<1>4. Sources' /\ Listings' /\ Frame'
  BY SourcesKept, ListsKept, FrameKept DEF Clear, srcVars, Sources
<1>5. Cursors' /\ Endings'
  BY <1>1, CursorsKept, EndsOpen DEF Clear, listVars, Endings
<1> QED BY <1>3, <1>4, <1>5

LEMMA SwitchStep ==
  ASSUME LauncherInv, NEW k \in Slot, ApplySlot(k)
  PROVE  LauncherInv'
<1> USE DEF LauncherInv
<1> DEFINE q == IF Entry(k) # Entry(active_slot) THEN <<>> ELSE content
<1>1. running /\ confirming = None
  BY DEF ApplySlot, Listing, Idle
<1>2. active_slot' = k /\ Filter(k, q) /\ ResetPanes
  BY DEF ApplySlot, SwitchTo
<1>3. q \in Query
  BY LauncherAssumption DEF Inputs
<1>4. Listings'
  BY <1>2, <1>3, FilterLists
<1>5. Cursors'
  BY <1>2, <1>4, CursorsReset
<1>6. Inputs'
  <2>1. \A l \in Leaf : <<>> # <<Prefix[l]>>
    OBVIOUS
  <2>2. last_query' = <<>> /\ effects' = <<"clear">> /\ UNCHANGED content
    BY DEF ApplySlot
  <2> QED BY <2>1, <2>2, LauncherAssumption DEF Inputs
<1>7. Sources' /\ Frame' /\ Endings'
  BY <1>1, SourcesKept, FrameKept, EndsOpen DEF ApplySlot, srcVars, Sources, Endings
<1> QED BY <1>4, <1>5, <1>6, <1>7

LEMMA RefilterStep ==
  ASSUME LauncherInv, Refilter
  PROVE  LauncherInv'
<1> USE DEF LauncherInv
<1>1. running /\ confirming = None
  BY DEF Refilter, Idle
<1>2. Listings'
  <2>1. active_slot \in Slot /\ content \in Query /\ active_slot' = active_slot
    BY DEF Listings, Inputs, Refilter
  <2> QED BY <2>1, FilterLists DEF Refilter
<1>3. /\ Len(filtered') \in Nat
      /\ filtered' = <<>> <=> Len(filtered') = 0
  <2>1. filtered' \in Seq(Nat \ {0})
    BY <1>2 DEF Listings
  <2> QED BY <2>1, LenProperties, EmptySeq
<1>4. Cursors'
  <2>1. selected' = IF selected < Len(filtered') THEN selected
                    ELSE IF filtered' = <<>> THEN 0 ELSE Len(filtered') - 1
    BY DEF Refilter
  <2>2. selected \in Nat
    BY DEF Cursors
  <2>3. /\ selected' \in Nat
        /\ selected' < Len(filtered') \/ (selected' = 0 /\ filtered' = <<>>)
    BY <1>3, <2>1, <2>2
  <2>4. UNCHANGED <<left_pane, mime_cache, mime_selected, running, confirming>>
    BY DEF Refilter, paneVars
  <2> QED BY <1>1, <2>3, <2>4 DEF Cursors, HasPicked
<1>5. Sources' /\ Inputs' /\ Frame' /\ Endings'
  BY <1>1, SourcesKept, TextsKept, FrameKept, EndsOpen DEF Refilter, Sources, Endings
<1> QED BY <1>2, <1>4, <1>5
LEMMA RenderStep ==
  ASSUME LauncherInv, Render
  PROVE  LauncherInv'
<1> USE DEF LauncherInv
<1>1. running /\ confirming = None
  BY DEF Render, Idle
<1>2. Frame'
  <2>1. Len(filtered) \in Nat /\ Len(mime_cache) \in Nat
    BY ListLength, CacheLength
  <2>2. left_pane \in {"items", "mimes"}
    BY DEF Cursors
  <2>3. drawn' = IF peek_active THEN [pane |-> "peek", rows |-> 0]
                 ELSE [pane |-> left_pane,
                       rows |-> IF left_pane = "items" THEN Len(filtered) ELSE Len(mime_cache)]
    BY DEF Render
  <2>4. drawn' \in [pane : {"items", "mimes", "peek"}, rows : Nat]
    <3>1. CASE peek_active
      BY <2>3, <3>1
    <3>2. CASE ~peek_active
      BY <2>1, <2>2, <2>3, <3>2
    <3> QED BY <3>1, <3>2
  <2> QED BY <2>4 DEF Render, Frame
<1>3. Sources' /\ Inputs' /\ Listings'
  BY SourcesKept, TextsKept, ListsKept DEF Render, srcVars, Sources
<1>4. Cursors' /\ Endings'
  BY <1>1, CursorsKept, EndsOpen DEF Render, listVars, Endings
<1> QED BY <1>2, <1>3, <1>4

LEMMA MoveStep ==
  ASSUME LauncherInv, Move
  PROVE  LauncherInv'
<1> USE DEF LauncherInv
<1>1. running /\ confirming = None
  BY DEF Move, Idle
<1>2. Sources' /\ Inputs' /\ Listings' /\ Frame'
  BY SourcesKept, TextsKept, ListsKept, FrameKept DEF Move, srcVars, Sources
<1>3. Endings'
  BY <1>1, EndsOpen DEF Move, Endings
<1>4. \A n, len \in Nat :
        /\ Up(n) \in Nat /\ Down(n, len) \in Nat
        /\ n < len => Up(n) < len /\ Down(n, len) < len
        /\ len = 0 => Down(n, len) = n
  BY DEF Up, Down
<1>5. /\ selected \in Nat /\ mime_selected \in Nat
      /\ Len(filtered) \in Nat /\ Len(mime_cache) \in Nat
      /\ selected < Len(filtered) \/ (selected = 0 /\ filtered = <<>> /\ Len(filtered) = 0)
      /\ left_pane = "mimes" => Len(mime_cache) >= 2 /\ mime_selected < Len(mime_cache)
  BY <1>1, ListLength, CacheLength DEF Cursors, HasPicked
<1>6. Up(0) = 0
  BY DEF Up
<1>7. UNCHANGED <<left_pane, mime_cache, filtered, running, confirming>>
  BY DEF Move, listVars
<1>8. CASE left_pane = "items"
  <2>1. selected' \in {Up(selected), Down(selected, Len(filtered))} /\ mime_selected' = 0
    BY <1>8 DEF Move
  <2>2. /\ selected' \in Nat
        /\ selected' < Len(filtered) \/ (selected' = 0 /\ filtered = <<>>)
    <3> DEFINE len == Len(filtered)
    <3>1. /\ Up(selected) \in Nat /\ Down(selected, len) \in Nat
          /\ selected < len => Up(selected) < len /\ Down(selected, len) < len
          /\ len = 0 => Down(selected, len) = selected
      BY <1>4, <1>5
    <3> HIDE DEF len
    <3>2. selected < len \/ (selected = 0 /\ filtered = <<>> /\ len = 0)
      BY <1>5 DEF len
    <3>3. selected' = Up(selected) \/ selected' = Down(selected, len)
      BY <2>1 DEF len
    <3>4. selected' \in Nat /\ (selected' < len \/ (selected' = 0 /\ filtered = <<>>))
      BY <1>6, <3>1, <3>2, <3>3
    <3> QED BY <3>4 DEF len
  <2> QED BY <1>2, <1>3, <1>7, <1>8, <2>1, <2>2 DEF Cursors, HasPicked
<1>9. CASE left_pane # "items"
  <2>1. /\ mime_selected' \in {Up(mime_selected), Down(mime_selected, Len(mime_cache))}
        /\ UNCHANGED selected
    BY <1>9 DEF Move
  <2>2. mime_selected' \in Nat /\ (left_pane = "mimes" => mime_selected' < Len(mime_cache))
    <3> DEFINE len == Len(mime_cache)
    <3>1. /\ Up(mime_selected) \in Nat /\ Down(mime_selected, len) \in Nat
          /\ mime_selected < len => /\ Up(mime_selected) < len
                                    /\ Down(mime_selected, len) < len
      BY <1>4, <1>5
    <3>2. mime_selected' = Up(mime_selected) \/ mime_selected' = Down(mime_selected, len)
      BY <2>1
    <3> QED BY <1>5, <3>1, <3>2
  <2> QED BY <1>2, <1>3, <1>5, <1>7, <2>1, <2>2 DEF Cursors, HasPicked
<1> QED BY <1>8, <1>9

LEMMA ToggleMimeStep ==
  ASSUME LauncherInv, ToggleMimePane
  PROVE  LauncherInv'
<1> USE DEF LauncherInv
<1> DEFINE cache == IF HasPicked /\ Picked.row # None THEN Mimes[Picked.row] ELSE <<>>
           open == left_pane = "items" /\ Len(cache) >= 2
<1>1. running /\ confirming = None
  BY DEF ToggleMimePane, Listing, Idle
<1>2. Sources' /\ Inputs' /\ Listings' /\ Frame'
  BY SourcesKept, TextsKept, ListsKept, FrameKept DEF ToggleMimePane, srcVars, Sources
<1>3. Endings'
  BY <1>1, EndsOpen DEF ToggleMimePane, Endings
<1>4. cache \in {<<>>} \cup {Mimes[r] : r \in SourceRow}
  <2>1. CASE HasPicked /\ Picked.row # None
    <3>1. selected + 1 \in DOMAIN filtered
      BY <2>1, ListLength DEF HasPicked, Cursors
    <3>2. Picked.row \in SourceRow
      BY <2>1, <3>1, RowShown DEF Picked
    <3> QED BY <2>1, <3>2
  <2>2. CASE ~(HasPicked /\ Picked.row # None)
    BY <2>2
  <2> QED BY <2>1, <2>2
<1>5. /\ left_pane' = IF open THEN "mimes" ELSE "items"
      /\ mime_cache' = IF open THEN cache ELSE <<>>
      /\ mime_selected' = IF open THEN 0 ELSE mime_selected
  BY DEF ToggleMimePane
<1>6. UNCHANGED <<selected, filtered, running, confirming>>
  BY DEF ToggleMimePane, listVars
<1>7. /\ HasPicked \/ (selected = 0 /\ filtered = <<>>)
      /\ selected \in Nat /\ mime_selected \in Nat
  BY <1>1 DEF Cursors
<1> HIDE DEF cache
<1>8. CASE open
  <2>1. left_pane' = "mimes" /\ mime_cache' = cache /\ mime_selected' = 0
    BY <1>5, <1>8
  <2>2. Len(cache) \in Nat
    <3>1. Len(<<>>) = 0
      BY EmptySeq
    <3> QED BY <1>4, <3>1, LauncherAssumption
  <2> QED BY <1>2, <1>3, <1>4, <1>6, <1>7, <1>8, <2>1, <2>2 DEF Cursors, HasPicked
<1>9. CASE ~open
  <2>1. left_pane' = "items" /\ mime_cache' = <<>> /\ mime_selected' = mime_selected
    BY <1>5, <1>9
  <2> QED BY <1>2, <1>3, <1>6, <1>7, <2>1 DEF Cursors, HasPicked
<1> QED BY <1>8, <1>9

LEMMA PeekStep ==
  ASSUME LauncherInv, TogglePeek
  PROVE  LauncherInv'
<1> USE DEF LauncherInv
<1>1. running /\ confirming = None
  BY DEF TogglePeek, Idle
<1>2. Sources' /\ Inputs' /\ Listings'
  BY SourcesKept, TextsKept, ListsKept DEF TogglePeek, srcVars, Sources
<1>3. Frame'
  BY DEF TogglePeek, Frame
<1>4. Cursors' /\ Endings'
  BY <1>1, CursorsKept, EndsOpen DEF TogglePeek, listVars, Endings
<1> QED BY <1>2, <1>3, <1>4

LEMMA DismissStep ==
  ASSUME LauncherInv, Dismiss
  PROVE  LauncherInv'
<1> USE DEF LauncherInv
<1>1. running /\ confirming = None
  BY DEF Dismiss, Idle
<1>2. Sources' /\ Inputs' /\ Listings'
  BY SourcesKept, TextsKept, ListsKept DEF Dismiss, srcVars, Sources
<1>3. Frame'
  BY DEF Dismiss, Frame
<1>4. Endings'
  <2>1. running' \in BOOLEAN
    BY DEF Dismiss
  <2> QED BY <1>1, <2>1, EndsOpen DEF Dismiss
<1>5. Cursors'
  <2>1. left_pane' \in {left_pane, "items"}
    BY DEF Dismiss
  <2>2. UNCHANGED <<selected, mime_cache, mime_selected, filtered, confirming>>
    BY DEF Dismiss, listVars
  <2> QED BY <1>1, <2>1, <2>2 DEF Cursors, HasPicked
<1> QED BY <1>2, <1>3, <1>4, <1>5

LEMMA CopyStep ==
  ASSUME LauncherInv, CopyImage
  PROVE  LauncherInv'
<1> USE DEF LauncherInv
<1>1. running /\ confirming = None
  BY DEF CopyImage, Idle
<1>2. Sources' /\ Inputs' /\ Listings' /\ Frame'
  BY SourcesKept, TextsKept, ListsKept, FrameKept DEF CopyImage, srcVars, Sources
<1>3. Cursors' /\ Endings'
  BY <1>1, CursorsKept, EndsOpen DEF CopyImage, listVars
<1> QED BY <1>2, <1>3

(* Confirm and Click: the row that is confirmed is the one read.           *)
LEMMA KeyStep ==
  ASSUME LauncherInv, Idle, NEW n \in Nat, NEW pane \in {"items", "mimes"}, NEW m \in Nat,
         ReadKey(n, pane, m)
  PROVE  LauncherInv'
<1> USE DEF LauncherInv
<1>1. running /\ confirming = None /\ effects = <<>> /\ activated = None
  BY DEF Idle, Endings
<1>2. Sources' /\ Inputs' /\ Listings' /\ Frame'
  BY SourcesKept, TextsKept, ListsKept, FrameKept DEF ReadKey, srcVars, Sources
<1>3. /\ selected' = n /\ left_pane' = pane /\ mime_selected' = m
      /\ UNCHANGED <<mime_cache, effects, active_slot, filtered, routing, activated>>
  BY DEF ReadKey, inputVars, listVars
<1>4. CASE n < Len(filtered)
  <2>1. /\ confirming' = [leaf |-> RowAt(n + 1).leaf, key |-> RowAt(n + 1).row]
        /\ UNCHANGED running
    BY <1>4 DEF ReadKey
  <2>2. RowAt(n + 1).leaf \in Leaf /\ RowAt(n + 1).row \in SourceRow \cup {None}
    BY <1>4, ListLength, RowShown
  <2>3. confirming' \in [leaf : Leaf, key : SourceRow \cup {None}]
    BY <2>1, <2>2
  <2>4. confirming' # None
    BY <2>3, LauncherAssumption
  <2>5. HasPicked'
    BY <1>3, <1>4 DEF HasPicked
  <2>6. Picked'.leaf = RowAt(n + 1).leaf
    BY <1>3 DEF Picked, RowAt
  <2>7. Cursors'
    BY <1>3, <2>4 DEF Cursors
  <2>8. Endings'
    BY <1>1, <1>3, <2>1, <2>3, <2>5, <2>6 DEF Endings, ActivatesFromView
  <2> QED BY <1>2, <2>7, <2>8
<1>5. CASE ~(n < Len(filtered))
  <2>1. running' = FALSE /\ UNCHANGED confirming
    BY <1>5 DEF ReadKey
  <2>2. Endings'
    BY <1>1, <1>3, <2>1, EndsOpen
  <2>3. Cursors'
    BY <1>3, <2>1 DEF Cursors
  <2> QED BY <1>2, <2>2, <2>3
<1> QED BY <1>4, <1>5

LEMMA ActivateStep ==
  ASSUME LauncherInv, Activate
  PROVE  LauncherInv'
<1> USE DEF LauncherInv
<1>1. running /\ confirming # None
  BY DEF Activate
<1>2. Sources' /\ Inputs' /\ Listings' /\ Frame'
  BY SourcesKept, TextsKept, ListsKept, FrameKept DEF Activate, srcVars, Sources
<1>3. confirming' = None /\ running' = FALSE /\ UNCHANGED <<selected, paneVars, active_slot>>
  BY DEF Activate
<1>4. Cursors'
  BY <1>3 DEF Cursors, paneVars
<1>5. activated'.leaf = Picked.leaf /\ activated'.record = confirming
  BY DEF Activate
<1>6. Picked.leaf \in Leaf /\ Shows(active_slot, Picked.leaf)
  <2>1. selected + 1 \in DOMAIN filtered
    BY <1>1, ListLength DEF Endings, HasPicked, Cursors
  <2> QED BY <2>1, RowShown DEF Picked
<1>7. Shows(active_slot, Picked.leaf)' <=> Shows(active_slot', Picked'.leaf)
  OBVIOUS
<1>8. ActivatesFromView'
  <2>1. activated'.record.leaf = activated'.leaf
    BY <1>1, <1>5 DEF Endings
  <2>2. Shows(active_slot', activated'.leaf)
    BY <1>3, <1>5, <1>6
  <2> QED BY <2>1, <2>2 DEF ActivatesFromView
<1>9. Endings'
  BY <1>3, <1>5, <1>6, <1>8 DEF Endings
<1> QED BY <1>2, <1>4, <1>9

-----------------------------------------------------------------------------
LEMMA LauncherSteps == LauncherInv /\ [LauncherNext]_launcherVars => LauncherInv'
<1> SUFFICES ASSUME LauncherInv, [LauncherNext]_launcherVars PROVE LauncherInv'
  OBVIOUS
<1>1. CASE SourceGrows
  BY <1>1, RowsStep
<1>2. CASE Edit
  BY <1>2, EditStep
<1>3. CASE Observe
  BY <1>3, ObserveStep
<1>4. CASE Clear
  BY <1>4, ClearStep
<1>5. CASE EmptyBackspace
  BY <1>5, SwitchStep, DefaultIsSlot DEF EmptyBackspace
<1>6. CASE Refilter
  BY <1>6, RefilterStep
<1>7. CASE Render
  BY <1>7, RenderStep
<1>8. CASE \E k \in Slot : ApplySlot(k)
  BY <1>8, SwitchStep
<1>9. CASE Move
  BY <1>9, MoveStep
<1>10. CASE ToggleMimePane
  BY <1>10, ToggleMimeStep
<1>11. CASE TogglePeek
  BY <1>11, PeekStep
<1>12. CASE Dismiss
  BY <1>12, DismissStep
<1>13. CASE CopyImage
  BY <1>13, CopyStep
<1>14. CASE Confirm
  <2>1. selected \in Nat /\ left_pane \in {"items", "mimes"} /\ mime_selected \in Nat
    BY DEF LauncherInv, Cursors
  <2> QED BY <1>14, <2>1, KeyStep DEF Confirm
<1>15. CASE Click
  <2>1. selected \in Nat /\ mime_selected \in Nat /\ drawn.rows \in Nat
    BY DEF LauncherInv, Cursors, Frame
  <2>2. PICK n \in 0..(drawn.rows - 1) :
          IF drawn.pane = "items" THEN ReadKey(n, "items", mime_selected)
                                  ELSE ReadKey(selected, "mimes", n)
    BY <1>15 DEF Click
  <2>3. n \in Nat /\ Idle
    BY <1>15, <2>1 DEF Click, Listing
  <2> QED BY <2>1, <2>2, <2>3, KeyStep
<1>16. CASE Activate
  BY <1>16, ActivateStep
<1>17. CASE UNCHANGED launcherVars
  <2>1. UNCHANGED <<srcVars, inputVars, active_slot, listVars, selected, paneVars,
                    peek_active, drawn>>
    BY <1>17 DEF launcherVars
  <2>2. UNCHANGED <<confirming, running, activated>>
    BY <1>17 DEF launcherVars
  <2>3. Sources' /\ Inputs' /\ Listings' /\ Frame'
    BY <2>1, SourcesKept, TextsKept, ListsKept, FrameKept DEF LauncherInv, srcVars, Sources
  <2>4. UNCHANGED <<leafRows, pulse, effects, filtered, routing>>
    BY <2>1 DEF srcVars, inputVars, listVars
  <2>5. Cursors'
    BY <2>1, <2>2, <2>4 DEF LauncherInv, Cursors, HasPicked, paneVars
  <2>6. HasPicked' = HasPicked /\ Picked' = Picked
    BY <2>1, <2>4 DEF HasPicked, Picked, RowAt
  <2>7. ActivatesFromView'
    BY <2>1, <2>2 DEF LauncherInv, Endings, ActivatesFromView
  <2>8. Endings'
    BY <2>2, <2>4, <2>6, <2>7 DEF LauncherInv, Endings
  <2> QED BY <2>3, <2>5, <2>8 DEF LauncherInv
<1> QED BY <1>1, <1>2, <1>3, <1>4, <1>5, <1>6, <1>7, <1>8, <1>9, <1>10, <1>11, <1>12,
           <1>13, <1>14, <1>15, <1>16, <1>17 DEF LauncherNext

LEMMA InvImplies == LauncherInv => LauncherType /\ ViewAgrees /\ ActivatesFromView
<1> SUFFICES ASSUME LauncherInv
             PROVE  LauncherType /\ ViewAgrees /\ ActivatesFromView
  OBVIOUS
<1> USE DEF LauncherInv
<1>1. effects \in Seq({"notify", "clear"})
  <2>1. \A e \in {"notify", "clear"} : <<e>> \in Seq({"notify", "clear"})
    OBVIOUS
  <2> QED BY <2>1, EmptySeq DEF Inputs
<1>2. LauncherType
  BY <1>1 DEF LauncherType, Sources, Inputs, Listings, Cursors, Frame, Endings
<1>3. RoutesInRange
  BY DEF RoutesInRange, Listings, Shows
<1>4. SelectionInRange /\ MimeSelectionInRange
  BY DEF SelectionInRange, MimeSelectionInRange, Idle, Cursors
<1>5. LastQueryAgrees
  BY DEF LastQueryAgrees, Idle, Inputs
<1>6. PrefixConsumed
  <2> SUFFICES ASSUME Idle, NEW l \in Leaf, content = <<Prefix[l]>>
               PROVE  PrefixSlot(Prefix[l]) = active_slot
    BY DEF PrefixConsumed
  <2> QED BY DEF Idle, Inputs
<1> QED BY <1>2, <1>3, <1>4, <1>5, <1>6 DEF ViewAgrees, Endings

LEMMA LauncherInvariant == LauncherSpec => []LauncherInv
BY LauncherStarts, LauncherSteps, PTL DEF LauncherSpec

(* Whatever the order of edits, switches, deferred resets, pulses and      *)
(* clicks, the list covers the routing table, the cursors are on rows, and *)
(* the input has handed its prefix over (launcher.rs:294-505).             *)
THEOREM ViewStaysCoherent == LauncherSpec => [](LauncherType /\ ViewAgrees)
BY LauncherInvariant, InvImplies, PTL

(* What a confirm activates belongs to the source that was shown and that  *)
(* the usage tracker was told (launcher.rs:586, union.rs:89-97).           *)
THEOREM ActivatesWhatIsShown == LauncherSpec => []ActivatesFromView
BY LauncherInvariant, InvImplies, PTL
=============================================================================
