---------------------------- MODULE RoutingProofs ----------------------------
(***************************************************************************)
(* Which fixture answers a request, for any lists of fixtures, any         *)
(* requests and any sequence of builder calls, reloads and recordings.     *)
(***************************************************************************)
EXTENDS Routing, FiniteSetTheorems, SequenceTheorems, WellFoundedInduction, TLAPS

-----------------------------------------------------------------------------
(* The order of a pass.                                                    *)

\* A list of fixtures of integer priority.
Sortable(fs) ==
  /\ \E n \in Nat : DOMAIN fs = 1 .. n
  /\ \A i \in DOMAIN fs : Priority(fs[i]) \in Int

\* A non-empty set of numbers has a least.
LEMMA MinIsLeast ==
  ASSUME NEW S \in SUBSET Nat, S # {}
  PROVE  Min(S) \in S /\ \A k \in S : Min(S) <= k
  <1> DEFINE Less == { ss \in Nat \X Nat : ss[1] < ss[2] }
  <1>1. IsWellFoundedOn(Less, Nat)
    BY NatLessThanWellFounded DEF OpToRel
  <1>2. PICK x \in S : \A y \in S : ~(<<y, x>> \in Less)
    <2> HIDE DEF Less
    <2> QED
      BY <1>1, WFMin
  <1>3. ASSUME NEW y \in S
        PROVE  x <= y
    <2>1. x \in Nat /\ y \in Nat /\ <<y, x>> \notin Less
      BY <1>2
    <2>2. ~(y < x)
      BY <2>1
    <2> QED
      BY <2>1, <2>2
  <1> QED
    BY <1>3 DEF Min

\* Earlier is a strict order of the positions of a list.
LEMMA EarlierIsStrict ==
  ASSUME NEW fs, Sortable(fs), NEW i \in DOMAIN fs, NEW j \in DOMAIN fs, NEW k \in DOMAIN fs
  PROVE  /\ ~Earlier(fs, i, i)
         /\ Earlier(fs, i, j) /\ Earlier(fs, j, k) => Earlier(fs, i, k)
         /\ i # j => Earlier(fs, i, j) \/ Earlier(fs, j, i)
  <1> DEFINE p(x) == Priority(fs[x])
  <1>1. i \in Int /\ j \in Int /\ k \in Int
    BY DEF Sortable
  <1>2. p(i) \in Int /\ p(j) \in Int /\ p(k) \in Int
    BY DEF Sortable
  <1> HIDE DEF p
  <1>3. \A x, y \in {i, j, k} : Earlier(fs, x, y) <=> p(x) > p(y) \/ (p(x) = p(y) /\ x < y)
    BY DEF Earlier, p
  <1> QED
    BY <1>1, <1>2, <1>3

\* The positions of a kind are finitely many.
LEMMA KindIsFinite ==
  ASSUME NEW fs, Sortable(fs), NEW catchAll
  PROVE  /\ Kind(fs, catchAll) \subseteq DOMAIN fs
         /\ IsFiniteSet(Kind(fs, catchAll))
         /\ Cardinality(Kind(fs, catchAll)) \in Nat
  <1>1. PICK n \in Nat : DOMAIN fs = 1 .. n
    BY DEF Sortable
  <1>2. IsFiniteSet(1 .. n)
    BY FS_Interval
  <1>3. Kind(fs, catchAll) \subseteq 1 .. n
    BY <1>1 DEF Kind
  <1> QED
    BY <1>1, <1>2, <1>3, FS_Subset, FS_CardinalityType

\* An earlier position has fewer before it, and each has fewer than there are.
LEMMA BeforeIsPlace ==
  ASSUME NEW fs, Sortable(fs), NEW kind \in SUBSET DOMAIN fs, IsFiniteSet(kind),
         NEW j \in kind
  PROVE  /\ Before(fs, kind, j) \in Nat
         /\ Before(fs, kind, j) < Cardinality(kind)
         /\ \A i \in kind : Earlier(fs, i, j) => Before(fs, kind, i) < Before(fs, kind, j)
  <1> DEFINE Less(i) == { k \in kind : Earlier(fs, k, i) }
  <1>1. \A i \in kind : IsFiniteSet(Less(i)) /\ Cardinality(Less(i)) \in Nat /\ i \notin Less(i)
    <2> TAKE i \in kind
    <2>1. Less(i) \subseteq kind
      OBVIOUS
    <2>2. IsFiniteSet(Less(i))
      BY <2>1, FS_Subset
    <2>3. ~Earlier(fs, i, i)
      BY EarlierIsStrict
    <2> QED
      BY <2>2, <2>3, FS_CardinalityType
  <1>2. ASSUME NEW T, IsFiniteSet(T), NEW i \in kind, Less(i) \subseteq T, i \in T
        PROVE  Cardinality(Less(i)) < Cardinality(T)
    <2> DEFINE S == Less(i)
    <2>1. IsFiniteSet(S) /\ Cardinality(S) \in Nat /\ i \notin S /\ S \subseteq T
      BY <1>1, <1>2
    <2> HIDE DEF S
    <2>2. IsFiniteSet(S \cup {i}) /\ Cardinality(S \cup {i}) = Cardinality(S) + 1
      BY <2>1, FS_AddElement
    <2>3. S \cup {i} \subseteq T
      BY <1>2, <2>1
    <2>4. Cardinality(S \cup {i}) <= Cardinality(T) /\ Cardinality(T) \in Nat
      BY <1>2, <2>3, FS_Subset, FS_CardinalityType
    <2>5. Cardinality(S) < Cardinality(T)
      BY <2>1, <2>2, <2>4
    <2> QED
      BY <2>5 DEF S
  <1>3. \A i \in kind : Before(fs, kind, i) = Cardinality(Less(i))
    BY DEF Before
  <1>4. Less(j) \subseteq kind
    OBVIOUS
  <1>5. ASSUME NEW i \in kind, Earlier(fs, i, j)
        PROVE  Less(i) \subseteq Less(j) /\ i \in Less(j)
    BY <1>5, EarlierIsStrict
  <1> HIDE DEF Less
  <1>6. Before(fs, kind, j) \in Nat /\ Before(fs, kind, j) < Cardinality(kind)
    BY <1>1, <1>2, <1>3, <1>4
  <1>7. ASSUME NEW i \in kind, Earlier(fs, i, j)
        PROVE  Before(fs, kind, i) < Before(fs, kind, j)
    BY <1>1, <1>2, <1>3, <1>5, <1>7
  <1> QED
    BY <1>6, <1>7

\* Order lists the positions of a kind, each once, by descending priority and,
\* among equals, as the list has them.
LEMMA OrderSorts ==
  ASSUME NEW fs, Sortable(fs), NEW catchAll
  PROVE  LET o == Order(fs, catchAll)
             kind == Kind(fs, catchAll)
         IN  /\ \E n \in Nat : DOMAIN o = 1 .. n
             /\ \A k \in DOMAIN o : o[k] \in kind
             /\ \A i \in kind : \E k \in DOMAIN o : o[k] = i
             /\ \A k, l \in DOMAIN o : k < l => Earlier(fs, o[k], o[l])
  <1> DEFINE o == Order(fs, catchAll)
             kind == Kind(fs, catchAll)
             n == Cardinality(kind)
  <1>1. kind \in SUBSET DOMAIN fs /\ IsFiniteSet(kind) /\ n \in Nat
    BY KindIsFinite
  <1>2. DOMAIN o = 1 .. n /\ \A k \in 1 .. n : o[k] = CHOOSE i \in kind : Before(fs, kind, i) = k - 1
    BY DEF Order
  <1> HIDE DEF o, kind, n
  <1>3. \A i \in kind : Before(fs, kind, i) \in Nat /\ Before(fs, kind, i) < n
    BY <1>1, BeforeIsPlace DEF n
  <1>4. \A i, j \in kind : Earlier(fs, i, j) => Before(fs, kind, i) < Before(fs, kind, j)
    BY <1>1, BeforeIsPlace
  <1>5. \A i, j \in kind : Before(fs, kind, i) = Before(fs, kind, j) => i = j
    <2> SUFFICES ASSUME NEW i \in kind, NEW j \in kind, i # j
                 PROVE  Before(fs, kind, i) # Before(fs, kind, j)
      OBVIOUS
    <2>1. Earlier(fs, i, j) \/ Earlier(fs, j, i)
      BY <1>1, EarlierIsStrict
    <2> QED
      BY <1>3, <1>4, <2>1
  <1>6. \A k \in 1 .. n : \E i \in kind : Before(fs, kind, i) = k - 1
    <2> DEFINE place == [i \in kind |-> Before(fs, kind, i) + 1]
    <2>1. place \in [kind -> 1 .. n]
      BY <1>1, <1>3
    <2>2. \A i, j \in kind : place[i] = place[j] => i = j
      BY <1>3, <1>5
    <2> HIDE DEF place
    <2>3. place \in Injection(kind, 1 .. n)
      BY <2>1, <2>2 DEF Injection, IsInjective
    <2>4. IsFiniteSet(1 .. n) /\ Cardinality(1 .. n) = n
      BY <1>1, FS_Interval
    <2>5. place \in Surjection(kind, 1 .. n)
      BY <2>3, <2>4, FS_Injection DEF n
    <2>6. \A k \in 1 .. n : \E i \in kind : place[i] = k
      BY <2>5 DEF Surjection
    <2>7. \A i \in kind : place[i] = Before(fs, kind, i) + 1
      BY DEF place
    <2> TAKE k \in 1 .. n
    <2>8. PICK i \in kind : place[i] = k
      BY <2>6
    <2> QED
      BY <1>3, <2>7, <2>8
  <1>7. \A k \in 1 .. n : o[k] \in kind /\ Before(fs, kind, o[k]) = k - 1
    BY <1>2, <1>6
  <1>8. \A i \in kind : \E k \in 1 .. n : o[k] = i
    <2> TAKE i \in kind
    <2>1. Before(fs, kind, i) + 1 \in 1 .. n
      BY <1>1, <1>3
    <2>2. Before(fs, kind, o[Before(fs, kind, i) + 1]) = Before(fs, kind, i)
      BY <1>3, <1>7, <2>1
    <2> QED
      BY <1>5, <1>7, <2>1, <2>2
  <1>9. \A k, l \in 1 .. n : k < l => Earlier(fs, o[k], o[l])
    <2> SUFFICES ASSUME NEW k \in 1 .. n, NEW l \in 1 .. n, k < l, ~Earlier(fs, o[k], o[l])
                 PROVE  FALSE
      OBVIOUS
    <2>1. o[k] \in DOMAIN fs /\ o[l] \in DOMAIN fs /\ o[k] # o[l]
      BY <1>1, <1>7
    <2>2. Earlier(fs, o[l], o[k])
      BY <2>1, EarlierIsStrict
    <2>3. Before(fs, kind, o[l]) < Before(fs, kind, o[k])
      BY <1>4, <1>7, <2>2
    <2> QED
      BY <1>7, <2>3
  <1> QED
    BY <1>1, <1>2, <1>7, <1>8, <1>9 DEF o, kind

-----------------------------------------------------------------------------
(* The fixture find_match finds.                                           *)

\* Position i is tried before j: in an earlier pass, or earlier in the same.
Leads(fs, i, j) ==
  \/ ~fs[i].catch_all /\ fs[j].catch_all
  \/ fs[i].catch_all = fs[j].catch_all /\ Ahead(fs, i, j)

\* f is the first of the positions m, or there are none.
FirstOf(fs, m, f) ==
  \/ m = {} /\ f = None
  \/ \E i \in m : f = fs[i] /\ \A j \in m : Leads(fs, i, j)

\* A list of fixtures that are served.
Servable(fs) ==
  /\ Sortable(fs)
  /\ \A i \in DOMAIN fs : fs[i] # None /\ fs[i].catch_all \in BOOLEAN

Hits(fs, r, sc) == { i \in DOMAIN fs : fixture_matches(fs[i], r, sc) }

\* A pass finds the first fixture of its kind that matches.
LEMMA PassFindsFirst ==
  ASSUME NEW fs, Sortable(fs), NEW catchAll, NEW r, NEW sc
  PROVE  LET m == Hits(fs, r, sc) \cap Kind(fs, catchAll)
             f == FirstIn(fs, Order(fs, catchAll), r, sc)
         IN  /\ m = {} => f = None
             /\ m # {} => \E i \in m : f = fs[i] /\ \A j \in m : Ahead(fs, i, j)
  <1> DEFINE o == Order(fs, catchAll)
             kind == Kind(fs, catchAll)
             m == Hits(fs, r, sc) \cap kind
             hits == { k \in DOMAIN o : fixture_matches(fs[o[k]], r, sc) }
             f == FirstIn(fs, o, r, sc)
  <1>1. PICK n \in Nat : DOMAIN o = 1 .. n
    BY OrderSorts
  <1>2. /\ \A k \in DOMAIN o : o[k] \in kind
        /\ \A i \in kind : \E k \in DOMAIN o : o[k] = i
        /\ \A k, l \in DOMAIN o : k < l => Earlier(fs, o[k], o[l])
    BY OrderSorts
  <1>3. f = IF hits = {} THEN None ELSE fs[o[Min(hits)]]
    BY DEF FirstIn
  <1>4. \A i \in kind : i \in m <=> fixture_matches(fs[i], r, sc)
    BY DEF Hits, Kind
  <1>5. hits \in SUBSET Nat
    BY <1>1
  <1>6. \A k \in DOMAIN o : k \in hits <=> fixture_matches(fs[o[k]], r, sc)
    OBVIOUS
  <1>7. hits \subseteq DOMAIN o /\ m \subseteq kind
    OBVIOUS
  <1> HIDE DEF o, kind, m, hits, f
  <1>8. m = {} => f = None
    BY <1>2, <1>3, <1>4, <1>6, <1>7
  <1>9. ASSUME m # {}
        PROVE  \E i \in m : f = fs[i] /\ \A j \in m : Ahead(fs, i, j)
    <2>1. hits # {}
      BY <1>2, <1>4, <1>6, <1>7, <1>9
    <2>2. Min(hits) \in hits /\ \A k \in hits : Min(hits) <= k
      BY <1>5, <2>1, MinIsLeast
    <2> DEFINE k == Min(hits)
               i == o[k]
    <2>3. k \in DOMAIN o /\ i \in m /\ f = fs[i]
      BY <1>2, <1>3, <1>4, <1>6, <1>7, <2>1, <2>2
    <2>4. ASSUME NEW j \in m
          PROVE  Ahead(fs, i, j)
      <3>1. PICK l \in DOMAIN o : o[l] = j
        BY <1>2, <1>7
      <3>2. l \in hits
        BY <1>4, <1>6, <1>7, <3>1
      <3>3. k <= l
        BY <2>2, <3>2
      <3>4. k \in Nat /\ l \in Nat
        BY <1>5, <2>2, <3>2
      <3>5. i \in Int /\ j \in Int
        BY <1>7, <2>3, <2>4 DEF kind, Kind, Sortable
      <3> HIDE DEF k
      <3>6. CASE k < l
        <4>1. Earlier(fs, i, j)
          BY <1>2, <2>3, <3>1, <3>6
        <4> QED
          BY <3>5, <4>1 DEF Earlier, Ahead
      <3>7. CASE k = l
        <4>1. i = j
          BY <3>1, <3>7
        <4> QED
          BY <3>5, <4>1 DEF Ahead
      <3> QED
        BY <3>3, <3>4, <3>6, <3>7
    <2> QED
      BY <2>3, <2>4
  <1> QED
    BY <1>8, <1>9 DEF f, m, o, kind

\* find_match finds the first of all that match.
LEMMA FindMatchFindsFirst ==
  ASSUME NEW fs, Servable(fs), NEW r, NEW sc
  PROVE  FirstOf(fs, Hits(fs, r, sc), find_match(new(fs), r, sc))
  <1> DEFINE m == Hits(fs, r, sc)
             p == m \cap Kind(fs, FALSE)
             c == m \cap Kind(fs, TRUE)
             f1 == FirstIn(fs, Order(fs, FALSE), r, sc)
             f2 == FirstIn(fs, Order(fs, TRUE), r, sc)
             f == find_match(new(fs), r, sc)
  <1>1. f = IF f1 # None THEN f1 ELSE f2
    BY DEF find_match, new
  <1>2. /\ p = {} => f1 = None
        /\ p # {} => \E i \in p : f1 = fs[i] /\ \A j \in p : Ahead(fs, i, j)
    BY PassFindsFirst DEF Servable
  <1>3. /\ c = {} => f2 = None
        /\ c # {} => \E i \in c : f2 = fs[i] /\ \A j \in c : Ahead(fs, i, j)
    BY PassFindsFirst DEF Servable
  <1>4. /\ \A i \in m : fs[i] # None
        /\ \A i \in p : fs[i].catch_all = FALSE
        /\ \A i \in c : fs[i].catch_all = TRUE
        /\ p \subseteq m /\ c \subseteq m /\ m \subseteq p \cup c
    <2>1. m \subseteq DOMAIN fs
      BY DEF Hits
    <2>2. \A i \in m : fs[i].catch_all \in BOOLEAN /\ fs[i] # None
      BY <2>1 DEF Servable
    <2>3. \A i \in m : (i \in p <=> fs[i].catch_all = FALSE) /\ (i \in c <=> fs[i].catch_all = TRUE)
      BY <2>1 DEF Kind
    <2>4. p \subseteq m /\ c \subseteq m
      OBVIOUS
    <2> HIDE DEF m, p, c
    <2> QED
      BY <2>2, <2>3, <2>4
  <1> HIDE DEF m, p, c, f1, f2, f
  <1>5. CASE p # {}
    <2>1. PICK i \in p : f1 = fs[i] /\ \A j \in p : Ahead(fs, i, j)
      BY <1>2, <1>5
    <2>2. i \in m /\ f = fs[i]
      BY <1>1, <1>4, <2>1
    <2>3. \A j \in m : Leads(fs, i, j)
      BY <1>4, <2>1 DEF Leads
    <2> QED
      BY <2>2, <2>3 DEF FirstOf, f, m
  <1>6. CASE p = {} /\ c # {}
    <2>1. PICK i \in c : f2 = fs[i] /\ \A j \in c : Ahead(fs, i, j)
      BY <1>3, <1>6
    <2>2. i \in m /\ f = fs[i]
      BY <1>1, <1>2, <1>4, <1>6, <2>1
    <2>3. \A j \in m : Leads(fs, i, j)
      BY <1>4, <1>6, <2>1 DEF Leads
    <2> QED
      BY <2>2, <2>3 DEF FirstOf, f, m
  <1>7. CASE p = {} /\ c = {}
    BY <1>1, <1>2, <1>3, <1>4, <1>7 DEF FirstOf, f, m
  <1> QED
    BY <1>5, <1>6, <1>7

\* What is ahead of everything is ahead of it alone.
LEMMA BestIsFirst ==
  ASSUME NEW fs, Sortable(fs), NEW kind \in SUBSET DOMAIN fs, NEW i \in kind,
         \A j \in kind : Ahead(fs, i, j)
  PROVE  Best(fs, kind) = i
  <1>1. \A x, y \in kind : Ahead(fs, x, y) /\ Ahead(fs, y, x) => x = y
    <2> SUFFICES ASSUME NEW x \in kind, NEW y \in kind, Ahead(fs, x, y), Ahead(fs, y, x)
                 PROVE  x = y
      OBVIOUS
    <2>1. x \in Int /\ y \in Int /\ Priority(fs[x]) \in Int /\ Priority(fs[y]) \in Int
      BY DEF Sortable
    <2> QED
      BY <2>1 DEF Ahead
  <1>2. Best(fs, kind) \in kind /\ \A j \in kind : Ahead(fs, Best(fs, kind), j)
    BY DEF Best
  <1> QED
    BY <1>1, <1>2

\* The first of the positions m is the best of the list.
LEMMA FirstIsBest ==
  ASSUME NEW fs, Servable(fs), NEW m \in SUBSET DOMAIN fs, NEW f, FirstOf(fs, m, f)
  PROVE  f = BestOf(fs, m)
  <1>1. \A i \in m : fs[i].catch_all \in BOOLEAN
    BY DEF Servable
  <1>2. CASE m = {}
    BY <1>2 DEF FirstOf, BestOf
  <1>3. CASE m # {}
    <2>1. PICK i \in m : f = fs[i] /\ \A j \in m : Leads(fs, i, j)
      BY <1>3 DEF FirstOf
    <2>2. CASE ~fs[i].catch_all
      <3> DEFINE p == { j \in m : ~fs[j].catch_all }
      <3>1. i \in p /\ p \in SUBSET DOMAIN fs /\ \A j \in p : Ahead(fs, i, j)
        BY <1>1, <2>1, <2>2 DEF Leads
      <3>2. Best(fs, p) = i
        BY <3>1, BestIsFirst DEF Servable
      <3>3. BestOf(fs, m) = fs[Best(fs, p)]
        BY <2>2 DEF BestOf
      <3> QED
        BY <2>1, <3>2, <3>3
    <2>3. CASE fs[i].catch_all
      <3>1. \A j \in m : fs[j].catch_all /\ Ahead(fs, i, j)
        BY <1>1, <2>1, <2>3 DEF Leads
      <3>2. Best(fs, m) = i
        BY <3>1, BestIsFirst DEF Servable
      <3>3. BestOf(fs, m) = fs[Best(fs, m)]
        BY <1>3, <3>1 DEF BestOf
      <3> QED
        BY <2>1, <3>2, <3>3
    <2> QED
      BY <1>1, <2>2, <2>3
  <1> QED
    BY <1>2, <1>3

-----------------------------------------------------------------------------
(* What the server is given.                                               *)

\* A set of drafts that holds what is written, built in code and recorded:
\* records of a fixture's fields, whose priorities are integers and whose errors
\* have a status and headers, and which are not mistaken for no fixture, nor
\* their errors for none, when they are served.
Drafting(Drafts) ==
  /\ NewFixture \in Drafts
  /\ \A f \in Drafts : Calls(f) \subseteq Drafts \cup {None}
  /\ \A file \in Files : Written[file] \in Seq(Drafts)
  /\ \A r \in LlmRequests : Recording(Seen[r]) \in Drafts
  /\ \A f \in Drafts : /\ DOMAIN f = DOMAIN NewFixture
                       /\ f.catch_all \in BOOLEAN
                       /\ f.priority \in Int \cup {None}
                       /\ f.error # None => /\ FoldError(f.error) # None
                                            /\ {"status", "headers"} \subseteq DOMAIN f.error
                       /\ Compiled(Folded(f)) # None

\* What validation lets pass of them, as it is served.
Served(Drafts) == { Compiled(Folded(f)) : f \in { g \in Drafts : Valid(g) } }

\* Validation and compilation keep the priority and the kind.
LEMMA CompiledKeeps ==
  ASSUME NEW f, DOMAIN f = DOMAIN NewFixture
  PROVE  /\ Compiled(Folded(f)).priority = f.priority
         /\ Compiled(Folded(f)).catch_all = f.catch_all
         /\ Compiled(Folded(f)).provider = f.provider
  <1>1. {"priority", "catch_all", "provider"} \subseteq DOMAIN f
    BY DEF NewFixture
  <1>2. /\ Folded(f).priority = f.priority
        /\ Folded(f).catch_all = f.catch_all
        /\ Folded(f).provider = f.provider
    BY <1>1 DEF Folded
  <1> QED
    BY <1>2 DEF Compiled

\* A list of served fixtures can be sorted.
LEMMA ServedIsServable ==
  ASSUME NEW Drafts, Drafting(Drafts), NEW fs \in Seq(Served(Drafts))
  PROVE  Servable(fs)
  <1>1. DOMAIN fs = 1 .. Len(fs) /\ Len(fs) \in Nat
    BY LenProperties
  <1>2. ASSUME NEW i \in DOMAIN fs
        PROVE  fs[i] # None /\ fs[i].catch_all \in BOOLEAN /\ Priority(fs[i]) \in Int
    <2>1. fs[i] \in Served(Drafts)
      BY <1>1, ElementOfSeq
    <2>2. PICK f \in Drafts : Valid(f) /\ fs[i] = Compiled(Folded(f))
      BY <2>1 DEF Served
    <2>3. fs[i].priority = f.priority /\ fs[i].catch_all = f.catch_all
      BY <2>2, CompiledKeeps DEF Drafting
    <2>4. fs[i] # None /\ fs[i].catch_all \in BOOLEAN
      BY <2>2, <2>3 DEF Drafting
    <2>5. fs[i].priority \in Int \cup {None}
      BY <2>3 DEF Drafting
    <2> QED
      BY <2>4, <2>5 DEF Priority
  <1> QED
    BY <1>1, <1>2 DEF Servable, Sortable

\* What passes validation is valid, and has its names folded.
LEMMA ValidatedIsFolded ==
  ASSUME NEW f, validate(f) # None
  PROVE  Valid(f) /\ validate(f) = Folded(f)
  <1> DEFINE valid == Valid(f)
             folded == Folded(f)
  <1>1. validate(f) = IF valid THEN folded ELSE None
    BY DEF validate
  <1> HIDE DEF valid, folded
  <1>2. valid
    BY <1>1, Zenon
  <1>3. validate(f) = folded
    BY <1>1, <1>2, Zenon
  <1> QED
    BY <1>2, <1>3 DEF valid, folded

\* What loads is the list itself, each fixture compiled.
LEMMA LoadedIsServed ==
  ASSUME NEW Drafts, Drafting(Drafts), NEW list \in Seq(Drafts), Loaded(list) # None
  PROVE  /\ Loaded(list) \in Seq(Served(Drafts))
         /\ Len(Loaded(list)) = Len(list)
         /\ \A i \in DOMAIN list : /\ Loaded(list)[i] = Compiled(Folded(list[i]))
                                   /\ Loaded(list)[i] \in Served(Drafts)
  <1>1. /\ \A i \in DOMAIN list : validate(list[i]) # None
        /\ Loaded(list) = [i \in DOMAIN list |-> Compiled(validate(list[i]))]
    BY DEF Loaded
  <1>2. DOMAIN list = 1 .. Len(list) /\ Len(list) \in Nat
    BY LenProperties
  <1>3. ASSUME NEW i \in DOMAIN list
        PROVE  list[i] \in Drafts /\ Valid(list[i]) /\ validate(list[i]) = Folded(list[i])
    <2>1. list[i] \in Drafts
      BY <1>2, ElementOfSeq
    <2> QED
      BY <1>1, <2>1, ValidatedIsFolded
  <1>4. \A i \in DOMAIN list :
          /\ Loaded(list)[i] = Compiled(Folded(list[i]))
          /\ Compiled(Folded(list[i])) \in Served(Drafts)
    BY <1>1, <1>3 DEF Served
  <1>5. Loaded(list) \in [1 .. Len(list) -> Served(Drafts)]
    BY <1>1, <1>2, <1>3, <1>4
  <1> QED
    BY <1>2, <1>4, <1>5

\* What is stored of a recording is its fixture, compiled.
LEMMA RecordedIsServed ==
  ASSUME NEW Drafts, Drafting(Drafts), NEW r \in LlmRequests, Recorded[r].fixture # None
  PROVE  /\ Recorded[r].fixture = Compiled(Folded(Recording(Seen[r])))
         /\ Recorded[r].fixture \in Served(Drafts)
  <1> DEFINE one == <<Recording(Seen[r])>>
             loaded == Loaded(one)
  <1>1. one \in Seq(Drafts) /\ 1 \in DOMAIN one /\ one[1] = Recording(Seen[r])
    BY DEF Drafting
  <1> HIDE DEF one
  <1>2. Recorded[r].fixture = IF loaded = None \/ ~Extractable(Seen[r]) THEN None ELSE loaded[1]
    BY DEF Recorded, Entry, one
  <1>3. loaded # None /\ Recorded[r].fixture = loaded[1]
    BY <1>2
  <1>4. /\ Recorded[r].fixture = Compiled(Folded(Recording(Seen[r])))
        /\ Recorded[r].fixture \in Served(Drafts)
    BY <1>1, <1>3, LoadedIsServed
  <1> QED
    BY <1>4

-----------------------------------------------------------------------------
(* The live set is always the sorted list of what was written and recorded. *)

\* The requests whose answers can be stored, and what a cassette holds.
Stored == { r \in LlmRequests : Recorded[r].fixture # None }
Recs(c) == [i \in DOMAIN c |-> Recorded[c[i]].fixture]

LiveBooks(Drafts) ==
  /\ live.fixtures \in Seq(Served(Drafts)) /\ live = new(live.fixtures)
  /\ draft # None => draft.fixture \in Drafts /\ ~recording
  /\ recording \in BOOLEAN
  /\ ~recording => hand = None /\ forwarded = {}
  /\ forwarded \subseteq LlmRequests
  /\ cassette \in Seq(Stored)
  /\ recording => /\ hand \in Files /\ LoadedFiles[hand] # None
                  /\ live.fixtures = LoadedFiles[hand] \o Recs(cassette)

\* The recorded fixtures of a cassette are a list of served fixtures.
LEMMA RecsAreServed ==
  ASSUME NEW Drafts, Drafting(Drafts),
         NEW c \in Seq(Stored)
  PROVE  /\ Recs(c) \in Seq(Served(Drafts))
         /\ Len(Recs(c)) = Len(c)
         /\ \A i \in 1 .. Len(c) : /\ c[i] \in LlmRequests
                                   /\ Recs(c)[i] = Compiled(Folded(Recording(Seen[c[i]])))
  <1>1. DOMAIN c = 1 .. Len(c) /\ Len(c) \in Nat
    BY LenProperties
  <1>2. \A i \in 1 .. Len(c) : c[i] \in LlmRequests /\ Recorded[c[i]].fixture # None
    <2>1. \A i \in 1 .. Len(c) : c[i] \in Stored
      BY ElementOfSeq
    <2> QED
      BY <2>1 DEF Stored
  <1>3. \A i \in 1 .. Len(c) : Recs(c)[i] = Recorded[c[i]].fixture
    BY <1>1 DEF Recs
  <1>4. \A i \in 1 .. Len(c) : /\ Recs(c)[i] \in Served(Drafts)
                               /\ Recs(c)[i] = Compiled(Folded(Recording(Seen[c[i]])))
    BY <1>2, <1>3, RecordedIsServed
  <1>5. Recs(c) \in [1 .. Len(c) -> Served(Drafts)]
    BY <1>1, <1>3, <1>4 DEF Recs
  <1> QED
    BY <1>1, <1>2, <1>4, <1>5

\* One more recording at the end.
LEMMA RecsAppend ==
  ASSUME NEW c, NEW S, c \in Seq(S), NEW r \in S
  PROVE  Recs(Append(c, r)) = Append(Recs(c), Recorded[r].fixture)
  <1> DEFINE d == Append(c, r)
             T == { Recorded[x].fixture : x \in S }
             f == Recorded[r].fixture
             e == Append(Recs(c), f)
  <1>1. /\ d \in Seq(S) /\ Len(d) = Len(c) + 1 /\ Len(c) \in Nat
        /\ DOMAIN c = 1 .. Len(c) /\ DOMAIN d = 1 .. Len(c) + 1
        /\ \A i \in 1 .. Len(c) : d[i] = c[i]
        /\ d[Len(c) + 1] = r
    BY AppendProperties, LenProperties
  <1>2. /\ Recs(c) \in Seq(T) /\ Len(Recs(c)) = Len(c)
        /\ \A i \in 1 .. Len(c) : Recs(c)[i] = Recorded[c[i]].fixture
    <2>1. \A i \in 1 .. Len(c) : c[i] \in S
      BY ElementOfSeq
    <2>2. Recs(c) = [i \in 1 .. Len(c) |-> Recorded[c[i]].fixture]
      BY <1>1 DEF Recs
    <2>3. Recs(c) \in [1 .. Len(c) -> T]
      BY <2>1, <2>2
    <2> HIDE DEF T
    <2> QED
      BY <1>1, <2>2, <2>3
  <1>3. f \in T
    OBVIOUS
  <1> HIDE DEF T, f, d
  <1>4. /\ e \in Seq(T) /\ Len(e) = Len(c) + 1
        /\ \A i \in 1 .. Len(c) : e[i] = Recs(c)[i]
        /\ e[Len(c) + 1] = f
    BY <1>2, <1>3, AppendProperties
  <1>5. DOMAIN e = 1 .. Len(c) + 1 /\ e = [i \in 1 .. Len(c) + 1 |-> e[i]]
    BY <1>4, LenProperties
  <1> HIDE DEF e
  <1>6. ASSUME NEW i \in 1 .. Len(c) + 1
        PROVE  e[i] = Recorded[d[i]].fixture
    <2>1. CASE i = Len(c) + 1
      BY <1>1, <1>4, <2>1 DEF f
    <2>2. CASE i # Len(c) + 1
      <3>1. i \in 1 .. Len(c)
        BY <1>1, <2>2
      <3> QED
        BY <1>1, <1>2, <1>4, <3>1
    <2> QED
      BY <2>1, <2>2
  <1>7. Recs(d) = [i \in 1 .. Len(c) + 1 |-> Recorded[d[i]].fixture]
    BY <1>1 DEF Recs
  <1>8. Recs(d) = e
    BY <1>5, <1>6, <1>7
  <1> QED
    BY <1>8 DEF d, e, f

\* The live set at the start, empty or of one file, is made of the drafts.
LEMMA InitBooks ==
  ASSUME NEW Drafts, Drafting(Drafts), Init
  PROVE  LiveBooks(Drafts)
  <1>1. /\ forwarded = {} /\ forwarded \subseteq LlmRequests
        /\ cassette = <<>> /\ cassette \in Seq(Stored)
    BY DEF Init
  <1>2. Recs(<<>>) = <<>>
    BY DEF Recs
  <1>3. CASE /\ recording = TRUE /\ draft = None
             /\ hand \in { file \in Files : LoadedFiles[file] # None }
             /\ live = new(LoadedFiles[hand])
    <2>1. Written[hand] \in Seq(Drafts) /\ LoadedFiles[hand] = Loaded(Written[hand])
      BY <1>3 DEF Drafting, LoadedFiles
    <2>2. LoadedFiles[hand] \in Seq(Served(Drafts))
      BY <1>3, <2>1, LoadedIsServed
    <2>3. live.fixtures = LoadedFiles[hand]
      BY <1>3 DEF new
    <2>4. live.fixtures = LoadedFiles[hand] \o Recs(cassette)
      BY <1>1, <1>2, <2>2, <2>3, ConcatEmptySeq
    <2> QED
      BY <1>1, <1>3, <2>2, <2>3, <2>4 DEF LiveBooks
  <1>4. CASE /\ recording = FALSE /\ draft = [fixture |-> NewFixture, calls |-> 0]
             /\ hand = None
             /\ live = new(<<>>)
    <2>1. live.fixtures = <<>>
      BY <1>4 DEF new
    <2>2. live.fixtures \in Seq(Served(Drafts)) /\ live = new(live.fixtures)
      <3> DEFINE S == Served(Drafts)
      <3> HIDE DEF S
      <3>1. <<>> \in Seq(S)
        OBVIOUS
      <3>2. live.fixtures \in Seq(S)
        BY <2>1, <3>1
      <3> QED
        BY <1>4, <2>1, <3>2 DEF S
    <2>3. draft.fixture \in Drafts
      BY <1>4 DEF Drafting
    <2> QED
      BY <1>1, <1>4, <2>2, <2>3 DEF LiveBooks
  <1> QED
    BY <1>3, <1>4 DEF Init

\* What was stored of a recording is at the end of the list.
LEMMA PersistKeeps ==
  ASSUME NEW Drafts, Drafting(Drafts), LiveBooks(Drafts), NEW r, Persist(r)
  PROVE  LiveBooks(Drafts)'
  <1>1. /\ r \in LlmRequests /\ recording /\ draft = None
        /\ hand' = hand /\ draft' = draft /\ recording' = recording
        /\ forwarded' \subseteq LlmRequests
    BY DEF LiveBooks, Persist
  <1>2. CASE live' = live /\ cassette' = cassette
    BY <1>1, <1>2 DEF LiveBooks
  <1>3. CASE /\ Storable(Recorded, r)
             /\ cassette' = Append(cassette, r)
             /\ live' = append_validated_fixture(live, Recorded[r].fixture)
    <2> DEFINE f == Recorded[r].fixture
               written == LoadedFiles[hand]
    <2>1. r \in Stored /\ f \in Served(Drafts)
      BY <1>1, <1>3, RecordedIsServed DEF Storable, Stored
    <2>2. /\ live'.fixtures = Append(live.fixtures, f)
          /\ live' = new(live'.fixtures)
      BY <1>3 DEF append_validated_fixture, new
    <2>3. cassette \in Seq(Stored) /\ live.fixtures \in Seq(Served(Drafts))
      BY DEF LiveBooks
    <2>4. written \in Seq(Served(Drafts))
      <3>1. hand \in Files /\ written # None
        BY <1>1 DEF LiveBooks
      <3>2. Written[hand] \in Seq(Drafts) /\ written = Loaded(Written[hand])
        BY <3>1 DEF Drafting, LoadedFiles
      <3> QED
        BY <3>1, <3>2, LoadedIsServed
    <2>5. Recs(cassette) \in Seq(Served(Drafts))
      BY <2>3, RecsAreServed
    <2>6. Recs(cassette') = Append(Recs(cassette), f)
      BY <1>3, <2>1, <2>3, RecsAppend
    <2>7. live.fixtures = written \o Recs(cassette)
      BY <1>1 DEF LiveBooks
    <2> HIDE DEF f, written
    <2>8. Append(written \o Recs(cassette), f) = written \o Append(Recs(cassette), f)
      <3> DEFINE S == Served(Drafts)
                 recs == Recs(cassette)
      <3>1. f \in S /\ written \in Seq(S) /\ recs \in Seq(S)
        BY <2>1, <2>4, <2>5
      <3> HIDE DEF S, recs
      <3>2. written \o recs \in Seq(S) /\ <<f>> \in Seq(S)
        BY <3>1, ConcatProperties
      <3>3. /\ Append(recs, f) = recs \o <<f>>
            /\ Append(written \o recs, f) = (written \o recs) \o <<f>>
        BY <3>1, <3>2, AppendIsConcat
      <3>4. (written \o recs) \o <<f>> = written \o (recs \o <<f>>)
        BY <3>1, <3>2, ConcatAssociative
      <3> QED
        BY <3>3, <3>4 DEF recs
    <2>9. live'.fixtures \in Seq(Served(Drafts)) /\ cassette' \in Seq(Stored)
      BY <1>3, <2>1, <2>2, <2>3, AppendProperties
    <2>10. live'.fixtures = written \o Recs(cassette')
      BY <2>1, <2>2, <2>4, <2>5, <2>6, <2>7, <2>8
    <2> QED
      BY <1>1, <2>2, <2>9, <2>10 DEF LiveBooks, written
  <1> QED
    BY <1>2, <1>3 DEF Persist

\* A reload starts again from the files and the cassette.
LEMMA ReloadKeeps ==
  ASSUME NEW Drafts, Drafting(Drafts), LiveBooks(Drafts), NEW file \in Files, Reload(file)
  PROVE  LiveBooks(Drafts)'
  <1>1. /\ recording /\ UNCHANGED <<states, cassette, forwarded, recording, draft>>
        /\ Swap(file, LoadedFiles[file], Recs(cassette))
    BY DEF Reload, Recs
  <1>2. CASE LoadedFiles[file] = None
    BY <1>1, <1>2 DEF Swap, LiveBooks
  <1>3. CASE LoadedFiles[file] # None
    <2>1. hand' = file /\ live' = new(LoadedFiles[file] \o Recs(cassette))
      BY <1>1, <1>3 DEF Swap
    <2>2. Written[file] \in Seq(Drafts) /\ LoadedFiles[file] = Loaded(Written[file])
      BY DEF Drafting, LoadedFiles
    <2>3. LoadedFiles[file] \in Seq(Served(Drafts))
      BY <1>3, <2>2, LoadedIsServed
    <2>4. Recs(cassette) \in Seq(Served(Drafts))
      BY RecsAreServed DEF LiveBooks
    <2>5. LoadedFiles[file] \o Recs(cassette) \in Seq(Served(Drafts))
      BY <2>3, <2>4, ConcatProperties
    <2>6. live'.fixtures = LoadedFiles[file] \o Recs(cassette) /\ live' = new(live'.fixtures)
      BY <2>1 DEF new
    <2> QED
      BY <1>1, <1>3, <2>1, <2>5, <2>6 DEF LiveBooks
  <1> QED
    BY <1>2, <1>3

\* A fixture built in code replaces the list, or is refused.
LEMMA BuilderKeeps ==
  ASSUME NEW Drafts, Drafting(Drafts), LiveBooks(Drafts), Call \/ SetFixtures
  PROVE  LiveBooks(Drafts)'
  <1>1. draft # None /\ draft.fixture \in Drafts /\ ~recording
    BY DEF LiveBooks, Call, SetFixtures
  <1>2. CASE Call
    <2>1. PICK f \in Calls(draft.fixture) \ {None} :
            draft' = [fixture |-> f, calls |-> draft.calls + 1]
      BY <1>2 DEF Call
    <2>2. draft'.fixture \in Drafts
      BY <1>1, <2>1 DEF Drafting
    <2> QED
      BY <1>1, <1>2, <2>2 DEF LiveBooks, Call
  <1>3. CASE SetFixtures
    <2> DEFINE one == <<draft.fixture>>
    <2>1. /\ draft' = None
          /\ UNCHANGED <<states, hand, cassette, forwarded, recording>>
          /\ live' = live \/ (validate(draft.fixture) # None /\ live' = new(Loaded(one)))
      BY <1>3 DEF SetFixtures
    <2>2. CASE live' = live
      BY <1>1, <2>1, <2>2 DEF LiveBooks
    <2>3. CASE validate(draft.fixture) # None /\ live' = new(Loaded(one))
      <3>1. one \in Seq(Drafts) /\ \A i \in DOMAIN one : one[i] = draft.fixture
        BY <1>1
      <3> HIDE DEF one
      <3>2. Loaded(one) = [i \in DOMAIN one |-> Compiled(validate(one[i]))]
        BY <2>3, <3>1 DEF Loaded
      <3>3. \A i \in DOMAIN one : Compiled(validate(one[i])) \in Served(Drafts)
        BY <1>1, <2>3, <3>1 DEF validate, Served
      <3>4. DOMAIN one = 1 .. Len(one) /\ Len(one) \in Nat
        BY <3>1, LenProperties
      <3>5. Loaded(one) \in Seq(Served(Drafts))
        <4>1. Loaded(one) \in [1 .. Len(one) -> Served(Drafts)]
          BY <3>2, <3>3, <3>4
        <4> QED
          BY <3>4, <4>1
      <3>6. live'.fixtures = Loaded(one) /\ live' = new(live'.fixtures)
        BY <2>3 DEF new
      <3> QED
        BY <1>1, <2>1, <3>5, <3>6 DEF LiveBooks
    <2> QED
      BY <2>1, <2>2, <2>3
  <1> QED
    BY <1>2, <1>3

\* Every step keeps the live set to fixtures made of the drafts.
LEMMA StepBooks ==
  ASSUME NEW Drafts, Drafting(Drafts), LiveBooks(Drafts), [Next]_vars
  PROVE  LiveBooks(Drafts)'
  <1>1. CASE Call \/ SetFixtures
    BY <1>1, BuilderKeeps
  <1>2. CASE \E file \in Files : Reload(file)
    BY <1>2, ReloadKeeps
  <1>3. CASE \E r \in Requests : Persist(r)
    BY <1>3, PersistKeeps
  <1>4. CASE \/ Reset \/ UNCHANGED vars
             \/ \E r \in Requests : Serve(r)
    <2>1. UNCHANGED <<live, hand, cassette, forwarded, recording, draft>>
      BY <1>4 DEF Reset, Serve, vars
    <2> QED
      BY <2>1 DEF LiveBooks
  <1>5. CASE \E r \in Requests : Forward(r)
    BY <1>5 DEF LiveBooks, Forward, Missed
  <1> QED
    BY <1>1, <1>2, <1>3, <1>4, <1>5 DEF Next

\* The live set is the sorted list of what the files and the cassette hold,
\* or of the fixture built in code, whatever was reloaded or recorded.
THEOREM SpecLive ==
  ASSUME NEW CONSTANT Drafts, Drafting(Drafts)
  PROVE  Spec => []LiveBooks(Drafts)
  <1>1. Init => LiveBooks(Drafts)
    BY InitBooks
  <1>2. LiveBooks(Drafts) /\ [Next]_vars => LiveBooks(Drafts)'
    BY StepBooks
  <1> QED
    BY <1>1, <1>2, PTL DEF Spec

\* What is selected leads all that matches.
LEMMA SelectedLeads ==
  ASSUME NEW Drafts, Drafting(Drafts), LiveBooks(Drafts), NEW r \in LlmRequests
  PROVE  /\ Servable(live.fixtures)
         /\ Matching(live.fixtures, r, Seen[r]) \in SUBSET DOMAIN live.fixtures
         /\ FirstOf(live.fixtures, Matching(live.fixtures, r, Seen[r]), Select(r))
         /\ Select(r) = BestOf(live.fixtures, Matching(live.fixtures, r, Seen[r]))
  <1> DEFINE m == Matched(r, Seen[r])
  <1>1. Servable(live.fixtures)
    BY ServedIsServable DEF LiveBooks
  <1>2. Select(r) = find_match(new(live.fixtures), m, states)
    BY DEF Select, LiveBooks
  <1>3. FirstOf(live.fixtures, Hits(live.fixtures, m, states), Select(r))
    BY <1>1, <1>2, FindMatchFindsFirst
  <1>4. Matching(live.fixtures, r, Seen[r]) = Hits(live.fixtures, m, states)
    BY DEF Matching, Hits
  <1>5. Hits(live.fixtures, m, states) \in SUBSET DOMAIN live.fixtures
    BY DEF Hits
  <1> QED
    BY <1>1, <1>3, <1>4, <1>5, FirstIsBest

\* Every request is answered by the best of the whole list: a matching fixture
\* that is no catch-all if there is one, of the highest priority, the earliest
\* of those (FixtureSet::new and find_match), for any fixtures and any history
\* of builder calls, reloads and recordings.
THEOREM SelectsTheBest ==
  ASSUME NEW CONSTANT Drafts, Drafting(Drafts)
  PROVE  Spec => []SelectsBest
  <1>1. LiveBooks(Drafts) => SelectsBest
    BY SelectedLeads DEF SelectsBest
  <1> QED
    BY <1>1, SpecLive, PTL

-----------------------------------------------------------------------------
(* Recordings and hand-written fixtures.                                   *)

\* A recording is a fixture of the lowest priority that pins the provider, the
\* message and the model of its request, and no scenario.
LEMMA RecordingIs ==
  ASSUME NEW r \in LlmRequests
  PROVE  LET f == Recording(Seen[r])
             ctx == Seen[r].ctx
             told == [NoTests EXCEPT !.user_message = Substring(ctx.message)]
             rule == [told EXCEPT !.model = Substring(ctx.model)]
         IN  /\ DOMAIN f = DOMAIN NewFixture
             /\ f.priority = -1 /\ f.catch_all = FALSE
             /\ f.provider = Seen[r].provider /\ f.scenario = None
             /\ f.match_rule = rule
             /\ None # rule /\ None # rule.user_message /\ None # rule.model
  <1> DEFINE q == Seen[r]
             told == match_user_message(NewFixture, q.ctx.message)
             prompt == match_model(told, q.ctx.model)
             sided == for_provider(prompt, q.provider)
             pinned == with_priority(sided, RECORDED_PRIORITY)
             fields == DOMAIN NewFixture
             said == [NoTests EXCEPT !.user_message = Substring(q.ctx.message)]
             rule == [said EXCEPT !.model = Substring(q.ctx.model)]
  <1>1. fields = {"match_rule", "provider", "response", "error", "refusal", "failure",
                  "streaming", "scenario", "priority", "catch_all"}
    BY DEF NewFixture
  <1>2. /\ DOMAIN told = fields
        /\ told.match_rule = said
        /\ told.scenario = None /\ told.catch_all = FALSE
    BY <1>1 DEF match_user_message, Rule, NewFixture
  <1>3. /\ None # told.match_rule /\ None # prompt.match_rule
        /\ None # prompt.match_rule.user_message /\ None # prompt.match_rule.model
    BY TextsAssumption DEF told, prompt
  <1> HIDE DEF told, fields, said
  <1>4. Rule(told) = said
    BY <1>2, <1>3 DEF Rule
  <1>5. /\ DOMAIN prompt = fields
        /\ prompt.match_rule = rule
        /\ prompt.scenario = None /\ prompt.catch_all = FALSE
    BY <1>1, <1>2, <1>4 DEF match_model
  <1> HIDE DEF prompt, rule
  <1>6. /\ DOMAIN sided = fields
        /\ sided.match_rule = rule /\ sided.provider = q.provider
        /\ sided.scenario = None /\ sided.catch_all = FALSE
    BY <1>1, <1>5 DEF for_provider
  <1> HIDE DEF sided
  <1>7. /\ DOMAIN pinned = fields
        /\ pinned.match_rule = rule /\ pinned.provider = q.provider
        /\ pinned.scenario = None /\ pinned.catch_all = FALSE
        /\ pinned.priority = -1
    BY <1>1, <1>6 DEF with_priority, RECORDED_PRIORITY
  <1> HIDE DEF pinned
  <1>8. PICK response : Recording(q) = [pinned EXCEPT !.response = response]
    BY DEF Recording, respond_with_content, respond_with_embedding, pinned, sided, prompt, told
  <1> HIDE DEF q
  <1>9. /\ DOMAIN Recording(q) = fields
        /\ Recording(q).match_rule = rule /\ Recording(q).provider = q.provider
        /\ Recording(q).scenario = None /\ Recording(q).catch_all = FALSE
        /\ Recording(q).priority = -1
    BY <1>1, <1>7, <1>8
  <1>10. None # rule /\ None # rule.user_message /\ None # rule.model
    BY <1>3, <1>5
  <1> QED
    BY <1>9, <1>10 DEF rule, said, fields, q

\* A request that gets to the matcher is matched for its own provider and body.
LEMMA ContextIsOwn ==
  ASSUME NEW r \in LlmRequests
  PROVE  /\ r \in Requests /\ Seen[r].ctx # None
         /\ Seen[r].ctx.provider = Seen[r].provider /\ Seen[r].ctx.body = Seen[r].body
  <1> DEFINE q == Sent[r]
             provider == Provider(q)
             info == extract_request_info(q)
             good == info.ok /\ StreamValid(q)
             taken == Context(info.message, info.model, provider,
                              header_map_to_lowercase(q.headers), q.body)
  <1>1. r \in Requests /\ Seen[r].ctx # None
    BY DEF LlmRequests
  <1>2. Seen[r] = Taken(q, provider, info)
    BY <1>1 DEF Seen, Read
  <1>3. Seen[r].ctx = IF good THEN taken ELSE None
    BY <1>2 DEF Taken
  <1>4. Seen[r].provider = provider /\ Seen[r].body = q.body
    BY <1>2 DEF Taken
  <1>5. taken.provider = provider /\ taken.body = q.body
    BY DEF Context
  <1> HIDE DEF good, taken
  <1>6. Seen[r].ctx = taken
    BY <1>1, <1>3, Zenon
  <1> QED
    BY <1>1, <1>4, <1>5, <1>6

\* What is stored of a recording answers the requests whose message and model
\* its own occur in, at its provider.
LEMMA StoredIs ==
  ASSUME NEW Drafts, Drafting(Drafts), NEW r \in Stored
  PROVE  LET f == Recorded[r].fixture
         IN  /\ f \in Served(Drafts)
             /\ f.priority = -1 /\ f.catch_all = FALSE
             /\ \A s \in LlmRequests : \A sc :
                  fixture_matches(f, Matched(s, Seen[s]), sc)
                    <=> InRequest(Recorded[r], Seen[s].ctx)
  <1> DEFINE f == Recorded[r].fixture
             draft0 == Recording(Seen[r])
             folded == Folded(draft0)
             ctx == Seen[r].ctx
             said == [NoTests EXCEPT !.user_message = Substring(ctx.message)]
             rule == [said EXCEPT !.model = Substring(ctx.model)]
             tests == folded.match_rule
  <1>1. r \in LlmRequests /\ f = Compiled(folded) /\ f \in Served(Drafts)
    BY RecordedIsServed DEF Stored
  <1> HIDE DEF f, folded, tests
  <1>2. /\ DOMAIN draft0 = DOMAIN NewFixture
        /\ draft0.priority = -1 /\ draft0.catch_all = FALSE
        /\ draft0.provider = Seen[r].provider /\ draft0.scenario = None
        /\ draft0.match_rule = rule
        /\ None # rule /\ None # rule.user_message /\ None # rule.model
    BY <1>1, RecordingIs, Zenon
  <1>3. {"match_rule", "error", "scenario"} \subseteq DOMAIN NewFixture
    BY DEF NewFixture
  <1>4. f.priority = -1 /\ f.catch_all = FALSE /\ f.provider = Seen[r].provider
    BY <1>1, <1>2, CompiledKeeps DEF folded
  <1> HIDE DEF draft0
  <1>5. /\ rule.headers = <<>> /\ DOMAIN rule = DOMAIN NoTests
        /\ rule.user_message = Substring(ctx.message) /\ rule.model = Substring(ctx.model)
        /\ DOMAIN rule.headers = {} /\ DOMAIN rule.metadata = {}
        /\ rule.system_prompt = None /\ rule.temperature = None
        /\ rule.tool_schema = None /\ rule.body_jsonpath = None
    <2> DEFINE a == Substring(ctx.message)
               b == Substring(ctx.model)
    <2> HIDE DEF a, b
    <2>1. said = [ user_message |-> a, model |-> None, headers |-> <<>>,
                   system_prompt |-> None, temperature |-> None, metadata |-> <<>>,
                   tool_schema |-> None, body_jsonpath |-> None ]
      BY DEF NoTests, said, a
    <2>2. rule = [said EXCEPT !.model = b]
      BY DEF rule, b
    <2> HIDE DEF rule, said
    <2>3. rule = [ user_message |-> a, model |-> b, headers |-> <<>>,
                   system_prompt |-> None, temperature |-> None, metadata |-> <<>>,
                   tool_schema |-> None, body_jsonpath |-> None ]
      BY <2>1, <2>2
    <2> QED
      BY <2>3 DEF NoTests, a, b
  <1>6. "headers" \in DOMAIN rule
    BY <1>5 DEF NoTests
  <1>7. FoldTests(<<>>) = <<>> /\ rule = [k \in DOMAIN rule |-> rule[k]]
    <2>1. rule = [k \in DOMAIN rule |-> rule[k]]
      <3> HIDE DEF said
      <3> QED
        OBVIOUS
    <2>2. { Lower[name] : name \in DOMAIN <<>> } = 1 .. 0
      OBVIOUS
    <2>3. FoldTests(<<>>) \in [1 .. 0 -> {}]
      BY <2>2 DEF FoldTests
    <2>4. FoldTests(<<>>) \in Seq({}) /\ Len(FoldTests(<<>>)) = 0
      BY <2>3
    <2> QED
      BY <2>1, <2>4, EmptySeq
  <1> HIDE DEF rule
  <1>8. [rule EXCEPT !.headers = FoldTests(rule.headers)] = rule
    <2> DEFINE h == FoldTests(rule.headers)
    <2>1. h = rule.headers
      BY <1>5, <1>7
    <2> HIDE DEF h
    <2>2. [rule EXCEPT !.headers = h] = rule
      BY <1>6, <1>7, <2>1
    <2> QED
      BY <2>2 DEF h
  <1>9. folded.scenario = None /\ folded.match_rule = [rule EXCEPT !.headers = FoldTests(rule.headers)]
    <2>1. folded.match_rule = FoldRule(rule) /\ folded.scenario = None
      BY <1>2, <1>3 DEF Folded, folded
    <2>2. FoldRule(rule) = [rule EXCEPT !.headers = FoldTests(rule.headers)]
      BY <1>2 DEF FoldRule
    <2> QED
      BY <2>1, <2>2
  <1>10. tests = rule
    BY <1>8, <1>9 DEF tests
  <1>11. f.required_state = None /\ f.prompts = { s \in Requests : Passes(folded, Seen[s].ctx) }
    BY <1>1, <1>9 DEF Compiled
  <1>12. ASSUME NEW s \in LlmRequests, NEW sc
         PROVE  fixture_matches(f, Matched(s, Seen[s]), sc)
                  <=> InRequest(Recorded[r], Seen[s].ctx)
    <2> DEFINE own == Seen[s].ctx
    <2>1. s \in Requests /\ own # None /\ own.provider = Seen[s].provider
          /\ Recorded[r].ctx = ctx /\ ctx.provider = Seen[r].provider
      BY <1>1, ContextIsOwn DEF Recorded, Entry
    <2>2. None # own.model
      BY TextsAssumption
    <2>3. f.provider # None
      BY <1>1, <1>4, TextsAssumption
    <2>4. fixture_matches(f, Matched(s, Seen[s]), sc)
            <=> f.provider \in {None, own.provider} /\ rule_matches(rule, own)
      BY <1>2, <1>10, <1>11, <2>1 DEF fixture_matches, Matched, Passes, tests
    <2>5. rule_matches(rule, own) <=> /\ OccursIn(ctx.message, own.message)
                                      /\ OccursIn(ctx.model, own.model)
      BY <1>2, <1>5, <2>2 DEF rule_matches, string_matches, Substring
    <2> QED
      BY <1>4, <2>1, <2>3, <2>4, <2>5 DEF InRequest
  <1> QED
    BY <1>1, <1>4, <1>12 DEF f

\* The live set of a recording server: what was written, then the recordings.
LEMMA LiveHalves ==
  ASSUME NEW Drafts, Drafting(Drafts), LiveBooks(Drafts), hand # None
  PROVE  LET fs == live.fixtures
             L  == LoadedFiles[hand]
         IN  /\ Len(L) \in Nat /\ Len(cassette) \in Nat /\ DOMAIN L = 1 .. Len(L)
             /\ DOMAIN fs = 1 .. Len(L) + Len(cassette)
             /\ \A i \in DOMAIN L : fs[i] = L[i] /\ i \in DOMAIN fs
             /\ \A k \in 1 .. Len(cassette) :
                  /\ cassette[k] \in Stored
                  /\ fs[Len(L) + k] = Recorded[cassette[k]].fixture
             /\ \A i \in DOMAIN fs \ DOMAIN L :
                  i - Len(L) \in 1 .. Len(cassette) /\ Len(L) + (i - Len(L)) = i
  <1> DEFINE L == LoadedFiles[hand]
             R == Recs(cassette)
             fs == live.fixtures
             c == cassette
             S == Served(Drafts)
  <1>1. recording /\ hand \in Files /\ L # None /\ fs = L \o R /\ c \in Seq(Stored)
    BY DEF LiveBooks
  <1>2. L \in Seq(S)
    <2>1. Written[hand] \in Seq(Drafts) /\ L = Loaded(Written[hand])
      BY <1>1 DEF Drafting, LoadedFiles
    <2> QED
      BY <1>1, <2>1, LoadedIsServed
  <1>3. R \in Seq(S) /\ Len(R) = Len(c)
    BY <1>1, RecsAreServed
  <1>4. Len(c) \in Nat /\ DOMAIN c = 1 .. Len(c) /\ \A k \in 1 .. Len(c) : c[k] \in Stored
    BY <1>1, LenProperties, ElementOfSeq
  <1>5. \A k \in 1 .. Len(c) : R[k] = Recorded[c[k]].fixture
    BY <1>4 DEF Recs
  <1>6. Len(L) \in Nat /\ DOMAIN L = 1 .. Len(L)
    BY <1>2, LenProperties
  <1> HIDE DEF L, R, fs, c, S
  <1>7. /\ fs \in Seq(S) /\ Len(fs) = Len(L) + Len(R)
        /\ \A i \in 1 .. Len(L) + Len(R) : fs[i] = IF i <= Len(L) THEN L[i] ELSE R[i - Len(L)]
    BY <1>1, <1>2, <1>3, ConcatProperties
  <1>8. DOMAIN fs = 1 .. Len(L) + Len(c)
    BY <1>3, <1>7, LenProperties
  <1>9. \A i \in DOMAIN L : fs[i] = L[i] /\ i \in DOMAIN fs
    BY <1>3, <1>4, <1>6, <1>7, <1>8
  <1>10. ASSUME NEW k \in 1 .. Len(c)
         PROVE  fs[Len(L) + k] = Recorded[c[k]].fixture
    <2>1. /\ Len(L) + k \in 1 .. Len(L) + Len(R) /\ ~(Len(L) + k <= Len(L))
          /\ (Len(L) + k) - Len(L) = k
      BY <1>3, <1>4, <1>6
    <2> QED
      BY <1>5, <1>7, <2>1
  <1>11. \A i \in DOMAIN fs \ DOMAIN L : i - Len(L) \in 1 .. Len(c) /\ Len(L) + (i - Len(L)) = i
    BY <1>4, <1>6, <1>8
  <1> QED
    BY <1>4, <1>6, <1>8, <1>9, <1>10, <1>11 DEF L, fs, c

\* A hand-written fixture of the default priority or a higher one that is no
\* catch-all is never passed over for a recording (docs/recording.md: "Override
\* a recording by writing a normal fixture"), for any files and any recordings.
THEOREM RecordingsAreOverridden ==
  ASSUME NEW CONSTANT Drafts, Drafting(Drafts)
  PROVE  Spec => []OverrideWins
  <1>1. LiveBooks(Drafts) => OverrideWins
    <2> SUFFICES ASSUME LiveBooks(Drafts), hand # None, NEW r \in LlmRequests,
                        NEW i \in Matching(LoadedFiles[hand], r, Seen[r]),
                        ~LoadedFiles[hand][i].catch_all,
                        Priority(LoadedFiles[hand][i]) >= 0
                 PROVE  Select(r) \in Range(LoadedFiles[hand])
      BY DEF OverrideWins, Override
    <2> DEFINE L == LoadedFiles[hand]
               fs == live.fixtures
               m == Matching(fs, r, Seen[r])
    <2>1. i \in DOMAIN L /\ fixture_matches(L[i], Matched(r, Seen[r]), states)
      BY DEF Matching
    <2>2. fs[i] = L[i] /\ i \in DOMAIN fs
      BY <2>1, LiveHalves
    <2>3. i \in m
      BY <2>1, <2>2 DEF Matching
    <2>4. m \in SUBSET DOMAIN fs /\ FirstOf(fs, m, Select(r)) /\ Servable(fs)
      BY SelectedLeads
    <2>5. PICK j \in m : Select(r) = fs[j] /\ Leads(fs, j, i)
      BY <2>3, <2>4 DEF FirstOf
    <2>6. CASE j \in DOMAIN L
      <3>1. Select(r) = L[j]
        BY <2>5, <2>6, LiveHalves
      <3> QED
        BY <2>6, <3>1 DEF Range
    <2>7. CASE j \notin DOMAIN L
      <3> DEFINE k == j - Len(L)
      <3>1. j \in DOMAIN fs \ DOMAIN L
        BY <2>4, <2>7
      <3>2. k \in 1 .. Len(cassette) /\ Len(L) + k = j
        BY <3>1, LiveHalves
      <3>3. cassette[k] \in Stored /\ fs[j] = Recorded[cassette[k]].fixture
        BY <3>2, LiveHalves
      <3>4. fs[j].catch_all = FALSE /\ fs[j].priority = -1
        BY <3>3, StoredIs
      <3>5. fs[i].catch_all = FALSE /\ Priority(fs[i]) \in Int /\ Priority(fs[i]) >= 0
        BY <2>2, <2>4 DEF Servable, Sortable
      <3>6. Priority(fs[j]) = -1
        BY <3>4, NoneAssumption DEF Priority
      <3>7. Ahead(fs, j, i)
        BY <2>5, <3>4, <3>5 DEF Leads
      <3> QED
        BY <3>5, <3>6, <3>7 DEF Ahead
    <2> QED
      BY <2>6, <2>7
  <1> QED
    BY <1>1, SpecLive, PTL

\* A position that leads a set, and is led by a member of it, is that member.
LEMMA LeaderIsUnique ==
  ASSUME NEW fs, Servable(fs), NEW m \in SUBSET DOMAIN fs, NEW i \in m, NEW j \in m,
         \A k \in m : Leads(fs, i, k), \A k \in m : Leads(fs, j, k)
  PROVE  i = j
  <1>1. Leads(fs, i, j) /\ Leads(fs, j, i)
    OBVIOUS
  <1>2. /\ i \in Int /\ j \in Int /\ Priority(fs[i]) \in Int /\ Priority(fs[j]) \in Int
        /\ fs[i].catch_all \in BOOLEAN /\ fs[j].catch_all \in BOOLEAN
    BY DEF Servable, Sortable
  <1>3. Ahead(fs, i, j) /\ Ahead(fs, j, i)
    BY <1>1, <1>2 DEF Leads
  <1> QED
    BY <1>2, <1>3 DEF Ahead

\* A recording that is spliced in takes over no request that a fixture above
\* the recordings, or an earlier recording, answered
\* (append_validated_fixture), for any fixtures and any recordings.
THEOREM SplicesKeepAnswers ==
  ASSUME NEW CONSTANT Drafts, Drafting(Drafts)
  PROVE  Spec => SpliceKeepsAnswers
  <1> DEFINE Kept == cassette' # cassette =>
                       \A r \in LlmRequests : Settled(Select(r)) => Select(r)' = Select(r)
  <1>1. LiveBooks(Drafts) /\ LiveBooks(Drafts)' /\ [Next]_vars => Kept
    <2> SUFFICES ASSUME LiveBooks(Drafts), LiveBooks(Drafts)', [Next]_vars, cassette' # cassette,
                        NEW r \in LlmRequests, Settled(Select(r))
                 PROVE  Select(r)' = Select(r)
      OBVIOUS
    <2> DEFINE fs == live.fixtures
               gs == live'.fixtures
               q == Matched(r, Seen[r])
               m == Hits(fs, q, states)
               n == Hits(gs, q, states)
    <2>1. PICK s : Persist(s) /\ Storable(Recorded, s) /\ states' = states
                   /\ live' = append_validated_fixture(live, Recorded[s].fixture)
      BY DEF Next, vars, Call, SetFixtures, Reset, Reload, Serve, Forward, Persist
    <2> DEFINE f == Recorded[s].fixture
    <2>2. s \in Stored
      BY <2>1 DEF Stored, Storable, Persist, LiveBooks
    <2>3. f.priority = -1 /\ f.catch_all = FALSE /\ f \in Served(Drafts)
      BY <2>2, StoredIs
    <2>4. /\ fs \in Seq(Served(Drafts)) /\ live = new(fs)
          /\ gs \in Seq(Served(Drafts)) /\ live' = new(gs)
          /\ gs = Append(fs, f)
      BY <2>1 DEF LiveBooks, append_validated_fixture, new
    <2>5. Servable(fs) /\ Servable(gs)
      BY <2>4, ServedIsServable
    <2>6. Select(r) = find_match(new(fs), q, states)
      BY <2>4 DEF Select
    <2>7. Select(r)' = find_match(new(gs), q, states)
      BY <2>1, <2>4 DEF Select
    <2> HIDE DEF f, q
    <2>8. /\ Len(fs) \in Nat /\ DOMAIN fs = 1 .. Len(fs)
          /\ DOMAIN gs = 1 .. Len(fs) + 1
          /\ gs[Len(fs) + 1] = f
          /\ \A i \in 1 .. Len(fs) : gs[i] = fs[i]
      <3> DEFINE S == Served(Drafts)
      <3> HIDE DEF S
      <3>1. fs \in Seq(S) /\ f \in S /\ gs = Append(fs, f)
        BY <2>3, <2>4 DEF S
      <3> QED
        BY <3>1, AppendProperties, LenProperties
    <2>9. FirstOf(fs, m, Select(r)) /\ FirstOf(gs, n, Select(r)')
      BY <2>5, <2>6, <2>7, FindMatchFindsFirst
    <2>10. m \in SUBSET DOMAIN fs /\ n \in SUBSET DOMAIN gs
           /\ \A i \in DOMAIN fs : i \in n <=> i \in m
      BY <2>8 DEF Hits
    <2>11. PICK i \in m : Select(r) = fs[i] /\ \A j \in m : Leads(fs, i, j)
      BY <2>9 DEF FirstOf, Settled
    <2> HIDE DEF m, n, fs, gs
    <2>12. i \in DOMAIN fs /\ i \in n /\ gs[i] = Select(r)
      BY <2>8, <2>10, <2>11
    <2>13. gs[i].catch_all = FALSE /\ Priority(gs[i]) >= -1 /\ Priority(gs[i]) \in Int
      BY <2>5, <2>8, <2>10, <2>12 DEF Settled, Servable, Sortable, RECORDED_PRIORITY
    <2>14. ASSUME NEW j \in n
           PROVE  Leads(gs, i, j)
      <3>1. CASE j \in DOMAIN fs
        <4>1. Leads(fs, i, j)
          BY <2>10, <2>11, <3>1
        <4>2. gs[i] = fs[i] /\ gs[j] = fs[j]
          BY <2>8, <2>12, <3>1
        <4>3. Ahead(fs, i, j) => Ahead(gs, i, j)
          BY <4>2 DEF Ahead
        <4>4. CASE gs[j].catch_all = TRUE
          BY <2>13, <4>4 DEF Leads
        <4>5. CASE gs[j].catch_all = FALSE
          <5>1. fs[i].catch_all = FALSE /\ fs[j].catch_all = FALSE
            BY <2>13, <4>2, <4>5
          <5>2. Ahead(fs, i, j)
            BY <4>1, <5>1 DEF Leads
          <5> QED
            BY <2>13, <4>3, <4>5, <5>2 DEF Leads
        <4>6. gs[j].catch_all \in BOOLEAN
          BY <2>5, <2>8, <2>10 DEF Servable
        <4> QED
          BY <4>4, <4>5, <4>6
      <3>2. CASE j \notin DOMAIN fs
        <4>1. j = Len(fs) + 1 /\ i \in 1 .. Len(fs)
          BY <2>8, <2>10, <2>12, <3>2
        <4>2. gs[j] = f /\ i <= j
          BY <2>8, <4>1
        <4>3. gs[j].catch_all = FALSE /\ Priority(gs[j]) = -1
          BY <2>3, <4>2, NoneAssumption DEF Priority
        <4>4. Ahead(gs, i, j)
          BY <2>13, <4>2, <4>3 DEF Ahead
        <4> QED
          BY <2>13, <4>3, <4>4 DEF Leads
      <3> QED
        BY <3>1, <3>2
    <2>15. PICK k \in n : Select(r)' = gs[k] /\ \A j \in n : Leads(gs, k, j)
      BY <2>9, <2>12 DEF FirstOf
    <2>16. k = i
      BY <2>5, <2>10, <2>12, <2>14, <2>15, LeaderIsUnique
    <2> QED
      BY <2>12, <2>15, <2>16
  <1> QED
    BY <1>1, SpecLive, PTL DEF Spec, SpliceKeepsAnswers

-----------------------------------------------------------------------------
(* The two handlers.                                                       *)

\* Two requests of the same context match the same served fixtures.
LEMMA SameContextSameMatches ==
  ASSUME NEW Drafts, Drafting(Drafts), LiveBooks(Drafts),
         NEW e \in LlmRequests, NEW c \in LlmRequests, Seen[e].ctx = Seen[c].ctx
  PROVE  Select(e) = Select(c)
  <1> DEFINE fs == live.fixtures
  <1>1. /\ e \in Requests /\ c \in Requests /\ Seen[e].provider = Seen[c].provider
    BY ContextIsOwn
  <1>2. ASSUME NEW i \in DOMAIN fs
        PROVE  fixture_matches(fs[i], Matched(e, Seen[e]), states)
                 <=> fixture_matches(fs[i], Matched(c, Seen[c]), states)
    <2>1. fs[i] \in Served(Drafts)
      <3> DEFINE S == Served(Drafts)
      <3> HIDE DEF S
      <3>1. fs \in Seq(S)
        BY DEF LiveBooks, S
      <3>2. fs[i] \in S
        BY <3>1, ElementOfSeq, LenProperties
      <3> QED
        BY <3>2 DEF S
    <2>2. PICK f : fs[i] = Compiled(f)
      BY <2>1 DEF Served
    <2>3. fs[i].prompts = { r \in Requests : Passes(f, Seen[r].ctx) }
      BY <2>2 DEF Compiled
    <2>4. e \in fs[i].prompts <=> c \in fs[i].prompts
      BY <1>1, <2>3
    <2> QED
      BY <1>1, <2>4 DEF fixture_matches, Matched
  <1>3. Matching(fs, e, Seen[e]) = Matching(fs, c, Seen[c])
    BY <1>2 DEF Matching
  <1> QED
    BY <1>3, SelectedLeads

\* The embeddings handler treats a request as the chat handler would, except
\* that it knows no refusal of a stream (embeddings::handle's own critical
\* section against handle_request), for any fixtures and any requests.
THEOREM EmbeddingsFollowsChat ==
  ASSUME NEW CONSTANT Drafts, Drafting(Drafts)
  PROVE  Spec => []EmbeddingsMirrorsChat
  <1>1. LiveBooks(Drafts) => EmbeddingsMirrorsChat
    <2> SUFFICES ASSUME LiveBooks(Drafts), NEW e \in LlmRequests, NEW c \in LlmRequests,
                        SameRequest(Seen[e], Seen[c])
                 PROVE  Mirrors(ReplyTo(e), ReplyTo(c))
      BY DEF EmbeddingsMirrorsChat
    <2> DEFINE f == Select(e)
               q == Seen[c]
    <2>1. /\ Seen[e].endpoint = "embeddings" /\ q.endpoint = "chat"
          /\ Seen[e].ctx = q.ctx /\ q.ctx # None
      BY ContextIsOwn DEF SameRequest
    <2>2. Select(c) = f
      BY <2>1, SameContextSameMatches
    <2>3. ReplyTo(e) = handle_embeddings(Seen[e], f)
      BY <2>1 DEF ReplyTo, Answer
    <2>4. ReplyTo(c) = handle_request(q, f)
      BY <2>1, <2>2 DEF ReplyTo, Answer
    <2> HIDE DEF f, q
    <2>5. /\ handle_embeddings(Seen[e], f).fixture = f
          /\ handle_embeddings(Seen[e], f).captured = EmbeddingsStatus(f)
          /\ handle_embeddings(Seen[e], f).states = Advance(states, f)
      BY DEF handle_embeddings, EmbeddingsReply, Reply, Advance
    <2>6. /\ handle_request(q, f).fixture = f
          /\ handle_request(q, f).captured = IF f = None THEN 404 ELSE FixtureStatus(f, q)
          /\ handle_request(q, f).states = Advance(states, f)
      BY DEF handle_request, Reply, Advance
    <2>7. \/ EmbeddingsStatus(f) = IF f = None THEN 404 ELSE FixtureStatus(f, q)
          \/ f # None /\ f.refusal /\ FixtureStatus(f, q) = 400
      BY DEF EmbeddingsStatus, FixtureStatus
    <2> QED
      BY <2>3, <2>4, <2>5, <2>6, <2>7 DEF Mirrors
  <1> QED
    BY <1>1, SpecLive, PTL

-----------------------------------------------------------------------------
(* What has been recorded.                                                 *)

\* A text occurs in itself.
LEMMA OccursInItself ==
  ASSUME NEW S, NEW t \in Seq(S)
  PROVE  OccursIn(t, t)
  <1>1. Len(t) \in Nat /\ SubSeq(t, 1, Len(t)) = t
    BY LenProperties, SubSeqFull
  <1>2. 0 \in 0 .. (Len(t) - Len(t)) /\ 0 + 1 = 1 /\ 0 + Len(t) = Len(t)
    BY <1>1
  <1> QED
    BY <1>1, <1>2 DEF OccursIn

\* A request has in it what a request of the same key says.
LEMMA SameKeyIsInRequest ==
  ASSUME NEW r \in LlmRequests, NEW s \in LlmRequests, Recorded[s].key = Recorded[r].key
  PROVE  InRequest(Recorded[s], Seen[r].ctx)
  <1>1. /\ Seen[s].provider = Seen[r].provider
        /\ Seen[s].ctx.model = Seen[r].ctx.model
        /\ Seen[s].ctx.message = Seen[r].ctx.message
    BY DEF Recorded, Entry, Key
  <1>2. Recorded[s].ctx = Seen[s].ctx
    BY DEF Recorded, Entry
  <1>3. Seen[s].ctx.provider = Seen[r].ctx.provider
    BY <1>1, ContextIsOwn
  <1>4. OccursIn(Seen[r].ctx.message, Seen[r].ctx.message)
    <2>1. Seen[r].ctx.message \in Seq(Range(Seen[r].ctx.message))
      BY TextsAssumption
    <2> QED
      BY <2>1, OccursInItself
  <1>5. OccursIn(Seen[r].ctx.model, Seen[r].ctx.model)
    <2>1. Seen[r].ctx.model \in Seq(Range(Seen[r].ctx.model))
      BY TextsAssumption
    <2> QED
      BY <2>1, OccursInItself
  <1> QED
    BY <1>1, <1>2, <1>3, <1>4, <1>5 DEF InRequest

\* Once the key of a request is in the cassette, a hand-written fixture answers
\* it or the earliest recording that is in it does, through every splice and
\* reload (recorder.rs, persist), for any files, requests and recordings.
THEOREM RecordedStaysAnswered ==
  ASSUME NEW CONSTANT Drafts, Drafting(Drafts)
  PROVE  Spec => []RecordedIsAnswered
  <1>1. LiveBooks(Drafts) => RecordedIsAnswered
    <2> DEFINE entries == [i \in DOMAIN cassette |-> Recorded[cassette[i]]]
    <2> SUFFICES ASSUME LiveBooks(Drafts), hand # None, NEW r \in LlmRequests,
                        NEW e \in Range(entries), e.key = Recorded[r].key
                 PROVE  \/ Select(r) # None /\ Select(r) \in Range(LoadedFiles[hand])
                        \/ Select(r) # None /\ Replayed(Select(r), Recorded[r].ctx, entries)
      BY DEF RecordedIsAnswered, AnsweredIfRecorded
    <2> DEFINE L == LoadedFiles[hand]
               fs == live.fixtures
               n == Len(cassette)
               own == Seen[r].ctx
               m == Matching(fs, r, Seen[r])
               hits == { i \in DOMAIN entries : InRequest(entries[i], own) }
    <2>1. /\ n \in Nat /\ Len(L) \in Nat
          /\ DOMAIN cassette = 1 .. n /\ DOMAIN L = 1 .. Len(L)
          /\ DOMAIN fs = 1 .. Len(L) + n
      BY LiveHalves, LenProperties DEF LiveBooks
    <2>2. ASSUME NEW k \in 1 .. n
          PROVE  /\ entries[k] = Recorded[cassette[k]]
                 /\ fs[Len(L) + k] = entries[k].fixture
                 /\ cassette[k] \in Stored /\ cassette[k] \in LlmRequests
                 /\ Len(L) + k \in m <=> k \in hits
      <3>1. entries[k] = Recorded[cassette[k]]
        BY <2>1
      <3>2. /\ cassette[k] \in Stored /\ cassette[k] \in LlmRequests
            /\ fs[Len(L) + k] = Recorded[cassette[k]].fixture
        BY LiveHalves DEF Stored
      <3>3. Len(L) + k \in DOMAIN fs
        BY <2>1
      <3>4. Len(L) + k \in m <=> fixture_matches(fs[Len(L) + k], Matched(r, Seen[r]), states)
        BY <3>3 DEF Matching
      <3>5. k \in hits <=> InRequest(Recorded[cassette[k]], own)
        BY <2>1, <3>1
      <3>6. fixture_matches(fs[Len(L) + k], Matched(r, Seen[r]), states)
              <=> InRequest(Recorded[cassette[k]], own)
        BY <3>2, StoredIs
      <3> QED
        BY <3>1, <3>2, <3>4, <3>5, <3>6
    <2>3. /\ hits \in SUBSET Nat /\ hits \subseteq 1 .. n
      BY <2>1
    <2>4. PICK k0 \in 1 .. n : e = entries[k0]
      BY <2>1 DEF Range
    <2>5. Recorded[r].ctx = own
      BY DEF Recorded, Entry
    <2> HIDE DEF entries, hits, m, fs, L, n, own
    <2>6. k0 \in hits
      <3>1. InRequest(Recorded[cassette[k0]], own)
        BY <2>2, <2>4, SameKeyIsInRequest DEF own
      <3> QED
        BY <2>1, <2>2, <2>4, <3>1 DEF hits, entries
    <2>7. m \in SUBSET DOMAIN fs /\ FirstOf(fs, m, Select(r)) /\ Servable(fs)
      BY SelectedLeads DEF m, fs
    <2>8. PICK j \in m : Select(r) = fs[j] /\ \A i \in m : Leads(fs, j, i)
      BY <2>2, <2>6, <2>7 DEF FirstOf
    <2>9. Select(r) # None
      BY <2>7, <2>8 DEF Servable
    <2>10. CASE j \in DOMAIN L
      <3>1. Select(r) = L[j]
        BY <2>8, <2>10, LiveHalves DEF L, fs
      <3> QED
        BY <2>9, <2>10, <3>1 DEF Range, L
    <2>11. CASE j \notin DOMAIN L
      <3> DEFINE k == j - Len(L)
                 least == Min(hits)
      <3>1. k \in 1 .. n /\ Len(L) + k = j
        BY <2>1, <2>7, <2>8, <2>11
      <3>2. k \in hits
        BY <2>2, <2>8, <3>1
      <3>3. least \in hits /\ least <= k /\ least \in 1 .. n
        BY <2>3, <3>2, MinIsLeast
      <3> HIDE DEF k, least
      <3>4. Len(L) + least \in m /\ fs[Len(L) + least] = Recorded[cassette[least]].fixture
        BY <2>2, <3>3
      <3>5. /\ fs[j].catch_all = FALSE /\ Priority(fs[j]) = -1
        <4>1. cassette[k] \in Stored /\ fs[j] = Recorded[cassette[k]].fixture
          BY <2>2, <3>1
        <4>2. fs[j].catch_all = FALSE /\ fs[j].priority = -1
          BY <4>1, StoredIs
        <4> QED
          BY <4>2, NoneAssumption DEF Priority
      <3>6. /\ fs[Len(L) + least].catch_all = FALSE /\ Priority(fs[Len(L) + least]) = -1
        <4>1. cassette[least] \in Stored
          BY <2>2, <3>3
        <4>2. fs[Len(L) + least].catch_all = FALSE /\ fs[Len(L) + least].priority = -1
          BY <3>4, <4>1, StoredIs
        <4> QED
          BY <4>2, NoneAssumption DEF Priority
      <3>7. Leads(fs, j, Len(L) + least)
        BY <2>8, <3>4
      <3>8. Ahead(fs, j, Len(L) + least)
        BY <3>5, <3>6, <3>7 DEF Leads
      <3>9. j <= Len(L) + least
        BY <3>5, <3>6, <3>8 DEF Ahead
      <3>10. k = least
        BY <2>1, <3>1, <3>3, <3>9
      <3>11. Select(r) = entries[least].fixture
        BY <2>2, <2>8, <3>1, <3>10
      <3>12. Replayed(Select(r), own, entries)
        BY <3>11 DEF Replayed, least, hits
      <3> QED
        BY <2>5, <2>9, <3>12
    <2> QED
      BY <2>10, <2>11
  <1> QED
    BY <1>1, SpecLive, PTL

-----------------------------------------------------------------------------
(* The reply.                                                              *)

\* A header that is there stays as it is.
LEMMA InsertKeeps ==
  ASSUME NEW headers, NEW more, NEW name \in DOMAIN headers
  PROVE  /\ name \in DOMAIN or_insert(headers, more)
         /\ or_insert(headers, more)[name] = headers[name]
  BY DEF or_insert

\* A fixture that is served has one outcome; the headers of its error can be
\* sent, and no two have the same name.
LEMMA ServedIsConclusive ==
  ASSUME NEW Drafts, Drafting(Drafts), NEW f \in Served(Drafts)
  PROVE  /\ f # None /\ f.refusal \in BOOLEAN /\ f.error \in Int \cup {None}
         /\ f.refusal => f.error = None
         /\ ~f.refusal /\ f.error = None => f.response # None
         /\ f.response # None => ~f.refusal /\ f.error = None
         /\ f.error # None =>
              /\ \A h, k \in Range(f.error_headers) : h[1] = k[1] => h = k
              /\ Sendable(f)
  <1>1. PICK g \in Drafts : Valid(g) /\ f = Compiled(Folded(g))
    BY DEF Served
  <1> DEFINE e == g.error
             folded == FoldError(e)
  <1>2. /\ DOMAIN g = DOMAIN NewFixture /\ f # None
        /\ e # None => folded # None /\ {"status", "headers"} \subseteq DOMAIN e
    BY <1>1 DEF Drafting
  <1>3. {"error", "refusal", "response", "match_rule"} \subseteq DOMAIN NewFixture
    BY DEF NewFixture
  <1>4. /\ Folded(g).error = folded /\ Folded(g).refusal = g.refusal
        /\ Folded(g).response = g.response
    BY <1>2, <1>3 DEF Folded
  <1>5. /\ f.refusal = (g.refusal # None) /\ f.response = g.response
        /\ f.error = IF folded = None THEN None ELSE folded.status
        /\ f.error_headers = IF folded = None THEN <<>> ELSE folded.headers
    BY <1>1, <1>4 DEF Compiled
  <1>6. /\ g.refusal # None => e = None
        /\ g.response # None \/ e # None \/ g.refusal # None
        /\ g.response # None => g.refusal = None /\ e = None
        /\ e # None => ErrorValid(e)
    BY <1>1 DEF Valid, OutcomesValid, AnswersSomething, Set
  <1>7. e = None => folded = None
    BY DEF FoldError
  <1>8. ASSUME e # None
        PROVE  /\ folded.status \in Int /\ folded.status # None
               /\ \A h, k \in Range(folded.headers) : h[1] = k[1] => h = k
               /\ \A h \in Range(folded.headers) : IsHeaderValue(h[2])
    <2> DEFINE hs == e.headers
               names == [i \in DOMAIN hs |-> hs[i][1]]
               fold == FoldErrors(hs)
    <2>1. folded.status = e.status /\ folded.headers = fold
      BY <1>2, <1>8 DEF FoldError
    <2>2. /\ e.status \in 400 .. 599 /\ Distinct(names)
          /\ \A i \in DOMAIN hs : IsHeaderValue(hs[i][2])
      BY <1>6, <1>8 DEF ErrorValid
    <2>3. \A i, j \in DOMAIN hs : Lower[hs[i][1]] = Lower[hs[j][1]] => i = j
      BY <2>2 DEF Distinct
    <2>4. /\ DOMAIN fold = DOMAIN hs
          /\ \A i \in DOMAIN hs : fold[i][1] = Lower[hs[i][1]] /\ fold[i][2] = hs[i][2]
      BY DEF FoldErrors
    <2> HIDE DEF fold, hs
    <2>5. \A h, k \in Range(fold) : h[1] = k[1] => h = k
      BY <2>3, <2>4 DEF Range
    <2>6. \A h \in Range(fold) : IsHeaderValue(h[2])
      BY <2>2, <2>4 DEF Range
    <2> QED
      BY <2>1, <2>2, <2>5, <2>6, NoneAssumption
  <1> HIDE DEF e, folded
  <1>9. f.error # None => Sendable(f)
    BY <1>5, <1>7, <1>8 DEF Sendable
  <1> QED
    BY <1>2, <1>5, <1>6, <1>7, <1>8, <1>9

\* The headers of an error reach the client as they were written.
LEMMA ErrorHeadersReach ==
  ASSUME NEW f, Sendable(f),
         \A h, k \in Range(f.error_headers) : h[1] = k[1] => h = k,
         NEW status, NEW provider, NEW h \in Range(f.error_headers)
  PROVE  add_response_headers(status, provider, ErrorHeaders(f))[h[1]] = Text(h[2])
  <1> DEFINE hs == Range(f.error_headers)
             given == [n \in { k[1] : k \in hs } |-> Text((CHOOSE k \in hs : k[1] = n)[2])]
  <1>1. ErrorHeaders(f) = or_insert(given, Json)
    BY DEF ErrorHeaders
  <1>2. h[1] \in DOMAIN given
    OBVIOUS
  <1>3. (CHOOSE k \in hs : k[1] = h[1]) = h
    OBVIOUS
  <1>4. given[h[1]] = Text(h[2])
    BY <1>3
  <1> HIDE DEF given
  <1>5. h[1] \in DOMAIN ErrorHeaders(f) /\ ErrorHeaders(f)[h[1]] = Text(h[2])
    BY <1>1, <1>2, <1>4, InsertKeeps
  <1>6. PICK limits, stamp :
          add_response_headers(status, provider, ErrorHeaders(f))
            = or_insert(or_insert(ErrorHeaders(f), limits), stamp)
    BY DEF add_response_headers
  <1> QED
    BY <1>5, <1>6, InsertKeeps

\* What is selected is served.
LEMMA SelectedIsServed ==
  ASSUME NEW Drafts, Drafting(Drafts), LiveBooks(Drafts), NEW r \in LlmRequests
  PROVE  Select(r) = None \/ Select(r) \in Served(Drafts)
  <1> DEFINE S == Served(Drafts)
             fs == live.fixtures
             m == Matching(fs, r, Seen[r])
  <1>1. fs \in Seq(S)
    BY DEF LiveBooks
  <1>2. m \in SUBSET DOMAIN fs /\ FirstOf(fs, m, Select(r))
    BY SelectedLeads
  <1> HIDE DEF S, m, fs
  <1>3. \A i \in m : fs[i] \in S
    BY <1>1, <1>2, ElementOfSeq, LenProperties
  <1> QED
    BY <1>2, <1>3 DEF FirstOf, S

\* The two handlers of LLM requests, and the endpoints that match nothing.
LEMMA HandlersReply ==
  ASSUME NEW Drafts, Drafting(Drafts), NEW q, NEW f, f = None \/ f \in Served(Drafts)
  PROVE  /\ q.endpoint # "embeddings" => AsWritten(q, handle_request(q, f))
         /\ q.endpoint = "embeddings" => AsWritten(q, handle_embeddings(q, f))
         /\ AsWritten(q, UtilityReply(q))
  <1> DEFINE Reaches(a) == \A h \in Range(f.error_headers) : a.headers[h[1]] = Text(h[2])
  <1>1. ASSUME f # None, NEW status, NEW captured, NEW after, NEW provider, f.error # None
        PROVE  Reaches(Reply(status, captured, ErrorHeaders(f), f, after, provider))
    <2>1. /\ \A h, k \in Range(f.error_headers) : h[1] = k[1] => h = k
          /\ Sendable(f)
      BY <1>1, ServedIsConclusive
    <2> TAKE h \in Range(f.error_headers)
    <2>2. add_response_headers(status, provider, ErrorHeaders(f))[h[1]] = Text(h[2])
      BY <2>1, ErrorHeadersReach
    <2> QED
      BY <2>2 DEF Reply
  <1>2. f # None => /\ f.refusal \in BOOLEAN /\ f.error \in Int \cup {None}
                    /\ f.refusal => f.error = None
                    /\ ~f.refusal /\ f.error = None => f.response # None
                    /\ f.response # None => ~f.refusal /\ f.error = None
                    /\ f.error # None => Sendable(f)
    BY ServedIsConclusive
  <1>3. 200 # None /\ 400 # None /\ 500 # None
    BY NoneAssumption
  <1> HIDE DEF Reaches
  <1>4. ASSUME q.endpoint # "embeddings"
        PROVE  AsWritten(q, handle_request(q, f))
    <2> DEFINE Given(status, headers) ==
                 Reply(status, FixtureStatus(f, q), headers, f, Advance(states, f), q.provider)
    <2>1. CASE f = None
      BY <2>1 DEF handle_request, Reply, AsWritten, Unrendered
    <2>2. CASE f # None /\ f.refusal = TRUE
      <3> DEFINE status == IF q.stream THEN 400 ELSE 200
      <3>1. handle_request(q, f) = Given(status, Json)
        BY <2>2 DEF handle_request
      <3>2. FixtureStatus(f, q) = status /\ f.error = None
        BY <1>2, <2>2 DEF FixtureStatus
      <3>3. status # None
        BY <1>3
      <3>4. ~Unrendered(q, f)
        BY <1>2, <2>2 DEF Unrendered, RenderFails
      <3> HIDE DEF status
      <3> QED
        BY <3>1, <3>2, <3>3, <3>4 DEF Reply, AsWritten
    <2>3. CASE f # None /\ f.refusal = FALSE /\ f.error # None
      <3>1. handle_request(q, f) = Given(f.error, ErrorHeaders(f))
        BY <1>2, <2>3 DEF handle_request, ErrorStatus
      <3>2. FixtureStatus(f, q) = f.error
        BY <2>3 DEF FixtureStatus
      <3>3. Reaches(handle_request(q, f))
        BY <1>1, <2>3, <3>1
      <3>4. ~Unrendered(q, f)
        BY <1>2, <2>3 DEF Unrendered, RenderFails
      <3> QED
        BY <3>1, <3>2, <3>3, <3>4 DEF Reply, AsWritten, Reaches
    <2>4. CASE f # None /\ f.refusal = FALSE /\ f.error = None
      <3> DEFINE status == IF RenderFails(f, q) THEN 500 ELSE 200
      <3>1. handle_request(q, f) = Given(status, Json)
        BY <1>2, <2>4 DEF handle_request
      <3>2. FixtureStatus(f, q) = 200
        BY <2>4 DEF FixtureStatus
      <3>3. Unrendered(q, f) <=> RenderFails(f, q)
        BY <1>4, <2>4 DEF Unrendered, RenderFails
      <3>4. status # f.error
        BY <1>3, <2>4
      <3> QED
        BY <2>4, <3>1, <3>2, <3>3, <3>4 DEF Reply, AsWritten
    <2> QED
      BY <1>2, <2>1, <2>2, <2>3, <2>4
  <1>5. ASSUME q.endpoint = "embeddings"
        PROVE  AsWritten(q, handle_embeddings(q, f))
    <2> DEFINE after == IF f = None \/ f.set_state = None THEN states
                        ELSE [states EXCEPT ![f.scenario] = f.set_state]
    <2>1. handle_embeddings(q, f) = EmbeddingsReply(f, EmbeddingsStatus(f), after)
      BY DEF handle_embeddings
    <2> HIDE DEF after
    <2>0. \A g : ~Unrendered(q, g)
      BY <1>5 DEF Unrendered
    <2>2. CASE f = None
      BY <2>0, <2>1, <2>2 DEF EmbeddingsReply, EmbeddingsStatus, Reply, AsWritten
    <2>3. CASE f # None /\ f.error = None
      BY <1>3, <2>0, <2>1, <2>3 DEF EmbeddingsReply, EmbeddingsStatus, Reply, AsWritten
    <2>4. CASE f # None /\ f.error # None
      <3>1. EmbeddingsStatus(f) = f.error
        BY <2>4 DEF EmbeddingsStatus
      <3>2. handle_embeddings(q, f) = Reply(f.error, f.error, ErrorHeaders(f), f, after, "openai")
        BY <1>2, <2>1, <2>4, <3>1 DEF EmbeddingsReply, ErrorStatus
      <3>3. Reaches(handle_embeddings(q, f))
        BY <1>1, <2>4, <3>2
      <3> QED
        BY <2>0, <3>2, <3>3 DEF Reply, AsWritten, Reaches
    <2> QED
      BY <2>2, <2>3, <2>4
  <1>6. AsWritten(q, UtilityReply(q))
    <2>1. UtilityReply(q).status = UtilityReply(q).captured /\ UtilityReply(q).fixture = None
      BY DEF UtilityReply, Reply, Utility, handle_moderations, handle_status_code
    <2> QED
      BY <2>1 DEF AsWritten, Unrendered
  <1> QED
    BY <1>4, <1>5, <1>6

\* The log agrees with what the client gets, which has every header the test
\* wrote for an error; only where a template fails to render has the log 200
\* and the client 500 (validate, handle_request, templating::render,
\* add_response_headers), for any fixtures, requests and renderer.
THEOREM LogAgreesWithReply ==
  ASSUME NEW CONSTANT Drafts, Drafting(Drafts)
  PROVE  Spec => []RepliesAsWritten
  <1>1. LiveBooks(Drafts) => RepliesAsWritten
    <2> SUFFICES ASSUME LiveBooks(Drafts), NEW r \in Requests
                 PROVE  AsWritten(Seen[r], ReplyTo(r))
      BY DEF RepliesAsWritten
    <2> DEFINE q == Seen[r]
               f == Select(r)
    <2>1. CASE q.ctx = None
      <3>1. ReplyTo(r) = UtilityReply(q)
        BY <2>1 DEF ReplyTo, Answer
      <3> QED
        BY <3>1, HandlersReply
    <2>2. CASE q.ctx # None
      <3>1. r \in LlmRequests
        BY <2>2 DEF LlmRequests
      <3>2. f = None \/ f \in Served(Drafts)
        BY <3>1, SelectedIsServed
      <3>3. ReplyTo(r) = IF q.endpoint = "embeddings" THEN handle_embeddings(q, f)
                         ELSE handle_request(q, f)
        BY <2>2 DEF ReplyTo, Answer
      <3> HIDE DEF q, f
      <3>4. /\ q.endpoint # "embeddings" => AsWritten(q, handle_request(q, f))
            /\ q.endpoint = "embeddings" => AsWritten(q, handle_embeddings(q, f))
        BY <3>2, HandlersReply
      <3>5. AsWritten(q, ReplyTo(r))
        BY <3>3, <3>4
      <3> QED
        BY <3>5 DEF q
    <2> QED
      BY <2>1, <2>2
  <1> QED
    BY <1>1, SpecLive, PTL

-----------------------------------------------------------------------------
(* The tests of a rule, one result each.                                   *)

\* A list of whatever it holds.
IsList(s) == s \in Seq(Range(s))

\* One list after the other passes all tests if both do.
LEMMA OneAfterTheOther ==
  ASSUME NEW s, IsList(s), NEW t, IsList(t)
  PROVE  /\ IsList(s \o t)
         /\ AllPassed(s \o t) <=> AllPassed(s) /\ AllPassed(t)
  <1> DEFINE S == Range(s) \cup Range(t)
             u == s \o t
  <1>1. s \in Seq(S) /\ t \in Seq(S)
    <2>1. s \in Seq(Range(s)) /\ t \in Seq(Range(t)) /\ Range(s) \subseteq S /\ Range(t) \subseteq S
      BY DEF IsList
    <2> HIDE DEF S
    <2> QED
      BY <2>1, SeqDef
  <1> HIDE DEF S
  <1>2. /\ Len(s) \in Nat /\ Len(t) \in Nat /\ Len(u) = Len(s) + Len(t)
        /\ DOMAIN s = 1 .. Len(s) /\ DOMAIN t = 1 .. Len(t)
        /\ u \in Seq(S) /\ DOMAIN u = 1 .. Len(u)
        /\ \A i \in 1 .. Len(s) : u[i] = s[i]
        /\ \A i \in 1 .. Len(t) : u[Len(s) + i] = t[i]
    BY <1>1, ConcatProperties, LenProperties
  <1> HIDE DEF u
  <1>3. IsList(u)
    <2>1. \A i \in 1 .. Len(u) : u[i] \in Range(u)
      BY <1>2 DEF Range
    <2>2. u = [i \in 1 .. Len(u) |-> u[i]]
      BY <1>2, SeqDef
    <2>3. u \in [1 .. Len(u) -> Range(u)]
      BY <2>1, <2>2
    <2> QED
      BY <1>2, <2>3, SeqDef DEF IsList
  <1>4. AllPassed(u) => AllPassed(s) /\ AllPassed(t)
    <2>1. \A i \in 1 .. Len(s) : i \in 1 .. Len(u)
      BY <1>2
    <2>2. \A i \in 1 .. Len(t) : Len(s) + i \in 1 .. Len(u)
      BY <1>2
    <2> QED
      BY <1>2, <2>1, <2>2 DEF AllPassed
  <1>5. AllPassed(s) /\ AllPassed(t) => AllPassed(u)
    <2> SUFFICES ASSUME AllPassed(s), AllPassed(t), NEW i \in 1 .. Len(u)
                 PROVE  u[i].passed
      BY <1>2 DEF AllPassed
    <2>1. CASE i \in 1 .. Len(s)
      BY <1>2, <2>1 DEF AllPassed
    <2>2. CASE i \notin 1 .. Len(s)
      <3>1. i - Len(s) \in 1 .. Len(t) /\ Len(s) + (i - Len(s)) = i
        BY <1>2, <2>2
      <3>2. u[i] = t[i - Len(s)]
        BY <1>2, <3>1
      <3> QED
        BY <1>2, <3>1, <3>2 DEF AllPassed
    <2> QED
      BY <2>1, <2>2
  <1> QED
    BY <1>3, <1>4, <1>5 DEF u

\* The result of one test, or of none.
LEMMA OneResult ==
  ASSUME NEW e, NEW s \in {<<e>>, << >>}
  PROVE  /\ IsList(s)
         /\ s = << >> => AllPassed(s)
         /\ s = <<e>> => (AllPassed(s) <=> e.passed)
  <1>1. CASE s = <<e>>
    <2>1. s \in Seq({e}) /\ DOMAIN s = {1} /\ s[1] = e
      BY <1>1
    <2>2. Range(s) = {e}
      BY <2>1 DEF Range
    <2>3. s # << >>
      BY <1>1
    <2> QED
      BY <1>1, <2>1, <2>2, <2>3 DEF IsList, AllPassed
  <1>2. CASE s = << >>
    <2>1. s \in Seq({}) /\ DOMAIN s = {}
      BY <1>2
    <2>2. Range(s) = {}
      BY <2>1 DEF Range
    <2>3. s # <<e>>
      BY <1>2
    <2> QED
      BY <1>2, <2>1, <2>2, <2>3 DEF IsList, AllPassed
  <1> QED
    BY <1>1, <1>2

\* A sequence of the members of a finite set has each of them.
LEMMA SetToSeqHasAll ==
  ASSUME NEW S, IsFiniteSet(S)
  PROVE  /\ SetToSeq(S) \in Seq(S)
         /\ DOMAIN SetToSeq(S) = 1 .. Cardinality(S)
         /\ Range(SetToSeq(S)) = S
  <1> DEFINE n == Cardinality(S)
             f == SetToSeq(S)
  <1>1. n \in Nat /\ IsFiniteSet(1 .. n) /\ Cardinality(1 .. n) = n
    BY FS_CardinalityType, FS_Interval
  <1>2. ExistsBijection(1 .. n, S)
    <2>1. PICK m \in Nat : ExistsBijection(1 .. m, S)
      BY FS_NatBijection
    <2> QED
      BY <2>1, FS_CountingElements DEF n
  <1>3. \E g \in [1 .. n -> S] : IsInjective(g)
    BY <1>2 DEF ExistsBijection, Bijection, Injection
  <1>4. f \in [1 .. n -> S] /\ IsInjective(f)
    BY <1>3 DEF SetToSeq
  <1> HIDE DEF n, f
  <1>5. f \in Injection(1 .. n, S)
    BY <1>4 DEF Injection
  <1>6. f \in Surjection(1 .. n, S)
    BY <1>1, <1>5, FS_Injection DEF n
  <1>7. DOMAIN f = 1 .. n /\ \A x \in S : \E i \in 1 .. n : f[i] = x
    BY <1>4, <1>6 DEF Surjection
  <1>8. Range(f) = S
    BY <1>4, <1>7 DEF Range
  <1>9. f \in Seq(S)
    BY <1>1, <1>4, SeqDef
  <1> QED
    BY <1>7, <1>8, <1>9 DEF f, n

\* The tests of the headers, one result each.
LEMMA HeadersPass ==
  ASSUME NEW m, NEW ctx, IsFiniteSet(DOMAIN m.headers)
  PROVE  /\ IsList(HeaderResults(m, ctx))
         /\ AllPassed(HeaderResults(m, ctx))
              <=> \A n \in DOMAIN m.headers : HeaderMatches(m.headers[n], n, ctx)
  <1> DEFINE S == DOMAIN m.headers
             names == SetToSeq(S)
             n == Cardinality(S)
             e(i) == [ field |-> "headers",
                       passed |-> HeaderMatches(m.headers[names[i]], names[i], ctx) ]
             s == HeaderResults(m, ctx)
  <1>1. n \in Nat /\ DOMAIN names = 1 .. n /\ Range(names) = S
    BY SetToSeqHasAll, FS_CardinalityType
  <1>2. s = [i \in DOMAIN names |-> e(i)]
    BY DEF HeaderResults
  <1>3. \A i \in 1 .. n : e(i).passed <=> HeaderMatches(m.headers[names[i]], names[i], ctx)
    OBVIOUS
  <1> HIDE DEF S, names, n, e, s
  <1>4. DOMAIN s = 1 .. n /\ \A i \in 1 .. n : s[i] = e(i)
    BY <1>1, <1>2
  <1>5. IsList(s)
    <2>1. s \in [1 .. n -> Range(s)]
      BY <1>1, <1>2 DEF Range
    <2> QED
      BY <1>1, <2>1, SeqDef DEF IsList
  <1>6. \A x \in S : \E i \in 1 .. n : names[i] = x
    BY <1>1 DEF Range
  <1>7. \A i \in 1 .. n : names[i] \in S
    BY <1>1 DEF Range
  <1>8. AllPassed(s) <=> \A i \in 1 .. n : HeaderMatches(m.headers[names[i]], names[i], ctx)
    BY <1>3, <1>4 DEF AllPassed
  <1>9. AllPassed(s) <=> \A x \in S : HeaderMatches(m.headers[x], x, ctx)
    BY <1>6, <1>7, <1>8
  <1> QED
    BY <1>5, <1>9 DEF s, S

\* The tests of the metadata, one result each, as the debugger makes them.
LEMMA KeysPass ==
  ASSUME NEW tests, NEW ctx, IsFiniteSet(DOMAIN tests)
  PROVE  LET s == KeyResults(tests, SetToSeq(DOMAIN tests), ctx)
         IN  /\ IsList(s)
             /\ AllPassed(s) <=> \A k \in DOMAIN tests : MetadataMatches(tests[k], k, ctx)
  <1> DEFINE S == DOMAIN tests
             keys == SetToSeq(S)
             n == Cardinality(S)
             e(i) == [ field |-> "metadata",
                       passed |-> MetadataMatches(tests[keys[i]], keys[i], ctx) ]
             s == KeyResults(tests, keys, ctx)
  <1>1. n \in Nat /\ DOMAIN keys = 1 .. n /\ Range(keys) = S
    BY SetToSeqHasAll, FS_CardinalityType
  <1>2. s = [i \in DOMAIN keys |-> e(i)]
    BY DEF KeyResults
  <1>3. \A i \in 1 .. n : e(i).passed <=> MetadataMatches(tests[keys[i]], keys[i], ctx)
    OBVIOUS
  <1> HIDE DEF S, keys, n, e, s
  <1>4. DOMAIN s = 1 .. n /\ \A i \in 1 .. n : s[i] = e(i)
    BY <1>1, <1>2
  <1>5. IsList(s)
    <2>1. s \in [1 .. n -> Range(s)]
      BY <1>1, <1>2 DEF Range
    <2> QED
      BY <1>1, <2>1, SeqDef DEF IsList
  <1>6. \A x \in S : \E i \in 1 .. n : keys[i] = x
    BY <1>1 DEF Range
  <1>7. \A i \in 1 .. n : keys[i] \in S
    BY <1>1 DEF Range
  <1>8. AllPassed(s) <=> \A i \in 1 .. n : MetadataMatches(tests[keys[i]], keys[i], ctx)
    BY <1>3, <1>4 DEF AllPassed
  <1>9. AllPassed(s) <=> \A x \in S : MetadataMatches(tests[x], x, ctx)
    BY <1>6, <1>7, <1>8
  <1> QED
    BY <1>5, <1>9 DEF s, keys, S

\* The results of a rule are all passed by what it matches, and only by that.
LEMMA RulePasses ==
  ASSUME NEW m, NEW ctx, IsFiniteSet(DOMAIN m.headers)
  PROVE  /\ IsList(RuleResults(m, ctx))
         /\ AllPassed(RuleResults(m, ctx)) <=> rule_matches(m, ctx)
  <1> DEFINE P1 == string_matches(m.user_message, ctx.message)
             P2 == ctx.model # None /\ string_matches(m.model, ctx.model)
             P3 == \A n \in DOMAIN m.headers : HeaderMatches(m.headers[n], n, ctx)
             P4 == SystemMatches(m.system_prompt, ctx)
             P5 == TemperatureMatches(m.temperature, ctx)
             P6 == \A k \in DOMAIN m.metadata : MetadataMatches(m.metadata[k], k, ctx)
             P7 == ToolMatches(m.tool_schema, ctx)
             P8 == PathMatches(m.body_jsonpath, ctx)
             s1 == If(m.user_message # None, "user_message", P1)
             s2 == If(m.model # None, "model", P2)
             s3 == HeaderResults(m, ctx)
             s4 == If(m.system_prompt # None, "system_prompt", P4)
             s5 == If(m.temperature # None, "temperature", P5)
             s6 == If(DOMAIN m.metadata # {}, "metadata", P6)
             s7 == If(m.tool_schema # None, "tool_schema", P7)
             s8 == If(m.body_jsonpath # None, "body_jsonpath", P8)
  <1>10. rule_matches(m, ctx) <=>
           /\ m.user_message = None \/ P1
           /\ m.model = None \/ P2
           /\ P3
           /\ m.system_prompt = None \/ P4
           /\ m.temperature = None \/ P5
           /\ P6
           /\ m.tool_schema = None \/ P7
           /\ m.body_jsonpath = None \/ P8
    BY DEF rule_matches
  <1>1. IsList(s1) /\ (AllPassed(s1) <=> m.user_message = None \/ P1)
    <2> DEFINE e == [field |-> "user_message", passed |-> P1]
    <2>1. e.passed <=> P1
      OBVIOUS
    <2>2. s1 = IF m.user_message # None THEN <<e>> ELSE << >>
      BY DEF If
    <2> HIDE DEF s1, e, P1
    <2> QED
      BY <2>1, <2>2, OneResult
  <1>2. IsList(s2) /\ (AllPassed(s2) <=> m.model = None \/ P2)
    <2> DEFINE e == [field |-> "model", passed |-> P2]
    <2>1. e.passed <=> P2
      OBVIOUS
    <2>2. s2 = IF m.model # None THEN <<e>> ELSE << >>
      BY DEF If
    <2> HIDE DEF s2, e, P2
    <2> QED
      BY <2>1, <2>2, OneResult
  <1>3. IsList(s3) /\ (AllPassed(s3) <=> P3)
    BY HeadersPass
  <1>4. IsList(s4) /\ (AllPassed(s4) <=> m.system_prompt = None \/ P4)
    <2> DEFINE e == [field |-> "system_prompt", passed |-> P4]
    <2>1. e.passed <=> P4
      OBVIOUS
    <2>2. s4 = IF m.system_prompt # None THEN <<e>> ELSE << >>
      BY DEF If
    <2> HIDE DEF s4, e, P4
    <2> QED
      BY <2>1, <2>2, OneResult
  <1>5. IsList(s5) /\ (AllPassed(s5) <=> m.temperature = None \/ P5)
    <2> DEFINE e == [field |-> "temperature", passed |-> P5]
    <2>1. e.passed <=> P5
      OBVIOUS
    <2>2. s5 = IF m.temperature # None THEN <<e>> ELSE << >>
      BY DEF If
    <2> HIDE DEF s5, e, P5
    <2> QED
      BY <2>1, <2>2, OneResult
  <1>6. IsList(s6) /\ (AllPassed(s6) <=> DOMAIN m.metadata = {} \/ P6)
    <2> DEFINE e == [field |-> "metadata", passed |-> P6]
    <2>1. e.passed <=> P6
      OBVIOUS
    <2>2. s6 = IF DOMAIN m.metadata # {} THEN <<e>> ELSE << >>
      BY DEF If
    <2> HIDE DEF s6, e, P6
    <2> QED
      BY <2>1, <2>2, OneResult
  <1>7. IsList(s7) /\ (AllPassed(s7) <=> m.tool_schema = None \/ P7)
    <2> DEFINE e == [field |-> "tool_schema", passed |-> P7]
    <2>1. e.passed <=> P7
      OBVIOUS
    <2>2. s7 = IF m.tool_schema # None THEN <<e>> ELSE << >>
      BY DEF If
    <2> HIDE DEF s7, e, P7
    <2> QED
      BY <2>1, <2>2, OneResult
  <1>8. IsList(s8) /\ (AllPassed(s8) <=> m.body_jsonpath = None \/ P8)
    <2> DEFINE e == [field |-> "body_jsonpath", passed |-> P8]
    <2>1. e.passed <=> P8
      OBVIOUS
    <2>2. s8 = IF m.body_jsonpath # None THEN <<e>> ELSE << >>
      BY DEF If
    <2> HIDE DEF s8, e, P8
    <2> QED
      BY <2>1, <2>2, OneResult
  <1>18. P6 <=> DOMAIN m.metadata = {} \/ P6
    OBVIOUS
  <1> DEFINE t2 == s1 \o s2
             t3 == t2 \o s3
             t4 == t3 \o s4
             t5 == t4 \o s5
             t6 == t5 \o s6
             t7 == t6 \o s7
             t8 == t7 \o s8
  <1>9. RuleResults(m, ctx) = t8
    BY DEF RuleResults
  <1> HIDE DEF P1, P2, P3, P4, P5, P6, P7, P8, s1, s2, s3, s4, s5, s6, s7, s8
  <1>11. IsList(t2) /\ (AllPassed(t2) <=> AllPassed(s1) /\ AllPassed(s2))
    BY <1>1, <1>2, OneAfterTheOther
  <1> HIDE DEF t2
  <1>12. IsList(t3) /\ (AllPassed(t3) <=> AllPassed(t2) /\ AllPassed(s3))
    BY <1>3, <1>11, OneAfterTheOther
  <1> HIDE DEF t3
  <1>13. IsList(t4) /\ (AllPassed(t4) <=> AllPassed(t3) /\ AllPassed(s4))
    BY <1>4, <1>12, OneAfterTheOther
  <1> HIDE DEF t4
  <1>14. IsList(t5) /\ (AllPassed(t5) <=> AllPassed(t4) /\ AllPassed(s5))
    BY <1>5, <1>13, OneAfterTheOther
  <1> HIDE DEF t5
  <1>15. IsList(t6) /\ (AllPassed(t6) <=> AllPassed(t5) /\ AllPassed(s6))
    BY <1>6, <1>14, OneAfterTheOther
  <1> HIDE DEF t6
  <1>16. IsList(t7) /\ (AllPassed(t7) <=> AllPassed(t6) /\ AllPassed(s7))
    BY <1>7, <1>15, OneAfterTheOther
  <1> HIDE DEF t7
  <1>17. IsList(t8) /\ (AllPassed(t8) <=> AllPassed(t7) /\ AllPassed(s8))
    BY <1>8, <1>16, OneAfterTheOther
  <1> HIDE DEF t8
  <1> QED
    BY <1>1, <1>2, <1>3, <1>4, <1>5, <1>6, <1>7, <1>8, <1>9, <1>10, <1>11, <1>12,
       <1>13, <1>14, <1>15, <1>16, <1>17, <1>18

\* The results of provider and scenario state are all passed by what a fixture
\* is meant for.
LEMMA GuardsPass ==
  ASSUME NEW f, NEW ctx, NEW sc
  PROVE  /\ IsList(GuardResults(f, ctx, sc))
         /\ AllPassed(GuardResults(f, ctx, sc)) <=>
              /\ f.provider \in {None, ctx.provider}
              /\ f.required_state # None => sc[f.scenario] = f.required_state
  <1> DEFINE P1 == ctx.provider = f.provider
             P2 == sc[f.scenario] = f.required_state
             s1 == If(f.provider # None, "provider", P1)
             s2 == If(f.required_state # None, "scenario.required_state", P2)
  <1>1. IsList(s1) /\ (AllPassed(s1) <=> (f.provider # None => P1))
    <2> DEFINE e == [field |-> "provider", passed |-> P1]
    <2>1. e.passed <=> P1
      OBVIOUS
    <2>2. s1 = IF f.provider # None THEN <<e>> ELSE << >>
      BY DEF If
    <2> HIDE DEF s1, e, P1
    <2> QED
      BY <2>1, <2>2, OneResult
  <1>2. IsList(s2) /\ (AllPassed(s2) <=> (f.required_state # None => P2))
    <2> DEFINE e == [field |-> "scenario.required_state", passed |-> P2]
    <2>1. e.passed <=> P2
      OBVIOUS
    <2>2. s2 = IF f.required_state # None THEN <<e>> ELSE << >>
      BY DEF If
    <2> HIDE DEF s2, e, P2
    <2> QED
      BY <2>1, <2>2, OneResult
  <1>3. GuardResults(f, ctx, sc) = s1 \o s2
    BY DEF GuardResults
  <1>4. f.provider \in {None, ctx.provider} <=> (f.provider # None => P1)
    OBVIOUS
  <1>5. (f.required_state # None => sc[f.scenario] = f.required_state)
          <=> (f.required_state # None => P2)
    OBVIOUS
  <1> HIDE DEF s1, s2, P1, P2
  <1>6. IsList(s1 \o s2) /\ (AllPassed(s1 \o s2) <=> AllPassed(s1) /\ AllPassed(s2))
    BY <1>1, <1>2, OneAfterTheOther
  <1> QED
    BY <1>1, <1>2, <1>3, <1>4, <1>5, <1>6

-----------------------------------------------------------------------------
(* The explanation of a 404.                                               *)

\* A rule as the code holds it: a field for each kind of test, and finitely many
\* headers and metadata keys.
RuleShape(m) ==
  /\ DOMAIN m = DOMAIN NoTests
  /\ IsFiniteSet(DOMAIN m.headers) /\ IsFiniteSet(DOMAIN m.metadata)

\* The results for a fixture are all passed by the requests it answers, and only
\* by those.
LEMMA FieldsPass ==
  ASSUME NEW f, NEW ctx, NEW sc, f.match_rule # None => RuleShape(f.match_rule)
  PROVE  LET s == evaluate_fixture_fields(f, ctx, sc)
         IN  /\ IsList(s)
             /\ AllPassed(s) <=>
                  /\ f.provider \in {None, ctx.provider}
                  /\ f.required_state # None => sc[f.scenario] = f.required_state
                  /\ f.match_rule = None \/ rule_matches(f.match_rule, ctx)
  <1> DEFINE g == GuardResults(f, ctx, sc)
             m == f.match_rule
             u == IF m = None THEN << >> ELSE RuleResults(m, ctx)
             s == evaluate_fixture_fields(f, ctx, sc)
             Guard == /\ f.provider \in {None, ctx.provider}
                      /\ f.required_state # None => sc[f.scenario] = f.required_state
  <1>1. IsList(g) /\ (AllPassed(g) <=> Guard)
    BY GuardsPass
  <1>2. IsList(u) /\ (AllPassed(u) <=> m = None \/ rule_matches(m, ctx))
    <2>1. CASE m = None
      <3>1. u = << >>
        BY <2>1
      <3> HIDE DEF u
      <3>2. IsList(u) /\ AllPassed(u)
        BY <3>1, OneResult
      <3> QED
        BY <2>1, <3>2
    <2>2. CASE m # None
      <3>1. u = RuleResults(m, ctx)
        BY <2>2
      <3>2. IsFiniteSet(DOMAIN m.headers)
        BY <2>2 DEF RuleShape
      <3> HIDE DEF u, m
      <3> QED
        BY <2>2, <3>1, <3>2, RulePasses
    <2> QED
      BY <2>1, <2>2
  <1>3. s = g \o u
    BY DEF evaluate_fixture_fields
  <1> HIDE DEF g, u, s, Guard
  <1>4. IsList(s) /\ (AllPassed(s) <=> AllPassed(g) /\ AllPassed(u))
    BY <1>1, <1>2, <1>3, OneAfterTheOther
  <1>5. AllPassed(s) <=> Guard /\ (m = None \/ rule_matches(m, ctx))
    BY <1>1, <1>2, <1>4
  <1> QED
    BY <1>4, <1>5 DEF s, Guard

\* Fewer tests pass than there are if one fails.
LEMMA SomeFail ==
  ASSUME NEW s, IsList(s), ~AllPassed(s)
  PROVE  s # << >> /\ PassCount(s) \in Nat /\ Len(s) \in Nat /\ PassCount(s) < Len(s)
  <1> DEFINE n == Len(s)
             P == { i \in DOMAIN s : s[i].passed }
  <1>1. n \in Nat /\ DOMAIN s = 1 .. n
    BY LenProperties DEF IsList
  <1>2. IsFiniteSet(1 .. n) /\ Cardinality(1 .. n) = n
    <2> HIDE DEF n
    <2> QED
      BY <1>1, FS_Interval
  <1>3. PICK i \in 1 .. n : ~s[i].passed
    BY <1>1 DEF AllPassed
  <1>4. P \subseteq 1 .. n /\ i \notin P
    BY <1>1, <1>3
  <1>5. PassCount(s) = Cardinality(P)
    BY DEF PassCount
  <1>6. s # << >>
    <2>1. n # 0
      BY <1>3
    <2> QED
      BY <2>1
  <1> HIDE DEF P, n
  <1>7. P # 1 .. n
    BY <1>3, <1>4
  <1>8. /\ Cardinality(P) \in Nat /\ Cardinality(P) <= n
        /\ Cardinality(P) = n => P = 1 .. n
    BY <1>2, <1>4, FS_Subset, FS_CardinalityType
  <1> QED
    BY <1>1, <1>5, <1>6, <1>7, <1>8 DEF n

\* Induction over the natural numbers, for sets.
LEMMA SetInduction ==
  ASSUME NEW S, 0 \in S, \A n \in Nat : n \in S => n + 1 \in S
  PROVE  Nat \subseteq S
  <1> SUFFICES ASSUME Nat \ S # {} PROVE FALSE
    OBVIOUS
  <1>1. Min(Nat \ S) \in Nat \ S /\ \A k \in Nat \ S : Min(Nat \ S) <= k
    <2>1. Nat \ S \in SUBSET Nat
      OBVIOUS
    <2> QED
      BY <2>1, MinIsLeast
  <1>2. Min(Nat \ S) # 0 /\ Min(Nat \ S) - 1 \in Nat
    BY <1>1
  <1>3. Min(Nat \ S) - 1 \in S
    BY <1>1, <1>2
  <1> QED
    BY <1>1, <1>2, <1>3

\* The equations of `nearest` have a solution, and the hint is its last value.
LEMMA NearestIsLast ==
  ASSUME NEW fs, NEW m \in Nat, Len(fs) = m, NEW ctx, NEW sc
  PROVE  \E f : /\ f[0] = None
                /\ \A n \in 1 .. m :
                     f[n] = Nearer(f[n - 1], n, evaluate_fixture_fields(fs[n], ctx, sc))
                /\ evaluate_nearest_match(fs, ctx, sc) = f[m]
  <1> DEFINE step(best, n) == Nearer(best, n, evaluate_fixture_fields(fs[n], ctx, sc))
             body(f, k) == [n \in 0 .. k |-> IF n = 0 THEN None ELSE step(f[n - 1], n)]
             S == { k \in Nat : \E f : f = body(f, k) }
             nearest == CHOOSE f : f = body(f, m)
  <1>1. evaluate_nearest_match(fs, ctx, sc) = nearest[m]
    BY DEF evaluate_nearest_match
  <1> HIDE DEF step
  <1>2. 0 \in S
    <2> DEFINE g == [n \in 0 .. 0 |-> None]
    <2>1. DOMAIN g = 0 .. 0 /\ \A n \in 0 .. 0 : n = 0 /\ g[n] = None
      OBVIOUS
    <2>2. g = body(g, 0)
      BY <2>1
    <2> QED
      BY <2>2
  <1>3. ASSUME NEW k \in Nat, k \in S
        PROVE  k + 1 \in S
    <2>1. PICK f : f = body(f, k)
      BY <1>3
    <2> DEFINE g == [n \in 0 .. k + 1 |-> IF n <= k THEN f[n] ELSE step(f[k], k + 1)]
    <2>2. ASSUME NEW n \in 0 .. k + 1
          PROVE  g[n] = IF n = 0 THEN None ELSE step(g[n - 1], n)
      <3>1. CASE n = k + 1
        <4>1. g[n] = step(f[k], n) /\ g[n - 1] = f[k]
          BY <3>1
        <4> QED
          BY <3>1, <4>1
      <3>2. CASE n = 0
        BY <2>1, <3>2
      <3>3. CASE n \in 1 .. k
        <4>1. g[n] = f[n] /\ g[n - 1] = f[n - 1]
          BY <3>3
        <4>2. f[n] = step(f[n - 1], n)
          BY <2>1, <3>3
        <4> QED
          BY <3>3, <4>1, <4>2
      <3> QED
        BY <3>1, <3>2, <3>3
    <2>3. g = body(g, k + 1)
      BY <2>2
    <2> HIDE DEF g, body
    <2> QED
      BY <2>3
  <1>4. m \in S
    <2>1. Nat \subseteq S
      <3> HIDE DEF S
      <3> QED
        BY <1>2, <1>3, SetInduction
    <2> HIDE DEF S
    <2> QED
      BY <2>1
  <1>5. nearest = body(nearest, m)
    <2>1. \E f : f = body(f, m)
      BY <1>4
    <2> HIDE DEF body
    <2> QED
      BY <2>1
  <1> HIDE DEF nearest
  <1>6. nearest[0] = None /\ \A n \in 1 .. m : nearest[n] = step(nearest[n - 1], n)
    BY <1>5
  <1>7. \A n \in 1 .. m :
          nearest[n] = Nearer(nearest[n - 1], n, evaluate_fixture_fields(fs[n], ctx, sc))
    BY <1>6 DEF step
  <1> QED
    BY <1>1, <1>6, <1>7

\* Of fixtures that all fail a test, the hint names the one that passes most,
\* and the earliest of those.
LEMMA NearestIsHonest ==
  ASSUME NEW fs, NEW m \in Nat \ {0}, Len(fs) = m, DOMAIN fs = 1 .. m, NEW ctx, NEW sc,
         \A i \in 1 .. m : LET s == evaluate_fixture_fields(fs[i], ctx, sc)
                           IN  IsList(s) /\ ~AllPassed(s)
  PROVE  Honest(evaluate_nearest_match(fs, ctx, sc),
                [i \in DOMAIN fs |-> PassCount(evaluate_fixture_fields(fs[i], ctx, sc))])
  <1> DEFINE fields(i) == evaluate_fixture_fields(fs[i], ctx, sc)
             count(i) == PassCount(fields(i))
             hint(i) == [ fixture_index |-> i, pass_count |-> count(i),
                          total_fields |-> Len(fields(i)) ]
             Nearest(i, n) == \A j \in 1 .. n : count(j) <= count(i) /\ (j < i => count(j) < count(i))
  <1>1. \A i \in 1 .. m : /\ fields(i) # << >> /\ count(i) \in Nat
                          /\ Len(fields(i)) \in Nat /\ count(i) < Len(fields(i))
    <2> SUFFICES ASSUME NEW i \in 1 .. m
                 PROVE  /\ fields(i) # << >> /\ count(i) \in Nat
                        /\ Len(fields(i)) \in Nat /\ count(i) < Len(fields(i))
      OBVIOUS
    <2>1. IsList(fields(i)) /\ ~AllPassed(fields(i))
      OBVIOUS
    <2> HIDE DEF fields
    <2> QED
      BY <2>1, SomeFail
  <1>2. PICK f : /\ f[0] = None
                 /\ \A n \in 1 .. m : f[n] = Nearer(f[n - 1], n, fields(n))
                 /\ evaluate_nearest_match(fs, ctx, sc) = f[m]
    BY NearestIsLast
  <1>3. f[0] = None
    BY <1>2
  <1>4. \A n \in 1 .. m : f[n] = Nearer(f[n - 1], n, fields(n))
    BY <1>2
  <1>5. \A best : \A n \in 1 .. m :
          Nearer(best, n, fields(n)) = IF best = None \/ count(n) > best.pass_count
                                       THEN hint(n) ELSE best
    BY <1>1 DEF Nearer, Closer
  <1>6. \A i \in 1 .. m : /\ hint(i) # None /\ hint(i).pass_count = count(i)
                          /\ hint(i).fixture_index = i
                          /\ hint(i).total_fields = Len(fields(i))
    <2> SUFFICES ASSUME NEW i \in 1 .. m
                 PROVE  hint(i) # None
      OBVIOUS
    <2>1. hint(i) \in [fixture_index : Nat, pass_count : Nat, total_fields : Nat]
      BY <1>1
    <2> HIDE DEF hint
    <2> QED
      BY <2>1, NoneAssumption
  <1>7. [i \in DOMAIN fs |-> PassCount(evaluate_fixture_fields(fs[i], ctx, sc))]
          = [i \in 1 .. m |-> count(i)]
    OBVIOUS
  <1> HIDE DEF fields, count, hint
  <1> DEFINE S == { n \in Nat : n \in 1 .. m => \E i \in 1 .. n : f[n] = hint(i) /\ Nearest(i, n) }
  <1>8. ASSUME NEW n \in Nat, n \in S
        PROVE  n + 1 \in S
    <2> SUFFICES ASSUME n + 1 \in 1 .. m
                 PROVE  \E i \in 1 .. n + 1 : f[n + 1] = hint(i) /\ Nearest(i, n + 1)
      OBVIOUS
    <2>1. f[n + 1] = Nearer(f[n], n + 1, fields(n + 1))
      BY <1>4
    <2>2. CASE n = 0
      <3>1. f[n + 1] = hint(n + 1)
        BY <1>3, <1>5, <2>1, <2>2
      <3>2. Nearest(1, 1)
        BY <1>1
      <3> HIDE DEF Nearest
      <3> QED
        BY <2>2, <3>1, <3>2
    <2>3. CASE n # 0
      <3>1. PICK i \in 1 .. n : f[n] = hint(i) /\ Nearest(i, n)
        BY <1>8, <2>3
      <3>2. i \in 1 .. m /\ count(i) \in Nat /\ count(n + 1) \in Nat
        BY <1>1
      <3>3. f[n + 1] = IF count(n + 1) > count(i) THEN hint(n + 1) ELSE hint(i)
        BY <1>5, <1>6, <2>1, <3>1, <3>2
      <3>4. \A j \in 1 .. n : count(j) \in Nat
        BY <1>1
      <3>5. CASE count(n + 1) > count(i)
        <4>1. Nearest(n + 1, n + 1)
          BY <3>1, <3>2, <3>4, <3>5
        <4> HIDE DEF Nearest
        <4> QED
          BY <3>3, <3>5, <4>1
      <3>6. CASE ~(count(n + 1) > count(i))
        <4>1. Nearest(i, n + 1)
          BY <3>1, <3>2, <3>4, <3>6
        <4>2. i \in 1 .. n + 1
          OBVIOUS
        <4> HIDE DEF Nearest
        <4> QED
          BY <3>3, <3>6, <4>1, <4>2
      <3> QED
        BY <3>5, <3>6
    <2> QED
      BY <2>2, <2>3
  <1>9. m \in S
    <2>1. 0 \in S
      OBVIOUS
    <2> HIDE DEF S
    <2> QED
      BY <1>8, <2>1, SetInduction
  <1>10. PICK i \in 1 .. m : f[m] = hint(i) /\ Nearest(i, m)
    BY <1>9
  <1> DEFINE passed == [j \in 1 .. m |-> count(j)]
             h == f[m]
  <1>11. DOMAIN passed = 1 .. m /\ \A j \in 1 .. m : passed[j] = count(j)
    OBVIOUS
  <1>12. /\ h # None /\ h.pass_count = count(i) /\ h.fixture_index = i
         /\ h.total_fields = Len(fields(i)) /\ count(i) < Len(fields(i))
    BY <1>1, <1>6, <1>10
  <1> HIDE DEF passed, h
  <1>13. Honest(h, passed)
    BY <1>10, <1>11, <1>12 DEF Honest
  <1> QED
    BY <1>2, <1>7, <1>13 DEF passed, h

\* Every draft's rule is of that shape.
RuleShapes(Drafts) == \A f \in Drafts : f.match_rule # None => RuleShape(f.match_rule)

\* What it is to be answered by a fixture, test by test.
Meets(f, ctx, sc) ==
  /\ f.provider \in {None, ctx.provider}
  /\ f.required_state # None => sc[f.scenario] = f.required_state
  /\ f.match_rule = None \/ rule_matches(f.match_rule, ctx)

\* A served fixture matches the requests that meet its tests; its rule is of the
\* shape of the draft's.
LEMMA MatchedMeets ==
  ASSUME NEW Drafts, Drafting(Drafts), RuleShapes(Drafts), LiveBooks(Drafts),
         NEW r \in LlmRequests, NEW i \in DOMAIN live.fixtures
  PROVE  LET f == live.fixtures[i]
         IN  /\ f.match_rule # None => RuleShape(f.match_rule)
             /\ fixture_matches(f, Matched(r, Seen[r]), states)
                  <=> Meets(f, Seen[r].ctx, states)
  <1> DEFINE fs == live.fixtures
             f == fs[i]
             ctx == Seen[r].ctx
  <1>1. f \in Served(Drafts)
    <2> DEFINE S == Served(Drafts)
    <2> HIDE DEF S
    <2>1. fs \in Seq(S)
      BY DEF LiveBooks, S
    <2>2. f \in S
      BY <2>1, ElementOfSeq, LenProperties
    <2> QED
      BY <2>2 DEF S
  <1>2. PICK d \in Drafts : f = Compiled(Folded(d))
    BY <1>1 DEF Served
  <1>3. Folded(d).match_rule = FoldRule(d.match_rule)
    <2>1. "match_rule" \in DOMAIN d
      BY DEF Drafting, NewFixture
    <2> QED
      BY <2>1 DEF Folded
  <1>4. /\ f.match_rule = FoldRule(d.match_rule)
        /\ f.prompts = { x \in Requests : Passes(Folded(d), Seen[x].ctx) }
    BY <1>2, <1>3 DEF Compiled
  <1>5. f.match_rule # None => RuleShape(f.match_rule)
    <2> SUFFICES ASSUME f.match_rule # None
                 PROVE  RuleShape(f.match_rule)
      OBVIOUS
    <2> DEFINE m == d.match_rule
               folded == FoldTests(m.headers)
    <2>1. m # None
      BY <1>4 DEF FoldRule
    <2>2. RuleShape(m)
      BY <2>1 DEF RuleShapes
    <2>3. f.match_rule = [m EXCEPT !.headers = folded]
      BY <1>4, <2>1 DEF FoldRule
    <2>4. IsFiniteSet(DOMAIN folded)
      <3> DEFINE H == DOMAIN m.headers
      <3>1. DOMAIN folded = { Lower[name] : name \in H }
        BY DEF FoldTests
      <3>2. IsFiniteSet(H)
        BY <2>2 DEF RuleShape
      <3> DEFINE lower == [name \in H |-> Lower[name]]
                 T == { Lower[name] : name \in H }
      <3> HIDE DEF H
      <3>3. lower \in Surjection(H, T)
        BY DEF Surjection
      <3> HIDE DEF lower
      <3>4. IsFiniteSet(T)
        BY <3>2, <3>3, FS_Surjection
      <3> QED
        BY <3>1, <3>4
    <2> HIDE DEF m, folded, f
    <2>5. /\ DOMAIN f.match_rule = DOMAIN m
          /\ f.match_rule.headers = folded
          /\ f.match_rule.metadata = m.metadata
      BY <2>2, <2>3 DEF RuleShape, NoTests
    <2> QED
      BY <2>2, <2>4, <2>5 DEF RuleShape
  <1>6. r \in Requests /\ ctx # None /\ ctx.provider = Seen[r].provider
    BY ContextIsOwn
  <1>7. r \in f.prompts <=> f.match_rule = None \/ rule_matches(f.match_rule, ctx)
    BY <1>3, <1>4, <1>6 DEF Passes
  <1>8. fixture_matches(f, Matched(r, Seen[r]), states) <=>
          /\ f.provider \in {None, Seen[r].provider}
          /\ f.required_state # None => states[f.scenario] = f.required_state
          /\ r \in f.prompts
    BY DEF fixture_matches, Matched
  <1> QED
    BY <1>5, <1>6, <1>7, <1>8 DEF Meets

\* What explains a 404 is true: the fixture it names fails a test, none passes
\* more, and none before it as many (evaluate_nearest_match against the matcher's
\* fixture_matches), for any fixtures, requests and history of the server.
THEOREM HintsAreHonest ==
  ASSUME NEW CONSTANT Drafts, Drafting(Drafts), RuleShapes(Drafts)
  PROVE  Spec => []HintIsHonest
  <1>1. LiveBooks(Drafts) => HintIsHonest
    <2> SUFFICES ASSUME LiveBooks(Drafts), live.fixtures # << >>,
                        NEW r \in LlmRequests, Select(r) = None
                 PROVE  Honest(evaluate_nearest_match(live.fixtures, Seen[r].ctx, states),
                               Passed(Seen[r].ctx))
      BY DEF HintIsHonest
    <2> DEFINE fs == live.fixtures
               m == Len(fs)
               ctx == Seen[r].ctx
    <2>1. m \in Nat /\ DOMAIN fs = 1 .. m /\ (m = 0 => fs = << >>)
      BY LenProperties, EmptySeq DEF LiveBooks
    <2>2. m \in Nat \ {0}
      BY <2>1
    <2>3. \A i \in DOMAIN fs : ~fixture_matches(fs[i], Matched(r, Seen[r]), states)
      <3>1. Servable(fs) /\ FirstOf(fs, Matching(fs, r, Seen[r]), Select(r))
        BY SelectedLeads
      <3>2. Matching(fs, r, Seen[r]) = {}
        BY <3>1 DEF FirstOf, Servable, Matching
      <3> QED
        BY <3>2 DEF Matching
    <2>4. \A i \in 1 .. m : LET s == evaluate_fixture_fields(fs[i], ctx, states)
                            IN  IsList(s) /\ ~AllPassed(s)
      <3> SUFFICES ASSUME NEW i \in 1 .. m
                   PROVE  LET s == evaluate_fixture_fields(fs[i], ctx, states)
                          IN  IsList(s) /\ ~AllPassed(s)
        OBVIOUS
      <3>1. /\ fs[i].match_rule # None => RuleShape(fs[i].match_rule)
            /\ ~Meets(fs[i], ctx, states)
        BY <2>1, <2>3, MatchedMeets
      <3> HIDE DEF fs, ctx
      <3> QED
        BY <3>1, FieldsPass DEF Meets
    <2>5. Passed(ctx) = [i \in DOMAIN fs |-> PassCount(evaluate_fixture_fields(fs[i], ctx, states))]
      BY DEF Passed
    <2> HIDE DEF fs, m, ctx
    <2>6. m = Len(fs)
      BY DEF m
    <2>7. Honest(evaluate_nearest_match(fs, ctx, states), Passed(ctx))
      BY <2>1, <2>2, <2>4, <2>5, <2>6, NearestIsHonest
    <2> QED
      BY <2>7 DEF fs, ctx
  <1> QED
    BY <1>1, SpecLive, PTL

-----------------------------------------------------------------------------
(* The debugger.                                                           *)

\* The debugger's checks of a rule are all passed by what it matches, and only
\* by that, though they take the metadata key by key.
LEMMA ChecksPass ==
  ASSUME NEW m, RuleShape(m), NEW ctx
  PROVE  /\ IsList(RuleChecks(m, ctx))
         /\ AllPassed(RuleChecks(m, ctx)) <=> rule_matches(m, ctx)
  <1> DEFINE b == [m EXCEPT !.metadata = << >>]
             s == RuleResults(b, ctx)
             t == KeyResults(m.metadata, SetToSeq(DOMAIN m.metadata), ctx)
             Keys == \A k \in DOMAIN m.metadata : MetadataMatches(m.metadata[k], k, ctx)
  <1>1. /\ b.user_message = m.user_message /\ b.model = m.model /\ b.headers = m.headers
        /\ b.system_prompt = m.system_prompt /\ b.temperature = m.temperature
        /\ b.tool_schema = m.tool_schema /\ b.body_jsonpath = m.body_jsonpath
        /\ b.metadata = << >>
    BY DEF RuleShape, NoTests
  <1>2. RuleChecks(m, ctx) = s \o t
    BY DEF RuleChecks
  <1>3. IsFiniteSet(DOMAIN m.headers) /\ IsFiniteSet(DOMAIN m.metadata)
    BY DEF RuleShape
  <1> HIDE DEF b
  <1>4. IsList(s) /\ (AllPassed(s) <=> rule_matches(b, ctx))
    BY <1>1, <1>3, RulePasses
  <1>5. IsList(t) /\ (AllPassed(t) <=> Keys)
    BY <1>3, KeysPass
  <1>6. rule_matches(m, ctx) <=> rule_matches(b, ctx) /\ Keys
    <2>1. DOMAIN b.metadata = {}
      BY <1>1
    <2> HIDE DEF s, t
    <2> QED
      BY <1>1, <2>1 DEF rule_matches
  <1> HIDE DEF s, t, Keys
  <1>7. IsList(s \o t) /\ (AllPassed(s \o t) <=> AllPassed(s) /\ AllPassed(t))
    BY <1>4, <1>5, OneAfterTheOther
  <1> QED
    BY <1>2, <1>4, <1>5, <1>6, <1>7

\* A fixture passes in the debugger for what meets its tests.
LEMMA EvaluationPasses ==
  ASSUME NEW f, NEW ctx, NEW sc, f.match_rule # None => RuleShape(f.match_rule)
  PROVE  evaluate_fixture(f, ctx, sc).passed <=> Meets(f, ctx, sc)
  <1> DEFINE g == GuardResults(f, ctx, sc)
             m == f.match_rule
             u == IF m = None THEN << >> ELSE RuleChecks(m, ctx)
             Guard == /\ f.provider \in {None, ctx.provider}
                      /\ f.required_state # None => sc[f.scenario] = f.required_state
  <1>1. IsList(g) /\ (AllPassed(g) <=> Guard)
    BY GuardsPass
  <1>2. IsList(u) /\ (AllPassed(u) <=> m = None \/ rule_matches(m, ctx))
    <2>1. CASE m = None
      <3>1. u = << >>
        BY <2>1
      <3> HIDE DEF u
      <3>2. IsList(u) /\ AllPassed(u)
        BY <3>1, OneResult
      <3> QED
        BY <2>1, <3>2
    <2>2. CASE m # None
      <3>1. u = RuleChecks(m, ctx)
        BY <2>2
      <3>2. RuleShape(m)
        BY <2>2
      <3> HIDE DEF u, m
      <3> QED
        BY <2>2, <3>1, <3>2, ChecksPass
    <2> QED
      BY <2>1, <2>2
  <1>3. evaluate_fixture(f, ctx, sc).passed <=> AllPassed(g \o u)
    BY DEF evaluate_fixture, Evaluation
  <1>4. Meets(f, ctx, sc) <=> Guard /\ (m = None \/ rule_matches(m, ctx))
    BY DEF Meets
  <1> HIDE DEF g, u, Guard
  <1>5. IsList(g \o u) /\ (AllPassed(g \o u) <=> AllPassed(g) /\ AllPassed(u))
    BY <1>1, <1>2, OneAfterTheOther
  <1> QED
    BY <1>1, <1>2, <1>3, <1>4, <1>5

\* A rule without tests of headers sees no difference between two contexts that
\* differ in their headers, and in a model it does not test.
LEMMA SameToTheRule ==
  ASSUME NEW m, NEW c, NEW d, m.headers = << >>,
         c.message = d.message, c.provider = d.provider, c.body = d.body,
         m.model = None \/ c.model = d.model
  PROVE  rule_matches(m, c) <=> rule_matches(m, d)
  <1>1. DOMAIN m.headers = {}
    OBVIOUS
  <1> QED
    BY <1>1 DEF rule_matches, MetadataMatches, SystemMatches, TemperatureMatches, ToolMatches, PathMatches

\* A pass as a list: of the positions of its kind, all of them, in order.
LEMMA PassIsListed ==
  ASSUME NEW fs, Servable(fs), NEW catchAll, NEW o, o = Order(fs, catchAll)
  PROVE  /\ o \in Seq(DOMAIN fs)
         /\ Range(o) = Kind(fs, catchAll)
         /\ \A k, l \in DOMAIN o : k < l => Ahead(fs, o[k], o[l])
  <1> DEFINE kind == Kind(fs, catchAll)
  <1>1. Sortable(fs)
    BY DEF Servable
  <1>2. PICK n \in Nat : DOMAIN o = 1 .. n
    BY <1>1, OrderSorts
  <1>3. \A k \in DOMAIN o : o[k] \in kind
    BY <1>1, OrderSorts
  <1>4. \A i \in kind : \E k \in DOMAIN o : o[k] = i
    BY <1>1, OrderSorts
  <1>5. \A k, l \in DOMAIN o : k < l => Earlier(fs, o[k], o[l])
    BY <1>1, OrderSorts
  <1>6. kind \subseteq DOMAIN fs
    BY DEF Kind
  <1>7. o = [k \in 1 .. Cardinality(kind) |-> CHOOSE i \in kind : Before(fs, kind, i) = k - 1]
    BY DEF Order
  <1> HIDE DEF kind
  <1>8. o = [k \in 1 .. n |-> o[k]]
    BY <1>2, <1>7
  <1>9. o \in Seq(DOMAIN fs)
    <2>1. o \in [1 .. n -> DOMAIN fs]
      BY <1>2, <1>3, <1>6, <1>8
    <2> QED
      BY <2>1, SeqDef
  <1>10. ASSUME NEW k \in DOMAIN o, NEW l \in DOMAIN o, k < l
         PROVE  Ahead(fs, o[k], o[l])
    <2> DEFINE i == o[k]
               j == o[l]
    <2>1. Earlier(fs, i, j) /\ i \in DOMAIN fs /\ j \in DOMAIN fs
      BY <1>3, <1>5, <1>6, <1>10
    <2>2. i \in Int /\ j \in Int
      BY <1>1, <2>1 DEF Sortable
    <2> HIDE DEF i, j
    <2>3. Ahead(fs, i, j)
      BY <2>1, <2>2 DEF Earlier, Ahead
    <2> QED
      BY <2>3 DEF i, j
  <1>11. Range(o) = kind
    BY <1>3, <1>4 DEF Range
  <1> QED
    BY <1>9, <1>10, <1>11 DEF kind

\* The first that passes, in the order the debugger lists them, is the first of
\* the list that passes.
LEMMA DebuggerFindsFirst ==
  ASSUME NEW fs, Servable(fs), NEW ctx, NEW sc, NEW body, NEW provider,
         ctx = DebugContext(body, provider)
  PROVE  LET d == debug_match(new(fs), body, provider, sc)
             m == { i \in DOMAIN fs : evaluate_fixture(fs[i], ctx, sc).passed }
         IN  FirstOf(fs, m, IF d.matched = None THEN None ELSE fs[d.evals[d.matched].index])
  <1> DEFINE o1 == Order(fs, FALSE)
             o2 == Order(fs, TRUE)
             o == o1 \o o2
             d == debug_match(new(fs), body, provider, sc)
             m == { i \in DOMAIN fs : evaluate_fixture(fs[i], ctx, sc).passed }
             f == IF d.matched = None THEN None ELSE fs[d.evals[d.matched].index]
             Passing(i) == evaluate_fixture(fs[i], ctx, sc).passed
             hits == { k \in DOMAIN o : Passing(o[k]) }
  <1>1. /\ \A k \in DOMAIN o1 : o1[k] \in DOMAIN fs /\ fs[o1[k]].catch_all = FALSE
        /\ \A i \in DOMAIN fs : fs[i].catch_all = FALSE => \E k \in DOMAIN o1 : o1[k] = i
        /\ \A k, l \in DOMAIN o1 : k < l => Ahead(fs, o1[k], o1[l])
    <2>1. Range(o1) = Kind(fs, FALSE)
      BY PassIsListed
    <2>2. /\ \A k \in DOMAIN o1 : o1[k] \in Kind(fs, FALSE)
          /\ \A i \in Kind(fs, FALSE) : \E k \in DOMAIN o1 : o1[k] = i
      <3> HIDE DEF o1
      <3> QED
        BY <2>1 DEF Range
    <2>3. \A k, l \in DOMAIN o1 : k < l => Ahead(fs, o1[k], o1[l])
      BY PassIsListed
    <2>4. \A i : i \in Kind(fs, FALSE) <=> i \in DOMAIN fs /\ fs[i].catch_all = FALSE
      BY DEF Kind
    <2> HIDE DEF o1
    <2> QED
      BY <2>2, <2>3, <2>4
  <1>2. /\ \A k \in DOMAIN o2 : o2[k] \in DOMAIN fs /\ fs[o2[k]].catch_all = TRUE
        /\ \A i \in DOMAIN fs : fs[i].catch_all = TRUE => \E k \in DOMAIN o2 : o2[k] = i
        /\ \A k, l \in DOMAIN o2 : k < l => Ahead(fs, o2[k], o2[l])
    <2>1. Range(o2) = Kind(fs, TRUE)
      BY PassIsListed
    <2>2. /\ \A k \in DOMAIN o2 : o2[k] \in Kind(fs, TRUE)
          /\ \A i \in Kind(fs, TRUE) : \E k \in DOMAIN o2 : o2[k] = i
      <3> HIDE DEF o2
      <3> QED
        BY <2>1 DEF Range
    <2>3. \A k, l \in DOMAIN o2 : k < l => Ahead(fs, o2[k], o2[l])
      BY PassIsListed
    <2>4. \A i : i \in Kind(fs, TRUE) <=> i \in DOMAIN fs /\ fs[i].catch_all = TRUE
      BY DEF Kind
    <2> HIDE DEF o2
    <2> QED
      BY <2>2, <2>3, <2>4
  <1>3. o1 \in Seq(DOMAIN fs) /\ o2 \in Seq(DOMAIN fs)
    BY PassIsListed
  <1>4. PICK n1 \in Nat : n1 = Len(o1) /\ DOMAIN o1 = 1 .. n1
    BY <1>3, LenProperties
  <1>5. PICK n2 \in Nat : n2 = Len(o2) /\ DOMAIN o2 = 1 .. n2
    BY <1>3, LenProperties
  <1>6. \A i \in DOMAIN fs : i \in Int /\ fs[i].catch_all \in BOOLEAN
    BY DEF Servable, Sortable
  <1>7. d.matched = (IF hits = {} THEN None ELSE Min(hits))
        /\ \A k \in DOMAIN o : d.evals[k].index = o[k]
    <2> DEFINE evals == Evaluated(new(fs), o, ctx, sc)
    <2>1. d = FirstPassing(evals)
      BY DEF debug_match, new
    <2>2. /\ DOMAIN evals = DOMAIN o
          /\ \A k \in DOMAIN o : /\ evals[k].index = o[k]
                                 /\ evals[k].eval.passed <=> Passing(o[k])
      <3> HIDE DEF o
      <3> QED
        BY DEF Evaluated, new
    <2> HIDE DEF evals, o, Passing, d
    <2>3. d = Found(evals, { k \in DOMAIN evals : evals[k].eval.passed })
      BY <2>1 DEF FirstPassing
    <2>4. { k \in DOMAIN evals : evals[k].eval.passed } = hits
      BY <2>2
    <2> HIDE DEF hits
    <2>5. d = Found(evals, hits)
      BY <2>3, <2>4
    <2> QED
      BY <2>2, <2>5 DEF Found
  <1> HIDE DEF o1, o2
  <1>8. Len(o) = n1 + n2 /\ o \in Seq(DOMAIN fs)
    BY <1>3, <1>4, <1>5, ConcatProperties
  <1>9. /\ DOMAIN o = 1 .. n1 + n2
        /\ \A k \in 1 .. n1 : o[k] = o1[k]
        /\ \A k \in 1 .. n2 : o[n1 + k] = o2[k]
    <2>1. DOMAIN o = 1 .. n1 + n2
      <3> HIDE DEF o
      <3> QED
        BY <1>8, LenProperties
    <2>2. /\ \A k \in 1 .. Len(o1) : o[k] = o1[k]
          /\ \A k \in 1 .. Len(o2) : o[Len(o1) + k] = o2[k]
      BY <1>3, ConcatProperties
    <2> QED
      BY <1>4, <1>5, <2>1, <2>2
  <1> HIDE DEF o
  <1>10. \A k \in (1 .. n1 + n2) \ (1 .. n1) : k - n1 \in 1 .. n2 /\ o[k] = o2[k - n1]
    <2> TAKE k \in (1 .. n1 + n2) \ (1 .. n1)
    <2>1. k - n1 \in 1 .. n2 /\ n1 + (k - n1) = k
      BY <1>4, <1>5
    <2> QED
      BY <1>9, <2>1
  <1>11. \A k \in 1 .. n1 + n2 : o[k] \in DOMAIN fs
    BY <1>8, <1>9, ElementOfSeq
  <1>12. \A i \in DOMAIN fs : \E k \in 1 .. n1 + n2 : o[k] = i
    <2> TAKE i \in DOMAIN fs
    <2>1. CASE fs[i].catch_all = FALSE
      <3>1. PICK k \in 1 .. n1 : o1[k] = i
        BY <1>1, <1>4, <2>1
      <3> QED
        BY <1>4, <1>5, <1>9, <3>1
    <2>2. CASE fs[i].catch_all = TRUE
      <3>1. PICK k \in 1 .. n2 : o2[k] = i
        BY <1>2, <1>5, <2>2
      <3>2. n1 + k \in 1 .. n1 + n2 /\ o[n1 + k] = i
        BY <1>9, <3>1
      <3> QED
        BY <3>2
    <2> QED
      BY <1>6, <2>1, <2>2
  <1>13. \A k, l \in 1 .. n1 + n2 : k <= l => Leads(fs, o[k], o[l])
    <2> SUFFICES ASSUME NEW k \in 1 .. n1 + n2, NEW l \in 1 .. n1 + n2, k <= l
                 PROVE  Leads(fs, o[k], o[l])
      OBVIOUS
    <2>1. \A x \in 1 .. n1 : o[x] = o1[x] /\ fs[o[x]].catch_all = FALSE
      BY <1>1, <1>4, <1>9
    <2>2. \A x \in (1 .. n1 + n2) \ (1 .. n1) : fs[o[x]].catch_all = TRUE
      BY <1>2, <1>5, <1>10
    <2>3. CASE k = l
      <3>1. o[k] \in Int /\ Ahead(fs, o[k], o[k])
        BY <1>6, <1>11 DEF Ahead
      <3> QED
        BY <2>3, <3>1 DEF Leads
    <2>4. CASE k < l /\ l \in 1 .. n1
      <3>1. k \in 1 .. n1
        BY <2>4
      <3>2. Ahead(fs, o1[k], o1[l])
        BY <1>1, <1>4, <2>4, <3>1
      <3> QED
        BY <2>1, <2>4, <3>1, <3>2 DEF Leads
    <2>5. CASE k \in 1 .. n1 /\ l \notin 1 .. n1
      BY <2>1, <2>2, <2>5 DEF Leads
    <2>6. CASE k < l /\ k \notin 1 .. n1 /\ l \notin 1 .. n1
      <3>1. /\ k - n1 \in DOMAIN o2 /\ l - n1 \in DOMAIN o2 /\ k - n1 < l - n1
            /\ o[k] = o2[k - n1] /\ o[l] = o2[l - n1]
        BY <1>4, <1>5, <1>10, <2>6
      <3>2. Ahead(fs, o[k], o[l])
        BY <1>2, <3>1
      <3> QED
        BY <2>2, <2>6, <3>2 DEF Leads
    <2> QED
      BY <1>4, <1>5, <2>3, <2>4, <2>5, <2>6
  <1>14. \A i \in DOMAIN fs : i \in m <=> Passing(i)
    OBVIOUS
  <1>15. \A k \in 1 .. n1 + n2 : k \in hits <=> Passing(o[k])
    BY <1>9
  <1>16. hits \subseteq 1 .. n1 + n2 /\ m \subseteq DOMAIN fs
    BY <1>9
  <1> HIDE DEF hits, m, Passing, d
  <1>17. CASE hits = {}
    <2>1. m = {}
      BY <1>12, <1>14, <1>15, <1>16, <1>17
    <2>2. f = None
      BY <1>7, <1>17
    <2> QED
      BY <2>1, <2>2 DEF FirstOf, m, d
  <1>18. CASE hits # {}
    <2> DEFINE k == Min(hits)
               i == o[k]
    <2>1. k \in hits /\ \A l \in hits : k <= l
      BY <1>16, <1>18, MinIsLeast
    <2>2. k \in 1 .. n1 + n2 /\ k # None
      <3>1. k \in 1 .. n1 + n2
        BY <1>16, <2>1
      <3> HIDE DEF k
      <3>2. k \in Int
        BY <3>1
      <3> QED
        BY <3>1, <3>2, NoneAssumption
    <2>3. f = fs[i]
      BY <1>7, <1>9, <1>18, <2>2
    <2>4. i \in m
      BY <1>11, <1>14, <1>15, <2>1, <2>2
    <2>5. ASSUME NEW j \in m
          PROVE  Leads(fs, i, j)
      <3>1. PICK l \in 1 .. n1 + n2 : o[l] = j
        BY <1>12, <1>16
      <3>2. l \in hits
        BY <1>14, <1>15, <1>16, <3>1
      <3>3. k <= l
        BY <2>1, <3>2
      <3> QED
        BY <1>13, <2>2, <3>1, <3>3
    <2> QED
      BY <2>3, <2>4, <2>5 DEF FirstOf, m, d
  <1> QED
    BY <1>17, <1>18

\* Where the debugger is given what the handler sees, it sees it so.
LEMMA SimulatedContext ==
  ASSUME NEW r \in LlmRequests, Simulated(Seen[r])
  PROVE  LET c == DebugContext(Seen[r].body, Seen[r].provider)
             d == Seen[r].ctx
         IN  /\ c.message = d.message /\ c.provider = d.provider /\ c.body = d.body
             /\ \A i \in DOMAIN live.fixtures :
                  LET m == live.fixtures[i].match_rule
                  IN  m # None => m.headers = << >> /\ (m.model = None \/ c.model = d.model)
  <1> DEFINE q == Seen[r]
             c == DebugContext(q.body, q.provider)
             d == q.ctx
             model == Get(q.body, "model")
             rules == { f.match_rule : f \in Range(live.fixtures) } \ {None}
  <1>1. d.provider = q.provider /\ d.body = q.body
    BY ContextIsOwn
  <1>2. /\ extract_user_message(q.body, q.provider) = d.message
        /\ model = Text(d.model) \/ \A m \in rules : m.model = None
        /\ \A m \in rules : m.headers = << >>
    BY DEF Simulated
  <1>3. /\ c.message = extract_user_message(q.body, q.provider)
        /\ c.provider = q.provider /\ c.body = q.body
        /\ c.model = IF model.kind = "string" /\ model.text # << >> THEN model.text ELSE None
    BY DEF DebugContext, Context
  <1>4. d.model # << >>
    BY TextsAssumption
  <1>5. \A i \in DOMAIN live.fixtures :
          LET m == live.fixtures[i].match_rule IN m # None => m \in rules
    BY DEF Range
  <1> HIDE DEF model, rules, q, c, d
  <1>6. model = Text(d.model) => c.model = d.model
    BY <1>3, <1>4 DEF Text
  <1> QED
    BY <1>1, <1>2, <1>3, <1>5, <1>6 DEF q, c, d

\* For a request that the debugger is given as the handler sees it, it names the
\* fixture that would answer (debug_match and evaluate_fixture against find_match
\* and fixture_matches), for any fixtures, requests and history of the server.
THEOREM DebuggerNamesTheAnswer ==
  ASSUME NEW CONSTANT Drafts, Drafting(Drafts), RuleShapes(Drafts)
  PROVE  Spec => []DebuggerAgrees
  <1>1. LiveBooks(Drafts) => DebuggerAgrees
    <2> SUFFICES ASSUME LiveBooks(Drafts), NEW r \in LlmRequests, Simulated(Seen[r])
                 PROVE  Select(r) = Debugged(Seen[r])
      BY DEF DebuggerAgrees
    <2> DEFINE fs == live.fixtures
               q == Seen[r]
               c == DebugContext(q.body, q.provider)
               d == q.ctx
               m == Matching(fs, r, q)
               passing == { i \in DOMAIN fs : evaluate_fixture(fs[i], c, states).passed }
    <2>1. Servable(fs) /\ m \in SUBSET DOMAIN fs /\ Select(r) = BestOf(fs, m)
      BY SelectedLeads
    <2>2. ASSUME NEW i \in DOMAIN fs
          PROVE  evaluate_fixture(fs[i], c, states).passed
                   <=> fixture_matches(fs[i], Matched(r, q), states)
      <3> DEFINE f == fs[i]
                 rule == f.match_rule
      <3>1. rule # None => RuleShape(rule)
        BY <2>2, MatchedMeets
      <3>2. fixture_matches(f, Matched(r, q), states) <=> Meets(f, d, states)
        BY <2>2, MatchedMeets
      <3>3. /\ c.message = d.message /\ c.provider = d.provider /\ c.body = d.body
            /\ rule # None => rule.headers = << >> /\ (rule.model = None \/ c.model = d.model)
        BY <2>2, SimulatedContext
      <3> HIDE DEF f, c, d
      <3>4. evaluate_fixture(f, c, states).passed <=> Meets(f, c, states)
        BY <3>1, EvaluationPasses
      <3>5. rule # None => (rule_matches(rule, c) <=> rule_matches(rule, d))
        BY <3>3, SameToTheRule
      <3>6. Meets(f, c, states) <=> Meets(f, d, states)
        BY <3>3, <3>5 DEF Meets
      <3> QED
        BY <3>2, <3>4, <3>6 DEF f, c, d
    <2>3. passing = m
      BY <2>2 DEF Matching
    <2>4. live = new(fs)
      BY DEF LiveBooks
    <2> DEFINE found == debug_match(new(fs), q.body, q.provider, states)
               f == IF found.matched = None THEN None ELSE fs[found.evals[found.matched].index]
    <2>5. FirstOf(fs, passing, f)
      BY <2>1, DebuggerFindsFirst
    <2>6. Debugged(q) = f
      BY <2>4 DEF Debugged, NamedFixture
    <2> HIDE DEF f, passing, m, fs, q
    <2>7. f = BestOf(fs, m)
      BY <2>1, <2>3, <2>5, FirstIsBest
    <2> QED
      BY <2>1, <2>6, <2>7 DEF q
  <1> QED
    BY <1>1, SpecLive, PTL
=============================================================================
